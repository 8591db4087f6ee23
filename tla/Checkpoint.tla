------------------------------ MODULE Checkpoint ------------------------------
(***************************************************************************)
(* Promise and finalization jobs of one isolate (crates/tachyon-vm): the   *)
(* job queue with its separately rooted active job (promise_state.rs), the *)
(* checkpoint that consumes it (promise.rs), the cleanup jobs              *)
(* (finalization.rs), the frames the dispatch loop runs (interpreter.rs)   *)
(* and the two ways a host reaches them: execute, which drains a complete  *)
(* checkpoint when the entry script returns, and the driver (driver.rs),   *)
(* which advances one transition per poll.                                 *)
(*                                                                         *)
(* A frame's pc is in its body, at its return or past it.  A job's frame   *)
(* remembers the site at which its caller resumes: the return that began   *)
(* the checkpoint, or offset 0, the start of the body, when the driver     *)
(* began it.  Jobs are numbered in the order in which they are enqueued;   *)
(* what a handler does is an input.  An async function's fiber is stacked  *)
(* on its caller's.  A frame is named for the continuation it returns to:  *)
(* "resolution" and "nested" are getters of a then property, called to     *)
(* settle the derived promise itself or by a native handler (a resolving   *)
(* function, finally) whose own reaction waits below.                      *)
(***************************************************************************)
EXTENDS Integers, FiniteSets, SequencesExt

CONSTANTS
  MaxScripts,   \* bound on the entry scripts executed
  MaxJobs,      \* bound on the promise jobs enqueued
  MaxWaits,     \* bound on the Atomics.waitAsync promises created
  MaxCleanups,  \* bound on the finalization records collected
  None,         \* Option::None
  Undefined     \* the driver's checkpoint result

ASSUME BoundsAssumption == {MaxScripts, MaxJobs, MaxWaits, MaxCleanups} \subseteq Nat
ASSUME ValuesAssumption == None # Undefined /\ {None, Undefined} \cap Nat = {}

Kinds ==
  {"entry", "reaction", "thenable", "capability", "resolution", "nested", "resume", "cleanup"}
Frame == [kind : Kinds, job : Nat, pc : {"body", "return", "past"}, site : {"body", "return"}]

VARIABLES
  jobs,         \* PromiseJobQueue.jobs
  active,       \* PromiseJobQueue.active
  result,       \* PromiseJobQueue.checkpoint_result: a script, standing for its value
  collected,    \* the heap's pending finalization records
  cleanups,     \* FinalizationJobs.entries
  running,      \* FinalizationJobs.running
  frames,       \* Fiber.frames with their native continuations
  suppress,     \* suppress_promise_checkpoint
  driverWork,   \* driver_active_work is Some(PromiseJob)
  waits,        \* pending Atomics.waitAsync promises
  mode,         \* "idle", "run", "throw", "checkpoint" (a loop) or "step" (the driver's)
  scripts, jobCount, waitCount, cleanupCount,  \* numbers handed out
  regular,      \* history: the host has only called execute, and budgets and memory sufficed
  ended,        \* history: scripts whose body was executed to its return
  begun, cleaned, \* history: jobs and cleanups in the order they were begun, completed
  stranded      \* history: jobs that an error left in the active slot

queueVars == <<jobs, active, result>>
cleanupVars == <<collected, cleanups, running>>
countVars == <<scripts, jobCount, waitCount, cleanupCount>>
historyVars == <<ended, begun, cleaned, stranded>>
vars == <<jobs, active, result, collected, cleanups, running, frames, suppress,
          driverWork, waits, mode, scripts, jobCount, waitCount, cleanupCount,
          regular, ended, begun, cleaned, stranded>>

Init ==
  /\ jobs = <<>> /\ active = None /\ result = None
  /\ collected = <<>> /\ cleanups = <<>> /\ running = FALSE
  /\ frames = <<>> /\ suppress = FALSE /\ driverWork = FALSE /\ waits = 0
  /\ mode = "idle"
  /\ scripts = 0 /\ jobCount = 0 /\ waitCount = 0 /\ cleanupCount = 0
  /\ regular = TRUE /\ ended = {} /\ begun = <<>> /\ cleaned = <<>> /\ stranded = {}

Top == Last(frames)

\* Enqueue n jobs: settle_promise pushes one per reaction.
\* Mutant: at the front.
PushedFront(n) == [k \in 1..n |-> jobCount + k] \o jobs
Pushed(n) == jobs \o [k \in 1..n |-> jobCount + k]
Enqueue(n) ==
  /\ jobCount + n <= MaxJobs
  /\ jobs' = Pushed(n)
  /\ jobCount' = jobCount + n

\* frame.pc = site.call_site for the frame below a finished one.
Resited(stack, site) ==
  IF stack = <<>> THEN stack ELSE [stack EXCEPT ![Len(stack)].pc = site]

-----------------------------------------------------------------------------
(***************************************************************************)
(* The host.                                                               *)
(***************************************************************************)

\* execute and execute_without_promise_checkpoint: enter_with_parent discards
\* whatever the fiber was doing.  DriverBusy changes nothing.
Execute(suppressed) ==
  /\ mode = "idle" /\ ~driverWork
  /\ scripts < MaxScripts
  /\ scripts' = scripts + 1
  /\ frames' = <<[kind |-> "entry", job |-> scripts + 1, pc |-> "body", site |-> "body"]>>
  /\ suppress' = suppressed
  /\ mode' = "run"
  /\ UNCHANGED <<queueVars, cleanupVars, driverWork, waits, jobCount, waitCount,
                 cleanupCount, historyVars>>

\* poll_pending_atomics_waits settles a ready waiter's promise.
DriveWait ==
  /\ mode = "idle"
  /\ waits > 0
  /\ waits' = waits - 1
  /\ Enqueue(1)
  /\ UNCHANGED <<active, result, cleanupVars, frames, suppress, driverWork, mode, scripts,
                 waitCount, cleanupCount, historyVars>>

\* advance_driver: the active work, or one checkpoint transition.
Drive ==
  /\ mode = "idle"
  /\ \/ driverWork /\ mode' = "run"
     \/ /\ ~driverWork
        /\ jobs # <<>> \/ active # None \/ result # None
        /\ mode' = "step"
  /\ UNCHANGED <<queueVars, cleanupVars, frames, suppress, driverWork, waits, countVars,
                 historyVars>>

-----------------------------------------------------------------------------
(***************************************************************************)
(* Leaving to the host.                                                    *)
(***************************************************************************)

\* A terminal outcome: finish_driver_work clears the active work.
\* execute_without_promise_checkpoint restores suppress_promise_checkpoint.
Terminal == mode' = "idle" /\ driverWork' = FALSE /\ suppress' = FALSE

\* BudgetExhausted and Err: the driver keeps its active work.
Yield ==
  /\ mode = "run"
  /\ mode' = "idle" /\ suppress' = FALSE
  /\ UNCHANGED <<queueVars, cleanupVars, frames, driverWork, waits, countVars, historyVars>>

\* DecodeInvariant: there is no instruction to continue with.
Stray ==
  /\ mode = "run" /\ Top.pc = "past"
  /\ mode' = "idle"
  /\ UNCHANGED <<queueVars, cleanupVars, frames, suppress, driverWork, waits, countVars,
                 historyVars>>

-----------------------------------------------------------------------------
(***************************************************************************)
(* The dispatch loop.                                                      *)
(***************************************************************************)

\* A body runs to its return, settling promises and creating waiters.
RunBody(n, w) ==
  /\ mode = "run" /\ Top.pc = "body"
  /\ Enqueue(n)
  /\ waitCount + w <= MaxWaits
  /\ waits' = waits + w /\ waitCount' = waitCount + w
  /\ frames' = [frames EXCEPT ![Len(frames)].pc = "return"]
  /\ ended' = IF Top.kind = "entry" THEN ended \cup {Top.job} ELSE ended
  /\ UNCHANGED <<active, result, cleanupVars, suppress, driverWork, mode, scripts,
                 cleanupCount, begun, cleaned, stranded>>

\* A collection during an allocation of the body finds a dead registration.
Collect ==
  /\ mode = "run" /\ Top.pc = "body"
  /\ cleanupCount < MaxCleanups
  /\ cleanupCount' = cleanupCount + 1
  /\ collected' = Append(collected, cleanupCount + 1)
  /\ UNCHANGED <<queueVars, cleanups, running, frames, suppress, driverWork, waits, mode,
                 scripts, jobCount, waitCount, historyVars>>

Throw ==
  /\ mode = "run" /\ Top.pc = "body"
  /\ mode' = "throw"
  /\ UNCHANGED <<queueVars, cleanupVars, frames, suppress, driverWork, waits, countVars,
                 historyVars>>

\* finish_entry_execution; the pc was advanced before the dispatch.
ReturnEntry ==
  /\ mode = "run" /\ Top.pc = "return" /\ Top.kind = "entry"
  /\ frames' = [frames EXCEPT ![Len(frames)].pc = "past"]
  /\ IF suppress
     THEN Terminal
     ELSE mode' = "checkpoint" /\ UNCHANGED <<driverWork, suppress>>
  /\ UNCHANGED <<queueVars, cleanupVars, waits, countVars, historyVars>>

\* finish_active, and the caller resumes at the site.
\* Mutant: the active job is not released.
ReleasedNot == active
Released == None
FinishJob(n) ==
  /\ active' = Released
  /\ frames' = Resited(Front(frames), Top.site)
  /\ Enqueue(n)
  /\ mode' = "run"
  /\ UNCHANGED <<result, cleanupVars, suppress, driverWork, waits, scripts, waitCount,
                 cleanupCount, historyVars>>

\* begin_promise_reaction_settlement calls bytecode: the capability's callback, or
\* the getter of the value's then property when the promise is intrinsic.
CallToSettle(kind, n) ==
  /\ Enqueue(n)
  /\ frames' = Append(Front(frames), [Top EXCEPT !.kind = kind, !.pc = "body"])
  /\ mode' = "run"
  /\ UNCHANGED <<active, result, cleanupVars, suppress, driverWork, waits, scripts, waitCount,
                 cleanupCount, historyVars>>

\* A handler's or a then getter's return settles the derived promise, whose
\* reactions are enqueued, or enqueues a thenable job; a thenable's or a
\* capability's return only finishes.
ReturnJob(n) ==
  /\ mode = "run" /\ Top.pc = "return"
  /\ Top.kind \in {"reaction", "thenable", "capability", "resolution", "nested"}
  /\ n > 0 => Top.kind \in {"reaction", "resolution", "nested"}
  /\ FinishJob(n)

\* What the handler returned has a then getter, or the capability is generic.  A
\* finally callback's result is resolved within the handler first.
ReturnToSettle(kind, n) ==
  /\ mode = "run" /\ Top.pc = "return" /\ Top.kind \in {"reaction", "nested"}
  /\ kind = "nested" => Top.kind = "reaction"
  /\ n > 0 => Top.kind = "nested"
  /\ CallToSettle(kind, n)

\* call_generic_promise_capability meets a language error: the job is released and
\* resume_native_continuation throws the error into the frame below.
ReturnRefused ==
  /\ mode = "run" /\ Top.pc = "return" /\ Top.kind \in {"reaction", "nested"}
  /\ active' = Released
  /\ frames' = Front(frames)
  /\ mode' = "throw"
  /\ UNCHANGED <<jobs, result, cleanupVars, suppress, driverWork, waits, countVars, historyVars>>

\* An async function awaits again or completes, which settles its promise: its
\* caller's fiber is restored.
LeaveResume(n) ==
  /\ Enqueue(n)
  /\ mode' = "run"
  /\ frames' = Front(frames)
  /\ UNCHANGED <<active, result, cleanupVars, suppress, driverWork, waits, scripts, waitCount,
                 cleanupCount, historyVars>>

ReturnResume(n) ==
  /\ mode = "run" /\ Top.pc = "return" /\ Top.kind = "resume"
  /\ LeaveResume(n)

\* finish_finalization_cleanup_job.
FrontCompleted == Tail(cleanups)
RunningAfter == FALSE
CompleteCleanup ==
  /\ running' = RunningAfter
  /\ cleanups' = FrontCompleted
  /\ cleaned' = Append(cleaned, Head(cleanups))

ReturnCleanup ==
  /\ mode = "run" /\ Top.pc = "return" /\ Top.kind = "cleanup"
  /\ CompleteCleanup
  /\ frames' = Resited(Front(frames), Top.site)
  /\ UNCHANGED <<queueVars, collected, suppress, driverWork, waits, mode, countVars,
                 ended, begun, stranded>>

\* dispatch_abrupt, one frame at a time.  unhandled_throw keeps the entry frame.
ThrowEntry ==
  /\ mode = "throw" /\ Top.kind = "entry"
  /\ Terminal
  /\ UNCHANGED <<queueVars, cleanupVars, frames, waits, countVars, historyVars>>

\* begin_promise_reaction_rejection, reject_promise_thenable,
\* reject_promise_resolution.
ThrowJob(n) ==
  /\ mode = "throw" /\ Top.kind \in {"reaction", "thenable", "resolution"}
  /\ FinishJob(n)

ThrowToCapability ==
  /\ mode = "throw" /\ Top.kind = "reaction"
  /\ CallToSettle("capability", 0)

\* The generic rejection meets a language error.  It is thrown into the frame below,
\* or returned to the host when the throw was not an instruction's.
ThrowRefused ==
  /\ mode = "throw" /\ Top.kind = "reaction"
  /\ active' = Released
  /\ frames' = Front(frames)
  /\ \/ UNCHANGED <<mode, suppress>>
     \/ mode' = "idle" /\ suppress' = FALSE
  /\ UNCHANGED <<jobs, result, cleanupVars, driverWork, waits, countVars, historyVars>>

\* reject_promise_resolution rejects the inner promise and returns to the dispatch
\* loop, which knows only frames: the reaction below is left behind, and the caller
\* continues where it stands.
ThrowNested(n) ==
  /\ mode = "throw" /\ Top.kind = "nested"
  /\ Enqueue(n)
  /\ frames' = Front(frames)
  /\ mode' = "run"
  /\ stranded' = stranded \cup {Top.job}
  /\ UNCHANGED <<active, result, cleanupVars, suppress, driverWork, waits, scripts, waitCount,
                 cleanupCount, ended, begun, cleaned>>

\* finish_async_function_throw rejects the function's promise.
ThrowResume(n) ==
  /\ mode = "throw" /\ Top.kind = "resume"
  /\ LeaveResume(n)

\* A throwing capability callback is reported to the host.
ThrowCapability ==
  /\ mode = "throw" /\ Top.kind = "capability"
  /\ active' = Released
  /\ frames' = Front(frames)
  /\ Terminal
  /\ UNCHANGED <<jobs, result, cleanupVars, waits, countVars, historyVars>>

\* The record is consumed and the throw goes on to the frame below.
ThrowCleanup ==
  /\ mode = "throw" /\ Top.kind = "cleanup"
  /\ CompleteCleanup
  /\ frames' = Front(frames)
  /\ UNCHANGED <<queueVars, collected, suppress, driverWork, waits, mode, countVars,
                 ended, begun, stranded>>

-----------------------------------------------------------------------------
(***************************************************************************)
(* promise_checkpoint_step.                                                *)
(***************************************************************************)
InStep == mode \in {"checkpoint", "step"}
ReturnSite == IF mode = "step" THEN "body" ELSE "return"

\* begin_checkpoint keeps a result that is there.
StepValue == IF mode = "step" THEN Undefined ELSE Top.job
CheckpointResult == IF result = None THEN StepValue ELSE result

\* begin_next; n jobs are enqueued by what the step itself settles.
TakeJob(n) ==
  /\ InStep
  /\ jobs # <<>>
  /\ jobCount + n <= MaxJobs
  /\ result' = CheckpointResult
  /\ jobs' = Tail(Pushed(n)) /\ jobCount' = jobCount + n
  /\ begun' = Append(begun, Head(jobs))
  /\ UNCHANGED <<cleanupVars, waits, scripts, waitCount, cleanupCount, ended, cleaned>>

\* Suspended: promise_checkpoint returns to the dispatch loop, advance_driver
\* records its active work.
Suspended ==
  IF mode = "step" THEN mode' = "idle" /\ driverWork' = TRUE
  ELSE mode' = "run" /\ UNCHANGED driverWork
Progressed ==
  mode' = (IF mode = "step" THEN "idle" ELSE mode) /\ UNCHANGED driverWork

\* The handler, the thenable or the paused async function is bytecode, or else
\* what settles the derived promise is (CallToSettle): a frame is published.  A
\* resumed async function is no longer the active job.
BeginJob(kind, n) ==
  LET job == [kind |-> kind, job |-> Head(jobs), pc |-> "body", site |-> ReturnSite] IN
  /\ TakeJob(n)
  /\ n > 0 => kind = "capability"
  /\ IF kind = "resume"
     THEN active' = Released /\ frames' = Append(Resited(frames, ReturnSite), job)
     ELSE active' = Head(jobs) /\ frames' = Append(frames, job)
  /\ Suspended
  /\ UNCHANGED <<suppress, stranded>>

\* No handler: the derived promise is settled at once.  Or a native thenable
\* failed: its promise is rejected.
PassThrough(n) ==
  /\ TakeJob(n)
  /\ active' = Released
  /\ frames' = Resited(frames, ReturnSite)
  /\ Progressed
  /\ UNCHANGED <<suppress, stranded>>

\* A native thenable that returned: no frame is touched.
CallNativeThenable(n) ==
  /\ TakeJob(n)
  /\ active' = Released
  /\ Progressed
  /\ UNCHANGED <<frames, suppress, stranded>>

\* A native handler completes during the call, yet the step reports Suspended
\* because a frame is there.
CallNative(n) ==
  /\ TakeJob(n)
  /\ active' = Released
  /\ frames' = Resited(frames, ReturnSite)
  /\ Suspended
  /\ UNCHANGED <<suppress, stranded>>

\* A call is an error.  Only call_generic_promise_capability releases the job then.
Leave(released) ==
  /\ TakeJob(0)
  /\ active' = IF released THEN Released ELSE Head(jobs)
  /\ stranded' = IF released THEN stranded ELSE stranded \cup {Head(jobs)}
  /\ UNCHANGED <<frames, driverWork>>

\* A language error, as of a class constructor called for a handler: the return that
\* began the checkpoint throws it, the driver returns it to the host.
Thrown == mode' = (IF mode = "step" THEN "idle" ELSE "throw") /\ UNCHANGED suppress
JobThrows(released) == Leave(released) /\ Thrown

\* A host error: the arguments or the continuation cannot be allocated.
JobFails(released) == Leave(released) /\ mode' = "idle" /\ suppress' = FALSE

\* resume_dynamic_import_job settles the import's promise, and neither releases
\* the job nor touches a frame.
AnswerImport(n) ==
  /\ TakeJob(n)
  /\ active' = Head(jobs)
  /\ stranded' = stranded \cup {Head(jobs)}
  /\ Suspended
  /\ UNCHANGED <<frames, suppress>>

\* begin_next found nothing; a native cleanup callback enqueues n jobs.
NoJob(n) ==
  /\ InStep
  /\ jobs = <<>>
  /\ active' = None
  /\ Enqueue(n)
  /\ UNCHANGED <<waits, scripts, waitCount, cleanupCount, ended, begun, stranded>>

\* begin_finalization_cleanup_job: FinalizationCleanupReentrant.
MayClean == ~running
CleanupRefused ==
  /\ NoJob(0)
  /\ ~MayClean
  /\ result' = CheckpointResult
  /\ mode' = "idle" /\ suppress' = FALSE
  /\ UNCHANGED <<cleanupVars, frames, driverWork, cleaned>>

\* try_schedule_snapshot.
Scheduled == IF cleanups = <<>> THEN collected ELSE cleanups
Uncollected == IF cleanups = <<>> THEN <<>> ELSE collected

\* The front record's callback is bytecode.
BeginCleanup ==
  /\ NoJob(0)
  /\ MayClean /\ Scheduled # <<>>
  /\ result' = CheckpointResult
  /\ cleanups' = Scheduled /\ collected' = Uncollected
  /\ running' = TRUE
  /\ frames' = Append(frames, [kind |-> "cleanup", job |-> Head(Scheduled), pc |-> "body",
                               site |-> ReturnSite])
  /\ Suspended
  /\ UNCHANGED <<suppress, cleaned>>

\* Its call is done, natively or with an error: the record is consumed.
ConsumeFront ==
  /\ cleanups' = Tail(Scheduled) /\ collected' = Uncollected
  /\ cleaned' = Append(cleaned, Head(Scheduled))
  /\ UNCHANGED running

\* A native callback returned: another step follows while records remain.
CallNativeCleanup(n) ==
  /\ NoJob(n)
  /\ MayClean /\ Scheduled # <<>>
  /\ Len(Scheduled \o Uncollected) > 1
  /\ ConsumeFront
  /\ result' = CheckpointResult
  /\ Progressed
  /\ UNCHANGED <<frames, suppress>>

\* The call is a language error: the record is consumed.
CleanupThrows ==
  /\ NoJob(0)
  /\ MayClean /\ Scheduled # <<>>
  /\ ConsumeFront
  /\ result' = CheckpointResult
  /\ Thrown
  /\ UNCHANGED <<frames, driverWork>>

\* A host error: the callback's arguments cannot be allocated, and the record stays
\* at the front; or the call is one, and it is consumed.
CleanupFails(consumed) ==
  /\ NoJob(0)
  /\ MayClean /\ Scheduled # <<>>
  /\ IF consumed THEN ConsumeFront
     ELSE /\ cleanups' = Scheduled /\ collected' = Uncollected
          /\ UNCHANGED <<running, cleaned>>
  /\ result' = CheckpointResult
  /\ mode' = "idle" /\ suppress' = FALSE
  /\ UNCHANGED <<frames, driverWork>>

\* finish_checkpoint; the last native callback may have been completed just now.
\* Mutants: records are left to a later checkpoint; a record is waited for.
DrainedAlways == TRUE
DrainedOfRecords == Len(Scheduled \o Uncollected) = 1
Drained == Len(Scheduled \o Uncollected) <= 1
Complete(n) ==
  /\ NoJob(n)
  /\ MayClean /\ Drained
  /\ IF Scheduled = <<>> THEN n = 0 /\ UNCHANGED <<cleanupVars, cleaned>> ELSE ConsumeFront
  /\ result' = None
  /\ IF mode = "checkpoint"
     THEN /\ Terminal
     ELSE mode' = "idle" /\ UNCHANGED <<driverWork, suppress>>
  /\ UNCHANGED frames

-----------------------------------------------------------------------------
Settled == 0..MaxJobs   \* numbers of jobs that one operation enqueues

Run ==
  \/ \E n \in Settled, w \in 0..1 : RunBody(n, w)
  \/ Collect
  \/ ReturnEntry
  \/ \E n \in Settled : ReturnJob(n)
  \/ \E kind \in {"capability", "resolution", "nested"}, n \in Settled : ReturnToSettle(kind, n)
  \/ ReturnRefused
  \/ \E n \in Settled : ReturnResume(n)
  \/ ReturnCleanup

Unwind ==
  \/ Throw
  \/ ThrowEntry
  \/ \E n \in Settled : ThrowJob(n)
  \/ ThrowToCapability
  \/ ThrowRefused
  \/ \E n \in Settled : ThrowNested(n)
  \/ \E n \in Settled : ThrowResume(n)
  \/ ThrowCapability
  \/ ThrowCleanup

Step ==
  \/ \E kind \in {"reaction", "thenable", "capability", "resolution", "nested", "resume"},
        n \in Settled : BeginJob(kind, n)
  \/ \E n \in Settled : PassThrough(n)
  \/ \E n \in Settled : CallNativeThenable(n)
  \/ \E n \in Settled : CallNative(n)
  \/ \E released \in BOOLEAN : JobThrows(released)
  \/ BeginCleanup
  \/ \E n \in Settled : CallNativeCleanup(n)
  \/ CleanupThrows
  \/ \E n \in Settled : Complete(n)

Vm == Run \/ Unwind \/ Step \/ Stray

\* A host that calls execute alone, with budgets and memory that suffice.
Regular == Execute(FALSE) \/ Vm

\* Every host: executions that exhaust their budget or fail, and the driver.
Irregular ==
  \/ Execute(TRUE) \/ DriveWait \/ Drive
  \/ Yield \/ CleanupRefused
  \/ \E released \in BOOLEAN : JobFails(released)
  \/ \E consumed \in BOOLEAN : CleanupFails(consumed)
  \/ \E n \in Settled : ~regular /\ AnswerImport(n)   \* the driver began the import

Next == (Regular /\ UNCHANGED regular) \/ (Irregular /\ regular' = FALSE)
Spec == Init /\ [][Next]_vars

\* The isolate runs on the caller's thread until it returns.
Isolate == (Vm /\ UNCHANGED regular) \/ (CleanupRefused /\ regular' = FALSE)
FairSpec == Spec /\ WF_vars(Isolate)

-----------------------------------------------------------------------------
\* Jobs begin in the order in which they were enqueued, none twice and none
\* forgotten, over any mixture of synchronous checkpoints, driver polls,
\* suspended and discarded executions: "FIFO jobs remain isolate-local and
\* rooted until a checkpoint consumes them".  Cleanups complete in the order in
\* which their records were collected, each once, although newly collected
\* records wait for the queue to be empty.
QueuesInOrder ==
  /\ begun \o jobs = [k \in 1..jobCount |-> k]
  /\ cleaned \o cleanups \o collected = [k \in 1..cleanupCount |-> k]

\* A cleanup callback on the stack runs for the record at the front of the
\* queue, which is therefore rooted, so that complete_front's expectation "a
\* callback can complete only the rooted front job" holds on return and throw.
\*
\* For a host that only calls execute, with budgets and memory that suffice: the
\* active job's handler, thenable, getter or capability callback is on the stack, so
\* that it will be finished before begin_next takes another one, or an error of its
\* call or of a getter within it stranded the job (begin_next's assertion
\* debug_assert!(self.active.is_none()) fails on such a job, and on no other); the
\* flag that refuses a recursive cleanup safepoint is set only while a cleanup
\* callback is on the stack; and finishing a job never sends the entry script back
\* to its start, but "lets the entry return resume the same checkpoint".
CallbacksOnStack ==
  /\ \A i \in DOMAIN frames : frames[i].kind = "cleanup" =>
       running /\ cleanups # <<>> /\ Head(cleanups) = frames[i].job
  /\ regular =>
       /\ active # None =>
            \/ /\ mode \notin {"checkpoint", "step"}
               /\ \E i \in DOMAIN frames :
                    /\ frames[i].kind \in {"reaction", "thenable", "capability", "resolution",
                                          "nested"}
                    /\ frames[i].job = active
            \/ active \in stranded
       /\ running => \E i \in DOMAIN frames : frames[i].kind = "cleanup"
       /\ mode = "run" /\ Top.kind = "entry" /\ Top.pc = "body" => Top.job \notin ended

\* The step that ends a checkpoint, a host's or the driver's, leaves no cleanup
\* record and no active job, and no queued job unless a native cleanup callback ran
\* in that very step: then those it enqueued, and no older ones.  In that case, and
\* in no other, finish_checkpoint's assertion debug_assert!(!self.has_pending())
\* fails.
CompletedDrained ==
  [][InStep /\ result' = None =>
       /\ active' = None /\ cleanups' = <<>> /\ collected' = <<>>
       /\ Len(jobs') = jobCount' - jobCount
       /\ jobs' # <<>> => Len(cleaned') = Len(cleaned) + 1]_vars

\* Whatever the host began returns to it, when the scripts enqueue finitely many
\* jobs: the checkpoint loop consumes a job or a record, or ends, on every turn.
ReturnsToHost == mode # "idle" ~> mode = "idle"

=============================================================================
