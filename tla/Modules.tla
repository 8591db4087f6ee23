------------------------------- MODULE Modules -------------------------------
(***************************************************************************)
(* Evaluation of module graphs and dynamic imports: module/start.rs,       *)
(* module/evaluation.rs, module/lifecycle.rs, module/dynamic_import.rs,    *)
(* async_module.rs and the part of driver.rs that schedules them, on top   *)
(* of the loading and linking of ModuleLink.                               *)
(*                                                                         *)
(* The host loads graphs, asks for evaluation (through a promise or with   *)
(* the synchronous call), serves dynamic import requests and polls the     *)
(* driver; one poll is one scheduler transition.  A module body runs until *)
(* it returns, throws or, at a top-level await, suspends; it may run out   *)
(* of its quantum at any point, so the host gets control while it is       *)
(* active.  Job queue and checkpoint are those of Checkpoint, reduced to   *)
(* what module evaluation reads of them.                                   *)
(***************************************************************************)
EXTENDS ModuleLink, FiniteSets

CONSTANTS
  Asynchronous, \* sets of modules with a top-level await to check
  Entries,     \* modules the host evaluates through a promise
  Called,      \* modules it evaluates with the synchronous call
  Targets,     \* modules that bodies import dynamically
  MaxCalls,    \* bound on the synchronous evaluate_module calls
  MaxImports,  \* bound on the import() calls of all bodies
  Failing,     \* modules whose start may meet a host error, as a full heap
  Unresolvable \* modules whose namespace may be refused, for a missing export

VARIABLES
  tla,         \* has_top_level_await
  eval,        \* ModuleEvaluationState
  parents,     \* async_parents: how often each module is registered on another
  pending,     \* pending_async_dependencies
  order,       \* async_evaluation_order; 0 for None
  nextOrder,   \* next_async_evaluation_order
  ready,       \* ready_async_modules: how often each module is queued
  start,       \* start_state
  active,      \* the body that owns the Fiber (driver_active_work)
  waits,       \* suspended bodies of each module; a body awaits once
  jobs,        \* the promise job queue
  slot,        \* PromiseJobQueue::active is occupied
  checkpoint,  \* checkpoint_result is set
  promise,     \* evaluation_promise of a cycle root and its state
  reactions,   \* imports that wait for the evaluation promise
  imports,     \* the active dynamic imports, in their vector's order
  answer,      \* state of the promise every import() returned
  call,        \* the module of the evaluate_module call in progress
  calls,       \* such calls made so far
  failed,      \* history: modules that met a host error and were not restarted
  completed    \* history: modules whose record has been Evaluated

evalVars == <<eval, parents, pending, order, nextOrder, ready>>
jobVars == <<jobs, slot, checkpoint>>
importVars == <<imports, answer>>
callVars == <<call, calls, failed, completed>>
promiseVars == <<promise, reactions>>
vars == <<linkVars, tla, evalVars, start, active, waits, jobVars, promiseVars,
          importVars, callVars>>

NoStart == [phase |-> "none", frames |-> <<>>, seen |-> {}, list |-> <<>>, cursor |-> 1]
NoBody == [module |-> None, run |-> "none"]

NoParents == [p \in Modules |-> 0]

Init ==
  /\ LinkInit
  /\ tla \in Asynchronous
  /\ eval = [m \in Modules |-> "unevaluated"]
  /\ parents = [m \in Modules |-> NoParents]
  /\ pending = [m \in Modules |-> 0]
  /\ order = [m \in Modules |-> 0]
  /\ nextOrder = 1
  /\ ready = [m \in Modules |-> 0]
  /\ start = NoStart
  /\ active = NoBody
  /\ waits = [m \in Modules |-> 0]
  /\ jobs = <<>>
  /\ slot = FALSE
  /\ checkpoint = FALSE
  /\ promise = [m \in Modules |-> "none"]
  /\ reactions = [m \in Modules |-> <<>>]
  /\ imports = <<>>
  /\ answer = <<>>
  /\ call = None
  /\ calls = 0
  /\ failed = {}
  /\ completed = {}

Terminal(m) == eval[m] \in {"evaluated", "errored"}
Queued == {m \in Modules : ready[m] > 0}
Starting == start.phase # "none"

\* The body executes, in its first run or after its await.  A refused start or
\* completion leaves "stuck" work in the driver, with an empty Fiber: the next
\* poll fails an expectation of execute_batch.
Running == active.run \in {"first", "resumed"}

\* driver_is_busy
DriverBusy == active.module # None \/ Starting

\* The host is not inside one of its calls.
AtHost == load.phase = "idle" /\ call = None

-----------------------------------------------------------------------------
(* Completion: complete_evaluation and reject_evaluation_tree. *)

Registered(m) == {p \in Modules : parents[m][p] > 0}

\* Parents that complete(m) counts down, once per registration.
Counting(m) == {p \in Registered(m) : eval[p] = "waiting" /\ pending[p] > 0}

\* Mutant: a parent that waits for several modules is released by the first.
ReleasedAtOnce(m, p) == TRUE

\* The counter of the parent reaches zero.
Released(m, p) == pending[p] <= parents[m][p]

\* Mutant: the rejection reaches only the importers registered on the module itself.
RejectedParents(m) ==
  {x \in {m} \cup Registered(m) : eval[x] # "errored"}

\* The module and every ancestor registered on it, errored ones excepted.
RejectedTree(m) ==
  LET up[n \in 0 .. Cardinality(Modules)] ==
        IF n = 0 THEN {x \in {m} : eval[x] # "errored"}
        ELSE up[n - 1] \cup {p \in UNION {Registered(x) : x \in up[n - 1]} : eval[p] # "errored"}
  IN up[Cardinality(Modules)]

CompleteOk(m) ==
  /\ eval' = [eval EXCEPT ![m] = "evaluated"]
  /\ parents' = [parents EXCEPT ![m] = NoParents]
  /\ pending' = [p \in Modules |-> CASE p \notin Counting(m) -> pending[p]
                                     [] Released(m, p) -> 0
                                     [] OTHER -> pending[p] - parents[m][p]]
  /\ ready' = [p \in Modules |-> IF p \in Counting(m) /\ Released(m, p)
                                 THEN ready[p] + 1 ELSE ready[p]]
  /\ completed' = completed \cup {m}

\* With final = "evaluated" the caller stores a second, normal completion on
\* top of the rejection.
CompleteErr(m, final) ==
  LET tree == RejectedTree(m)
  IN /\ eval' = [x \in Modules |-> CASE x = m -> final
                                     [] x \in tree \ {m} -> "errored"
                                     [] OTHER -> eval[x]]
     /\ parents' = [x \in Modules |-> IF x \in tree THEN NoParents ELSE parents[x]]
     /\ completed' = IF final = "evaluated" THEN completed \cup {m} ELSE completed
     /\ UNCHANGED <<pending, ready>>

-----------------------------------------------------------------------------
(* Start: traverse the graph in postorder, then register every module. *)

StartFrame(m) == [module |-> m, next |-> 1]

StartOf(m) == [NoStart EXCEPT !.phase = "traverse", !.seen = {cycleRoot[m]},
                              !.frames = <<StartFrame(cycleRoot[m])>>]

\* evaluate_module_promise for a cycle root that has no promise yet; with one,
\* the call only returns it.  Modules an earlier call has queued may still be
\* queued, and Unevaluated.
EvaluatePromise(m) ==
  /\ AtHost
  /\ m \in Linked
  /\ promise[cycleRoot[m]] = "none"
  /\ ~DriverBusy
  /\ promise' = [promise EXCEPT ![cycleRoot[m]] = "pending"]
  /\ start' = StartOf(m)
  /\ UNCHANGED <<linkVars, tla, evalVars, active, waits, jobVars, reactions,
                 importVars, callVars>>

\* evaluate_module: a finished root is answered from its record; otherwise the
\* call runs the start and then ready modules and jobs until it can return.
EvaluateModule(m) ==
  /\ AtHost
  /\ m \in Linked
  /\ ~Terminal(cycleRoot[m])
  /\ ~DriverBusy
  /\ calls < MaxCalls
  /\ calls' = calls + 1
  /\ call' = m
  /\ start' = StartOf(m)
  /\ UNCHANGED <<linkVars, tla, evalVars, active, waits, jobVars, promiseVars,
                 importVars, failed, completed>>

TopFrame == Last(start.frames)

\* advance_evaluation_traversal: one request, or one postorder publication.
Traverse ==
  /\ load.phase = "idle"
  /\ start.phase = "traverse"
  /\ start.frames # <<>>
  /\ LET m == TopFrame.module
         n == Len(start.frames)
     IN IF TopFrame.next <= Len(graph[m])
        THEN LET c == graph[m][TopFrame.next]
                 moved == [start EXCEPT !.frames[n].next = @ + 1]
             IN start' = IF c \in start.seen THEN moved
                         ELSE [moved EXCEPT !.seen = @ \cup {c},
                                            !.frames = Append(@, StartFrame(c))]
        ELSE start' = [start EXCEPT !.frames = Front(@), !.list = Append(@, m)]
  /\ UNCHANGED <<linkVars, tla, evalVars, active, waits, jobVars, promiseVars,
                 importVars, callVars>>

\* The traversal is done; the Instantiate phase then creates the function
\* declarations of the unevaluated modules, none of which the model sees.
Instantiate ==
  /\ load.phase = "idle"
  /\ start.phase = "traverse"
  /\ start.frames = <<>>
  /\ start' = [start EXCEPT !.phase = "register"]
  /\ UNCHANGED <<linkVars, tla, evalVars, active, waits, jobVars, promiseVars,
                 importVars, callVars>>

External(m, d) == cycleRoot[d] # cycleRoot[m]

\* Mutant: a suspended dependency counts as done.
AwaitedForStarted(m, d) ==
  IF External(m, d)
  THEN {cycleRoot[d]} \ {x \in Modules : eval[x] \in {"evaluated", "async"}}
  ELSE {d} \ {x \in Modules : order[x] = 0}

\* What m waits for because of its request for d: the root of another cycle
\* until it is evaluated; within a cycle, a member registered before m.
AwaitedFor(m, d) ==
  IF External(m, d)
  THEN {cycleRoot[d]} \ {x \in Modules : eval[x] = "evaluated"}
  ELSE {d} \ {x \in Modules : order[x] = 0}

Dependencies(m) == UNION {AwaitedFor(m, d) : d \in ToSet(graph[m])}

\* advance_evaluation_registration for one module of the postorder list.  Its
\* scan, reserve, publish and finish stages are separate transitions, but while
\* a start is pending the driver takes no other step and the host may begin no
\* evaluation, so nothing they read can change between them.
Register ==
  /\ load.phase = "idle"
  /\ start.phase = "register"
  /\ start.cursor <= Len(start.list)
  /\ start' = [start EXCEPT !.cursor = @ + 1]
  /\ LET m == start.list[start.cursor]
         deps == Dependencies(m)
     IN IF eval[m] # "unevaluated"
        THEN UNCHANGED <<evalVars, completed>>
        ELSE IF \E d \in ToSet(graph[m]) : External(m, d) /\ eval[cycleRoot[d]] = "errored"
        THEN /\ CompleteErr(m, "errored")
             /\ UNCHANGED <<order, nextOrder>>
        ELSE /\ order' = [order EXCEPT ![m] = nextOrder]
             /\ nextOrder' = nextOrder + 1
             /\ UNCHANGED completed
             /\ IF deps = {}
                THEN /\ ready' = [ready EXCEPT ![m] = @ + 1]
                     /\ UNCHANGED <<eval, parents, pending>>
                ELSE /\ parents' = [x \in Modules |-> IF x \in deps
                                                      THEN [parents[x] EXCEPT ![m] = @ + 1]
                                                      ELSE parents[x]]
                     /\ pending' = [pending EXCEPT ![m] = Cardinality(deps)]
                     /\ eval' = [eval EXCEPT ![m] = "waiting"]
                     /\ UNCHANGED ready
  /\ UNCHANGED <<linkVars, tla, active, waits, jobVars, promiseVars, importVars,
                 call, calls, failed>>

FinishStart ==
  /\ load.phase = "idle"
  /\ start.phase = "register"
  /\ start.cursor > Len(start.list)
  /\ start' = NoStart
  /\ UNCHANGED <<linkVars, tla, evalVars, active, waits, jobVars, promiseVars,
                 importVars, callVars>>

-----------------------------------------------------------------------------
(* Bodies. *)

\* evaluate_module returns as soon as its root is terminal and the queue of
\* jobs is drained, so it starts no further module then.
MayStart == call # None => ~Terminal(call)

\* take_ready_module: the queued module of the smallest order.
Earliest(m) == m \in Queued /\ \A x \in Queued : order[m] <= order[x]

\* Mutant: an evaluated or suspended module may be started by its second entry.
StartableUnfinished(m) == eval[m] # "evaluating"

Startable(m) == eval[m] \in {"unevaluated", "waiting"}

\* Between bodies, when the loop takes the queued module.
TakesReady(m) ==
  /\ load.phase = "idle"
  /\ ~DriverBusy
  /\ MayStart
  /\ Earliest(m)
  /\ ready' = [ready EXCEPT ![m] = @ - 1]

\* start_ready_module_with_budget, which marks a body with a top-level await
\* AsyncEvaluating before its first instruction.
StartBody(m) ==
  /\ TakesReady(m)
  /\ Startable(m)
  /\ eval' = [eval EXCEPT ![m] = IF m \in tla THEN "async" ELSE "evaluating"]
  /\ active' = [module |-> m, run |-> "first"]
  /\ failed' = failed \ {m}
  /\ UNCHANGED <<linkVars, tla, parents, pending, order, nextOrder, start, waits, jobVars,
                 promiseVars, importVars, call, calls, completed>>

\* A module queued twice has been started by its first entry.  evaluate_module
\* resets the record whatever it holds and returns the error; the driver keeps
\* the module as its active work.
StartRefused(m) ==
  /\ TakesReady(m)
  /\ ~Startable(m)
  /\ IF call # None THEN /\ eval' = [eval EXCEPT ![m] = "unevaluated"]
                         /\ UNCHANGED active
                    ELSE /\ active' = [module |-> m, run |-> "stuck"]
                         /\ UNCHANGED eval
  /\ call' = None
  /\ failed' = failed \cup {m}
  /\ UNCHANGED <<linkVars, tla, parents, pending, order, nextOrder, start, waits, jobVars,
                 promiseVars, importVars, calls, completed>>

\* The start meets a host error inside evaluate_module: the record is reset, the
\* Fiber dropped and the call returns the error.  (The driver's own answer to
\* such an error is part of Checkpoint.)
HostError ==
  /\ load.phase = "idle"
  /\ call # None
  /\ active.run = "first"
  /\ active.module \in Failing
  /\ eval' = [eval EXCEPT ![active.module] = "unevaluated"]
  /\ active' = NoBody
  /\ call' = None
  /\ failed' = failed \cup {active.module}
  /\ UNCHANGED <<linkVars, tla, parents, pending, order, nextOrder, ready, start, waits,
                 jobVars, promiseVars, importVars, calls, completed>>

\* What the record of m holds after a body that threw: the first run of an
\* asynchronous body ends with an empty Fiber, which the interpreter reports as
\* a normal completion, and finish_ready_module_outcome stores that one too.
AfterThrow(m) == IF active.run = "first" /\ m \in tla THEN "evaluated" ELSE "errored"

\* finish_async_evaluation wants the record of a resumed body AsyncEvaluating;
\* a refused start or another body of the module may have changed it.
Completing == active.run = "first" \/ eval[active.module] = "async"

FinishBody(ok) ==
  /\ load.phase = "idle"
  /\ Running
  /\ Completing
  /\ IF ok THEN CompleteOk(active.module)
           ELSE CompleteErr(active.module, AfterThrow(active.module))
  /\ active' = NoBody
  /\ UNCHANGED <<linkVars, tla, order, nextOrder, start, waits, jobVars, promiseVars,
                 importVars, call, calls, failed>>

\* The completion is refused once the frame is popped.  evaluate_module returns
\* the error; the driver keeps the job as its active work, unless the body threw
\* at its await, inside the checkpoint step.
FinishRefused ==
  /\ load.phase = "idle"
  /\ Running
  /\ ~Completing
  /\ active' \in {NoBody, [active EXCEPT !.run = "stuck"]}
  /\ call # None => active' = NoBody
  /\ call' = None
  /\ failed' = failed \cup {active.module}
  /\ UNCHANGED <<linkVars, tla, evalVars, start, waits, jobVars, promiseVars, importVars,
                 calls, completed>>

\* suspend_async_module_await: the body leaves the Fiber to its caller.
Await ==
  /\ load.phase = "idle"
  /\ active.module \in tla
  /\ active.run = "first"
  /\ waits' = [waits EXCEPT ![active.module] = @ + 1]
  /\ active' = NoBody
  /\ UNCHANGED <<linkVars, tla, evalVars, start, jobVars, promiseVars, importVars, callVars>>

\* The awaited promise settles: by the host, a body or another job.
AwaitSettled(m) ==
  /\ load.phase = "idle"
  /\ waits[m] > 0
  /\ waits' = [waits EXCEPT ![m] = @ - 1]
  /\ jobs' = Append(jobs, [kind |-> "module", of |-> m])
  /\ UNCHANGED <<linkVars, tla, evalVars, start, active, slot, checkpoint, promiseVars,
                 importVars, callVars>>

-----------------------------------------------------------------------------
(* Evaluation promises and dynamic imports. *)

ImportJobs(ids) == [k \in DOMAIN ids |-> [kind |-> "import", of |-> ids[k]]]

Outcome(r) == IF eval[r] = "evaluated" THEN "fulfilled" ELSE "rejected"

\* settle_completed_module_promise for a pending promise.
Settle(r) ==
  /\ Terminal(r)
  /\ promise[r] = "pending"
  /\ promise' = [promise EXCEPT ![r] = Outcome(r)]
  /\ reactions' = [reactions EXCEPT ![r] = <<>>]
  /\ jobs' = jobs \o ImportJobs(reactions[r])

\* A poll of the driver whose target is the evaluation promise of r settles it
\* first, unless a checkpoint is open.
SettleTarget(r) ==
  /\ AtHost
  /\ ~checkpoint
  /\ Settle(r)
  /\ UNCHANGED <<linkVars, tla, evalVars, start, active, waits, slot, checkpoint,
                 importVars, callVars>>

\* A running body evaluates import(t): enqueue.
Import(t) ==
  /\ load.phase = "idle"
  /\ Running
  /\ Len(answer) < MaxImports
  /\ answer' = Append(answer, "pending")
  /\ imports' = Append(imports, [id |-> Len(answer) + 1, target |-> t, dispatched |-> FALSE,
                                 attached |-> FALSE, started |-> FALSE])
  /\ UNCHANGED <<linkVars, tla, evalVars, start, active, waits, jobVars, promiseVars, callVars>>

First(k, Test(_)) == Test(imports[k]) /\ \A j \in 1 .. k - 1 : ~Test(imports[j])

\* take_pending_dynamic_import: the host takes the oldest request it has not seen.
TakeImport(k) ==
  /\ AtHost
  /\ First(k, LAMBDA e : ~e.dispatched)
  /\ imports' = [imports EXCEPT ![k].dispatched = TRUE]
  /\ UNCHANGED <<linkVars, tla, evalVars, start, active, waits, jobVars, promiseVars,
                 answer, callVars>>

\* Mutant: the last entry is dropped instead of moved.
WithoutLast(k) == Front(imports)

\* swap_remove
Without(k) ==
  IF k = Len(imports) THEN Front(imports)
  ELSE Front([imports EXCEPT ![k] = Last(imports)])

\* complete_dynamic_import_success: the host loaded the graph of the target.
ImportLoaded(k) ==
  /\ AtHost
  /\ imports[k].dispatched
  /\ ~imports[k].attached
  /\ imports[k].target \in Linked
  /\ imports' = [imports EXCEPT ![k].attached = TRUE]
  /\ UNCHANGED <<linkVars, tla, evalVars, start, active, waits, jobVars, promiseVars,
                 answer, callVars>>

\* complete_dynamic_import_failure, once per request as a host does.
ImportFailed(k) ==
  /\ AtHost
  /\ imports[k].dispatched
  /\ ~imports[k].attached
  /\ answer' = [answer EXCEPT ![imports[k].id] = "rejected"]
  /\ imports' = Without(k)
  /\ UNCHANGED <<linkVars, tla, evalVars, start, active, waits, jobVars, promiseVars, callVars>>

\* The driver looks at dynamic imports when it has nothing else to do.
Quiet ==
  /\ AtHost
  /\ ~DriverBusy
  /\ Queued = {}
  /\ jobs = <<>>
  /\ ~slot
  /\ ~checkpoint

Unstarted(e) == e.attached /\ ~e.started

\* advance_dynamic_import, first part: the oldest import whose module is there
\* asks for its evaluation and reacts to the evaluation promise.
BeginImport(k) ==
  /\ Quiet
  /\ First(k, Unstarted)
  /\ LET m == imports[k].target
         r == cycleRoot[m]
         id == imports[k].id
     IN /\ imports' = [imports EXCEPT ![k].started = TRUE]
        /\ CASE promise[r] = "none" ->
                  /\ promise' = [promise EXCEPT ![r] = "pending"]
                  /\ reactions' = [reactions EXCEPT ![r] = <<id>>]
                  /\ start' = StartOf(m)
                  /\ jobs' = jobs
             [] promise[r] = "pending" ->
                  /\ reactions' = [reactions EXCEPT ![r] = Append(@, id)]
                  /\ UNCHANGED <<promise, start, jobs>>
             [] OTHER ->
                  /\ jobs' = Append(jobs, [kind |-> "import", of |-> id])
                  /\ UNCHANGED <<promise, reactions, start>>
  /\ UNCHANGED <<linkVars, tla, evalVars, active, waits, slot, checkpoint, answer, callVars>>

Completable(e) == e.started /\ Terminal(cycleRoot[e.target])

\* Second part: the first started import whose module is terminal.
SettleImport(k) ==
  /\ Quiet
  /\ \A j \in DOMAIN imports : ~Unstarted(imports[j])
  /\ First(k, Completable)
  /\ Settle(cycleRoot[imports[k].target])
  /\ UNCHANGED <<linkVars, tla, evalVars, start, active, waits, slot, checkpoint,
                 importVars, callVars>>

-----------------------------------------------------------------------------
(* Promise jobs. *)

\* Between bodies; evaluate_module prefers a queued module as the driver does.
AtJobs ==
  /\ load.phase = "idle"
  /\ ~DriverBusy
  /\ MayStart => Queued = {}

\* begin_next takes the job into the slot and resume_async_module_job frees it.
ResumeBody ==
  /\ AtJobs
  /\ jobs # <<>>
  /\ Head(jobs).kind = "module"
  /\ jobs' = Tail(jobs)
  /\ slot' = FALSE
  /\ checkpoint' = TRUE
  /\ active' = [module |-> Head(jobs).of, run |-> "resumed"]
  /\ UNCHANGED <<linkVars, tla, evalVars, start, waits, promiseVars, importVars, callVars>>

\* A reaction of entry k reaches resume_dynamic_import_job; nothing frees the slot.
TakesImportJob(k) ==
  /\ AtJobs
  /\ jobs # <<>>
  /\ Head(jobs) = [kind |-> "import", of |-> imports[k].id]
  /\ jobs' = Tail(jobs)
  /\ slot' = TRUE
  /\ checkpoint' = TRUE

Settlement(k) == promise[cycleRoot[imports[k].target]]

\* The import is answered as the evaluation promise was settled, and forgotten.
ResumeImport(k) ==
  /\ TakesImportJob(k)
  /\ answer' = [answer EXCEPT ![imports[k].id] = Settlement(k)]
  /\ imports' = Without(k)
  /\ UNCHANGED <<linkVars, tla, evalVars, start, active, waits, promiseVars, callVars>>

\* get_module_namespace refuses the namespace, as linking resolves imports but no
\* re-exports: the error goes to the host, and the entry stays as it is.
NamespaceRefused(k) ==
  /\ TakesImportJob(k)
  /\ Settlement(k) = "fulfilled"
  /\ imports[k].target \in Unresolvable
  /\ call' = None
  /\ failed' = failed \cup {imports[k].target}
  /\ UNCHANGED <<linkVars, tla, evalVars, start, active, waits, promiseVars, importVars,
                 calls, completed>>

\* A step with an empty queue ends the checkpoint; begin_next overwrites the slot.
EndCheckpoint ==
  /\ AtJobs
  /\ jobs = <<>>
  /\ slot \/ checkpoint
  /\ slot' = FALSE
  /\ checkpoint' = FALSE
  /\ UNCHANGED <<linkVars, tla, evalVars, start, active, waits, jobs, promiseVars,
                 importVars, callVars>>

\* evaluate_module returns the completion of its root, or AsyncEvaluationPending.
ReturnCall ==
  /\ load.phase = "idle"
  /\ call # None
  /\ ~DriverBusy
  /\ jobs = <<>>
  /\ ~slot
  /\ IF Terminal(call) THEN ~checkpoint ELSE Queued = {}
  /\ call' = None
  /\ UNCHANGED <<linkVars, tla, evalVars, start, active, waits, jobVars, promiseVars,
                 importVars, calls, failed, completed>>

-----------------------------------------------------------------------------
HostLoad ==
  /\ AtHost
  /\ \E r \in Entries \cup Called \cup Targets : BeginLoad(r)
  /\ UNCHANGED <<tla, evalVars, start, active, waits, jobVars, promiseVars, importVars, callVars>>

Loading ==
  /\ LoadStep
  /\ UNCHANGED <<tla, evalVars, start, active, waits, jobVars, promiseVars, importVars, callVars>>

\* What the host decides.
Host ==
  \/ HostLoad
  \/ \E m \in Entries : EvaluatePromise(m)
  \/ \E m \in Called : EvaluateModule(m)
  \/ \E k \in DOMAIN imports : TakeImport(k) \/ ImportLoaded(k) \/ ImportFailed(k)
  \/ \E r \in Modules : SettleTarget(r)

\* What a running body decides.
Body ==
  \/ \E ok \in BOOLEAN : FinishBody(ok)
  \/ FinishRefused
  \/ Await
  \/ HostError

\* One transition of the driver or of the loop of evaluate_module.
Drive ==
  \/ Traverse
  \/ Instantiate
  \/ Register
  \/ FinishStart
  \/ \E m \in Modules : StartBody(m) \/ StartRefused(m)
  \/ ResumeBody
  \/ \E k \in DOMAIN imports : ResumeImport(k) \/ NamespaceRefused(k)
  \/ EndCheckpoint
  \/ ReturnCall
  \/ \E k \in DOMAIN imports : BeginImport(k) \/ SettleImport(k)

Next ==
  \/ Host
  \/ Loading
  \/ Drive
  \/ Body
  \/ \E t \in Targets : Import(t)
  \/ \E m \in Modules : AwaitSettled(m)

Spec == Init /\ [][Next]_vars

\* A load call ends; the host polls as long as the driver has work; a body ends
\* or awaits; awaited promises settle.  The host owes nothing else.
Fairness ==
  /\ WF_vars(Loading)
  /\ WF_vars(Drive)
  /\ WF_vars(Body)
  /\ \A m \in Modules : WF_vars(AwaitSettled(m))

FairSpec == Spec /\ Fairness

-----------------------------------------------------------------------------
Started(m) == eval[m] \in {"evaluating", "async", "evaluated"}

\* A body starts in its turn: only after the cycle root of every module it requests
\* outside its own cycle has been evaluated (a suspended dependency is not a finished
\* one), and a second time, when its module has been evaluated already, only after a
\* refused start, a refused completion or a host error reset the record.  This is
\* what is left of "Evaluates linked synchronous dependencies once" (evaluate_module)
\* when calls, promises and imports overlap and modules are queued twice.  (The
\* record of a root that threw before its first await counts as evaluated, and a
\* module whose namespace was refused as reset.)
StartsInTurn ==
  [][\A m \in Modules :
       /\ Started(m)' => \A d \in ToSet(graph[m]) :
            External(m, d)' => cycleRoot'[d] \in completed'
       /\ active' = [module |-> m, run |-> "first"] /\ active # active' =>
            (m \in completed => m \in failed)]_vars

\* The counter of a waiting module is the number of unfinished modules that
\* will report to it, and the module is queued when that number is zero: no
\* importer is lost, whatever is queued twice, refused or reset meanwhile.
WaitersCounted ==
  \A m \in Modules : eval[m] = "waiting" =>
    LET awaited == {d \in Modules : m \in Registered(d)}
    IN /\ pending[m] = Cardinality(awaited)
       /\ \A d \in awaited : ~Terminal(d)
       /\ awaited = {} => ready[m] > 0

\* No module waits for the cycle root of a dependency that has failed:
\* reject_evaluation_tree reaches importers of importers, and registration
\* notices failures of earlier evaluations.  (A root that has been evaluated may
\* be reset and fail when it runs again: it no longer concerns the importer.)
ErrorsReachImporters ==
  \A m \in Modules : eval[m] = "waiting" =>
    \A d \in ToSet(graph[m]) : External(m, d) =>
      (eval[cycleRoot[d]] = "errored" => cycleRoot[d] \in completed)

\* Every import whose module was loaded is answered, although imports share
\* evaluation promises, leave their vector out of order and are looked at only
\* when the driver is idle - unless a start or a completion was refused or met a
\* host error, or the namespace of an imported module was refused.
ImportsAnswered ==
  \A i \in 1 .. MaxImports :
    (\E k \in DOMAIN imports : imports[k].id = i /\ imports[k].attached)
      ~> (failed # {} \/ (i \in DOMAIN answer /\ answer[i] # "pending"))
=============================================================================
