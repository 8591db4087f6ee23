----------------------------- MODULE AgentCluster -----------------------------
(***************************************************************************)
(* Agents that share memory: Atomics.wait, waitAsync and notify, and the   *)
(* messages between agents (crates/tachyon-vm: builtins/atomics.rs,        *)
(* atomics_async.rs, host_agent.rs), over the cluster that the conformance *)
(* runner provides (tools/test262-runner: agent.rs, tachyon.rs).           *)
(*                                                                         *)
(* Every agent is a thread with an isolate; a further thread expires the   *)
(* deadlines of asynchronous waits.  One mutex guards the cluster and one  *)
(* condition variable, changed, wakes every thread that waits for it.  A   *)
(* critical section is one step, except that a wait compares the memory    *)
(* and then publishes its waiter, while other agents may store: lock is    *)
(* held in between.  What a section does after it unlocked (completing     *)
(* asynchronous waits, waking everyone) are further steps.                 *)
(*                                                                         *)
(* Calls that return without changing anything (not-equal, a timeout of    *)
(* zero, an empty report queue, a broadcast to nobody) are not actions.    *)
(***************************************************************************)
EXTENDS Integers, FiniteSets, SequencesExt

CONSTANTS
  Main, Workers,  \* the agents
  Locations,      \* AtomicsWaitLocation
  MaxCalls,       \* bound on the calls of an agent
  MaxWaiters,     \* bound on the waiters published
  MaxReports,     \* MAX_AGENT_REPORTS
  MainSuspends,   \* agent_can_suspend of the main agent
  None            \* Option::None

ASSUME AgentsAssumption == Main \notin Workers /\ "timer" \notin Workers \cup {Main}
ASSUME BoundsAssumption == {MaxCalls, MaxWaiters, MaxReports} \subseteq Nat
ASSUME SuspendsAssumption == MainSuspends \in BOOLEAN

Agents == Workers \cup {Main}
Timer == "timer"
Threads == Agents \cup {Timer}
Outcomes == {"ok", "timed-out", "unavailable"}

ASSUME NoneAssumption == None \notin Threads \cup Outcomes /\ \A s \in SUBSET Workers : s # None

VARIABLES
  cell,       \* the shared memory: whether a location still holds what waits expect
  lock,       \* the thread within the critical section of a wait
  queues,     \* waiter_queues: the waiters of each location, by their ids
  deadlines,  \* async_deadlines
  waiters,    \* what is known of waiter id: its registration, completion and handle
  due,        \* the waiters whose timeout has elapsed
  inFlight,   \* completions a thread still has to publish: <<waiter, outcome>>
  asleep,     \* threads blocked on changed
  broadcast,  \* the recipients still to receive it, or None
  ready,      \* ready_workers
  left,       \* workers whose role is gone (leaving)
  reports,    \* the number of reports
  cancelled,
  pc,         \* what each thread does
  intent,     \* the wait an agent is about to publish
  unpolled,   \* the handles a driver turn has yet to poll
  progressed, \* whether a driver turn settled a promise
  job,        \* whether a settled promise has a job to run
  signaled,   \* DriverWake.signaled
  waking,     \* the agent whose waker a thread has taken and is still to call
  unseen,     \* the deadlines the timer has not looked at yet
  calls,      \* number of calls of an agent
  notified,   \* history: waiters that a notify counted
  sweeps,     \* history: notifies of a location that left no waiter
  addressed,  \* history: recipients of the broadcast in progress
  received    \* history: workers that received it

memoryVars == <<cell, lock>>
registryVars == <<queues, deadlines, waiters, due>>
messageVars == <<broadcast, ready, left, reports, addressed, received>>
driverVars == <<unpolled, progressed, job, signaled, waking, unseen>>
historyVars == <<notified, sweeps>>
vars == <<cell, lock, queues, deadlines, waiters, due, inFlight, asleep, broadcast, ready,
          left, reports, cancelled, pc, intent, unpolled, progressed, job, signaled, waking,
          unseen, calls, notified, sweeps, addressed, received>>

Init ==
  /\ cell = [l \in Locations |-> TRUE] /\ lock = None
  /\ queues = [l \in Locations |-> <<>>] /\ deadlines = {}
  /\ waiters = <<>> /\ due = {}
  /\ inFlight = [t \in Threads |-> <<>>] /\ asleep = {}
  /\ broadcast = None /\ ready = {} /\ left = {} /\ reports = 0
  /\ addressed = {} /\ received = {}
  /\ cancelled = FALSE
  /\ pc = [t \in Threads |-> IF t = Main THEN "script" ELSE "unborn"]
  /\ intent = [a \in Agents |-> None]
  /\ unpolled = [a \in Agents |-> {}]
  /\ progressed = [a \in Agents |-> FALSE] /\ job = [a \in Agents |-> FALSE]
  /\ signaled = [a \in Agents |-> FALSE] /\ waking = [t \in Threads |-> None] /\ unseen = {}
  /\ calls = [a \in Agents |-> 0]
  /\ notified = {} /\ sweeps = [l \in Locations |-> 0]

-----------------------------------------------------------------------------
Ids == DOMAIN waiters
Registered(id) == id \in ToSet(queues[waiters[id].at])
Handles(a) == {id \in Ids : waiters[id].by = a /\ waiters[id].open}

Goes(t, to) == pc' = [pc EXCEPT ![t] = to]

\* The mutex is free and the thread is awake.
Enters(t) == lock = None /\ t \notin asleep

\* changed.notify_all.
NotifyAll == asleep' = {}
Sleeps(t) == asleep' = asleep \cup {t}

\* remove_waiter.
Removed(id) == [queues EXCEPT ![waiters[id].at] = RemoveFirst(@, id)]

\* A call of a running script.
Calls(a) ==
  /\ pc[a] = "script"
  /\ calls[a] < MaxCalls
  /\ calls' = [calls EXCEPT ![a] = @ + 1]

\* A host error, an uncaught exception or exhausted fuel: the agent's thread goes on
\* to its end without driving its jobs.
Fails(a) ==
  /\ pc[a] = "script"
  /\ Goes(a, "exit")
  /\ UNCHANGED <<memoryVars, registryVars, inFlight, asleep, messageVars, cancelled, intent,
                 driverVars, calls, historyVars>>

EndScript(a) ==
  /\ pc[a] = "script"
  /\ Goes(a, "drive")
  /\ UNCHANGED <<memoryVars, registryVars, inFlight, asleep, messageVars, cancelled, intent,
                 driverVars, calls, historyVars>>

-----------------------------------------------------------------------------
(***************************************************************************)
(* Waiting and notifying.                                                  *)
(***************************************************************************)

\* A store needs the lock of the buffer only.
Store(a, l) ==
  /\ Calls(a)
  /\ cell[l]
  /\ cell' = [cell EXCEPT ![l] = FALSE]
  /\ UNCHANGED <<lock, registryVars, inFlight, asleep, messageVars, cancelled, pc, intent,
                 driverVars, historyVars>>

\* wait_async with a timeout starts the timer before it takes the mutex, also when it then
\* finds the memory changed or the cluster cancelled.
EnsureTimer(a) ==
  /\ pc[a] = "script" /\ calls[a] < MaxCalls
  /\ pc[Timer] = "unborn"
  /\ Goes(Timer, "run")
  /\ UNCHANGED <<memoryVars, registryVars, inFlight, asleep, messageVars, cancelled, intent,
                 driverVars, calls, historyVars>>

\* wait and wait_async up to the comparison, which the mutex covers.  After cancellation
\* both fail (Fails).
\* Mutant: the comparison is made before the mutex is taken.
HoldsNothing(a) == None
HoldsLock(a) == a
Compare(a, l, async, timed) ==
  /\ Calls(a)
  /\ Enters(a) /\ ~cancelled
  /\ Len(waiters) + Cardinality({b \in Agents : pc[b] = "publish"}) < MaxWaiters
  /\ a = Main /\ ~async => MainSuspends
  /\ async /\ timed => pc[Timer] # "unborn"
  /\ cell[l]
  /\ lock' = HoldsLock(a)
  /\ intent' = [intent EXCEPT ![a] = [at |-> l, async |-> async, timed |-> timed,
                                      since |-> sweeps[l]]]
  /\ Goes(a, "publish")
  /\ UNCHANGED <<cell, registryVars, inFlight, asleep, messageVars, cancelled, driverVars,
                 historyVars>>

\* The waiter is published: an agent that waits falls asleep, another keeps the handle
\* with the promise it will settle (register_pending_atomics_wait) and goes on.
Publish(a) ==
  LET i == intent[a]
      id == Len(waiters) + 1 IN
  /\ pc[a] = "publish" /\ lock \in {None, a}
  /\ waiters' = Append(waiters, [by |-> a, at |-> i.at, async |-> i.async, timed |-> i.timed,
                                 since |-> i.since, open |-> i.async, outcome |-> None,
                                 waker |-> FALSE])
  /\ queues' = [queues EXCEPT ![i.at] = Append(@, id)]
  /\ deadlines' = IF i.async /\ i.timed THEN deadlines \cup {id} ELSE deadlines
  /\ unseen' = IF i.async /\ i.timed THEN unseen \cup {id} ELSE unseen
  /\ lock' = None
  /\ intent' = [intent EXCEPT ![a] = IF i.async THEN None ELSE id]
  /\ IF i.async THEN NotifyAll /\ Goes(a, "script") ELSE Sleeps(a) /\ Goes(a, "wait")
  /\ UNCHANGED <<cell, due, inFlight, messageVars, cancelled, unpolled, progressed, job,
                 signaled, waking, calls, historyVars>>

\* One turn of wait_loop after waking up: removed by notify, timed out, or blocked again.
Answer(a, id, outcome) ==
  /\ waiters' = [waiters EXCEPT ![id].outcome = outcome]
  /\ intent' = [intent EXCEPT ![a] = None]
WaitTurn(a) ==
  LET id == intent[a] IN
  /\ pc[a] = "wait" /\ Enters(a)
  /\ \/ /\ cancelled
        /\ queues' = Removed(id) /\ Answer(a, id, "unavailable") /\ Goes(a, "exit")
        /\ UNCHANGED asleep
     \/ /\ ~cancelled /\ ~Registered(id)
        /\ Answer(a, id, "ok") /\ Goes(a, "script")
        /\ UNCHANGED <<queues, asleep>>
     \/ /\ ~cancelled /\ Registered(id) /\ id \in due
        /\ queues' = Removed(id) /\ Answer(a, id, "timed-out") /\ Goes(a, "script")
        /\ UNCHANGED asleep
     \/ /\ ~cancelled /\ Registered(id) /\ id \notin due
        /\ Sleeps(a)
        /\ UNCHANGED <<queues, waiters, intent, pc>>
  /\ UNCHANGED <<memoryVars, deadlines, due, inFlight, messageVars, cancelled, driverVars,
                 calls, historyVars>>

\* notify within the mutex: the front of the queue is removed.
Notify(a, l, n) ==
  LET count == IF n > Len(queues[l]) THEN Len(queues[l]) ELSE n
      taken == SubSeq(queues[l], 1, count) IN
  /\ Calls(a)
  /\ Enters(a)
  /\ queues' = [queues EXCEPT ![l] = SubSeq(@, count + 1, Len(@))]
  /\ deadlines' = deadlines \ ToSet(taken)
  /\ inFlight' = [inFlight EXCEPT ![a] = [i \in 1..count |-> <<taken[i], "ok">>]]
  /\ notified' = notified \cup ToSet(taken)
  /\ sweeps' = IF count = Len(queues[l]) THEN [sweeps EXCEPT ![l] = @ + 1] ELSE sweeps
  /\ IF count = 0 THEN UNCHANGED pc ELSE Goes(a, "complete")
  /\ UNCHANGED <<memoryVars, waiters, due, asleep, messageVars, cancelled, intent, driverVars>>

\* AsyncWaitCompletion::complete of one removed waiter: the outcome is published and the
\* waker taken.  Only an asynchronous waiter has a completion.
Complete(t) ==
  /\ pc[t] = "complete" /\ waking[t] = None
  /\ inFlight[t] # <<>>
  /\ LET id == Head(inFlight[t])[1]
         w == waiters[id] IN
     IF ~w.async \/ w.outcome # None
     THEN UNCHANGED <<waiters, waking>>
     ELSE /\ waiters' = [waiters EXCEPT ![id].outcome = Head(inFlight[t])[2],
                                        ![id].waker = FALSE]
          /\ waking' = IF w.waker THEN [waking EXCEPT ![t] = w.by] ELSE waking
  /\ inFlight' = [inFlight EXCEPT ![t] = Tail(@)]
  /\ UNCHANGED <<memoryVars, queues, deadlines, due, asleep, messageVars, cancelled, pc,
                 intent, unpolled, progressed, job, signaled, unseen, calls, historyVars>>

\* The waker is called once the completion is unlocked.
Wake(t) ==
  /\ waking[t] # None
  /\ signaled' = [signaled EXCEPT ![waking[t]] = TRUE]
  /\ waking' = [waking EXCEPT ![t] = None]
  /\ UNCHANGED <<memoryVars, registryVars, inFlight, asleep, messageVars, cancelled, pc, intent,
                 unpolled, progressed, job, unseen, calls, historyVars>>

\* The end of notify, of a turn of the timer and of cancel: everyone is woken.
\* Mutant: nobody is.
AsleepStill == asleep
AsleepAfter == {}
Resumed(t) == CASE t = Timer -> "run" [] t = Main /\ cancelled -> "join" [] OTHER -> "script"
Completed(t) ==
  /\ pc[t] = "complete" /\ waking[t] = None
  /\ inFlight[t] = <<>>
  /\ asleep' = AsleepAfter
  /\ Goes(t, Resumed(t))
  /\ UNCHANGED <<memoryVars, registryVars, inFlight, messageVars, cancelled, intent,
                 driverVars, calls, historyVars>>

\* The timeout of a waiter elapses; a thread blocked until then wakes up.  The timer is
\* blocked until the first of the deadlines it has seen.
Elapse(id) ==
  /\ waiters[id].timed /\ id \notin due
  /\ due' = due \cup {id}
  /\ UNCHANGED <<memoryVars, queues, deadlines, waiters, inFlight, asleep, messageVars,
                 cancelled, pc, intent, driverVars, calls, historyVars>>
Expire(t) ==
  /\ t \in asleep
  /\ IF t = Timer THEN (deadlines \ unseen) \cap due # {} ELSE pc[t] = "wait" /\ intent[t] \in due
  /\ asleep' = asleep \ {t}
  /\ UNCHANGED <<memoryVars, registryVars, inFlight, messageVars, cancelled, pc, intent,
                 driverVars, calls, historyVars>>

\* run_timer_worker: a waiter whose deadline has passed is removed from both registries,
\* unless notify was there first.
TimerTurn ==
  /\ pc[Timer] = "run" /\ Enters(Timer)
  /\ \/ /\ cancelled
        /\ Goes(Timer, "done")
        /\ UNCHANGED <<queues, deadlines, inFlight, asleep>>
     \/ /\ ~cancelled /\ deadlines \cap due = {}
        /\ Sleeps(Timer)
        /\ UNCHANGED <<queues, deadlines, inFlight, pc>>
     \/ \E id \in deadlines \cap due :
          /\ ~cancelled
          /\ deadlines' = deadlines \ {id}
          /\ queues' = Removed(id)
          /\ inFlight' = [inFlight EXCEPT ![Timer] =
                            IF Registered(id) THEN <<<<id, "timed-out">>>> ELSE <<>>]
          /\ Goes(Timer, "complete")
          /\ UNCHANGED asleep
  /\ unseen' = {}
  /\ UNCHANGED <<memoryVars, waiters, due, messageVars, cancelled, intent, unpolled,
                 progressed, job, signaled, waking, calls, historyVars>>

-----------------------------------------------------------------------------
(***************************************************************************)
(* Messages between agents.                                                *)
(***************************************************************************)

\* start: the main agent blocks until the worker says that it is ready or failed.
Start(w) ==
  /\ Calls(Main)
  /\ pc[w] = "unborn"
  /\ pc' = [pc EXCEPT ![Main] = "start", ![w] = "boot"]
  /\ UNCHANGED <<memoryVars, registryVars, inFlight, asleep, messageVars, cancelled, intent,
                 driverVars, historyVars>>

\* run_agent_worker up to worker_ready.
Boot(w) ==
  /\ pc[w] = "boot" /\ Enters(w)
  /\ ready' = ready \cup {w}
  /\ NotifyAll
  /\ pc' = [pc EXCEPT ![Main] = "script", ![w] = "script"]
  /\ UNCHANGED <<memoryVars, registryVars, inFlight, broadcast, left, reports, addressed,
                 received, cancelled, intent, driverVars, calls, historyVars>>

\* The isolate or its source cannot be made: start fails, and so does the script.
BootFails(w) ==
  /\ pc[w] = "boot"
  /\ pc' = [pc EXCEPT ![Main] = "exit", ![w] = "exit"]
  /\ UNCHANGED <<memoryVars, registryVars, inFlight, asleep, messageVars, cancelled, intent,
                 driverVars, calls, historyVars>>

\* broadcast: publish to the workers that are ready, then wait for all of them.
Broadcast ==
  /\ Calls(Main)
  /\ Enters(Main)
  /\ ready # {}
  /\ broadcast' = ready /\ addressed' = ready /\ received' = {}
  /\ asleep' = {Main}
  /\ Goes(Main, "broadcast")
  /\ UNCHANGED <<memoryVars, registryVars, inFlight, ready, left, reports, cancelled, intent,
                 driverVars, historyVars>>

BroadcastTurn ==
  /\ pc[Main] = "broadcast" /\ Enters(Main)
  /\ IF broadcast = None THEN Goes(Main, "script") /\ UNCHANGED asleep
                         ELSE Sleeps(Main) /\ UNCHANGED pc
  /\ UNCHANGED <<memoryVars, registryVars, inFlight, messageVars, cancelled, intent,
                 driverVars, calls, historyVars>>

\* A recipient is done with the broadcast; the last one ends it.
Acknowledged(w) ==
  IF broadcast = None \/ broadcast \subseteq {w} THEN None ELSE broadcast \ {w}

Receive(w) ==
  /\ w \in Workers /\ w \notin left
  /\ Calls(w)
  /\ Goes(w, "receive")
  /\ UNCHANGED <<memoryVars, registryVars, inFlight, asleep, messageVars, cancelled, intent,
                 driverVars, historyVars>>

Addressed(w) == broadcast # None /\ w \in broadcast
ReceiveTurn(w) ==
  /\ pc[w] = "receive" /\ Enters(w)
  /\ \/ /\ cancelled
        /\ Goes(w, "exit")
        /\ UNCHANGED <<asleep, broadcast, received>>
     \/ /\ ~cancelled /\ Addressed(w)
        /\ broadcast' = Acknowledged(w) /\ received' = received \cup {w}
        /\ NotifyAll /\ Goes(w, "script")
     \/ /\ ~cancelled /\ ~Addressed(w)
        /\ Sleeps(w)
        /\ UNCHANGED <<pc, broadcast, received>>
  /\ UNCHANGED <<memoryVars, registryVars, inFlight, ready, left, reports, addressed,
                 cancelled, intent, driverVars, calls, historyVars>>

Report(w) ==
  /\ w \in Workers /\ w \notin left
  /\ Calls(w) /\ Enters(w) /\ ~cancelled
  /\ reports < MaxReports
  /\ reports' = reports + 1
  /\ NotifyAll
  /\ UNCHANGED <<memoryVars, registryVars, inFlight, broadcast, ready, left, addressed,
                 received, cancelled, pc, intent, driverVars, historyVars>>

GetReport ==
  /\ Calls(Main) /\ Enters(Main)
  /\ reports > 0
  /\ reports' = reports - 1
  /\ UNCHANGED <<memoryVars, registryVars, inFlight, asleep, broadcast, ready, left,
                 addressed, received, cancelled, pc, intent, driverVars, historyVars>>

\* worker_finished: the worker leaves every rendezvous.
WorkerFinished(w) ==
  /\ lock = None
  /\ ready' = ready \ {w}
  /\ broadcast' = Acknowledged(w)
  /\ NotifyAll

Leaving(w) ==
  /\ w \in Workers /\ w \notin left
  /\ Calls(w)
  /\ WorkerFinished(w)
  /\ left' = left \cup {w}
  /\ UNCHANGED <<memoryVars, registryVars, inFlight, reports, addressed, received, cancelled,
                 pc, intent, driverVars, historyVars>>

-----------------------------------------------------------------------------
(***************************************************************************)
(* Driving the jobs of an agent (drive_test262_work, advance_driver).      *)
(***************************************************************************)
BeginTurn(a) ==
  /\ pc[a] = "drive"
  /\ signaled' = [signaled EXCEPT ![a] = FALSE]
  /\ unpolled' = [unpolled EXCEPT ![a] = Handles(a)]
  /\ progressed' = [progressed EXCEPT ![a] = FALSE]
  /\ Goes(a, "poll")
  /\ UNCHANGED <<memoryVars, registryVars, inFlight, asleep, messageVars, cancelled, intent,
                 job, waking, unseen, calls, historyVars>>

\* poll_pending_atomics_waits for one handle: a promise is settled and its handle dropped,
\* or the waker is left with the completion.
Poll(a, id) ==
  /\ pc[a] = "poll" /\ id \in unpolled[a]
  /\ unpolled' = [unpolled EXCEPT ![a] = @ \ {id}]
  /\ \/ /\ waiters[id].outcome # None /\ lock = None
        /\ waiters' = [waiters EXCEPT ![id].open = FALSE]
        /\ progressed' = [progressed EXCEPT ![a] = TRUE]
        /\ job' = [job EXCEPT ![a] = TRUE]
        /\ NotifyAll
     \/ /\ waiters[id].outcome = None
        /\ waiters' = [waiters EXCEPT ![id].waker = TRUE]
        /\ UNCHANGED <<progressed, job, asleep>>
  /\ UNCHANGED <<memoryVars, queues, deadlines, due, inFlight, messageVars, cancelled, pc,
                 intent, signaled, waking, unseen, calls, historyVars>>

\* After the polls: another turn, a job, or nothing to do but wait for the host.  The polls
\* between two quanta of one job are left out: a job runs until it ends or blocks.
EndTurn(a) ==
  /\ pc[a] = "poll" /\ unpolled[a] = {}
  /\ Goes(a, CASE progressed[a] -> "drive"
               [] ~progressed[a] /\ job[a] -> "script"
               [] ~progressed[a] /\ ~job[a] /\ Handles(a) # {} -> "park"
               [] OTHER -> "exit")
  /\ job' = [job EXCEPT ![a] = @ /\ progressed[a]]
  /\ UNCHANGED <<memoryVars, registryVars, inFlight, asleep, messageVars, cancelled, intent,
                 unpolled, progressed, signaled, waking, unseen, calls, historyVars>>

\* DriverWake::wait.
Unpark(a) ==
  /\ pc[a] = "park" /\ signaled[a]
  /\ Goes(a, "drive")
  /\ UNCHANGED <<memoryVars, registryVars, inFlight, asleep, messageVars, cancelled, intent,
                 driverVars, calls, historyVars>>

\* DRIVER_HOST_WAIT_LIMIT has passed, or the driver has failed or used up its transitions;
\* it may fail at the settlement of any promise whose handle it polls.
GiveUp(a) ==
  /\ \/ pc[a] = "drive"
     \/ pc[a] = "park" /\ ~signaled[a]
     \/ pc[a] = "poll" /\ \E id \in unpolled[a] : waiters[id].outcome # None
  /\ unpolled' = [unpolled EXCEPT ![a] = {}]
  /\ Goes(a, "exit")
  /\ UNCHANGED <<memoryVars, registryVars, inFlight, asleep, messageVars, cancelled, intent,
                 progressed, job, signaled, waking, unseen, calls, historyVars>>

-----------------------------------------------------------------------------
(***************************************************************************)
(* The end of an agent: its isolate is dropped, the pending waits first.   *)
(***************************************************************************)

\* cancel_async_wait.
DropHandle(a, id) ==
  /\ pc[a] = "exit" /\ lock = None
  /\ id \in Handles(a)
  /\ waiters' = [waiters EXCEPT ![id].open = FALSE]
  /\ deadlines' = deadlines \ {id}
  /\ queues' = Removed(id)
  /\ NotifyAll
  /\ UNCHANGED <<memoryVars, due, inFlight, messageVars, cancelled, pc, intent, driverVars,
                 calls, historyVars>>

Finish(w) ==
  /\ w \in Workers /\ pc[w] = "exit" /\ Handles(w) = {}
  /\ IF w \in left THEN UNCHANGED <<ready, broadcast, asleep>> ELSE WorkerFinished(w)
  /\ Goes(w, "done")
  /\ UNCHANGED <<memoryVars, registryVars, inFlight, left, reports, addressed, received,
                 cancelled, intent, driverVars, calls, historyVars>>

\* The controller is dropped: cancel, then cancel_and_join.
\* Mutant: asynchronous waits are left to their timeouts.
OrphansNone == {}
Orphans == {id \in Ids : Registered(id) /\ waiters[id].async}
Cancel ==
  /\ pc[Main] = "exit" /\ Handles(Main) = {} /\ Enters(Main)
  /\ cancelled' = TRUE
  /\ deadlines' = {}
  /\ inFlight' = [inFlight EXCEPT ![Main] =
                    [i \in DOMAIN SetToSeq(Orphans) |->
                       <<SetToSeq(Orphans)[i], "unavailable">>]]
  /\ queues' = [l \in Locations |-> <<>>]
  /\ broadcast' = None
  /\ Goes(Main, "complete")
  /\ UNCHANGED <<memoryVars, waiters, due, asleep, ready, left, reports, addressed, received,
                 intent, driverVars, calls, historyVars>>

Join ==
  /\ pc[Main] = "join"
  /\ \A t \in Workers \cup {Timer} : pc[t] \in {"unborn", "done"}
  /\ Goes(Main, "done")
  /\ UNCHANGED <<memoryVars, registryVars, inFlight, asleep, messageVars, cancelled, intent,
                 driverVars, calls, historyVars>>

-----------------------------------------------------------------------------
\* What an agent's script chooses to do.
Script(a) ==
  \/ EnsureTimer(a)
  \/ \E l \in Locations : Store(a, l)
  \/ \E l \in Locations, async \in BOOLEAN, timed \in BOOLEAN : Compare(a, l, async, timed)
  \/ \E l \in Locations, n \in {1, MaxWaiters} : Notify(a, l, n)
  \/ Receive(a) \/ Report(a) \/ Leaving(a)
  \/ a = Main /\ (Broadcast \/ GetReport \/ \E w \in Workers : Start(w))
  \/ Fails(a) \/ EndScript(a)

\* What its thread does besides.
Runs(t) ==
  \/ Complete(t) \/ Wake(t) \/ Completed(t) \/ Expire(t)
  \/ t = Timer /\ TimerTurn
  \/ /\ t \in Agents
     /\ \/ Publish(t) \/ WaitTurn(t)
        \/ BeginTurn(t) \/ EndTurn(t) \/ Unpark(t)
        \/ \E id \in unpolled[t] : Poll(t, id)
        \/ \E id \in Handles(t) : DropHandle(t, id)
  \/ t = Main /\ (BroadcastTurn \/ Cancel \/ Join)
  \/ t \in Workers /\ (Boot(t) \/ BootFails(t) \/ ReceiveTurn(t) \/ Finish(t))

Advances ==
  \/ \E a \in Agents : Script(a)
  \/ \E t \in Threads : Runs(t)
  \/ \E id \in Ids : Elapse(id)

Next == Advances \/ \E a \in Agents : GiveUp(a)

\* As long as some thread can run or some timeout can elapse, something happens; a script
\* ends, because its fuel is bounded.  Nothing relies on a driver that gives up.
Spec == Init /\ [][Next]_vars
FairSpec == Spec /\ WF_vars(Advances)

-----------------------------------------------------------------------------
\* A waiter is answered once and by whoever removed it from its queue: notify counts it
\* and it is told "ok", a timeout that came first tells it "timed-out" and notify goes on
\* to the next.  Until then the registries know it: a pending handle is in its queue, in
\* order, unless its answer is under way, and a deadline is kept for exactly the
\* asynchronous waiters that have one.  A notify of all waiters misses none that compared
\* the memory before it: "wait must serialize condition and waiter publication against
\* notify for the same location" (host.rs).
WaitersAnswered ==
  /\ \A id \in Ids :
       LET w == waiters[id]
           underWay == w.async /\ \E t \in Threads : \E i \in DOMAIN inFlight[t] :
                                    inFlight[t][i][1] = id IN
       /\ w.outcome = "ok" => id \in notified
       /\ w.outcome = "timed-out" => id \notin notified
       /\ w.outcome = "unavailable" => cancelled
       /\ id \in notified => ~Registered(id)
       /\ w.async /\ w.open /\ w.outcome = None => Registered(id) \/ underWay
       /\ underWay => w.outcome = None /\ ~Registered(id)
       /\ id \in deadlines <=> w.async /\ w.timed /\ Registered(id)
       /\ Registered(id) => w.since = sweeps[w.at]
  /\ \A l \in Locations : \A i, j \in DOMAIN queues[l] : i < j => queues[l][i] < queues[l][j]

\* No wake-up is lost: what a thread blocked on the condition variable waits for has not
\* happened yet, or whoever did it is still to wake everyone, and the timer is blocked
\* until the first of all deadlines; an agent parked in its driver has been signaled, or
\* is about to be, or none of its asynchronous waits is complete.  A broadcast that no
\* longer blocks has reached every worker that is still there, and one that blocks waits
\* only for workers that are still there: "failures cannot strand a broadcaster"
\* (worker_finished).
NoLostWakeup ==
  /\ \A t \in asleep :
       \/ \E u \in Threads : pc[u] = "complete"
       \/ ~cancelled /\ CASE t = Timer -> deadlines \cap unseen = {}
                           [] pc[t] = "wait" -> Registered(intent[t])
                           [] pc[t] = "receive" -> ~Addressed(t)
                           [] pc[t] = "broadcast" -> broadcast # None
  /\ \A a \in Agents : pc[a] = "park" /\ ~signaled[a] =>
       \/ \E t \in Threads : waking[t] = a
       \/ \A id \in Handles(a) : waiters[id].outcome = None
  /\ IF broadcast = None THEN addressed \cap ready \subseteq received
                         ELSE broadcast # {} /\ broadcast \subseteq ready

\* Once the controller is dropped, every thread it joins ends: neither a wait without a
\* timeout, nor a receive, nor the timer, keeps it from returning.
DropJoins == cancelled ~> pc[Main] = "done"

=============================================================================
