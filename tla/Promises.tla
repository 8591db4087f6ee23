------------------------------- MODULE Promises -------------------------------
(***************************************************************************)
(* Promise objects of one isolate (crates/tachyon-vm: promise.rs,          *)
(* promise_state.rs, promise_then.rs, promise_capability.rs,               *)
(* promise_try.rs): resolving functions and their one-shot cell, the       *)
(* resolution procedure with its observable then lookup, reactions, the    *)
(* jobs that run them, thenables, finally and custom capabilities.         *)
(*                                                                         *)
(* The stack holds the continuations of the completion stack.  An entry    *)
(* with frame = TRUE has the JavaScript frame it waits for on top of it,   *)
(* and that frame's code is the program's: it may do anything at any time. *)
(* An entry with frame = FALSE waits for the native call above it.  When   *)
(* a checkpoint runs, which jobs it takes and how the entry frame resumes  *)
(* are Checkpoint's subject; here a job is begun whenever nothing runs.    *)
(***************************************************************************)
EXTENDS Integers, SequencesExt

CONSTANTS
  MaxPromises,  \* bound on the promises a program can tell apart
  MaxCells,     \* bound on the pairs of resolving functions
  MaxCalls,     \* bound on the scripts and the calls of promise functions in them
  MaxDepth,     \* bound on the stack
  Objects,      \* objects with a then property of their own
  Plain,        \* values without one
  Reasons,      \* what a program throws
  TypeError,    \* the error the VM creates
  Undefined,
  Custom,       \* a capability record of a custom constructor
  None

ASSUME BoundsAssumption ==
  {MaxPromises, MaxCells, MaxCalls, MaxDepth} \subseteq Nat

Promises == 1..MaxPromises
Values == Promises \cup Objects \cup Plain

ASSUME ValuesAssumption ==
  /\ Undefined \in Plain /\ TypeError \in Reasons
  /\ Objects \cap Plain = {} /\ Promises \cap (Objects \cup Plain) = {}
  /\ Custom \notin 0..MaxPromises
  /\ \A x \in Promises \cup Objects : None \notin {[is |-> "locked", of |-> x], [is |-> "resolving", of |-> x]}

VARIABLES
  promises,   \* PromiseObject: [state, result, fulfil, reject] and its course
  cells,      \* PromiseResolutionCell: [promise, claimed], native when no program holds it
  jobs,       \* PromiseJobQueue.jobs
  active,     \* PromiseJobQueue.active is Some
  stack,      \* the completion stack
  ctl, out,   \* "idle", "run", or "drain": natives resume with the value out
  thens,      \* history: per call of then its promise and whether a handler was begun
  calls,      \* number of scripts and calls so far
  finals      \* history: what each finally callback was called for

vars == <<promises, cells, jobs, active, stack, ctl, out, thens, calls, finals>>

Free == [state |-> "free", result |-> None, fulfil |-> <<>>, reject |-> <<>>, course |-> None]
Pending == [Free EXCEPT !.state = "pending"]

Init ==
  /\ promises = [p \in Promises |-> Free]
  /\ cells = <<>> /\ jobs = <<>> /\ active = FALSE
  /\ stack = <<>> /\ ctl = "idle" /\ out = None
  /\ thens = <<>> /\ calls = 0 /\ finals = {}

-----------------------------------------------------------------------------
(***************************************************************************)
(* The promise table and the job queue, as a value w that the operations   *)
(* of one step transform in turn.                                          *)
(***************************************************************************)
World == [ps |-> promises, jobs |-> jobs]
Become(w) == promises' = w.ps /\ jobs' = w.jobs

\* create_promise: the next identity.
Fresh(w, p) == w.ps[p].state = "free" /\ \A q \in 1..p-1 : w.ps[q].state # "free"
Create(w, p, record) == [w EXCEPT !.ps[p] = record]

ReactionJob(r, v, rejected) ==
  [kind |-> "reaction", id |-> r.id, handler |-> r.handler, cap |-> r.cap, argument |-> v,
   rejected |-> rejected]

\* settle_promise and enqueue_promise_reaction_list.
MaySettle(w, p) == w.ps[p].state = "pending"
Emptied(list) == <<>>
Settle(w, p, state, v) ==
  LET list == IF state = "rejected" THEN w.ps[p].reject ELSE w.ps[p].fulfil IN
  IF ~MaySettle(w, p) THEN w
  ELSE [ps |-> [w.ps EXCEPT ![p] = [@ EXCEPT !.state = state, !.result = v,
                                            !.fulfil = Emptied(@), !.reject = Emptied(@)]],
        jobs |-> w.jobs \o [i \in DOMAIN list |-> ReactionJob(list[i], v, state = "rejected")]]

\* A derived promise nobody can reach: its outcome has no effect.
Hidden == 0
SettleCap(w, cap, state, v) == IF cap = Hidden THEN w ELSE Settle(w, cap, state, v)

\* finish_promise_resolution with a callable then.
\* Mutant: a promise that is settled already gets no job.
LockIfPending(w, p, x) ==
  [ps |-> [w.ps EXCEPT ![p].course = [is |-> "locked", of |-> x]],
   jobs |-> IF x \in Promises /\ w.ps[x].state # "pending" THEN w.jobs
            ELSE Append(w.jobs, [kind |-> "thenable", promise |-> p, thenable |-> x])]
Lock(w, p, x) ==
  [ps |-> [w.ps EXCEPT ![p].course = [is |-> "locked", of |-> x]],
   jobs |-> Append(w.jobs, [kind |-> "thenable", promise |-> p, thenable |-> x])]

\* begin_promise_resolution: what the then lookup may do.  A promise inherits the
\* built-in then; an object's property is the program's, and may be a getter.
Lookups(w, p, x) ==
  LET done(u) == [w |-> u, getter |-> FALSE] IN
  CASE x = p -> {done(Settle(w, p, "rejected", TypeError))}
    [] x \notin Promises \cup Objects -> {done(Settle(w, p, "fulfilled", x))}
    [] x \in Promises \ {p} -> {done(Lock(w, p, x))}
    [] x \in Objects ->
         {done(Settle(w, p, "fulfilled", x)), done(Lock(w, p, x)),
          done(Settle(w, p, "rejected", TypeError)),
          [w |-> [w EXCEPT !.ps[p].course = [is |-> "resolving", of |-> x]], getter |-> TRUE]}

\* perform_promise_then_with_capability: both lists, or one job at once.
\* Mutant: a reaction is put in front of the list.
AppendReactionFront(list, r) == <<r>> \o list
AppendReaction(list, r) == Append(list, r)
Attach(w, p, onFulfilled, onRejected, cap, id) ==
  LET r(h) == [handler |-> h, cap |-> cap, id |-> id]
      q == w.ps[p] IN
  CASE q.state = "pending" ->
         [w EXCEPT !.ps[p].fulfil = AppendReaction(@, r(onFulfilled)),
                   !.ps[p].reject = AppendReaction(@, r(onRejected))]
    [] q.state = "fulfilled" ->
         [w EXCEPT !.jobs = Append(@, ReactionJob(r(onFulfilled), q.result, FALSE))]
    [] q.state = "rejected" ->
         [w EXCEPT !.jobs = Append(@, ReactionJob(r(onRejected), q.result, TRUE))]

NoHandler == [kind |-> "none"]
UserHandler == [kind |-> "user"]
Resolver(c, reject) == [kind |-> "resolver", cell |-> c, reject |-> reject]
FinallyHandler(rejected) == [kind |-> "finally", rejected |-> rejected]
Thunk(v, rejected) == [kind |-> "thunk", value |-> v, rejected |-> rejected]

-----------------------------------------------------------------------------
(***************************************************************************)
(* Control.                                                                *)
(***************************************************************************)
Top == Last(stack)
Call(s, entry) ==
  /\ Len(s) < MaxDepth
  /\ stack' = Append(s, entry)
  /\ ctl' = "run" /\ out' = None

\* A native operation returned v to what lies below it on s.
\* resume_native_continuation drains waiting natives.
Proceed(s, v) ==
  /\ stack' = s
  /\ IF s # <<>> /\ ~Last(s).frame THEN ctl' = "drain" /\ out' = v
     ELSE ctl' = (IF s = <<>> THEN "idle" ELSE "run") /\ out' = None

\* dispatch_abrupt turned a throw into a settlement and returns to the dispatch
\* loop, which knows only frames: a waiting native is left behind.
Abandon(s) ==
  /\ stack' = s
  /\ ctl' = (IF s # <<>> /\ Last(s).frame THEN "run" ELSE "idle") /\ out' = None

\* begin_promise_resolution of p with x, called from s; mode and back say what
\* complete_promise_resolution does and returns.
Resolve(w, s, p, x, mode, back) ==
  \E o \in Lookups(w, p, x) :
    /\ Become(o.w)
    /\ IF o.getter
       THEN /\ Call(s, [kind |-> "resolution", frame |-> TRUE, promise |-> p, value |-> x,
                        mode |-> mode, back |-> back])
            /\ UNCHANGED active
       ELSE /\ Proceed(s, back)
            /\ active' = IF mode = "reaction" THEN FALSE ELSE active

\* begin_promise_reaction_settlement.
SettleReaction(w, s, cap, x, rejected) ==
  CASE cap = Custom ->
         Become(w) /\ Call(s, [kind |-> "capability", frame |-> TRUE]) /\ UNCHANGED active
    [] cap # Custom /\ rejected ->
         Become(SettleCap(w, cap, "rejected", x)) /\ Proceed(s, Undefined) /\ active' = FALSE
    [] cap = Hidden /\ ~rejected -> Become(w) /\ Proceed(s, Undefined) /\ active' = FALSE
    [] cap \in Promises /\ ~rejected -> Resolve(w, s, cap, x, "reaction", Undefined)

\* claim_promise_resolver.
\* Mutant: every call is the first.
ClaimableAlways(c) == TRUE
Claimable(c) == ~cells[c].claimed
Claimed(c) == [cells EXCEPT ![c].claimed = TRUE]

\* begin_promise_resolver_call from s.
CallResolver(s, c, reject, x) ==
  IF ~Claimable(c) THEN Become(World) /\ Proceed(s, Undefined) /\ UNCHANGED <<cells, active>>
  ELSE /\ cells' = Claimed(c)
       /\ IF reject
          THEN /\ Become(Settle(World, cells[c].promise, "rejected", x))
               /\ Proceed(s, Undefined) /\ UNCHANGED active
          ELSE Resolve(World, s, cells[c].promise, x, "call", Undefined)

\* reject_promise_executor, reject_promise_thenable.
RejectThrough(c, e) ==
  IF Claimable(c)
  THEN cells' = Claimed(c) /\ Become(Settle(World, cells[c].promise, "rejected", e))
  ELSE UNCHANGED <<cells, promises, jobs>>

NewCell(p, native) ==
  /\ Len(cells) < MaxCells
  /\ cells' = Append(cells, [promise |-> p, claimed |-> FALSE, native |-> native])

-----------------------------------------------------------------------------
(***************************************************************************)
(* The program.                                                            *)
(***************************************************************************)
Running == ctl = "run"

\* The promises a program holds: not one whose constructor, Promise.resolve or Promise.try
\* has not returned, nor those made within a finally handler.
Known ==
  {p \in Promises : promises[p].state # "free"}
    \ UNION ({f.inner : f \in finals}
             \cup {CASE e.kind = "executor" -> {cells[e.cell].promise}
                     [] e.kind = "try" -> {e.promise}
                     [] e.kind = "resolution" /\ e.mode = "static" -> {e.promise}
                     [] OTHER -> {} : e \in ToSet(stack)})
Held == Known \cup Objects \cup Plain

Spend == calls < MaxCalls /\ calls' = calls + 1

\* execute: enter_with_parent discards whatever was left.
Execute ==
  /\ ctl = "idle" /\ Spend
  /\ Call(<<>>, [kind |-> "entry", frame |-> TRUE])
  /\ UNCHANGED <<promises, cells, jobs, active, thens, finals>>

\* new Promise(executor), Promise.withResolvers, Promise.reject, and an executor
\* whose native call is an error.
Construct(p) ==
  /\ Running /\ Spend /\ Fresh(World, p)
  /\ Become(Create(World, p, Pending))
  /\ NewCell(p, FALSE)
  /\ Call(stack, [kind |-> "executor", frame |-> TRUE, cell |-> Len(cells) + 1])
  /\ UNCHANGED <<active, thens, finals>>

WithResolvers(p) ==
  /\ Running /\ Spend /\ Fresh(World, p)
  /\ Become(Create(World, p, Pending))
  /\ NewCell(p, FALSE)
  /\ UNCHANGED <<active, stack, ctl, out, thens, finals>>

CreateRejected(p, e) ==
  /\ Running /\ Spend /\ Fresh(World, p)
  /\ Become(Create(World, p, [Free EXCEPT !.state = "rejected", !.result = e]))
  /\ UNCHANGED <<cells, active, stack, ctl, out, thens, finals>>

\* Promise.resolve(x) for a value that is no promise.
StaticResolve(p, x) ==
  /\ Running /\ Spend /\ Fresh(World, p) /\ x \notin Promises
  /\ Resolve(Create(World, p, Pending), stack, p, x, "static", p)
  /\ UNCHANGED <<cells, thens, finals>>

\* Promise.try calls its callback at once.
Try(p) ==
  /\ Running /\ Spend /\ Fresh(World, p)
  /\ Become(Create(World, p, Pending))
  /\ Call(stack, [kind |-> "try", frame |-> TRUE, promise |-> p])
  /\ UNCHANGED <<cells, active, thens, finals>>

\* One of the resolving functions a program holds.
CallResolving(c, reject, x) ==
  /\ Running /\ Spend /\ ~cells[c].native
  /\ IF reject THEN x \in Reasons ELSE x \in Held
  /\ CallResolver(stack, c, reject, x)
  /\ UNCHANGED <<thens, finals>>

\* then with the intrinsic species, and catch: a derived promise d; with a custom
\* species constructor: a capability record.
Then(p, onFulfilled, onRejected, cap) ==
  /\ Running /\ Spend
  /\ p \in Known
  /\ thens' = Append(thens, [of |-> p, begun |-> FALSE])
  /\ IF cap = Custom THEN Become(Attach(World, p, onFulfilled, onRejected, cap, Len(thens')))
     ELSE /\ Fresh(World, cap)
          /\ Become(Attach(Create(World, cap, Pending), p, onFulfilled, onRejected, cap, Len(thens')))
  /\ UNCHANGED <<cells, active, stack, ctl, out, finals>>

\* finally: then with two handlers around one callback.
Finally(p, d) == Then(p, FinallyHandler(FALSE), FinallyHandler(TRUE), d)

-----------------------------------------------------------------------------
(***************************************************************************)
(* The frame on top returns x.                                             *)
(***************************************************************************)
Returning(kind) == Running /\ Top.kind = kind

ReturnEntry ==
  /\ Returning("entry")
  /\ Proceed(<<>>, Undefined)
  /\ UNCHANGED <<promises, cells, jobs, active, thens, calls, finals>>

ReturnExecutor ==
  /\ Returning("executor")
  /\ Proceed(Front(stack), cells[Top.cell].promise)
  /\ UNCHANGED <<promises, cells, jobs, active, thens, calls, finals>>

\* finish_promise_thenable, finish_promise_capability_call.
ReturnJob ==
  /\ Returning("thenable") \/ Returning("capability")
  /\ active' = FALSE
  /\ Proceed(Front(stack), Undefined)
  /\ UNCHANGED <<promises, cells, jobs, thens, calls, finals>>

\* finish_promise_reaction.
ReturnReaction(x) ==
  /\ Returning("reaction")
  /\ SettleReaction(World, Front(stack), Top.cap, x, FALSE)
  /\ UNCHANGED <<cells, thens, calls, finals>>

\* finish_promise_try_callback.
ReturnTry(x) ==
  /\ Returning("try")
  /\ Resolve(World, Front(stack), Top.promise, x, "static", Top.promise)
  /\ UNCHANGED <<cells, thens, calls, finals>>

\* The getter of a then property: finish_promise_resolution.
ReturnGetter(callable) ==
  /\ Returning("resolution")
  /\ LET p == Top.promise IN
     Become(IF callable THEN Lock(World, p, Top.value)
            ELSE Settle(World, p, "fulfilled", Top.value))
  /\ active' = IF Top.mode = "reaction" THEN FALSE ELSE active
  /\ Proceed(Front(stack), Top.back)
  /\ UNCHANGED <<cells, thens, calls, finals>>

\* finish_promise_finally_callback: the callback's result as a promise q, and d
\* derived from it by the thunk that restores the original settlement.  A getter
\* begun for q runs after the thunk is attached.
\* Mutant: the thunk forgets that the original was a rejection.
RestoreForgotten(rejected) == FALSE
Restore(rejected) == rejected
ReturnFinally(x, q, d) ==
  LET f == Top
      thunk == Thunk(f.original, Restore(f.rejected))
      mapped(w) == Attach(Create(w, d, Pending), q, thunk, NoHandler, d, 0)
      reaction == Front(stack)
      cap == Last(reaction).cap IN
  /\ Returning("finally")
  /\ finals' = finals \cup {[of |-> cap, original |-> f.original, rejected |-> f.rejected,
                            via |-> q, inner |-> (IF cap = Custom THEN {q} ELSE {q, d}) \ {x}]}
  /\ IF x \in Promises
     THEN /\ q = x /\ Fresh(World, d)
          /\ SettleReaction(mapped(World), Front(reaction), cap, d, FALSE)
     ELSE /\ Fresh(World, q) /\ d = q + 1 /\ d \in Promises
          /\ \E o \in Lookups(Create(World, q, Pending), q, x) :
               IF o.getter
               THEN /\ Become(mapped(o.w))
                    /\ Call(reaction, [kind |-> "resolution", frame |-> TRUE, promise |-> q,
                                       value |-> x, mode |-> "internal", back |-> d])
                    /\ UNCHANGED active
               ELSE SettleReaction(mapped(o.w), Front(reaction), cap, d, FALSE)
  /\ UNCHANGED <<cells, thens, calls>>

\* A native handler waiting below a frame that has returned.
Drain ==
  /\ ctl = "drain"
  /\ SettleReaction(World, Front(stack), Top.cap, out, FALSE)
  /\ UNCHANGED <<cells, thens, calls, finals>>

-----------------------------------------------------------------------------
(***************************************************************************)
(* The frame on top throws e: dispatch_abrupt.                             *)
(***************************************************************************)
Throw(e) ==
  /\ Running
  /\ CASE Top.kind = "entry" ->
            Abandon(<<>>) /\ UNCHANGED <<promises, jobs, cells, active>>
       [] Top.kind = "executor" ->
            RejectThrough(Top.cell, e) /\ Abandon(Front(stack)) /\ UNCHANGED active
       [] Top.kind = "thenable" ->
            RejectThrough(Top.cell, e) /\ Abandon(Front(stack)) /\ active' = FALSE
       [] Top.kind = "reaction" ->
            SettleReaction(World, Front(stack), Top.cap, e, TRUE) /\ UNCHANGED cells
       [] Top.kind = "finally" ->
            /\ SettleReaction(World, Front(Front(stack)), Last(Front(stack)).cap, e, TRUE)
            /\ UNCHANGED cells
       [] Top.kind = "try" ->
            /\ Become(Settle(World, Top.promise, "rejected", e))
            /\ Abandon(Front(stack)) /\ UNCHANGED <<cells, active>>
       [] Top.kind = "resolution" ->
            /\ Become(Settle(World, Top.promise, "rejected", e))
            /\ active' = IF Top.mode = "reaction" THEN FALSE ELSE active
            /\ Abandon(Front(stack)) /\ UNCHANGED cells
       [] Top.kind = "capability" ->   \* an unhandled throw, reported to the host
            Abandon(<<>>) /\ active' = FALSE /\ UNCHANGED <<promises, jobs, cells>>
  /\ UNCHANGED <<thens, calls, finals>>

-----------------------------------------------------------------------------
(***************************************************************************)
(* promise_checkpoint_step.                                                *)
(***************************************************************************)
Begin(kind) ==
  /\ ctl = "idle" /\ stack = <<>>
  /\ jobs # <<>> /\ Head(jobs).kind = kind
Begun == [World EXCEPT !.jobs = Tail(@)]
Began(id) == [i \in DOMAIN thens |->
               IF i = id THEN [thens[i] EXCEPT !.begun = TRUE] ELSE thens[i]]

\* call_promise_reaction_handler and the pass-through of a missing handler.
RunReaction ==
  LET job == Head(jobs)
      waiting == <<[kind |-> "reaction", frame |-> FALSE, cap |-> job.cap]>> IN
  /\ Begin("reaction")
  /\ CASE job.handler.kind = "none" ->
            SettleReaction(Begun, <<>>, job.cap, job.argument, job.rejected) /\ UNCHANGED cells
       [] job.handler.kind = "user" ->
            /\ Become(Begun) /\ active' = TRUE
            /\ Call(<<>>, [waiting[1] EXCEPT !.frame = TRUE])
            /\ UNCHANGED cells
       [] job.handler.kind = "finally" ->
            /\ Become(Begun) /\ active' = TRUE
            /\ Call(waiting, [kind |-> "finally", frame |-> TRUE, original |-> job.argument,
                              rejected |-> job.handler.rejected])
            /\ UNCHANGED cells
       [] job.handler.kind = "thunk" ->
            /\ SettleReaction(Begun, <<>>, job.cap, job.handler.value, job.handler.rejected)
            /\ UNCHANGED cells
       [] job.handler.kind = "resolver" ->
            LET c == job.handler.cell
                p == cells[c].promise IN
            /\ cells' = Claimed(c)
            /\ IF job.handler.reject
               THEN /\ Become(Settle(Begun, p, "rejected", job.argument))
                    /\ Proceed(<<>>, Undefined) /\ active' = FALSE
               ELSE \E o \in Lookups(Begun, p, job.argument) :
                      /\ Become(o.w)
                      /\ IF o.getter
                         THEN /\ active' = TRUE
                              /\ Call(waiting, [kind |-> "resolution", frame |-> TRUE,
                                                promise |-> p, value |-> job.argument,
                                                mode |-> "call", back |-> Undefined])
                         ELSE Proceed(<<>>, Undefined) /\ active' = FALSE
  /\ thens' = Began(job.id)
  /\ UNCHANGED <<calls, finals>>

\* The call of a handler is an error other than a throw (a handler that is a class, a
\* limit reached): the host gets it, the job stays active and its capability unsettled.
HandlerFails ==
  LET job == Head(jobs) IN
  /\ Begin("reaction") /\ job.handler.kind \in {"user", "finally"}
  /\ Become(Begun) /\ active' = TRUE
  /\ thens' = Began(job.id)
  /\ UNCHANGED <<cells, stack, ctl, out, calls, finals>>

\* begin_promise_thenable_job: fresh resolving functions for the promise.  A
\* promise's built-in then attaches them and derives an unreachable promise.
RunThenable ==
  LET job == Head(jobs)
      c == Len(cells) + 1 IN
  /\ Begin("thenable")
  /\ NewCell(job.promise, job.thenable \in Promises)
  /\ IF job.thenable \in Promises
     THEN /\ Become(Attach(Begun, job.thenable, Resolver(c, FALSE), Resolver(c, TRUE), Hidden, 0))
          /\ Proceed(<<>>, Undefined) /\ active' = FALSE
     ELSE /\ Become(Begun) /\ active' = TRUE
          /\ Call(<<>>, [kind |-> "thenable", frame |-> TRUE, cell |-> c])
  /\ UNCHANGED <<thens, calls, finals>>

\* The thenable's native call is an error.
ThenableFails ==
  LET job == Head(jobs) IN
  /\ Begin("thenable") /\ job.thenable \notin Promises
  /\ Become(Settle(Begun, job.promise, "rejected", TypeError))
  /\ active' = FALSE
  /\ UNCHANGED <<cells, stack, ctl, out, thens, calls, finals>>

-----------------------------------------------------------------------------

Program ==
  \/ \E p \in Promises :
       \/ Construct(p) \/ WithResolvers(p) \/ Try(p)
       \/ \E e \in Reasons : CreateRejected(p, e)
       \/ \E x \in Values : StaticResolve(p, x)
       \/ \E h, k \in {NoHandler, UserHandler}, cap \in Promises \cup {Custom} : Then(p, h, k, cap)
       \/ \E d \in Promises : Finally(p, d)
  \/ \E c \in DOMAIN cells, reject \in BOOLEAN, x \in Values \cup Reasons :
       CallResolving(c, reject, x)
  \/ ReturnEntry \/ ReturnExecutor \/ ReturnJob
  \/ \E x \in Held : ReturnReaction(x)
  \/ \E x \in Held : ReturnTry(x)
  \/ \E callable \in BOOLEAN : ReturnGetter(callable)
  \/ \E x \in Held, q, d \in Promises : ReturnFinally(x, q, d)
  \/ \E e \in Reasons : Throw(e)

Next ==
  Execute \/ Program \/ Drain \/ RunReaction \/ HandlerFails \/ RunThenable \/ ThenableFails

Spec == Init /\ [][Next]_vars

-----------------------------------------------------------------------------
(***************************************************************************)
(* Properties.                                                             *)
(***************************************************************************)
\* The fate of p as a program can observe it.
Fate(p) ==
  LET q == promises[p] IN
  CASE q.state = "free" -> [is |-> "absent"]
    [] q.state = "pending" /\ q.course = None -> [is |-> "open"]
    [] q.state = "pending" /\ q.course # None -> q.course
    [] OTHER -> [is |-> q.state, of |-> q.result]

Outcome == INSTANCE PromiseOutcome WITH fate <- [p \in Promises |-> Fate(p)]

\* Resolving functions, jobs, frames and thenables together implement the promised
\* outcomes: the first resolution decides, a locked promise adopts the outcome of the
\* promise it is locked to, and no outcome changes (claim_promise_resolver, settle_promise,
\* begin_promise_thenable_job and the native handlers of an adoption).
OutcomesFirm == Outcome!Spec

Occurrences(list, id) == {i \in DOMAIN list : list[i].id = id}
Answers(id) == {i \in DOMAIN jobs : jobs[i].kind = "reaction" /\ jobs[i].id = id}

\* Every call of then is answered once: while its promise is pending its reaction is in
\* both lists, afterwards it is one job with the promise's outcome, and then it is neither.
\* Reactions to one promise begin in the order of the calls, whether they were registered
\* before or after it settled (perform_promise_then_with_capability, settle_promise,
\* append_reaction, enqueue_promise_reaction_list).
ReactionsOnceInOrder ==
  /\ \A id \in DOMAIN thens :
       LET p == promises[thens[id].of]
           waits == p.state = "pending" IN
       /\ \A list \in {p.fulfil, p.reject} :
            Cardinality(Occurrences(list, id)) = IF waits THEN 1 ELSE 0
       /\ thens[id].begun => ~waits
       /\ Cardinality(Answers(id)) = IF waits \/ thens[id].begun THEN 0 ELSE 1
       /\ \A i \in Answers(id) : /\ jobs[i].argument = p.result
                                /\ jobs[i].rejected = (p.state = "rejected")
  /\ \A j \in DOMAIN thens : thens[j].begun =>
       \A i \in 1..j-1 : thens[i].of = thens[j].of => thens[i].begun

\* A promise locked to another is never forgotten: until it takes that one's outcome its
\* thenable job is queued, or unclaimed resolving functions for it react to that promise
\* (finish_promise_resolution, begin_promise_thenable_job).
AdoptionPending ==
  \A p \in Promises :
    LET q == promises[p].course.of
        adopts(r) == /\ r.handler.kind = "resolver"
                     /\ cells[r.handler.cell] = [promise |-> p, claimed |-> FALSE, native |-> TRUE]
        within(list) == \E i \in DOMAIN list : adopts(list[i]) IN
    promises[p].state = "pending" /\ promises[p].course # None
      /\ promises[p].course.is = "locked" /\ q \in Promises =>
      \/ \E i \in DOMAIN jobs : /\ jobs[i].kind = "thenable"
                                /\ jobs[i].promise = p /\ jobs[i].thenable = q
      \/ within(promises[q].fulfil) /\ within(promises[q].reject)
      \/ \E i \in DOMAIN jobs : jobs[i].kind = "reaction" /\ adopts(jobs[i])

\* finally is transparent: a promise derived by it settles after the promise its callback
\* returned; it takes over that one's rejection, and else the settlement the callback was
\* called for (finish_promise_finally_callback and its thunks).
FinallyTransparent ==
  \A f \in finals :
    f.of \in Promises /\ promises[f.of].state # "pending" =>
      LET d == promises[f.of]
          via == promises[f.via] IN
      /\ via.state # "pending"
      /\ via.state = "rejected" => d.state = "rejected" /\ d.result = via.result
      /\ via.state = "fulfilled" /\ f.rejected =>
           d.state = "rejected" /\ d.result = f.original
      /\ via.state = "fulfilled" /\ ~f.rejected /\ f.original \in Plain =>
           d.state = "fulfilled" /\ d.result = f.original

=============================================================================
