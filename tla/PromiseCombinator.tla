--------------------------- MODULE PromiseCombinator ---------------------------
(***************************************************************************)
(* One call of Promise.all, allSettled, any or race (crates/tachyon-vm:    *)
(* builtins/promise_combinator/ and promise_combinator_state.rs): the      *)
(* driver that walks the iterable through observable operations, the       *)
(* element functions its inputs may call at any time and any number of     *)
(* times, the count of outstanding elements, closing of the iterator after *)
(* a failure, and the aggregate promise or the capability of a custom      *)
(* constructor.                                                            *)
(*                                                                         *)
(* An operation of the driver either completes within the native call      *)
(* (frame = FALSE) or runs a JavaScript frame and resumes the driver when  *)
(* that returns.  Code in a frame may call functions of earlier elements.  *)
(***************************************************************************)
EXTENDS Integers, FiniteSets, Sequences

CONSTANTS
  MaxInputs,  \* bound on the values the iterator yields
  Kinds       \* the combinators called, of "all", "allSettled", "any", "race"

ASSUME InputsAssumption == MaxInputs \in Nat
ASSUME KindsAssumption == Kinds \subseteq {"all", "allSettled", "any", "race"}

Before == {"CapabilityConstructor", "ResolveGet", "IteratorMethodGet", "IteratorMethodCall"}
Iterating == {"NextGet", "NextCall", "DoneGet", "ValueGet"}
OfElement == {"ResolveCall", "ThenGet", "ThenCall"}
Closing == {"CloseReturnGet", "CloseReturnCall"}
CapabilityCalls == {"CapabilityResolveCall", "CapabilityRejectCall"}
\* "fresh": not called yet; "returned": to the caller, with the aggregate; "thrown".
Ended == {"fresh", "returned", "thrown"}
Stages == Before \cup Iterating \cup OfElement \cup Closing \cup CapabilityCalls \cup Ended

Reasons == Stages \cup {"errors", "input"}
Fates == [is : {"open", "locked"}] \cup [is : {"fulfilled"}, of : {"values", "input"}]
           \cup [is : {"rejected"}, of : Reasons]

VARIABLES
  kind, generic, \* the combinator; called on a custom constructor
  stage,         \* the driver's operation in progress
  base,          \* stage of the continuation that is given a synchronous error
  index, remaining, settled, iterator, iteratorDone, \* of PendingPromiseCombinator
  current,       \* its current: the reason, once the iterator is being closed
  handed,        \* indexes whose element functions were given to an input
  called,        \* PromiseCombinatorElement.already_called
  recorded,      \* indexes of values that an element function has written
  claimed,       \* the aggregate's resolving functions were used
  aggregate,     \* the aggregate promise
  handlerCall,   \* capability function an element function is waiting for
  own, closes, faults \* history: capability calls, lookups of return, failures

state == <<index, remaining, settled, iterator, iteratorDone, current, handed, called, recorded>>
vars == <<kind, generic, stage, base, state, claimed, aggregate, handlerCall, own, closes, faults>>

Open == [is |-> "open"]
Locked == [is |-> "locked"]
Fulfilled(x) == [is |-> "fulfilled", of |-> x]
Rejected(e) == [is |-> "rejected", of |-> e]

Init ==
  /\ kind \in Kinds /\ generic \in BOOLEAN
  /\ stage = "fresh" /\ base = "fresh"
  /\ index = 0 /\ remaining = 1 /\ settled = FALSE
  /\ iterator = FALSE /\ iteratorDone = FALSE /\ current = "fresh"
  /\ handed = {} /\ called = {} /\ recorded = {}
  /\ claimed = FALSE /\ aggregate = Open /\ handlerCall = "fresh"
  /\ own = <<>> /\ closes = 0 /\ faults = <<>>

-----------------------------------------------------------------------------
(***************************************************************************)
(* Settlement.                                                             *)
(***************************************************************************)
\* settle_promise and begin_promise_resolution: a promise that is not pending stays.
Settled(fate) == IF aggregate.is \in {"open", "locked"} THEN fate ELSE aggregate

\* finish_promise_combinator_fulfill and finish_promise_combinator_reject, by the driver;
\* done tells whether the aggregate was settled before this step.
Op(fate) == IF fate.is = "rejected" THEN "CapabilityRejectCall" ELSE "CapabilityResolveCall"
Finish(fate, done, at) ==
  IF done
  THEN /\ stage' = "returned" /\ settled' = TRUE
       /\ UNCHANGED <<base, aggregate, own>>
  ELSE /\ settled' = TRUE
       /\ IF generic
          THEN /\ stage' = Op(fate) /\ base' = at
               /\ own' = Append(own, fate) /\ UNCHANGED aggregate
          ELSE stage' = "returned" /\ aggregate' = Settled(fate) /\ UNCHANGED <<base, own>>

\* With what the aggregate ends once every element has reported.
Final == IF kind = "any" THEN Rejected("errors") ELSE Fulfilled("values")

-----------------------------------------------------------------------------
(***************************************************************************)
(* The driver: begin_promise_combinator, resume_promise_combinator.        *)
(***************************************************************************)
Begin ==
  /\ stage = "fresh"
  /\ stage' = IF generic THEN "CapabilityConstructor" ELSE "ResolveGet"
  /\ base' = IF generic THEN "thrown" ELSE "ResolveGet"
  /\ UNCHANGED <<kind, generic, state, claimed, aggregate, handlerCall, own, closes, faults>>

\* The guarded path for an empty array.
BeginEmptyArray ==
  /\ stage = "fresh" /\ kind = "all" /\ ~generic
  /\ stage' = "returned" /\ aggregate' = Settled(Fulfilled("values"))
  /\ iteratorDone' = TRUE /\ remaining' = 0
  /\ UNCHANGED <<kind, generic, base, index, settled, iterator, current, handed, called, recorded, claimed,
                 handlerCall, own, closes, faults>>

\* The operation in progress has completed and its value is as required.
At(s) == stage = s /\ handlerCall = "fresh"
Continuation(frame) == IF frame THEN stage ELSE base

Follows ==
  [CapabilityConstructor |-> "ResolveGet", ResolveGet |-> "IteratorMethodGet",
   IteratorMethodGet |-> "IteratorMethodCall", IteratorMethodCall |-> "NextGet",
   NextGet |-> "NextCall", NextCall |-> "DoneGet", ResolveCall |-> "ThenGet"]

Advance(frame) ==
  /\ stage \in DOMAIN Follows /\ At(stage)
  /\ stage' = Follows[stage] /\ base' = Continuation(frame)
  /\ iterator' = (iterator \/ stage = "IteratorMethodCall")
  /\ UNCHANGED <<kind, generic, index, remaining, settled, iteratorDone, current, handed, called,
                 recorded, claimed, aggregate, handlerCall, own, closes, faults>>

\* DoneGet.
\* Mutant: the driver's own share of the count is not given up.
ShareKept(n) == n
ShareGiven(n) == n - 1
Done(frame) ==
  /\ At("DoneGet")
  /\ iteratorDone' = TRUE
  /\ remaining' = IF kind = "race" THEN remaining ELSE ShareGiven(remaining)
  /\ IF kind # "race" /\ remaining' = 0
     THEN Finish(Final, settled, Continuation(frame))
     ELSE stage' = "returned" /\ UNCHANGED <<base, settled, aggregate, own>>
  /\ UNCHANGED <<kind, generic, iterator, index, current, handed, called, recorded, claimed, handlerCall,
                 closes, faults>>

NotDone(frame) ==
  /\ At("DoneGet") /\ index < MaxInputs
  /\ stage' = "ValueGet" /\ base' = Continuation(frame)
  /\ UNCHANGED <<kind, generic, state, claimed, aggregate, handlerCall, own, closes, faults>>

\* ValueGet: the element counts before any code of the program can see it.
\* Mutant: it counts from the second one on.
CountedLate(n) == IF index = 0 THEN n ELSE n + 1
Counted(n) == n + 1
Value(frame) ==
  /\ At("ValueGet")
  /\ remaining' = IF kind = "race" THEN remaining ELSE Counted(remaining)
  /\ stage' = "ResolveCall" /\ base' = Continuation(frame)
  /\ UNCHANGED <<kind, generic, iterator, index, settled, iteratorDone, current, handed, called, recorded,
                 claimed, aggregate, handlerCall, own, closes, faults>>

\* ThenGet: the element's functions are given to the then of its promise.
CallThen(frame) ==
  /\ At("ThenGet")
  /\ handed' = handed \cup {index}
  /\ stage' = "ThenCall" /\ base' = Continuation(frame)
  /\ UNCHANGED <<kind, generic, iterator, index, remaining, settled, iteratorDone, current, called,
                 recorded, claimed, aggregate, handlerCall, own, closes, faults>>

ThenReturned(frame) ==
  /\ At("ThenCall")
  /\ index' = index + 1
  /\ stage' = "NextCall" /\ base' = Continuation(frame)
  /\ UNCHANGED <<kind, generic, iterator, remaining, settled, iteratorDone, current, handed, called,
                 recorded, claimed, aggregate, handlerCall, own, closes, faults>>

\* CloseReturnGet with a function; without one, and CloseReturnCall: the reason goes on.
CallReturn(frame) ==
  /\ At("CloseReturnGet")
  /\ stage' = "CloseReturnCall" /\ base' = Continuation(frame)
  /\ UNCHANGED <<kind, generic, state, claimed, aggregate, handlerCall, own, closes, faults>>

Close(frame) ==
  /\ At("CloseReturnGet") \/ At("CloseReturnCall")
  /\ Finish(Rejected(current), settled, Continuation(frame))
  /\ UNCHANGED <<kind, generic, iterator, index, remaining, iteratorDone, current, handed, called, recorded,
                 claimed, handlerCall, closes, faults>>

CapabilityReturned ==
  /\ stage \in CapabilityCalls /\ At(stage)
  /\ stage' = "returned"
  /\ UNCHANGED <<kind, generic, base, state, claimed, aggregate, handlerCall, own, closes, faults>>

-----------------------------------------------------------------------------
(***************************************************************************)
(* Failure: reject_or_close_promise_combinator with the continuation at.   *)
(* A frame that throws is met with its own continuation, an error of a     *)
(* native operation with that of the last frame (or of the call itself).   *)
(***************************************************************************)
\* Mutant: the reason of the failed close replaces the first one.
ReasonLatest(at, thrown) == thrown
Reason(at, thrown) == IF at \in Closing THEN current ELSE thrown
NotClosed(at) == at \in Iterating

Fail(frame) ==
  LET at == Continuation(frame)
      reason == Reason(at, stage)
      rejectUnless(done) ==
        /\ Finish(Rejected(reason), done, "thrown")
        /\ UNCHANGED <<current, closes>> IN
  /\ stage \notin Ended /\ At(stage)
  /\ faults' = Append(faults, [at |-> stage, frame |-> frame])
  /\ CASE at \in {"thrown", "CapabilityConstructor"} ->
            /\ stage' = "thrown"
            /\ UNCHANGED <<base, settled, iteratorDone, current, aggregate, own, closes>>
       [] at = "CapabilityResolveCall" -> rejectUnless(FALSE) /\ UNCHANGED iteratorDone
       [] NotClosed(at) -> iteratorDone' = TRUE /\ rejectUnless(settled)
       [] at \notin Closing \cup {"thrown", "CapabilityConstructor", "CapabilityResolveCall"}
            /\ ~NotClosed(at) /\ ~iteratorDone /\ iterator ->
            /\ current' = reason /\ iteratorDone' = TRUE
            /\ stage' = "CloseReturnGet" /\ base' = "thrown" /\ closes' = closes + 1
            /\ UNCHANGED <<settled, aggregate, own>>
       [] OTHER -> rejectUnless(settled) /\ UNCHANGED iteratorDone
  /\ UNCHANGED <<kind, generic, iterator, index, remaining, handed, called, recorded, claimed, handlerCall>>

-----------------------------------------------------------------------------
(***************************************************************************)
(* The inputs.                                                             *)
(***************************************************************************)
InProgram == stage # "fresh" /\ handlerCall = "fresh"

\* call_promise_all_handler: the fulfilment function of all, the rejection function of any,
\* both of allSettled.
Takes(i) == i \notin called
Element(i) ==
  /\ InProgram /\ kind # "race" /\ i \in handed /\ Takes(i)
  /\ called' = called \cup {i}
  /\ IF settled THEN UNCHANGED <<remaining, recorded, settled, aggregate, own, handlerCall>>
     ELSE /\ recorded' = recorded \cup {i}
          /\ remaining' = remaining - 1
          /\ IF remaining' # 0 THEN UNCHANGED <<settled, aggregate, own, handlerCall>>
             ELSE /\ settled' = TRUE
                  /\ IF generic
                     THEN /\ handlerCall' = Op(Final) /\ own' = Append(own, Final)
                          /\ UNCHANGED aggregate
                     ELSE aggregate' = Settled(Final) /\ UNCHANGED <<own, handlerCall>>
  /\ UNCHANGED <<kind, generic, iterator, stage, base, index, iteratorDone, current, handed, claimed,
                 closes, faults>>

HandlerCallReturned ==
  /\ handlerCall # "fresh"
  /\ handlerCall' = "fresh"
  /\ UNCHANGED <<kind, generic, stage, base, state, claimed, aggregate, own, closes, faults>>

\* The capability function that an element function called throws: from a frame it is met
\* like the driver's, from a native function it goes to the caller of the element function.
HandlerCallFailed(frame) ==
  /\ handlerCall # "fresh"
  /\ IF frame /\ handlerCall = "CapabilityResolveCall"
     THEN handlerCall' = "CapabilityRejectCall" /\ own' = Append(own, Rejected(handlerCall))
     ELSE handlerCall' = "fresh" /\ UNCHANGED own
  /\ UNCHANGED <<kind, generic, stage, base, state, claimed, aggregate, closes, faults>>

\* An input calls a resolving function of the intrinsic aggregate: reject is handed out by
\* all and race, resolve by any and race.
CapabilityGiven(reject) == IF reject THEN kind \in {"all", "race"} ELSE kind \in {"any", "race"}
CallCapability(fate) ==
  /\ InProgram /\ ~generic /\ handed # {} /\ ~claimed
  /\ CapabilityGiven(fate.is = "rejected")
  /\ claimed' = TRUE /\ aggregate' = Settled(fate)
  /\ UNCHANGED <<kind, generic, stage, base, state, handlerCall, own, closes, faults>>

\* The thenable that the aggregate is locked to settles it.
Adopt(fate) ==
  /\ InProgram /\ aggregate = Locked
  /\ aggregate' = fate
  /\ UNCHANGED <<kind, generic, stage, base, state, claimed, handlerCall, own, closes, faults>>

-----------------------------------------------------------------------------
Driver ==
  \/ Begin \/ BeginEmptyArray \/ CapabilityReturned
  \/ \E frame \in BOOLEAN :
       \/ Advance(frame) \/ Done(frame) \/ NotDone(frame) \/ Value(frame)
       \/ CallThen(frame) \/ ThenReturned(frame) \/ CallReturn(frame) \/ Close(frame)
       \/ Fail(frame)

Inputs ==
  \/ \E i \in handed : Element(i)
  \/ HandlerCallReturned
  \/ \E frame \in BOOLEAN : HandlerCallFailed(frame)
  \/ \E fate \in {Fulfilled("input"), Rejected("input"), Locked} : CallCapability(fate)
  \/ \E fate \in {Fulfilled("input"), Rejected("input")} : Adopt(fate)

Next == Driver \/ Inputs

Spec == Init /\ [][Next]_vars
-----------------------------------------------------------------------------
(***************************************************************************)
(* Properties.                                                             *)
(***************************************************************************)
\* The count of outstanding elements is exact while the aggregate is open: one share for the
\* driver, one for the element being attached, one for each element not yet reported
\* (increment_promise_combinator_remaining, decrement_promise_combinator_remaining).
RemainingExact ==
  ~settled /\ kind # "race" /\ stage \notin Closing \cup {"thrown"} =>
    remaining = Cardinality(handed \ called) + (IF stage = "returned" THEN 0 ELSE 1)
                  + (IF stage \in {"ResolveCall", "ThenGet"} THEN 1 ELSE 0)

Outcomes == {own[i] : i \in DOMAIN own} \cup {aggregate}

Complete == handed \subseteq called

\* The aggregate ends with the array of values (any: of errors) only after the iterator
\* is done and every element has written its own, and that completion is never lost: when
\* the driver has returned and every element has reported, the aggregate is decided
\* (DoneGet and call_promise_all_handler: the last of them decides it).
DecidedWhenDue ==
  /\ Final \in Outcomes =>
       /\ iteratorDone /\ closes = 0
       /\ handed = 0..index - 1 /\ Complete /\ recorded = handed
  /\ stage = "returned" /\ kind # "race" /\ Complete => own # <<>> \/ aggregate # Open

\* The capability of a custom constructor is used once; reject follows resolve only when
\* resolve failed.  A failure rejects with its own reason, whatever closing the iterator
\* did; the iterator is closed, once, after a frame of an element's resolve or then threw,
\* and not after one of its own did (finish_promise_combinator_reject,
\* reject_or_close_promise_combinator).
FailureOnce ==
  /\ Len(own) <= 2 /\ closes <= 1
  /\ Len(own) = 2 => own[1].is = "fulfilled" /\ own[2] = Rejected("CapabilityResolveCall")
  /\ \A fate \in Outcomes :
       fate.is = "rejected" /\ fate.of \in Stages \ {"CapabilityResolveCall"} =>
         fate.of = faults[1].at
  /\ faults # <<>> /\ faults[1].frame =>
       /\ faults[1].at \in OfElement => closes = 1
       /\ faults[1].at \in Iterating => closes = 0

=============================================================================
