------------------------ MODULE PromiseCombinatorProofs ------------------------
(***************************************************************************)
(* Proofs about PromiseCombinator, for every combinator and any number of  *)
(* inputs: the count of outstanding elements is exact, the aggregate is    *)
(* decided when it is due, and a failure is reported once.                 *)
(***************************************************************************)
EXTENDS PromiseCombinator, FiniteSetTheorems, TLAPS

\* The type of the state: the flags, and the rest.
Flags ==
  /\ generic \in BOOLEAN /\ settled \in BOOLEAN /\ claimed \in BOOLEAN
  /\ iterator \in BOOLEAN /\ iteratorDone \in BOOLEAN

TypeOK ==
  /\ kind \in {"all", "allSettled", "any", "race"}
  /\ stage \in Stages /\ base \in Stages /\ current \in Stages
  /\ index \in Nat /\ remaining \in Int
  /\ handed \subseteq Nat /\ IsFiniteSet(handed)
  /\ called \subseteq handed /\ recorded \subseteq called
  /\ aggregate \in Fates
  /\ handlerCall \in CapabilityCalls \cup {"fresh"}
  /\ own \in Seq(Fates) /\ closes \in Nat
  /\ faults \in Seq([at : Stages, frame : BOOLEAN])

\* Where the driver is says what it has done: it owns an open iterator while it iterates,
\* and after a failure it never iterates again.
DriverAt ==
  /\ stage = "fresh" => index = 0 /\ handed = {} /\ ~settled /\ remaining = 1
  /\ stage \in Before \cup {"fresh"} => ~iterator /\ ~iteratorDone
  /\ stage \in Iterating \cup OfElement => iterator /\ ~iteratorDone
  /\ stage \in CapabilityCalls => settled /\ generic /\ (iteratorDone \/ ~iterator)
  /\ stage \in Closing => faults # <<>> /\ iteratorDone /\ base \in Closing \cup {"thrown"}
  /\ base \in Closing => faults # <<>> /\ iteratorDone
  /\ base \notin CapabilityCalls
  /\ faults = <<>> => handed = IF stage = "ThenCall" THEN 0..index ELSE 0..index - 1
  /\ faults # <<>> => stage \in {"returned", "thrown"} \cup CapabilityCalls \cup Closing
  /\ stage = "returned" /\ ~settled => faults = <<>> /\ iteratorDone

\* Shares that the driver did not give up keep the elements from deciding the aggregate.
Shares ==
  /\ RemainingExact
  /\ ~settled /\ kind # "race" /\ stage \in Closing \cup {"thrown"} =>
       remaining > Cardinality(handed \ called)
  /\ ~settled => recorded = called
  /\ stage = "returned" /\ ~settled /\ kind # "race" => remaining # 0 \/ aggregate # Open

\* What the capability of a custom constructor was called with.
Reported ==
  /\ ~generic => own = <<>>
  /\ ~settled => own = <<>>
  /\ settled => own # <<>> \/ aggregate # Open
  /\ stage = "CapabilityResolveCall" => Len(own) = 1 /\ own[1].is = "fulfilled"
  /\ handlerCall # "fresh" => stage = "returned" /\ settled /\ generic
  /\ handlerCall = "CapabilityResolveCall" => Len(own) = 1 /\ own[1].is = "fulfilled"
  /\ Len(own) <= 2
  /\ Len(own) = 2 => own[1].is = "fulfilled" /\ own[2] = Rejected("CapabilityResolveCall")

\* A final outcome stands for a complete array.
Completeness ==
  Final \in Outcomes =>
    /\ iteratorDone /\ closes = 0
    /\ handed = 0..index - 1 /\ Complete /\ recorded = handed
    /\ stage \in {"returned", "thrown"} \cup CapabilityCalls

\* A rejection by the driver has the reason of its first failure.
FirstReason ==
  /\ \A fate \in Outcomes :
       fate.is = "rejected" /\ fate.of \in Stages \ {"CapabilityResolveCall"} =>
         faults # <<>> /\ fate.of = faults[1].at
  /\ stage \in Closing => current = faults[1].at
  /\ closes = 0 \/ (closes = 1 /\ iteratorDone)
  /\ faults = <<>> => closes = 0
  /\ faults # <<>> /\ faults[1].frame =>
       /\ faults[1].at \in OfElement => closes = 1 /\ iteratorDone
       /\ faults[1].at \in Iterating => closes = 0 /\ iteratorDone

IInv == Flags /\ TypeOK /\ DriverAt /\ Shares /\ Reported /\ Completeness /\ FirstReason

-----------------------------------------------------------------------------
\* Elements that have not reported: one fewer when one of them does.
LEMMA ReportCount ==
  ASSUME NEW h, NEW c, IsFiniteSet(h), NEW i \in h \ c
  PROVE  /\ Cardinality(h \ c) \in Nat
         /\ Cardinality(h \ (c \cup {i})) = Cardinality(h \ c) - 1
<1>1. IsFiniteSet(h \ c)
  BY FS_Subset
<1>2. h \ (c \cup {i}) = (h \ c) \ {i}
  OBVIOUS
<1>3. QED
  BY <1>1, <1>2, FS_RemoveElement, FS_CardinalityType

\* One more when its functions are handed out.
LEMMA HandCount ==
  ASSUME NEW h, NEW c, IsFiniteSet(h), c \subseteq h, NEW i, i \notin h
  PROVE  /\ IsFiniteSet(h \cup {i})
         /\ Cardinality(h \ c) \in Nat
         /\ Cardinality((h \cup {i}) \ c) = Cardinality(h \ c) + 1
<1>1. IsFiniteSet(h \ c)
  BY FS_Subset
<1>2. (h \cup {i}) \ c = (h \ c) \cup {i}
  OBVIOUS
<1>3. QED
  BY <1>1, <1>2, FS_AddElement, FS_CardinalityType

\* None outstanding: all have reported.
LEMMA NoneCount ==
  ASSUME NEW h, NEW c, IsFiniteSet(h)
  PROVE  /\ Cardinality(h \ c) \in Nat
         /\ Cardinality(h \ c) = 0 <=> h \subseteq c
<1>1. IsFiniteSet(h \ c)
  BY FS_Subset
<1>2. QED
  BY <1>1, FS_EmptySet, FS_CardinalityType

\* The outcomes an aggregate can have.
LEMMA FateTypes ==
  /\ Open \in Fates /\ Locked \in Fates
  /\ Fulfilled("values") \in Fates /\ Fulfilled("input") \in Fates
  /\ \A e \in Stages \cup {"errors", "input"} : Rejected(e) \in Fates
<1>1. Open \in [is : {"open", "locked"}] /\ Locked \in [is : {"open", "locked"}]
  BY DEF Open, Locked
<1>2. \A x \in {"values", "input"} : Fulfilled(x) \in [is : {"fulfilled"}, of : {"values", "input"}]
  BY DEF Fulfilled
<1>3. \A e \in Reasons : Rejected(e) \in [is : {"rejected"}, of : Reasons]
  BY DEF Rejected
<1>4. QED
  BY <1>1, <1>2, <1>3 DEF Fates, Reasons

\* The first state satisfies the invariant.
LEMMA InitIInv == Init => IInv
<1> SUFFICES ASSUME Init PROVE IInv
  OBVIOUS
<1> USE KindsAssumption DEF Init, Stages, Before, Iterating, OfElement, Closing, CapabilityCalls, Ended
<1>1. IsFiniteSet({}) /\ Cardinality({} \ {}) = 0
  BY FS_EmptySet
<1>2. Flags /\ TypeOK
  <2>1. Flags
    BY DEF Flags
  <2>2. TypeOK
    BY <1>1, FateTypes DEF TypeOK
  <2>3. QED
    BY <2>1, <2>2
<1>3. DriverAt
  BY DEF DriverAt
<1>4. Shares
  BY <1>1 DEF Shares, RemainingExact
<1>5. Reported /\ FirstReason
  BY DEF Reported, FirstReason, Outcomes, Open
<1>6. Completeness
  BY DEF Completeness, Final, Outcomes, Open, Rejected, Fulfilled
<1>7. QED
  BY <1>2, <1>3, <1>4, <1>5, <1>6 DEF IInv

-----------------------------------------------------------------------------

\* The number of outstanding elements is a number.
LEMMA OutstandingType == IInv => Cardinality(handed \ called) \in Nat
BY NoneCount DEF IInv, TypeOK

\* Steps of the driver that only go on to the next operation.
LEMMA GoOnIInv ==
  ASSUME IInv, NEW frame \in BOOLEAN,
         Begin \/ Advance(frame) \/ NotDone(frame) \/ CallReturn(frame) \/ CapabilityReturned
  PROVE  IInv'
<1> USE DEF Stages, Before, Iterating, OfElement, Closing, CapabilityCalls, Ended, At
<1>1. /\ UNCHANGED <<kind, generic, index, remaining, settled, iteratorDone, current, handed,
                       called, recorded, claimed, aggregate, handlerCall, own, closes, faults>>
      /\ base' \in {base, stage, "thrown", "ResolveGet"} /\ base' \notin CapabilityCalls
      /\ base' \in Closing => stage \in Closing \/ base \in Closing
      /\ iterator' \in BOOLEAN
      /\ \/ /\ stage \in Before \cup {"fresh"} /\ stage' \in Before \ {"fresh"}
            /\ iterator' = iterator
         \/ stage = "IteratorMethodCall" /\ stage' = "NextGet" /\ iterator'
         \/ /\ stage \in Iterating \ {"ValueGet"}
            /\ stage' \in Iterating /\ iterator' = iterator
         \/ stage = "ResolveCall" /\ stage' = "ThenGet" /\ iterator' = iterator
         \/ /\ stage = "CloseReturnGet" /\ stage' = "CloseReturnCall" /\ iterator' = iterator
            /\ base' \in {base, stage}
         \/ stage \in CapabilityCalls /\ stage' = "returned" /\ iterator' = iterator
  <2> USE DEF IInv, Flags, DriverAt, state, Continuation
  <2>1. CASE Begin
    BY <2>1 DEF Begin
  <2>2. CASE Advance(frame)
    <3>1. \/ stage = "CapabilityConstructor" /\ stage' = "ResolveGet"
          \/ stage = "ResolveGet" /\ stage' = "IteratorMethodGet"
          \/ stage = "IteratorMethodGet" /\ stage' = "IteratorMethodCall"
          \/ stage = "IteratorMethodCall" /\ stage' = "NextGet"
          \/ stage = "NextGet" /\ stage' = "NextCall"
          \/ stage = "NextCall" /\ stage' = "DoneGet"
          \/ stage = "ResolveCall" /\ stage' = "ThenGet"
      BY <2>2 DEF Advance, Follows
    <3>2. QED
      BY <2>2, <3>1 DEF Advance
  <2>3. CASE NotDone(frame) \/ CallReturn(frame)
    BY <2>3 DEF NotDone, CallReturn
  <2>4. CASE CapabilityReturned
    BY <2>4 DEF CapabilityReturned
  <2>5. QED
    BY <2>1, <2>2, <2>3, <2>4
<1>2. Flags'
  BY <1>1 DEF IInv, Flags
<1>3. TypeOK'
  BY <1>1, FateTypes DEF IInv, TypeOK
<1>4. DriverAt'
  BY <1>1 DEF IInv, DriverAt
<1>5. Shares'
  BY <1>1 DEF IInv, Shares, RemainingExact, TypeOK, DriverAt
<1>6. Reported'
  BY <1>1 DEF IInv, Reported, TypeOK, DriverAt
<1>7. Completeness'
  BY <1>1 DEF IInv, Completeness, Complete, DriverAt, Shares, Outcomes, Final, Fulfilled, Rejected
<1>8. FirstReason'
  BY <1>1 DEF IInv, FirstReason, Rejected, DriverAt, Outcomes, Final, Fulfilled
<1>9. QED
  BY <1>2, <1>3, <1>4, <1>5, <1>6, <1>7, <1>8 DEF IInv

\* The guarded path for an empty array decides the aggregate at once.
LEMMA BeginEmptyArrayIInv ==
  ASSUME IInv, BeginEmptyArray
  PROVE  IInv'
<1> USE DEF Stages, Before, Iterating, OfElement, Closing, CapabilityCalls, Ended, At
<1>1. /\ stage = "fresh" /\ kind = "all" /\ ~generic
      /\ aggregate' \in {aggregate, Fulfilled("values")} /\ aggregate' # Open
      /\ stage' = "returned" /\ iteratorDone' = TRUE /\ remaining' = 0
      /\ UNCHANGED <<kind, generic, base, index, settled, iterator, current, handed, called,
                     recorded, claimed, handlerCall, own, closes, faults>>
  BY DEF BeginEmptyArray, Settled, Fulfilled, Open
<1>2. /\ handed = {} /\ called = {} /\ recorded = {} /\ index = 0 /\ 0..index - 1 = {}
      /\ Cardinality(handed \ called) = 0
  BY <1>1, FS_EmptySet DEF IInv, TypeOK, DriverAt
<1>3. faults = <<>> /\ closes = 0
  BY <1>1 DEF IInv, DriverAt, FirstReason
<1>4. Flags'
  BY <1>1, <1>2, <1>3 DEF IInv, Flags
<1>5. TypeOK'
  BY <1>1, <1>2, <1>3, FateTypes DEF IInv, TypeOK
<1>6. DriverAt'
  BY <1>1, <1>2, <1>3 DEF IInv, DriverAt
<1>7. Shares'
  BY <1>1, <1>2, <1>3 DEF IInv, Shares, RemainingExact, TypeOK, DriverAt
<1>8. Reported'
  BY <1>1, <1>2, <1>3 DEF IInv, Reported, TypeOK, DriverAt
<1>9. Completeness'
  BY <1>1, <1>2, <1>3 DEF IInv, Completeness, Complete, DriverAt, Shares, Outcomes, Final, Fulfilled, Rejected
<1>10. FirstReason'
  BY <1>1, <1>2, <1>3 DEF IInv, FirstReason, Rejected, DriverAt, Outcomes, Final, Fulfilled
<1>11. QED
  BY <1>4, <1>5, <1>6, <1>7, <1>8, <1>9, <1>10 DEF IInv

\* An element counts from the moment its value was read.
LEMMA ValueIInv ==
  ASSUME IInv, NEW frame \in BOOLEAN, Value(frame)
  PROVE  IInv'
<1> USE DEF Stages, Before, Iterating, OfElement, Closing, CapabilityCalls, Ended, At
<1>1. /\ stage = "ValueGet" /\ stage' = "ResolveCall" /\ base' \in {base, stage}
      /\ remaining' = IF kind = "race" THEN remaining ELSE remaining + 1
      /\ UNCHANGED <<kind, generic, iterator, index, settled, iteratorDone, current, handed, called,
                     recorded, claimed, aggregate, handlerCall, own, closes, faults>>
  BY DEF Value, Counted, Continuation
<1>2. Cardinality(handed \ called) \in Nat
  BY OutstandingType
<1>3. Flags'
  BY <1>1, <1>2 DEF IInv, Flags
<1>4. TypeOK'
  BY <1>1, <1>2, FateTypes DEF IInv, TypeOK
<1>5. DriverAt'
  BY <1>1, <1>2 DEF IInv, DriverAt
<1>6. Shares'
  BY <1>1, <1>2 DEF IInv, Shares, RemainingExact, TypeOK, DriverAt
<1>7. Reported'
  BY <1>1, <1>2 DEF IInv, Reported, TypeOK, DriverAt
<1>8. Completeness'
  BY <1>1, <1>2 DEF IInv, Completeness, Complete, DriverAt, Shares, Outcomes, Final, Fulfilled, Rejected
<1>9. FirstReason'
  BY <1>1, <1>2 DEF IInv, FirstReason, Rejected, DriverAt, Outcomes, Final, Fulfilled
<1>10. QED
  BY <1>3, <1>4, <1>5, <1>6, <1>7, <1>8, <1>9 DEF IInv

\* Then its share is that of a function handed out.
LEMMA CallThenIInv ==
  ASSUME IInv, NEW frame \in BOOLEAN, CallThen(frame)
  PROVE  IInv'
<1> USE DEF Stages, Before, Iterating, OfElement, Closing, CapabilityCalls, Ended, At
<1>1. /\ stage = "ThenGet" /\ stage' = "ThenCall" /\ base' \in {base, stage}
      /\ handed' = handed \cup {index}
      /\ UNCHANGED <<kind, generic, iterator, index, remaining, settled, iteratorDone, current, called,
                     recorded, claimed, aggregate, handlerCall, own, closes, faults>>
  BY DEF CallThen, Continuation
<1>2. /\ faults = <<>> /\ index \in Nat /\ index \notin handed
      /\ handed = 0..index - 1 /\ handed' = 0..index
  BY <1>1 DEF IInv, TypeOK, DriverAt
<1>3. /\ IsFiniteSet(handed') /\ Cardinality(handed \ called) \in Nat
      /\ Cardinality(handed' \ called) = Cardinality(handed \ called) + 1
  <2>1. IsFiniteSet(handed) /\ called \subseteq handed
    BY DEF IInv, TypeOK
  <2>2. /\ IsFiniteSet(handed \cup {index}) /\ Cardinality(handed \ called) \in Nat
        /\ Cardinality((handed \cup {index}) \ called) = Cardinality(handed \ called) + 1
    BY ONLY <1>2, <2>1, HandCount
  <2>3. QED
    BY <1>1, <2>2
<1>4. Flags'
  BY <1>1, <1>2, <1>3 DEF IInv, Flags
<1>5. TypeOK'
  BY <1>1, <1>2, <1>3, FateTypes DEF IInv, TypeOK
<1>6. DriverAt'
  BY <1>1, <1>2, <1>3 DEF IInv, DriverAt
<1>7. Shares'
  BY <1>1, <1>2, <1>3 DEF IInv, Shares, RemainingExact, TypeOK, DriverAt
<1>8. Reported'
  BY <1>1, <1>2, <1>3 DEF IInv, Reported, TypeOK, DriverAt
<1>9. Completeness'
  BY <1>1, <1>2, <1>3 DEF IInv, Completeness, Complete, DriverAt, Shares, Outcomes, Final, Fulfilled, Rejected
<1>10. FirstReason'
  BY <1>1, <1>2, <1>3 DEF IInv, FirstReason, Rejected, DriverAt, Outcomes, Final, Fulfilled
<1>11. QED
  BY <1>4, <1>5, <1>6, <1>7, <1>8, <1>9, <1>10 DEF IInv

\* The element is attached and the driver asks for the next one.
LEMMA ThenReturnedIInv ==
  ASSUME IInv, NEW frame \in BOOLEAN, ThenReturned(frame)
  PROVE  IInv'
<1> USE DEF Stages, Before, Iterating, OfElement, Closing, CapabilityCalls, Ended, At
<1>1. /\ stage = "ThenCall" /\ stage' = "NextCall" /\ base' \in {base, stage}
      /\ index' = index + 1
      /\ UNCHANGED <<kind, generic, iterator, remaining, settled, iteratorDone, current, handed, called,
                     recorded, claimed, aggregate, handlerCall, own, closes, faults>>
  BY DEF ThenReturned, Continuation
<1>2. faults = <<>> /\ index \in Nat /\ handed = 0..index' - 1
  BY <1>1 DEF IInv, TypeOK, DriverAt
<1>3. Flags'
  BY <1>1, <1>2 DEF IInv, Flags
<1>4. TypeOK'
  BY <1>1, <1>2, FateTypes DEF IInv, TypeOK
<1>5. DriverAt'
  BY <1>1, <1>2 DEF IInv, DriverAt
<1>6. Shares'
  BY <1>1, <1>2 DEF IInv, Shares, RemainingExact, TypeOK, DriverAt
<1>7. Reported'
  BY <1>1, <1>2 DEF IInv, Reported, TypeOK, DriverAt
<1>8. Completeness'
  BY <1>1, <1>2 DEF IInv, Completeness, Complete, DriverAt, Shares, Outcomes, Final, Fulfilled, Rejected
<1>9. FirstReason'
  BY <1>1, <1>2 DEF IInv, FirstReason, Rejected, DriverAt, Outcomes, Final, Fulfilled
<1>10. QED
  BY <1>3, <1>4, <1>5, <1>6, <1>7, <1>8, <1>9 DEF IInv

\* The iterator is done: the driver gives up its share and returns.
LEMMA DoneReturnsIInv ==
  ASSUME IInv, NEW frame \in BOOLEAN, Done(frame),
         settled \/ kind = "race" \/ remaining' # 0
  PROVE  IInv'
<1> USE DEF Stages, Before, Iterating, OfElement, Closing, CapabilityCalls, Ended, At
<1>1. /\ stage' = "returned" /\ UNCHANGED <<base, settled, aggregate, own>>
      /\ settled \/ kind = "race" \/ remaining' # 0
      /\ stage = "DoneGet" /\ handlerCall = "fresh" /\ iteratorDone' = TRUE
      /\ remaining' = IF kind = "race" THEN remaining ELSE remaining - 1
      /\ UNCHANGED <<kind, generic, iterator, index, current, handed, called, recorded, claimed,
                     handlerCall, closes, faults>>
  BY DEF Done, ShareGiven, Finish, IInv, Flags
<1>2. faults = <<>> /\ closes = 0 /\ handed = 0..index - 1
  BY <1>1 DEF IInv, DriverAt, FirstReason
<1>3. ~settled /\ kind # "race" => /\ remaining' = Cardinality(handed \ called)
                                  /\ Cardinality(handed \ called) \in Nat
  BY <1>1, OutstandingType DEF IInv, TypeOK, Shares, RemainingExact
<1>4. Flags'
  BY <1>1, <1>2, <1>3 DEF IInv, Flags
<1>5. TypeOK'
  BY <1>1, <1>2, <1>3, FateTypes DEF IInv, TypeOK
<1>6. DriverAt'
  BY <1>1, <1>2, <1>3 DEF IInv, DriverAt
<1>7. Shares'
  BY <1>1, <1>2, <1>3 DEF IInv, Shares, RemainingExact, TypeOK, DriverAt
<1>8. Reported'
  BY <1>1, <1>2, <1>3 DEF IInv, Reported, TypeOK, DriverAt
<1>9. Completeness'
  BY <1>1, <1>2, <1>3 DEF IInv, Completeness, Complete, DriverAt, Shares, Outcomes, Final, Fulfilled, Rejected
<1>10. FirstReason'
  BY <1>1, <1>2, <1>3 DEF IInv, FirstReason, Rejected, DriverAt, Outcomes, Final, Fulfilled
<1>11. QED
  BY <1>4, <1>5, <1>6, <1>7, <1>8, <1>9, <1>10 DEF IInv

\* It was the last: the capability of a custom constructor is called.
LEMMA DoneCallsIInv ==
  ASSUME IInv, NEW frame \in BOOLEAN, Done(frame),
         ~settled, kind # "race", remaining' = 0, generic
  PROVE  IInv'
<1> USE DEF Stages, Before, Iterating, OfElement, Closing, CapabilityCalls, Ended, At
<1>1. /\ stage' = Op(Final) /\ base' \in {stage, base} /\ settled' = TRUE /\ generic
      /\ own' = Append(own, Final) /\ aggregate' = aggregate
      /\ ~settled /\ kind # "race" /\ remaining' = 0
      /\ stage = "DoneGet" /\ handlerCall = "fresh" /\ iteratorDone' = TRUE
      /\ remaining' = IF kind = "race" THEN remaining ELSE remaining - 1
      /\ UNCHANGED <<kind, generic, iterator, index, current, handed, called, recorded, claimed,
                     handlerCall, closes, faults>>
  BY DEF Done, ShareGiven, Finish, Continuation
<1>2. faults = <<>> /\ closes = 0 /\ handed = 0..index - 1
  BY <1>1 DEF IInv, DriverAt, FirstReason
<1>3. ~settled /\ kind # "race" => /\ remaining' = Cardinality(handed \ called)
                                  /\ Cardinality(handed \ called) \in Nat
  BY <1>1, OutstandingType DEF IInv, TypeOK, Shares, RemainingExact
<1>4. /\ Complete /\ recorded = handed /\ own = <<>> /\ recorded' = handed'
      /\ handed' \subseteq called'
  <2>1. IsFiniteSet(handed) /\ Cardinality(handed \ called) = 0
    BY <1>1, <1>3 DEF IInv, TypeOK
  <2>2. handed \subseteq called
    BY ONLY <2>1, NoneCount
  <2>3. QED
    BY <1>1, <2>2 DEF IInv, TypeOK, Complete, Shares, Reported
<1>5. /\ Final \in Fates /\ Final.is \in {"fulfilled", "rejected"} /\ Final # Open
      /\ Final.is = "rejected" => Final.of = "errors"
  BY FateTypes DEF Final, Fulfilled, Rejected, Open
<1>6. /\ own' = <<Final>> /\ own' \in Seq(Fates) /\ Len(own') = 1 /\ own'[1] = Final
      /\ Outcomes' = {Final, aggregate} /\ Final' = Final
      /\ stage' \in CapabilityCalls
      /\ stage' = "CapabilityResolveCall" => Final.is = "fulfilled"
  BY <1>1, <1>4, <1>5 DEF Outcomes, Op, Final
<1>7. Flags'
  BY <1>1, <1>2, <1>3, <1>4, <1>5, <1>6 DEF IInv, Flags
<1>8. TypeOK'
  BY <1>1, <1>2, <1>3, <1>4, <1>5, <1>6, FateTypes DEF IInv, TypeOK
<1>9. DriverAt'
  BY <1>1, <1>2, <1>3, <1>4, <1>5, <1>6 DEF IInv, DriverAt
<1>10. Shares'
  BY <1>1, <1>2, <1>3, <1>4, <1>5, <1>6 DEF IInv, Shares, RemainingExact, TypeOK, DriverAt
<1>11. Reported'
  BY <1>1, <1>2, <1>3, <1>4, <1>5, <1>6 DEF IInv, Reported, TypeOK, DriverAt
<1>12. Completeness'
  BY <1>1, <1>2, <1>3, <1>4, <1>5, <1>6 DEF IInv, Completeness, Complete, DriverAt, Shares, Outcomes, Final, Fulfilled, Rejected
<1>13. FirstReason'
  BY <1>1, <1>2, <1>3, <1>4, <1>5, <1>6 DEF IInv, FirstReason, Rejected, DriverAt, Outcomes, Final, Fulfilled
<1>14. QED
  BY <1>7, <1>8, <1>9, <1>10, <1>11, <1>12, <1>13 DEF IInv

\* It was the last: the aggregate is settled.
LEMMA DoneSettlesIInv ==
  ASSUME IInv, NEW frame \in BOOLEAN, Done(frame),
         ~settled, kind # "race", remaining' = 0, ~generic
  PROVE  IInv'
<1> USE DEF Stages, Before, Iterating, OfElement, Closing, CapabilityCalls, Ended, At
<1>1. /\ stage' = "returned" /\ UNCHANGED <<base, own>> /\ settled' = TRUE
      /\ aggregate' = Settled(Final) /\ ~generic
      /\ ~settled /\ kind # "race" /\ remaining' = 0
      /\ stage = "DoneGet" /\ handlerCall = "fresh" /\ iteratorDone' = TRUE
      /\ remaining' = IF kind = "race" THEN remaining ELSE remaining - 1
      /\ UNCHANGED <<kind, generic, iterator, index, current, handed, called, recorded, claimed,
                     handlerCall, closes, faults>>
  BY DEF Done, ShareGiven, Finish, Continuation
<1>2. faults = <<>> /\ closes = 0 /\ handed = 0..index - 1
  BY <1>1 DEF IInv, DriverAt, FirstReason
<1>3. ~settled /\ kind # "race" => /\ remaining' = Cardinality(handed \ called)
                                  /\ Cardinality(handed \ called) \in Nat
  BY <1>1, OutstandingType DEF IInv, TypeOK, Shares, RemainingExact
<1>4. /\ Complete /\ recorded = handed /\ own = <<>> /\ recorded' = handed'
      /\ handed' \subseteq called'
  <2>1. IsFiniteSet(handed) /\ Cardinality(handed \ called) = 0
    BY <1>1, <1>3 DEF IInv, TypeOK
  <2>2. handed \subseteq called
    BY ONLY <2>1, NoneCount
  <2>3. QED
    BY <1>1, <2>2 DEF IInv, TypeOK, Complete, Shares, Reported
<1>5. /\ Final \in Fates /\ Final.is \in {"fulfilled", "rejected"} /\ Final # Open
      /\ Final.is = "rejected" => Final.of = "errors"
  BY FateTypes DEF Final, Fulfilled, Rejected, Open
<1>6. /\ aggregate' \in {aggregate, Final} /\ aggregate' # Open
      /\ Outcomes' = {aggregate'} /\ Outcomes = {aggregate} /\ Final' = Final
  BY <1>1, <1>4, <1>5 DEF Outcomes, Settled, Open, Final
<1>7. Flags'
  BY <1>1, <1>2, <1>3, <1>4, <1>5, <1>6 DEF IInv, Flags
<1>8. TypeOK'
  BY <1>1, <1>2, <1>3, <1>4, <1>5, <1>6, FateTypes DEF IInv, TypeOK
<1>9. DriverAt'
  BY <1>1, <1>2, <1>3, <1>4, <1>5, <1>6 DEF IInv, DriverAt
<1>10. Shares'
  BY <1>1, <1>2, <1>3, <1>4, <1>5, <1>6 DEF IInv, Shares, RemainingExact, TypeOK, DriverAt
<1>11. Reported'
  BY <1>1, <1>2, <1>3, <1>4, <1>5, <1>6 DEF IInv, Reported, TypeOK, DriverAt
<1>12. Completeness'
  BY <1>1, <1>2, <1>3, <1>4, <1>5, <1>6 DEF IInv, Completeness, Complete, DriverAt, Shares, Outcomes, Final, Fulfilled, Rejected
<1>13. FirstReason'
  BY <1>1, <1>2, <1>3, <1>4, <1>5, <1>6 DEF IInv, FirstReason, Rejected, DriverAt, Outcomes, Final, Fulfilled
<1>14. QED
  BY <1>7, <1>8, <1>9, <1>10, <1>11, <1>12, <1>13 DEF IInv

\* What the driver changes when it rejects the aggregate for a reason of its own.
LEMMA RejectFacts ==
  ASSUME IInv, NEW reason \in Stages, NEW at, Finish(Rejected(reason), settled, at),
         UNCHANGED <<kind, generic>>
  PROVE  /\ settled' = TRUE /\ stage' \in {"returned", "CapabilityRejectCall"}
         /\ stage' = "CapabilityRejectCall" => generic /\ base' = at
         /\ stage' = "returned" => base' = base
         /\ own' \in Seq(Fates) /\ aggregate' \in Fates
         /\ Len(own') = IF settled THEN Len(own) ELSE IF generic THEN 1 ELSE 0
         /\ settled => own' = own /\ Outcomes' = Outcomes
         /\ own' # <<>> \/ aggregate' # Open
         /\ Final' = Final /\ (Final \in Outcomes' => Final \in Outcomes)
         /\ Outcomes' \subseteq Outcomes \cup {Rejected(reason)}
<1>1. /\ Rejected(reason) \in Fates /\ Rejected(reason) # Open /\ Rejected(reason) # Final
      /\ Rejected(reason).is = "rejected" /\ Rejected(reason).of = reason
  <2>1. reason \notin {"errors", "values", "input"}
    BY DEF Stages, Before, Iterating, OfElement, Closing, CapabilityCalls, Ended
  <2>2. QED
    BY <2>1, FateTypes DEF Rejected, Fulfilled, Open, Final
<1>2. own \in Seq(Fates) /\ aggregate \in Fates /\ Final' = Final
  BY DEF IInv, TypeOK, Final
<1>3. CASE settled
  <2>1. stage' = "returned" /\ settled' = TRUE /\ UNCHANGED <<base, aggregate, own>>
    BY <1>3 DEF Finish
  <2>2. QED
    BY <1>2, <1>3, <2>1 DEF Outcomes, IInv, Reported
<1>4. CASE ~settled /\ generic
  <2>1. /\ stage' = "CapabilityRejectCall" /\ base' = at /\ settled' = TRUE /\ aggregate' = aggregate
        /\ own' = Append(own, Rejected(reason)) /\ own = <<>>
    BY <1>1, <1>4 DEF Finish, Op, IInv, Reported
  <2>2. own' = <<Rejected(reason)>> /\ own' \in Seq(Fates) /\ Len(own') = 1
    BY <1>1, <2>1
  <2>3. Outcomes' = {Rejected(reason), aggregate} /\ Outcomes = {aggregate}
    BY <2>1, <2>2 DEF Outcomes
  <2>4. QED
    BY <1>1, <1>2, <1>4, <2>1, <2>2, <2>3
<1>5. CASE ~settled /\ ~generic
  <2>1. /\ stage' = "returned" /\ settled' = TRUE /\ base' = base /\ own' = own /\ own = <<>>
        /\ aggregate' \in {aggregate, Rejected(reason)} /\ aggregate' # Open
    BY <1>1, <1>5 DEF Finish, Settled, Open, IInv, Reported
  <2>2. Outcomes' = {aggregate'} /\ Outcomes = {aggregate}
    BY <2>1 DEF Outcomes
  <2>3. QED
    BY <1>1, <1>2, <1>5, <2>1, <2>2
<1>6. QED
  BY <1>3, <1>4, <1>5 DEF IInv, Flags

\* The iterator was closed after a failure: the aggregate is rejected with its reason.
LEMMA CloseIInv ==
  ASSUME IInv, NEW frame \in BOOLEAN, Close(frame)
  PROVE  IInv'
<1> USE DEF Stages, Before, Iterating, OfElement, Closing, CapabilityCalls, Ended, At
<1>1. /\ stage \in Closing /\ handlerCall = "fresh"
      /\ Finish(Rejected(current), settled, Continuation(frame)) /\ Continuation(frame) \in {stage, base}
      /\ UNCHANGED <<kind, generic, iterator, index, remaining, iteratorDone, current, handed, called,
                     recorded, claimed, handlerCall, closes, faults>>
  BY DEF Close, Continuation
<1>2. /\ faults # <<>> /\ iteratorDone /\ current = faults[1].at /\ current \in Stages
      /\ Final \notin Outcomes
  BY <1>1 DEF IInv, DriverAt, FirstReason, Completeness, TypeOK
<1>3. /\ settled' = TRUE /\ stage' \in {"returned", "CapabilityRejectCall"}
      /\ stage' = "CapabilityRejectCall" => generic /\ base' \in {stage, base}
      /\ stage' = "returned" => base' = base
      /\ own' \in Seq(Fates) /\ aggregate' \in Fates
      /\ Len(own') = IF settled THEN Len(own) ELSE IF generic THEN 1 ELSE 0
      /\ settled => own' = own
      /\ own' # <<>> \/ aggregate' # Open
      /\ Final' \notin Outcomes'
      /\ Outcomes' \subseteq Outcomes \cup {Rejected(faults[1].at)}
  BY <1>1, <1>2, RejectFacts
<1>4. Flags'
  BY <1>1, <1>2, <1>3 DEF IInv, Flags
<1>5. TypeOK'
  BY <1>1, <1>2, <1>3 DEF IInv, TypeOK
<1>6. DriverAt'
  BY <1>1, <1>2, <1>3 DEF IInv, DriverAt
<1>7. Shares'
  BY <1>1, <1>2, <1>3 DEF IInv, Shares, RemainingExact, TypeOK, DriverAt
<1>8. Reported'
  BY <1>1, <1>2, <1>3 DEF IInv, Reported, TypeOK, DriverAt
<1>9. Completeness'
  BY <1>1, <1>2, <1>3 DEF IInv, Completeness, Complete, DriverAt, Shares
<1>10. FirstReason'
  BY <1>1, <1>2, <1>3 DEF IInv, FirstReason, Rejected, DriverAt
<1>11. QED
  BY <1>4, <1>5, <1>6, <1>7, <1>8, <1>9, <1>10 DEF IInv

-----------------------------------------------------------------------------
\* What every failure changes.
LEMMA FailFacts ==
  ASSUME IInv, NEW frame \in BOOLEAN, Fail(frame)
  PROVE  /\ stage \in Stages \ Ended /\ handlerCall = "fresh"
         /\ UNCHANGED <<kind, generic, iterator, index, remaining, handed, called, recorded, claimed,
                        handlerCall>>
         /\ faults' \in Seq([at : Stages, frame : BOOLEAN]) /\ faults' # <<>>
         /\ faults = <<>> => faults'[1].at = stage /\ faults'[1].frame = frame
         /\ faults # <<>> => faults'[1] = faults[1]
         /\ faults = <<>> \/ stage \in CapabilityCalls \cup Closing
<1>1. /\ stage \in Stages \ Ended /\ handlerCall = "fresh"
      /\ faults' = Append(faults, [at |-> stage, frame |-> frame])
      /\ UNCHANGED <<kind, generic, iterator, index, remaining, handed, called, recorded, claimed,
                     handlerCall>>
  BY DEF Fail, At, IInv, TypeOK
<1>2. faults \in Seq([at : Stages, frame : BOOLEAN])
  BY DEF IInv, TypeOK
<1>3. [at |-> stage, frame |-> frame] \in [at : Stages, frame : BOOLEAN]
  BY <1>1
<1>4. faults = <<>> \/ stage \in CapabilityCalls \cup Closing
  BY <1>1 DEF IInv, DriverAt, Ended
<1>5. QED
  BY <1>1, <1>2, <1>3, <1>4

\* The failure goes to the caller.
LEMMA FailThrowsIInv ==
  ASSUME IInv, NEW frame \in BOOLEAN, Fail(frame),
         Continuation(frame) \in {"thrown", "CapabilityConstructor"}
  PROVE  IInv'
<1> USE DEF Stages, Before, Iterating, OfElement, Closing, CapabilityCalls, Ended, At
<1>1. /\ stage \in Stages \ Ended /\ handlerCall = "fresh"
      /\ UNCHANGED <<kind, generic, iterator, index, remaining, handed, called, recorded, claimed,
                     handlerCall>>
      /\ faults' \in Seq([at : Stages, frame : BOOLEAN]) /\ faults' # <<>>
      /\ faults = <<>> => faults'[1].at = stage /\ faults'[1].frame = frame
      /\ faults # <<>> => faults'[1] = faults[1]
      /\ faults = <<>> \/ stage \in CapabilityCalls \cup Closing
  BY FailFacts
<1>2. Continuation(frame) = IF frame THEN stage ELSE base
  BY DEF Continuation
<1>3. /\ stage' = "thrown"
      /\ UNCHANGED <<base, settled, iteratorDone, current, aggregate, own, closes>>
  BY DEF Fail, NotClosed
<1>4. Cardinality(handed \ called) \in Nat
  BY OutstandingType
<1>5. Flags'
  BY <1>1, <1>2, <1>3, <1>4 DEF IInv, Flags
<1>6. TypeOK'
  BY <1>1, <1>2, <1>3, <1>4, FateTypes DEF IInv, TypeOK
<1>7. DriverAt'
  BY <1>1, <1>2, <1>3, <1>4 DEF IInv, DriverAt
<1>8. Shares'
  BY <1>1, <1>2, <1>3, <1>4 DEF IInv, Shares, RemainingExact, TypeOK, DriverAt
<1>9. Reported'
  BY <1>1, <1>2, <1>3, <1>4 DEF IInv, Reported, TypeOK, DriverAt
<1>10. Completeness'
  BY <1>1, <1>2, <1>3, <1>4 DEF IInv, Completeness, Complete, DriverAt, Shares, Outcomes, Final, Fulfilled, Rejected
<1>11. FirstReason'
  BY <1>1, <1>2, <1>3, <1>4 DEF IInv, FirstReason, Rejected, DriverAt, Outcomes, Final, Fulfilled
<1>12. QED
  BY <1>5, <1>6, <1>7, <1>8, <1>9, <1>10, <1>11 DEF IInv

\* The resolve function of a custom capability threw: its reject function is called.
LEMMA FailResolveIInv ==
  ASSUME IInv, NEW frame \in BOOLEAN, Fail(frame), Continuation(frame) = "CapabilityResolveCall"
  PROVE  IInv'
<1> USE DEF Stages, Before, Iterating, OfElement, Closing, CapabilityCalls, Ended, At
<1>1. /\ stage \in Stages \ Ended /\ handlerCall = "fresh"
      /\ UNCHANGED <<kind, generic, iterator, index, remaining, handed, called, recorded, claimed,
                     handlerCall>>
      /\ faults' \in Seq([at : Stages, frame : BOOLEAN]) /\ faults' # <<>>
      /\ faults = <<>> => faults'[1].at = stage /\ faults'[1].frame = frame
      /\ faults # <<>> => faults'[1] = faults[1]
      /\ faults = <<>> \/ stage \in CapabilityCalls \cup Closing
  BY FailFacts
<1>2. Continuation(frame) = IF frame THEN stage ELSE base
  BY DEF Continuation
<1>3. stage = "CapabilityResolveCall" /\ frame /\ settled /\ generic
  BY <1>1, <1>2 DEF IInv, DriverAt
<1>4. /\ stage' = "CapabilityRejectCall" /\ base' = "thrown" /\ settled' = TRUE
      /\ own' = Append(own, Rejected("CapabilityResolveCall"))
      /\ UNCHANGED <<aggregate, iteratorDone, current, closes>>
  BY <1>3 DEF Fail, NotClosed, Reason, Finish, Op, Rejected
<1>5. own \in Seq(Fates) /\ Len(own) = 1 /\ own[1].is = "fulfilled"
  BY <1>3 DEF IInv, TypeOK, Reported
<1>6. /\ own' \in Seq(Fates) /\ Len(own') = 2 /\ own'[1] = own[1]
      /\ own'[2] = Rejected("CapabilityResolveCall")
  <2>1. Rejected("CapabilityResolveCall") \in Fates
    <3>1. "CapabilityResolveCall" \in Stages \cup {"errors", "input"}
      OBVIOUS
    <3>2. QED
      BY ONLY <3>1, FateTypes
  <2>2. own' = Append(own, Rejected("CapabilityResolveCall"))
    BY <1>4
  <2>3. QED
    BY ONLY <1>5, <2>1, <2>2
<1>7. Outcomes' \subseteq Outcomes \cup {Rejected("CapabilityResolveCall")} /\ Final' = Final
  BY <1>1, <1>4, <1>5, <1>6 DEF Outcomes, Final
<1>8. Final # Rejected("CapabilityResolveCall")
  BY DEF Final, Rejected, Fulfilled
<1>9. Flags'
  BY <1>1, <1>2, <1>3, <1>4, <1>5, <1>6, <1>7, <1>8 DEF IInv, Flags
<1>10. TypeOK'
  BY <1>1, <1>2, <1>3, <1>4, <1>5, <1>6, <1>7, <1>8 DEF IInv, TypeOK
<1>11. DriverAt'
  BY <1>1, <1>2, <1>3, <1>4, <1>5, <1>6, <1>7, <1>8 DEF IInv, DriverAt
<1>12. Shares'
  BY <1>1, <1>2, <1>3, <1>4, <1>5, <1>6, <1>7, <1>8 DEF IInv, Shares, RemainingExact, TypeOK, DriverAt
<1>13. Reported'
  BY <1>1, <1>2, <1>3, <1>4, <1>5, <1>6, <1>7, <1>8 DEF IInv, Reported, TypeOK, DriverAt
<1>14. Completeness'
  BY <1>1, <1>2, <1>3, <1>4, <1>5, <1>6, <1>7, <1>8 DEF IInv, Completeness, Complete, DriverAt, Shares
<1>15. FirstReason'
  <2>1. faults[1].at = faults'[1].at \/ faults = <<>>
    BY <1>1
  <2>2. ASSUME NEW fate \in Outcomes', fate.is = "rejected",
               fate.of \in Stages \ {"CapabilityResolveCall"}
        PROVE  faults' # <<>> /\ fate.of = faults'[1].at
    BY <1>1, <1>7, <2>1, <2>2 DEF IInv, FirstReason, Rejected
  <2>3. QED
    BY <1>1, <1>3, <1>4, <2>1, <2>2 DEF IInv, FirstReason
<1>16. QED
  BY <1>9, <1>10, <1>11, <1>12, <1>13, <1>14, <1>15 DEF IInv

\* An operation of the iterator failed: it is not closed.
LEMMA FailIteratingIInv ==
  ASSUME IInv, NEW frame \in BOOLEAN, Fail(frame), Continuation(frame) \in Iterating
  PROVE  IInv'
<1> USE DEF Stages, Before, Iterating, OfElement, Closing, CapabilityCalls, Ended, At
<1>1. /\ stage \in Stages \ Ended /\ handlerCall = "fresh"
      /\ UNCHANGED <<kind, generic, iterator, index, remaining, handed, called, recorded, claimed,
                     handlerCall>>
      /\ faults' \in Seq([at : Stages, frame : BOOLEAN]) /\ faults' # <<>>
      /\ faults = <<>> => faults'[1].at = stage /\ faults'[1].frame = frame
      /\ faults # <<>> => faults'[1] = faults[1]
      /\ faults = <<>> \/ stage \in CapabilityCalls \cup Closing
  BY FailFacts
<1>2. Continuation(frame) = IF frame THEN stage ELSE base
  BY DEF Continuation
<1>3. /\ Finish(Rejected(stage), settled, "thrown") /\ iteratorDone' = TRUE
      /\ UNCHANGED <<current, closes>>
  BY DEF Fail, NotClosed, Reason
<1>4. /\ settled' = TRUE /\ stage' \in {"returned", "CapabilityRejectCall"}
      /\ stage' = "CapabilityRejectCall" => generic /\ base' = "thrown"
      /\ stage' = "returned" => base' = base
      /\ own' \in Seq(Fates) /\ aggregate' \in Fates
      /\ Len(own') = IF settled THEN Len(own) ELSE IF generic THEN 1 ELSE 0
      /\ settled => own' = own /\ Outcomes' = Outcomes
      /\ own' # <<>> \/ aggregate' # Open
      /\ Final' = Final /\ (Final \in Outcomes' => Final \in Outcomes)
      /\ Outcomes' \subseteq Outcomes \cup {Rejected(stage)}
  BY <1>1, <1>3, RejectFacts
<1>5. settled \/ faults = <<>>
  BY <1>1, <1>2 DEF IInv, DriverAt
<1>6. Flags'
  BY <1>1, <1>2, <1>3, <1>4, <1>5 DEF IInv, Flags
<1>7. TypeOK'
  BY <1>1, <1>2, <1>3, <1>4, <1>5 DEF IInv, TypeOK
<1>8. DriverAt'
  BY <1>1, <1>2, <1>3, <1>4, <1>5 DEF IInv, DriverAt
<1>9. Shares'
  BY <1>1, <1>2, <1>3, <1>4, <1>5 DEF IInv, Shares, RemainingExact, TypeOK, DriverAt
<1>10. Reported'
  BY <1>1, <1>2, <1>3, <1>4, <1>5 DEF IInv, Reported, TypeOK, DriverAt
<1>11. Completeness'
  BY <1>1, <1>2, <1>3, <1>4, <1>5 DEF IInv, Completeness, Complete, DriverAt, Shares
<1>12. FirstReason'
  BY <1>1, <1>2, <1>3, <1>4, <1>5 DEF IInv, FirstReason, Rejected, DriverAt
<1>13. QED
  BY <1>6, <1>7, <1>8, <1>9, <1>10, <1>11, <1>12 DEF IInv

\* The iterator is closed first.
LEMMA FailClosesIInv ==
  ASSUME IInv, NEW frame \in BOOLEAN, Fail(frame), ~iteratorDone, iterator,
         Continuation(frame) \notin Closing \cup Iterating,
         Continuation(frame) \notin {"thrown", "CapabilityConstructor", "CapabilityResolveCall"}
  PROVE  IInv'
<1> USE DEF Stages, Before, Iterating, OfElement, Closing, CapabilityCalls, Ended, At
<1>1. /\ stage \in Stages \ Ended /\ handlerCall = "fresh"
      /\ UNCHANGED <<kind, generic, iterator, index, remaining, handed, called, recorded, claimed,
                     handlerCall>>
      /\ faults' \in Seq([at : Stages, frame : BOOLEAN]) /\ faults' # <<>>
      /\ faults = <<>> => faults'[1].at = stage /\ faults'[1].frame = frame
      /\ faults # <<>> => faults'[1] = faults[1]
      /\ faults = <<>> \/ stage \in CapabilityCalls \cup Closing
  BY FailFacts
<1>2. Continuation(frame) = IF frame THEN stage ELSE base
  BY DEF Continuation
<1>3. /\ current' = stage /\ iteratorDone' = TRUE /\ stage' = "CloseReturnGet" /\ base' = "thrown"
      /\ closes' = closes + 1 /\ UNCHANGED <<settled, aggregate, own>>
  BY DEF Fail, NotClosed, Reason
<1>4. /\ faults = <<>> /\ closes = 0 /\ stage \notin CapabilityCalls /\ Final \notin Outcomes
      /\ frame => stage \notin Iterating
  BY <1>1, <1>2 DEF IInv, DriverAt, FirstReason, Completeness
<1>5. Cardinality(handed \ called) \in Nat
  BY OutstandingType
<1>6. Flags'
  BY <1>1, <1>2, <1>3, <1>4, <1>5 DEF IInv, Flags
<1>7. TypeOK'
  BY <1>1, <1>2, <1>3, <1>4, <1>5, FateTypes DEF IInv, TypeOK
<1>8. DriverAt'
  BY <1>1, <1>2, <1>3, <1>4, <1>5 DEF IInv, DriverAt
<1>9. Shares'
  BY <1>1, <1>2, <1>3, <1>4, <1>5 DEF IInv, Shares, RemainingExact, TypeOK, DriverAt
<1>10. Reported'
  BY <1>1, <1>2, <1>3, <1>4, <1>5 DEF IInv, Reported, TypeOK, DriverAt
<1>11. Completeness'
  BY <1>1, <1>2, <1>3, <1>4, <1>5 DEF IInv, Completeness, Complete, DriverAt, Shares, Outcomes, Final, Fulfilled, Rejected
<1>12. FirstReason'
  BY <1>1, <1>2, <1>3, <1>4, <1>5 DEF IInv, FirstReason, Rejected, DriverAt, Outcomes, Final, Fulfilled
<1>13. QED
  BY <1>6, <1>7, <1>8, <1>9, <1>10, <1>11, <1>12 DEF IInv

\* There is no iterator to close, or it has been closed.
LEMMA FailRejectsIInv ==
  ASSUME IInv, NEW frame \in BOOLEAN, Fail(frame), iteratorDone \/ ~iterator \/ Continuation(frame) \in Closing,
         Continuation(frame) \notin Iterating,
         Continuation(frame) \notin {"thrown", "CapabilityConstructor", "CapabilityResolveCall"}
  PROVE  IInv'
<1> USE DEF Stages, Before, Iterating, OfElement, Closing, CapabilityCalls, Ended, At
<1>1. /\ stage \in Stages \ Ended /\ handlerCall = "fresh"
      /\ UNCHANGED <<kind, generic, iterator, index, remaining, handed, called, recorded, claimed,
                     handlerCall>>
      /\ faults' \in Seq([at : Stages, frame : BOOLEAN]) /\ faults' # <<>>
      /\ faults = <<>> => faults'[1].at = stage /\ faults'[1].frame = frame
      /\ faults # <<>> => faults'[1] = faults[1]
      /\ faults = <<>> \/ stage \in CapabilityCalls \cup Closing
  BY FailFacts
<1>2. Continuation(frame) = IF frame THEN stage ELSE base
  BY DEF Continuation
<1>3. /\ Finish(Rejected(Reason(Continuation(frame), stage)), settled, "thrown")
      /\ UNCHANGED <<iteratorDone, current, closes>>
  BY DEF Fail, NotClosed
<1>4. /\ Reason(Continuation(frame), stage) \in Stages
      /\ ~settled => Reason(Continuation(frame), stage) = faults'[1].at
      /\ iteratorDone \/ ~iterator
      /\ faults = <<>> /\ frame => stage \notin OfElement \cup Iterating
  BY <1>1, <1>2 DEF IInv, TypeOK, DriverAt, FirstReason, Reason
<1>5. /\ settled' = TRUE /\ stage' \in {"returned", "CapabilityRejectCall"}
      /\ stage' = "CapabilityRejectCall" => generic /\ base' = "thrown"
      /\ stage' = "returned" => base' = base
      /\ own' \in Seq(Fates) /\ aggregate' \in Fates
      /\ Len(own') = IF settled THEN Len(own) ELSE IF generic THEN 1 ELSE 0
      /\ settled => own' = own /\ Outcomes' = Outcomes
      /\ own' # <<>> \/ aggregate' # Open
      /\ Final' = Final /\ (Final \in Outcomes' => Final \in Outcomes)
      /\ Outcomes' \subseteq Outcomes \cup {Rejected(Reason(Continuation(frame), stage))}
  BY <1>1, <1>3, <1>4, RejectFacts
<1>6. Flags'
  BY <1>1, <1>2, <1>3, <1>4, <1>5 DEF IInv, Flags
<1>7. TypeOK'
  BY <1>1, <1>2, <1>3, <1>4, <1>5 DEF IInv, TypeOK
<1>8. DriverAt'
  BY <1>1, <1>2, <1>3, <1>4, <1>5 DEF IInv, DriverAt
<1>9. Shares'
  BY <1>1, <1>2, <1>3, <1>4, <1>5 DEF IInv, Shares, RemainingExact, TypeOK, DriverAt
<1>10. Reported'
  BY <1>1, <1>2, <1>3, <1>4, <1>5 DEF IInv, Reported, TypeOK, DriverAt
<1>11. Completeness'
  BY <1>1, <1>2, <1>3, <1>4, <1>5 DEF IInv, Completeness, Complete, DriverAt, Shares
<1>12. FirstReason'
  BY <1>1, <1>2, <1>3, <1>4, <1>5 DEF IInv, FirstReason, Rejected, DriverAt
<1>13. QED
  BY <1>6, <1>7, <1>8, <1>9, <1>10, <1>11, <1>12 DEF IInv

\* An element reports after the aggregate was settled: nothing comes of it.
LEMMA ElementLateIInv ==
  ASSUME IInv, NEW i, Element(i), settled
  PROVE  IInv'
<1> USE DEF Stages, Before, Iterating, OfElement, Closing, CapabilityCalls, Ended, At
<1>1. /\ i \in handed \ called /\ stage # "fresh" /\ handlerCall = "fresh" /\ kind # "race"
      /\ called' = called \cup {i}
      /\ UNCHANGED <<kind, generic, iterator, stage, base, index, iteratorDone, current, handed,
                     claimed, closes, faults>>
  BY DEF Element, InProgram, Takes
<1>2. /\ Cardinality(handed \ called) \in Nat
      /\ Cardinality(handed \ called') = Cardinality(handed \ called) - 1
      /\ Cardinality(handed \ called') \in Nat
      /\ Cardinality(handed \ called') = 0 <=> handed \subseteq called'
  <2>1. IsFiniteSet(handed)
    BY DEF IInv, TypeOK
  <2>2. QED
    BY ONLY <1>1, <2>1, ReportCount, NoneCount
<1>3. Final \notin Outcomes /\ Final' = Final
  BY <1>1 DEF IInv, Completeness, Complete, Final
<1>4. settled /\ UNCHANGED <<remaining, recorded, settled, aggregate, own, handlerCall>>
  BY DEF Element
<1>5. Flags'
  BY <1>1, <1>2, <1>3, <1>4 DEF IInv, Flags
<1>6. TypeOK'
  BY <1>1, <1>2, <1>3, <1>4, FateTypes DEF IInv, TypeOK
<1>7. DriverAt'
  BY <1>1, <1>2, <1>3, <1>4 DEF IInv, DriverAt
<1>8. Shares'
  BY <1>1, <1>2, <1>3, <1>4 DEF IInv, Shares, RemainingExact, TypeOK, DriverAt
<1>9. Reported'
  BY <1>1, <1>2, <1>3, <1>4 DEF IInv, Reported, TypeOK, DriverAt
<1>10. Completeness'
  BY <1>1, <1>2, <1>3, <1>4 DEF IInv, Completeness, Complete, DriverAt, Shares, Outcomes
<1>11. FirstReason'
  BY <1>1, <1>2, <1>3, <1>4 DEF IInv, FirstReason, Rejected, DriverAt, Outcomes
<1>12. QED
  BY <1>5, <1>6, <1>7, <1>8, <1>9, <1>10, <1>11 DEF IInv

\* An element reports, and others are outstanding.
LEMMA ElementIInv ==
  ASSUME IInv, NEW i, Element(i), ~settled, remaining' # 0
  PROVE  IInv'
<1> USE DEF Stages, Before, Iterating, OfElement, Closing, CapabilityCalls, Ended, At
<1>1. /\ i \in handed \ called /\ stage # "fresh" /\ handlerCall = "fresh" /\ kind # "race"
      /\ called' = called \cup {i}
      /\ UNCHANGED <<kind, generic, iterator, stage, base, index, iteratorDone, current, handed,
                     claimed, closes, faults>>
  BY DEF Element, InProgram, Takes
<1>2. /\ Cardinality(handed \ called) \in Nat
      /\ Cardinality(handed \ called') = Cardinality(handed \ called) - 1
      /\ Cardinality(handed \ called') \in Nat
      /\ Cardinality(handed \ called') = 0 <=> handed \subseteq called'
  <2>1. IsFiniteSet(handed)
    BY DEF IInv, TypeOK
  <2>2. QED
    BY ONLY <1>1, <2>1, ReportCount, NoneCount
<1>3. Final \notin Outcomes /\ Final' = Final
  BY <1>1 DEF IInv, Completeness, Complete, Final
<1>4. /\ ~settled /\ recorded' = recorded \cup {i} /\ remaining' = remaining - 1 /\ remaining' # 0
      /\ UNCHANGED <<settled, aggregate, own, handlerCall>>
  BY DEF Element
<1>5. Flags'
  BY <1>1, <1>2, <1>3, <1>4 DEF IInv, Flags
<1>6. TypeOK'
  BY <1>1, <1>2, <1>3, <1>4, FateTypes DEF IInv, TypeOK
<1>7. DriverAt'
  BY <1>1, <1>2, <1>3, <1>4 DEF IInv, DriverAt
<1>8. Shares'
  BY <1>1, <1>2, <1>3, <1>4 DEF IInv, Shares, RemainingExact, TypeOK, DriverAt
<1>9. Reported'
  BY <1>1, <1>2, <1>3, <1>4 DEF IInv, Reported, TypeOK, DriverAt
<1>10. Completeness'
  BY <1>1, <1>2, <1>3, <1>4 DEF IInv, Completeness, Complete, DriverAt, Shares, Outcomes
<1>11. FirstReason'
  BY <1>1, <1>2, <1>3, <1>4 DEF IInv, FirstReason, Rejected, DriverAt, Outcomes
<1>12. QED
  BY <1>5, <1>6, <1>7, <1>8, <1>9, <1>10, <1>11 DEF IInv

\* The last one reports: it calls the capability of a custom constructor.
LEMMA ElementCallsIInv ==
  ASSUME IInv, NEW i, Element(i), ~settled, remaining' = 0, generic
  PROVE  IInv'
<1> USE DEF Stages, Before, Iterating, OfElement, Closing, CapabilityCalls, Ended, At
<1>1. /\ i \in handed \ called /\ stage # "fresh" /\ handlerCall = "fresh" /\ kind # "race"
      /\ called' = called \cup {i}
      /\ UNCHANGED <<kind, generic, iterator, stage, base, index, iteratorDone, current, handed,
                     claimed, closes, faults>>
  BY DEF Element, InProgram, Takes
<1>2. /\ Cardinality(handed \ called) \in Nat
      /\ Cardinality(handed \ called') = Cardinality(handed \ called) - 1
      /\ Cardinality(handed \ called') \in Nat
      /\ Cardinality(handed \ called') = 0 <=> handed \subseteq called'
  <2>1. IsFiniteSet(handed)
    BY DEF IInv, TypeOK
  <2>2. QED
    BY ONLY <1>1, <2>1, ReportCount, NoneCount
<1>3. Final \notin Outcomes /\ Final' = Final
  BY <1>1 DEF IInv, Completeness, Complete, Final
<1>4. /\ ~settled /\ recorded' = recorded \cup {i} /\ remaining' = remaining - 1 /\ remaining' = 0
      /\ settled' = TRUE
  BY DEF Element
<1>5. /\ stage = "returned" /\ Cardinality(handed \ called') = 0
  BY <1>1, <1>2, <1>4 DEF IInv, TypeOK, Shares, RemainingExact
<1>6. /\ faults = <<>> /\ iteratorDone /\ closes = 0 /\ handed = 0..index - 1 /\ own = <<>>
      /\ handed \subseteq called' /\ recorded' = handed /\ called' = handed
  BY <1>1, <1>2, <1>4, <1>5 DEF IInv, TypeOK, DriverAt, Shares, Reported, FirstReason
<1>7. /\ Final \in Fates /\ Final.is \in {"fulfilled", "rejected"} /\ Final # Open
      /\ Final.is = "rejected" => Final.of = "errors"
  BY FateTypes DEF Final, Fulfilled, Rejected, Open
<1>8. /\ generic /\ handlerCall' = Op(Final) /\ own' = <<Final>> /\ aggregate' = aggregate
  BY <1>4, <1>6 DEF Element
<1>9. /\ own' \in Seq(Fates) /\ Len(own') = 1 /\ own'[1] = Final /\ Outcomes' = {Final, aggregate}
      /\ Outcomes = {aggregate} /\ handlerCall' \in CapabilityCalls
      /\ handlerCall' = "CapabilityResolveCall" => Final.is = "fulfilled"
  BY <1>6, <1>7, <1>8 DEF Outcomes, Op
<1>10. Flags'
  BY <1>1, <1>2, <1>3, <1>4, <1>5, <1>6, <1>7, <1>8, <1>9 DEF IInv, Flags
<1>11. TypeOK'
  BY <1>1, <1>2, <1>3, <1>4, <1>5, <1>6, <1>7, <1>8, <1>9 DEF IInv, TypeOK
<1>12. DriverAt'
  BY <1>1, <1>2, <1>3, <1>4, <1>5, <1>6, <1>7, <1>8, <1>9 DEF IInv, DriverAt
<1>13. Shares'
  BY <1>1, <1>2, <1>3, <1>4, <1>5, <1>6, <1>7, <1>8, <1>9 DEF IInv, Shares, RemainingExact, TypeOK, DriverAt
<1>14. Reported'
  BY <1>1, <1>2, <1>3, <1>4, <1>5, <1>6, <1>7, <1>8, <1>9 DEF IInv, Reported, TypeOK, DriverAt
<1>15. Completeness'
  BY <1>1, <1>2, <1>3, <1>4, <1>5, <1>6, <1>7, <1>8, <1>9 DEF IInv, Completeness, Complete, DriverAt, Shares
<1>16. FirstReason'
  BY <1>1, <1>2, <1>3, <1>4, <1>5, <1>6, <1>7, <1>8, <1>9 DEF IInv, FirstReason, Rejected, DriverAt
<1>17. QED
  BY <1>10, <1>11, <1>12, <1>13, <1>14, <1>15, <1>16 DEF IInv

\* The last one reports: it settles the aggregate.
LEMMA ElementSettlesIInv ==
  ASSUME IInv, NEW i, Element(i), ~settled, remaining' = 0, ~generic
  PROVE  IInv'
<1> USE DEF Stages, Before, Iterating, OfElement, Closing, CapabilityCalls, Ended, At
<1>1. /\ i \in handed \ called /\ stage # "fresh" /\ handlerCall = "fresh" /\ kind # "race"
      /\ called' = called \cup {i}
      /\ UNCHANGED <<kind, generic, iterator, stage, base, index, iteratorDone, current, handed,
                     claimed, closes, faults>>
  BY DEF Element, InProgram, Takes
<1>2. /\ Cardinality(handed \ called) \in Nat
      /\ Cardinality(handed \ called') = Cardinality(handed \ called) - 1
      /\ Cardinality(handed \ called') \in Nat
      /\ Cardinality(handed \ called') = 0 <=> handed \subseteq called'
  <2>1. IsFiniteSet(handed)
    BY DEF IInv, TypeOK
  <2>2. QED
    BY ONLY <1>1, <2>1, ReportCount, NoneCount
<1>3. Final \notin Outcomes /\ Final' = Final
  BY <1>1 DEF IInv, Completeness, Complete, Final
<1>4. /\ ~settled /\ recorded' = recorded \cup {i} /\ remaining' = remaining - 1 /\ remaining' = 0
      /\ settled' = TRUE
  BY DEF Element
<1>5. /\ stage = "returned" /\ Cardinality(handed \ called') = 0
  BY <1>1, <1>2, <1>4 DEF IInv, TypeOK, Shares, RemainingExact
<1>6. /\ faults = <<>> /\ iteratorDone /\ closes = 0 /\ handed = 0..index - 1 /\ own = <<>>
      /\ handed \subseteq called' /\ recorded' = handed /\ called' = handed
  BY <1>1, <1>2, <1>4, <1>5 DEF IInv, TypeOK, DriverAt, Shares, Reported, FirstReason
<1>7. /\ Final \in Fates /\ Final.is \in {"fulfilled", "rejected"} /\ Final # Open
      /\ Final.is = "rejected" => Final.of = "errors"
  BY FateTypes DEF Final, Fulfilled, Rejected, Open
<1>8. /\ ~generic /\ UNCHANGED <<own, handlerCall>> /\ aggregate' = Settled(Final)
  BY <1>4 DEF Element
<1>9. /\ aggregate' \in {aggregate, Final} /\ aggregate' # Open
      /\ Outcomes' = {aggregate'} /\ Outcomes = {aggregate}
  BY <1>6, <1>7, <1>8 DEF Outcomes, Settled, Open
<1>10. Flags'
  BY <1>1, <1>2, <1>3, <1>4, <1>5, <1>6, <1>7, <1>8, <1>9 DEF IInv, Flags
<1>11. TypeOK'
  BY <1>1, <1>2, <1>3, <1>4, <1>5, <1>6, <1>7, <1>8, <1>9 DEF IInv, TypeOK
<1>12. DriverAt'
  BY <1>1, <1>2, <1>3, <1>4, <1>5, <1>6, <1>7, <1>8, <1>9 DEF IInv, DriverAt
<1>13. Shares'
  BY <1>1, <1>2, <1>3, <1>4, <1>5, <1>6, <1>7, <1>8, <1>9 DEF IInv, Shares, RemainingExact, TypeOK, DriverAt
<1>14. Reported'
  BY <1>1, <1>2, <1>3, <1>4, <1>5, <1>6, <1>7, <1>8, <1>9 DEF IInv, Reported, TypeOK, DriverAt
<1>15. Completeness'
  BY <1>1, <1>2, <1>3, <1>4, <1>5, <1>6, <1>7, <1>8, <1>9 DEF IInv, Completeness, Complete, DriverAt, Shares
<1>16. FirstReason'
  BY <1>1, <1>2, <1>3, <1>4, <1>5, <1>6, <1>7, <1>8, <1>9 DEF IInv, FirstReason, Rejected, DriverAt
<1>17. QED
  BY <1>10, <1>11, <1>12, <1>13, <1>14, <1>15, <1>16 DEF IInv

\* The capability function that an element called returns.
LEMMA HandlerCallReturnedIInv ==
  ASSUME IInv, HandlerCallReturned
  PROVE  IInv'
<1> USE DEF Stages, Before, Iterating, OfElement, Closing, CapabilityCalls, Ended, At
<1>1. /\ handlerCall' = "fresh"
      /\ UNCHANGED <<kind, generic, stage, base, index, remaining, settled, iterator, iteratorDone,
                     current, handed, called, recorded, claimed, aggregate, own, closes, faults>>
  BY DEF HandlerCallReturned, state
<1>2. Flags'
  BY <1>1 DEF IInv, Flags
<1>3. TypeOK'
  BY <1>1, FateTypes DEF IInv, TypeOK
<1>4. DriverAt'
  BY <1>1 DEF IInv, DriverAt
<1>5. Shares'
  BY <1>1 DEF IInv, Shares, RemainingExact, TypeOK, DriverAt
<1>6. Reported'
  BY <1>1 DEF IInv, Reported, TypeOK, DriverAt
<1>7. Completeness'
  BY <1>1 DEF IInv, Completeness, Complete, DriverAt, Shares, Outcomes, Final, Fulfilled, Rejected
<1>8. FirstReason'
  BY <1>1 DEF IInv, FirstReason, Rejected, DriverAt, Outcomes, Final, Fulfilled
<1>9. QED
  BY <1>2, <1>3, <1>4, <1>5, <1>6, <1>7, <1>8 DEF IInv

\* It throws: reject follows resolve.
LEMMA HandlerCallFailedIInv ==
  ASSUME IInv, NEW frame \in BOOLEAN, HandlerCallFailed(frame)
  PROVE  IInv'
<1> USE DEF Stages, Before, Iterating, OfElement, Closing, CapabilityCalls, Ended, At
<1>1. /\ handlerCall # "fresh"
      /\ UNCHANGED <<kind, generic, stage, base, index, remaining, settled, iterator, iteratorDone,
                     current, handed, called, recorded, claimed, aggregate, closes, faults>>
  BY DEF HandlerCallFailed, state
<1>2. stage = "returned" /\ settled /\ generic /\ own \in Seq(Fates)
  BY <1>1 DEF IInv, Reported, TypeOK
<1>3. /\ own' \in Seq(Fates)
      /\ handlerCall' \in {"fresh", "CapabilityRejectCall"}
      /\ \/ own' = own
         \/ /\ own' # <<>> /\ Len(own') = 2 /\ own'[1].is = "fulfilled"
            /\ own'[2] = Rejected("CapabilityResolveCall")
      /\ Outcomes' \subseteq Outcomes \cup {Rejected("CapabilityResolveCall")}
  <2>1. CASE own' = own /\ handlerCall' = "fresh"
    BY <1>1, <1>2, <2>1 DEF Outcomes
  <2>2. CASE /\ handlerCall = "CapabilityResolveCall" /\ handlerCall' = "CapabilityRejectCall"
             /\ own' = Append(own, Rejected(handlerCall))
    <3>1. Len(own) = 1 /\ own[1].is = "fulfilled"
      BY <2>2 DEF IInv, Reported
    <3>2. "CapabilityResolveCall" \in Stages \cup {"errors", "input"}
      OBVIOUS
    <3>3. Rejected("CapabilityResolveCall") \in Fates
      BY ONLY <3>2, FateTypes
    <3>4. /\ own' \in Seq(Fates) /\ Len(own') = 2 /\ own'[1] = own[1]
          /\ own'[2] = Rejected("CapabilityResolveCall")
      BY ONLY <1>2, <2>2, <3>1, <3>3
    <3>5. QED
      BY <1>1, <2>2, <3>1, <3>4 DEF Outcomes
  <2>3. QED
    BY <2>1, <2>2 DEF HandlerCallFailed
<1>4. Final' = Final /\ Final # Rejected("CapabilityResolveCall")
  BY <1>1 DEF Final, Fulfilled, Rejected
<1>5. Flags'
  BY <1>1, <1>2, <1>3, <1>4 DEF IInv, Flags
<1>6. TypeOK'
  BY <1>1, <1>2, <1>3, <1>4 DEF IInv, TypeOK
<1>7. DriverAt'
  BY <1>1, <1>2, <1>3, <1>4 DEF IInv, DriverAt
<1>8. Shares'
  BY <1>1, <1>2, <1>3, <1>4 DEF IInv, Shares, RemainingExact, TypeOK, DriverAt
<1>9. Reported'
  <2>1. CASE own' = own
    BY <1>1, <1>2, <1>3, <2>1 DEF IInv, Reported
  <2>2. CASE /\ own' # <<>> /\ Len(own') = 2 /\ own'[1].is = "fulfilled"
             /\ own'[2] = Rejected("CapabilityResolveCall")
    BY <1>1, <1>2, <1>3, <2>2 DEF Reported
  <2>3. QED
    BY <1>3, <2>1, <2>2
<1>10. Completeness'
  BY <1>1, <1>2, <1>3, <1>4 DEF IInv, Completeness, Complete, DriverAt, Shares
<1>11. FirstReason'
  BY <1>1, <1>2, <1>3, <1>4 DEF IInv, FirstReason, Rejected, DriverAt
<1>12. QED
  BY <1>5, <1>6, <1>7, <1>8, <1>9, <1>10, <1>11 DEF IInv

\* The thenable that the aggregate is locked to settles it.
LEMMA AdoptIInv ==
  ASSUME IInv, NEW fate \in {Fulfilled("input"), Rejected("input")}, Adopt(fate)
  PROVE  IInv'
<1> USE DEF Stages, Before, Iterating, OfElement, Closing, CapabilityCalls, Ended, At
<1>1. /\ aggregate' = fate /\ fate \in {Fulfilled("input"), Rejected("input")}
      /\ UNCHANGED <<kind, generic, stage, base, index, remaining, settled, iterator, iteratorDone,
                     current, handed, called, recorded, claimed, handlerCall, own, closes, faults>>
      /\ stage # "fresh"
  BY DEF Adopt, state, InProgram
<1>2. aggregate' \in Fates /\ aggregate' # Open /\ aggregate' # Final /\ Final' = Final
  BY <1>1, FateTypes DEF Final, Fulfilled, Rejected, Locked, Open
<1>3. Outcomes' \subseteq Outcomes \cup {aggregate'}
  BY <1>1 DEF Outcomes
<1>4. aggregate'.is = "rejected" => aggregate'.of \notin Stages
  BY <1>1 DEF Rejected, Fulfilled, Locked
<1>5. Flags'
  BY <1>1, <1>2, <1>3, <1>4 DEF IInv, Flags
<1>6. TypeOK'
  BY <1>1, <1>2, <1>3, <1>4 DEF IInv, TypeOK
<1>7. DriverAt'
  BY <1>1, <1>2, <1>3, <1>4 DEF IInv, DriverAt
<1>8. Shares'
  BY <1>1, <1>2, <1>3, <1>4 DEF IInv, Shares, RemainingExact, TypeOK, DriverAt
<1>9. Reported'
  BY <1>1, <1>2, <1>3, <1>4 DEF IInv, Reported, TypeOK, DriverAt
<1>10. Completeness'
  BY <1>1, <1>2, <1>3, <1>4 DEF IInv, Completeness, Complete, DriverAt, Shares
<1>11. FirstReason'
  BY <1>1, <1>2, <1>3, <1>4 DEF IInv, FirstReason, Rejected, DriverAt
<1>12. QED
  BY <1>5, <1>6, <1>7, <1>8, <1>9, <1>10, <1>11 DEF IInv

\* An input calls a resolving function of the aggregate.
LEMMA CallCapabilityIInv ==
  ASSUME IInv, NEW fate \in {Fulfilled("input"), Rejected("input"), Locked}, CallCapability(fate),
         aggregate' # aggregate
  PROVE  IInv'
<1> USE DEF Stages, Before, Iterating, OfElement, Closing, CapabilityCalls, Ended, At
<1>1. /\ aggregate' = fate /\ fate \in {Fulfilled("input"), Rejected("input"), Locked} /\ claimed' = TRUE
      /\ UNCHANGED <<kind, generic, stage, base, index, remaining, settled, iterator, iteratorDone,
                     current, handed, called, recorded, handlerCall, own, closes, faults>>
      /\ stage # "fresh"
  BY DEF CallCapability, state, InProgram, Settled
<1>2. aggregate' \in Fates /\ aggregate' # Open /\ aggregate' # Final /\ Final' = Final
  BY <1>1, FateTypes DEF Final, Fulfilled, Rejected, Locked, Open
<1>3. Outcomes' \subseteq Outcomes \cup {aggregate'}
  BY <1>1 DEF Outcomes
<1>4. aggregate'.is = "rejected" => aggregate'.of \notin Stages
  BY <1>1 DEF Rejected, Fulfilled, Locked
<1>5. Flags'
  BY <1>1, <1>2, <1>3, <1>4 DEF IInv, Flags
<1>6. TypeOK'
  BY <1>1, <1>2, <1>3, <1>4 DEF IInv, TypeOK
<1>7. DriverAt'
  BY <1>1, <1>2, <1>3, <1>4 DEF IInv, DriverAt
<1>8. Shares'
  BY <1>1, <1>2, <1>3, <1>4 DEF IInv, Shares, RemainingExact, TypeOK, DriverAt
<1>9. Reported'
  BY <1>1, <1>2, <1>3, <1>4 DEF IInv, Reported, TypeOK, DriverAt
<1>10. Completeness'
  BY <1>1, <1>2, <1>3, <1>4 DEF IInv, Completeness, Complete, DriverAt, Shares
<1>11. FirstReason'
  BY <1>1, <1>2, <1>3, <1>4 DEF IInv, FirstReason, Rejected, DriverAt
<1>12. QED
  BY <1>5, <1>6, <1>7, <1>8, <1>9, <1>10, <1>11 DEF IInv

\* It was settled before, or the step stutters.
LEMMA StutterIInv ==
  ASSUME IInv, \/ UNCHANGED vars
         \/ \E fate : CallCapability(fate) /\ UNCHANGED aggregate
  PROVE  IInv'
<1> USE DEF Stages, Before, Iterating, OfElement, Closing, CapabilityCalls, Ended, At
<1>1. /\ UNCHANGED <<kind, generic, stage, base, index, remaining, settled, iterator, iteratorDone,
                     current, handed, called, recorded, aggregate, handlerCall, own, closes, faults>>
      /\ claimed' \in {claimed, TRUE}
  BY DEF CallCapability, state, vars
<1>2. Flags'
  BY <1>1 DEF IInv, Flags
<1>3. TypeOK'
  BY <1>1, FateTypes DEF IInv, TypeOK
<1>4. DriverAt'
  BY <1>1 DEF IInv, DriverAt
<1>5. Shares'
  BY <1>1 DEF IInv, Shares, RemainingExact, TypeOK, DriverAt
<1>6. Reported'
  BY <1>1 DEF IInv, Reported, TypeOK, DriverAt
<1>7. Completeness'
  BY <1>1 DEF IInv, Completeness, Complete, DriverAt, Shares, Outcomes, Final, Fulfilled, Rejected
<1>8. FirstReason'
  BY <1>1 DEF IInv, FirstReason, Rejected, DriverAt, Outcomes, Final, Fulfilled
<1>9. QED
  BY <1>2, <1>3, <1>4, <1>5, <1>6, <1>7, <1>8 DEF IInv

-----------------------------------------------------------------------------
\* Every step keeps the invariant.
LEMMA NextIInv == IInv /\ [Next]_vars => IInv'
<1> SUFFICES ASSUME IInv, [Next]_vars PROVE IInv'
  OBVIOUS
<1>1. ASSUME NEW frame \in BOOLEAN, Done(frame) PROVE IInv'
  <2>1. CASE settled \/ kind = "race" \/ remaining' # 0
    BY <1>1, <2>1, DoneReturnsIInv
  <2>2. CASE ~settled /\ kind # "race" /\ remaining' = 0
    BY <1>1, <2>2, DoneCallsIInv, DoneSettlesIInv
  <2>3. QED
    BY <2>1, <2>2
<1>2. ASSUME NEW frame \in BOOLEAN, Fail(frame) PROVE IInv'
  <2>1. CASE Continuation(frame) \in {"thrown", "CapabilityConstructor"}
    BY <1>2, <2>1, FailThrowsIInv
  <2>2. CASE Continuation(frame) = "CapabilityResolveCall"
    BY <1>2, <2>2, FailResolveIInv
  <2>3. CASE Continuation(frame) \in Iterating
    BY <1>2, <2>3, FailIteratingIInv
  <2>4. CASE /\ Continuation(frame) \notin {"thrown", "CapabilityConstructor", "CapabilityResolveCall"}
             /\ Continuation(frame) \notin Iterating
    <3>1. CASE ~iteratorDone /\ iterator /\ Continuation(frame) \notin Closing
      BY <1>2, <2>4, <3>1, FailClosesIInv
    <3>2. CASE iteratorDone \/ ~iterator \/ Continuation(frame) \in Closing
      BY <1>2, <2>4, <3>2, FailRejectsIInv
    <3>3. QED
      BY <3>1, <3>2
  <2>5. QED
    BY <2>1, <2>2, <2>3, <2>4
<1>3. ASSUME NEW i \in handed, Element(i) PROVE IInv'
  <2>1. CASE settled
    BY <1>3, <2>1, ElementLateIInv
  <2>2. CASE ~settled /\ remaining' # 0
    BY <1>3, <2>2, ElementIInv
  <2>3. CASE ~settled /\ remaining' = 0
    BY <1>3, <2>3, ElementCallsIInv, ElementSettlesIInv
  <2>4. QED
    BY <2>1, <2>2, <2>3
<1>4. ASSUME NEW fate \in {Fulfilled("input"), Rejected("input"), Locked}, CallCapability(fate)
      PROVE  IInv'
  BY <1>4, CallCapabilityIInv, StutterIInv
<1>5. CASE Driver
  BY <1>1, <1>2, <1>5, GoOnIInv, BeginEmptyArrayIInv, ValueIInv, CallThenIInv, ThenReturnedIInv,
     CloseIInv DEF Driver
<1>6. CASE Inputs
  BY <1>3, <1>4, <1>6, HandlerCallReturnedIInv, HandlerCallFailedIInv, AdoptIInv DEF Inputs
<1>7. CASE UNCHANGED vars
  BY <1>7, StutterIInv
<1>8. QED
  BY <1>5, <1>6, <1>7 DEF Next

\* The inductive invariant holds in every state of every call of a combinator.
THEOREM Inductive == Spec => []IInv
BY InitIInv, NextIInv, PTL DEF Spec

-----------------------------------------------------------------------------
\* While the aggregate is open the count of outstanding elements is exact, whatever the
\* inputs call and however often (increment_promise_combinator_remaining,
\* decrement_promise_combinator_remaining).
THEOREM CountExact == Spec => []RemainingExact
<1>1. IInv => RemainingExact
  BY DEF IInv, Shares
<1>2. QED
  BY <1>1, Inductive, PTL

\* The array of values or errors is complete when the aggregate gets it, and the aggregate
\* is decided once the driver and every element are done (DoneGet,
\* call_promise_all_handler).
THEOREM Decided == Spec => []DecidedWhenDue
<1>1. IInv => DecidedWhenDue
  <2> SUFFICES ASSUME IInv PROVE DecidedWhenDue
    OBVIOUS
  <2>1. ASSUME stage = "returned", kind # "race", Complete
        PROVE  own # <<>> \/ aggregate # Open
    <3>1. CASE settled
      BY <3>1 DEF IInv, Reported
    <3>2. CASE ~settled
      <4>1. Cardinality(handed \ called) = 0
        <5>1. IsFiniteSet(handed) /\ handed \subseteq called
          BY <2>1 DEF IInv, TypeOK, Complete
        <5>2. QED
          BY ONLY <5>1, NoneCount
      <4>2. remaining = 0
        BY <2>1, <3>2, <4>1 DEF IInv, Shares, RemainingExact, Closing
      <4>3. QED
        BY <2>1, <3>2, <4>2 DEF IInv, Shares
    <3>3. QED
      BY <3>1, <3>2
  <2>2. QED
    BY <2>1 DEF IInv, Completeness, DecidedWhenDue
<1>2. QED
  BY <1>1, Inductive, PTL

\* A failure is reported once, with its own reason, and the iterator is closed when it must
\* be (finish_promise_combinator_reject, reject_or_close_promise_combinator).
THEOREM FailsOnce == Spec => []FailureOnce
<1>1. IInv => FailureOnce
  BY DEF IInv, Reported, FirstReason, TypeOK, FailureOnce
<1>2. QED
  BY <1>1, Inductive, PTL

================================================================================
