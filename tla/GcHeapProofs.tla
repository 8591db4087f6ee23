---------------------------- MODULE GcHeapProofs ----------------------------
(***************************************************************************)
(* Machine-checked safety of the collector for every heap shape, promotion *)
(* age and density threshold.                                              *)
(***************************************************************************)
EXTENDS GcHeap, TLAPS

\* An allocated slot lies in a span that is in use.
Placed == \A r \in allocated : space[SpanOf[r]] # "Vacant"

\* A free slot has been bumped over; with FreeSlotsDead, what the allocator needs.
FreeBumped == free \subseteq bumped

\* A dirty card of an Old span is found from the chain, which is what lets the
\* barrier skip linking when the card is already dirty.
DirtyLinked ==
  \A r \in Refs : Old(r) /\ CardOf[r] \in dirty => SpanOf[r] \in inRemembered

HeapInv ==
  /\ NoDangling
  /\ RememberedComplete
  /\ YoungChainComplete
  /\ FreeSlotsDead
  /\ Placed
  /\ FreeBumped
  /\ DirtyLinked

\* What the marker traces besides the roots.
Scanned == marked \cup (IF kind = "minor" THEN DirtySources ELSE {})

\* The tri-colour invariant: no black object has a white target.
MarkInv ==
  phase \in {"mark", "weak"} =>
    /\ marked \subseteq allocated
    /\ Marks(roots \cup pending) \subseteq marked
    /\ \A r \in Scanned \ gray : Marks(edges[r]) \subseteq marked
    /\ phase = "weak" => gray = {}

\* Weak slots of the owners already visited name live targets only.
WeakInv ==
  phase = "weak" => \A r \in Scanned \ owners : \A t \in weak[r] : LiveTarget(t)

\* Cards prepared for a span that is still to be promoted.
Prepared(s) ==
  Due(s) => \A x \in marked :
              SpanOf[x] = s /\ (\E t \in Targets(x) : Young(t)) => CardOf[x] \in dirty

\* Everything reachable that a sweep may reclaim is marked.
SweepInv ==
  phase = "sweep" =>
    /\ marked \subseteq allocated
    /\ kind = "major" => Reachable \subseteq marked
    /\ kind = "minor" =>
         /\ \A r \in Reachable : Young(r) => r \in marked
         /\ \A s \in todo : s \in inYoung /\ IsYoungSpan(s) /\ Prepared(s)

IInv == TypeOK /\ HeapInv /\ MarkInv /\ WeakInv /\ SweepInv

-----------------------------------------------------------------------------
(***************************************************************************)
(* Reachability.                                                           *)
(***************************************************************************)

\* Reachable holds what the mutator holds and is closed under targets.
LEMMA ReachableClosed ==
  ASSUME TypeOK
  PROVE  /\ Reachable \subseteq Refs
         /\ roots \cup pending \subseteq Reachable
         /\ \A x \in Reachable : Targets(x) \subseteq Reachable
<1> DEFINE out == [r \in Refs |-> Targets(r)]
<1>1. Reachable \subseteq Refs
  BY DEF Reachable, LeastClosed
<1>2. roots \cup pending \subseteq Reachable
  BY DEF Reachable, LeastClosed, TypeOK
<1>3. ASSUME NEW x \in Reachable, NEW t \in Targets(x)
      PROVE  t \in Reachable
  <2>1. x \in Refs /\ t \in Refs
    BY <1>1, <1>3 DEF TypeOK, Targets
  <2>2. ASSUME NEW S \in SUBSET Refs, roots \cup pending \subseteq S,
               \A y \in S : out[y] \subseteq S
        PROVE  t \in S
    <3>1. x \in S
      BY <1>3, <2>2 DEF Reachable, LeastClosed
    <3>2. out[x] = Targets(x)
      BY <2>1
    <3> QED BY <3>1, <3>2, <2>2, <1>3
  <2> HIDE DEF out
  <2> QED BY <2>1, <2>2 DEF Reachable, LeastClosed, out
<1> QED BY <1>1, <1>2, <1>3

\* A set that holds what the mutator will hold and is closed under the next
\* state's targets bounds the next state's reachable objects.
LEMMA ReachableLeastNext ==
  ASSUME NEW S \in SUBSET Refs, (roots \cup pending)' \subseteq S,
         \A x \in S : Targets(x)' \subseteq S
  PROVE  Reachable' \subseteq S
<1>1. \A x \in S : [r \in Refs |-> Targets(r)]'[x] \subseteq S
  OBVIOUS
<1> QED BY <1>1 DEF Reachable, LeastClosed

\* The same bound in the current state.
LEMMA ReachableLeast ==
  ASSUME NEW S \in SUBSET Refs, roots \cup pending \subseteq S,
         \A x \in S : Targets(x) \subseteq S
  PROVE  Reachable \subseteq S
<1>1. \A x \in S : [r \in Refs |-> Targets(r)][x] \subseteq S
  OBVIOUS
<1> QED BY <1>1 DEF Reachable, LeastClosed

\* Slots of different spans are on different cards.
LEMMA CardsApart ==
  ASSUME NEW r \in Refs, NEW s \in Spans, SpanOf[r] # s
  PROVE  CardOf[r] \notin CardsOf(s)
BY CardOfAssumption DEF CardsOf, SlotsOf

\* Actions that leave the span table and the allocation bits alone and give the
\* mutator nothing it could not reach keep the heap invariant.
LEMMA HeapShrinks ==
  ASSUME IInv,
         UNCHANGED <<space, inYoung, inRemembered, dirty, bumped, free, allocated>>,
         (roots \cup pending)' \subseteq Reachable,
         \A x \in Refs : Targets(x)' \subseteq Targets(x)
  PROVE  HeapInv' /\ Reachable' \subseteq Reachable
<1>1. /\ Reachable \subseteq Refs
      /\ \A x \in Reachable : Targets(x) \subseteq Reachable
  BY ReachableClosed DEF IInv
<1>2. \A x \in Reachable : Targets(x)' \subseteq Reachable
  BY <1>1
<1>3. Reachable' \subseteq Reachable
  BY <1>1, <1>2, ReachableLeastNext
<1>4. NoDangling'
  BY <1>3 DEF IInv, HeapInv, NoDangling
<1>5. RememberedComplete'
  <2> SUFFICES ASSUME NEW r \in Reachable', Old(r)', NEW t \in Targets(r)', Young(t)'
               PROVE  CardOf[r] \in dirty' /\ SpanOf[r] \in inRemembered'
    BY DEF RememberedComplete
  <2>1. r \in Reachable /\ t \in Targets(r) /\ Old(r) /\ Young(t)
    BY <1>1, <1>3 DEF Old, Young, IsYoungSpan
  <2> QED BY <2>1 DEF IInv, HeapInv, RememberedComplete
<1>6. (YoungChainComplete /\ FreeSlotsDead /\ Placed /\ FreeBumped /\ DirtyLinked)'
  BY DEF IInv, HeapInv, YoungChainComplete, FreeSlotsDead, Placed, FreeBumped,
         DirtyLinked, IsYoungSpan, Old
<1> QED BY <1>3, <1>4, <1>5, <1>6 DEF HeapInv

\* Outside a collection the phase-dependent invariants say nothing.
LEMMA IdlePhase ==
  ASSUME TypeOK', HeapInv', phase' \notin {"mark", "weak", "sweep"}
  PROVE  IInv'
BY DEF IInv, MarkInv, WeakInv, SweepInv

-----------------------------------------------------------------------------
(***************************************************************************)
(* The mutator.                                                            *)
(***************************************************************************)

\* A field or weak-slot store with its barrier keeps the heap invariant.
LEMMA StoreHeap ==
  ASSUME IInv, NEW src \in roots, NEW tgt \in roots, Barrier(src, tgt),
         UNCHANGED <<space, inYoung, bumped, free, allocated, roots, pending>>,
         \A x \in Refs : Targets(x)' \subseteq Targets(x) \cup {tgt},
         \A x \in Refs : x # src => Targets(x)' = Targets(x)
  PROVE  HeapInv'
<1>1. /\ Reachable \subseteq Refs
      /\ roots \cup pending \subseteq Reachable
      /\ \A x \in Reachable : Targets(x) \subseteq Reachable
  BY ReachableClosed DEF IInv
<1>2. \A x \in Reachable : Targets(x)' \subseteq Reachable
  BY <1>1
<1>3. Reachable' \subseteq Reachable
  BY <1>1, <1>2, ReachableLeastNext
<1>4. src \in Refs /\ tgt \in Refs
  BY DEF IInv, TypeOK
<1>5. dirty \subseteq dirty' /\ inRemembered \subseteq inRemembered'
  BY DEF Barrier
<1>6. DirtyLinked'
  <2> SUFFICES ASSUME NEW r \in Refs, Old(r), CardOf[r] \in dirty'
               PROVE  SpanOf[r] \in inRemembered'
    BY DEF DirtyLinked, Old
  <2>1. CASE CardOf[r] \in dirty
    BY <2>1, <1>5 DEF IInv, HeapInv, DirtyLinked
  <2>2. CASE CardOf[r] \notin dirty
    <3>1. CardOf[r] = CardOf[src] /\ inRemembered' = inRemembered \cup {SpanOf[src]}
      BY <2>2 DEF Barrier
    <3> QED BY <3>1, <1>4, CardOfAssumption
  <2> QED BY <2>1, <2>2
<1>7. RememberedComplete'
  <2> SUFFICES ASSUME NEW r \in Reachable', Old(r), NEW t \in Targets(r)', Young(t)
               PROVE  CardOf[r] \in dirty' /\ SpanOf[r] \in inRemembered'
    BY DEF RememberedComplete, Old, Young, IsYoungSpan
  <2>1. r \in Reachable /\ r \in Refs
    BY <1>1, <1>3
  <2>2. CASE t \in Targets(r)
    BY <2>1, <2>2, <1>5 DEF IInv, HeapInv, RememberedComplete
  <2>3. CASE t \notin Targets(r)
    <3>1. r = src /\ t = tgt
      BY <2>1, <2>3
    <3>2. CardOf[src] \in dirty'
      BY <3>1 DEF Barrier, Remembers
    <3> QED BY <3>1, <3>2, <1>4, <1>6 DEF DirtyLinked, Old
  <2> QED BY <2>2, <2>3
<1>8. NoDangling'
  BY <1>3 DEF IInv, HeapInv, NoDangling
<1>9. (YoungChainComplete /\ FreeSlotsDead /\ Placed /\ FreeBumped)'
  BY DEF IInv, HeapInv, YoungChainComplete, FreeSlotsDead, Placed, FreeBumped,
         IsYoungSpan
<1> QED BY <1>6, <1>7, <1>8, <1>9 DEF HeapInv

\* A field store keeps the invariant.
LEMMA StoreStep ==
  ASSUME IInv, NEW src \in roots, NEW tgt \in roots, Store(src, tgt)
  PROVE  IInv'
<1>1. src \in Refs /\ tgt \in Refs
  BY DEF IInv, TypeOK
<1>2. CardOf[src] \in Cards /\ SpanOf[src] \in Spans
  BY <1>1, CardOfAssumption, SpanOfAssumption
<1>3. TypeOK'
  BY <1>1, <1>2 DEF IInv, TypeOK, Store, Barrier, collectorVars
<1>4. /\ \A x \in Refs : Targets(x)' \subseteq Targets(x) \cup {tgt}
      /\ \A x \in Refs : x # src => Targets(x)' = Targets(x)
  BY <1>1 DEF IInv, TypeOK, Store, Targets
<1>5. HeapInv'
  BY <1>4, StoreHeap DEF Store
<1> QED BY <1>3, <1>5, IdlePhase DEF Store, collectorVars

\* A weak-slot store keeps the invariant.
LEMMA StoreWeakStep ==
  ASSUME IInv, NEW src \in roots, NEW tgt \in roots, StoreWeak(src, tgt)
  PROVE  IInv'
<1>1. src \in Refs /\ tgt \in Refs
  BY DEF IInv, TypeOK
<1>2. CardOf[src] \in Cards /\ SpanOf[src] \in Spans
  BY <1>1, CardOfAssumption, SpanOfAssumption
<1>3. TypeOK'
  BY <1>1, <1>2 DEF IInv, TypeOK, StoreWeak, Barrier, collectorVars
<1>4. /\ \A x \in Refs : Targets(x)' \subseteq Targets(x) \cup {tgt}
      /\ \A x \in Refs : x # src => Targets(x)' = Targets(x)
  BY <1>1 DEF IInv, TypeOK, StoreWeak, Targets
<1>5. HeapInv'
  BY <1>4, StoreHeap DEF StoreWeak
<1> QED BY <1>3, <1>5, IdlePhase DEF StoreWeak, collectorVars

\* Overwriting a field needs no barrier.
LEMMA EraseStep ==
  ASSUME IInv, NEW src \in roots, NEW tgt \in edges[src], Erase(src, tgt)
  PROVE  IInv'
<1>1. TypeOK'
  BY DEF IInv, TypeOK, Erase, tableVars, mutatorVars, collectorVars
<1>2. \A x \in Refs : Targets(x)' \subseteq Targets(x)
  BY DEF IInv, TypeOK, Erase, Targets
<1>3. (roots \cup pending)' \subseteq Reachable
  BY ReachableClosed DEF IInv, Erase, mutatorVars
<1>4. HeapInv'
  BY <1>2, <1>3, HeapShrinks DEF Erase, tableVars
<1> QED BY <1>1, <1>4, IdlePhase DEF Erase, collectorVars

\* Reading a field roots something that was reachable.
LEMMA LoadStep ==
  ASSUME IInv, NEW src \in roots, NEW tgt \in Targets(src), Load(src, tgt)
  PROVE  IInv'
<1>1. tgt \in Refs
  BY DEF IInv, TypeOK, Targets
<1>2. TypeOK'
  BY <1>1 DEF IInv, TypeOK, Load, tableVars, objectVars, collectorVars
<1>3. \A x \in Refs : Targets(x)' \subseteq Targets(x)
  BY DEF Load, Targets, objectVars
<1>4. (roots \cup pending)' \subseteq Reachable
  BY ReachableClosed DEF IInv, Load
<1>5. HeapInv'
  BY <1>3, <1>4, HeapShrinks DEF Load, tableVars, objectVars
<1> QED BY <1>2, <1>5, IdlePhase DEF Load, collectorVars

\* Dropping a root keeps the invariant.
LEMMA DropRootStep ==
  ASSUME IInv, NEW r \in roots, DropRoot(r)
  PROVE  IInv'
<1>2. TypeOK'
  BY DEF IInv, TypeOK, DropRoot, tableVars, objectVars, collectorVars
<1>3. \A x \in Refs : Targets(x)' \subseteq Targets(x)
  BY DEF DropRoot, Targets, objectVars
<1>4. (roots \cup pending)' \subseteq Reachable
  BY ReachableClosed DEF IInv, DropRoot
<1>5. HeapInv'
  BY <1>3, <1>4, HeapShrinks DEF DropRoot, tableVars, objectVars
<1> QED BY <1>2, <1>5, IdlePhase DEF DropRoot, collectorVars

-----------------------------------------------------------------------------
(***************************************************************************)
(* Allocation.                                                             *)
(***************************************************************************)
\* Moving a value into an allocation request makes nothing reachable.
LEMMA BeginAllocateStep ==
  ASSUME IInv, NEW fields \in SUBSET roots, NEW kept \in SUBSET roots,
         BeginAllocate(fields, kept)
  PROVE  IInv'
<1>2. TypeOK'
  BY DEF IInv, TypeOK, BeginAllocate, tableVars, objectVars
<1>3. \A x \in Refs : Targets(x)' \subseteq Targets(x)
  BY DEF BeginAllocate, Targets, objectVars
<1>4. (roots \cup pending)' \subseteq Reachable
  BY ReachableClosed DEF IInv, BeginAllocate
<1>5. HeapInv'
  BY <1>3, <1>4, HeapShrinks DEF BeginAllocate, tableVars, objectVars
<1> QED BY <1>2, <1>5, IdlePhase DEF BeginAllocate

\* A failed allocation drops the pending value.
LEMMA AllocateFailsStep ==
  ASSUME IInv, AllocateFails
  PROVE  IInv'
<1>2. TypeOK'
  BY DEF IInv, TypeOK, AllocateFails, tableVars, objectVars
<1>3. \A x \in Refs : Targets(x)' \subseteq Targets(x)
  BY DEF AllocateFails, Targets, objectVars
<1>4. (roots \cup pending)' \subseteq Reachable
  BY ReachableClosed DEF IInv, AllocateFails
<1>5. HeapInv'
  BY <1>3, <1>4, HeapShrinks DEF AllocateFails, tableVars, objectVars
<1> QED BY <1>2, <1>5, IdlePhase DEF AllocateFails

\* Publishing reaches one more object, whose fields were already held.
LEMMA PublishReach ==
  ASSUME IInv, NEW r \in Refs, Publish(r)
  PROVE  /\ Reachable' \subseteq Reachable \cup {r}
         /\ \A x \in Refs : x # r => Targets(x)' = Targets(x)
         /\ Targets(r)' \subseteq Reachable
<1>1. /\ Reachable \subseteq Refs
      /\ roots \cup pending \subseteq Reachable
      /\ \A x \in Reachable : Targets(x) \subseteq Reachable
  BY ReachableClosed DEF IInv
<1>2. \A x \in Refs : x # r => Targets(x)' = Targets(x)
  BY DEF Publish, Targets, IInv, TypeOK
<1>3. Targets(r)' \subseteq Reachable
  BY <1>1 DEF Publish, Targets, IInv, TypeOK
<1>4. \A x \in Reachable \cup {r} : Targets(x)' \subseteq Reachable \cup {r}
  BY <1>1, <1>2, <1>3
<1>5. (roots \cup pending)' \subseteq Reachable \cup {r}
  BY <1>1 DEF Publish
<1>6. Reachable \cup {r} \in SUBSET Refs
  BY <1>1
<1>7. Reachable' \subseteq Reachable \cup {r}
  BY <1>4, <1>5, <1>6, ReachableLeastNext
<1> QED BY <1>2, <1>3, <1>7

\* The heap invariant after an allocation, from what the four ways of taking a
\* slot have in common: other spans in use keep their space, cards and links.
LEMMA PublishHeap ==
  ASSUME IInv, NEW r \in Refs, Publish(r),
         \A x \in allocated : /\ space'[SpanOf[x]] = space[SpanOf[x]]
                              /\ CardOf[x] \in dirty => CardOf[x] \in dirty',
         inRemembered \subseteq inRemembered',
         space'[SpanOf[r]] \in {"Eden", "Old"},
         space'[SpanOf[r]] = "Old" =>
           CardOf[r] \in dirty' /\ SpanOf[r] \in inRemembered',
         YoungChainComplete', FreeSlotsDead', FreeBumped', DirtyLinked'
  PROVE  HeapInv'
<1>1. /\ Reachable' \subseteq Reachable \cup {r}
      /\ \A x \in Refs : x # r => Targets(x)' = Targets(x)
      /\ Targets(r)' \subseteq Reachable
  BY PublishReach
<1>2. /\ Reachable \subseteq Refs
      /\ \A x \in Reachable : Targets(x) \subseteq Reachable
      /\ Reachable \subseteq allocated
  BY ReachableClosed DEF IInv, HeapInv, NoDangling
<1>3. allocated' = allocated \cup {r}
  BY DEF Publish
<1>4. NoDangling'
  BY <1>1, <1>2, <1>3 DEF NoDangling
<1>5. RememberedComplete'
  <2> SUFFICES ASSUME NEW x \in Reachable', Old(x)', NEW t \in Targets(x)', Young(t)'
               PROVE  CardOf[x] \in dirty' /\ SpanOf[x] \in inRemembered'
    BY DEF RememberedComplete
  <2>1. CASE x = r
    BY <2>1 DEF Old
  <2>2. CASE x # r
    <3>1. x \in Reachable /\ x \in Refs /\ t \in Targets(x) /\ t \in Reachable
      BY <1>1, <1>2, <2>2
    <3>2. Old(x) /\ Young(t)
      BY <3>1, <1>2 DEF Old, Young, IsYoungSpan
    <3>3. CardOf[x] \in dirty /\ SpanOf[x] \in inRemembered
      BY <3>1, <3>2 DEF IInv, HeapInv, RememberedComplete
    <3> QED BY <3>1, <3>3, <1>2
  <2> QED BY <2>1, <2>2
<1>6. Placed'
  BY <1>3 DEF IInv, HeapInv, Placed
<1> QED BY <1>4, <1>5, <1>6 DEF HeapInv

\* Bump allocation in an Eden span.
LEMMA AllocateEdenStep ==
  ASSUME IInv, NEW r \in Refs, AllocateEden(r)
  PROVE  IInv'
<1>1. Publish(r)
  BY DEF AllocateEden
<1>2. TypeOK'
  BY DEF IInv, TypeOK, AllocateEden, Publish
<1>3. YoungChainComplete' /\ FreeSlotsDead' /\ FreeBumped' /\ DirtyLinked'
  BY DEF AllocateEden, Publish, IInv, HeapInv, YoungChainComplete, FreeSlotsDead,
         FreeBumped, DirtyLinked, IsYoungSpan, Old
<1>4. HeapInv'
  BY <1>1, <1>3, PublishHeap DEF AllocateEden
<1> QED BY <1>1, <1>2, <1>4, IdlePhase DEF Publish

\* Free-list or bump allocation in an Old span, which dirties the card.
LEMMA AllocateOldStep ==
  ASSUME IInv, NEW r \in Refs, AllocateOld(r)
  PROVE  IInv'
<1>1. Publish(r)
  BY DEF AllocateOld
<1>2. CardOf[r] \in Cards /\ SpanOf[r] \in Spans
  BY CardOfAssumption, SpanOfAssumption
<1>3. TypeOK'
  BY <1>2 DEF IInv, TypeOK, AllocateOld, DirtyNewOld, Publish
<1>4. r \notin allocated
  BY DEF AllocateOld, IInv, HeapInv, FreeSlotsDead
<1>5. YoungChainComplete' /\ FreeSlotsDead' /\ FreeBumped'
  BY <1>4 DEF AllocateOld, Publish, IInv, HeapInv, YoungChainComplete,
         FreeSlotsDead, FreeBumped, IsYoungSpan
<1>6. CardOf[r] \in dirty' /\ SpanOf[r] \in inRemembered'
  BY DEF AllocateOld, DirtyNewOld, IInv, HeapInv, DirtyLinked, Old
<1>7. DirtyLinked'
  <2> SUFFICES ASSUME NEW x \in Refs, Old(x), CardOf[x] \in dirty'
               PROVE  SpanOf[x] \in inRemembered'
    BY DEF DirtyLinked, Old, AllocateOld
  <2>1. CASE CardOf[x] \in dirty
    BY <2>1 DEF IInv, HeapInv, DirtyLinked, AllocateOld
  <2>2. CASE CardOf[x] \notin dirty
    BY <2>2, <1>6, CardOfAssumption DEF AllocateOld, DirtyNewOld
  <2> QED BY <2>1, <2>2
<1>8. HeapInv'
  BY <1>1, <1>5, <1>6, <1>7, PublishHeap DEF AllocateOld
<1> QED BY <1>1, <1>3, <1>8, IdlePhase DEF Publish

\* No allocated slot lies in a vacant span.
LEMMA VacantEmpty ==
  ASSUME IInv, NEW s \in Spans, space[s] = "Vacant"
  PROVE  /\ allocated \cap SlotsOf(s) = {}
         /\ \A x \in allocated : SpanOf[x] # s /\ CardOf[x] \notin CardsOf(s)
<1>1. \A x \in allocated : x \in Refs /\ SpanOf[x] # s
  BY DEF IInv, HeapInv, Placed, TypeOK
<1>2. \A x \in allocated : CardOf[x] \notin CardsOf(s)
  BY <1>1, CardsApart
<1> QED BY <1>1, <1>2 DEF SlotsOf

\* A vacant span becomes Eden; cards of its earlier life are gone.
LEMMA AllocateNewEdenStep ==
  ASSUME IInv, NEW r \in Refs, AllocateNewEden(r)
  PROVE  IInv'
<1> DEFINE s == SpanOf[r]
<1>1. Publish(r) /\ s \in Spans /\ space[s] = "Vacant"
  BY SpanOfAssumption DEF AllocateNewEden
<1>2. TypeOK'
  BY <1>1, PromotionAgeAssumption DEF IInv, TypeOK, AllocateNewEden, Publish
<1>3. /\ allocated \cap SlotsOf(s) = {}
      /\ \A x \in allocated : SpanOf[x] # s /\ CardOf[x] \notin CardsOf(s)
  BY <1>1, VacantEmpty
<1>4. YoungChainComplete'
  BY <1>1 DEF IInv, HeapInv, TypeOK, YoungChainComplete, IsYoungSpan, AllocateNewEden
<1>5. FreeSlotsDead' /\ FreeBumped'
  BY <1>3 DEF AllocateNewEden, Publish, IInv, HeapInv, FreeSlotsDead, FreeBumped,
              SlotsOf
<1>6. DirtyLinked'
  BY <1>1 DEF AllocateNewEden, IInv, HeapInv, TypeOK, DirtyLinked, Old
<1>7. HeapInv'
  <2>1. space'[s] = "Eden"
    BY <1>1 DEF AllocateNewEden, IInv, TypeOK
  <2>2. \A x \in allocated : /\ space'[SpanOf[x]] = space[SpanOf[x]]
                             /\ CardOf[x] \in dirty => CardOf[x] \in dirty'
    BY <1>3 DEF AllocateNewEden, IInv, TypeOK
  <2>3. inRemembered' = inRemembered
    BY DEF AllocateNewEden
  <2> QED BY <1>1, <1>4, <1>5, <1>6, <2>1, <2>2, <2>3, PublishHeap
<1> QED BY <1>1, <1>2, <1>7, IdlePhase DEF Publish

\* A vacant span becomes Old or large, remembered from the start.
LEMMA AllocateNewOldStep ==
  ASSUME IInv, NEW r \in Refs, AllocateNewOld(r)
  PROVE  IInv'
<1> DEFINE s == SpanOf[r]
<1>1. /\ Publish(r) /\ s \in Spans /\ CardOf[r] \in Cards
      /\ space[s] = "Vacant"
  BY SpanOfAssumption, CardOfAssumption DEF AllocateNewOld
<1>2. TypeOK'
  BY <1>1, PromotionAgeAssumption
     DEF IInv, TypeOK, AllocateNewOld, Publish, DirtyNewOld
<1>3. /\ allocated \cap SlotsOf(s) = {}
      /\ \A x \in allocated : SpanOf[x] # s /\ CardOf[x] \notin CardsOf(s)
  BY <1>1, VacantEmpty
<1>4. YoungChainComplete'
  BY <1>1 DEF IInv, HeapInv, TypeOK, YoungChainComplete, IsYoungSpan, AllocateNewOld
<1>5. FreeSlotsDead' /\ FreeBumped'
  BY <1>3 DEF AllocateNewOld, Publish, IInv, HeapInv, FreeSlotsDead, FreeBumped,
              SlotsOf
<1>6. /\ CardOf[r] \in dirty' /\ s \in inRemembered'
      /\ dirty' = (dirty \ CardsOf(s)) \cup {CardOf[r]}
      /\ inRemembered \subseteq inRemembered'
  BY DEF AllocateNewOld, DirtyNewOld
<1>7. DirtyLinked'
  <2> SUFFICES ASSUME NEW x \in Refs, Old(x)', CardOf[x] \in dirty'
               PROVE  SpanOf[x] \in inRemembered'
    BY DEF DirtyLinked
  <2>1. CASE SpanOf[x] = s
    BY <2>1, <1>6
  <2>2. CASE SpanOf[x] # s
    <3>1. Old(x)
      BY <2>2, SpanOfAssumption DEF Old, AllocateNewOld, IInv, TypeOK
    <3>2. CardOf[x] \in dirty
      BY <2>2, <1>6, CardOfAssumption
    <3> QED BY <3>1, <3>2, <1>6 DEF IInv, HeapInv, DirtyLinked
  <2> QED BY <2>1, <2>2
<1>8. HeapInv'
  <2>1. space'[s] = "Old"
    BY <1>1 DEF AllocateNewOld, IInv, TypeOK
  <2>2. \A x \in allocated : /\ space'[SpanOf[x]] = space[SpanOf[x]]
                             /\ CardOf[x] \in dirty => CardOf[x] \in dirty'
    BY <1>3, <1>6 DEF AllocateNewOld, IInv, TypeOK
  <2> QED BY <1>1, <1>4, <1>5, <1>6, <1>7, <2>1, <2>2, PublishHeap
<1> QED BY <1>1, <1>2, <1>8, IdlePhase DEF Publish

-----------------------------------------------------------------------------
(***************************************************************************)
(* Marking and weak closure.  The heap is not changed, except that weak    *)
(* slots are cleared.                                                      *)
(***************************************************************************)
\* Rooting a major collection establishes the tri-colour invariant.
LEMMA StartMajorStep ==
  ASSUME IInv, StartMajor
  PROVE  IInv'
<1>1. TypeOK'
  BY DEF IInv, TypeOK, StartMajor, Start, ExactRoots, tableVars, objectVars, mutatorVars
<1>2. (roots \cup pending)' \subseteq Reachable /\ Reachable \subseteq allocated
  BY ReachableClosed
     DEF IInv, StartMajor, Start, mutatorVars, HeapInv, NoDangling
<1>3. \A x \in Refs : Targets(x)' \subseteq Targets(x)
  BY DEF StartMajor, Start, objectVars, Targets
<1>4. HeapInv'
  BY <1>2, <1>3, HeapShrinks DEF StartMajor, Start, tableVars, objectVars
<1>5. MarkInv'
  BY <1>2 DEF MarkInv, StartMajor, Start, ExactRoots, Scanned, Marks,
              mutatorVars, objectVars
<1>6. WeakInv' /\ SweepInv'
  BY DEF WeakInv, SweepInv, StartMajor, Start
<1> QED BY <1>1, <1>4, <1>5, <1>6 DEF IInv

\* Rooting a minor collection establishes it for young targets.
LEMMA StartMinorStep ==
  ASSUME IInv, StartMinor
  PROVE  IInv'
<1>1. TypeOK'
  BY DEF IInv, TypeOK, StartMinor, Start, ExactRoots, DirtySources, tableVars,
         objectVars, mutatorVars
<1>2. (roots \cup pending)' \subseteq Reachable /\ Reachable \subseteq allocated
  BY ReachableClosed
     DEF IInv, StartMinor, Start, mutatorVars, HeapInv, NoDangling
<1>3. \A x \in Refs : Targets(x)' \subseteq Targets(x)
  BY DEF StartMinor, Start, objectVars, Targets
<1>4. HeapInv'
  BY <1>2, <1>3, HeapShrinks DEF StartMinor, Start, tableVars, objectVars
<1>5. DirtySources' = DirtySources
  BY DEF DirtySources, Old, StartMinor, Start, tableVars, objectVars
<1>6. MarkInv'
  BY <1>2, <1>5 DEF MarkInv, StartMinor, Start, ExactRoots, Scanned, Marks, Young,
              IsYoungSpan, mutatorVars, objectVars, tableVars
<1>7. WeakInv' /\ SweepInv'
  BY DEF WeakInv, SweepInv, StartMinor, Start
<1> QED BY <1>1, <1>4, <1>6, <1>7 DEF IInv

\* Tracing one gray object keeps the tri-colour invariant.
LEMMA TraceStep ==
  ASSUME IInv, NEW r \in Refs, Trace(r)
  PROVE  IInv'
<1>1. edges[r] \subseteq Refs /\ Marks(edges[r]) \subseteq edges[r]
  BY DEF IInv, TypeOK, Marks
<1>2. TypeOK'
  BY <1>1 DEF IInv, TypeOK, Trace, Traced, Enqueued, tableVars, objectVars, mutatorVars
<1>3. (roots \cup pending)' \subseteq Reachable
  BY ReachableClosed DEF IInv, Trace, mutatorVars
<1>4. \A x \in Refs : Targets(x)' \subseteq Targets(x)
  BY DEF Trace, objectVars, Targets
<1>5. HeapInv'
  BY <1>3, <1>4, HeapShrinks DEF Trace, tableVars, objectVars
<1>6. DirtySources' = DirtySources
  BY DEF DirtySources, Old, Trace, tableVars, objectVars
<1>7. \A T : Marks(T)' = Marks(T)
  BY DEF Marks, Young, IsYoungSpan, Trace, tableVars
<1>8. MarkInv'
  <2>1. marked \subseteq allocated /\ Marks(roots \cup pending) \subseteq marked
    BY DEF Trace, IInv, MarkInv
  <2>2. marked' \subseteq allocated' /\ Marks(roots \cup pending)' \subseteq marked'
    BY <1>1, <1>7, <2>1 DEF Trace, Traced, objectVars, mutatorVars
  <2>3. ASSUME NEW x \in Scanned' \ gray'
        PROVE  Marks(edges[x])' \subseteq marked'
    <3>1. CASE x = r
      BY <1>7, <3>1 DEF Trace, Traced, objectVars
    <3>2. CASE x # r
      <4>1. x \in Scanned \ gray
        BY <2>3, <3>2, <1>6 DEF Scanned, Trace, Enqueued
      <4>2. Marks(edges[x]) \subseteq marked
        BY <4>1 DEF Trace, IInv, MarkInv
      <4> QED BY <4>2, <1>7 DEF Trace, objectVars
    <3> QED BY <3>1, <3>2
  <2> QED BY <2>2, <2>3 DEF MarkInv, Trace
<1>9. WeakInv' /\ SweepInv'
  BY DEF WeakInv, SweepInv, Trace
<1> QED BY <1>2, <1>5, <1>8, <1>9 DEF IInv

\* Every abandoned collection leaves a heap the mutator can use.
LEMMA AbandonStep ==
  ASSUME IInv, AbandonCollection, UNCHANGED <<tableVars, objectVars>>, torn' \in BOOLEAN
  PROVE  IInv'
<1>1. TypeOK'
  BY DEF IInv, TypeOK, AbandonCollection, ForgetEpoch, tableVars, objectVars
<1>2. (roots \cup pending)' \subseteq Reachable
  BY ReachableClosed DEF IInv, AbandonCollection
<1>3. \A x \in Refs : Targets(x)' \subseteq Targets(x)
  BY DEF objectVars, Targets
<1>4. HeapInv'
  BY <1>2, <1>3, HeapShrinks DEF tableVars, objectVars
<1> QED BY <1>1, <1>4, IdlePhase DEF AbandonCollection

\* When the gray queue is drained every owner is still to be visited.
LEMMA BeginClearWeakStep ==
  ASSUME IInv, BeginClearWeak
  PROVE  IInv'
<1>1. TypeOK'
  BY DEF IInv, TypeOK, BeginClearWeak, WeakOwners, DirtySources, tableVars,
         objectVars, mutatorVars
<1>2. (roots \cup pending)' \subseteq Reachable
  BY ReachableClosed DEF IInv, BeginClearWeak, mutatorVars
<1>3. \A x \in Refs : Targets(x)' \subseteq Targets(x)
  BY DEF BeginClearWeak, objectVars, Targets
<1>4. HeapInv'
  BY <1>2, <1>3, HeapShrinks DEF BeginClearWeak, tableVars, objectVars
<1>5. Scanned' = Scanned
  BY DEF Scanned, DirtySources, Old, BeginClearWeak, tableVars, objectVars
<1>6. \A T : Marks(T)' = Marks(T)
  BY DEF Marks, Young, IsYoungSpan, BeginClearWeak, tableVars
<1>7. MarkInv'
  BY <1>5, <1>6 DEF MarkInv, IInv, BeginClearWeak, objectVars, mutatorVars
<1>8. \A r \in Scanned \ owners' : weak[r] = {}
  BY DEF BeginClearWeak, WeakOwners, Scanned
<1>9. WeakInv' /\ SweepInv'
  BY <1>5, <1>8 DEF WeakInv, SweepInv, BeginClearWeak, objectVars
<1> QED BY <1>1, <1>4, <1>7, <1>9 DEF IInv

\* Clearing the weak slots of one owner.
LEMMA ClearWeakStep ==
  ASSUME IInv, NEW r \in Refs, ClearWeak(r)
  PROVE  IInv'
<1>1. TypeOK'
  BY DEF IInv, TypeOK, ClearWeak, tableVars, mutatorVars
<1>2. (roots \cup pending)' \subseteq Reachable
  BY ReachableClosed DEF IInv, ClearWeak, mutatorVars
<1>3. \A x \in Refs : weak'[x] \subseteq weak[x]
  BY DEF ClearWeak, IInv, TypeOK
<1>4. \A x \in Refs : Targets(x)' \subseteq Targets(x)
  BY <1>3 DEF ClearWeak, Targets
<1>5. HeapInv'
  BY <1>2, <1>4, HeapShrinks DEF ClearWeak, tableVars
<1>6. Scanned' = Scanned /\ Scanned \subseteq Refs
  BY DEF Scanned, DirtySources, Old, ClearWeak, tableVars, IInv, TypeOK
<1>7. \A T : Marks(T)' = Marks(T)
  BY DEF Marks, Young, IsYoungSpan, ClearWeak, tableVars
<1>8. MarkInv'
  BY <1>6, <1>7 DEF MarkInv, IInv, ClearWeak, mutatorVars
<1>9. \A t : LiveTarget(t)' = LiveTarget(t)
  BY DEF LiveTarget, Old, ClearWeak, tableVars
<1>10. WeakInv'
  <2> SUFFICES ASSUME NEW x \in Scanned \ owners', NEW t \in weak'[x]
               PROVE  LiveTarget(t)
    BY <1>6, <1>9 DEF WeakInv
  <2>1. CASE x = r
    BY <2>1 DEF ClearWeak, IInv, TypeOK
  <2>2. CASE x # r
    BY <2>2, <1>3, <1>6 DEF ClearWeak, IInv, WeakInv
  <2> QED BY <2>1, <2>2
<1>11. SweepInv'
  BY DEF SweepInv, ClearWeak
<1> QED BY <1>1, <1>5, <1>8, <1>10, <1>11 DEF IInv

\* Once weak closure is done, a minor collection has marked every reachable
\* young object: an Old object on the path is a remembered source.
LEMMA MinorMarkedAll ==
  ASSUME IInv, phase = "weak", kind = "minor", owners = {}
  PROVE  \A r \in Reachable : Young(r) => r \in marked
<1> DEFINE S == {r \in Reachable : Young(r) => r \in marked}
<1>1. /\ Reachable \subseteq Refs
      /\ roots \cup pending \subseteq Reachable
      /\ \A x \in Reachable : Targets(x) \subseteq Reachable
  BY ReachableClosed DEF IInv
<1>2. gray = {} /\ Marks(roots \cup pending) \subseteq marked
  BY DEF IInv, MarkInv
<1>3. roots \cup pending \subseteq S
  BY <1>1, <1>2 DEF Marks
<1>4. ASSUME NEW x \in S, NEW t \in Targets(x)
      PROVE  t \in S
  <2>1. x \in Reachable /\ x \in Refs /\ t \in Reachable /\ x \in allocated
    BY <1>1, <1>4 DEF IInv, HeapInv, NoDangling
  <2> SUFFICES ASSUME Young(t) PROVE t \in marked
    BY <2>1
  <2>2. Old(x) \/ Young(x)
    BY <2>1, SpanOfAssumption DEF Old, Young, IsYoungSpan, IInv, HeapInv, Placed, TypeOK
  <2>3. x \in Scanned
    <3>1. CASE Young(x)
      BY <3>1, <1>4 DEF Scanned
    <3>2. CASE Old(x)
      BY <3>2, <2>1, <1>4 DEF Scanned, DirtySources, IInv, HeapInv, RememberedComplete
    <3> QED BY <2>2, <3>1, <3>2
  <2>4. Marks(edges[x]) \subseteq marked
    BY <2>3, <1>2 DEF IInv, MarkInv
  <2>5. CASE t \in edges[x]
    BY <2>4, <2>5 DEF Marks
  <2>6. CASE t \in weak[x]
    <3>1. LiveTarget(t)
      BY <2>3, <2>6 DEF IInv, WeakInv
    <3> QED BY <3>1 DEF LiveTarget, Old, Young, IsYoungSpan
  <2> QED BY <1>4, <2>5, <2>6 DEF Targets
<1>5. S \in SUBSET Refs
  BY <1>1
<1>6. \A x \in S : Targets(x) \subseteq S
  BY <1>4
<1> HIDE DEF S
<1>7. Reachable \subseteq S
  BY <1>3, <1>5, <1>6, ReachableLeast
<1> QED BY <1>7 DEF S

\* A major collection has marked everything reachable.
LEMMA MajorMarkedAll ==
  ASSUME IInv, phase = "weak", kind = "major", owners = {}
  PROVE  Reachable \subseteq marked
<1>1. gray = {} /\ roots \cup pending \subseteq marked
  BY DEF IInv, MarkInv, Marks
<1>2. \A x \in marked : Targets(x) \subseteq marked
  BY <1>1 DEF IInv, MarkInv, WeakInv, Scanned, Marks, LiveTarget, Targets
<1> QED BY <1>1, <1>2, ReachableLeast DEF IInv, TypeOK

\* A major sweep begins with everything reachable marked.
LEMMA BeginMajorSweepStep ==
  ASSUME IInv, BeginMajorSweep
  PROVE  IInv'
<1>1. TypeOK'
  BY DEF IInv, TypeOK, BeginMajorSweep, tableVars, objectVars, mutatorVars
<1>2. (roots \cup pending)' \subseteq Reachable
  BY ReachableClosed DEF IInv, BeginMajorSweep, mutatorVars
<1>3. \A x \in Refs : Targets(x)' \subseteq Targets(x)
  BY DEF BeginMajorSweep, objectVars, Targets
<1>4. HeapInv' /\ Reachable' \subseteq Reachable
  BY <1>2, <1>3, HeapShrinks DEF BeginMajorSweep, tableVars, objectVars
<1>5. Reachable \subseteq marked /\ marked \subseteq allocated
  BY MajorMarkedAll DEF BeginMajorSweep, IInv, MarkInv
<1>6. MarkInv' /\ WeakInv' /\ SweepInv'
  BY <1>4, <1>5 DEF MarkInv, WeakInv, SweepInv, BeginMajorSweep, objectVars
<1> QED BY <1>1, <1>4, <1>6 DEF IInv

\* The card rebuild and the promotion cards lose no old-to-young edge.
LEMMA BeginMinorSweepStep ==
  ASSUME IInv, BeginMinorSweep
  PROVE  IInv'
<1> DEFINE cleaned == UNION {CardsOf(s) : s \in
                        {x \in inRemembered : space[x] = "Old"} \cup Promotable}
<1>1. /\ Reachable \subseteq Refs
      /\ roots \cup pending \subseteq Reachable
      /\ \A x \in Reachable : Targets(x) \subseteq Reachable
  BY ReachableClosed DEF IInv
<1>2. RebuiltCards \subseteq Cards /\ PromotionCards \subseteq Cards
  BY CardOfAssumption DEF RebuiltCards, PromotionCards, DirtySources, IInv, TypeOK
<1>3. TypeOK'
  <2>1. dirty' \subseteq Cards
    BY <1>2 DEF IInv, TypeOK, BeginMinorSweep
  <2>2. inRemembered' \subseteq Spans /\ todo' \subseteq Spans
    BY DEF IInv, TypeOK, BeginMinorSweep, KeptRemembered
  <2> QED BY <2>1, <2>2 DEF IInv, TypeOK, BeginMinorSweep, objectVars, mutatorVars
<1>4. Reachable' = Reachable
  BY DEF Reachable, LeastClosed, Targets, BeginMinorSweep, objectVars, mutatorVars
<1>5. \A x \in Refs : /\ Targets(x)' = Targets(x) /\ Old(x)' = Old(x)
                      /\ Young(x)' = Young(x)
  BY DEF Targets, Old, Young, IsYoungSpan, BeginMinorSweep, objectVars
<1>6. RememberedComplete'
  <2> SUFFICES ASSUME NEW r \in Reachable, Old(r), NEW t \in Targets(r), Young(t)
               PROVE  CardOf[r] \in dirty' /\ SpanOf[r] \in inRemembered'
    BY <1>1, <1>4, <1>5 DEF RememberedComplete
  <2>1. r \in DirtySources
    BY DEF DirtySources, IInv, HeapInv, NoDangling, RememberedComplete
  <2>2. CardOf[r] \in RebuiltCards
    BY <2>1 DEF RebuiltCards, HasYoung
  <2>3. CardOf[r] \in CardsOf(SpanOf[r])
    BY <1>1 DEF CardsOf, SlotsOf
  <2>4. SpanOf[r] \in KeptRemembered
    BY <2>1, <2>2, <2>3 DEF KeptRemembered, DirtySources, Old
  <2> QED BY <2>2, <2>4 DEF BeginMinorSweep
<1>7. DirtyLinked'
  <2> SUFFICES ASSUME NEW r \in Refs, Old(r), CardOf[r] \in dirty'
               PROVE  SpanOf[r] \in KeptRemembered
    BY <1>5 DEF DirtyLinked, BeginMinorSweep
  <2>1. CardOf[r] \in CardsOf(SpanOf[r])
    BY DEF CardsOf, SlotsOf
  <2>2. CardOf[r] \notin PromotionCards
    BY CardOfAssumption DEF PromotionCards, Promotable, IsYoungSpan, Old, IInv, TypeOK
  <2>3. CardOf[r] \in RebuiltCards
    <3> SUFFICES ASSUME CardOf[r] \notin RebuiltCards PROVE FALSE
      OBVIOUS
    <3>1. CardOf[r] \in dirty /\ CardOf[r] \notin cleaned
      BY <2>2 DEF BeginMinorSweep
    <3>2. SpanOf[r] \in inRemembered
      BY <3>1 DEF IInv, HeapInv, DirtyLinked
    <3> QED BY <3>1, <3>2, <2>1 DEF Old
  <2>4. SpanOf[r] \in inRemembered
    BY <2>3, CardOfAssumption DEF RebuiltCards, DirtySources, IInv, TypeOK
  <2> QED BY <2>1, <2>3, <2>4 DEF KeptRemembered, Old
<1>8. (NoDangling /\ YoungChainComplete /\ FreeSlotsDead /\ Placed /\ FreeBumped)'
  BY <1>4 DEF IInv, HeapInv, NoDangling, YoungChainComplete, FreeSlotsDead, Placed,
         FreeBumped, IsYoungSpan, BeginMinorSweep, objectVars
<1>9. SweepInv'
  <2>1. marked' \subseteq allocated' /\ kind' = "minor"
    BY DEF BeginMinorSweep, IInv, MarkInv, objectVars
  <2>2. \A r \in Reachable' : Young(r)' => r \in marked'
    BY <1>1, <1>4, <1>5, MinorMarkedAll DEF BeginMinorSweep
  <2>3. ASSUME NEW s \in todo'
        PROVE  s \in inYoung' /\ IsYoungSpan(s)' /\ Prepared(s)'
    <3>1. s \in inYoung /\ IsYoungSpan(s)
      BY <2>3 DEF BeginMinorSweep
    <3>2. Due(s)' = Due(s)
      BY DEF Due, DueByAge, Dense, BeginMinorSweep
    <3>3. ASSUME Due(s), NEW x \in marked, SpanOf[x] = s, NEW t \in Targets(x), Young(t)
          PROVE  CardOf[x] \in dirty'
      <4>1. x \in {y \in marked : SpanOf[y] \in Promotable /\ HasYoung(y)}
        BY <3>1, <3>3 DEF Promotable, HasYoung
      <4>2. CardOf[x] \in PromotionCards
        BY <4>1 DEF PromotionCards
      <4> QED BY <4>2 DEF BeginMinorSweep
    <3>4. marked' = marked /\ marked \subseteq Refs /\ \A x \in marked : Targets(x) \subseteq Refs
      BY DEF BeginMinorSweep, IInv, TypeOK, Targets
    <3>5. Prepared(s)'
      <4> SUFFICES ASSUME Due(s)', NEW x \in marked', SpanOf[x] = s,
                          NEW t \in Targets(x)', Young(t)'
                   PROVE  CardOf[x] \in dirty'
        BY DEF Prepared
      <4>1. x \in marked /\ t \in Targets(x) /\ Young(t) /\ Due(s)
        BY <1>5, <3>2, <3>4
      <4> QED BY <4>1, <3>3
    <3> QED BY <3>1, <3>5 DEF BeginMinorSweep, IsYoungSpan
  <2> QED BY <2>1, <2>2, <2>3 DEF SweepInv
<1>10. MarkInv' /\ WeakInv'
  BY DEF MarkInv, WeakInv, BeginMinorSweep
<1> QED BY <1>3, <1>6, <1>7, <1>8, <1>9, <1>10 DEF IInv, HeapInv

-----------------------------------------------------------------------------
(***************************************************************************)
(* Sweeping.                                                               *)
(***************************************************************************)

\* Sweeping one span frees nothing reachable and removes only edges of garbage.
LEMMA SweepReach ==
  ASSUME IInv, NEW k \in {"minor", "major"}, NEW s \in Spans, SweepStep(k, s)
  PROVE  /\ Reachable' \subseteq Reachable
         /\ Reachable \subseteq Refs
         /\ NoDangling'
         /\ \A r \in Reachable : SpanOf[r] = s => r \in LiveIn(s)
         /\ \A x \in Refs : Targets(x)' \subseteq Targets(x)
         /\ LiveIn(s) = marked \cap SlotsOf(s)
         /\ marked' \subseteq allocated'
         /\ allocated' \subseteq allocated
         /\ allocated' \cap SlotsOf(s) = LiveIn(s)
         /\ edges' \in [Refs -> SUBSET Refs] /\ weak' \in [Refs -> SUBSET Refs]
<1>1. /\ Reachable \subseteq Refs
      /\ roots \cup pending \subseteq Reachable
      /\ \A x \in Reachable : Targets(x) \subseteq Reachable
      /\ Reachable \subseteq allocated
  BY ReachableClosed DEF IInv, HeapInv, NoDangling
<1>2. marked \subseteq allocated /\ marked' = marked
  BY DEF SweepStep, IInv, SweepInv
<1>3. \A x \in Refs : Targets(x)' \subseteq Targets(x)
  BY DEF SweepStep, Reclaim, Targets, IInv, TypeOK
<1>4. Reachable' \subseteq Reachable
  <2>1. (roots \cup pending)' \subseteq Reachable
    BY <1>1 DEF SweepStep, mutatorVars
  <2>2. \A x \in Reachable : Targets(x)' \subseteq Reachable
    BY <1>1, <1>3
  <2> QED BY <1>1, <2>1, <2>2, ReachableLeastNext
<1>5. \A r \in Reachable : SpanOf[r] = s => r \in marked
  <2>1. CASE kind = "major"
    BY <2>1 DEF SweepStep, IInv, SweepInv
  <2>2. CASE kind = "minor"
    <3>1. IsYoungSpan(s)
      BY <2>2 DEF SweepStep, IInv, SweepInv
    <3> QED BY <2>2, <3>1 DEF SweepStep, IInv, SweepInv, Young
  <2> QED BY <2>1, <2>2 DEF IInv, TypeOK
<1>6. \A r \in Reachable : SpanOf[r] = s => r \in LiveIn(s)
  BY <1>1, <1>5 DEF LiveIn, SlotsOf
<1>7. NoDangling'
  BY <1>1, <1>4, <1>5 DEF NoDangling, SweepStep, Reclaim, Dead, SlotsOf
<1>8. marked' \subseteq allocated' /\ allocated' \subseteq allocated
  BY <1>2 DEF SweepStep, Reclaim, Dead
<1>9. LiveIn(s) = marked \cap SlotsOf(s) /\ allocated' \cap SlotsOf(s) = LiveIn(s)
  BY <1>2 DEF LiveIn, SweepStep, Reclaim, Dead
<1>10. edges' \in [Refs -> SUBSET Refs] /\ weak' \in [Refs -> SUBSET Refs]
  BY DEF SweepStep, Reclaim, IInv, TypeOK
<1> QED BY <1>1, <1>3, <1>4, <1>6, <1>7, <1>8, <1>9, <1>10

\* The spans still to be swept stay prepared when another span is swept: it
\* turns no span young, and no card of another span is cleaned.
LEMMA SweepOthers ==
  ASSUME IInv, NEW k \in {"minor", "major"}, NEW s \in Spans, SweepStep(k, s),
         \A u \in Spans : u # s => space'[u] = space[u] /\ age'[u] = age[u],
         space'[s] \in {"Eden", "Survivor"} => IsYoungSpan(s),
         \A r \in Refs : SpanOf[r] # s /\ CardOf[r] \in dirty => CardOf[r] \in dirty'
  PROVE  SweepInv'
<1>1. /\ Reachable' \subseteq Reachable /\ Reachable \subseteq Refs
      /\ marked' \subseteq allocated'
      /\ \A x \in Refs : Targets(x)' \subseteq Targets(x)
  BY SweepReach
<1>2. \A r \in Refs : Young(r)' => Young(r)
  BY SpanOfAssumption DEF Young, IsYoungSpan
<1>3. kind' = kind /\ marked' = marked /\ phase = "sweep" /\ marked \subseteq Refs
      /\ todo' = todo \ {s} /\ todo \subseteq Spans /\ inYoung' = inYoung
  BY DEF SweepStep, IInv, TypeOK
<1>4. kind' = "major" => Reachable' \subseteq marked'
  BY <1>1, <1>3 DEF IInv, SweepInv
<1>5. ASSUME kind' = "minor"
      PROVE  /\ \A r \in Reachable' : Young(r)' => r \in marked'
             /\ \A u \in todo' : u \in inYoung' /\ IsYoungSpan(u)' /\ Prepared(u)'
  <2>1. \A r \in Reachable' : Young(r)' => r \in marked'
    BY <1>1, <1>2, <1>3, <1>5 DEF IInv, SweepInv
  <2>2. ASSUME NEW u \in todo'
        PROVE  u \in inYoung' /\ IsYoungSpan(u)' /\ Prepared(u)'
    <3>1. u \in Spans /\ u # s /\ u \in inYoung /\ IsYoungSpan(u) /\ Prepared(u)
      BY <1>3, <1>5, <2>2 DEF IInv, SweepInv
    <3>2. space'[u] = space[u] /\ age'[u] = age[u]
      BY <3>1
    <3>3. Due(u)' = Due(u)
      BY <3>2, <1>3 DEF Due, DueByAge, Dense
    <3>4. Prepared(u)'
      <4> SUFFICES ASSUME Due(u)', NEW x \in marked', SpanOf[x] = u,
                          NEW t \in Targets(x)', Young(t)'
                   PROVE  CardOf[x] \in dirty'
        BY DEF Prepared
      <4>1. x \in Refs /\ x \in marked /\ t \in Targets(x) /\ t \in Refs
        BY <1>1, <1>3 DEF IInv, TypeOK, Targets
      <4>2. Young(t)
        BY <1>2, <4>1
      <4>3. CardOf[x] \in dirty
        BY <3>1, <3>3, <4>1, <4>2 DEF Prepared
      <4> QED BY <3>1, <4>1, <4>3
    <3> QED BY <1>3, <3>1, <3>2, <3>4 DEF IsYoungSpan
  <2> QED BY <2>1, <2>2
<1> QED BY <1>1, <1>4, <1>5 DEF SweepInv

\* An empty span is released or pooled.
LEMMA SweepEmptyStep ==
  ASSUME IInv, NEW k \in {"minor", "major"}, NEW s \in Spans, SweepEmpty(k, s)
  PROVE  IInv'
<1>1. SweepStep(k, s) /\ LiveIn(s) = {} /\ Vacate(s) /\ inRemembered' = inRemembered
  BY DEF SweepEmpty
<1>2. /\ Reachable' \subseteq Reachable /\ Reachable \subseteq Refs
      /\ NoDangling'
      /\ \A r \in Reachable : SpanOf[r] = s => r \in LiveIn(s)
      /\ \A x \in Refs : Targets(x)' \subseteq Targets(x)
      /\ allocated' \subseteq allocated /\ allocated' \cap SlotsOf(s) = LiveIn(s)
      /\ edges' \in [Refs -> SUBSET Refs] /\ weak' \in [Refs -> SUBSET Refs]
  BY <1>1, SweepReach
<1>3. /\ \A u \in Spans : u # s => space'[u] = space[u] /\ age'[u] = age[u]
      /\ space'[s] = "Vacant"
  BY <1>1 DEF Vacate, IInv, TypeOK
<1>4. TypeOK'
  BY <1>1, <1>2 DEF IInv, TypeOK, SweepStep, Vacate, mutatorVars
<1>5. \A r \in Refs : SpanOf[r] # s /\ CardOf[r] \in dirty => CardOf[r] \in dirty'
  BY <1>1, CardsApart DEF Vacate
<1>6. SweepInv'
  BY <1>1, <1>3, <1>5, SweepOthers
<1>7. RememberedComplete'
  <2> SUFFICES ASSUME NEW r \in Reachable', Old(r)', NEW t \in Targets(r)', Young(t)'
               PROVE  CardOf[r] \in dirty' /\ SpanOf[r] \in inRemembered'
    BY DEF RememberedComplete
  <2>1. r \in Reachable /\ r \in Refs /\ t \in Targets(r) /\ t \in Refs
    BY <1>2 DEF IInv, TypeOK, Targets
  <2>2. SpanOf[r] # s
    BY <1>1, <1>2, <2>1
  <2>3. Old(r) /\ Young(t)
    BY <1>3, <2>1, SpanOfAssumption DEF Old, Young, IsYoungSpan
  <2>4. CardOf[r] \in dirty /\ SpanOf[r] \in inRemembered
    BY <2>1, <2>3 DEF IInv, HeapInv, RememberedComplete
  <2> QED BY <1>1, <1>5, <2>1, <2>2, <2>4
<1>8. YoungChainComplete'
  BY <1>1, <1>3 DEF YoungChainComplete, IsYoungSpan, IInv, HeapInv, SweepStep
<1>9. FreeSlotsDead' /\ FreeBumped'
  BY <1>1, <1>2 DEF FreeSlotsDead, FreeBumped, Vacate, IInv, HeapInv
<1>10. Placed'
  <2> SUFFICES ASSUME NEW r \in allocated' PROVE space'[SpanOf[r]] # "Vacant"
    BY DEF Placed
  <2>1. r \in Refs /\ r \in allocated /\ SpanOf[r] # s
    BY <1>1, <1>2 DEF SlotsOf, IInv, TypeOK
  <2> QED BY <1>3, <2>1, SpanOfAssumption DEF IInv, HeapInv, Placed
<1>11. DirtyLinked'
  BY <1>1, <1>3, SpanOfAssumption DEF DirtyLinked, Old, IInv, HeapInv, Vacate
<1>12. MarkInv' /\ WeakInv'
  BY <1>1 DEF MarkInv, WeakInv, SweepStep
<1> QED BY <1>2, <1>4, <1>6, <1>7, <1>8, <1>9, <1>10, <1>11, <1>12 DEF IInv, HeapInv

\* A dead slot below the cursor may be listed free.
LEMMA FreeAfterSound ==
  ASSUME IInv, NEW k \in {"minor", "major"}, NEW s \in Spans, SweepStep(k, s),
         bumped' = bumped, free' \in {free, FreeAfter(s)}
  PROVE  FreeSlotsDead' /\ FreeBumped' /\ free' \subseteq Refs
<1>1. allocated' \subseteq allocated /\ allocated' \cap SlotsOf(s) = LiveIn(s)
  BY SweepReach
<1> QED BY <1>1 DEF FreeSlotsDead, FreeBumped, FreeAfter, IInv, HeapInv, TypeOK

\* A span with survivors whose cohort is due is promoted as a whole.
LEMMA PromoteStep ==
  ASSUME IInv, NEW s \in Spans, Promote(s)
  PROVE  IInv'
<1>1. /\ SweepStep("minor", s) /\ LiveIn(s) # {}
      /\ bumped' = bumped /\ dirty' = dirty /\ free' = FreeAfter(s)
      /\ inRemembered \subseteq inRemembered'
  BY DEF Promote
<1>2. /\ Reachable' \subseteq Reachable /\ Reachable \subseteq Refs
      /\ NoDangling'
      /\ \A r \in Reachable : SpanOf[r] = s => r \in LiveIn(s)
      /\ \A x \in Refs : Targets(x)' \subseteq Targets(x)
      /\ LiveIn(s) = marked \cap SlotsOf(s)
      /\ allocated' \subseteq allocated
      /\ edges' \in [Refs -> SUBSET Refs] /\ weak' \in [Refs -> SUBSET Refs]
  BY <1>1, SweepReach
<1>3. /\ \A u \in Spans : u # s => space'[u] = space[u] /\ age'[u] = age[u]
      /\ space'[s] = "Old"
  BY DEF Promote, IInv, TypeOK
<1>4. FreeSlotsDead' /\ FreeBumped' /\ free' \subseteq Refs
  BY <1>1, FreeAfterSound
<1>5. TypeOK'
  <2>1. inRemembered' \subseteq Spans
    BY DEF Promote, IInv, TypeOK
  <2>2. /\ space' \in [Spans -> {"Vacant", "Eden", "Survivor", "Old"}]
        /\ age' \in [Spans -> {n \in Nat : n = 0 \/ n < PromotionAge}]
    BY DEF Promote, IInv, TypeOK
  <2> QED BY <1>1, <1>2, <1>4, <2>1, <2>2 DEF IInv, TypeOK, SweepStep, mutatorVars
<1>6. SweepInv'
  BY <1>1, <1>3, SweepOthers
<1>7. Due(s) /\ Prepared(s)
  BY <1>1, <1>2 DEF Promote, Due, SweepStep, IInv, SweepInv
<1>8. \A r \in Refs : SpanOf[r] = s /\ CardOf[r] \in dirty => s \in inRemembered'
  BY DEF Promote, CardsOf, SlotsOf
<1>9. \A r \in Refs : Young(r)' => Young(r)
  BY <1>3, SpanOfAssumption DEF Young, IsYoungSpan
<1>10. RememberedComplete'
  <2> SUFFICES ASSUME NEW r \in Reachable', Old(r)', NEW t \in Targets(r)', Young(t)'
               PROVE  CardOf[r] \in dirty /\ SpanOf[r] \in inRemembered'
    BY <1>1 DEF RememberedComplete
  <2>1. r \in Reachable /\ r \in Refs /\ t \in Targets(r) /\ t \in Refs
    BY <1>2 DEF IInv, TypeOK, Targets
  <2>2. Young(t)
    BY <1>9, <2>1
  <2>3. CASE SpanOf[r] = s
    <3>1. r \in marked
      BY <1>2, <2>1, <2>3
    <3>2. CardOf[r] \in dirty
      BY <1>7, <2>1, <2>2, <2>3, <3>1 DEF Prepared
    <3> QED BY <1>8, <2>1, <2>3, <3>2
  <2>4. CASE SpanOf[r] # s
    <3>1. Old(r)
      BY <1>3, <2>1, <2>4, SpanOfAssumption DEF Old
    <3>2. CardOf[r] \in dirty /\ SpanOf[r] \in inRemembered
      BY <2>1, <2>2, <3>1 DEF IInv, HeapInv, RememberedComplete
    <3> QED BY <1>1, <3>2
  <2> QED BY <2>3, <2>4
<1>11. YoungChainComplete'
  BY <1>1, <1>3 DEF YoungChainComplete, IsYoungSpan, IInv, HeapInv, SweepStep
<1>12. Placed'
  BY <1>2, <1>3, SpanOfAssumption DEF Placed, IInv, HeapInv, TypeOK
<1>13. DirtyLinked'
  BY <1>1, <1>3, <1>8, SpanOfAssumption DEF DirtyLinked, Old, IInv, HeapInv
<1>14. MarkInv' /\ WeakInv'
  BY <1>1 DEF MarkInv, WeakInv, SweepStep
<1> QED BY <1>2, <1>4, <1>5, <1>6, <1>10, <1>11, <1>12, <1>13, <1>14 DEF IInv, HeapInv

\* The heap invariant after a sweep step that leaves each span young, old or
\* vacant as it was, and the cards alone.
LEMMA SweepInPlace ==
  ASSUME IInv, NEW k \in {"minor", "major"}, NEW s \in Spans, SweepStep(k, s),
         \A u \in Spans : u # s => space'[u] = space[u] /\ age'[u] = age[u],
         space'[s] = space[s] \/ (IsYoungSpan(s) /\ IsYoungSpan(s)'),
         bumped' = bumped, free' \in {free, FreeAfter(s)},
         dirty' = dirty, inRemembered' = inRemembered,
         space' \in [Spans -> {"Vacant", "Eden", "Survivor", "Old"}],
         age' \in [Spans -> {n \in Nat : n = 0 \/ n < PromotionAge}]
  PROVE  IInv'
<1>1. /\ Reachable' \subseteq Reachable /\ Reachable \subseteq Refs
      /\ NoDangling'
      /\ \A x \in Refs : Targets(x)' \subseteq Targets(x)
      /\ allocated' \subseteq allocated
      /\ edges' \in [Refs -> SUBSET Refs] /\ weak' \in [Refs -> SUBSET Refs]
  BY SweepReach
<1>2. FreeSlotsDead' /\ FreeBumped' /\ free' \subseteq Refs
  BY FreeAfterSound
<1>3. TypeOK'
  BY <1>1, <1>2 DEF IInv, TypeOK, SweepStep, mutatorVars
<1>4. SweepInv'
  BY SweepOthers DEF IsYoungSpan
<1>5. \A u \in Spans : /\ IsYoungSpan(u)' = IsYoungSpan(u)
                       /\ (space'[u] = "Old") = (space[u] = "Old")
                       /\ space[u] # "Vacant" => space'[u] # "Vacant"
  BY DEF IsYoungSpan
<1>6. \A r \in Refs : Young(r)' = Young(r) /\ Old(r)' = Old(r)
  BY <1>5, SpanOfAssumption DEF Young, Old
<1>7. RememberedComplete'
  <2> SUFFICES ASSUME NEW r \in Reachable', Old(r)', NEW t \in Targets(r)', Young(t)'
               PROVE  CardOf[r] \in dirty /\ SpanOf[r] \in inRemembered
    BY DEF RememberedComplete
  <2>1. r \in Reachable /\ r \in Refs /\ t \in Targets(r) /\ t \in Refs
    BY <1>1 DEF IInv, TypeOK, Targets
  <2> QED BY <2>1, <1>6 DEF IInv, HeapInv, RememberedComplete
<1>8. YoungChainComplete'
  BY <1>5 DEF YoungChainComplete, IInv, HeapInv, SweepStep
<1>9. Placed'
  BY <1>1, <1>5, SpanOfAssumption DEF Placed, IInv, HeapInv, TypeOK
<1>10. DirtyLinked'
  BY <1>6 DEF DirtyLinked, IInv, HeapInv
<1>11. MarkInv' /\ WeakInv'
  BY DEF MarkInv, WeakInv, SweepStep
<1> QED BY <1>1, <1>2, <1>3, <1>4, <1>7, <1>8, <1>9, <1>10, <1>11 DEF IInv, HeapInv

\* A span with survivors that is not due ages, below the promotion age.
LEMMA AgeStep ==
  ASSUME IInv, NEW s \in Spans, Age(s)
  PROVE  IInv'
<1>1. SweepStep("minor", s) /\ IsYoungSpan(s) /\ ~DueByAge(s)
  BY DEF Age, SweepStep, IInv, SweepInv
<1>2. /\ space' \in [Spans -> {"Vacant", "Eden", "Survivor", "Old"}]
      /\ space'[s] = "Survivor"
      /\ \A u \in Spans : u # s => space'[u] = space[u] /\ age'[u] = age[u]
  BY DEF Age, IInv, TypeOK
<1>3. age' \in [Spans -> {n \in Nat : n = 0 \/ n < PromotionAge}]
  <2>1. age[s] \in Nat /\ PromotionAge \in Nat
    BY PromotionAgeAssumption DEF IInv, TypeOK
  <2>2. space[s] = "Eden" => 1 < PromotionAge
    BY <1>1, <2>1 DEF DueByAge
  <2>3. space[s] # "Eden" => age[s] + 1 < PromotionAge
    BY <1>1, <2>1 DEF DueByAge, IsYoungSpan
  <2>4. (IF space[s] = "Eden" THEN 1 ELSE age[s] + 1)
          \in {n \in Nat : n = 0 \/ n < PromotionAge}
    BY <2>1, <2>2, <2>3
  <2> QED BY <2>4 DEF Age, IInv, TypeOK
<1>4. IsYoungSpan(s)'
  BY <1>2 DEF IsYoungSpan
<1> QED BY <1>1, <1>2, <1>3, <1>4, SweepInPlace DEF Age

\* A major sweep of a span with survivors.
LEMMA SweepMajorStep ==
  ASSUME IInv, NEW s \in Spans, SweepMajor(s)
  PROVE  IInv'
<1>1. /\ SweepStep("major", s) /\ space' = space /\ age' = age
      /\ bumped' = bumped /\ dirty' = dirty /\ inRemembered' = inRemembered
      /\ free' \in {free, FreeAfter(s)}
  BY DEF SweepMajor
<1> QED BY <1>1, SweepInPlace DEF IInv, TypeOK

\* Compacting the young chain keeps every young span.
LEMMA FinishMinorStep ==
  ASSUME IInv, FinishMinor
  PROVE  IInv'
<1>1. TypeOK'
  BY DEF IInv, TypeOK, FinishMinor, ForgetEpoch, CompactedYoung, objectVars,
         mutatorVars
<1>2. Reachable' = Reachable
  BY DEF Reachable, LeastClosed, Targets, FinishMinor, objectVars, mutatorVars
<1>3. HeapInv'
  BY <1>2 DEF HeapInv, IInv, FinishMinor, objectVars, CompactedYoung, NoDangling,
       RememberedComplete, YoungChainComplete, FreeSlotsDead, Placed, FreeBumped,
       DirtyLinked, IsYoungSpan, Old, Young, Targets
<1>4. phase' \notin {"mark", "weak", "sweep"}
  BY DEF FinishMinor, IInv, TypeOK
<1> QED BY <1>1, <1>3, <1>4, IdlePhase

\* Ending a major collection.
LEMMA FinishMajorStep ==
  ASSUME IInv, FinishMajor
  PROVE  IInv'
<1>1. TypeOK'
  BY DEF IInv, TypeOK, FinishMajor, ForgetEpoch, tableVars, objectVars, mutatorVars
<1>2. (roots \cup pending)' \subseteq Reachable
  BY ReachableClosed DEF IInv, FinishMajor, mutatorVars
<1>3. \A x \in Refs : Targets(x)' \subseteq Targets(x)
  BY DEF FinishMajor, objectVars, Targets
<1>4. HeapInv'
  BY <1>2, <1>3, HeapShrinks DEF FinishMajor, tableVars, objectVars
<1>5. phase' \notin {"mark", "weak", "sweep"}
  BY DEF FinishMajor, IInv, TypeOK
<1> QED BY <1>1, <1>4, <1>5, IdlePhase

-----------------------------------------------------------------------------
(***************************************************************************)
(* The theorems.                                                           *)
(***************************************************************************)
\* The empty heap satisfies the invariant.
LEMMA InitIInv == Init => IInv
<1> SUFFICES ASSUME Init PROVE IInv
  OBVIOUS
<1>1. TypeOK
  BY PromotionAgeAssumption DEF Init, TypeOK
<1>2. Reachable \subseteq {}
  <2>1. \A x \in {} : Targets(x) \subseteq {}
    OBVIOUS
  <2> QED BY <2>1, ReachableLeast DEF Init
<1>3. HeapInv
  BY <1>2 DEF Init, HeapInv, NoDangling, RememberedComplete, YoungChainComplete,
       FreeSlotsDead, Placed, FreeBumped, DirtyLinked, IsYoungSpan
<1>4. MarkInv /\ WeakInv /\ SweepInv
  BY DEF Init, MarkInv, WeakInv, SweepInv
<1> QED BY <1>1, <1>3, <1>4 DEF IInv

\* A step that changes nothing.
LEMMA StutterStep ==
  ASSUME IInv, UNCHANGED vars
  PROVE  IInv'
<1>1. /\ space' = space /\ age' = age /\ inYoung' = inYoung
      /\ inRemembered' = inRemembered /\ dirty' = dirty /\ bumped' = bumped
      /\ free' = free /\ allocated' = allocated /\ edges' = edges /\ weak' = weak
      /\ roots' = roots /\ pending' = pending /\ phase' = phase /\ kind' = kind
      /\ resume' = resume /\ marked' = marked /\ gray' = gray /\ owners' = owners
      /\ todo' = todo /\ torn' = torn
  BY DEF vars
<1>2. TypeOK'
  BY <1>1 DEF TypeOK, IInv
<1>3. Reachable' = Reachable
  BY <1>1 DEF Reachable, LeastClosed, Targets
<1>4. HeapInv'
  BY <1>1, <1>3 DEF HeapInv, IInv, NoDangling, RememberedComplete, YoungChainComplete,
       FreeSlotsDead, Placed, FreeBumped, DirtyLinked, IsYoungSpan, Old, Young, Targets
<1>5. Scanned' = Scanned
  BY <1>1 DEF Scanned, DirtySources, Old
<1>6. MarkInv' /\ WeakInv'
  BY <1>1, <1>5 DEF MarkInv, WeakInv, IInv, Marks, LiveTarget, Young, IsYoungSpan, Old
<1>7. \A s \in todo : Prepared(s)' = Prepared(s)
  <2>1. \A s \in todo : Due(s)' = Due(s)
    BY <1>1 DEF Due, DueByAge, Dense
  <2> QED BY <1>1, <2>1 DEF Prepared, Targets, Young, IsYoungSpan
<1>8. SweepInv'
  BY <1>1, <1>3, <1>7 DEF SweepInv, IInv, Young, IsYoungSpan
<1> QED BY <1>2, <1>4, <1>6, <1>8 DEF IInv

\* Every step of the mutator and of the collector keeps the invariant.
LEMMA NextIInv == IInv /\ [Next]_vars => IInv'
<1> SUFFICES ASSUME IInv, [Next]_vars PROVE IInv'
  OBVIOUS
<1>1. CASE Mutate
  BY <1>1, StoreStep, StoreWeakStep, EraseStep, LoadStep, DropRootStep DEF Mutate
<1>2. CASE Allocate
  <2>1. ASSUME NEW fields \in SUBSET roots, NEW kept \in {roots, roots \ fields},
               BeginAllocate(fields, kept)
        PROVE  IInv'
    BY <2>1, BeginAllocateStep
  <2> QED BY <1>2, <2>1, AllocateEdenStep, AllocateOldStep, AllocateNewEdenStep,
             AllocateNewOldStep, AllocateFailsStep DEF Allocate
<1>3. CASE Collect
  BY <1>3, StartMajorStep, StartMinorStep DEF Collect
<1>4. CASE Mark
  <2>1. MarkFails => IInv'
    <3> SUFFICES ASSUME MarkFails PROVE IInv'
      OBVIOUS
    <3> QED BY AbandonStep DEF MarkFails, IInv, TypeOK
  <2>2. ClearWeakFails => IInv'
    <3> SUFFICES ASSUME ClearWeakFails PROVE IInv'
      OBVIOUS
    <3> QED BY AbandonStep DEF ClearWeakFails, IInv, TypeOK
  <2> QED BY <1>4, <2>1, <2>2, TraceStep, BeginClearWeakStep, ClearWeakStep,
             BeginMinorSweepStep, BeginMajorSweepStep DEF Mark
<1>5. CASE Sweep
  <2>1. ASSUME NEW s \in Spans, SweepFails(s) PROVE IInv'
    <3>1. AbandonCollection /\ UNCHANGED <<tableVars, objectVars>> /\ torn' \in BOOLEAN
      BY <2>1 DEF SweepFails, IInv, TypeOK
    <3> QED BY <3>1, AbandonStep
  <2> QED BY <1>5, <2>1, SweepEmptyStep, PromoteStep, AgeStep, SweepMajorStep,
             FinishMinorStep, FinishMajorStep DEF Sweep
<1>6. CASE UNCHANGED vars
  BY <1>6, StutterStep
<1> QED BY <1>1, <1>2, <1>3, <1>4, <1>5, <1>6 DEF Next

\* The inductive invariant holds in every reachable state of the collector.
THEOREM Inductive == Spec => []IInv
<1>1. Init => IInv
  BY InitIInv
<1>2. IInv /\ [Next]_vars => IInv'
  BY NextIInv
<1> QED BY <1>1, <1>2, PTL DEF Spec

\* Type correctness, with the bound on a Survivor cohort's age.
THEOREM TypeCorrect == Spec => []TypeOK
<1>1. IInv => TypeOK
  BY DEF IInv
<1> QED BY <1>1, Inductive, PTL

\* No collection, complete, abandoned or torn, reclaims an object the mutator
\* can still reach: for every heap shape, promotion age and density threshold.
THEOREM CollectionSafe == Spec => []NoDangling
<1>1. IInv => NoDangling
  BY DEF IInv, HeapInv
<1> QED BY <1>1, Inductive, PTL

\* The write barrier, the card rebuild and whole-span promotion never lose an
\* old-to-young edge of a reachable object.
THEOREM RememberedSetSound == Spec => []RememberedComplete
<1>1. IInv => RememberedComplete
  BY DEF IInv, HeapInv
<1> QED BY <1>1, Inductive, PTL

\* Every young span is found by the next minor sweep.
THEOREM YoungChainSound == Spec => []YoungChainComplete
<1>1. IInv => YoungChainComplete
  BY DEF IInv, HeapInv
<1> QED BY <1>1, Inductive, PTL

\* The allocator never hands out a slot that holds a live object.
THEOREM AllocatorSound == Spec => []FreeSlotsDead
<1>1. IInv => FreeSlotsDead
  BY DEF IInv, HeapInv
<1> QED BY <1>1, Inductive, PTL

-----------------------------------------------------------------------------
(***************************************************************************)
(* Precision: what marking keeps is exactly what is strongly reachable.    *)
(***************************************************************************)
\* StronglyReachable holds the roots and is closed under strong fields.
LEMMA StrongClosed ==
  ASSUME TypeOK
  PROVE  /\ StronglyReachable \subseteq Refs
         /\ roots \cup pending \subseteq StronglyReachable
         /\ \A x \in StronglyReachable : edges[x] \subseteq StronglyReachable
<1>1. StronglyReachable \subseteq Refs
  BY DEF StronglyReachable, LeastClosed
<1>2. roots \cup pending \subseteq StronglyReachable
  BY DEF StronglyReachable, LeastClosed, TypeOK
<1>3. ASSUME NEW x \in StronglyReachable, NEW t \in edges[x]
      PROVE  t \in StronglyReachable
  <2>1. t \in Refs
    BY <1>1, <1>3 DEF TypeOK
  <2>2. ASSUME NEW S \in SUBSET Refs, roots \cup pending \subseteq S,
               \A y \in S : edges[y] \subseteq S
        PROVE  t \in S
    BY <1>3, <2>2 DEF StronglyReachable, LeastClosed
  <2> QED BY <2>1, <2>2 DEF StronglyReachable, LeastClosed
<1> QED BY <1>1, <1>2, <1>3

\* It is the least such set,
LEMMA StrongLeast ==
  ASSUME NEW S \in SUBSET Refs, roots \cup pending \subseteq S,
         \A x \in S : edges[x] \subseteq S
  PROVE  StronglyReachable \subseteq S
BY DEF StronglyReachable, LeastClosed

\* and both facts hold of the next state: closed there,
LEMMA StrongClosedNext ==
  ASSUME TypeOK'
  PROVE  /\ StronglyReachable' \subseteq Refs
         /\ (roots \cup pending)' \subseteq StronglyReachable'
         /\ \A x \in StronglyReachable' : edges'[x] \subseteq StronglyReachable'
<1>1. StronglyReachable' \subseteq Refs
  BY DEF StronglyReachable, LeastClosed
<1>2. (roots \cup pending)' \subseteq StronglyReachable'
  BY DEF StronglyReachable, LeastClosed, TypeOK
<1>3. ASSUME NEW x \in StronglyReachable', NEW t \in edges'[x]
      PROVE  t \in StronglyReachable'
  <2>1. t \in Refs
    BY <1>1, <1>3 DEF TypeOK
  <2>2. ASSUME NEW S \in SUBSET Refs, (roots \cup pending)' \subseteq S,
               \A y \in S : edges'[y] \subseteq S
        PROVE  t \in S
    BY <1>3, <2>2 DEF StronglyReachable, LeastClosed
  <2> QED BY <2>1, <2>2 DEF StronglyReachable, LeastClosed
<1> QED BY <1>1, <1>2, <1>3

\* and least there.
LEMMA StrongLeastNext ==
  ASSUME NEW S \in SUBSET Refs, (roots \cup pending)' \subseteq S,
         \A x \in S : edges'[x] \subseteq S
  PROVE  StronglyReachable' \subseteq S
BY DEF StronglyReachable, LeastClosed

\* A drained marker has marked every strongly reachable object it collects.
LEMMA StrongMarked ==
  ASSUME IInv, phase \in {"mark", "weak"}, gray = {}
  PROVE  \A r \in StronglyReachable : (kind = "minor" /\ ~Young(r)) \/ r \in marked
<1> DEFINE S == {r \in StronglyReachable \cap Reachable :
                   (kind = "minor" /\ ~Young(r)) \/ r \in marked}
<1>1. /\ StronglyReachable \subseteq Refs
      /\ roots \cup pending \subseteq StronglyReachable
      /\ \A x \in StronglyReachable : edges[x] \subseteq StronglyReachable
  BY StrongClosed DEF IInv
<1>2. /\ roots \cup pending \subseteq Reachable
      /\ \A x \in Reachable : edges[x] \subseteq Reachable
      /\ Reachable \subseteq allocated
  BY ReachableClosed DEF IInv, HeapInv, NoDangling, Targets
<1>3. Marks(roots \cup pending) \subseteq marked
  BY DEF IInv, MarkInv
<1>4. roots \cup pending \subseteq S
  BY <1>1, <1>2, <1>3 DEF Marks, IInv, TypeOK
<1>5. ASSUME NEW x \in S, NEW t \in edges[x]
      PROVE  t \in S
  <2>1. x \in Refs /\ x \in allocated /\ t \in StronglyReachable \cap Reachable
    BY <1>1, <1>2, <1>5
  <2> SUFFICES ASSUME ~(kind = "minor" /\ ~Young(t)) PROVE t \in marked
    BY <2>1
  <2>2. x \in Scanned
    <3>1. CASE x \in marked
      BY <3>1 DEF Scanned
    <3>2. CASE kind = "minor" /\ ~Young(x)
      <4>1. Old(x)
        BY <2>1, <3>2, SpanOfAssumption
           DEF Old, Young, IsYoungSpan, IInv, HeapInv, Placed, TypeOK
      <4> QED BY <1>5, <2>1, <3>2, <4>1
              DEF Scanned, DirtySources, IInv, HeapInv, RememberedComplete, Targets
    <3> QED BY <1>5, <3>1, <3>2
  <2>3. Marks(edges[x]) \subseteq marked
    BY <2>2 DEF IInv, MarkInv
  <2> QED BY <1>5, <2>1, <2>3 DEF Marks, IInv, TypeOK
<1>6. S \in SUBSET Refs
  BY <1>1
<1>7. \A x \in S : edges[x] \subseteq S
  BY <1>5
<1> HIDE DEF S
<1>8. StronglyReachable \subseteq S
  BY <1>4, <1>6, <1>7, StrongLeast
<1> QED BY <1>8 DEF S

\* A weak slot is cleared only if its target is not strongly reachable, for a
\* minor collection too, whose Old targets carry no mark.
THEOREM WeakSlotsSound == Spec => WeakClearedOnlyIfDead
<1>1. ASSUME IInv, [Next]_vars, phase = "weak", NEW r \in allocated',
             NEW t \in weak[r] \ weak'[r]
      PROVE  t \notin StronglyReachable
  <2>1. CASE weak' = weak
    BY <1>1, <2>1
  <2>2. CASE \E x \in Refs : ClearWeak(x)
    <3>1. PICK x \in Refs : ClearWeak(x)
      BY <2>2
    <3>2. r \in Refs /\ r = x
      BY <1>1, <3>1 DEF ClearWeak, IInv, TypeOK
    <3>3. t \in allocated /\ ~LiveTarget(t)
      BY <1>1, <3>1, <3>2 DEF ClearWeak, IInv, TypeOK
    <3>4. Old(t) \/ Young(t)
      BY <1>1, <3>3, SpanOfAssumption DEF Old, Young, IsYoungSpan, IInv, HeapInv, Placed, TypeOK
    <3>5. gray = {}
      BY <1>1 DEF IInv, MarkInv
    <3>6. t \in StronglyReachable => (kind = "minor" /\ ~Young(t)) \/ t \in marked
      BY <1>1, <3>5, StrongMarked
    <3> QED BY <3>3, <3>4, <3>6 DEF LiveTarget
  <2>3. weak' = weak \/ \E x \in Refs : ClearWeak(x)
    <3>1. CASE Mutate \/ Allocate \/ Collect
      BY <1>1, <3>1 DEF Mutate, Allocate, Collect, Store, StoreWeak, Erase, Load,
           DropRoot, BeginAllocate, AllocateEden, AllocateOld, AllocateNewEden,
           AllocateNewOld, AllocateFails, MayPublish, StartMajor, StartMinor, Start
    <3>2. CASE Mark
      BY <1>1, <3>2 DEF Mark, Trace, MarkFails, BeginClearWeak, ClearWeakFails,
           BeginMinorSweep, BeginMajorSweep, objectVars
    <3>3. CASE Sweep
      BY <1>1, <3>3 DEF Sweep, SweepEmpty, Promote, Age, SweepMajor, SweepFails,
           FinishMinor, FinishMajor, SweepStep
    <3>4. CASE UNCHANGED vars
      BY <3>4 DEF vars
    <3> QED BY <1>1, <3>1, <3>2, <3>3, <3>4 DEF Next
  <2> QED BY <2>1, <2>2, <2>3
<1>2. IInv /\ [Next]_vars =>
        [\A r \in allocated' : phase = "weak" =>
           (weak[r] \ weak'[r]) \cap StronglyReachable = {}]_vars
  BY <1>1
<1> QED BY <1>2, Inductive, PTL DEF Spec, WeakClearedOnlyIfDead

\* A major collection marks nothing that is not strongly reachable, and a swept
\* span holds nothing unmarked.
ExactInv ==
  kind = "major" =>
    /\ phase \in {"mark", "weak"} => marked \subseteq StronglyReachable /\ gray \subseteq marked
    /\ phase = "sweep" =>
         /\ marked = StronglyReachable
         /\ \A r \in allocated : SpanOf[r] \notin todo => r \in marked

\* Steps that leave the strong graph alone.
LEMMA StrongSame ==
  ASSUME edges' = edges, UNCHANGED mutatorVars
  PROVE  StronglyReachable' = StronglyReachable
BY DEF StronglyReachable, LeastClosed, mutatorVars

\* A major sweep step changes no strong path and empties its span of white slots.
LEMMA ExactSweep ==
  ASSUME IInv, TypeOK', ExactInv, NEW s \in Spans, SweepStep("major", s)
  PROVE  ExactInv'
<1>1. /\ marked = StronglyReachable /\ marked' = marked /\ marked \subseteq Refs
      /\ \A r \in allocated : SpanOf[r] \notin todo => r \in marked
      /\ roots' = roots /\ pending' = pending
  BY DEF ExactInv, SweepStep, IInv, TypeOK, mutatorVars
<1>2. \A x \in marked : edges'[x] = edges[x]
  BY <1>1 DEF SweepStep, Reclaim, Dead
<1>3. /\ roots \cup pending \subseteq marked
      /\ \A x \in marked : edges[x] \subseteq marked
  BY <1>1, StrongClosed DEF IInv
<1>4. StronglyReachable' \subseteq marked
  BY <1>1, <1>2, <1>3, StrongLeastNext
<1>5. marked \subseteq StronglyReachable'
  <2> DEFINE S == StronglyReachable' \cap marked
  <2>1. roots \cup pending \subseteq S
    BY <1>1, <1>3, StrongClosedNext
  <2>2. \A x \in S : edges[x] \subseteq S
    BY <1>2, <1>3, StrongClosedNext
  <2>3. S \in SUBSET Refs
    BY <1>1
  <2> HIDE DEF S
  <2>4. StronglyReachable \subseteq S
    BY <2>1, <2>2, <2>3, StrongLeast
  <2> QED BY <1>1, <2>4 DEF S
<1>6. ASSUME NEW r \in allocated', SpanOf[r] \notin todo'
      PROVE  r \in marked'
  <2>1. r \in allocated /\ r \in Refs /\ (SpanOf[r] \notin todo \/ SpanOf[r] = s)
    BY <1>6 DEF SweepStep, Reclaim, IInv, TypeOK
  <2>2. CASE SpanOf[r] = s
    BY <1>1, <1>6, <2>1, <2>2 DEF SweepStep, Reclaim, Dead, SlotsOf
  <2> QED BY <1>1, <2>1, <2>2
<1> QED BY <1>1, <1>4, <1>5, <1>6 DEF ExactInv, SweepStep

\* Every step keeps the precision invariant.
LEMMA ExactStep ==
  ASSUME IInv, ExactInv, [Next]_vars
  PROVE  ExactInv'
<1>0. IInv' /\ TypeOK'
  BY NextIInv DEF IInv
<1>1. CASE Mutate \/ Allocate
  BY <1>1 DEF ExactInv, Mutate, Allocate, Store, StoreWeak, Erase, Load, DropRoot,
       BeginAllocate, AllocateEden, AllocateOld, AllocateNewEden, AllocateNewOld,
       AllocateFails, Publish, collectorVars
<1>2. CASE StartMinor
  BY <1>2 DEF StartMinor, Start, ExactInv
<1>3. CASE StartMajor
  <2>1. StronglyReachable' = StronglyReachable
    BY <1>3, StrongSame DEF StartMajor, Start, objectVars
  <2>2. roots \cup pending \subseteq StronglyReachable
    BY StrongClosed DEF IInv
  <2> QED BY <1>3, <2>1, <2>2 DEF StartMajor, Start, ExactInv, ExactRoots
<1>4. ASSUME NEW r \in Refs, Trace(r) PROVE ExactInv'
  <2>1. StronglyReachable' = StronglyReachable
    BY <1>4, StrongSame DEF Trace, objectVars
  <2>2. \A x \in StronglyReachable : edges[x] \subseteq StronglyReachable
    BY StrongClosed DEF IInv
  <2> QED BY <1>4, <2>1, <2>2 DEF Trace, Traced, Enqueued, Marks, ExactInv
<1>5. CASE MarkFails \/ ClearWeakFails \/ \E s \in Spans : SweepFails(s)
  BY <1>5 DEF MarkFails, ClearWeakFails, SweepFails, AbandonCollection, ForgetEpoch,
       ExactInv
<1>6. CASE BeginClearWeak
  <2>1. StronglyReachable' = StronglyReachable
    BY <1>6, StrongSame DEF BeginClearWeak, objectVars
  <2> QED BY <1>6, <2>1 DEF BeginClearWeak, ExactInv
<1>7. ASSUME NEW r \in Refs, ClearWeak(r) PROVE ExactInv'
  <2>1. StronglyReachable' = StronglyReachable
    BY <1>7, StrongSame DEF ClearWeak
  <2> QED BY <1>7, <2>1 DEF ClearWeak, ExactInv
<1>8. CASE BeginMinorSweep
  BY <1>8 DEF BeginMinorSweep, ExactInv
<1>9. CASE BeginMajorSweep
  <2>1. StronglyReachable' = StronglyReachable
    BY <1>9, StrongSame DEF BeginMajorSweep, objectVars
  <2>2. gray = {}
    BY <1>9 DEF BeginMajorSweep, IInv, MarkInv
  <2>3. marked = StronglyReachable
    BY <1>9, <2>2, StrongMarked DEF BeginMajorSweep, ExactInv
  <2>4. \A r \in allocated : SpanOf[r] \in todo'
    BY <1>9, SpanOfAssumption DEF BeginMajorSweep, IInv, HeapInv, Placed, TypeOK
  <2> QED BY <1>9, <2>1, <2>3, <2>4 DEF BeginMajorSweep, ExactInv, objectVars
<1>10. ASSUME NEW s \in Spans,
              SweepEmpty("minor", s) \/ Promote(s) \/ Age(s) PROVE ExactInv'
  BY <1>10 DEF SweepEmpty, Promote, Age, SweepStep, ExactInv
<1>11. ASSUME NEW s \in Spans, SweepEmpty("major", s) \/ SweepMajor(s) PROVE ExactInv'
  BY <1>0, <1>11, ExactSweep DEF SweepEmpty, SweepMajor
<1>12. CASE FinishMinor \/ FinishMajor
  BY <1>12 DEF FinishMinor, FinishMajor, ForgetEpoch, ExactInv
<1>13. CASE UNCHANGED vars
  <2>1. StronglyReachable' = StronglyReachable
    BY <1>13, StrongSame DEF vars, mutatorVars
  <2> QED BY <1>13, <2>1 DEF vars, ExactInv
<1>14. CASE Collect
  BY <1>2, <1>3, <1>14 DEF Collect
<1>15. CASE Mark
  BY <1>4, <1>5, <1>6, <1>7, <1>8, <1>9, <1>15 DEF Mark
<1>16. CASE Sweep
  BY <1>5, <1>10, <1>11, <1>12, <1>16 DEF Sweep
<1> QED BY <1>1, <1>13, <1>14, <1>15, <1>16 DEF Next

\* A completed major collection has reclaimed exactly what was not strongly
\* reachable, whatever earlier minor, abandoned or torn collections left behind.
THEOREM MajorPrecise == Spec => []MajorExact
<1>1. Init => ExactInv
  BY DEF Init, ExactInv
<1>2. IInv /\ ExactInv /\ [Next]_vars => ExactInv'
  BY ExactStep
<1>3. IInv /\ ExactInv => MajorExact
  <2> SUFFICES ASSUME IInv, ExactInv, phase = "sweep", kind = "major", todo = {}
               PROVE  allocated = StronglyReachable
    BY DEF MajorExact
  <2>1. marked \subseteq allocated
    BY DEF IInv, SweepInv
  <2> QED BY <2>1 DEF ExactInv
<1> QED BY <1>1, <1>2, <1>3, Inductive, PTL DEF Spec

-----------------------------------------------------------------------------
(***************************************************************************)
(* Garbage.  An Old object that is dead but was never reclaimed is scanned *)
(* whenever its card is dirty, so what it refers to must not be reclaimed  *)
(* before it.                                                              *)
(***************************************************************************)

\* The objects from which no path leads to a reclaimed slot.
Intact == UNION {S \in SUBSET allocated : \A x \in S : Targets(x) \subseteq S}

\* What a minor sweep leaves in place.
Kept == {r \in allocated : Old(r) \/ r \in marked}

\* Old objects are intact, live or not.
OldIntact == \A r \in allocated : Old(r) => r \in Intact

\* RememberedComplete for every Old object, live or not.
OldRemembered ==
  \A r \in allocated : Old(r) /\ (\E t \in Targets(r) : Young(t)) => CardOf[r] \in dirty

\* So is everything the marker has come across.
TracedIntact ==
  /\ phase \in {"mark", "weak"} => marked \subseteq Intact
  /\ phase = "mark" => gray \subseteq Intact

\* No object that a minor sweep keeps refers to one that it reclaims.
KeptClosed ==
  phase = "sweep" /\ kind = "minor" => \A r \in Kept : Targets(r) \subseteq Kept

GarbageSound == OldIntact /\ OldRemembered /\ TracedIntact /\ KeptClosed

\* A major sweep reclaims garbage in the order of the spans, so nothing is known of
\* the garbage that is left until the sweep is complete.
GarbageInv == torn \/ (phase = "sweep" /\ kind = "major") \/ GarbageSound

\* Intact is itself such a set,
LEMMA IntactClosed ==
  /\ Intact \subseteq allocated
  /\ \A x \in Intact : Targets(x) \subseteq Intact
BY DEF Intact

\* and the greatest, in this state and in the next.
LEMMA IntactGreatest ==
  ASSUME NEW S \in SUBSET allocated, \A x \in S : Targets(x) \subseteq S
  PROVE  S \subseteq Intact
BY DEF Intact

LEMMA IntactGreatestNext ==
  ASSUME NEW S \in SUBSET allocated', \A x \in S : Targets(x)' \subseteq S
  PROVE  S \subseteq Intact'
BY DEF Intact

\* What the mutator can reach is intact.
LEMMA ReachableIntact ==
  ASSUME IInv
  PROVE  Reachable \subseteq Intact /\ roots \cup pending \subseteq Intact
<1>1. /\ roots \cup pending \subseteq Reachable
      /\ \A x \in Reachable : Targets(x) \subseteq Reachable
      /\ Reachable \subseteq allocated
  BY ReachableClosed DEF IInv, HeapInv, NoDangling
<1> QED BY <1>1, IntactGreatest

\* Edges between intact objects leave them intact.
LEMMA IntactStays ==
  ASSUME IInv, allocated' = allocated, NEW T \in SUBSET Intact,
         \A x \in Refs : Targets(x)' \subseteq Targets(x) \cup T
  PROVE  Intact \subseteq Intact'
<1>1. /\ Intact \subseteq allocated /\ Intact \subseteq Refs
      /\ \A x \in Intact : Targets(x) \subseteq Intact
  BY IntactClosed DEF IInv, TypeOK
<1>2. \A x \in Intact : Targets(x)' \subseteq Intact
  BY <1>1
<1>3. Intact \in SUBSET allocated'
  BY <1>1
<1> HIDE DEF Intact
<1> QED
  <2>1. PICK S : S = Intact
    OBVIOUS
  <2>2. S \subseteq Intact'
    BY <1>2, <1>3, <2>1, IntactGreatestNext
  <2> QED BY <2>1, <2>2

\* Steps that reclaim, add and promote nothing.
LEMMA GarbageSame ==
  ASSUME IInv, GarbageSound, UNCHANGED <<space, allocated>>, dirty \subseteq dirty',
         \A x \in Refs : Targets(x)' \subseteq Targets(x)
  PROVE  OldIntact' /\ OldRemembered' /\ Intact \subseteq Intact'
<1>1. Intact \subseteq Intact'
  BY IntactStays
<1>2. OldIntact'
  BY <1>1 DEF GarbageSound, OldIntact, Old
<1>3. OldRemembered'
  <2> SUFFICES ASSUME NEW r \in allocated, Old(r), NEW t \in Targets(r)', Young(t)
               PROVE  CardOf[r] \in dirty'
    BY DEF OldRemembered, Old, Young, IsYoungSpan
  <2>1. r \in Refs /\ t \in Targets(r)
    BY DEF IInv, TypeOK
  <2> QED BY <2>1 DEF GarbageSound, OldRemembered
<1> QED BY <1>1, <1>2, <1>3

\* The same, when the step ends outside a collection.
LEMMA GarbageIdle ==
  ASSUME OldIntact', OldRemembered', phase' \notin {"mark", "weak", "sweep"}
  PROVE  GarbageSound'
BY DEF GarbageSound, TracedIntact, KeptClosed

\* A store between rooted objects, with its barrier.
LEMMA StoreGarbage ==
  ASSUME IInv, GarbageSound, NEW src \in roots, NEW tgt \in roots, Barrier(src, tgt),
         UNCHANGED <<space, allocated>>,
         \A x \in Refs : Targets(x)' \subseteq Targets(x) \cup {tgt},
         \A x \in Refs : x # src => Targets(x)' = Targets(x)
  PROVE  OldIntact' /\ OldRemembered'
<1>1. Intact \subseteq Intact'
  <2>1. {tgt} \in SUBSET Intact
    BY ReachableIntact
  <2>2. PICK T : T = {tgt}
    OBVIOUS
  <2> QED BY <2>1, <2>2, IntactStays
<1>2. OldIntact'
  BY <1>1 DEF GarbageSound, OldIntact, Old
<1>3. OldRemembered'
  <2> SUFFICES ASSUME NEW r \in allocated, Old(r), NEW t \in Targets(r)', Young(t)
               PROVE  CardOf[r] \in dirty'
    BY DEF OldRemembered, Old, Young, IsYoungSpan
  <2>1. r \in Refs /\ dirty \subseteq dirty'
    BY DEF IInv, TypeOK, Barrier
  <2>2. CASE t \in Targets(r)
    BY <2>1, <2>2 DEF GarbageSound, OldRemembered
  <2>3. CASE t \notin Targets(r)
    <3>1. r = src /\ t = tgt
      BY <2>1, <2>3
    <3> QED BY <3>1 DEF Barrier, Remembers
  <2> QED BY <2>2, <2>3
<1> QED BY <1>2, <1>3

\* A new object refers to rooted ones only, and its card is dirty if it is Old.
LEMMA PublishGarbage ==
  ASSUME IInv, GarbageSound, NEW r \in Refs, Publish(r), r \notin allocated,
         \A x \in allocated : /\ space'[SpanOf[x]] = space[SpanOf[x]]
                              /\ CardOf[x] \in dirty => CardOf[x] \in dirty',
         space'[SpanOf[r]] = "Old" => CardOf[r] \in dirty'
  PROVE  GarbageSound'
<1>1. /\ Intact \subseteq allocated
      /\ \A x \in Intact : Targets(x) \subseteq Intact
  BY IntactClosed
<1>2. /\ \A x \in Refs : x # r => Targets(x)' = Targets(x)
      /\ Targets(r)' \subseteq Intact
  BY PublishReach, ReachableIntact
<1>3. allocated' = allocated \cup {r} /\ allocated \subseteq Refs
  BY DEF Publish, IInv, TypeOK
<1>4. Intact \cup {r} \subseteq Intact'
  <2>1. PICK S : S = Intact \cup {r}
    OBVIOUS
  <2>2. S \in SUBSET allocated' /\ \A x \in S : Targets(x)' \subseteq S
    BY <1>1, <1>2, <1>3, <2>1
  <2> QED BY <2>1, <2>2, IntactGreatestNext
<1>5. \A x \in allocated : Old(x)' = Old(x) /\ Young(x)' = Young(x)
  BY DEF Old, Young, IsYoungSpan
<1>6. OldIntact'
  BY <1>3, <1>4, <1>5 DEF GarbageSound, OldIntact
<1>7. OldRemembered'
  <2> SUFFICES ASSUME NEW x \in allocated', Old(x)', NEW t \in Targets(x)', Young(t)'
               PROVE  CardOf[x] \in dirty'
    BY DEF OldRemembered
  <2>1. CASE x = r
    BY <2>1 DEF Old
  <2>2. CASE x # r
    <3>1. x \in allocated /\ x \in Refs /\ Old(x) /\ t \in Targets(x)
      BY <1>2, <1>3, <1>5, <2>2
    <3>2. t \in allocated
      BY <1>1, <3>1 DEF GarbageSound, OldIntact
    <3>3. Young(t)
      BY <1>5, <3>2
    <3> QED BY <3>1, <3>3 DEF GarbageSound, OldRemembered
  <2> QED BY <2>1, <2>2
<1> QED BY <1>6, <1>7, GarbageIdle DEF Publish


\* Marking finds Old sources, roots and what they refer to, all of it intact.
LEMMA MarkGarbage ==
  ASSUME IInv, GarbageSound,
         StartMajor \/ StartMinor \/ (\E r \in Refs : Trace(r)) \/ BeginClearWeak
  PROVE  GarbageSound'
<1>1. /\ UNCHANGED <<tableVars, objectVars, mutatorVars, torn>>
      /\ phase' \in {"mark", "weak"}
  BY DEF StartMajor, StartMinor, Start, Trace, BeginClearWeak
<1>2. /\ space' = space /\ allocated' = allocated /\ dirty' = dirty
      /\ \A x \in Refs : Targets(x)' \subseteq Targets(x)
  BY <1>1 DEF tableVars, objectVars, Targets
<1>3. OldIntact' /\ OldRemembered' /\ Intact \subseteq Intact'
  BY <1>2, GarbageSame
<1>4. KeptClosed'
  BY <1>1 DEF KeptClosed
<1>5. marked' \subseteq Intact /\ gray' \subseteq Intact
  <2>1. CASE StartMajor
    BY <2>1, ReachableIntact DEF StartMajor, ExactRoots
  <2>2. CASE StartMinor
    <3>1. ExactRoots \subseteq Intact
      BY ReachableIntact DEF ExactRoots
    <3>2. DirtySources \subseteq Intact
      BY DEF DirtySources, GarbageSound, OldIntact
    <3> QED BY <2>2, <3>1, <3>2 DEF StartMinor
  <2>3. ASSUME NEW r \in Refs, Trace(r)
        PROVE  marked' \subseteq Intact /\ gray' \subseteq Intact
    <3>1. marked \subseteq Intact /\ gray \subseteq Intact /\ r \in gray
      BY <2>3 DEF Trace, GarbageSound, TracedIntact
    <3>2. edges[r] \subseteq Intact
      BY <3>1, IntactClosed DEF Targets
    <3>3. Marks(edges[r]) \subseteq edges[r]
      BY DEF Marks
    <3> QED BY <2>3, <3>1, <3>2, <3>3 DEF Trace, Traced, Enqueued
  <2>4. CASE BeginClearWeak
    BY <2>4 DEF BeginClearWeak, GarbageSound, TracedIntact
  <2> QED BY <2>1, <2>2, <2>3, <2>4
<1>6. TracedIntact'
  BY <1>3, <1>5 DEF TracedIntact
<1> QED BY <1>3, <1>4, <1>6 DEF GarbageSound

\* Clearing weak slots removes edges only.
LEMMA ClearWeakGarbage ==
  ASSUME IInv, GarbageSound, NEW r \in Refs, ClearWeak(r)
  PROVE  GarbageSound'
<1>1. \A x \in Refs : Targets(x)' \subseteq Targets(x)
  BY DEF ClearWeak, Targets, IInv, TypeOK
<1>2. OldIntact' /\ OldRemembered' /\ Intact \subseteq Intact'
  BY <1>1, GarbageSame DEF ClearWeak, tableVars
<1>3. TracedIntact' /\ KeptClosed'
  BY <1>2 DEF ClearWeak, GarbageSound, TracedIntact, KeptClosed
<1> QED BY <1>2, <1>3 DEF GarbageSound

\* After weak closure, what is Old or marked refers to nothing else: the Old
\* sources were all scanned, because OldRemembered covers the dead ones too.
LEMMA BeginMinorSweepGarbage ==
  ASSUME IInv, GarbageSound, BeginMinorSweep
  PROVE  GarbageSound'
<1>1. /\ phase = "weak" /\ kind = "minor" /\ owners = {} /\ gray = {}
      /\ allocated \subseteq Refs
  BY DEF BeginMinorSweep, IInv, MarkInv, TypeOK
<1>2. /\ space' = space /\ allocated' = allocated /\ marked' = marked
      /\ edges' = edges /\ weak' = weak /\ phase' = "sweep" /\ kind' = "minor"
  BY <1>1 DEF BeginMinorSweep, objectVars
<1>3. \A x \in Refs : /\ Targets(x)' = Targets(x) /\ Old(x)' = Old(x)
                      /\ Young(x)' = Young(x)
  BY <1>2 DEF Targets, Old, Young, IsYoungSpan
<1>4. Kept \subseteq Intact
  BY <1>1 DEF Kept, GarbageSound, OldIntact, TracedIntact
<1>5. ASSUME NEW r \in Kept, NEW t \in Targets(r) PROVE t \in Kept
  <2>1. t \in allocated /\ r \in allocated /\ t \in Refs
    BY <1>1, <1>4, <1>5, IntactClosed
  <2>2. Old(t) \/ Young(t)
    BY <2>1, SpanOfAssumption DEF Old, Young, IsYoungSpan, IInv, HeapInv, Placed, TypeOK
  <2>3. CASE Young(t)
    <3>1. r \in Scanned
      <4>1. CASE Old(r)
        <5>1. CardOf[r] \in dirty
          BY <1>5, <2>1, <2>3, <4>1 DEF GarbageSound, OldRemembered
        <5>2. SpanOf[r] \in inRemembered
          BY <1>1, <2>1, <4>1, <5>1 DEF IInv, HeapInv, DirtyLinked
        <5> QED BY <1>1, <2>1, <4>1, <5>1, <5>2 DEF Scanned, DirtySources
      <4>2. CASE r \in marked
        BY <4>2 DEF Scanned
      <4> QED BY <4>1, <4>2 DEF Kept
    <3>2. Marks(edges[r]) \subseteq marked /\ (\A u \in weak[r] : LiveTarget(u))
      BY <1>1, <3>1 DEF IInv, MarkInv, WeakInv
    <3>3. t \in marked
      <4>1. CASE t \in edges[r]
        BY <1>1, <2>3, <3>2, <4>1 DEF Marks
      <4>2. CASE t \in weak[r]
        BY <2>3, <3>2, <4>2 DEF LiveTarget, Old, Young, IsYoungSpan
      <4> QED BY <1>5, <4>1, <4>2 DEF Targets
    <3> QED BY <2>1, <3>3 DEF Kept
  <2> QED BY <2>1, <2>2, <2>3 DEF Kept
<1>6. Kept' = Kept /\ Kept \subseteq Refs
  BY <1>1, <1>2, <1>3 DEF Kept
<1>7. KeptClosed'
  BY <1>3, <1>5, <1>6 DEF KeptClosed
<1>8. OldIntact'
  <2>1. Intact' = Intact
    BY <1>2 DEF Intact, Targets
  <2> QED BY <1>1, <1>2, <1>3, <2>1 DEF GarbageSound, OldIntact
<1>9. OldRemembered'
  <2> SUFFICES ASSUME NEW r \in allocated, Old(r), NEW t \in Targets(r), Young(t)
               PROVE  CardOf[r] \in dirty'
    <3>1. \A r \in allocated : Targets(r) \subseteq Refs
      BY DEF Targets, IInv, TypeOK
    <3> QED BY <1>1, <1>2, <1>3, <3>1 DEF OldRemembered
  <2>1. CardOf[r] \in dirty
    BY DEF GarbageSound, OldRemembered
  <2>2. r \in DirtySources
    BY <1>1, <2>1 DEF DirtySources, IInv, HeapInv, DirtyLinked
  <2>3. CardOf[r] \in RebuiltCards
    BY <2>2 DEF RebuiltCards, HasYoung
  <2> QED BY <2>3 DEF BeginMinorSweep
<1>10. TracedIntact'
  BY <1>2 DEF TracedIntact
<1> QED BY <1>7, <1>8, <1>9, <1>10 DEF GarbageSound

\* A minor sweep step reclaims nothing that a kept object refers to, and the
\* objects it promotes have their cards prepared.
LEMMA SweepGarbage ==
  ASSUME IInv, GarbageSound, NEW s \in Spans, SweepStep("minor", s),
         \A u \in Spans : u # s => space'[u] = space[u],
         space'[s] = "Old" => Due(s) /\ dirty' = dirty,
         \A r \in Refs : SpanOf[r] # s /\ CardOf[r] \in dirty => CardOf[r] \in dirty'
  PROVE  GarbageSound'
<1>1. /\ phase = "sweep" /\ kind = "minor" /\ phase' = "sweep" /\ kind' = "minor"
      /\ marked' = marked /\ marked \subseteq allocated /\ allocated \subseteq Refs
      /\ IsYoungSpan(s) /\ Prepared(s)
  BY DEF SweepStep, IInv, SweepInv, TypeOK
<1>2. /\ \A x \in Refs : Targets(x)' \subseteq Targets(x)
      /\ LiveIn(s) = marked \cap SlotsOf(s)
      /\ marked' \subseteq allocated' /\ allocated' \subseteq allocated
      /\ allocated' \cap SlotsOf(s) = LiveIn(s)
  BY SweepReach
<1>3. \A r \in Refs : SpanOf[r] # s => /\ Old(r)' = Old(r) /\ Young(r)' = Young(r)
  BY SpanOfAssumption DEF Old, Young, IsYoungSpan
<1>4. \A r \in Refs : SpanOf[r] = s => ~Old(r) /\ Young(r)
  BY <1>1 DEF Old, Young, IsYoungSpan
<1>5. \A r \in allocated' : SpanOf[r] = s => r \in marked
  BY <1>1, <1>2 DEF SlotsOf
<1>6. Kept' = Kept
  <2>1. ASSUME NEW r \in Kept PROVE r \in Kept'
    <3>1. r \in allocated /\ r \in Refs /\ (Old(r) \/ r \in marked)
      BY <1>1, <2>1 DEF Kept
    <3>2. CASE r \in marked
      BY <1>1, <1>2, <3>2 DEF Kept
    <3>3. CASE Old(r)
      <4>1. SpanOf[r] # s
        BY <1>4, <3>1, <3>3
      <4>2. r \in allocated'
        BY <3>1, <4>1 DEF SweepStep, Reclaim, Dead, SlotsOf
      <4> QED BY <1>3, <3>1, <3>3, <4>1, <4>2 DEF Kept
    <3> QED BY <3>1, <3>2, <3>3
  <2>2. ASSUME NEW r \in Kept' PROVE r \in Kept
    <3>1. r \in allocated' /\ r \in Refs /\ r \in allocated /\ (Old(r)' \/ r \in marked)
      BY <1>1, <1>2, <2>2 DEF Kept
    <3>2. CASE SpanOf[r] = s
      BY <1>5, <3>1, <3>2 DEF Kept
    <3>3. CASE SpanOf[r] # s
      BY <1>3, <3>1, <3>3 DEF Kept
    <3> QED BY <3>2, <3>3
  <2> QED BY <2>1, <2>2
<1>7. \A r \in Kept : r \in Refs /\ Targets(r) \subseteq Kept
  BY <1>1 DEF GarbageSound, KeptClosed, Kept
<1>8. \A r \in Kept' : Targets(r)' \subseteq Kept'
  BY <1>2, <1>6, <1>7
<1>9. OldIntact'
  <2>1. PICK S : S = Kept'
    OBVIOUS
  <2>2. S \in SUBSET allocated' /\ \A x \in S : Targets(x)' \subseteq S
    BY <1>8, <2>1 DEF Kept
  <2>3. S \subseteq Intact'
    BY <2>2, IntactGreatestNext
  <2> QED BY <2>1, <2>3 DEF OldIntact, Kept
<1>10. OldRemembered'
  <2> SUFFICES ASSUME NEW r \in allocated', Old(r)', NEW t \in Targets(r)', Young(t)'
               PROVE  CardOf[r] \in dirty'
    BY DEF OldRemembered
  <2>1. r \in allocated /\ r \in Refs /\ t \in Targets(r) /\ t \in Refs
    BY <1>1, <1>2 DEF Targets, IInv, TypeOK
  <2>2. Young(t)
    BY <1>3, <1>4, <2>1
  <2>3. CASE SpanOf[r] = s
    <3>1. r \in marked /\ Due(s) /\ dirty' = dirty
      BY <1>5, <2>3 DEF Old
    <3> QED BY <1>1, <2>1, <2>2, <2>3, <3>1 DEF Prepared
  <2>4. CASE SpanOf[r] # s
    <3>1. CardOf[r] \in dirty
      BY <1>3, <2>1, <2>2, <2>4 DEF GarbageSound, OldRemembered
    <3> QED BY <2>1, <2>4, <3>1
  <2> QED BY <2>3, <2>4
<1>11. TracedIntact' /\ KeptClosed'
  BY <1>1, <1>8 DEF TracedIntact, KeptClosed
<1> QED BY <1>9, <1>10, <1>11 DEF GarbageSound

\* A completed major collection leaves no garbage at all.
LEMMA FinishMajorGarbage ==
  ASSUME IInv, ExactInv, FinishMajor
  PROVE  GarbageSound'
<1>1. /\ UNCHANGED <<tableVars, objectVars, mutatorVars>>
      /\ phase = "sweep" /\ kind = "major" /\ todo = {} /\ phase' = resume
  BY DEF FinishMajor
<1>2. allocated \subseteq Reachable
  BY <1>1 DEF ExactInv, IInv, SweepInv, StronglyReachable, Reachable, LeastClosed, Targets
<1>3. /\ Reachable \subseteq allocated
      /\ \A x \in Reachable : Targets(x) \subseteq Reachable
      /\ RememberedComplete
  BY ReachableClosed DEF IInv, HeapInv, NoDangling
<1>4. /\ space' = space /\ dirty' = dirty /\ allocated' = allocated
      /\ edges' = edges /\ weak' = weak
  BY <1>1 DEF tableVars, objectVars
<1>5. \A x \in allocated : Targets(x)' \subseteq allocated
  BY <1>2, <1>3, <1>4 DEF Targets
<1>6. OldIntact'
  <2>1. PICK S : S = allocated
    OBVIOUS
  <2>2. S \subseteq Intact'
    BY <1>4, <1>5, <2>1, IntactGreatestNext
  <2> QED BY <1>4, <2>1, <2>2 DEF OldIntact
<1>7. OldRemembered'
  BY <1>2, <1>3, <1>4 DEF OldRemembered, RememberedComplete, Old, Young, IsYoungSpan,
       Targets
<1>8. phase' \notin {"mark", "weak", "sweep"}
  BY <1>1 DEF IInv, TypeOK
<1> QED BY <1>6, <1>7, <1>8, GarbageIdle

\* Steps outside a collection, and those that end one without a sweep.
LEMMA MutatorGarbage ==
  ASSUME IInv, GarbageSound, Mutate \/ Allocate
  PROVE  GarbageSound'
<1>1. ASSUME NEW src \in roots, NEW tgt \in roots, Store(src, tgt)
      PROVE  GarbageSound'
  <2>1. /\ \A x \in Refs : Targets(x)' \subseteq Targets(x) \cup {tgt}
        /\ \A x \in Refs : x # src => Targets(x)' = Targets(x)
    BY <1>1 DEF IInv, TypeOK, Store, Targets
  <2>2. OldIntact' /\ OldRemembered'
    BY <1>1, <2>1, StoreGarbage DEF Store
  <2> QED BY <1>1, <2>2, GarbageIdle DEF Store, collectorVars
<1>2. ASSUME NEW src \in roots, NEW tgt \in roots, StoreWeak(src, tgt)
      PROVE  GarbageSound'
  <2>1. /\ \A x \in Refs : Targets(x)' \subseteq Targets(x) \cup {tgt}
        /\ \A x \in Refs : x # src => Targets(x)' = Targets(x)
    BY <1>2 DEF IInv, TypeOK, StoreWeak, Targets
  <2>2. OldIntact' /\ OldRemembered'
    BY <1>2, <2>1, StoreGarbage DEF StoreWeak
  <2> QED BY <1>2, <2>2, GarbageIdle DEF StoreWeak, collectorVars
<1>3. ASSUME NEW src, NEW tgt, Erase(src, tgt)
      PROVE  GarbageSound'
  <2>1. \A x \in Refs : Targets(x)' \subseteq Targets(x)
    BY <1>3 DEF IInv, TypeOK, Erase, Targets
  <2>2. OldIntact' /\ OldRemembered'
    BY <1>3, <2>1, GarbageSame DEF Erase, tableVars
  <2> QED BY <1>3, <2>2, GarbageIdle DEF Erase, collectorVars
<1>4. ASSUME UNCHANGED <<space, allocated, dirty, edges, weak>>,
             phase' \notin {"mark", "weak", "sweep"}
      PROVE  GarbageSound'
  <2>1. \A x \in Refs : Targets(x)' \subseteq Targets(x)
    BY <1>4 DEF Targets
  <2>2. OldIntact' /\ OldRemembered'
    BY <1>4, <2>1, GarbageSame
  <2> QED BY <1>4, <2>2, GarbageIdle
<1>5. ASSUME NEW src, NEW tgt, Load(src, tgt) PROVE GarbageSound'
  BY <1>4, <1>5 DEF Load, tableVars, objectVars, collectorVars
<1>6. ASSUME NEW r, DropRoot(r) PROVE GarbageSound'
  BY <1>4, <1>6 DEF DropRoot, tableVars, objectVars, collectorVars
<1>7. ASSUME NEW fields, NEW kept, BeginAllocate(fields, kept) PROVE GarbageSound'
  BY <1>4, <1>7 DEF BeginAllocate, tableVars, objectVars
<1>8. CASE AllocateFails
  BY <1>4, <1>8 DEF AllocateFails, tableVars, objectVars
<1>9. ASSUME NEW r \in Refs, AllocateEden(r) PROVE GarbageSound'
  <2>1. r \notin allocated
    BY <1>9 DEF AllocateEden, IInv, HeapInv, FreeSlotsDead
  <2> QED BY <1>9, <2>1, PublishGarbage DEF AllocateEden
<1>10. ASSUME NEW r \in Refs, AllocateOld(r) PROVE GarbageSound'
  <2>1. r \notin allocated
    BY <1>10 DEF AllocateOld, IInv, HeapInv, FreeSlotsDead
  <2> QED BY <1>10, <2>1, PublishGarbage DEF AllocateOld, DirtyNewOld
<1>11. ASSUME NEW r \in Refs, AllocateNewEden(r) PROVE GarbageSound'
  <2>1. Publish(r) /\ SpanOf[r] \in Spans /\ space[SpanOf[r]] = "Vacant"
    BY <1>11, SpanOfAssumption DEF AllocateNewEden
  <2>2. /\ \A x \in allocated : SpanOf[x] # SpanOf[r] /\ CardOf[x] \notin CardsOf(SpanOf[r])
        /\ r \notin allocated
    BY <2>1, VacantEmpty
  <2>3. /\ \A x \in allocated : /\ space'[SpanOf[x]] = space[SpanOf[x]]
                                /\ CardOf[x] \in dirty => CardOf[x] \in dirty'
        /\ space'[SpanOf[r]] # "Old"
    BY <1>11, <2>1, <2>2 DEF AllocateNewEden, IInv, TypeOK
  <2> QED BY <2>1, <2>2, <2>3, PublishGarbage
<1>12. ASSUME NEW r \in Refs, AllocateNewOld(r) PROVE GarbageSound'
  <2>1. Publish(r) /\ SpanOf[r] \in Spans /\ space[SpanOf[r]] = "Vacant"
    BY <1>12, SpanOfAssumption DEF AllocateNewOld
  <2>2. /\ \A x \in allocated : SpanOf[x] # SpanOf[r] /\ CardOf[x] \notin CardsOf(SpanOf[r])
        /\ r \notin allocated
    BY <2>1, VacantEmpty
  <2>3. /\ \A x \in allocated : /\ space'[SpanOf[x]] = space[SpanOf[x]]
                                /\ CardOf[x] \in dirty => CardOf[x] \in dirty'
        /\ CardOf[r] \in dirty'
    BY <1>12, <2>1, <2>2 DEF AllocateNewOld, DirtyNewOld, IInv, TypeOK
  <2> QED BY <2>1, <2>2, <2>3, PublishGarbage
<1>13. CASE Mutate
  BY <1>1, <1>2, <1>3, <1>5, <1>6, <1>13 DEF Mutate
<1>14. CASE Allocate
  BY <1>7, <1>8, <1>9, <1>10, <1>11, <1>12, <1>14 DEF Allocate
<1> QED BY <1>13, <1>14

\* An abandoned collection leaves what it found.
LEMMA AbandonGarbage ==
  ASSUME IInv, GarbageSound, AbandonCollection, UNCHANGED <<tableVars, objectVars>>
  PROVE  GarbageSound'
<1>1. \A x \in Refs : Targets(x)' \subseteq Targets(x)
  BY DEF objectVars, Targets
<1>2. OldIntact' /\ OldRemembered'
  BY <1>1, GarbageSame DEF tableVars, objectVars
<1> QED BY <1>2, GarbageIdle DEF AbandonCollection

\* Every step keeps the invariant on garbage.
LEMMA GarbageStep ==
  ASSUME IInv, ExactInv, GarbageInv, [Next]_vars
  PROVE  GarbageInv'
<1>1. CASE FinishMajor
  BY <1>1, FinishMajorGarbage DEF GarbageInv
<1>2. CASE torn /\ ~FinishMajor
  <2>1. torn'
    <3>1. CASE Mutate \/ Allocate \/ Collect
      BY <1>2, <3>1 DEF Mutate, Allocate, Collect, Store, StoreWeak, Erase, Load,
           DropRoot, BeginAllocate, AllocateEden, AllocateOld, AllocateNewEden,
           AllocateNewOld, AllocateFails, Publish, StartMajor, StartMinor, Start,
           collectorVars
    <3>2. CASE Mark
      BY <1>2, <3>2 DEF Mark, Trace, MarkFails, BeginClearWeak, ClearWeak,
           ClearWeakFails, BeginMinorSweep, BeginMajorSweep
    <3>3. CASE Sweep
      BY <1>2, <3>3 DEF Sweep, SweepEmpty, Promote, Age, SweepMajor, SweepFails,
           FinishMinor, SweepStep
    <3>4. CASE UNCHANGED vars
      BY <1>2, <3>4 DEF vars
    <3> QED BY <3>1, <3>2, <3>3, <3>4 DEF Next
  <2> QED BY <2>1 DEF GarbageInv
<1>3. CASE phase = "sweep" /\ kind = "major" /\ ~FinishMajor
  <2>1. torn' \/ (phase' = "sweep" /\ kind' = "major")
    <3>1. ~(Mutate \/ Allocate \/ Collect)
      BY <1>3 DEF Mutate, Allocate, Collect, Store, StoreWeak, Erase, Load, DropRoot,
           BeginAllocate, AllocateEden, AllocateOld, AllocateNewEden, AllocateNewOld,
           AllocateFails, MayPublish, StartMajor, StartMinor, Start
    <3>2. ~Mark
      BY <1>3 DEF Mark, Trace, MarkFails, BeginClearWeak, ClearWeak, ClearWeakFails,
           BeginMinorSweep, BeginMajorSweep
    <3>3. CASE Sweep
      BY <1>3, <3>3 DEF Sweep, SweepEmpty, Promote, Age, SweepMajor, SweepFails,
           FinishMinor, SweepStep
    <3>4. CASE UNCHANGED vars
      BY <1>3, <3>4 DEF vars
    <3> QED BY <3>1, <3>2, <3>3, <3>4 DEF Next
  <2> QED BY <2>1 DEF GarbageInv
<1>4. ASSUME GarbageSound, ~(phase = "sweep" /\ kind = "major") PROVE GarbageInv'
  <2>1. CASE Mutate \/ Allocate
    BY <1>4, <2>1, MutatorGarbage DEF GarbageInv
  <2>2. CASE Collect
    BY <1>4, <2>2, MarkGarbage DEF Collect, GarbageInv
  <2>3. CASE Mark
    <3>1. MarkFails \/ ClearWeakFails => GarbageSound'
      BY <1>4, AbandonGarbage DEF MarkFails, ClearWeakFails
    <3>2. (\E r \in Refs : Trace(r)) \/ BeginClearWeak => GarbageSound'
      BY <1>4, MarkGarbage
    <3>3. (\E r \in Refs : ClearWeak(r)) => GarbageSound'
      BY <1>4, ClearWeakGarbage
    <3>4. BeginMinorSweep => GarbageSound'
      BY <1>4, BeginMinorSweepGarbage
    <3>5. BeginMajorSweep => phase' = "sweep" /\ kind' = "major"
      BY DEF BeginMajorSweep
    <3> QED BY <2>3, <3>1, <3>2, <3>3, <3>4, <3>5 DEF Mark, GarbageInv
  <2>4. CASE Sweep
    <3>1. ASSUME NEW s \in Spans, SweepEmpty("minor", s) PROVE GarbageSound'
      <4>1. SweepStep("minor", s) /\ Vacate(s)
        BY <3>1 DEF SweepEmpty
      <4>2. /\ \A u \in Spans : u # s => space'[u] = space[u]
            /\ space'[s] # "Old"
        BY <4>1 DEF Vacate, IInv, TypeOK
      <4>3. \A r \in Refs : SpanOf[r] # s /\ CardOf[r] \in dirty => CardOf[r] \in dirty'
        BY <4>1, CardsApart DEF Vacate
      <4> QED BY <1>4, <4>1, <4>2, <4>3, SweepGarbage
    <3>2. ASSUME NEW s \in Spans, Promote(s) PROVE GarbageSound'
      <4>1. SweepStep("minor", s) /\ dirty' = dirty
        BY <3>2 DEF Promote
      <4>2. LiveIn(s) = marked \cap SlotsOf(s)
        BY <4>1, SweepReach
      <4>3. Due(s) /\ \A u \in Spans : u # s => space'[u] = space[u]
        BY <3>2, <4>2 DEF Promote, Due, IInv, TypeOK
      <4> QED BY <1>4, <4>1, <4>3, SweepGarbage
    <3>3. ASSUME NEW s \in Spans, Age(s) PROVE GarbageSound'
      <4>1. /\ SweepStep("minor", s) /\ dirty' = dirty
            /\ \A u \in Spans : u # s => space'[u] = space[u]
            /\ space'[s] # "Old"
        BY <3>3 DEF Age, IInv, TypeOK
      <4> QED BY <1>4, <4>1, SweepGarbage
    <3>4. ASSUME NEW s \in Spans, SweepFails(s) PROVE GarbageSound'
      BY <1>4, <3>4, AbandonGarbage DEF SweepFails
    <3>5. FinishMinor => GarbageSound'
      <4> SUFFICES ASSUME FinishMinor PROVE GarbageSound'
        OBVIOUS
      <4>1. \A x \in Refs : Targets(x)' \subseteq Targets(x)
        BY DEF FinishMinor, objectVars, Targets
      <4>2. OldIntact' /\ OldRemembered'
        BY <1>4, <4>1, GarbageSame DEF FinishMinor, objectVars
      <4>3. phase' \notin {"mark", "weak", "sweep"}
        BY DEF FinishMinor, IInv, TypeOK
      <4> QED BY <4>2, <4>3, GarbageIdle
    <3>6. \A s \in Spans : ~SweepEmpty("major", s) /\ ~SweepMajor(s)
      BY <1>4 DEF SweepEmpty, SweepMajor, SweepStep
    <3>7. FinishMajor => GarbageInv'
      BY <1>1
    <3> QED BY <2>4, <3>1, <3>2, <3>3, <3>4, <3>5, <3>6, <3>7 DEF Sweep, GarbageInv
  <2>5. CASE UNCHANGED vars
    <3>1. /\ space' = space /\ allocated' = allocated /\ dirty' = dirty
          /\ edges' = edges /\ weak' = weak /\ marked' = marked /\ gray' = gray
          /\ phase' = phase /\ kind' = kind
      BY <2>5 DEF vars
    <3>2. Intact' = Intact /\ Kept' = Kept
      BY <3>1 DEF Intact, Kept, Targets, Old
    <3>3. GarbageSound'
      BY <1>4, <3>1, <3>2 DEF GarbageSound, OldIntact, OldRemembered, TracedIntact,
           KeptClosed, Targets, Old, Young, IsYoungSpan
    <3> QED BY <3>3 DEF GarbageInv
  <2> QED BY <2>1, <2>2, <2>3, <2>4, <2>5 DEF Next
<1> QED BY <1>1, <1>2, <1>3, <1>4 DEF GarbageInv

\* Unless a major sweep was torn, no collection fails with
\* MarkError::InvalidReference, whatever garbage its dirty cards make it scan.
THEOREM MarkerSound == Spec => []MarkerMeetsLiveEdges
<1>1. Init => GarbageInv
  <2> SUFFICES ASSUME Init PROVE GarbageSound
    BY DEF GarbageInv
  <2> QED BY DEF Init, GarbageSound, OldIntact, OldRemembered, TracedIntact, KeptClosed
<1>2. Init => ExactInv
  BY DEF Init, ExactInv
<1>3. IInv /\ ExactInv /\ [Next]_vars => ExactInv'
  BY ExactStep
<1>4. IInv /\ ExactInv /\ GarbageInv /\ [Next]_vars => GarbageInv'
  BY GarbageStep
<1>5. GarbageInv => MarkerMeetsLiveEdges
  BY IntactClosed
     DEF GarbageInv, GarbageSound, TracedIntact, MarkerMeetsLiveEdges, Targets
<1> QED BY <1>1, <1>2, <1>3, <1>4, <1>5, Inductive, PTL DEF Spec

=============================================================================
