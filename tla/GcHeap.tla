-------------------------------- MODULE GcHeap --------------------------------
(***************************************************************************)
(* The generational, non-moving, stop-the-world collector of               *)
(* crates/tachyon-gc together with its single mutator.                     *)
(*                                                                         *)
(* An object is its slot (a RawHeapRef names a span and an offset, and the *)
(* collector never moves it).  Slots belong to spans; a span is Eden,      *)
(* Survivor or Old as a whole and is promoted as a whole.  Old objects     *)
(* that may point into young spans are remembered by dirty cards, and the  *)
(* spans holding a dirty card are on an intrusive chain.  A large object   *)
(* is the only slot of its span: always Old, with one card standing for    *)
(* its owner-level remembered flag.                                        *)
(*                                                                         *)
(* Two kinds of outgoing edge are kept: strong fields, and weak slots that *)
(* WeakRef.deref can follow and that marking clears.  Ephemerons and       *)
(* finalization cells are the subject of another module.                   *)
(*                                                                         *)
(* A span that is neither young nor old is "Vacant": its storage is either *)
(* released or retained empty in the Eden pool (module GcSpanTable tells   *)
(* them apart).  The gray queue is a set: the order in which it is drained *)
(* is left open.  Which span of a size class an allocation uses is left    *)
(* open too.                                                               *)
(***************************************************************************)
EXTENDS Integers, FiniteSets

CONSTANTS
  Refs,            \* object slots
  Spans,           \* span identifiers
  Cards,           \* 512-byte cards, each within one span
  SpanOf,          \* RawHeapRef::span_id
  CardOf,          \* the card an object begins on
  LargeSpans,      \* spans that can only hold a large object
  PromotionAge,    \* tuning::YOUNG_PROMOTION_AGE
  EarlyPercent,    \* tuning::EARLY_PROMOTION_OCCUPANCY_PERCENT
  MaxFields,       \* bound on the strong fields and weak slots of one object
  WeakHolders,     \* slots of objects that may have a weak slot
  MaxRoots         \* bound on the references the mutator holds

ASSUME SpanOfAssumption == SpanOf \in [Refs -> Spans]
ASSUME CardOfAssumption ==
  /\ CardOf \in [Refs -> Cards]
  /\ \A a, b \in Refs : CardOf[a] = CardOf[b] => SpanOf[a] = SpanOf[b]
ASSUME LargeAssumption == LargeSpans \subseteq Spans
ASSUME PromotionAgeAssumption == PromotionAge \in Nat
ASSUME BoundsAssumption == EarlyPercent \in Nat /\ MaxFields \in Nat /\ MaxRoots \in Nat

VARIABLES
  \* Span table
  space,         \* SpanSpace of each span, or "Vacant"
  age,           \* the age of a Survivor span
  inYoung,       \* SpanEntry.in_young_set: membership of the young chain
  inRemembered,  \* SpanEntry.in_remembered_set
  dirty,         \* dirty cards (CardBitmap, or LargeSpanMetadata.remembered)
  bumped,        \* slots below their span's bump cursor
  free,          \* slots on their Old span's free list
  \* Objects
  allocated,     \* AllocationBitmap
  edges,         \* strong fields of each object
  weak,          \* weak slots of each object
  \* Mutator
  roots,         \* everything RootComposition traces
  pending,       \* strong fields of a value being allocated (AllocationRoots)
  \* Collector
  phase, kind, resume,
  marked,        \* marks of the current epoch
  gray,          \* gray queue, and remembered sources still to be scanned
  owners,        \* weak owners whose slots are still to be cleared
  todo,          \* spans still to be swept
  torn           \* a major sweep stopped partway and none has completed since

tableVars == <<space, age, inYoung, inRemembered, dirty, bumped, free>>
objectVars == <<allocated, edges, weak>>
mutatorVars == <<roots, pending>>
collectorVars == <<phase, kind, resume, marked, gray, owners, todo, torn>>
vars == <<space, age, inYoung, inRemembered, dirty, bumped, free,
          allocated, edges, weak, roots, pending,
          phase, kind, resume, marked, gray, owners, todo, torn>>

SlotsOf(s) == {r \in Refs : SpanOf[r] = s}
CardsOf(s) == {CardOf[r] : r \in SlotsOf(s)}

\* reference_space, and young_space of a span.
IsYoungSpan(s) == space[s] \in {"Eden", "Survivor"}
Young(r) == IsYoungSpan(SpanOf[r])
Old(r) == space[SpanOf[r]] = "Old"

Targets(r) == edges[r] \cup weak[r]

Init ==
  /\ space = [s \in Spans |-> "Vacant"]
  /\ age = [s \in Spans |-> 0]
  /\ inYoung = {} /\ inRemembered = {} /\ dirty = {}
  /\ bumped = {} /\ free = {}
  /\ allocated = {}
  /\ edges = [r \in Refs |-> {}]
  /\ weak = [r \in Refs |-> {}]
  /\ roots = {} /\ pending = {}
  /\ phase = "run" /\ kind = "minor" /\ resume = "run"
  /\ marked = {} /\ gray = {} /\ owners = {} /\ todo = {} /\ torn = FALSE

-----------------------------------------------------------------------------
(***************************************************************************)
(* Mutator.  It runs only while no collection is in progress.              *)
(***************************************************************************)

\* remember_old_to_young: an Old source that stores a young target dirties its
\* card, and a card that was clean links the span.
\* Mutant: no barrier.
RemembersNever(src, tgt) == FALSE
Remembers(src, tgt) == Old(src) /\ Young(tgt)
Barrier(src, tgt) ==
  IF Remembers(src, tgt) /\ CardOf[src] \notin dirty
  THEN /\ dirty' = dirty \cup {CardOf[src]}
       /\ inRemembered' = inRemembered \cup {SpanOf[src]}
  ELSE UNCHANGED <<dirty, inRemembered>>

\* A field store of a managed value, followed by Heap::write_barrier.
Store(src, tgt) ==
  /\ phase = "run"
  /\ Cardinality(Targets(src) \cup {tgt}) <= MaxFields
  /\ edges' = [edges EXCEPT ![src] = edges[src] \cup {tgt}]
  /\ Barrier(src, tgt)
  /\ UNCHANGED <<space, age, inYoung, bumped, free, allocated, weak, roots,
                 pending, collectorVars>>

\* A weak slot store; TraceBarrierPublisher publishes weak targets too.
StoreWeak(src, tgt) ==
  /\ phase = "run"
  /\ src \in WeakHolders
  /\ Cardinality(Targets(src) \cup {tgt}) <= MaxFields
  /\ weak' = [weak EXCEPT ![src] = weak[src] \cup {tgt}]
  /\ Barrier(src, tgt)
  /\ UNCHANGED <<space, age, inYoung, bumped, free, allocated, edges, roots,
                 pending, collectorVars>>

\* A field is overwritten by a value that is not a reference.
Erase(src, tgt) ==
  /\ phase = "run"
  /\ edges' = [edges EXCEPT ![src] = edges[src] \ {tgt}]
  /\ UNCHANGED <<tableVars, allocated, weak, mutatorVars, collectorVars>>

\* Reading a field, or dereferencing a weak slot, roots what was read.
Load(src, tgt) ==
  /\ phase = "run"
  /\ Cardinality(roots \cup {tgt}) <= MaxRoots
  /\ roots' = roots \cup {tgt}
  /\ UNCHANGED <<tableVars, objectVars, pending, collectorVars>>

DropRoot(r) ==
  /\ phase = "run"
  /\ roots' = roots \ {r}
  /\ UNCHANGED <<tableVars, objectVars, pending, collectorVars>>

(***************************************************************************)
(* Allocation (heap/allocation.rs).  The value is moved into the request:  *)
(* the mutator may have kept no other path to what its fields name.        *)
(***************************************************************************)
BeginAllocate(fields, kept) ==
  /\ phase = "run"
  /\ Cardinality(kept) < MaxRoots
  /\ pending' = fields
  /\ roots' = kept
  /\ phase' = "alloc"
  /\ UNCHANGED <<tableVars, objectVars, kind, resume, marked, gray,
                 owners, todo, torn>>

\* The trigger asked for no collection, or the one it asked for succeeded.
MayPublish == phase \in {"alloc", "publish"}

\* The new object holds the pending fields and is returned to the mutator.
Publish(r) ==
  /\ allocated' = allocated \cup {r}
  /\ edges' = [edges EXCEPT ![r] = pending]
  /\ weak' = [weak EXCEPT ![r] = {}]
  /\ roots' = roots \cup {r}
  /\ pending' = {}
  /\ phase' = "run"
  /\ UNCHANGED <<kind, resume, marked, gray, owners, todo, torn>>

\* try_allocate_in_span, the Old case: initialisation dirties the card.
DirtyNewOld(r) == {CardOf[r]}

\* take_allocation_slot in a young span: the bump cursor only.
AllocateEden(r) ==
  LET s == SpanOf[r] IN
  /\ MayPublish
  /\ space[s] = "Eden"
  /\ r \notin bumped
  /\ bumped' = bumped \cup {r}
  /\ Publish(r)
  /\ UNCHANGED <<space, age, inYoung, inRemembered, dirty, free>>

\* take_allocation_slot in an Old span: the free list, then the bump cursor.
AllocateOld(r) ==
  LET s == SpanOf[r] IN
  /\ MayPublish
  /\ space[s] = "Old" /\ s \notin LargeSpans
  /\ \/ r \in free
     \/ free \cap SlotsOf(s) = {} /\ r \notin bumped
  /\ free' = free \ {r}
  /\ bumped' = bumped \cup {r}
  /\ Publish(r)
  /\ dirty' = dirty \cup DirtyNewOld(r)
  /\ inRemembered' = IF DirtyNewOld(r) \subseteq dirty THEN inRemembered
                     ELSE inRemembered \cup {s}
  /\ UNCHANGED <<space, age, inYoung>>

\* allocate_slow: a vacant span becomes Eden, with fresh metadata, and is
\* linked on the young chain.
AllocateNewEden(r) ==
  LET s == SpanOf[r] IN
  /\ MayPublish
  /\ space[s] = "Vacant" /\ s \notin LargeSpans
  /\ space' = [space EXCEPT ![s] = "Eden"]
  /\ age' = [age EXCEPT ![s] = 0]
  /\ inYoung' = inYoung \cup {s}
  /\ dirty' = dirty \ CardsOf(s)
  /\ bumped' = (bumped \ SlotsOf(s)) \cup {r}
  /\ free' = free \ SlotsOf(s)
  /\ Publish(r)
  /\ UNCHANGED inRemembered

\* allocate_slow in Old space, and allocate_large: install_large marks the
\* owner remembered and links it.
AllocateNewOld(r) ==
  LET s == SpanOf[r] IN
  /\ MayPublish
  /\ space[s] = "Vacant"
  /\ space' = [space EXCEPT ![s] = "Old"]
  /\ age' = [age EXCEPT ![s] = 0]
  /\ dirty' = (dirty \ CardsOf(s)) \cup DirtyNewOld(r)
  /\ inRemembered' = IF DirtyNewOld(r) = {} THEN inRemembered
                     ELSE inRemembered \cup {s}
  /\ bumped' = (bumped \ SlotsOf(s)) \cup {r}
  /\ free' = free \ SlotsOf(s)
  /\ Publish(r)
  /\ UNCHANGED inYoung

\* A heap limit or storage failure: the value is dropped.
AllocateFails ==
  /\ MayPublish
  /\ pending' = {}
  /\ phase' = "run"
  /\ UNCHANGED <<tableVars, objectVars, roots, kind, resume, marked, gray, owners,
                 todo, torn>>

-----------------------------------------------------------------------------
(***************************************************************************)
(* Marking (mark.rs).  A new epoch makes every earlier mark white.         *)
(***************************************************************************)

\* AllocationRoots: the subsystem roots and the pending value.
\* Mutant: the pending value is not traced.
ExactRootsWithoutPending == roots
ExactRoots == roots \cup pending

\* next_dirty_old_reference and remembered_large_reference over the chain.
DirtySources ==
  {r \in allocated : Old(r) /\ SpanOf[r] \in inRemembered /\ CardOf[r] \in dirty}

\* enqueue: a minor collection ignores Old targets.
Marks(targets) == IF kind = "minor" THEN {t \in targets : Young(t)} ELSE targets

Start(k) ==
  /\ phase \in {"run", "alloc"}
  /\ resume' = IF phase = "run" THEN "run" ELSE "publish"
  /\ phase' = "mark"
  /\ kind' = k
  /\ UNCHANGED <<tableVars, objectVars, mutatorVars, owners, todo, torn>>

StartMajor ==
  /\ Start("major")
  /\ marked' = ExactRoots
  /\ gray' = ExactRoots

StartMinor ==
  /\ Start("minor")
  /\ marked' = {r \in ExactRoots : Young(r)}
  /\ gray' = {r \in ExactRoots : Young(r)} \cup DirtySources

\* The edges a payload's trace reports to visit_strong.
\* Mutant: weak slots are reported as strong.
TracedWeakToo(r) == Targets(r)
Traced(r) == edges[r]

\* mark_reference answers Inserted or AlreadyMarked, and only the former is pushed.
\* Mutant: every target is pushed.
EnqueuedAlways(r) == Marks(Traced(r))
Enqueued(r) == Marks(Traced(r)) \ marked

\* drain and trace_source: one object's strong edges are enqueued.
Trace(r) ==
  /\ phase = "mark"
  /\ r \in gray
  /\ Traced(r) \subseteq allocated
  /\ marked' = marked \cup Marks(Traced(r))
  /\ gray' = (gray \ {r}) \cup Enqueued(r)
  /\ UNCHANGED <<tableVars, objectVars, mutatorVars, phase, kind, resume, owners,
                 todo, torn>>

\* Marks of a finished or abandoned epoch are white in every later one, so the
\* model forgets them when the epoch ends.
ForgetEpoch == marked' = {} /\ kind' = "minor" /\ resume' = "run"

\* A full or unallocatable gray queue or weak-owner list, or an edge that names
\* an unallocated slot: the epoch is abandoned, nothing was swept.
AbandonCollection ==
  /\ phase' = "run"
  /\ pending' = {}
  /\ gray' = {}
  /\ owners' = {}
  /\ todo' = {}
  /\ ForgetEpoch
  /\ UNCHANGED roots

MarkFails ==
  /\ phase = "mark"
  /\ gray # {}
  /\ AbandonCollection
  /\ UNCHANGED <<tableVars, objectVars, torn>>

\* Every object traced in this epoch that holds a weak slot.
WeakOwners ==
  {r \in marked \cup (IF kind = "minor" THEN DirtySources ELSE {}) : weak[r] # {}}

BeginClearWeak ==
  /\ phase = "mark"
  /\ gray = {}
  /\ phase' = "weak"
  /\ owners' = WeakOwners
  /\ UNCHANGED <<tableVars, objectVars, mutatorVars, kind, resume, marked, gray,
                 todo, torn>>

\* reference_live: an Old target is live for a minor collection.
\* Mutant: only marks count.
LiveTargetMarked(t) == t \in marked
LiveTarget(t) == t \in marked \/ (kind = "minor" /\ Old(t))

\* close_weak, ClearWeak phase, for one owner.
ClearWeak(r) ==
  /\ phase = "weak"
  /\ r \in owners
  /\ weak[r] \subseteq allocated
  /\ weak' = [weak EXCEPT ![r] = {t \in weak[r] : LiveTarget(t)}]
  /\ owners' = owners \ {r}
  /\ UNCHANGED <<tableVars, allocated, edges, mutatorVars, phase, kind, resume,
                 marked, gray, todo, torn>>

\* An unallocated weak target, or a finalization queue at its limit after the
\* last owner was cleared.
ClearWeakFails ==
  /\ phase = "weak"
  /\ owners = {} \/ \E r \in owners : ~(weak[r] \subseteq allocated)
  /\ AbandonCollection
  /\ UNCHANGED <<tableVars, objectVars, torn>>

\* trace_source(rebuilding): an unallocated target counts as young.
HasYoung(r) == \E t \in Targets(r) : t \notin allocated \/ Young(t)

\* promotion_due_to_age and should_promote_early.
DueByAge(s) ==
  \/ space[s] = "Eden" /\ PromotionAge <= 1
  \/ space[s] = "Survivor" /\ age[s] + 1 >= PromotionAge
Dense(s, live) ==
  /\ live # {}
  /\ Cardinality(live) * 100 >= Cardinality(SlotsOf(s)) * EarlyPercent
Due(s) == DueByAge(s) \/ Dense(s, marked \cap SlotsOf(s))

\* prepare_promotions considers the spans of the young chain.
\* Mutant: early promotion is not foreseen.
PromotableByAge == {s \in inYoung : IsYoungSpan(s) /\ DueByAge(s)}
Promotable == {s \in inYoung : IsYoungSpan(s) /\ Due(s)}

\* rebuild_remembered and prepare_promotions: the chain's Old spans and the
\* spans about to be promoted get exact cards; clean spans leave the chain.
RebuiltCards == {CardOf[r] : r \in {x \in DirtySources : HasYoung(x)}}
PromotionCards ==
  {CardOf[r] : r \in {x \in marked : SpanOf[x] \in Promotable /\ HasYoung(x)}}
KeptRemembered ==
  {s \in inRemembered : space[s] = "Old" /\ RebuiltCards \cap CardsOf(s) # {}}

BeginMinorSweep ==
  /\ phase = "weak" /\ kind = "minor" /\ owners = {}
  /\ dirty' = (dirty \ UNION {CardsOf(s) : s \in
                 {x \in inRemembered : space[x] = "Old"} \cup Promotable})
              \cup RebuiltCards \cup PromotionCards
  /\ inRemembered' = KeptRemembered
  /\ phase' = "sweep"
  /\ todo' = {s \in inYoung : IsYoungSpan(s)}
  /\ UNCHANGED <<space, age, inYoung, bumped, free, objectVars, mutatorVars,
                 kind, resume, marked, gray, owners, torn>>

BeginMajorSweep ==
  /\ phase = "weak" /\ kind = "major" /\ owners = {}
  /\ phase' = "sweep"
  /\ todo' = {s \in Spans : space[s] # "Vacant"}
  /\ UNCHANGED <<tableVars, objectVars, mutatorVars, kind, resume, marked, gray,
                 owners, torn>>

-----------------------------------------------------------------------------
(***************************************************************************)
(* Sweeping (sweep.rs), one span at a time.                                *)
(***************************************************************************)
LiveIn(s) == allocated \cap marked \cap SlotsOf(s)
Dead(s) == (allocated \cap SlotsOf(s)) \ marked

\* drop_small / sweep_large: payloads of white slots are dropped.
Reclaim(s) ==
  /\ allocated' = allocated \ Dead(s)
  /\ edges' = [r \in Refs |-> IF r \in Dead(s) THEN {} ELSE edges[r]]
  /\ weak' = [r \in Refs |-> IF r \in Dead(s) THEN {} ELSE weak[r]]

\* release, or pool_empty_young: the span leaves the heap.
Vacate(s) ==
  /\ space' = [space EXCEPT ![s] = "Vacant"]
  /\ age' = [age EXCEPT ![s] = 0]
  /\ dirty' = dirty \ CardsOf(s)
  /\ bumped' = bumped \ SlotsOf(s)
  /\ free' = free \ SlotsOf(s)

\* rebuild_old_free_list from the allocation bits below the bump cursor.
\* Mutant: the bits are not consulted.
FreeAfterAll(s) == (free \ SlotsOf(s)) \cup (bumped \cap SlotsOf(s))
FreeAfter(s) == (free \ SlotsOf(s)) \cup ((bumped \cap SlotsOf(s)) \ LiveIn(s))

SweepStep(k, s) ==
  /\ phase = "sweep" /\ kind = k
  /\ s \in todo
  /\ todo' = todo \ {s}
  /\ Reclaim(s)
  /\ UNCHANGED <<inYoung, mutatorVars, phase, kind, resume, marked, gray, owners,
                 torn>>

SweepEmpty(k, s) ==
  /\ SweepStep(k, s)
  /\ LiveIn(s) = {}
  /\ Vacate(s)
  /\ UNCHANGED inRemembered

\* advance_young_cohort, the promoting case: prepared cards become active.
Promote(s) ==
  /\ SweepStep("minor", s)
  /\ LiveIn(s) # {}
  /\ DueByAge(s) \/ Dense(s, LiveIn(s))
  /\ space' = [space EXCEPT ![s] = "Old"]
  /\ age' = [age EXCEPT ![s] = 0]
  /\ inRemembered' = IF dirty \cap CardsOf(s) # {} THEN inRemembered \cup {s}
                     ELSE inRemembered
  /\ free' = FreeAfter(s)
  /\ UNCHANGED <<dirty, bumped>>

\* advance_young_cohort, the ageing case.
Age(s) ==
  /\ SweepStep("minor", s)
  /\ LiveIn(s) # {}
  /\ ~(DueByAge(s) \/ Dense(s, LiveIn(s)))
  /\ space' = [space EXCEPT ![s] = "Survivor"]
  /\ age' = [age EXCEPT ![s] = IF space[s] = "Eden" THEN 1 ELSE age[s] + 1]
  /\ UNCHANGED <<inRemembered, dirty, bumped, free>>

\* sweep_small and sweep_large with survivors.
SweepMajor(s) ==
  /\ SweepStep("major", s)
  /\ LiveIn(s) # {}
  /\ free' = IF space[s] = "Old" THEN FreeAfter(s) ELSE free
  /\ UNCHANGED <<space, age, inRemembered, dirty, bumped>>

\* prepare_release fails before any payload of the span is dropped; spans
\* swept earlier stay swept and the young chain is not compacted.
SweepFails(s) ==
  /\ phase = "sweep"
  /\ s \in todo
  /\ LiveIn(s) = {}
  /\ AbandonCollection
  /\ torn' = (torn \/ kind = "major")
  /\ UNCHANGED <<tableVars, objectVars>>

\* compact_young_spans.  Mutant: Survivor spans are unlinked too.
CompactedYoungEden == {s \in inYoung : space[s] = "Eden"}
CompactedYoung == {s \in inYoung : IsYoungSpan(s)}

\* The chain is compacted, the trigger records success and the caller resumes.
FinishMinor ==
  /\ phase = "sweep" /\ kind = "minor" /\ todo = {}
  /\ inYoung' = CompactedYoung
  /\ phase' = resume
  /\ ForgetEpoch
  /\ UNCHANGED <<space, age, inRemembered, dirty, bumped, free, objectVars,
                 mutatorVars, gray, owners, todo, torn>>

FinishMajor ==
  /\ phase = "sweep" /\ kind = "major" /\ todo = {}
  /\ phase' = resume
  /\ torn' = FALSE
  /\ ForgetEpoch
  /\ UNCHANGED <<tableVars, objectVars, mutatorVars, gray, owners, todo>>

-----------------------------------------------------------------------------
Mutate ==
  \/ \E src, tgt \in roots : Store(src, tgt) \/ StoreWeak(src, tgt)
  \/ \E src \in roots : \E tgt \in edges[src] : Erase(src, tgt)
  \/ \E src \in roots : \E tgt \in Targets(src) : Load(src, tgt)
  \/ \E r \in roots : DropRoot(r)

Allocate ==
  \/ \E fields \in {f \in SUBSET roots : Cardinality(f) <= MaxFields} :
       \E kept \in {roots, roots \ fields} : BeginAllocate(fields, kept)
  \/ \E r \in Refs : AllocateEden(r)
  \/ \E r \in Refs : AllocateOld(r)
  \/ \E r \in Refs : AllocateNewEden(r)
  \/ \E r \in Refs : AllocateNewOld(r)
  \/ AllocateFails

Collect == StartMajor \/ StartMinor

Mark ==
  \/ \E r \in Refs : Trace(r)
  \/ MarkFails
  \/ BeginClearWeak
  \/ \E r \in Refs : ClearWeak(r)
  \/ ClearWeakFails
  \/ BeginMinorSweep
  \/ BeginMajorSweep

Sweep ==
  \/ \E s \in Spans : SweepEmpty("minor", s)
  \/ \E s \in Spans : SweepEmpty("major", s)
  \/ \E s \in Spans : Promote(s)
  \/ \E s \in Spans : Age(s)
  \/ \E s \in Spans : SweepMajor(s)
  \/ \E s \in Spans : SweepFails(s)
  \/ FinishMinor
  \/ FinishMajor

Next == Mutate \/ Allocate \/ Collect \/ Mark \/ Sweep

Spec == Init /\ [][Next]_vars

\* collect_major and collect_minor run to completion on the caller's thread, so
\* a collection that was begun keeps taking steps.
FairSpec == Spec /\ WF_vars(Mark \/ Sweep)

-----------------------------------------------------------------------------
TypeOK ==
  /\ space \in [Spans -> {"Vacant", "Eden", "Survivor", "Old"}]
  /\ age \in [Spans -> {n \in Nat : n = 0 \/ n < PromotionAge}]
  /\ inYoung \subseteq Spans /\ inRemembered \subseteq Spans
  /\ dirty \subseteq Cards
  /\ bumped \subseteq Refs /\ free \subseteq Refs
  /\ allocated \subseteq Refs
  /\ edges \in [Refs -> SUBSET Refs]
  /\ weak \in [Refs -> SUBSET Refs]
  /\ roots \subseteq Refs /\ pending \subseteq Refs
  /\ phase \in {"run", "alloc", "publish", "mark", "weak", "sweep"}
  /\ kind \in {"minor", "major"} /\ resume \in {"run", "publish"}
  /\ marked \subseteq Refs /\ gray \subseteq Refs
  /\ owners \subseteq Refs /\ todo \subseteq Spans
  /\ torn \in BOOLEAN

\* The least set that holds what the mutator holds and is closed under the given
\* edges.  Reachable follows weak slots too, because WeakRef.deref does.
LeastClosed(out) ==
  {r \in Refs : \A S \in SUBSET Refs :
     roots \cup pending \subseteq S /\ (\A x \in S : out[x] \subseteq S) => r \in S}
Reachable == LeastClosed([r \in Refs |-> Targets(r)])
StronglyReachable == LeastClosed(edges)

\* Whatever the mutator can still get at, through any chain of fields and weak
\* dereferences or through the value it is allocating, is an allocated object:
\* neither collection, nor one abandoned while marking or partway through its
\* sweep, reclaims it (mark.rs, sweep.rs, AllocationRoots).
NoDangling == Reachable \subseteq allocated

\* A minor collection would find every young object that only an Old object
\* refers to: a reachable Old object with a young target is on a dirty card of
\* a span on the remembered chain, at every step of the mutator, of the card
\* rebuild and of whole-span promotion.
RememberedComplete ==
  \A r \in Reachable :
    Old(r) /\ (\E t \in Targets(r) : Young(t))
      => CardOf[r] \in dirty /\ SpanOf[r] \in inRemembered

\* Every Eden or Survivor span is on the young chain, also when a released span
\* that was never unlinked is reused, so that a minor sweep visits it
\* (link_young_span, compact_young_spans).
YoungChainComplete == \A s \in Spans : IsYoungSpan(s) => s \in inYoung

\* The allocator never hands out a live slot: commit_allocation's assertion
\* "allocator cannot initialize an already-live slot".
FreeSlotsDead ==
  /\ free \cap allocated = {}
  /\ allocated \subseteq bumped

\* A completed major collection has reclaimed exactly the objects that were not
\* strongly reachable from the exact roots: weak slots, earlier epochs and
\* remembered cards keep nothing alive.
MajorExact ==
  phase = "sweep" /\ kind = "major" /\ todo = {} => allocated = StronglyReachable

\* Unless a major sweep was torn, the marker never meets an edge to an
\* unallocated slot, in the garbage that dirty cards make it scan either, so a
\* minor collection cannot fail with MarkError::InvalidReference.
MarkerMeetsLiveEdges ==
  phase = "mark" /\ ~torn => \A r \in gray : edges[r] \subseteq allocated

\* A collection that has begun returns to its caller, cyclic garbage and cyclic
\* live data notwithstanding: the gray queue drains because enqueue pushes an
\* object only when mark_reference has just inserted its mark.
CollectionEnds ==
  phase \in {"mark", "weak", "sweep"} ~> phase \in {"run", "publish"}

\* The collector clears a weak slot only when its target is not strongly
\* reachable, Old targets of a minor collection included (close_weak).
WeakClearedOnlyIfDead ==
  [][\A r \in allocated' : phase = "weak" =>
       (weak[r] \ weak'[r]) \cap StronglyReachable = {}]_vars

=============================================================================
