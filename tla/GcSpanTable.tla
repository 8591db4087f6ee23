----------------------------- MODULE GcSpanTable -----------------------------
(***************************************************************************)
(* Logical span identifiers of crates/tachyon-gc: the table of spans       *)
(* (table/publication.rs), the coalesced list of vacant identifier ranges, *)
(* the retained empty Eden spans (eden.rs), the allocator's active spans   *)
(* and the committed-storage account (heap.rs, heap/allocation.rs), and    *)
(* how a collection's sweep (sweep.rs) gives spans back one by one,        *)
(* possibly stopping partway.                                              *)
(*                                                                         *)
(* Objects are abstracted to two facts of a small span: whether it holds   *)
(* an object and whether the allocator finds room in it.  Which spans keep *)
(* a survivor is an input of a sweep.  Storage is counted in spans.  The   *)
(* promotion age is the code's, 2: a Survivor span is due when next swept. *)
(***************************************************************************)
EXTENDS Integers, FiniteSets, SequencesExt

CONSTANTS
  MaxSpans,         \* MAX_LOGICAL_SPANS
  Classes,          \* small size classes
  LargeCounts,      \* span counts of the large objects requested
  Limit,            \* HeapLimit, in spans
  InitialCapacity,  \* tuning::INITIAL_FREE_RANGE_CAPACITY
  None              \* Option::None

ASSUME MaxSpansAssumption == MaxSpans \in Nat \ {0}
ASSUME LargeCountsAssumption == LargeCounts \subseteq Nat \ {0}
ASSUME LimitAssumption == Limit \in Nat
ASSUME CapacityAssumption == InitialCapacity \in Nat \ {0}
ASSUME NoneAssumption == None \notin Nat

Ids == 0..(MaxSpans - 1)
YoungKinds == {"Eden", "Survivor"}
SmallKinds == YoungKinds \cup {"Old"}

VARIABLES
  len,          \* entries.len()
  kind,         \* SpanEntry.kind, with the space of a small span
  class,        \* size class of a small span
  owner,        \* the owner of a large range, for each entry of the range
  used,         \* small spans with allocated_slots # 0
  full,         \* small spans without room for another object
  inPool,       \* SpanEntry.in_eden_pool
  ranges,       \* free_ranges: <<start, end>> pairs
  rangeCap,     \* free_ranges.capacity()
  young,        \* the young chain, head first
  pool,         \* EdenPool: one retained span per class
  activeEden, activeOld,
  activeYoung,  \* active_young_spans
  liveSpans,    \* live_spans
  committed,    \* committed_span_storage_bytes
  phase,        \* "run", "trim", "minor" or "major"
  then,         \* what follows a completed trim: "run" or "major"
  work,         \* spans still to be swept
  released,     \* storage released by the sweep in progress, not yet accounted
  promoted      \* promoted_active_old

entryVars == <<len, kind, class, owner, used, full, inPool>>
rangeVars == <<ranges, rangeCap>>
allocatorVars == <<pool, activeEden, activeOld>>
countVars == <<activeYoung, liveSpans, committed>>
sweepVars == <<phase, then, work, released, promoted>>
vars == <<len, kind, class, owner, used, full, inPool, ranges, rangeCap, young,
          pool, activeEden, activeOld, activeYoung, liveSpans, committed,
          phase, then, work, released, promoted>>

Init ==
  /\ len = 0
  /\ kind = [i \in Ids |-> "Vacant"]
  /\ class = [i \in Ids |-> None]
  /\ owner = [i \in Ids |-> None]
  /\ used = {} /\ full = {} /\ inPool = {}
  /\ ranges = <<>> /\ rangeCap = 0
  /\ young = <<>>
  /\ pool = [c \in Classes |-> None]
  /\ activeEden = [c \in Classes |-> None]
  /\ activeOld = [c \in Classes |-> None]
  /\ activeYoung = 0 /\ liveSpans = 0 /\ committed = 0
  /\ phase = "run" /\ then = "run" /\ work = <<>> /\ released = 0
  /\ promoted = [c \in Classes |-> None]

-----------------------------------------------------------------------------
(***************************************************************************)
(* Vacant identifier ranges.                                               *)
(***************************************************************************)

\* take_free_span_range: the last range that fits gives its tail.
Fits(r, n) == r[2] - r[1] + 1 >= n
FitPosition(n) == SelectLastInSeq(ranges, LAMBDA r : Fits(r, n))
TakenOwner(n) == ranges[FitPosition(n)][2] + 1 - n
RangesTaken(n) ==
  LET p == FitPosition(n) IN
  IF TakenOwner(n) = ranges[p][1] THEN RemoveAt(ranges, p)
  ELSE [ranges EXCEPT ![p] = <<@[1], TakenOwner(n) - 1>>]

\* insert_free_span: one identifier joins its neighbours or stands alone.
\* Mutant: only the left neighbour is joined.
InsertedLeftOnly(rs, i) ==
  LET p == Cardinality({k \in DOMAIN rs : rs[k][1] < i}) IN
  IF p > 0 /\ rs[p][2] + 1 = i THEN [rs EXCEPT ![p] = <<@[1], i>>]
  ELSE InsertAt(rs, p + 1, <<i, i>>)
Inserted(rs, i) ==
  LET p == Cardinality({k \in DOMAIN rs : rs[k][1] < i})
      joinsLeft == p > 0 /\ rs[p][2] + 1 = i
      joinsRight == p < Len(rs) /\ i + 1 = rs[p + 1][1]
  IN CASE joinsLeft /\ joinsRight ->
            RemoveAt([rs EXCEPT ![p] = <<@[1], rs[p + 1][2]>>], p + 1)
       [] joinsLeft /\ ~joinsRight -> [rs EXCEPT ![p] = <<@[1], i>>]
       [] ~joinsLeft /\ joinsRight -> [rs EXCEPT ![p + 1] = <<i, @[2]>>]
       [] OTHER -> InsertAt(rs, p + 1, <<i, i>>)
InsertedAll(rs, i, n) == FoldLeft(Inserted, rs, [k \in 1..n |-> i + k - 1])

\* reserve_free_range_if_needed: an adjacent range needs no new entry; when one is
\* needed try_reserve_exact may fail.
Adjacent(i) == \E k \in DOMAIN ranges : ranges[k][1] <= i + 1 /\ i <= ranges[k][2] + 1
NeedsGrowth(i) == ~Adjacent(i) /\ Len(ranges) + 1 > rangeCap
GrownCapacity ==
  LET step == IF rangeCap = 0 THEN InitialCapacity ELSE (rangeCap * 3 + 1) \div 2
      most == (MaxSpans + 1) \div 2
      wanted == IF step > Len(ranges) + 1 THEN step ELSE Len(ranges) + 1
  IN IF wanted > most THEN most ELSE wanted
CapacityAfter(i) == IF NeedsGrowth(i) THEN GrownCapacity ELSE rangeCap

-----------------------------------------------------------------------------
(***************************************************************************)
(* Publication.                                                            *)
(***************************************************************************)
CanAllocate(i) == kind[i] \in {"Eden", "Old"} /\ i \notin full
Active(c, space) == IF space = "Eden" THEN activeEden[c] ELSE activeOld[c]
HasRoom(c, space) == Active(c, space) # None /\ CanAllocate(Active(c, space))

\* install_reused or install_new; a vacant entry is preferred.
CanPlace(n) == FitPosition(n) # 0 \/ len + n <= MaxSpans
Placed(n) == IF FitPosition(n) # 0 THEN TakenOwner(n) ELSE len
PlaceRange(n) ==
  /\ CanPlace(n)
  /\ ranges' = IF FitPosition(n) # 0 THEN RangesTaken(n) ELSE ranges
  /\ len' = IF FitPosition(n) # 0 THEN len ELSE len + n
  /\ UNCHANGED rangeCap

\* link_young_span: at most once, at the head.
Linked(i) == IF i \in ToSet(young) THEN young ELSE <<i>> \o young

\* try_allocate_class with room in the active span; the object may fill it.
AllocateActive(c, space) ==
  LET i == Active(c, space) IN
  /\ phase = "run"
  /\ HasRoom(c, space)
  /\ used' = used \cup {i}
  /\ full' \in {full, full \cup {i}}
  /\ UNCHANGED <<len, kind, class, owner, inPool, rangeVars, young, allocatorVars,
                 countVars, sweepVars>>

\* What activate_pooled_eden insists on before it reattaches a pooled span.
Reattachable(i) == i \in inPool /\ kind[i] = "Eden" /\ i \notin used

\* allocate_slow: the retained Eden span of the class is reactivated.
ReusePooled(c) ==
  LET i == pool[c] IN
  /\ phase = "run"
  /\ ~HasRoom(c, "Eden")
  /\ i # None
  /\ Reattachable(i)
  /\ pool' = [pool EXCEPT ![c] = None]
  /\ inPool' = inPool \ {i}
  /\ activeYoung' = activeYoung + 1
  /\ young' = Linked(i)
  /\ activeEden' = [activeEden EXCEPT ![c] = i]
  /\ used' = used \cup {i}
  /\ UNCHANGED <<len, kind, class, owner, full, rangeVars, activeOld, liveSpans,
                 committed, sweepVars>>

\* allocate_slow and try_allocate_small: a new span under the heap limit.
NewSmall(c, space) ==
  LET i == Placed(1) IN
  /\ phase = "run"
  /\ ~HasRoom(c, space)
  /\ space = "Eden" => pool[c] = None
  /\ committed + 1 <= Limit
  /\ PlaceRange(1)
  /\ kind' = [kind EXCEPT ![i] = space]
  /\ class' = [class EXCEPT ![i] = c]
  /\ used' = used \cup {i}
  /\ inPool' = inPool \ {i}
  /\ liveSpans' = liveSpans + 1
  /\ committed' = committed + 1
  /\ IF space = "Eden"
     THEN /\ young' = Linked(i)
          /\ activeYoung' = activeYoung + 1
          /\ activeEden' = [activeEden EXCEPT ![c] = i]
          /\ UNCHANGED activeOld
     ELSE /\ activeOld' = [activeOld EXCEPT ![c] = i]
          /\ UNCHANGED <<young, activeYoung, activeEden>>
  /\ UNCHANGED <<owner, full, pool, sweepVars>>

\* A full active span is forgotten before the limit refuses a new one.
SmallRefused(c, space) ==
  /\ phase = "run"
  /\ ~HasRoom(c, space) /\ Active(c, space) # None
  /\ space = "Eden" => pool[c] = None
  /\ committed + 1 > Limit \/ ~CanPlace(1)
  /\ IF space = "Eden"
     THEN activeEden' = [activeEden EXCEPT ![c] = None] /\ UNCHANGED activeOld
     ELSE activeOld' = [activeOld EXCEPT ![c] = None] /\ UNCHANGED activeEden
  /\ UNCHANGED <<entryVars, rangeVars, young, pool, countVars, sweepVars>>

\* allocate_large and install_large.
NewLarge(n) ==
  LET i == Placed(n) IN
  /\ phase = "run"
  /\ committed + n <= Limit
  /\ PlaceRange(n)
  /\ kind' = [k \in Ids |-> IF k = i THEN "Owner"
                            ELSE IF k \in i+1 .. i+n-1 THEN "Continuation" ELSE kind[k]]
  /\ owner' = [k \in Ids |-> IF k \in i .. i+n-1 THEN i ELSE owner[k]]
  /\ liveSpans' = liveSpans + n
  /\ committed' = committed + n
  /\ UNCHANGED <<class, used, full, inPool, young, allocatorVars, activeYoung, sweepVars>>

-----------------------------------------------------------------------------
(***************************************************************************)
(* Release.                                                                *)
(***************************************************************************)

\* release of an empty small span: active_young_spans counts it unless pooled.
CountedYoung(i) == kind[i] \in YoungKinds /\ i \notin inPool
ReleaseSmall(i) ==
  /\ rangeCap' = CapacityAfter(i)
  /\ ranges' = Inserted(ranges, i)
  /\ kind' = [kind EXCEPT ![i] = "Vacant"]
  /\ class' = [class EXCEPT ![i] = None]
  /\ used' = used \ {i}
  /\ full' = full \ {i}
  /\ inPool' = inPool \ {i}
  /\ liveSpans' = liveSpans - 1
  /\ activeYoung' = activeYoung - (IF CountedYoung(i) THEN 1 ELSE 0)
  /\ UNCHANGED <<len, owner>>

\* release_unpublished_large: the complete range goes together.
RangeOf(i) == {k \in Ids : owner[k] = i}
ReleaseLarge(i) ==
  LET n == Cardinality(RangeOf(i)) IN
  /\ rangeCap' = CapacityAfter(i)
  /\ ranges' = InsertedAll(ranges, i, n)
  /\ kind' = [k \in Ids |-> IF k \in RangeOf(i) THEN "Vacant" ELSE kind[k]]
  /\ owner' = [k \in Ids |-> IF k \in RangeOf(i) THEN None ELSE owner[k]]
  /\ liveSpans' = liveSpans - n
  /\ UNCHANGED <<len, class, used, full, inPool, activeYoung>>

\* trim_eden_pool_storage, called by the host or as the first step of a major
\* collection.
BeginTrim(next) ==
  /\ phase = "run"
  /\ phase' = "trim"
  /\ then' = next
  /\ UNCHANGED <<entryVars, rangeVars, young, allocatorVars, countVars, work, released,
                 promoted>>

Trimmable(i) == kind[i] \in SmallKinds /\ i \notin used

TrimSpan(c) ==
  LET i == pool[c] IN
  /\ phase = "trim"
  /\ i # None
  /\ Trimmable(i)
  /\ ReleaseSmall(i)
  /\ pool' = [pool EXCEPT ![c] = None]
  /\ committed' = committed - 1
  /\ UNCHANGED <<young, activeEden, activeOld, sweepVars>>

\* FreeRangeAllocationFailed from prepare_release, or VacantSpan, LiveSpan or a
\* large-span error from release.
TrimFails(c) ==
  LET i == pool[c] IN
  /\ phase = "trim"
  /\ i # None
  /\ NeedsGrowth(i) \/ ~Trimmable(i)
  /\ phase' = "run" /\ then' = "run"
  /\ UNCHANGED <<entryVars, rangeVars, young, allocatorVars, countVars, work, released,
                 promoted>>

EndTrim ==
  /\ phase = "trim"
  /\ \A c \in Classes : pool[c] = None
  /\ then' = "run"
  /\ phase' = then
  /\ work' = IF then = "major"
             THEN SelectSeq([k \in 1..len |-> k - 1],
                            LAMBDA k : kind[k] \in SmallKinds \cup {"Owner"})
             ELSE <<>>
  /\ UNCHANGED <<entryVars, rangeVars, young, allocatorVars, countVars, released, promoted>>

-----------------------------------------------------------------------------
(***************************************************************************)
(* The major sweep pops owners off a LIFO worklist.                        *)
(***************************************************************************)
MajorPop(i) ==
  /\ phase = "major"
  /\ work # <<>> /\ i = Last(work)
  /\ work' = Front(work)
  /\ UNCHANGED <<phase, then, promoted, young, allocatorVars, committed>>

\* sweep_small, no survivor.
MajorReleaseSmall(i) ==
  /\ MajorPop(i)
  /\ kind[i] \in SmallKinds
  /\ ReleaseSmall(i)
  /\ released' = released + 1

\* sweep_large, no survivor.
MajorReleaseLarge(i) ==
  /\ MajorPop(i)
  /\ kind[i] = "Owner"
  /\ ReleaseLarge(i)
  /\ released' = released + Cardinality(RangeOf(i))

\* A survivor keeps the span; an Old free list may have been refilled.
MajorRetain(i) ==
  /\ MajorPop(i)
  /\ kind[i] = "Owner" \/ i \in used
  /\ full' \in IF kind[i] = "Old" THEN {full, full \ {i}} ELSE {full}
  /\ UNCHANGED <<len, kind, class, owner, used, inPool, rangeVars, activeYoung,
                 liveSpans, released>>

\* committed_span_storage_bytes is settled whether the sweep succeeded or not,
\* and clear_released_active_spans drops identifiers without a sweep target.
\* Mutants: a failed sweep is not settled; active spans are left alone.
SettledIfDone(done) == IF done THEN committed - released ELSE committed
Settled(done) == committed - released
KeptActiveAll(active) == active
KeptActive(active) ==
  [c \in Classes |-> IF active[c] # None /\ kind[active[c]] \in {"Vacant", "Continuation"}
                     THEN None ELSE active[c]]
EndMajorWith(done) ==
  /\ phase = "major"
  /\ phase' = "run"
  /\ work' = <<>>
  /\ released' = 0
  /\ committed' = Settled(done)
  /\ activeEden' = KeptActive(activeEden)
  /\ activeOld' = KeptActive(activeOld)
  /\ UNCHANGED <<entryVars, rangeVars, young, pool, activeYoung, liveSpans, then, promoted>>

EndMajor == work = <<>> /\ EndMajorWith(TRUE)

\* prepare_release fails before anything of the span is dropped.
MajorFails == work # <<>> /\ NeedsGrowth(Last(work)) /\ EndMajorWith(FALSE)

-----------------------------------------------------------------------------
(***************************************************************************)
(* The minor sweep follows the young chain.                                *)
(***************************************************************************)
BeginMinor ==
  /\ phase = "run"
  /\ phase' = "minor"
  /\ work' = young
  /\ promoted' = [c \in Classes |-> None]
  /\ UNCHANGED <<entryVars, rangeVars, young, allocatorVars, countVars, then, released>>

MinorPop(i) ==
  /\ phase = "minor"
  /\ work # <<>> /\ i = Head(work)
  /\ work' = Tail(work)
  /\ UNCHANGED <<phase, then, young, activeEden, activeOld, committed>>

\* young_space is None: released, promoted or reused since it was linked.
MinorSkip(i) ==
  /\ MinorPop(i)
  /\ kind[i] \notin YoungKinds
  /\ UNCHANGED <<entryVars, rangeVars, pool, activeYoung, liveSpans, released, promoted>>

\* No survivor and the pool has room: pool_empty_young.
MinorPool(i) ==
  LET c == class[i] IN
  /\ MinorPop(i)
  /\ kind[i] \in YoungKinds
  /\ pool[c] = None
  /\ pool' = [pool EXCEPT ![c] = i]
  /\ kind' = [kind EXCEPT ![i] = "Eden"]
  /\ used' = used \ {i}
  /\ full' = full \ {i}
  /\ inPool' = inPool \cup {i}
  /\ activeYoung' = activeYoung - 1
  /\ UNCHANGED <<len, class, owner, rangeVars, liveSpans, released, promoted>>

\* No survivor and the class is retained already: release.
MinorRelease(i) ==
  /\ MinorPop(i)
  /\ kind[i] \in YoungKinds
  /\ pool[class[i]] # None
  /\ ReleaseSmall(i)
  /\ released' = released + 1
  /\ UNCHANGED <<pool, promoted>>

\* advance_young_cohort with survivors: age, or promote when due or dense.
MinorAge(i) ==
  /\ MinorPop(i)
  /\ kind[i] = "Eden" /\ i \in used
  /\ kind' = [kind EXCEPT ![i] = "Survivor"]
  /\ UNCHANGED <<len, class, owner, used, full, inPool, rangeVars, pool, activeYoung,
                 liveSpans, released, promoted>>

MinorPromote(i) ==
  LET c == class[i] IN
  /\ MinorPop(i)
  /\ kind[i] \in YoungKinds /\ i \in used
  /\ kind' = [kind EXCEPT ![i] = "Old"]
  /\ full' \in {full, full \ {i}}
  /\ promoted' = IF i \in full' THEN promoted ELSE [promoted EXCEPT ![c] = i]
  /\ activeYoung' = activeYoung - 1
  /\ UNCHANGED <<len, class, owner, used, inPool, rangeVars, pool, liveSpans, released>>

\* repair_active_spans_after_minor, after success and failure alike.
RepairedOld ==
  [c \in Classes |->
     IF activeOld[c] # None /\ CanAllocate(activeOld[c]) THEN activeOld[c] ELSE promoted[c]]
EndMinorWith(done) ==
  /\ phase = "minor"
  /\ phase' = "run"
  /\ work' = <<>>
  /\ released' = 0
  /\ promoted' = [c \in Classes |-> None]
  /\ committed' = Settled(done)
  /\ activeEden' = [c \in Classes |-> None]
  /\ activeOld' = RepairedOld
  /\ UNCHANGED <<entryVars, rangeVars, pool, activeYoung, liveSpans, then>>

\* compact_young_spans relinks what is still young and not pooled.
StaysYoung(i) == kind[i] \in YoungKinds /\ i \notin inPool
EndMinor ==
  /\ work = <<>>
  /\ EndMinorWith(TRUE)
  /\ young' = Reverse(SelectSeq(young, StaysYoung))

\* prepare_release fails; the chain is not compacted.
MinorFails ==
  /\ work # <<>>
  /\ LET i == Head(work) IN
     kind[i] \in YoungKinds /\ pool[class[i]] # None /\ NeedsGrowth(i)
  /\ EndMinorWith(FALSE)
  /\ UNCHANGED young

-----------------------------------------------------------------------------
Allocate ==
  \/ \E c \in Classes, space \in {"Eden", "Old"} : AllocateActive(c, space)
  \/ \E c \in Classes : ReusePooled(c)
  \/ \E c \in Classes, space \in {"Eden", "Old"} : NewSmall(c, space)
  \/ \E c \in Classes, space \in {"Eden", "Old"} : SmallRefused(c, space)
  \/ \E n \in LargeCounts : NewLarge(n)

Trim ==
  \/ \E next \in {"run", "major"} : BeginTrim(next)
  \/ \E c \in Classes : TrimSpan(c)
  \/ \E c \in Classes : TrimFails(c)
  \/ EndTrim

Major ==
  \/ \E i \in Ids : MajorReleaseSmall(i)
  \/ \E i \in Ids : MajorReleaseLarge(i)
  \/ \E i \in Ids : MajorRetain(i)
  \/ EndMajor
  \/ MajorFails

Minor ==
  \/ BeginMinor
  \/ \E i \in Ids : MinorSkip(i)
  \/ \E i \in Ids : MinorPool(i)
  \/ \E i \in Ids : MinorRelease(i)
  \/ \E i \in Ids : MinorAge(i)
  \/ \E i \in Ids : MinorPromote(i)
  \/ EndMinor
  \/ MinorFails

Next == Allocate \/ Trim \/ Major \/ Minor

Spec == Init /\ [][Next]_vars

-----------------------------------------------------------------------------
Vacant == {i \in Ids : i < len /\ kind[i] = "Vacant"}

\* The range list is the vacant identifiers exactly, sorted, disjoint and fully
\* coalesced, after every take and every release of one identifier or of a large
\* range, and it never outgrows the capacity reserved before the payload was
\* dropped (take_free_span_range, insert_free_span, prepare_release).  A large
\* object's entries are one contiguous range that begins at its owner, and no
\* continuation is left without one: interior references resolve.
RangesExact ==
  /\ Vacant = UNION {ranges[k][1] .. ranges[k][2] : k \in DOMAIN ranges}
  /\ \A k \in DOMAIN ranges : ranges[k][1] <= ranges[k][2]
  /\ \A k \in 1..(Len(ranges) - 1) : ranges[k][2] + 1 < ranges[k + 1][1]
  /\ Len(ranges) <= rangeCap
  /\ \A i \in Ids :
       /\ kind[i] = "Continuation" => owner[i] # None /\ kind[owner[i]] = "Owner"
       /\ kind[i] = "Owner" =>
            /\ owner[i] = i
            /\ \A k \in RangeOf(i) : i..k \subseteq RangeOf(i)
       /\ owner[i] # None <=> kind[i] \in {"Owner", "Continuation"}

\* "A full-major collection fails before sweep or leaves any partial sweep exactly
\* accounted", and a minor one too: the committed account is the storage still
\* installed plus what the sweep in progress has released.  active_young_spans,
\* which drives the young-storage trigger, counts the Eden and Survivor spans that
\* are not retained empty: its checked_sub expectations hold.
AccountsExact ==
  /\ committed = liveSpans + released
  /\ liveSpans = Cardinality({i \in Ids : kind[i] # "Vacant"})
  /\ committed <= Limit
  /\ activeYoung = Cardinality({i \in Ids : kind[i] \in YoungKinds /\ i \notin inPool})

\* The spans the allocator bumps into without looking at their space: young objects
\* go to attached Eden spans of their class, old ones to Old spans.
ActiveSpansFit ==
  phase = "run" => \A c \in Classes :
    /\ activeEden[c] # None =>
         LET i == activeEden[c] IN kind[i] = "Eden" /\ class[i] = c /\ i \notin inPool
    /\ activeOld[c] # None =>
         LET i == activeOld[c] IN kind[i] = "Old" /\ class[i] = c

=============================================================================
