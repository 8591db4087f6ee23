--------------------------- MODULE PersistentRoots ---------------------------
(***************************************************************************)
(* The isolate-owned slab of long-lived roots                              *)
(* (crates/tachyon-gc/src/persistent.rs).  A host handle is a pair         *)
(* (slot, generation); the slab reuses slots through an intrusive LIFO     *)
(* free list and retires a slot whose generation counter is exhausted.     *)
(*                                                                         *)
(* outstanding and released are history variables: the handles the slab    *)
(* has issued that are not yet released, and the released ones.  No        *)
(* action reads them except to choose which handle a host presents.        *)
(***************************************************************************)
EXTENDS Integers

CONSTANTS
  Refs,           \* heap references a host may root
  Types,          \* registered type descriptors
  TypeOf,         \* the descriptor each reference's header names
  MaxEntries,     \* the slab quota max_entries
  MaxGeneration,  \* the largest NonZeroU32 generation
  None            \* Option::None

ASSUME MaxEntriesAssumption == MaxEntries \in Nat
ASSUME MaxGenerationAssumption == MaxGeneration \in Nat \ {0}
ASSUME TypeOfAssumption == TypeOf \in [Refs -> Types]
ASSUME NoneAssumption == None \notin Int /\ None \notin Refs

Slots == 0..(MaxEntries - 1)
Generations == 1..MaxGeneration
States == {"Absent", "Occupied", "Free", "Retired"}

VARIABLES
  len,           \* entries.len(); slots at or beyond it are "Absent"
  state,         \* RootEntry.state
  generation,    \* RootEntry.generation
  reference,     \* RootState::Occupied.reference
  next,          \* RootState::Free.next
  freeHead,      \* free_head
  outstanding,   \* history: <<slot, generation, reference>> still owned by a host
  released       \* history: <<slot, generation>> given back

table == <<len, state, generation, reference, next, freeHead>>
vars == <<len, state, generation, reference, next, freeHead, outstanding, released>>

Free == {s \in Slots : state[s] = "Free"}

(***************************************************************************)
(* resolve(id, expected_type): the reference, or None for every error      *)
(* (UnknownSlot, StaleGeneration, VacantSlot, RetiredSlot, TypeMismatch).  *)
(***************************************************************************)
Resolve(slot, gen, expected) ==
  IF /\ slot < len
     /\ generation[slot] = gen
     /\ state[slot] = "Occupied"
     /\ TypeOf[reference[slot]] = expected
  THEN reference[slot]
  ELSE None

\* Roots the collector traces: every occupied entry.
TracedRoots == {reference[s] : s \in {t \in Slots : state[t] = "Occupied"}}

Init ==
  /\ len = 0
  /\ state = [s \in Slots |-> "Absent"]
  /\ generation = [s \in Slots |-> 1]
  /\ reference = [s \in Slots |-> None]
  /\ next = [s \in Slots |-> None]
  /\ freeHead = None
  /\ outstanding = {}
  /\ released = {}

\* free_head after a pop: the popped entry's link.
\* Mutant: the head is not advanced.
PoppedHeadKept == freeHead
PoppedHead == next[freeHead]

\* try_insert, the branch that pops the free list.
InsertReused(r) ==
  /\ freeHead # None
  /\ freeHead' = PoppedHead
  /\ state' = [state EXCEPT ![freeHead] = "Occupied"]
  /\ reference' = [reference EXCEPT ![freeHead] = r]
  /\ outstanding' = outstanding \cup {<<freeHead, generation[freeHead], r>>}
  /\ UNCHANGED <<len, generation, next, released>>

\* try_insert, the branch that appends after reserve_entry.  EntryLimitExceeded
\* and AllocationFailed return before any write, so a failed call is a stutter.
InsertNew(r) ==
  /\ freeHead = None
  /\ len < MaxEntries
  /\ len' = len + 1
  /\ state' = [state EXCEPT ![len] = "Occupied"]
  /\ generation' = [generation EXCEPT ![len] = 1]
  /\ reference' = [reference EXCEPT ![len] = r]
  /\ outstanding' = outstanding \cup {<<len, 1, r>>}
  /\ UNCHANGED <<next, freeHead, released>>

Insert(r) == InsertReused(r) \/ InsertNew(r)

\* A host presents a handle it was issued, live or stale.
Presented == {<<h[1], h[2]>> : h \in outstanding} \cup released

\* clone_persistent_root: resolve, then an independently releasable slot.
Clone(id, expected) ==
  /\ Resolve(id[1], id[2], expected) # None
  /\ Insert(Resolve(id[1], id[2], expected))

\* generation.checked_add(1): the overflow test and the new generation.
\* Mutant: the generation is not advanced.
CanAdvance(slot) == generation[slot] + 1 <= MaxGeneration
AdvancedStuck(slot) == generation[slot]
Advanced(slot) == generation[slot] + 1

\* The link a released slot stores.  Mutant: the old head is forgotten.
PushedLinkLost == None
PushedLink == freeHead

\* release: the generation advances and the slot joins the free list, or the
\* slot is retired when the generation would overflow.
Release(id, expected) ==
  LET slot == id[1] IN
  /\ Resolve(slot, id[2], expected) # None
  /\ IF CanAdvance(slot)
     THEN /\ generation' = [generation EXCEPT ![slot] = Advanced(slot)]
          /\ state' = [state EXCEPT ![slot] = "Free"]
          /\ next' = [next EXCEPT ![slot] = PushedLink]
          /\ freeHead' = slot
     ELSE /\ state' = [state EXCEPT ![slot] = "Retired"]
          /\ UNCHANGED <<generation, next, freeHead>>
  /\ outstanding' = outstanding \ {<<slot, id[2], reference[slot]>>}
  /\ released' = released \cup {<<slot, id[2]>>}
  /\ UNCHANGED <<len, reference>>

Next ==
  \/ \E r \in Refs : Insert(r)
  \/ \E id \in Presented, t \in Types : Clone(id, t)
  \/ \E id \in Presented, t \in Types : Release(id, t)

Spec == Init /\ [][Next]_vars

-----------------------------------------------------------------------------
TypeOK ==
  /\ len \in Nat /\ len <= MaxEntries
  /\ state \in [Slots -> States]
  /\ generation \in [Slots -> Generations]
  /\ reference \in [Slots -> Refs \cup {None}]
  /\ next \in [Slots -> Slots \cup {None}]
  /\ freeHead \in Slots \cup {None}
  /\ outstanding \subseteq Slots \X Generations \X Refs
  /\ released \subseteq Slots \X Generations

\* A handle that was issued and not released keeps resolving to exactly the
\* object it was created for, and that object is among the traced roots, for
\* every interleaving of inserts, clones and releases of other handles
\* (try_insert, try_clone, release).
OutstandingResolve ==
  \A h \in outstanding :
    /\ Resolve(h[1], h[2], TypeOf[h[3]]) = h[3]
    /\ h[3] \in TracedRoots

\* A released handle never resolves again, under any descriptor, although its
\* slot is reused: the generation check of entry() defeats ABA, and a slot at
\* the last generation is retired instead of wrapping.
ReleasedStayDead ==
  \A h \in released : \A t \in Types : Resolve(h[1], h[2], t) = None

\* The intrusive list reached from free_head holds every vacant slot: no slot
\* is leaked by an insert that pops or a release that pushes (the least set
\* holding free_head and closed under next contains Free).
FreeListComplete ==
  \A S \in SUBSET Slots :
    (/\ freeHead # None => freeHead \in S
     /\ \A s \in S \cap Free : next[s] # None => next[s] \in S)
    => Free \subseteq S

\* Every link of the list names a vacant slot, no two links name the same one,
\* and none names the head: try_insert's unreachable!("free-list head always
\* points at a free persistent slot") is unreachable.
FreeListSound ==
  /\ freeHead # None => freeHead \in Free
  /\ \A s \in Free : next[s] # None => next[s] \in Free /\ next[s] # freeHead
  /\ \A s, t \in Free : next[s] = next[t] /\ next[s] # None => s = t

=============================================================================
