------------------------ MODULE PersistentRootsProofs ------------------------
(***************************************************************************)
(* Machine-checked proofs about PersistentRoots, for every quota, every    *)
(* generation width and every set of references.                           *)
(***************************************************************************)
EXTENDS PersistentRoots, TLAPS

\* What ties the history of issued handles to the slab: an outstanding handle
\* owns its slot at the slot's current generation; a released one is behind it
\* or names a retired slot; slots at or beyond len were never used.
History ==
  /\ \A h \in outstanding :
       /\ h[1] < len
       /\ state[h[1]] = "Occupied"
       /\ generation[h[1]] = h[2]
       /\ reference[h[1]] = h[3]
  /\ \A h \in released :
       /\ h[1] < len
       /\ h[2] < generation[h[1]] \/ state[h[1]] = "Retired"
  /\ \A s \in Slots : state[s] = "Occupied" => reference[s] \in Refs
  /\ \A s \in Slots : s >= len => state[s] = "Absent"
  /\ \A s \in Slots : state[s] = "Retired" => generation[s] = MaxGeneration

IInv == TypeOK /\ History /\ FreeListSound /\ FreeListComplete

\* The empty slab satisfies the invariant.
LEMMA InitIInv == Init => IInv
<1> SUFFICES ASSUME Init PROVE IInv
  OBVIOUS
<1> USE MaxEntriesAssumption, MaxGenerationAssumption, NoneAssumption
<1>1. TypeOK
  BY DEF Init, TypeOK, Slots, Generations, States
<1>2. History /\ FreeListSound /\ FreeListComplete
  BY DEF Init, History, FreeListSound, FreeListComplete, Free, Slots
<1>3. QED
  BY <1>1, <1>2 DEF IInv

\* Popping the free list keeps the invariant.
LEMMA InsertReusedIInv ==
  ASSUME IInv, NEW r \in Refs, InsertReused(r)
  PROVE  IInv'
<1> USE MaxEntriesAssumption, MaxGenerationAssumption, NoneAssumption
<1>1. /\ freeHead \in Free /\ freeHead \in Slots /\ state[freeHead] = "Free"
      /\ freeHead < len
      /\ state' = [state EXCEPT ![freeHead] = "Occupied"]
      /\ reference' = [reference EXCEPT ![freeHead] = r]
      /\ freeHead' = next[freeHead]
      /\ UNCHANGED <<len, generation, next, released>>
  BY DEF IInv, FreeListSound, InsertReused, PoppedHead, Free, History, TypeOK, Slots
<1>2. TypeOK'
  BY <1>1, SMTT(30) DEF IInv, TypeOK, InsertReused, States, Slots, Generations
<1>3. History'
  <2>1. ASSUME NEW h \in outstanding'
        PROVE  /\ h[1] < len'
               /\ state'[h[1]] = "Occupied"
               /\ generation'[h[1]] = h[2]
               /\ reference'[h[1]] = h[3]
    <3>1. CASE h \in outstanding
      <4>1. h[1] # freeHead
        BY <1>1, <3>1 DEF IInv, History
      <4>2. QED
        BY <1>1, <3>1, <4>1 DEF IInv, History, TypeOK
    <3>2. CASE h = <<freeHead, generation[freeHead], r>>
      BY <1>1, <3>2 DEF IInv, TypeOK
    <3>3. QED
      BY <2>1, <3>1, <3>2 DEF InsertReused
  <2>2. ASSUME NEW h \in released'
        PROVE  h[1] < len' /\ (h[2] < generation'[h[1]] \/ state'[h[1]] = "Retired")
    BY <1>1 DEF IInv, History, TypeOK
  <2>3. \A s \in Slots : state'[s] = "Occupied" => reference'[s] \in Refs
    BY <1>1 DEF IInv, History, TypeOK
  <2>4. /\ \A s \in Slots : s >= len' => state'[s] = "Absent"
        /\ \A s \in Slots : state'[s] = "Retired" => generation'[s] = MaxGeneration
    BY <1>1 DEF IInv, History, TypeOK, Slots
  <2>5. QED
    BY <2>1, <2>2, <2>3, <2>4 DEF History
<1>4. Free' = Free \ {freeHead}
  BY <1>1 DEF Free, IInv, TypeOK
<1>5. FreeListSound'
  BY <1>1, <1>4 DEF IInv, FreeListSound
<1>6. FreeListComplete'
  <2> SUFFICES ASSUME NEW S \in SUBSET Slots,
                      freeHead' # None => freeHead' \in S,
                      \A s \in S \cap Free' : next'[s] # None => next'[s] \in S
               PROVE  Free' \subseteq S
    BY DEF FreeListComplete
  <2> DEFINE T == S \cup {freeHead}
  <2>1. T \in SUBSET Slots
    BY <1>1
  <2>2. \A s \in T \cap Free : next[s] # None => next[s] \in T
    BY <1>1, <1>4
  <2>3. Free \subseteq T
    BY <2>1, <2>2 DEF IInv, FreeListComplete
  <2>4. QED
    BY <2>3, <1>4
<1>7. QED
  BY <1>2, <1>3, <1>5, <1>6 DEF IInv

\* Appending an entry keeps the invariant.
LEMMA InsertNewIInv ==
  ASSUME IInv, NEW r \in Refs, InsertNew(r)
  PROVE  IInv'
<1> USE MaxEntriesAssumption, MaxGenerationAssumption, NoneAssumption
<1>1. /\ len \in Slots /\ state[len] = "Absent"
      /\ freeHead = None
      /\ len' = len + 1
      /\ state' = [state EXCEPT ![len] = "Occupied"]
      /\ generation' = [generation EXCEPT ![len] = 1]
      /\ reference' = [reference EXCEPT ![len] = r]
      /\ UNCHANGED <<next, freeHead, released>>
  BY DEF IInv, InsertNew, History, TypeOK, Slots
<1>2. TypeOK'
  BY <1>1 DEF IInv, TypeOK, InsertNew, States, Slots, Generations
<1>3. History'
  <2>1. ASSUME NEW h \in outstanding'
        PROVE  /\ h[1] < len'
               /\ state'[h[1]] = "Occupied"
               /\ generation'[h[1]] = h[2]
               /\ reference'[h[1]] = h[3]
    <3>1. CASE h \in outstanding
      BY <1>1, <3>1 DEF IInv, History, TypeOK
    <3>2. CASE h = <<len, 1, r>>
      BY <1>1, <3>2 DEF IInv, TypeOK
    <3>3. QED
      BY <2>1, <3>1, <3>2 DEF InsertNew
  <2>2. ASSUME NEW h \in released'
        PROVE  h[1] < len' /\ (h[2] < generation'[h[1]] \/ state'[h[1]] = "Retired")
    BY <1>1 DEF IInv, History, TypeOK, Slots
  <2>3. QED
    BY <1>1, <2>1, <2>2 DEF IInv, History, TypeOK, Slots
<1>4. Free' = Free
  BY <1>1 DEF Free, IInv, TypeOK
<1>5. FreeListSound' /\ FreeListComplete'
  BY <1>1, <1>4 DEF IInv, FreeListSound, FreeListComplete
<1>6. QED
  BY <1>2, <1>3, <1>5 DEF IInv

\* Releasing a handle keeps the invariant, also when the slot is retired.
LEMMA ReleaseIInv ==
  ASSUME IInv, NEW id \in Presented, NEW t \in Types, Release(id, t)
  PROVE  IInv'
<1> USE MaxEntriesAssumption, MaxGenerationAssumption, NoneAssumption
<1> DEFINE slot == id[1]
<1>1. /\ slot \in Slots /\ slot < len /\ id[2] \in Generations
      /\ generation[slot] = id[2] /\ state[slot] = "Occupied"
      /\ slot \notin Free /\ slot # freeHead
      /\ UNCHANGED <<len, reference>>
      /\ released' = released \cup {<<slot, id[2]>>}
      /\ outstanding' = outstanding \ {<<slot, id[2], reference[slot]>>}
  <2>1. slot \in Slots /\ id[2] \in Generations
    BY DEF Presented, IInv, TypeOK
  <2>2. slot < len /\ generation[slot] = id[2] /\ state[slot] = "Occupied"
    BY DEF Release, Resolve
  <2>3. slot \notin Free /\ slot # freeHead
    BY <2>1, <2>2 DEF Free, IInv, FreeListSound, Slots
  <2>4. QED
    BY <2>1, <2>2, <2>3 DEF Release
<1>2. \A h \in outstanding' : h \in outstanding /\ h[1] # slot
  BY <1>1 DEF IInv, History, TypeOK
<1>3. CASE CanAdvance(slot)
  <2>1. /\ generation' = [generation EXCEPT ![slot] = generation[slot] + 1]
        /\ state' = [state EXCEPT ![slot] = "Free"]
        /\ next' = [next EXCEPT ![slot] = freeHead]
        /\ freeHead' = slot
    BY <1>3 DEF Release, Advanced, PushedLink
  <2>2. generation[slot] + 1 \in Generations
    BY <1>1, <1>3 DEF CanAdvance, Generations
  <2>3. TypeOK'
    BY <1>1, <2>1, <2>2 DEF IInv, TypeOK, States
  <2>4. History'
    <3>1. \A h \in outstanding' :
               /\ h[1] < len'
               /\ state'[h[1]] = "Occupied"
               /\ generation'[h[1]] = h[2]
               /\ reference'[h[1]] = h[3]
      BY <1>1, <1>2, <2>1 DEF IInv, History, TypeOK
    <3>2. ASSUME NEW h \in released'
          PROVE  h[1] < len' /\ (h[2] < generation'[h[1]] \/ state'[h[1]] = "Retired")
      <4>1. CASE h \in released
        BY <1>1, <2>1, <2>2, <4>1 DEF IInv, History, TypeOK, Generations
      <4>2. CASE h = <<slot, id[2]>>
        BY <1>1, <2>1, <2>2, <4>2 DEF IInv, TypeOK, Generations
      <4>3. QED
        BY <1>1, <4>1, <4>2
    <3>3. QED
      BY <1>1, <2>1, <3>1, <3>2 DEF IInv, History, TypeOK, Slots
  <2>5. Free' = Free \cup {slot}
    BY <1>1, <2>1 DEF Free, IInv, TypeOK
  <2>6. FreeListSound'
    BY <1>1, <2>1, <2>5 DEF IInv, FreeListSound, TypeOK, Free
  <2>7. FreeListComplete'
    <3> SUFFICES ASSUME NEW S \in SUBSET Slots,
                        freeHead' # None => freeHead' \in S,
                        \A s \in S \cap Free' : next'[s] # None => next'[s] \in S
                 PROVE  Free' \subseteq S
      BY DEF FreeListComplete
    <3>1. slot \in S /\ slot # None
      BY <1>1, <2>1 DEF Slots
    <3>2. freeHead # None => freeHead \in S
      BY <1>1, <2>1, <2>5, <3>1 DEF IInv, TypeOK
    <3>3. \A s \in S \cap Free : next[s] # None => next[s] \in S
      BY <1>1, <2>1, <2>5 DEF IInv, TypeOK
    <3>4. Free \subseteq S
      BY <3>2, <3>3 DEF IInv, FreeListComplete
    <3>5. QED
      BY <3>1, <3>4, <2>5
  <2>8. QED
    BY <2>3, <2>4, <2>6, <2>7 DEF IInv
<1>4. CASE ~CanAdvance(slot)
  <2>1. /\ state' = [state EXCEPT ![slot] = "Retired"]
        /\ UNCHANGED <<generation, next, freeHead>>
    BY <1>4 DEF Release
  <2>2. generation[slot] = MaxGeneration
    BY <1>1, <1>4 DEF CanAdvance, Generations, IInv, TypeOK
  <2>3. TypeOK'
    BY <1>1, <2>1 DEF IInv, TypeOK, States
  <2>4. History'
    BY <1>1, <1>2, <2>1, <2>2 DEF IInv, History, TypeOK, Slots
  <2>5. Free' = Free
    BY <1>1, <2>1 DEF Free, IInv, TypeOK
  <2>6. FreeListSound' /\ FreeListComplete'
    BY <2>1, <2>5 DEF IInv, FreeListSound, FreeListComplete
  <2>7. QED
    BY <2>3, <2>4, <2>6 DEF IInv
<1>5. QED
  BY <1>3, <1>4

\* The inductive invariant holds of every behaviour of the slab.
THEOREM Inductive == Spec => []IInv
<1>1. IInv /\ [Next]_vars => IInv'
  <2> SUFFICES ASSUME IInv, [Next]_vars PROVE IInv'
    OBVIOUS
  <2>1. ASSUME NEW r \in Refs, Insert(r) PROVE IInv'
    BY <2>1, InsertReusedIInv, InsertNewIInv DEF Insert
  <2>2. ASSUME NEW id \in Presented, NEW t \in Types, Clone(id, t) PROVE IInv'
    <3>1. Resolve(id[1], id[2], t) \in Refs
      <4>1. id[1] \in Slots
        BY DEF Presented, IInv, TypeOK
      <4>2. QED
        BY <2>2, <4>1 DEF Clone, Resolve, IInv, History
    <3>2. QED
      BY <2>2, <3>1, <2>1 DEF Clone
  <2>3. ASSUME NEW id \in Presented, NEW t \in Types, Release(id, t) PROVE IInv'
    BY <2>3, ReleaseIInv
  <2>4. CASE UNCHANGED vars
    <3>1. TypeOK' /\ History'
      BY <2>4 DEF vars, IInv, TypeOK, History
    <3>2. Free' = Free
      BY <2>4 DEF vars, Free
    <3>3. FreeListSound' /\ FreeListComplete'
      BY <2>4, <3>2 DEF vars, IInv, FreeListSound, FreeListComplete
    <3>4. QED
      BY <3>1, <3>3 DEF IInv
  <2>5. QED
    BY <2>1, <2>2, <2>3, <2>4 DEF Next
<1>2. QED
  BY InitIInv, <1>1, PTL DEF Spec

\* An unreleased handle always resolves to the object it was issued for, and
\* the collector traces that object (persistent.rs: try_insert, resolve).
THEOREM HandleSafety == Spec => []OutstandingResolve
<1>1. IInv => OutstandingResolve
  <2> SUFFICES ASSUME IInv, NEW h \in outstanding
               PROVE  /\ Resolve(h[1], h[2], TypeOf[h[3]]) = h[3]
                      /\ h[3] \in TracedRoots
    BY DEF OutstandingResolve
  <2>1. h[1] \in Slots /\ h[3] \in Refs
    BY DEF IInv, TypeOK
  <2>2. QED
    BY <2>1 DEF IInv, History, Resolve, TracedRoots
<1>2. QED
  BY <1>1, Inductive, PTL

\* A released handle never resolves again, at any generation width: release
\* advances the generation or retires the slot.
THEOREM NoStaleHandle == Spec => []ReleasedStayDead
<1>1. IInv => ReleasedStayDead
  <2> SUFFICES ASSUME IInv, NEW h \in released, NEW t \in Types
               PROVE  Resolve(h[1], h[2], t) = None
    BY DEF ReleasedStayDead
  <2>1. h[1] \in Slots /\ h[2] \in Generations
    BY DEF IInv, TypeOK
  <2>2. generation[h[1]] # h[2] \/ state[h[1]] # "Occupied"
    BY <2>1 DEF IInv, History, TypeOK, Generations
  <2>3. QED
    BY <2>2 DEF Resolve
<1>2. QED
  BY <1>1, Inductive, PTL

\* The free list never loses a vacant slot and never offers an occupied one.
THEOREM FreeListCorrect == Spec => [](FreeListSound /\ FreeListComplete)
<1>1. IInv => FreeListSound /\ FreeListComplete
  BY DEF IInv
<1>2. QED
  BY <1>1, Inductive, PTL

=============================================================================
