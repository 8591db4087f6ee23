---------------------------- MODULE GcWeakProofs ----------------------------
(***************************************************************************)
(* Machine-checked exactness of the weak closure and safety of what a      *)
(* collection does to weak slots, ephemerons and registrations, for every  *)
(* heap and every bound on roots and pending cleanups.                     *)
(***************************************************************************)
EXTENDS GcWeak, FiniteSetTheorems, TLAPS

Phases == {"run", "mark", "pass", "drain", "clear", "enqueue"}
Or(S) == S \cup {None}

ObjectsType ==
  /\ roles \in Instances
  /\ allocated \subseteq Objects /\ IsFiniteSet(allocated)
  /\ old \subseteq allocated
  /\ edges \in [Objects -> SUBSET Objects]
  /\ key \in [Objects -> Option] /\ value \in [Objects -> Option]
  /\ slot \in [Objects -> Option]
  /\ target \in [Objects -> Option] /\ held \in [Objects -> Option]
  /\ pending \in Seq(Objects \X Option) /\ jobs \in Seq(Objects \X Option)

CollectorType ==
  /\ phase \in Phases /\ kind \in {"minor", "major"}
  /\ marked \subseteq allocated /\ gray \subseteq allocated
  /\ owners \in Seq(Objects)
  /\ index \in Nat \ {0}
  /\ snapshot \in [owners : Nat, marks : Nat]

TypeOK == ObjectsType /\ CollectorType

\* Every cleanup record of q names members of S.
QueueWithin(q, S) == \A i \in 1..Len(q) : q[i][1] \in S /\ q[i][2] \in Or(S)

\* S holds everything the host holds.
HostWithin(S) ==
  /\ roots \subseteq S /\ kept \subseteq S
  /\ QueueWithin(pending, S) /\ QueueWithin(jobs, S)

\* The strong fields of o, and all its fields, name members of S.
Strong(o, S) == edges[o] \subseteq S /\ held[o] \in Or(S)
Points(o, S) ==
  /\ Strong(o, S)
  /\ key[o] \in Or(S) /\ value[o] \in Or(S) /\ slot[o] \in Or(S) /\ target[o] \in Or(S)

\* No reference dangles, held by the host or by an object, live or not; free
\* slots are blank; an entry without a key has no value.
HeapOK ==
  /\ HostWithin(allocated)
  /\ \A o \in allocated : Points(o, allocated)
  /\ \A o \in Objects \ allocated : Points(o, {})
  /\ \A o \in Objects : key[o] = None => value[o] = None

\* What the collection under way has found to survive it.
Survivors == {o \in allocated : LiveTarget(o)}
Listed(o) == \E i \in 1..Len(owners) : owners[i] = o

\* The tri-colour invariant with weak owners: a black object has its strong
\* targets marked and is listed if it has a conditional edge, or it is an old
\* object that a minor collection need not look at.
MarkOK ==
  /\ HostWithin(Survivors)
  /\ gray \subseteq Survivors
  /\ \A i \in 1..Len(owners) : owners[i] \in Survivors
  /\ \A o \in Survivors \ gray :
       /\ Strong(o, Survivors)
       /\ IsWeakOwner(o) => Listed(o) \/ (kind = "minor" /\ Points(o, old))
  /\ phase \in {"clear", "enqueue"} => gray = {}

\* With the marks M the ephemeron of o holds its value.
LiveIn(k, M) == k \in M \/ (kind = "minor" /\ k \in old)
Honoured(o, M) == key[o] # None /\ LiveIn(key[o], M) => value[o] \in Or(Survivors)

\* A pass has honoured the owners it went over with the marks it began with,
\* which are known only by their number.
Passed == IF phase = "pass" THEN index - 1 ELSE snapshot.owners
PassOK ==
  phase \in {"pass", "drain"} =>
    /\ snapshot.owners <= Len(owners)
    /\ Passed <= snapshot.owners
    /\ phase = "pass" => /\ snapshot.owners = Len(owners)
                         /\ gray # {} => \E i \in 1..(index - 1) : key[owners[i]] # None
    /\ \E M \in SUBSET marked :
         /\ Cardinality(M) = snapshot.marks
         /\ \A i \in 1..Passed : Honoured(owners[i], M)

\* After the closure every owner is honoured, and the owners already visited have
\* lost what names a dead object.
Visited(i) == phase = "enqueue" \/ i < index
ClearOK ==
  phase \in {"clear", "enqueue"} =>
    \A i \in 1..Len(owners) :
      /\ Honoured(owners[i], marked)
      /\ Visited(i) => slot[owners[i]] \in Or(Survivors) /\ key[owners[i]] \in Or(Survivors)
      /\ phase = "enqueue" /\ i < index => target[owners[i]] \in Or(Survivors)

\* No cell is queued twice, and one that was queued is not active.
QueueOK ==
  /\ \A i, j \in 1..Len(jobs \o pending) :
       (jobs \o pending)[i][1] = (jobs \o pending)[j][1] => i = j
  /\ \A i \in 1..Len(jobs \o pending) : (jobs \o pending)[i][1] \in finalized
  /\ \A o \in Objects : target[o] # None => o \notin finalized

\* Until slots are cleared a major collection marks live objects only.
ExactOK ==
  kind = "major" /\ (phase \in {"mark", "pass", "drain"} \/ (phase = "clear" /\ index = 1))
    => marked \subseteq Live

CollectionOK == phase # "run" => MarkOK /\ PassOK /\ ClearOK /\ ExactOK

IInv == TypeOK /\ HeapOK /\ QueueOK /\ CollectionOK

-----------------------------------------------------------------------------
(***************************************************************************)
(* What the host holds, and what is live.                                  *)
(***************************************************************************)
LEMMA NoneApart == ASSUME roles \in Instances PROVE None \notin Objects
  BY InstancesAssumption DEF Objects

LEMMA ReferencedIn ==
  ASSUME NEW q \in Seq(Objects \X Option), NEW S
  PROVE  Referenced(q) \subseteq S <=> QueueWithin(q, S)
<1>1. ToSet(q) = {q[i] : i \in 1..Len(q)}
  BY DEF ToSet
<1>2. \A i \in 1..Len(q) : q[i] \in Objects \X Option
  OBVIOUS
<1>3. Referenced(q) = UNION {{e[1]} \cup ({e[2]} \ {None}) : e \in ToSet(q)}
  BY DEF Referenced, Some
<1>4. ASSUME Referenced(q) \subseteq S PROVE QueueWithin(q, S)
  <2> SUFFICES ASSUME NEW i \in 1..Len(q) PROVE q[i][1] \in S /\ q[i][2] \in Or(S)
    BY DEF QueueWithin
  <2>1. q[i] \in ToSet(q)
    BY <1>1
  <2>2. {q[i][1]} \cup ({q[i][2]} \ {None}) \subseteq Referenced(q)
    BY <2>1, <1>3
  <2> QED
    BY <2>2, <1>4 DEF Or
<1>5. ASSUME QueueWithin(q, S) PROVE Referenced(q) \subseteq S
  BY <1>5, <1>1, <1>3 DEF QueueWithin, Or
<1> QED
  BY <1>4, <1>5

LEMMA QueueJoin ==
  ASSUME NEW p \in Seq(Objects \X Option), NEW q \in Seq(Objects \X Option), NEW S
  PROVE  QueueWithin(p \o q, S) <=> QueueWithin(p, S) /\ QueueWithin(q, S)
<1>1. Len(p \o q) = Len(p) + Len(q) /\ Len(p) \in Nat /\ Len(q) \in Nat
  OBVIOUS
<1>2. \A i \in 1..Len(p) : (p \o q)[i] = p[i]
  OBVIOUS
<1>3. \A i \in 1..Len(q) : (p \o q)[Len(p) + i] = q[i]
  OBVIOUS
<1>4. ASSUME QueueWithin(p \o q, S) PROVE QueueWithin(p, S) /\ QueueWithin(q, S)
  <2>1. \A i \in 1..Len(p) : i \in 1..Len(p \o q)
    BY <1>1
  <2>2. \A i \in 1..Len(q) : Len(p) + i \in 1..Len(p \o q)
    BY <1>1
  <2> QED
    BY <1>2, <1>3, <1>4, <2>1, <2>2 DEF QueueWithin
<1>5. ASSUME QueueWithin(p, S), QueueWithin(q, S) PROVE QueueWithin(p \o q, S)
  <2> SUFFICES ASSUME NEW i \in 1..Len(p \o q)
               PROVE  (p \o q)[i][1] \in S /\ (p \o q)[i][2] \in Or(S)
    BY DEF QueueWithin
  <2>1. CASE i <= Len(p)
    <3>1. i \in 1..Len(p)
      BY <2>1, <1>1
    <3> QED
      BY <3>1, <1>2, <1>5 DEF QueueWithin
  <2>2. CASE i > Len(p)
    <3> DEFINE j == i - Len(p)
    <3>1. j \in 1..Len(q) /\ i = Len(p) + j
      BY <2>2, <1>1
    <3> HIDE DEF j
    <3>2. (p \o q)[i] = q[j]
      BY <3>1, <1>3
    <3> QED
      BY <3>1, <3>2, <1>5 DEF QueueWithin
  <2> QED
    BY <2>1, <2>2, <1>1
<1> QED
  BY <1>4, <1>5

LEMMA HostIn ==
  ASSUME ObjectsType, NEW S
  PROVE  HeldByHost \subseteq S <=> HostWithin(S)
<1>1. pending \in Seq(Objects \X Option) /\ jobs \in Seq(Objects \X Option)
  BY DEF ObjectsType
<1>2. pending \o jobs \in Seq(Objects \X Option)
  BY <1>1
<1>3. Referenced(pending \o jobs) \subseteq S <=> QueueWithin(pending \o jobs, S)
  BY <1>2, ReferencedIn
<1>4. QueueWithin(pending \o jobs, S) <=> QueueWithin(pending, S) /\ QueueWithin(jobs, S)
  BY <1>1, QueueJoin
<1> QED
  BY <1>3, <1>4 DEF HeldByHost, HostWithin

LEMMA ExactRootsIn ==
  ASSUME ObjectsType, NEW S
  PROVE  ExactRoots \subseteq S <=> HostWithin(S)
<1>1. pending \in Seq(Objects \X Option) /\ jobs \in Seq(Objects \X Option)
  BY DEF ObjectsType
<1>2. Referenced(pending) \subseteq S <=> QueueWithin(pending, S)
  BY <1>1, ReferencedIn
<1>3. Referenced(jobs) \subseteq S <=> QueueWithin(jobs, S)
  BY <1>1, ReferencedIn
<1> QED
  BY <1>2, <1>3 DEF ExactRoots, PendingRoots, HostWithin

\* Live is contained in every retained set that holds what the host holds, and is
\* itself one.
LEMMA LiveLeast ==
  ASSUME NEW T \in SUBSET Objects, HeldByHost \subseteq T, Retains(T)
  PROVE  Live \subseteq T
<1>1. HeldByHost \cup (T \ HeldByHost) = T
  OBVIOUS
<1>2. T \ HeldByHost \in {S \in SUBSET (Objects \ HeldByHost) : Retains(HeldByHost \cup S)}
  BY <1>1
<1> QED
  BY <1>2 DEF Live

LEMMA LiveRetained ==
  ASSUME ObjectsType, HeldByHost \subseteq Objects
  PROVE  HeldByHost \subseteq Live /\ Retains(Live) /\ Live \subseteq Objects
<1> DEFINE closed == {S \in SUBSET (Objects \ HeldByHost) : Retains(HeldByHost \cup S)}
<1>1. Live = HeldByHost \cup {o \in Objects : \A S \in closed : o \in S}
  BY DEF Live
<1>2. \A S \in closed : Live \subseteq HeldByHost \cup S
  BY <1>1
<1>3. \A o \in Objects : (\A S \in closed : o \in HeldByHost \cup S) => o \in Live
  BY <1>1
<1>4. Live \subseteq Objects /\ HeldByHost \subseteq Live
  BY <1>1
<1>5. \A S \in closed : Retains(HeldByHost \cup S)
  OBVIOUS
<1>6. None \notin Objects
  BY NoneApart DEF ObjectsType
<1> HIDE DEF closed
<1>7. ASSUME NEW o \in Live
      PROVE  /\ edges[o] \subseteq Live
             /\ held[o] \in Live \cup {None}
             /\ key[o] \in Live => value[o] \in Live \cup {None}
  <2>1. \A S \in closed : /\ edges[o] \subseteq HeldByHost \cup S
                          /\ held[o] \in HeldByHost \cup S \cup {None}
                          /\ key[o] \in HeldByHost \cup S
                               => value[o] \in HeldByHost \cup S \cup {None}
    BY <1>2, <1>5 DEF Retains
  <2>2. edges[o] \subseteq Objects /\ held[o] \in Objects \cup {None}
        /\ value[o] \in Objects \cup {None}
    BY <1>4 DEF ObjectsType, Option
  <2>3. edges[o] \subseteq Live
    BY <2>1, <2>2, <1>3
  <2>4. held[o] \in Live \cup {None}
    BY <2>1, <2>2, <1>3
  <2>5. ASSUME key[o] \in Live PROVE value[o] \in Live \cup {None}
    BY <2>1, <2>2, <2>5, <1>2, <1>3
  <2> QED
    BY <2>3, <2>4, <2>5
<1> QED
  BY <1>4, <1>7 DEF Retains

-----------------------------------------------------------------------------
LEMMA InitOK == Init => IInv
<1> SUFFICES ASSUME Init PROVE IInv
  OBVIOUS
<1> USE DEF Init
<1>1. TypeOK
  <2>1. ObjectsType
    BY FS_EmptySet DEF ObjectsType, Empty, Option
  <2>2. CollectorType
    BY DEF CollectorType, Phases
  <2> QED
    BY <2>1, <2>2 DEF TypeOK
<1>2. HeapOK
  BY DEF HeapOK, HostWithin, QueueWithin, Points, Strong, Or, Empty
<1>3. QueueOK
  BY DEF QueueOK, Empty
<1> QED
  BY <1>1, <1>2, <1>3 DEF IInv, CollectionOK

(***************************************************************************)
(* The mutator.  It only runs between collections.                         *)
(***************************************************************************)
MutatorStep == Mutate \/ EndJob \/ VmEndJob

\* What is left to show of a step that does not touch the collector.
LEMMA Between ==
  ASSUME IInv, phase = "run", UNCHANGED collectorVars, UNCHANGED roles,
         ObjectsType', allocated \subseteq allocated', HeapOK', QueueOK'
  PROVE  IInv'
<1>1. Objects' = Objects
  BY DEF Objects
<1>2. CollectorType'
  BY <1>1 DEF IInv, TypeOK, CollectorType, collectorVars
<1>3. CollectionOK'
  BY DEF CollectionOK, collectorVars
<1> QED
  BY <1>2, <1>3 DEF IInv, TypeOK

LEMMA SameQueues ==
  ASSUME QueueOK, UNCHANGED <<target, pending, jobs, finalized, roles>>
  PROVE  QueueOK'
  BY DEF QueueOK, Objects

\* Steps that change only what the mutator holds.
LEMMA HostStep ==
  ASSUME IInv, UNCHANGED roles, UNCHANGED <<allocated, old, objectVars, queueVars>>,
         phase = "run", UNCHANGED collectorVars,
         roots' \subseteq allocated, kept' \subseteq allocated
  PROVE  IInv'
<1>1. Objects' = Objects /\ Option' = Option
  BY DEF Objects, Option
<1>2. ObjectsType'
  BY <1>1 DEF IInv, TypeOK, ObjectsType, objectVars, queueVars
<1>3. HeapOK'
  BY <1>1 DEF IInv, HeapOK, HostWithin, QueueWithin, Points, Strong, Or, objectVars, queueVars
<1>4. QueueOK'
  BY SameQueues DEF IInv, objectVars, queueVars
<1> QED
  BY <1>2, <1>3, <1>4, Between

LEMMA HostActions ==
  ASSUME IInv, UNCHANGED roles,
         \/ StartJob \/ EndJob \/ VmEndJob
         \/ \E src \in roots \ Registries : \E tgt \in edges[src] : Load(tgt)
         \/ \E o \in roots : DropRoot(o)
         \/ \E t \in roots \cap Tables : key[t] \in roots /\ value[t] # None /\ Load(value[t])
         \/ \E w \in roots \cap WeakRefs : Deref(w)
  PROVE  IInv'
<1>1. roots \subseteq allocated /\ kept \subseteq allocated
  BY DEF IInv, HeapOK, HostWithin
<1>2. \A o \in allocated : Points(o, allocated)
  BY DEF IInv, HeapOK
<1>3. CASE StartJob
  BY <1>1, <1>3, HostStep DEF StartJob
<1>4. CASE EndJob
  BY <1>1, <1>4, HostStep DEF EndJob, Running
<1>5. CASE VmEndJob
  BY <1>1, <1>5, HostStep DEF VmEndJob, Running
<1>6. CASE \E src \in roots \ Registries : \E tgt \in edges[src] : Load(tgt)
  <2> PICK src \in roots : \E tgt \in edges[src] : Load(tgt)
    BY <1>6
  <2> PICK tgt \in edges[src] : Load(tgt)
    OBVIOUS
  <2>1. tgt \in allocated
    BY <1>1, <1>2 DEF Points, Strong
  <2> QED
    BY <1>1, <2>1, HostStep DEF Load, Running
<1>7. CASE \E o \in roots : DropRoot(o)
  BY <1>1, <1>7, HostStep DEF DropRoot, Running
<1>8. CASE \E t \in roots \cap Tables : key[t] \in roots /\ value[t] # None /\ Load(value[t])
  <2> PICK t \in roots : value[t] # None /\ Load(value[t])
    BY <1>8
  <2>1. value[t] \in allocated
    BY <1>1, <1>2 DEF Points, Or
  <2> QED
    BY <1>1, <2>1, HostStep DEF Load, Running
<1>9. CASE \E w \in roots \cap WeakRefs : Deref(w)
  <2> PICK w \in roots : Deref(w)
    BY <1>9
  <2>1. slot[w] \in allocated
    BY <1>1, <1>2 DEF Points, Or, Deref
  <2> QED
    BY <1>1, <2>1, HostStep DEF Deref, Running
<1> QED
  BY <1>3, <1>4, <1>5, <1>6, <1>7, <1>8, <1>9

\* What every mutator step may use of the invariant.
LEMMA MutatorFacts ==
  ASSUME IInv
  PROVE  /\ None \notin Objects
         /\ ObjectsType /\ HeapOK /\ QueueOK
         /\ roots \subseteq allocated /\ kept \subseteq allocated
         /\ allocated \subseteq Objects
  BY NoneApart DEF IInv, TypeOK, ObjectsType, HeapOK, HostWithin

LEMMA NewStep ==
  ASSUME IInv, UNCHANGED roles, NEW o \in Objects, New(o)
  PROVE  IInv'
<1>1. Objects' = Objects /\ Option' = Option
  BY DEF Objects, Option
<1>2. /\ phase = "run" /\ allocated' = allocated \cup {o} /\ o \notin allocated
      /\ roots' = roots \cup {o}
      /\ UNCHANGED <<old, edges, key, value, slot, target, held, kept, pending, jobs, finalized>>
      /\ UNCHANGED collectorVars
  BY DEF New, FreshHeld, Fresh, Running, objectVars, queueVars
<1>3. ObjectsType'
  BY <1>1, <1>2, FS_AddElement, MutatorFacts DEF ObjectsType
<1>4. HeapOK'
  BY <1>1, <1>2, MutatorFacts DEF HeapOK, HostWithin, QueueWithin, Points, Strong, Or
<1>5. QueueOK'
  BY <1>2, SameQueues, MutatorFacts
<1> QED
  BY <1>2, <1>3, <1>4, <1>5, Between

LEMMA StoreStep ==
  ASSUME IInv, UNCHANGED roles, NEW src \in roots, NEW tgt \in roots \cup {None},
         Store(src, tgt)
  PROVE  IInv'
<1>1. Objects' = Objects /\ Option' = Option
  BY DEF Objects, Option
<1>2. /\ phase = "run" /\ edges' = [edges EXCEPT ![src] = {tgt} \ {None}]
      /\ UNCHANGED <<allocated, old, key, value, slot, target, held, roots, kept, pending,
                     jobs, finalized>>
      /\ UNCHANGED collectorVars
  BY DEF Store, Running, Some, mutatorVars, queueVars
<1>3. ObjectsType'
  BY <1>1, <1>2, MutatorFacts DEF ObjectsType
<1>4. HeapOK'
  BY <1>1, <1>2, MutatorFacts
  DEF HeapOK, HostWithin, QueueWithin, Points, Strong, Or, ObjectsType
<1>5. QueueOK'
  BY <1>2, SameQueues, MutatorFacts
<1> QED
  BY <1>2, <1>3, <1>4, <1>5, Between

LEMMA EntryStep ==
  ASSUME IInv, UNCHANGED roles, NEW t \in roots, NEW k \in roots \cup {None},
         NEW v \in roots \cup {None}, k = None => v = None,
         phase = "run",
         key' = [key EXCEPT ![t] = k], value' = [value EXCEPT ![t] = v],
         UNCHANGED <<allocated, old, edges, slot, target, held, mutatorVars, queueVars,
                     collectorVars>>
  PROVE  IInv'
<1>1. Objects' = Objects /\ Option' = Option
  BY DEF Objects, Option
<1>2. /\ UNCHANGED <<allocated, old, edges, slot, target, held, roots, kept, pending,
                     jobs, finalized>>
      /\ UNCHANGED collectorVars
  BY DEF mutatorVars, queueVars
<1>3. ObjectsType'
  BY <1>1, <1>2, MutatorFacts DEF ObjectsType, Option
<1>4. HeapOK'
  BY <1>1, <1>2, MutatorFacts
  DEF HeapOK, HostWithin, QueueWithin, Points, Strong, Or, ObjectsType
<1>5. QueueOK'
  BY <1>2, SameQueues, MutatorFacts
<1> QED
  BY <1>2, <1>3, <1>4, <1>5, Between

LEMMA NewWeakRefStep ==
  ASSUME IInv, UNCHANGED roles, NEW w \in Objects, NEW t \in roots, NewWeakRef(w, t)
  PROVE  IInv'
<1>1. Objects' = Objects /\ Option' = Option
  BY DEF Objects, Option
<1>2. /\ phase = "run" /\ allocated' = allocated \cup {w} /\ w \notin allocated
      /\ roots' = roots \cup {w} /\ kept' = kept \cup {t}
      /\ slot' = [slot EXCEPT ![w] = t]
      /\ UNCHANGED <<old, edges, key, value, target, held, pending, jobs, finalized>>
      /\ UNCHANGED collectorVars
  BY DEF NewWeakRef, FreshHeld, Fresh, Running, queueVars
<1>3. ObjectsType'
  BY <1>1, <1>2, FS_AddElement, MutatorFacts DEF ObjectsType, Option
<1>4. HeapOK'
  BY <1>1, <1>2, MutatorFacts
  DEF HeapOK, HostWithin, QueueWithin, Points, Strong, Or, ObjectsType
<1>5. QueueOK'
  BY <1>2, SameQueues, MutatorFacts
<1> QED
  BY <1>2, <1>3, <1>4, <1>5, Between

\* Everything queued is allocated, so a fresh cell is not queued.
LEMMA QueuedAllocated ==
  ASSUME IInv
  PROVE  \A i \in 1..Len(jobs \o pending) : (jobs \o pending)[i][1] \in allocated
<1>1. QueueWithin(jobs, allocated) /\ QueueWithin(pending, allocated)
  BY DEF IInv, HeapOK, HostWithin
<1>2. QueueWithin(jobs \o pending, allocated)
  BY <1>1, QueueJoin DEF IInv, TypeOK, ObjectsType
<1> QED
  BY <1>2 DEF QueueWithin

LEMMA RegisterStep ==
  ASSUME IInv, UNCHANGED roles, NEW r \in roots, NEW c \in Objects, NEW t \in roots,
         NEW h \in roots \cup {None}, Register(r, c, t, h)
  PROVE  IInv'
<1>1. Objects' = Objects /\ Option' = Option
  BY DEF Objects, Option
<1>2. /\ phase = "run" /\ allocated' = allocated \cup {c} /\ c \notin allocated
      /\ target' = [target EXCEPT ![c] = t]
      /\ held' = [held EXCEPT ![c] = h]
      /\ edges' = [edges EXCEPT ![c] = {r} \cup edges[r], ![r] = {c}]
      /\ finalized' = finalized \ {c}
      /\ UNCHANGED <<old, key, value, slot, roots, kept, pending, jobs>>
      /\ UNCHANGED collectorVars
  BY DEF Register, Fresh, Running, mutatorVars
<1>3. ObjectsType'
  BY <1>1, <1>2, FS_AddElement, MutatorFacts DEF ObjectsType, Option
<1>4. HeapOK'
  BY <1>1, <1>2, MutatorFacts
  DEF HeapOK, HostWithin, QueueWithin, Points, Strong, Or, ObjectsType
<1>5. QueueOK'
  <2>1. jobs' \o pending' = jobs \o pending
    BY <1>2
  <2>2. \A i \in 1..Len(jobs \o pending) : (jobs \o pending)[i][1] # c
    BY <1>2, QueuedAllocated
  <2> QED
    BY <1>1, <1>2, <2>1, <2>2, MutatorFacts DEF QueueOK, ObjectsType
<1> QED
  BY <1>2, <1>3, <1>4, <1>5, Between

LEMMA UnregisterStep ==
  ASSUME IInv, UNCHANGED roles, NEW r, NEW cells, Unregister(r, cells)
  PROVE  IInv'
<1>1. Objects' = Objects /\ Option' = Option
  BY DEF Objects, Option
<1>2. /\ phase = "run"
      /\ target' = [o \in Objects |-> IF o \in cells THEN None ELSE target[o]]
      /\ held' = [o \in Objects |-> IF o \in cells THEN None ELSE held[o]]
      /\ finalized' = finalized \cup cells
      /\ UNCHANGED <<allocated, old, edges, key, value, slot, roots, kept, pending, jobs>>
      /\ UNCHANGED collectorVars
  BY DEF Unregister, Running, mutatorVars
<1>3. ObjectsType'
  BY <1>1, <1>2, MutatorFacts DEF ObjectsType, Option
<1>4. HeapOK'
  BY <1>1, <1>2, MutatorFacts
  DEF HeapOK, HostWithin, QueueWithin, Points, Strong, Or, ObjectsType
<1>5. QueueOK'
  BY <1>1, <1>2, MutatorFacts DEF QueueOK, ObjectsType
<1> QED
  BY <1>2, <1>3, <1>4, <1>5, Between

LEMMA ScheduleStep ==
  ASSUME IInv, UNCHANGED roles, Schedule
  PROVE  IInv'
<1>1. Objects' = Objects /\ Option' = Option
  BY DEF Objects, Option
<1>2. /\ phase = "run" /\ jobs = <<>> /\ jobs' = pending /\ pending' = <<>>
      /\ UNCHANGED <<allocated, old, edges, key, value, slot, target, held, roots, kept,
                     finalized>>
      /\ UNCHANGED collectorVars
  BY DEF Schedule, objectVars, mutatorVars
<1>3. ObjectsType'
  BY <1>1, <1>2, MutatorFacts DEF ObjectsType
<1>4. HeapOK'
  BY <1>1, <1>2, MutatorFacts DEF HeapOK, HostWithin, QueueWithin, Points, Strong, Or
<1>5. QueueOK'
  <2>1. pending \in Seq(Objects \X Option)
    BY MutatorFacts DEF ObjectsType
  <2>2. jobs' \o pending' = pending /\ jobs \o pending = pending
    BY <1>2, <2>1
  <2> QED
    BY <1>1, <1>2, <2>2, MutatorFacts DEF QueueOK
<1> QED
  BY <1>2, <1>3, <1>4, <1>5, Between

LEMMA CompleteStep ==
  ASSUME IInv, UNCHANGED roles, NEW keeps \in BOOLEAN, Complete(keeps)
  PROVE  IInv'
<1>1. Objects' = Objects /\ Option' = Option
  BY DEF Objects, Option
<1>2. /\ phase = "run" /\ jobs # <<>> /\ jobs' = Tail(jobs)
      /\ roots' \subseteq roots \cup ({jobs[1][2]} \ {None})
      /\ UNCHANGED <<allocated, old, edges, key, value, slot, target, held, kept, pending,
                     finalized>>
      /\ UNCHANGED collectorVars
  BY DEF Complete, Some, objectVars, mutatorVars
<1>3. jobs \in Seq(Objects \X Option) /\ pending \in Seq(Objects \X Option)
  BY MutatorFacts DEF ObjectsType
<1>4. /\ jobs' \in Seq(Objects \X Option)
      /\ Len(jobs) \in Nat /\ Len(jobs) >= 1 /\ Len(jobs') = Len(jobs) - 1
      /\ \A i \in 1..Len(jobs') : jobs'[i] = jobs[i + 1]
  BY <1>2, <1>3
<1>5. ObjectsType'
  BY <1>1, <1>2, <1>4, MutatorFacts DEF ObjectsType
<1>6. HeapOK'
  <2>1. QueueWithin(jobs, allocated)
    BY MutatorFacts DEF HeapOK, HostWithin
  <2>2. jobs[1][2] \in Or(allocated)
    BY <2>1, <1>4 DEF QueueWithin
  <2>3. \A i \in 1..Len(jobs') : i + 1 \in 1..Len(jobs)
    BY <1>4
  <2>4. QueueWithin(jobs', allocated)
    BY <2>1, <2>3, <1>4 DEF QueueWithin
  <2>5. roots' \subseteq allocated
    BY <1>2, <2>2, MutatorFacts DEF Or
  <2> QED
    BY <1>1, <1>2, <2>4, <2>5, MutatorFacts
    DEF HeapOK, HostWithin, QueueWithin, Points, Strong, Or
<1>7. QueueOK'
  <2> DEFINE q == jobs \o pending
             p == Tail(jobs) \o pending
  <2>1. /\ Len(q) = Len(jobs) + Len(pending) /\ Len(pending) \in Nat
        /\ Len(p) = Len(q) - 1
    <3>1. Len(q) = Len(jobs) + Len(pending) /\ Len(pending) \in Nat
      BY <1>3
    <3>2. Tail(jobs) \in Seq(Objects \X Option) /\ Len(Tail(jobs)) = Len(jobs) - 1
      BY <1>2, <1>4
    <3>3. Len(p) = Len(Tail(jobs)) + Len(pending)
      BY <1>3, <3>2
    <3> QED
      BY <3>1, <3>2, <3>3, <1>4
  <2>2. \A i \in 1..Len(p) : i + 1 \in 1..Len(q) /\ p[i] = q[i + 1]
    <3> TAKE i \in 1..Len(p)
    <3>1. i + 1 \in 1..Len(q)
      BY <2>1, <1>4
    <3>2. CASE i <= Len(jobs')
      <4>1. p[i] = jobs'[i]
        BY <3>2, <1>3, <1>4
      <4>2. q[i + 1] = jobs[i + 1]
        BY <3>2, <1>3, <1>4
      <4> QED
        BY <4>1, <4>2, <3>1, <3>2, <1>4
    <3>3. CASE i > Len(jobs')
      <4>1. p[i] = pending[i - Len(jobs')]
        BY <3>3, <1>3, <1>4, <2>1
      <4>2. q[i + 1] = pending[i + 1 - Len(jobs)]
        BY <3>3, <1>3, <1>4, <2>1
      <4>3. i - Len(jobs') = i + 1 - Len(jobs)
        BY <1>4
      <4> QED
        BY <4>1, <4>2, <4>3, <3>1
    <3> QED
      BY <3>2, <3>3, <1>4
  <2>3. jobs' \o pending' = p
    BY <1>2
  <2>4. /\ \A i, j \in 1..Len(q) : q[i][1] = q[j][1] => i = j
        /\ \A i \in 1..Len(q) : q[i][1] \in finalized
        /\ \A o \in Objects : target[o] # None => o \notin finalized
    BY MutatorFacts DEF QueueOK
  <2> HIDE DEF p, q
  <2>5. ASSUME NEW i \in 1..Len(p), NEW j \in 1..Len(p), p[i][1] = p[j][1]
        PROVE  i = j
    <3>1. i + 1 = j + 1
      BY <2>2, <2>4, <2>5
    <3> QED
      BY <3>1
  <2>6. \A i \in 1..Len(p) : p[i][1] \in finalized
    BY <2>2, <2>4
  <2> QED
    BY <1>1, <1>2, <2>3, <2>4, <2>5, <2>6 DEF QueueOK
<1> QED
  BY <1>2, <1>5, <1>6, <1>7, Between

LEMMA MutatorKeeps ==
  ASSUME IInv, UNCHANGED roles, MutatorStep
  PROVE  IInv'
<1>1. roots \subseteq Objects /\ WeakRefs \subseteq Objects /\ Cells \subseteq Objects
  BY MutatorFacts, InstancesAssumption DEF ObjectsType, Objects, WeakRefs, Cells
<1>2. CASE \E o \in Objects : New(o)
  BY <1>2, NewStep
<1>3. CASE \E src \in roots \cap Holders, tgt \in roots \cup {None} : Store(src, tgt)
  BY <1>3, StoreStep
<1>4. CASE \E t \in roots \cap Tables, k \in roots, v \in roots : SetEntry(t, k, v)
  <2> PICK t \in roots, k \in roots, v \in roots : SetEntry(t, k, v)
    BY <1>4
  <2>1. k # None
    BY <1>1, MutatorFacts
  <2> QED
    BY <2>1, EntryStep DEF SetEntry, Running
<1>5. CASE \E t \in roots \cap Tables : DeleteEntry(t)
  BY <1>5, EntryStep DEF DeleteEntry, Running
<1>6. CASE \E w \in WeakRefs, t \in roots : NewWeakRef(w, t)
  BY <1>1, <1>6, NewWeakRefStep
<1>7. CASE \E r \in roots \cap Registries, c \in Cells, t \in roots, h \in roots \cup {None} :
             Register(r, c, t, h)
  BY <1>1, <1>7, RegisterStep
<1>8. CASE \E r \in roots \cap Registries : \E cells \in SUBSET Cells : Unregister(r, cells)
  BY <1>8, UnregisterStep
<1>9. CASE Schedule
  BY <1>9, ScheduleStep
<1>10. CASE \E keeps \in BOOLEAN : Complete(keeps)
  BY <1>10, CompleteStep
<1> QED
  BY <1>2, <1>3, <1>4, <1>5, <1>6, <1>7, <1>8, <1>9, <1>10, HostActions
  DEF MutatorStep, Mutate

(***************************************************************************)
(* Marking and the weak closure, which leave the heap alone.               *)
(***************************************************************************)
Quiet == UNCHANGED <<allocated, old, objectVars, mutatorVars, queueVars, roles>>

LEMMA QuietHeap ==
  ASSUME Quiet
  PROVE  /\ Objects' = Objects /\ Option' = Option
         /\ UNCHANGED <<allocated, old, edges, key, value, slot, target, held, roots, kept,
                        pending, jobs, finalized, roles>>
  BY DEF Quiet, objectVars, mutatorVars, queueVars, Objects, Option

LEMMA QuietLive ==
  ASSUME Quiet PROVE Live' = Live
  BY QuietHeap DEF Live, HeldByHost, Retains

LEMMA QuietStep ==
  ASSUME IInv, Quiet, CollectorType', CollectionOK'
  PROVE  IInv'
<1>1. ObjectsType'
  BY QuietHeap DEF IInv, TypeOK, ObjectsType
<1>2. HeapOK'
  BY QuietHeap DEF IInv, HeapOK, HostWithin, QueueWithin, Points, Strong
<1>3. QueueOK'
  BY QuietHeap, SameQueues DEF IInv
<1> QED
  BY <1>1, <1>2, <1>3 DEF IInv, TypeOK

LEMMA AbandonStep ==
  ASSUME IInv, Quiet, Abandon
  PROVE  IInv'
<1>1. CollectorType'
  BY DEF Abandon, EnterPhase, CollectorType, Phases
<1>2. CollectionOK'
  BY DEF Abandon, EnterPhase, CollectionOK
<1> QED
  BY <1>1, <1>2, QuietStep

\* What a step of a collection may use.
LEMMA CollectorFacts ==
  ASSUME IInv
  PROVE  /\ None \notin Objects /\ ObjectsType /\ CollectorType /\ HeapOK
         /\ allocated \subseteq Objects /\ old \subseteq allocated
         /\ marked \subseteq allocated /\ gray \subseteq allocated
         /\ owners \in Seq(Objects) /\ Len(owners) \in Nat
         /\ index \in Nat \ {0}
         /\ phase # "run" => MarkOK /\ PassOK /\ ClearOK /\ ExactOK
  BY NoneApart DEF IInv, TypeOK, ObjectsType, CollectorType, CollectionOK

LEMMA SurvivorIs ==
  ASSUME IInv, NEW o
  PROVE  o \in Survivors <=> o \in marked \/ (kind = "minor" /\ o \in old)
  BY CollectorFacts DEF Survivors, LiveTarget

\* Survivors retain what is live once nothing is gray and every owner is honoured.
LEMMA SurvivorsRetain ==
  ASSUME IInv, phase # "run", gray = {},
         \A i \in 1..Len(owners) : Honoured(owners[i], marked)
  PROVE  Live \subseteq Survivors
<1>1. HeldByHost \subseteq Survivors
  BY CollectorFacts, HostIn DEF MarkOK
<1>2. Survivors \in SUBSET Objects
  BY CollectorFacts DEF Survivors
<1>3. ASSUME NEW o \in Survivors
      PROVE  /\ edges[o] \subseteq Survivors
             /\ held[o] \in Survivors \cup {None}
             /\ key[o] \in Survivors => value[o] \in Survivors \cup {None}
  <2>1. Strong(o, Survivors)
    BY CollectorFacts DEF MarkOK
  <2>2. ASSUME key[o] \in Survivors PROVE value[o] \in Survivors \cup {None}
    <3>1. key[o] # None /\ LiveIn(key[o], marked)
      BY <2>2, <1>2, SurvivorIs, CollectorFacts DEF LiveIn
    <3>2. CASE Listed(o)
      BY <3>1, <3>2 DEF Listed, Honoured, Or
    <3>3. CASE kind = "minor" /\ Points(o, old)
      BY <3>3, SurvivorIs DEF Points, Or
    <3> QED
      BY <3>1, <3>2, <3>3, CollectorFacts DEF MarkOK, IsWeakOwner
  <2> QED
    BY <2>1, <2>2 DEF Strong, Or
<1>4. Retains(Survivors)
  BY <1>3 DEF Retains
<1> QED
  BY <1>1, <1>2, <1>4, LiveLeast

LEMMA LiveFacts ==
  ASSUME IInv
  PROVE  HostWithin(Live) /\ Retains(Live) /\ Live \subseteq Objects
<1>1. HeldByHost \subseteq Objects
  <2>1. HeldByHost \subseteq allocated
    BY HostIn, CollectorFacts DEF HeapOK
  <2> QED
    BY <2>1, CollectorFacts
<1>2. HeldByHost \subseteq Live /\ Retains(Live) /\ Live \subseteq Objects
  BY <1>1, LiveRetained, CollectorFacts
<1> QED
  BY <1>2, HostIn, CollectorFacts

LEMMA StartStep ==
  ASSUME IInv, UNCHANGED roles, NEW k \in Kinds, StartCollection(k)
  PROVE  IInv'
<1>1. Quiet
  BY DEF Quiet, StartCollection
<1>2. k \in {"minor", "major"}
  BY CollectorFacts, InstancesAssumption DEF Kinds, ObjectsType
<1>3. /\ phase' = "mark" /\ kind' = k /\ owners' = <<>> /\ UNCHANGED <<index, snapshot>>
      /\ marked' = Marks(k, ExactRoots)
      /\ gray' = Marks(k, ExactRoots) \cup DirtySources(k)
  BY DEF StartCollection
<1>4. ExactRoots \subseteq allocated
  BY ExactRootsIn, CollectorFacts DEF HeapOK
<1>5. DirtySources(k) \subseteq old /\ (k = "major" => DirtySources(k) = {})
  BY DEF DirtySources
<1>6. marked' \subseteq allocated /\ gray' \subseteq allocated
  BY <1>3, <1>4, <1>5, CollectorFacts DEF Marks
<1>7. CollectorType'
  BY <1>1, <1>2, <1>3, <1>6, QuietHeap, CollectorFacts DEF CollectorType, Phases
<1>8. \A o : o \in Survivors' <=> o \in marked' \/ (k = "minor" /\ o \in old)
  BY <1>1, <1>3, <1>6, QuietHeap, CollectorFacts DEF Survivors, LiveTarget
<1>9. MarkOK'
  <2>1. ExactRoots \subseteq Survivors'
    BY <1>2, <1>3, <1>8 DEF Marks
  <2>2. HostWithin(Survivors')
    BY <2>1, ExactRootsIn, CollectorFacts
  <2>3. HostWithin(Survivors)'
    BY <1>1, <2>2, QuietHeap DEF HostWithin, QueueWithin
  <2>4. gray' \subseteq Survivors'
    BY <1>2, <1>3, <1>5, <1>8
  <2>5. ASSUME NEW o \in Survivors' \ gray'
        PROVE  k = "minor" /\ Points(o, old)
    <3>1. o \notin marked' /\ k = "minor" /\ o \in old
      BY <1>3, <1>8
    <3>2. Targets(o) \subseteq old
      BY <1>3, <3>1 DEF DirtySources, Young
    <3> QED
      BY <3>1, <3>2 DEF Targets, Some, Points, Strong, Or
  <2>6. old \subseteq Survivors' \/ k # "minor"
    BY <1>8
  <2>7. ASSUME NEW o \in Survivors' \ gray'
        PROVE  /\ Strong(o, Survivors)'
               /\ kind' = "minor" /\ Points(o, old)'
    BY <1>1, <1>3, <2>5, <2>6, QuietHeap DEF Points, Strong, Or
  <2> QED
    BY <1>3, <2>3, <2>4, <2>7 DEF MarkOK
<1>10. ExactOK'
  <2>1. ExactRoots \subseteq Live
    BY LiveFacts, ExactRootsIn, CollectorFacts
  <2> QED
    BY <1>1, <1>3, <2>1, QuietLive DEF ExactOK, Marks
<1>11. PassOK' /\ ClearOK'
  BY <1>3 DEF PassOK, ClearOK
<1> QED
  BY <1>1, <1>7, <1>9, <1>10, <1>11, QuietStep DEF CollectionOK

\* Marking the targets T: those that are new become survivors.
LEMMA Growth ==
  ASSUME IInv, phase # "run", Quiet, kind' = kind, NEW T, T \subseteq allocated,
         marked' = marked \cup Marks(kind, T)
  PROVE  /\ marked' \subseteq allocated
         /\ Survivors \subseteq Survivors' /\ T \subseteq Survivors'
         /\ \A o : o \in Survivors' <=> o \in Survivors \/ o \in Marks(kind, T) \ marked
         /\ HostWithin(Survivors)'
         /\ \A o : Strong(o, Survivors) => Strong(o, Survivors)'
         /\ \A o, M : Honoured(o, M) => Honoured(o, M)'
<1>1. marked' \subseteq allocated
  BY CollectorFacts DEF Marks
<1>2. \A o : o \in Survivors' <=> o \in marked' \/ (kind = "minor" /\ o \in old)
  BY <1>1, QuietHeap, CollectorFacts DEF Survivors, LiveTarget
<1>3. Survivors \subseteq Survivors' /\ T \subseteq Survivors'
  BY <1>2, SurvivorIs DEF Marks
<1>4. \A o : o \in Survivors' <=> o \in Survivors \/ o \in Marks(kind, T) \ marked
  BY <1>2, SurvivorIs DEF Marks
<1>5. HostWithin(Survivors)'
  BY <1>3, QuietHeap, CollectorFacts DEF MarkOK, HostWithin, QueueWithin, Or
<1>6. \A o : Strong(o, Survivors) => Strong(o, Survivors)'
  BY <1>3, QuietHeap DEF Strong, Or
<1>7. \A o, M : Honoured(o, M) => Honoured(o, M)'
  BY <1>3, QuietHeap DEF Honoured, LiveIn, Or
<1> QED
  BY <1>1, <1>3, <1>4, <1>5, <1>6, <1>7

LEMMA TraceStep ==
  ASSUME IInv, UNCHANGED roles, NEW o, Trace(o)
  PROVE  IInv'
<1> DEFINE T == StrongTargets(o)
<1>1. Quiet
  BY DEF Quiet, Trace
<1>2. /\ phase \in {"mark", "drain"} /\ phase # "run" /\ o \in gray
      /\ marked' = marked \cup Marks(kind, T)
      /\ gray' = (gray \ {o}) \cup (Marks(kind, T) \ marked)
      /\ owners' = IF IsWeakOwner(o) THEN Append(owners, o) ELSE owners
      /\ UNCHANGED <<phase, kind, index, snapshot>>
  BY DEF Trace
<1>3. o \in allocated /\ o \in Survivors /\ o \in Objects
  BY <1>2, CollectorFacts DEF MarkOK
<1>4. T \subseteq allocated
  BY <1>3, CollectorFacts DEF HeapOK, Points, Strong, Or, StrongTargets, Some
<1>5. /\ marked' \subseteq allocated
      /\ Survivors \subseteq Survivors' /\ T \subseteq Survivors'
      /\ \A x : x \in Survivors' <=> x \in Survivors \/ x \in Marks(kind, T) \ marked
      /\ HostWithin(Survivors)'
      /\ \A x : Strong(x, Survivors) => Strong(x, Survivors)'
      /\ \A x, M : Honoured(x, M) => Honoured(x, M)'
  <2> HIDE DEF T
  <2> QED
    BY <1>1, <1>2, <1>4, Growth
<1>6. /\ owners' \in Seq(Objects) /\ Len(owners') \in Nat /\ Len(owners) <= Len(owners')
      /\ \A i \in 1..Len(owners) : i \in 1..Len(owners') /\ owners'[i] = owners[i]
      /\ \A i \in 1..Len(owners') : owners'[i] = o \/ i \in 1..Len(owners)
      /\ IsWeakOwner(o) => Listed(o)'
  <2>1. CASE IsWeakOwner(o)
    <3>1. /\ owners' \in Seq(Objects) /\ Len(owners') = Len(owners) + 1
          /\ \A i \in 1..Len(owners) : owners'[i] = owners[i]
          /\ owners'[Len(owners) + 1] = o
      BY <1>2, <1>3, <2>1, CollectorFacts
    <3>2. Listed(o)'
      BY <3>1, CollectorFacts DEF Listed
    <3> QED
      BY <3>1, <3>2, CollectorFacts
  <2>2. CASE ~IsWeakOwner(o)
    BY <1>2, <2>2, CollectorFacts
  <2> QED
    BY <2>1, <2>2
<1> HIDE DEF T
<1>7. gray' \subseteq Survivors'
  BY <1>2, <1>5, CollectorFacts DEF MarkOK
<1>8. CollectorType'
  <2>1. gray' \subseteq allocated
    BY <1>7, <1>1, QuietHeap DEF Survivors
  <2> QED
    BY <1>1, <1>2, <1>5, <1>6, <2>1, QuietHeap, CollectorFacts DEF CollectorType
<1>9. MarkOK'
  <2>1. \A i \in 1..Len(owners') : owners'[i] \in Survivors'
    BY <1>2, <1>3, <1>5, <1>6, CollectorFacts DEF MarkOK
  <2>2. ASSUME NEW x \in Survivors' \ gray'
        PROVE  /\ Strong(x, Survivors)'
               /\ IsWeakOwner(x)' => Listed(x)' \/ (kind' = "minor" /\ Points(x, old)')
    <3>1. x \in Survivors /\ (x = o \/ x \notin gray)
      BY <1>2, <1>5
    <3>2. IsWeakOwner(x)' = IsWeakOwner(x) /\ Points(x, old)' = Points(x, old)
      BY <1>1, QuietHeap DEF IsWeakOwner, Points, Strong
    <3>3. CASE x = o
      <4>1. Strong(o, Survivors)'
        BY <1>1, <1>3, <1>5, QuietHeap DEF Strong, Or, T, StrongTargets, Some
      <4> QED
        BY <3>2, <3>3, <4>1, <1>6
    <3>4. CASE x \notin gray
      <4>1. /\ Strong(x, Survivors)
            /\ IsWeakOwner(x) => Listed(x) \/ (kind = "minor" /\ Points(x, old))
        BY <1>2, <3>1, <3>4, CollectorFacts DEF MarkOK
      <4>2. Listed(x) => Listed(x)'
        BY <1>6 DEF Listed
      <4> QED
        BY <3>2, <4>1, <4>2, <1>2, <1>5
    <3> QED
      BY <3>1, <3>3, <3>4
  <2> QED
    BY <1>2, <1>5, <1>7, <2>1, <2>2 DEF MarkOK
<1>10. PassOK'
  <2> SUFFICES ASSUME phase = "drain" PROVE PassOK'
    BY <1>2 DEF PassOK
  <2>1. /\ snapshot.owners <= Len(owners) /\ snapshot.owners \in Nat
        /\ Passed = snapshot.owners /\ Passed' = snapshot.owners
    BY <1>2, CollectorFacts DEF PassOK, Passed, CollectorType
  <2>2. PICK M \in SUBSET marked :
          /\ Cardinality(M) = snapshot.marks
          /\ \A i \in 1..Passed : Honoured(owners[i], M)
    BY <1>2, CollectorFacts DEF PassOK
  <2>3. M \in SUBSET marked'
    BY <1>2
  <2>4. \A i \in 1..Passed' : Honoured(owners[i], M)'
    BY <1>5, <1>6, <2>1, <2>2, CollectorFacts
  <2>5. \E N \in SUBSET marked' :
          /\ Cardinality(N) = snapshot'.marks
          /\ \A i \in 1..Passed' : Honoured(owners[i], N)'
    BY <1>2, <2>2, <2>3, <2>4
  <2>6. snapshot'.owners <= Len(owners') /\ Passed' <= snapshot'.owners
    BY <1>2, <1>6, <2>1, CollectorFacts
  <2> QED
    BY <1>2, <2>5, <2>6 DEF PassOK
<1>11. ClearOK'
  BY <1>2 DEF ClearOK
<1>12. ExactOK'
  <2> SUFFICES ASSUME kind = "major" PROVE marked' \subseteq Live
    BY <1>1, <1>2, QuietLive DEF ExactOK
  <2>1. marked \subseteq Live
    BY <1>2, CollectorFacts DEF ExactOK
  <2>2. o \in Live
    BY <1>3, <2>1, SurvivorIs
  <2>3. T \subseteq Live
    BY <2>2, LiveFacts DEF Retains, T, StrongTargets, Some
  <2> QED
    BY <1>2, <2>1, <2>3 DEF Marks
<1> QED
  BY <1>1, <1>8, <1>9, <1>10, <1>11, <1>12, QuietStep DEF CollectionOK

\* Steps from phase to phase.
Settled == UNCHANGED <<kind, marked, gray, owners>>

LEMMA SettledFacts ==
  ASSUME IInv, phase # "run", Quiet, Settled, phase' \in {"clear", "enqueue"} => gray = {}
  PROVE  /\ Survivors' = Survivors
         /\ \A o, M : Honoured(o, M)' <=> Honoured(o, M)
         /\ MarkOK'
<1>1. Survivors' = Survivors
  BY QuietHeap DEF Settled, Survivors, LiveTarget
<1>2. \A o, M : Honoured(o, M)' <=> Honoured(o, M)
  BY <1>1, QuietHeap DEF Settled, Honoured, LiveIn, Or
<1>3. MarkOK'
  BY <1>1, QuietHeap, CollectorFacts
  DEF Settled, MarkOK, HostWithin, QueueWithin, Strong, Points, IsWeakOwner, Listed
<1> QED
  BY <1>1, <1>2, <1>3

LEMMA PassBegins ==
  ASSUME IInv, phase # "run", Quiet, Settled, gray = {}, BeginPass,
         phase \in {"mark", "drain"}
  PROVE  IInv'
<1>1. /\ phase' = "pass" /\ index' = 1
      /\ snapshot' = [owners |-> Len(owners), marks |-> Cardinality(marked)]
      /\ UNCHANGED <<kind, marked, gray, owners>>
  BY DEF BeginPass, EnterPhase, Settled
<1>2. IsFiniteSet(marked) /\ Cardinality(marked) \in Nat
  BY FS_Subset, FS_CardinalityType, CollectorFacts DEF ObjectsType
<1>3. CollectorType'
  BY <1>1, <1>2, QuietHeap, CollectorFacts DEF CollectorType, Phases
<1>4. MarkOK'
  BY <1>1, SettledFacts
<1>5. PassOK'
  <2>1. Passed' = 0
    BY <1>1 DEF Passed
  <2>2. \E M \in SUBSET marked' :
          /\ Cardinality(M) = snapshot'.marks
          /\ \A i \in 1..Passed' : Honoured(owners[i], M)'
    BY <1>1, <2>1
  <2> QED
    BY <1>1, <2>1, <2>2, CollectorFacts DEF PassOK
<1>6. ClearOK'
  BY <1>1 DEF ClearOK
<1>7. ExactOK'
  BY <1>1, QuietLive, CollectorFacts DEF ExactOK
<1> QED
  BY <1>3, <1>4, <1>5, <1>6, <1>7, QuietStep DEF CollectionOK

\* The closure is complete when every owner is honoured.
LEMMA ClearBegins ==
  ASSUME IInv, Quiet, Settled, gray = {}, EnterPhase("clear"), UNCHANGED snapshot,
         phase \in {"pass", "drain"},
         \A i \in 1..Len(owners) : Honoured(owners[i], marked)
  PROVE  IInv'
<1>1. /\ phase' = "clear" /\ index' = 1
      /\ UNCHANGED <<kind, marked, gray, owners, snapshot>>
  BY DEF EnterPhase, Settled
<1>2. CollectorType'
  BY <1>1, QuietHeap, CollectorFacts DEF CollectorType, Phases
<1>3. MarkOK' /\ (\A o, M : Honoured(o, M)' <=> Honoured(o, M))
  BY SettledFacts
<1>4. PassOK'
  BY <1>1 DEF PassOK
<1>5. ClearOK'
  <2>1. \A i \in 1..Len(owners') : ~Visited(i)' /\ ~(i < index')
    BY <1>1, CollectorFacts DEF Visited
  <2>2. \A i \in 1..Len(owners') : Honoured(owners[i], marked)'
    BY <1>1, <1>3
  <2> QED
    BY <2>1, <2>2 DEF ClearOK
<1>6. ExactOK'
  BY <1>1, QuietLive, CollectorFacts DEF ExactOK
<1> QED
  BY <1>1, <1>2, <1>3, <1>4, <1>5, <1>6, QuietStep DEF CollectionOK

LEMMA FirstPassStep ==
  ASSUME IInv, UNCHANGED roles, FirstPass
  PROVE  IInv'
  BY PassBegins DEF FirstPass, Quiet, Settled

LEMMA EndPassStep ==
  ASSUME IInv, UNCHANGED roles, EndPass
  PROVE  IInv'
<1>1. Quiet /\ Settled /\ UNCHANGED snapshot /\ phase = "pass" /\ index > snapshot.owners
  BY DEF EndPass, Quiet, Settled
<1>2. /\ snapshot.owners = Len(owners) /\ snapshot.owners \in Nat
      /\ Passed = index - 1 /\ index - 1 <= snapshot.owners
      /\ gray # {} => \E i \in 1..(index - 1) : key[owners[i]] # None
  BY <1>1, CollectorFacts DEF PassOK, Passed, CollectorType
<1>3. index - 1 = snapshot.owners
  BY <1>1, <1>2, CollectorFacts
<1>4. CASE \E i \in 1..snapshot.owners : key[owners[i]] # None
  <2>1. phase' = "drain" /\ index' = 1 /\ UNCHANGED <<kind, marked, gray, owners, snapshot>>
    BY <1>1, <1>4 DEF EndPass, EnterPhase, Settled
  <2>2. CollectorType'
    BY <1>1, <2>1, QuietHeap, CollectorFacts DEF CollectorType, Phases
  <2>3. MarkOK' /\ (\A o, M : Honoured(o, M)' <=> Honoured(o, M))
    BY <1>1, <2>1, SettledFacts
  <2>4. PassOK'
    <3>1. Passed' = Passed
      BY <1>2, <1>3, <2>1 DEF Passed
    <3>2. PICK M \in SUBSET marked :
            /\ Cardinality(M) = snapshot.marks
            /\ \A i \in 1..Passed : Honoured(owners[i], M)
      BY <1>1, CollectorFacts DEF PassOK
    <3>3. \A i \in 1..Passed' : Honoured(owners[i], M)'
      BY <3>1, <3>2, <2>1, <2>3
    <3>4. \E N \in SUBSET marked' :
            /\ Cardinality(N) = snapshot'.marks
            /\ \A i \in 1..Passed' : Honoured(owners[i], N)'
      BY <3>2, <3>3, <2>1
    <3>5. snapshot'.owners <= Len(owners') /\ Passed' <= snapshot'.owners
      BY <1>2, <1>3, <2>1, <3>1, CollectorFacts
    <3> QED
      BY <2>1, <3>4, <3>5 DEF PassOK
  <2>5. ClearOK'
    BY <2>1 DEF ClearOK
  <2>6. ExactOK'
    BY <1>1, <2>1, QuietLive, CollectorFacts DEF ExactOK
  <2> QED
    BY <1>1, <2>2, <2>3, <2>4, <2>5, <2>6, QuietStep DEF CollectionOK
<1>5. CASE ~ \E i \in 1..snapshot.owners : key[owners[i]] # None
  <2>1. EnterPhase("clear")
    BY <1>5 DEF EndPass
  <2>2. gray = {}
    BY <1>2, <1>3, <1>5
  <2>3. \A i \in 1..Len(owners) : Honoured(owners[i], marked)
    BY <1>2, <1>5 DEF Honoured
  <2> QED
    BY <1>1, <2>1, <2>2, <2>3, ClearBegins
<1> QED
  BY <1>4, <1>5

LEMMA EndDrainStep ==
  ASSUME IInv, UNCHANGED roles, EndDrain
  PROVE  IInv'
<1>1. Quiet /\ Settled /\ phase = "drain" /\ gray = {}
  BY DEF EndDrain, Quiet, Settled
<1>2. CASE Closed /\ EnterPhase("clear") /\ UNCHANGED snapshot
  <2>1. Cardinality(marked) = snapshot.marks /\ Len(owners) = snapshot.owners
    BY <1>2 DEF Closed
  <2>2. PICK M \in SUBSET marked :
          /\ Cardinality(M) = snapshot.marks
          /\ \A i \in 1..snapshot.owners : Honoured(owners[i], M)
    BY <1>1, CollectorFacts DEF PassOK, Passed
  <2>3. IsFiniteSet(marked)
    BY FS_Subset, CollectorFacts DEF ObjectsType
  <2>4. M = marked
    BY <2>1, <2>2, <2>3, FS_Subset
  <2> QED
    BY <1>1, <1>2, <2>1, <2>2, <2>4, ClearBegins
<1>3. CASE ~Closed /\ BeginPass
  BY <1>1, <1>3, PassBegins
<1> QED
  BY <1>2, <1>3 DEF EndDrain

LEMMA OwnerPassed ==
  ASSUME IInv, UNCHANGED roles, PassStep
  PROVE  IInv'
<1> DEFINE o == owners[index]
<1>1. Quiet
  BY DEF Quiet, PassStep
<1>2. /\ phase = "pass" /\ phase # "run" /\ index <= snapshot.owners
      /\ marked' = marked \cup (Admitted(o) \ marked)
      /\ gray' = gray \cup (Admitted(o) \ marked)
      /\ index' = index + 1
      /\ UNCHANGED <<phase, kind, owners, snapshot>>
  BY DEF PassStep
<1>3. /\ snapshot.owners = Len(owners) /\ snapshot.owners \in Nat
      /\ gray # {} => \E i \in 1..(index - 1) : key[owners[i]] # None
      /\ Passed = index - 1 /\ Passed' = index
  BY <1>2, CollectorFacts DEF PassOK, Passed, CollectorType
<1>4. index \in 1..Len(owners) /\ o \in Survivors /\ o \in Objects /\ o \in allocated
  BY <1>2, <1>3, CollectorFacts DEF MarkOK, Survivors
<1> HIDE DEF o
<1> DEFINE live == key[o] # None /\ LiveTarget(key[o])
           T == IF live THEN {value[o]} \ {None} ELSE {}
<1>5. Admitted(o) = Marks(kind, T)
  BY DEF Admitted, Marks, Some
<1>6. T \subseteq allocated
  BY <1>4, CollectorFacts DEF HeapOK, Points, Or
<1>7. marked' = marked \cup Marks(kind, T) /\ gray' = gray \cup (Marks(kind, T) \ marked)
  BY <1>2, <1>5
<1>8. /\ marked' \subseteq allocated
      /\ Survivors \subseteq Survivors' /\ T \subseteq Survivors'
      /\ \A x : x \in Survivors' <=> x \in Survivors \/ x \in Marks(kind, T) \ marked
      /\ HostWithin(Survivors)'
      /\ \A x : Strong(x, Survivors) => Strong(x, Survivors)'
      /\ \A x, M : Honoured(x, M) => Honoured(x, M)'
  <2> HIDE DEF T
  <2> QED
    BY <1>1, <1>2, <1>6, <1>7, Growth
<1>9. gray' \subseteq Survivors'
  BY <1>2, <1>7, <1>8, CollectorFacts DEF MarkOK
<1>10. CollectorType'
  <2>1. gray' \subseteq allocated
    BY <1>9, <1>1, QuietHeap DEF Survivors
  <2> QED
    BY <1>1, <1>2, <1>8, <2>1, QuietHeap, CollectorFacts DEF CollectorType
<1>11. MarkOK'
  <2>1. \A i \in 1..Len(owners') : owners'[i] \in Survivors'
    BY <1>2, <1>8, CollectorFacts DEF MarkOK
  <2>2. ASSUME NEW x \in Survivors' \ gray'
        PROVE  /\ Strong(x, Survivors)'
               /\ IsWeakOwner(x)' => Listed(x)' \/ (kind' = "minor" /\ Points(x, old)')
    <3>1. x \in Survivors /\ x \notin gray
      BY <1>7, <1>8
    <3>2. IsWeakOwner(x)' = IsWeakOwner(x) /\ Points(x, old)' = Points(x, old)
      BY <1>1, QuietHeap DEF IsWeakOwner, Points, Strong
    <3>3. Listed(x) => Listed(x)'
      BY <1>2 DEF Listed
    <3>4. /\ Strong(x, Survivors)
          /\ IsWeakOwner(x) => Listed(x) \/ (kind = "minor" /\ Points(x, old))
      BY <1>2, <3>1, CollectorFacts DEF MarkOK
    <3> QED
      BY <3>2, <3>3, <3>4, <1>2, <1>8
  <2> QED
    BY <1>2, <1>8, <1>9, <2>1, <2>2 DEF MarkOK
<1>12. PassOK'
  <2>1. PICK M \in SUBSET marked :
          /\ Cardinality(M) = snapshot.marks
          /\ \A i \in 1..Passed : Honoured(owners[i], M)
    BY <1>2, CollectorFacts DEF PassOK
  <2>2. ASSUME key[o] # None, LiveIn(key[o], M) PROVE value[o] \in Or(Survivors')
    <3>1. live
      BY <2>1, <2>2 DEF LiveIn, LiveTarget
    <3> QED
      BY <3>1, <1>8 DEF Or
  <2>3. \A i \in 1..Passed' : Honoured(owners[i], M)'
    <3> TAKE i \in 1..Passed'
    <3>1. owners'[i] = owners[i]
      BY <1>2
    <3>2. CASE i = index
      <4>1. owners'[i] = o
        BY <3>1, <3>2 DEF o
      <4> QED
        BY <4>1, <2>2, <1>1, <1>2, QuietHeap DEF Honoured, LiveIn, Or
    <3>3. CASE i # index
      <4>1. i \in 1..Passed
        BY <3>3, <1>3, CollectorFacts
      <4>2. Honoured(owners[i], M)
        BY <4>1, <2>1
      <4> QED
        BY <4>2, <3>1, <1>8
    <3> QED
      BY <3>2, <3>3
  <2>4. \E N \in SUBSET marked' :
          /\ Cardinality(N) = snapshot'.marks
          /\ \A i \in 1..Passed' : Honoured(owners[i], N)'
    BY <1>2, <2>1, <2>3
  <2>5. snapshot'.owners <= Len(owners') /\ Passed' <= snapshot'.owners
    BY <1>2, <1>3, CollectorFacts
  <2>6. snapshot'.owners = Len(owners')
    BY <1>2, <1>3
  <2>7. ASSUME gray' # {} PROVE \E i \in 1..(index' - 1) : key'[owners'[i]] # None
    <3>1. UNCHANGED key
      BY <1>1, QuietHeap
    <3>2. CASE gray # {}
      BY <1>1, <1>2, <1>3, <3>1, <3>2, CollectorFacts
    <3>3. CASE gray = {}
      <4>1. key[o] # None
        BY <3>3, <2>7, <1>7 DEF Marks
      <4>2. key'[owners'[index]] # None /\ index \in 1..(index' - 1)
        BY <4>1, <3>1, <1>2, CollectorFacts DEF o
      <4> QED
        BY <4>2
    <3> QED
      BY <3>2, <3>3
  <2> QED
    BY <1>2, <2>4, <2>5, <2>6, <2>7 DEF PassOK
<1>13. ClearOK'
  BY <1>2 DEF ClearOK
<1>14. ExactOK'
  <2> SUFFICES ASSUME kind = "major" PROVE marked' \subseteq Live
    BY <1>1, <1>2, QuietLive DEF ExactOK
  <2>1. marked \subseteq Live
    BY <1>2, CollectorFacts DEF ExactOK
  <2>2. o \in Live
    BY <1>4, <2>1, SurvivorIs
  <2>3. T \subseteq Live
    <3> SUFFICES ASSUME live PROVE {value[o]} \ {None} \subseteq Live
      OBVIOUS
    <3>1. key[o] \in Live
      BY <2>1 DEF LiveTarget
    <3> QED
      BY <3>1, <2>2, LiveFacts DEF Retains
  <2> QED
    BY <1>7, <2>1, <2>3 DEF Marks
<1> QED
  BY <1>1, <1>10, <1>11, <1>12, <1>13, <1>14, QuietStep DEF CollectionOK

LEMMA EndClearStep ==
  ASSUME IInv, UNCHANGED roles, EndClear
  PROVE  IInv'
<1>1. Quiet /\ Settled
  BY DEF EndClear, Quiet, Settled
<1>2. /\ phase = "clear" /\ index > Len(owners) /\ phase' = "enqueue" /\ index' = 1
      /\ UNCHANGED <<kind, marked, gray, owners, snapshot>>
  BY DEF EndClear, EnterPhase
<1>3. CollectorType'
  BY <1>1, <1>2, QuietHeap, CollectorFacts DEF CollectorType, Phases
<1>4. gray = {}
  BY <1>2, CollectorFacts DEF MarkOK
<1>5. MarkOK' /\ Survivors' = Survivors /\ (\A o, M : Honoured(o, M)' <=> Honoured(o, M))
  BY <1>1, <1>2, <1>4, SettledFacts
<1>6. ClearOK'
  <2>1. \A i \in 1..Len(owners) : Visited(i) /\ ~(i < index')
    BY <1>2, CollectorFacts DEF Visited
  <2>2. ASSUME NEW i \in 1..Len(owners)
        PROVE  /\ Honoured(owners[i], marked)
               /\ slot[owners[i]] \in Or(Survivors) /\ key[owners[i]] \in Or(Survivors)
    BY <1>2, <2>1, CollectorFacts DEF ClearOK
  <2>3. ASSUME NEW i \in 1..Len(owners') PROVE Honoured(owners[i], marked)'
    BY <1>2, <1>5, <2>2
  <2> QED
    BY <1>1, <1>2, <1>5, <2>1, <2>2, <2>3, QuietHeap DEF ClearOK, Or
<1>7. PassOK' /\ ExactOK'
  BY <1>2 DEF PassOK, ExactOK
<1> QED
  BY <1>1, <1>3, <1>5, <1>6, <1>7, QuietStep DEF CollectionOK

LEMMA SkipOwnerStep ==
  ASSUME IInv, UNCHANGED roles, SkipOwner
  PROVE  IInv'
<1>1. Quiet /\ Settled
  BY DEF SkipOwner, Quiet, Settled
<1>2. /\ phase = "enqueue" /\ phase' = "enqueue" /\ index \in 1..Len(owners)
      /\ index' = index + 1 /\ ~DeadRegistration(owners[index])
      /\ UNCHANGED <<kind, marked, gray, owners, snapshot>>
  BY CollectorFacts DEF SkipOwner
<1>3. CollectorType'
  BY <1>1, <1>2, QuietHeap, CollectorFacts DEF CollectorType, Phases
<1>4. gray = {}
  BY <1>2, CollectorFacts DEF MarkOK
<1>5. MarkOK' /\ Survivors' = Survivors /\ (\A o, M : Honoured(o, M)' <=> Honoured(o, M))
  BY <1>1, <1>2, <1>4, SettledFacts
<1>6. target[owners[index]] \in Or(Survivors)
  BY <1>2, SurvivorIs DEF DeadRegistration, LiveTarget, Or
<1>7. ClearOK'
  <2>1. ASSUME NEW i \in 1..Len(owners)
        PROVE  /\ Honoured(owners[i], marked)
               /\ slot[owners[i]] \in Or(Survivors) /\ key[owners[i]] \in Or(Survivors)
               /\ i < index' => target[owners[i]] \in Or(Survivors)
    <3>1. i < index' => i = index \/ i < index
      BY <1>2, CollectorFacts
    <3> QED
      BY <1>2, <1>6, <3>1, CollectorFacts DEF ClearOK, Visited
  <2>2. ASSUME NEW i \in 1..Len(owners') PROVE Honoured(owners[i], marked)'
    BY <1>2, <1>5, <2>1
  <2> QED
    BY <1>1, <1>2, <1>5, <2>1, <2>2, QuietHeap DEF ClearOK, Or
<1>8. PassOK' /\ ExactOK'
  BY <1>2 DEF PassOK, ExactOK
<1> QED
  BY <1>1, <1>3, <1>5, <1>7, <1>8, QuietStep DEF CollectionOK

-----------------------------------------------------------------------------
(***************************************************************************)
(* Clearing weak slots, enqueueing registrations, sweeping.                *)
(***************************************************************************)
LEMMA OwnerCleared ==
  ASSUME IInv, UNCHANGED roles, ClearStep
  PROVE  IInv'
<1>1. Objects' = Objects /\ Option' = Option
  BY DEF Objects, Option
<1>2. /\ phase = "clear" /\ phase' = "clear" /\ index \in 1..Len(owners)
      /\ index' = index + 1
      /\ UNCHANGED <<allocated, old, edges, target, held, roots, kept, pending, jobs,
                     finalized, kind, marked, gray, owners, snapshot>>
  BY CollectorFacts DEF ClearStep, mutatorVars, queueVars
<1>3. PICK c \in Objects : c = owners[index]
  BY <1>2, CollectorFacts
<1>4. /\ slot' = [slot EXCEPT ![c] = IF slot[c] # None /\ LiveTarget(slot[c])
                                     THEN slot[c] ELSE None]
      /\ key' = [key EXCEPT ![c] = IF DeadKey(c) THEN None ELSE key[c]]
      /\ value' = [value EXCEPT ![c] = IF DeadKey(c) THEN None ELSE value[c]]
  BY <1>3 DEF ClearStep
<1>5. /\ slot \in [Objects -> Option] /\ key \in [Objects -> Option]
      /\ value \in [Objects -> Option] /\ None \in Option
  BY CollectorFacts DEF ObjectsType, Option
<1>6. /\ slot' \in [Objects -> Option] /\ key' \in [Objects -> Option]
      /\ value' \in [Objects -> Option]
  BY <1>4, <1>5
<1>7. \A x \in Objects :
        /\ slot'[x] \in {slot[x], None}
        /\ \/ key'[x] = key[x] /\ value'[x] = value[x]
           \/ key'[x] = None /\ value'[x] = None
  BY <1>4, <1>5
<1>8. slot'[c] \in Or(Survivors) /\ key'[c] \in Or(Survivors)
  <2>1. slot'[c] = None \/ (slot'[c] = slot[c] /\ LiveTarget(slot[c]))
    BY <1>4, <1>5
  <2>2. key'[c] = None \/ (key'[c] = key[c] /\ LiveTarget(key[c]))
    BY <1>4, <1>5 DEF DeadKey
  <2> QED
    BY <2>1, <2>2, SurvivorIs DEF LiveTarget, Or
<1>9. ObjectsType'
  BY <1>1, <1>2, <1>6, CollectorFacts DEF ObjectsType
<1>10. CollectorType'
  BY <1>1, <1>2, CollectorFacts DEF CollectorType
<1>11. \A S : \A x \in Objects : Points(x, S) => Points(x, S)'
  BY <1>2, <1>7 DEF Points, Strong, Or
<1>12. HeapOK'
  <2>1. HostWithin(allocated)'
    BY <1>2, CollectorFacts DEF HeapOK, HostWithin, QueueWithin
  <2>2. \A x \in allocated' : Points(x, allocated)'
    BY <1>2, <1>11, CollectorFacts DEF HeapOK, Points, Strong
  <2>3. \A x \in Objects' \ allocated' : Points(x, {})'
    BY <1>1, <1>2, <1>11, CollectorFacts DEF HeapOK
  <2>4. \A x \in Objects' : key'[x] = None => value'[x] = None
    BY <1>1, <1>7, CollectorFacts DEF HeapOK
  <2> QED
    BY <2>1, <2>2, <2>3, <2>4 DEF HeapOK
<1>13. QueueOK'
  BY <1>2, SameQueues DEF IInv
<1>14. Survivors' = Survivors
  BY <1>2 DEF Survivors, LiveTarget
<1>15. MarkOK /\ ClearOK /\ Survivors \subseteq Objects
  BY <1>2, CollectorFacts DEF Survivors
<1>16. MarkOK'
  <2>1. HostWithin(Survivors)'
    BY <1>2, <1>14, <1>15 DEF MarkOK, HostWithin, QueueWithin
  <2>2. ASSUME NEW x \in Survivors' \ gray'
        PROVE  /\ Strong(x, Survivors)'
               /\ IsWeakOwner(x)' => Listed(x)' \/ (kind' = "minor" /\ Points(x, old)')
    <3>1. x \in Survivors \ gray /\ x \in Objects
      BY <1>2, <1>14, <1>15
    <3>2. IsWeakOwner(x)' => IsWeakOwner(x)
      BY <1>2, <1>7, <3>1 DEF IsWeakOwner
    <3>3. Points(x, old) => Points(x, old)'
      BY <1>2, <1>11, <3>1 DEF Points, Strong
    <3>4. Listed(x)' = Listed(x) /\ (Strong(x, Survivors)' = Strong(x, Survivors))
      BY <1>2, <1>14 DEF Listed, Strong, Or
    <3>5. /\ Strong(x, Survivors)
          /\ IsWeakOwner(x) => Listed(x) \/ (kind = "minor" /\ Points(x, old))
      BY <3>1, <1>15 DEF MarkOK
    <3> QED
      BY <3>2, <3>3, <3>4, <3>5, <1>2
  <2> QED
    BY <1>2, <1>14, <1>15, <2>1, <2>2 DEF MarkOK
<1>17. ClearOK'
  <2> SUFFICES ASSUME NEW i \in 1..Len(owners')
               PROVE  /\ Honoured(owners[i], marked)'
                      /\ i < index' => /\ slot'[owners'[i]] \in Or(Survivors')
                                       /\ key'[owners'[i]] \in Or(Survivors')
    BY <1>2 DEF ClearOK, Visited, Or
  <2>1. PICK x \in Objects : x = owners[i] /\ x = owners'[i]
    BY <1>2, CollectorFacts
  <2>2. Honoured(x, marked)
    BY <2>1, <1>2, <1>15 DEF ClearOK
  <2>3. Honoured(owners[i], marked)'
    <3>1. (key'[x] # None /\ LiveIn(key'[x], marked)) => value'[x] \in Or(Survivors)
      BY <2>2, <1>7 DEF Honoured
    <3> QED
      BY <3>1, <2>1, <1>2, <1>14 DEF Honoured, LiveIn, Or
  <2>4. ASSUME i < index' PROVE slot'[x] \in Or(Survivors) /\ key'[x] \in Or(Survivors)
    <3>1. CASE i = index
      BY <3>1, <2>1, <1>3, <1>8
    <3>2. CASE i < index
      <4>1. slot[x] \in Or(Survivors) /\ key[x] \in Or(Survivors)
        BY <3>2, <2>1, <1>2, <1>15 DEF ClearOK, Visited
      <4> QED
        BY <4>1, <1>7 DEF Or
    <3> QED
      BY <3>1, <3>2, <2>4, <1>2, CollectorFacts
  <2> QED
    BY <2>1, <2>3, <2>4, <1>14 DEF Or
<1>18. PassOK' /\ ExactOK'
  BY <1>2, CollectorFacts DEF PassOK, ExactOK
<1> QED
  BY <1>9, <1>10, <1>12, <1>13, <1>16, <1>17, <1>18 DEF IInv, TypeOK, CollectionOK

LEMMA QueueAppend ==
  ASSUME NEW p \in Seq(Objects \X Option), NEW q \in Seq(Objects \X Option),
         NEW e \in Objects \X Option
  PROVE  /\ Len(p \o q) \in Nat
         /\ Len(p \o Append(q, e)) = Len(p \o q) + 1
         /\ \A i \in 1..Len(p \o q) : (p \o Append(q, e))[i] = (p \o q)[i]
         /\ (p \o Append(q, e))[Len(p \o q) + 1] = e
<1>1. /\ p \o q \in Seq(Objects \X Option)
      /\ p \o Append(q, e) = Append(p \o q, e)
  OBVIOUS
<1> QED
  BY <1>1

LEMMA OwnerEnqueued ==
  ASSUME IInv, UNCHANGED roles, EnqueueOwner
  PROVE  IInv'
<1>1. Objects' = Objects /\ Option' = Option
  BY DEF Objects, Option
<1>2. /\ phase = "enqueue" /\ phase' = "enqueue" /\ index \in 1..Len(owners)
      /\ index' = index + 1
      /\ UNCHANGED <<allocated, old, edges, key, value, slot, roots, kept, jobs,
                     kind, marked, gray, owners, snapshot>>
  BY CollectorFacts DEF EnqueueOwner, mutatorVars
<1>3. PICK c \in Objects : c = owners[index]
  BY <1>2, CollectorFacts
<1>4. /\ target[c] # None
      /\ pending' = Append(pending, <<c, held[c]>>)
      /\ target' = [target EXCEPT ![c] = None]
      /\ held' = [held EXCEPT ![c] = None]
      /\ finalized' = finalized \cup {c}
  BY <1>3 DEF EnqueueOwner, DeadRegistration, Emptied
<1>5. PICK h \in Option : h = held[c]
  BY CollectorFacts DEF ObjectsType
<1>6. /\ target \in [Objects -> Option] /\ held \in [Objects -> Option] /\ None \in Option
      /\ pending \in Seq(Objects \X Option) /\ jobs \in Seq(Objects \X Option)
      /\ <<c, h>> \in Objects \X Option
  BY CollectorFacts DEF ObjectsType, Option
<1>7. /\ pending' \in Seq(Objects \X Option) /\ Len(pending) \in Nat
      /\ Len(pending') = Len(pending) + 1
      /\ \A i \in 1..Len(pending) : pending'[i] = pending[i]
      /\ pending'[Len(pending) + 1] = <<c, h>>
  BY <1>4, <1>5, <1>6
<1>8. \A x \in Objects : /\ target'[x] \in {target[x], None}
                         /\ held'[x] \in {held[x], None}
  BY <1>4, <1>6
<1>9. ObjectsType'
  BY <1>1, <1>2, <1>4, <1>6, <1>7, CollectorFacts DEF ObjectsType
<1>10. CollectorType'
  BY <1>1, <1>2, CollectorFacts DEF CollectorType
<1>11. MarkOK /\ ClearOK /\ gray = {} /\ Survivors \subseteq Objects
       /\ Survivors \subseteq allocated
  BY <1>2, CollectorFacts DEF Survivors, MarkOK
<1>12. c \in Survivors /\ h \in Or(Survivors)
  BY <1>2, <1>3, <1>5, <1>11 DEF MarkOK, Strong
<1>13. Survivors' = Survivors
  BY <1>2 DEF Survivors, LiveTarget
<1>14. ASSUME NEW S, c \in S, h \in Or(S), HostWithin(S)
       PROVE  /\ roots' \subseteq S /\ kept' \subseteq S
              /\ QueueWithin(pending', S) /\ QueueWithin(jobs', S)
  <2>1. QueueWithin(pending', S)
    <3> SUFFICES ASSUME NEW i \in 1..Len(pending')
                 PROVE  pending'[i][1] \in S /\ pending'[i][2] \in Or(S)
      BY DEF QueueWithin
    <3>1. CASE i \in 1..Len(pending)
      BY <3>1, <1>7, <1>14 DEF HostWithin, QueueWithin
    <3>2. CASE i = Len(pending) + 1
      BY <3>2, <1>7, <1>14
    <3> QED
      BY <3>1, <3>2, <1>7
  <2> QED
    BY <2>1, <1>2, <1>14 DEF HostWithin
<1>15. \A S : \A x \in Objects : Points(x, S) => Points(x, S)'
  BY <1>2, <1>8 DEF Points, Strong, Or
<1>16. HeapOK'
  <2>1. HostWithin(allocated)'
    <3>1. c \in allocated /\ h \in Or(allocated) /\ HostWithin(allocated)
      BY <1>11, <1>12, CollectorFacts DEF HeapOK, Or
    <3> QED
      BY <3>1, <1>2, <1>14 DEF HostWithin
  <2>2. \A x \in allocated' : Points(x, allocated)'
    BY <1>2, <1>15, CollectorFacts DEF HeapOK, Points, Strong
  <2>3. \A x \in Objects' \ allocated' : Points(x, {})'
    BY <1>1, <1>2, <1>15, CollectorFacts DEF HeapOK
  <2>4. \A x \in Objects' : key'[x] = None => value'[x] = None
    BY <1>1, <1>2, CollectorFacts DEF HeapOK
  <2> QED
    BY <2>1, <2>2, <2>3, <2>4 DEF HeapOK
<1>17. QueueOK'
  <2> DEFINE p == jobs \o pending
             q == jobs \o Append(pending, <<c, h>>)
  <2>1. jobs' \o pending' = q
    BY <1>2, <1>4, <1>5
  <2>2. /\ Len(p) \in Nat /\ Len(q) = Len(p) + 1
        /\ \A i \in 1..Len(p) : q[i] = p[i]
        /\ q[Len(p) + 1] = <<c, h>>
    BY <1>6, QueueAppend
  <2>3. /\ \A i, j \in 1..Len(p) : p[i][1] = p[j][1] => i = j
        /\ \A i \in 1..Len(p) : p[i][1] \in finalized
        /\ \A o \in Objects : target[o] # None => o \notin finalized
    BY DEF IInv, QueueOK
  <2> HIDE DEF p, q
  <2>4. \A i \in 1..Len(p) : p[i][1] # c
    BY <1>4, <2>3
  <2>5. \A i, j \in 1..Len(q) : q[i][1] = q[j][1] => i = j
    <3> SUFFICES ASSUME NEW i \in 1..Len(q), NEW j \in 1..Len(q), q[i][1] = q[j][1]
                 PROVE  i = j
      OBVIOUS
    <3>1. (i \in 1..Len(p) \/ i = Len(p) + 1) /\ (j \in 1..Len(p) \/ j = Len(p) + 1)
      BY <2>2
    <3> QED
      BY <3>1, <2>2, <2>3, <2>4
  <2>6. \A i \in 1..Len(q) : q[i][1] \in finalized'
    <3> TAKE i \in 1..Len(q)
    <3>1. i \in 1..Len(p) \/ i = Len(p) + 1
      BY <2>2
    <3> QED
      BY <3>1, <2>2, <2>3, <1>4
  <2>7. \A o \in Objects' : target'[o] # None => o \notin finalized'
    BY <1>1, <1>4, <1>6, <2>3
  <2> QED
    BY <2>1, <2>5, <2>6, <2>7 DEF QueueOK
<1>18. MarkOK'
  <2>1. HostWithin(Survivors)'
    BY <1>11, <1>12, <1>13, <1>14 DEF HostWithin, MarkOK
  <2>2. ASSUME NEW x \in Survivors' \ gray'
        PROVE  /\ Strong(x, Survivors)'
               /\ IsWeakOwner(x)' => Listed(x)' \/ (kind' = "minor" /\ Points(x, old)')
    <3>1. x \in Survivors \ gray /\ x \in Objects
      BY <1>2, <1>11, <1>13
    <3>2. IsWeakOwner(x)' => IsWeakOwner(x)
      BY <1>2, <1>8, <3>1 DEF IsWeakOwner
    <3>3. Points(x, old) => Points(x, old)'
      BY <1>2, <1>15, <3>1 DEF Points, Strong
    <3>4. Listed(x)' = Listed(x)
      BY <1>2 DEF Listed
    <3>5. /\ Strong(x, Survivors)
          /\ IsWeakOwner(x) => Listed(x) \/ (kind = "minor" /\ Points(x, old))
      BY <3>1, <1>11 DEF MarkOK
    <3>6. Strong(x, Survivors)'
      BY <3>1, <3>5, <1>2, <1>8, <1>13 DEF Strong, Or
    <3> QED
      BY <3>2, <3>3, <3>4, <3>5, <3>6, <1>2
  <2> QED
    BY <1>2, <1>11, <1>13, <2>1, <2>2 DEF MarkOK
<1>19. ClearOK'
  <2> SUFFICES ASSUME NEW i \in 1..Len(owners')
               PROVE  /\ Honoured(owners[i], marked)'
                      /\ slot'[owners'[i]] \in Or(Survivors')
                      /\ key'[owners'[i]] \in Or(Survivors')
                      /\ i < index' => target'[owners'[i]] \in Or(Survivors')
    BY <1>2 DEF ClearOK, Or
  <2>1. PICK x \in Objects : x = owners[i] /\ x = owners'[i]
    BY <1>2, CollectorFacts
  <2>2. /\ Honoured(x, marked)
        /\ slot[x] \in Or(Survivors) /\ key[x] \in Or(Survivors)
        /\ i < index => target[x] \in Or(Survivors)
    BY <2>1, <1>2, <1>11 DEF ClearOK, Visited
  <2>3. Honoured(owners[i], marked)'
    BY <2>1, <2>2, <1>2, <1>13 DEF Honoured, LiveIn, Or
  <2>4. ASSUME i < index' PROVE target'[x] \in Or(Survivors)
    <3>1. CASE i = index
      BY <3>1, <2>1, <1>3, <1>4, <1>6 DEF Or
    <3>2. CASE i < index
      BY <3>2, <2>2, <1>8 DEF Or
    <3> QED
      BY <3>1, <3>2, <2>4, <1>2, CollectorFacts
  <2> QED
    BY <2>1, <2>2, <2>3, <2>4, <1>2, <1>13 DEF Or
<1>20. PassOK' /\ ExactOK'
  BY <1>2, CollectorFacts DEF PassOK, ExactOK
<1> QED
  BY <1>9, <1>10, <1>16, <1>17, <1>18, <1>19, <1>20 DEF IInv, TypeOK, CollectionOK

\* Once every owner has been visited, survivors name survivors only.
LEMMA SurvivorsClosed ==
  ASSUME IInv, phase = "enqueue", index > Len(owners), NEW o \in Survivors
  PROVE  Points(o, Survivors)
<1>1. /\ MarkOK /\ ClearOK /\ gray = {} /\ o \in Objects
      /\ key[o] = None => value[o] = None
  BY CollectorFacts DEF MarkOK, Survivors, HeapOK
<1>2. Strong(o, Survivors)
  BY <1>1 DEF MarkOK
<1>3. CASE Listed(o)
  <2>1. PICK i \in 1..Len(owners) : owners[i] = o
    BY <1>3 DEF Listed
  <2>2. i < index
    BY CollectorFacts
  <2>3. /\ Honoured(o, marked) /\ slot[o] \in Or(Survivors)
        /\ key[o] \in Or(Survivors) /\ target[o] \in Or(Survivors)
    BY <1>1, <2>1, <2>2 DEF ClearOK, Visited
  <2>4. value[o] \in Or(Survivors)
    <3>1. CASE key[o] = None
      BY <1>1, <3>1 DEF Or
    <3>2. CASE key[o] # None
      <4>1. LiveIn(key[o], marked)
        BY <2>3, <3>2, SurvivorIs DEF Or, LiveIn
      <4> QED
        BY <2>3, <3>2, <4>1 DEF Honoured
    <3> QED
      BY <3>1, <3>2
  <2> QED
    BY <1>2, <2>3, <2>4 DEF Points
<1>4. CASE kind = "minor" /\ Points(o, old)
  <2>1. old \subseteq Survivors
    BY <1>4, SurvivorIs
  <2> QED
    BY <1>4, <2>1 DEF Points, Strong, Or
<1>5. CASE ~IsWeakOwner(o)
  BY <1>1, <1>2, <1>5 DEF IsWeakOwner, Points, Or
<1> QED
  BY <1>1, <1>3, <1>4, <1>5 DEF MarkOK

LEMMA SweepStep ==
  ASSUME IInv, UNCHANGED roles, NEW promoted, Sweep(promoted)
  PROVE  IInv'
<1>1. Objects' = Objects /\ Option' = Option
  BY DEF Objects, Option
<1>2. /\ phase = "enqueue" /\ index > Len(owners)
      /\ allocated' = allocated \ Dead
      /\ old' = (old \ Dead) \cup (IF kind = "minor" THEN promoted \cap marked ELSE {})
      /\ edges' = [o \in Objects |-> IF o \in Dead THEN {} ELSE edges[o]]
      /\ key' = [o \in Objects |-> IF o \in Dead THEN None ELSE key[o]]
      /\ value' = [o \in Objects |-> IF o \in Dead THEN None ELSE value[o]]
      /\ slot' = [o \in Objects |-> IF o \in Dead THEN None ELSE slot[o]]
      /\ target' = [o \in Objects |-> IF o \in Dead THEN None ELSE target[o]]
      /\ held' = [o \in Objects |-> IF o \in Dead THEN None ELSE held[o]]
      /\ UNCHANGED <<roots, kept, pending, jobs, finalized>>
      /\ Abandon
  BY DEF Sweep, Swept, mutatorVars, queueVars
<1>3. allocated' = Survivors /\ Dead = allocated \ Survivors /\ Survivors \subseteq allocated
  BY <1>2 DEF Survivors, Dead
<1>4. marked \subseteq Survivors
  BY SurvivorIs
<1>5. old' \subseteq Survivors
  BY <1>2, <1>3, <1>4, CollectorFacts
<1>6. ObjectsType'
  <2>1. IsFiniteSet(Survivors)
    BY <1>3, FS_Subset, CollectorFacts DEF ObjectsType
  <2>2. /\ edges' \in [Objects -> SUBSET Objects] /\ key' \in [Objects -> Option]
        /\ value' \in [Objects -> Option] /\ slot' \in [Objects -> Option]
        /\ target' \in [Objects -> Option] /\ held' \in [Objects -> Option]
    BY <1>2, CollectorFacts DEF ObjectsType, Option
  <2> QED
    BY <1>1, <1>2, <1>3, <1>5, <2>1, <2>2, CollectorFacts DEF ObjectsType
<1>7. CollectorType' /\ CollectionOK'
  BY <1>2 DEF Abandon, EnterPhase, CollectorType, CollectionOK, Phases
<1>8. HeapOK'
  <2>1. HostWithin(allocated)'
    BY <1>2, <1>3, CollectorFacts DEF MarkOK, HostWithin, QueueWithin
  <2>2. ASSUME NEW x \in allocated' PROVE Points(x, allocated)'
    <3>1. Points(x, Survivors) /\ x \notin Dead /\ x \in Objects
      BY <1>2, <1>3, SurvivorsClosed, CollectorFacts
    <3>2. /\ edges'[x] = edges[x] /\ key'[x] = key[x] /\ value'[x] = value[x]
          /\ slot'[x] = slot[x] /\ target'[x] = target[x] /\ held'[x] = held[x]
      BY <1>2, <3>1
    <3> QED
      BY <1>3, <3>1, <3>2 DEF Points, Strong, Or
  <2>3. ASSUME NEW x \in Objects' \ allocated' PROVE Points(x, {})'
    <3>1. x \in Objects
      BY <1>1
    <3>2. CASE x \in Dead
      BY <1>2, <3>1, <3>2 DEF Points, Strong, Or
    <3>3. CASE x \notin Dead
      <4>1. Points(x, {})
        BY <1>2, <2>3, <3>1, <3>3, CollectorFacts DEF HeapOK
      <4>2. /\ edges'[x] = edges[x] /\ key'[x] = key[x] /\ value'[x] = value[x]
            /\ slot'[x] = slot[x] /\ target'[x] = target[x] /\ held'[x] = held[x]
        BY <1>2, <3>1, <3>3
      <4> QED
        BY <4>1, <4>2 DEF Points, Strong, Or
    <3> QED
      BY <3>2, <3>3
  <2>4. \A x \in Objects' : key'[x] = None => value'[x] = None
    BY <1>1, <1>2, CollectorFacts DEF HeapOK
  <2> QED
    BY <2>1, <2>2, <2>3, <2>4 DEF HeapOK
<1>9. QueueOK'
  BY <1>1, <1>2 DEF IInv, QueueOK
<1> QED
  BY <1>6, <1>7, <1>8, <1>9 DEF IInv, TypeOK

LEMMA CollectorKeeps ==
  ASSUME IInv, UNCHANGED roles, Collect
  PROVE  IInv'
<1>1. CASE EnqueueFails
  BY <1>1, AbandonStep DEF EnqueueFails, Quiet
<1>2. CASE MarkFails
  BY <1>2, AbandonStep DEF MarkFails, Quiet
<1> QED
  BY <1>1, <1>2, StartStep, TraceStep, FirstPassStep, OwnerPassed, EndPassStep,
     EndDrainStep, OwnerCleared, EndClearStep, SkipOwnerStep, OwnerEnqueued, SweepStep
  DEF Collect

\* The inductive invariant.
THEOREM Invariant == Spec => []IInv
<1>1. IInv /\ [Next]_vars => IInv'
  <2> SUFFICES ASSUME IInv, [Next]_vars PROVE IInv'
    OBVIOUS
  <2>1. CASE UNCHANGED vars
    <3>1. Quiet /\ UNCHANGED collectorVars
      BY <2>1 DEF vars, Quiet, objectVars, mutatorVars, queueVars, collectorVars
    <3>2. CollectorType'
      BY <3>1, QuietHeap, CollectorFacts DEF CollectorType, collectorVars
    <3>3. CASE phase = "run"
      BY <3>1, <3>2, <3>3, QuietStep DEF CollectionOK, collectorVars
    <3>4. CASE phase # "run"
      <4>1. Settled /\ UNCHANGED <<phase, index, snapshot>>
        BY <3>1 DEF Settled, collectorVars
      <4>2. /\ Survivors' = Survivors /\ MarkOK'
            /\ \A o, M : Honoured(o, M)' <=> Honoured(o, M)
        BY <3>1, <3>4, <4>1, SettledFacts, CollectorFacts DEF MarkOK
      <4>3. PassOK'
        BY <3>4, <4>1, <4>2, <3>1, QuietHeap, CollectorFacts DEF PassOK, Passed, Settled
      <4>4. ClearOK'
        BY <3>4, <4>1, <4>2, <3>1, QuietHeap, CollectorFacts
        DEF ClearOK, Visited, Settled, Or
      <4>5. ExactOK'
        BY <3>4, <4>1, <3>1, QuietLive, CollectorFacts DEF ExactOK, Settled
      <4> QED
        BY <3>1, <3>2, <4>2, <4>3, <4>4, <4>5, QuietStep DEF CollectionOK
    <3> QED
      BY <3>3, <3>4
  <2>2. CASE Next
    BY <2>2, MutatorKeeps, CollectorKeeps DEF Next, MutatorStep
  <2> QED
    BY <2>1, <2>2
<1> QED
  BY InitOK, <1>1, PTL DEF Spec

-----------------------------------------------------------------------------
\* When close_weak leaves its loop, a major collection has marked exactly the live
\* objects and a minor one every live young object, for every heap, every order of
\* owners and every chain of ephemerons.
THEOREM ClosureIsExact == Spec => []ClosureExact
<1>1. IInv => ClosureExact
  <2> SUFFICES ASSUME IInv, phase = "clear", index = 1
               PROVE  Live \ old \subseteq marked /\ (kind = "major" => marked = Live)
    BY DEF ClosureExact
  <2>1. gray = {} /\ \A i \in 1..Len(owners) : Honoured(owners[i], marked)
    BY CollectorFacts DEF MarkOK, ClearOK
  <2>2. Live \subseteq Survivors
    BY <2>1, SurvivorsRetain
  <2>3. kind = "major" => marked \subseteq Live
    BY CollectorFacts DEF ExactOK
  <2> QED
    BY <2>2, <2>3, SurvivorIs
<1> QED
  BY <1>1, Invariant, PTL

\* No collection, complete or abandoned, leaves a live object, a root or a cleanup
\* record naming a reclaimed one.
THEOREM SlotsNeverStale == Spec => []NoStaleSlots
<1>1. IInv => NoStaleSlots
  <2> SUFFICES ASSUME IInv PROVE NoStaleSlots
    OBVIOUS
  <2>1. HeldByHost \subseteq allocated
    BY HostIn, CollectorFacts DEF HeapOK
  <2>2. \A o \in allocated : Points(o, allocated)
    BY CollectorFacts DEF HeapOK
  <2>3. Retains(allocated)
    BY <2>2 DEF Retains, Points, Strong, Or
  <2>4. Live \subseteq allocated
    BY <2>1, <2>3, LiveLeast, CollectorFacts
  <2>5. \A o \in Live : Targets(o) \subseteq allocated
    BY <2>2, <2>4 DEF Targets, Some, Points, Strong, Or
  <2> QED
    BY <2>1, <2>5 DEF NoStaleSlots
<1> QED
  BY <1>1, Invariant, PTL

\* No registration is cleaned up twice, over any number of collections that a full
\* queue abandons half way.
THEOREM CleanedUpOnce == Spec => []CleanupOnce
<1>1. IInv => CleanupOnce
  <2> SUFFICES ASSUME IInv PROVE CleanupOnce
    OBVIOUS
  <2> DEFINE q == jobs \o pending
             queued == [i \in DOMAIN q |-> q[i][1]]
  <2>1. q \in Seq(Objects \X Option) /\ DOMAIN q = 1..Len(q)
    BY CollectorFacts DEF ObjectsType
  <2>2. /\ \A i, j \in 1..Len(q) : q[i][1] = q[j][1] => i = j
        /\ \A i \in 1..Len(q) : q[i][1] \in finalized
        /\ \A o \in Objects : target[o] # None => o \notin finalized
    BY DEF IInv, QueueOK
  <2>3. Cells \subseteq Objects
    BY CollectorFacts, InstancesAssumption DEF ObjectsType, Objects, Cells
  <2> HIDE DEF q
  <2>4. IsInjective(queued)
    BY <2>1, <2>2 DEF IsInjective
  <2>5. ToSet(queued) \subseteq finalized
    BY <2>1, <2>2 DEF ToSet
  <2>6. \A c \in Cells : target[c] # None => c \notin finalized
    BY <2>2, <2>3
  <2> QED
    BY <2>4, <2>5, <2>6 DEF CleanupOnce, q
<1> QED
  BY <1>1, Invariant, PTL

\* Only a collector step that enqueues a registration lengthens the queue.
LEMMA QueueGrowth ==
  ASSUME IInv, [Next]_vars, Len(pending') > Len(pending)
  PROVE  EnqueueOwner
<1>1. pending' # pending
  <2>1. Len(pending) \in Nat
    BY CollectorFacts DEF ObjectsType
  <2> QED
    BY <2>1
<1>2. ~Schedule
  BY CollectorFacts DEF Schedule, ObjectsType
<1>3. ~Mutate /\ ~EndJob /\ ~VmEndJob
  BY <1>1, <1>2, Zenon
  DEF Mutate, EndJob, VmEndJob, StartJob, New, Store, Load, DropRoot, SetEntry, DeleteEntry,
      NewWeakRef, Deref, Register, Unregister, Complete, queueVars
<1>4. UNCHANGED vars => pending' = pending
  BY DEF vars
<1>5. Collect
  BY <1>1, <1>3, <1>4 DEF Next
<1> QED
  BY <1>1, <1>5, Zenon
  DEF Collect, StartCollection, Trace, FirstPass, PassStep, EndPass, EndDrain, ClearStep,
      EndClear, SkipOwner, EnqueueFails, MarkFails, Sweep, queueVars

\* A step that changes a weak slot creates its WeakRef, clears it or sweeps it.
LEMMA SlotChange ==
  ASSUME [Next]_vars, slot' # slot
  PROVE  \/ \E w \in WeakRefs, t \in roots : NewWeakRef(w, t)
         \/ ClearStep
         \/ \E cohorts \in SUBSET Cohorts : Sweep(UNION cohorts)
<1>1. CASE Mutate
  BY <1>1, Zenon
  DEF Mutate, StartJob, New, Store, Load, DropRoot, SetEntry, DeleteEntry, Deref, Register,
      Unregister, Schedule, Complete, objectVars
<1>2. CASE EndJob \/ VmEndJob
  BY <1>2, Zenon DEF EndJob, VmEndJob, objectVars
<1>3. CASE Collect
  BY <1>3, Zenon
  DEF Collect, StartCollection, Trace, FirstPass, PassStep, EndPass, EndDrain, EndClear,
      SkipOwner, EnqueueOwner, EnqueueFails, MarkFails, objectVars
<1>4. UNCHANGED vars => slot' = slot
  BY DEF vars
<1> QED
  BY <1>1, <1>2, <1>3, <1>4 DEF Next

\* A registration is enqueued only when its target is dead, and within a job a
\* WeakRef keeps the target that was created or dereferenced in it.
THEOREM EffectsAreSafe == Spec => EffectsSafe
<1> DEFINE Enqueues == Len(pending') > Len(pending) => target[Last(pending')[1]] \notin Live
           Keeps == \A w \in WeakRefs :
                      inJob /\ w \in allocated /\ w \in allocated' /\ slot[w] \in kept
                        => slot'[w] = slot[w]
<1>1. ASSUME IInv, [Next]_vars PROVE Enqueues
  <2> SUFFICES ASSUME Len(pending') > Len(pending) PROVE target[Last(pending')[1]] \notin Live
    OBVIOUS
  <2>1. EnqueueOwner
    BY <1>1, QueueGrowth
  <2>2. PICK c \in Objects : c = owners[index]
    BY <1>1, <2>1, CollectorFacts DEF EnqueueOwner
  <2>3. /\ phase = "enqueue" /\ pending' = Append(pending, <<c, held[c]>>)
        /\ ~LiveTarget(target[c])
    BY <2>1, <2>2 DEF EnqueueOwner, DeadRegistration
  <2>4. PICK h \in Option : h = held[c]
    BY <1>1, CollectorFacts DEF ObjectsType
  <2>5. Last(pending') = <<c, h>>
    <3>1. pending \in Seq(Objects \X Option) /\ <<c, h>> \in Objects \X Option
      BY <1>1, CollectorFacts DEF ObjectsType
    <3> QED
      BY <2>3, <2>4, <3>1 DEF Last
  <2>6. gray = {} /\ \A i \in 1..Len(owners) : Honoured(owners[i], marked)
    BY <1>1, <2>3, CollectorFacts DEF MarkOK, ClearOK
  <2>7. Live \subseteq Survivors
    BY <1>1, <2>3, <2>6, SurvivorsRetain
  <2>8. target[c] \notin Survivors
    BY <2>3 DEF Survivors
  <2> QED
    BY <2>5, <2>7, <2>8
<1>2. ASSUME IInv, [Next]_vars PROVE Keeps
  <2> SUFFICES ASSUME NEW w \in WeakRefs, w \in allocated, w \in allocated',
                      slot[w] \in kept, slot' # slot
               PROVE  slot'[w] = slot[w]
    OBVIOUS
  <2>1. w \in Objects /\ slot \in [Objects -> Option]
    BY <1>2, CollectorFacts DEF ObjectsType
  <2>2. CASE \E v \in WeakRefs, t \in roots : NewWeakRef(v, t)
    <3> PICK v \in WeakRefs, t \in roots : NewWeakRef(v, t)
      BY <2>2
    <3>1. v \notin allocated /\ slot' = [slot EXCEPT ![v] = t]
      BY DEF NewWeakRef, FreshHeld, Fresh
    <3> QED
      BY <2>1, <3>1
  <2>3. CASE ClearStep
    <3>1. phase = "clear" /\ slot[w] # None /\ LiveTarget(slot[w])
      <4>1. phase = "clear" /\ kept \subseteq allocated
        BY <1>2, <2>3, CollectorFacts DEF ClearStep, HeapOK, HostWithin
      <4>2. slot[w] \in Survivors
        BY <1>2, <4>1, CollectorFacts DEF MarkOK, HostWithin
      <4> QED
        BY <1>2, <4>1, <4>2, CollectorFacts DEF Survivors
    <3>2. slot' = [slot EXCEPT ![owners[index]] =
                     IF slot[owners[index]] # None /\ LiveTarget(slot[owners[index]])
                     THEN slot[owners[index]] ELSE None]
      BY <2>3 DEF ClearStep
    <3> QED
      BY <2>1, <3>1, <3>2
  <2>4. CASE \E cohorts \in SUBSET Cohorts : Sweep(UNION cohorts)
    <3>1. allocated' = allocated \ Dead
          /\ slot' = [o \in Objects |-> IF o \in Dead THEN None ELSE slot[o]]
      BY <2>4 DEF Sweep, Swept
    <3> QED
      BY <2>1, <3>1
  <2> QED
    BY <1>2, <2>2, <2>3, <2>4, SlotChange
<1>3. IInv /\ [Next]_vars => [Enqueues /\ Keeps]_vars
  BY <1>1, <1>2
<1> QED
  BY <1>3, Invariant, PTL DEF EffectsSafe, Spec

=============================================================================
