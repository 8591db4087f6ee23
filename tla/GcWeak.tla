-------------------------------- MODULE GcWeak --------------------------------
(***************************************************************************)
(* Conditional liveness in crates/tachyon-gc: ephemerons, weak references, *)
(* finalization registrations, job-scoped kept objects and the queue of    *)
(* pending cleanups (mark.rs close_weak, weak.rs, finalization.rs,         *)
(* roots.rs), with the VM operations that use them (WeakMap, WeakRef and   *)
(* FinalizationRegistry).                                                  *)
(*                                                                         *)
(* Module GcHeap is the detailed model of strong marking, remembered cards *)
(* and sweeping.  Here an object is young or old, remembered sources are   *)
(* the old objects with a young target, survivors of a minor collection    *)
(* may be promoted, and a sweep is one step.  The weak closure is modelled *)
(* owner by owner: its passes run over a snapshot of a list that draining  *)
(* extends.                                                                *)
(***************************************************************************)
EXTENDS Integers, FiniteSets, SequencesExt

CONSTANTS
  Instances,   \* the heaps to consider: which objects there are, and their roles
  MaxRoots,    \* bound on the references the mutator holds
  MaxPending,  \* PendingFinalizations.max_entries
  None         \* Option::None, and a value that is not a reference

VARIABLES
  roles,        \* the heap considered: chosen once, from Instances
  allocated, old,
  edges,        \* strong fields of each object
  key, value,   \* Ephemeron of a table
  slot,         \* WeakGcRef of a WeakRef
  target, held, \* FinalizationRegistration of a cell
  roots,        \* what the mutator holds
  kept,         \* KeptObjects
  inJob,        \* an ECMAScript job is running
  pending,      \* PendingFinalizations: <<cell, held value>>
  jobs,         \* FinalizationJobs.entries, rooted by the VM
  phase, kind,
  marked, gray,
  owners,       \* WeakOwners
  index,        \* next owner of the running loop
  snapshot,     \* owners_before and marks_before
  finalized     \* history: cells whose registration was enqueued or deactivated

\* What a member of Instances says.
Objects == roles.objects        \* object slots
Tables == roles.tables          \* WeakCollection storage: one ephemeron and nothing else
WeakRefs == roles.weakRefs      \* objects that hold one weak slot
Registries == roles.registries  \* FinalizationRegistry objects
Cells == roles.cells            \* FinalizationCell objects
Holders == roles.holders        \* bound: objects whose fields the program writes
Cohorts == roles.cohorts        \* bound: sets of objects promoted together, as on one span
Kinds == roles.kinds            \* collections that may run: "minor", "major"

ASSUME InstancesAssumption ==
  \A i \in Instances :
    /\ i.tables \cup i.weakRefs \cup i.registries \cup i.cells \subseteq i.objects
    /\ i.registries \cap i.cells = {}
    /\ i.holders \subseteq i.objects \ (i.tables \cup i.cells \cup i.registries)
    /\ UNION i.cohorts = i.objects
    /\ i.kinds \subseteq {"minor", "major"}
    /\ None \notin i.objects
ASSUME BoundsAssumption == MaxRoots \in Nat /\ MaxPending \in Nat

Option == Objects \cup {None}
Some(o) == {o} \ {None}

objectVars == <<edges, key, value, slot, target, held>>
mutatorVars == <<roots, kept, inJob>>
queueVars == <<pending, jobs, finalized>>
collectorVars == <<phase, kind, marked, gray, owners, index, snapshot>>
vars == <<roles, allocated, old, edges, key, value, slot, target, held, roots, kept, inJob,
          pending, jobs, phase, kind, marked, gray, owners, index, snapshot, finalized>>

Empty == [o \in Objects |-> None]

Init ==
  /\ roles \in Instances
  /\ allocated = {} /\ old = {}
  /\ edges = [o \in Objects |-> {}]
  /\ key = Empty /\ value = Empty /\ slot = Empty
  /\ target = Empty /\ held = Empty
  /\ roots = {} /\ kept = {} /\ inJob = FALSE
  /\ pending = <<>> /\ jobs = <<>>
  /\ phase = "run" /\ kind = "major"
  /\ marked = {} /\ gray = {} /\ owners = <<>>
  /\ index = 1 /\ snapshot = [owners |-> 0, marks |-> 0]
  /\ finalized = {}

-----------------------------------------------------------------------------
(***************************************************************************)
(* Mutator.                                                                *)
(***************************************************************************)
Running == phase = "run" /\ inJob
Holds(o) == Cardinality(roots \cup {o}) <= MaxRoots

StartJob ==
  /\ phase = "run" /\ ~inJob
  /\ inJob' = TRUE
  /\ UNCHANGED <<allocated, old, objectVars, roots, kept, queueVars, collectorVars>>

\* The end of a job as the heap's contract has it: the host calls
\* clear_kept_objects_at_job_boundary.
EndJob ==
  /\ Running
  /\ inJob' = FALSE
  /\ kept' = {}
  /\ UNCHANGED <<allocated, old, objectVars, roots, queueVars, collectorVars>>

\* The end of a job in tachyon-vm: promise_checkpoint_step completes and nothing
\* calls it.
VmEndJob ==
  /\ Running
  /\ inJob' = FALSE
  /\ UNCHANGED <<allocated, old, objectVars, roots, kept, queueVars, collectorVars>>

\* A fresh object is Eden.
Fresh(o) ==
  /\ Running
  /\ o \notin allocated
  /\ allocated' = allocated \cup {o}

FreshHeld(o) ==
  /\ Fresh(o)
  /\ Holds(o)
  /\ roots' = roots \cup {o}

New(o) ==
  /\ o \notin Cells \cup WeakRefs
  /\ FreshHeld(o)
  /\ UNCHANGED <<old, objectVars, kept, inJob, queueVars, collectorVars>>

Store(src, tgt) ==
  /\ Running
  /\ edges' = [edges EXCEPT ![src] = Some(tgt)]
  /\ UNCHANGED <<allocated, old, key, value, slot, target, held, mutatorVars, queueVars,
                 collectorVars>>

\* Reading a field; a registry's cells are not exposed to programs.
Load(tgt) ==
  /\ Running
  /\ Holds(tgt)
  /\ roots' = roots \cup {tgt}
  /\ UNCHANGED <<allocated, old, objectVars, kept, inJob, queueVars, collectorVars>>

DropRoot(o) ==
  /\ Running
  /\ roots' = roots \ {o}
  /\ UNCHANGED <<allocated, old, objectVars, kept, inJob, queueVars, collectorVars>>

\* WeakMap.prototype.set: a vacant or collector-cleared entry is filled, or the
\* value of the same key replaced.
SetEntry(t, k, v) ==
  /\ Running
  /\ key[t] \in {None, k}
  /\ key' = [key EXCEPT ![t] = k]
  /\ value' = [value EXCEPT ![t] = v]
  /\ UNCHANGED <<allocated, old, edges, slot, target, held, mutatorVars, queueVars,
                 collectorVars>>

\* WeakMap.prototype.delete.
DeleteEntry(t) ==
  /\ Running
  /\ key[t] \in roots
  /\ key' = [key EXCEPT ![t] = None]
  /\ value' = [value EXCEPT ![t] = None]
  /\ UNCHANGED <<allocated, old, edges, slot, target, held, mutatorVars, queueVars,
                 collectorVars>>

\* create_weak_ref_from_site: the target is kept before the WeakRef exists.
NewWeakRef(w, t) ==
  /\ FreshHeld(w)
  /\ kept' = kept \cup {t}
  /\ slot' = [slot EXCEPT ![w] = t]
  /\ UNCHANGED <<old, edges, key, value, target, held, inJob, queueVars, collectorVars>>

\* weak_ref_deref: AddToKeptObjects before the identity is exposed.
Deref(w) ==
  /\ Running
  /\ slot[w] # None
  /\ Holds(slot[w])
  /\ kept' = kept \cup {slot[w]}
  /\ roots' = roots \cup {slot[w]}
  /\ UNCHANGED <<allocated, old, objectVars, inJob, queueVars, collectorVars>>

\* finalization_registry_register: a new cell heads the registry's chain.
Register(r, c, t, h) ==
  /\ t # h
  /\ Fresh(c)
  /\ target' = [target EXCEPT ![c] = t]
  /\ held' = [held EXCEPT ![c] = h]
  /\ edges' = [edges EXCEPT ![c] = {r} \cup edges[r], ![r] = {c}]
  /\ finalized' = finalized \ {c}
  /\ UNCHANGED <<old, key, value, slot, mutatorVars, pending, jobs, collectorVars>>

\* finalization_registry_unregister deactivates the registry's active cells
\* that have the token; which cells share a token is an input.
Chain(r) == {c \in Cells \cap allocated : r \in edges[c]}
Unregister(r, cells) ==
  /\ Running
  /\ cells # {} /\ cells \subseteq {c \in Chain(r) : target[c] # None}
  /\ target' = [o \in Objects |-> IF o \in cells THEN None ELSE target[o]]
  /\ held' = [o \in Objects |-> IF o \in cells THEN None ELSE held[o]]
  /\ finalized' = finalized \cup cells
  /\ UNCHANGED <<allocated, old, edges, key, value, slot, mutatorVars, pending, jobs,
                 collectorVars>>

\* try_schedule_snapshot: all pending records become VM jobs, which are roots.
Schedule ==
  /\ phase = "run"
  /\ jobs = <<>> /\ pending # <<>>
  /\ jobs' = pending
  /\ pending' = <<>>
  /\ UNCHANGED <<allocated, old, objectVars, mutatorVars, finalized, collectorVars>>

\* finish_finalization_cleanup_job after the callback, which was given the held
\* value and may have kept it.
Complete(keeps) ==
  /\ phase = "run"
  /\ jobs # <<>>
  /\ jobs' = Tail(jobs)
  /\ keeps => Holds(Head(jobs)[2])
  /\ roots' = IF keeps THEN roots \cup Some(Head(jobs)[2]) ELSE roots
  /\ UNCHANGED <<allocated, old, objectVars, kept, inJob, pending, finalized, collectorVars>>

-----------------------------------------------------------------------------
(***************************************************************************)
(* Marking.                                                                *)
(***************************************************************************)
Referenced(queue) == UNION {{e[1]} \cup Some(e[2]) : e \in ToSet(queue)}

\* mark_pending_finalization_roots.  Mutant: only the owners are marked.
PendingRootsOwners == {e[1] : e \in ToSet(pending)}
PendingRoots == Referenced(pending)
ExactRoots == roots \cup kept \cup PendingRoots \cup Referenced(jobs)

Young(o) == o \notin old
Targets(o) == edges[o] \cup Some(key[o]) \cup Some(value[o]) \cup Some(slot[o])
              \cup Some(target[o]) \cup Some(held[o])
DirtySources(k) ==
  IF k = "minor" THEN {o \in old : \E t \in Targets(o) : Young(t)} ELSE {}

\* enqueue ignores old targets in a minor collection.
Marks(k, targets) == IF k = "minor" THEN targets \ old ELSE targets

StartCollection(k) ==
  /\ phase = "run"
  /\ phase' = "mark" /\ kind' = k
  /\ marked' = Marks(k, ExactRoots)
  /\ gray' = Marks(k, ExactRoots) \cup DirtySources(k)
  /\ owners' = <<>>
  /\ UNCHANGED <<allocated, old, objectVars, mutatorVars, queueVars, index, snapshot>>

\* drain: strong fields and the held value of a registration are enqueued, and
\* an object with a conditional edge is recorded as a weak owner.
StrongTargets(o) == edges[o] \cup Some(held[o])
IsWeakOwner(o) == slot[o] # None \/ key[o] # None \/ target[o] # None
Trace(o) ==
  /\ phase \in {"mark", "drain"}
  /\ o \in gray
  /\ marked' = marked \cup Marks(kind, StrongTargets(o))
  /\ gray' = (gray \ {o}) \cup (Marks(kind, StrongTargets(o)) \ marked)
  /\ owners' = IF IsWeakOwner(o) THEN Append(owners, o) ELSE owners
  /\ UNCHANGED <<allocated, old, objectVars, mutatorVars, queueVars, phase, kind, index,
                 snapshot>>

EnterPhase(p) == phase' = p /\ index' = 1

BeginPass ==
  /\ EnterPhase("pass")
  /\ snapshot' = [owners |-> Len(owners), marks |-> Cardinality(marked)]

FirstPass ==
  /\ phase = "mark" /\ gray = {}
  /\ BeginPass
  /\ UNCHANGED <<allocated, old, objectVars, mutatorVars, queueVars, kind, marked, gray,
                 owners>>

\* reference_live.  Mutant: a minor collection looks only at marks.
LiveTargetMarked(o) == o \in marked
LiveTarget(o) == o \in marked \/ (kind = "minor" /\ o \in old)

\* One owner of a pass: the value is enqueued when the key is live.
Admitted(o) ==
  IF key[o] # None /\ LiveTarget(key[o]) THEN Marks(kind, Some(value[o])) ELSE {}
PassStep ==
  /\ phase = "pass" /\ index <= snapshot.owners
  /\ LET new == Admitted(owners[index]) \ marked IN
     marked' = marked \cup new /\ gray' = gray \cup new
  /\ index' = index + 1
  /\ UNCHANGED <<allocated, old, objectVars, mutatorVars, queueVars, phase, kind, owners,
                 snapshot>>

EndPass ==
  /\ phase = "pass" /\ index > snapshot.owners
  /\ IF \E i \in 1..snapshot.owners : key[owners[i]] # None
     THEN EnterPhase("drain") ELSE EnterPhase("clear")
  /\ UNCHANGED <<allocated, old, objectVars, mutatorVars, queueVars, kind, marked, gray,
                 owners, snapshot>>

\* The loop ends when a pass and its drain added neither a mark nor an owner.
\* Mutant: only new owners count.
ClosedByOwners == Len(owners) = snapshot.owners
Closed == Cardinality(marked) = snapshot.marks /\ Len(owners) = snapshot.owners
EndDrain ==
  /\ phase = "drain" /\ gray = {}
  /\ \/ Closed /\ EnterPhase("clear") /\ UNCHANGED snapshot
     \/ ~Closed /\ BeginPass
  /\ UNCHANGED <<allocated, old, objectVars, mutatorVars, queueVars, kind, marked, gray,
                 owners>>

\* TracePhase::ClearWeak for one owner: weak slots, then both sides of an
\* ephemeron whose key is dead.
DeadKey(o) == key[o] = None \/ ~LiveTarget(key[o])
ClearStep ==
  /\ phase = "clear" /\ index <= Len(owners)
  /\ LET o == owners[index] IN
     /\ slot' = [slot EXCEPT ![o] = IF @ # None /\ LiveTarget(@) THEN @ ELSE None]
     /\ key' = [key EXCEPT ![o] = IF DeadKey(o) THEN None ELSE @]
     /\ value' = [value EXCEPT ![o] = IF DeadKey(o) THEN None ELSE @]
  /\ index' = index + 1
  /\ UNCHANGED <<allocated, old, edges, target, held, mutatorVars, queueVars, phase, kind,
                 marked, gray, owners, snapshot>>

EndClear ==
  /\ phase = "clear" /\ index > Len(owners)
  /\ EnterPhase("enqueue")
  /\ UNCHANGED <<allocated, old, objectVars, mutatorVars, queueVars, kind, marked, gray,
                 owners, snapshot>>

\* TracePhase::EnqueueFinalization for one owner.
DeadRegistration(o) == target[o] # None /\ ~LiveTarget(target[o])

SkipOwner ==
  /\ phase = "enqueue" /\ index <= Len(owners)
  /\ ~DeadRegistration(owners[index])
  /\ index' = index + 1
  /\ UNCHANGED <<allocated, old, objectVars, mutatorVars, queueVars, phase, kind, marked,
                 gray, owners, snapshot>>

\* EntryLimitExceeded.
HasQueueRoom == Len(pending) < MaxPending

\* try_enqueue, then the registration is emptied.
\* Mutant: it stays active.
EmptiedNot(o) == target
Emptied(o) == [target EXCEPT ![o] = None]
EnqueueOwner ==
  LET o == owners[index] IN
  /\ phase = "enqueue" /\ index <= Len(owners)
  /\ DeadRegistration(o)
  /\ HasQueueRoom
  /\ pending' = Append(pending, <<o, held[o]>>)
  /\ target' = Emptied(o)
  /\ held' = [held EXCEPT ![o] = None]
  /\ finalized' = finalized \cup {o}
  /\ index' = index + 1
  /\ UNCHANGED <<allocated, old, edges, key, value, slot, mutatorVars, jobs, phase, kind,
                 marked, gray, owners, snapshot>>

Abandon ==
  /\ EnterPhase("run")
  /\ gray' = {} /\ owners' = <<>> /\ marked' = {} /\ kind' = "major"
  /\ snapshot' = [owners |-> 0, marks |-> 0]

\* FinalizationQueueError: the limit, or the queue cannot grow.  What was
\* enqueued before stays enqueued and nothing is swept.
EnqueueFails ==
  /\ phase = "enqueue" /\ index <= Len(owners)
  /\ DeadRegistration(owners[index])
  /\ Abandon
  /\ UNCHANGED <<allocated, old, objectVars, mutatorVars, queueVars>>

\* The gray queue or the owner list is at its limit or cannot grow.
MarkFails ==
  /\ phase \in {"mark", "drain"} /\ gray # {}
  /\ Abandon
  /\ UNCHANGED <<allocated, old, objectVars, mutatorVars, queueVars>>

\* Sweep: white objects are reclaimed, and a minor collection may promote
\* survivors.
Dead == {o \in allocated : ~LiveTarget(o)}
Swept(f, default) == [o \in Objects |-> IF o \in Dead THEN default ELSE f[o]]
Sweep(promoted) ==
  /\ phase = "enqueue" /\ index > Len(owners)
  /\ allocated' = allocated \ Dead
  /\ old' = (old \ Dead) \cup (IF kind = "minor" THEN promoted \cap marked ELSE {})
  /\ edges' = Swept(edges, {})
  /\ key' = Swept(key, None) /\ value' = Swept(value, None)
  /\ slot' = Swept(slot, None)
  /\ target' = Swept(target, None) /\ held' = Swept(held, None)
  /\ Abandon
  /\ UNCHANGED <<mutatorVars, queueVars>>

-----------------------------------------------------------------------------
Mutate ==
  \/ StartJob
  \/ \E o \in Objects : New(o)
  \/ \E src \in roots \cap Holders, tgt \in roots \cup {None} : Store(src, tgt)
  \/ \E src \in roots \ Registries : \E tgt \in edges[src] : Load(tgt)
  \/ \E o \in roots : DropRoot(o)
  \/ \E t \in roots \cap Tables, k \in roots, v \in roots : SetEntry(t, k, v)
  \/ \E t \in roots \cap Tables : DeleteEntry(t)
  \/ \E t \in roots \cap Tables : key[t] \in roots /\ value[t] # None /\ Load(value[t])
  \/ \E w \in WeakRefs, t \in roots : NewWeakRef(w, t)
  \/ \E w \in roots \cap WeakRefs : Deref(w)
  \/ \E r \in roots \cap Registries, c \in Cells, t \in roots, h \in roots \cup {None} :
       Register(r, c, t, h)
  \/ \E r \in roots \cap Registries : \E cells \in SUBSET Cells : Unregister(r, cells)
  \/ Schedule
  \/ \E keeps \in BOOLEAN : Complete(keeps)

Collect ==
  \/ \E k \in Kinds : StartCollection(k)
  \/ \E o \in Objects : Trace(o)
  \/ FirstPass \/ PassStep \/ EndPass \/ EndDrain
  \/ ClearStep \/ EndClear
  \/ SkipOwner \/ EnqueueOwner \/ EnqueueFails \/ MarkFails
  \/ \E cohorts \in SUBSET Cohorts : Sweep(UNION cohorts)

Next ==
  /\ Mutate \/ EndJob \/ VmEndJob \/ Collect
  /\ UNCHANGED roles
Spec == Init /\ [][Next]_vars

-----------------------------------------------------------------------------
\* What the mutator, the job and the cleanup queues hold.
HeldByHost == roots \cup kept \cup Referenced(pending \o jobs)

\* S is closed under strong fields and under "an ephemeron's value is held while
\* its table and its key are".
Retains(S) ==
  \A o \in S : /\ edges[o] \subseteq S
               /\ held[o] \in S \cup {None}
               /\ key[o] \in S => value[o] \in S \cup {None}

\* The least such set that holds what the host holds.
Live ==
  LET base == HeldByHost
      closed == {S \in SUBSET (Objects \ base) : Retains(base \cup S)}
  IN base \cup {o \in Objects : \A S \in closed : o \in S}

\* When close_weak leaves its loop the marks of a major collection are exactly
\* the live objects, whatever the order of owners and however keys and values
\* are chained through tables found late; a minor collection has marked every
\* live young object.
ClosureExact ==
  phase = "clear" /\ index = 1 =>
    /\ Live \ old \subseteq marked
    /\ kind = "major" => marked = Live

\* No live object is reclaimed and none keeps a slot naming a reclaimed one: a
\* stale key, weak slot or registration would name the next object allocated
\* there.  Cleanup records are live from the collection that enqueued them,
\* failed or not, until their callback is done.
NoStaleSlots ==
  /\ HeldByHost \subseteq allocated
  /\ \A o \in Live : Targets(o) \subseteq allocated

\* Every registration is cleaned up at most once: a cell that was enqueued or
\* deactivated is not active, and no cell is queued twice, although a full queue
\* abandons a collection between two enqueues and the next one visits the same
\* cells.
CleanupOnce ==
  LET queued == [i \in DOMAIN (jobs \o pending) |-> (jobs \o pending)[i][1]] IN
  /\ IsInjective(queued)
  /\ ToSet(queued) \subseteq finalized
  /\ \A c \in Cells : target[c] # None => c \notin finalized

\* What a program sees of a collection is safe.  A registration is enqueued only
\* when its target is dead: not strongly reachable, not kept for the current job,
\* not the value of a live entry and not held by a pending cleanup.  And within a
\* job a WeakRef whose target was created or dereferenced in it keeps its target
\* over any number of collections (AddToKeptObjects).
EffectsSafe ==
  [][/\ Len(pending') > Len(pending) => target[Last(pending')[1]] \notin Live
     /\ \A w \in WeakRefs :
          inJob /\ w \in allocated /\ w \in allocated' /\ slot[w] \in kept
            => slot'[w] = slot[w]]_vars

=============================================================================
