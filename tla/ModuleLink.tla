----------------------------- MODULE ModuleLink -----------------------------
(***************************************************************************)
(* Loading and linking of ECMAScript modules: the load transaction of      *)
(* module/lifecycle.rs and the iterative Tarjan walk of module/link.rs,    *)
(* which gives every module of a cycle the same cycle root.                *)
(*                                                                         *)
(* A module's source is its ordered list of requests (graph).  Both walks  *)
(* run inside one host call, so every other step of the system waits for   *)
(* load.phase = "idle"; they are still one action per loop iteration       *)
(* because each iteration may fail and must then undo the earlier ones.    *)
(* Export resolution is abstracted to its verdict: it succeeds or fails.   *)
(***************************************************************************)
EXTENDS Naturals, SequencesExt

CONSTANTS
  Modules,     \* the modules a loader can find
  Graphs,      \* request lists to check: functions from Modules to Seq(Modules)
  MaxLoads,    \* bound on the load calls of the host
  None

VARIABLES
  graph,       \* requested_modules of every module
  status,      \* ModuleStatus; "absent" before the record is inserted
  cycleRoot,   \* the payload of ModuleStatus::Linked
  load,        \* the load_module_graph call in progress
  loads        \* load calls made so far

linkVars == <<graph, status, cycleRoot, load, loads>>

NoLoad == [phase |-> "idle", root |-> None, kept |-> {}, work |-> <<>>,
           frames |-> <<>>, stack |-> <<>>, index |-> 0,
           dfs |-> [m \in Modules |-> 0], low |-> [m \in Modules |-> 0]]

LinkInit ==
  /\ graph \in Graphs
  /\ status = [m \in Modules |-> "absent"]
  /\ cycleRoot = [m \in Modules |-> None]
  /\ load = NoLoad
  /\ loads = 0

Present == {m \in Modules : status[m] # "absent"}
Linked == {m \in Modules : status[m] = "linked"}

-----------------------------------------------------------------------------
(* load_module_graph: insert every record the root reaches. *)

\* A root whose record exists is found at once and linked already, so only
\* the call for an absent one changes anything.
BeginLoad(r) ==
  /\ load.phase = "idle"
  /\ status[r] = "absent"
  /\ loads < MaxLoads
  /\ loads' = loads + 1
  /\ load' = [NoLoad EXCEPT !.phase = "load", !.root = r, !.kept = Present, !.work = <<r>>]
  /\ UNCHANGED <<graph, status, cycleRoot>>

\* One iteration of the worklist: a known identity is skipped, a new record
\* is inserted and its requests are pushed in reverse order.
LoadNext ==
  /\ load.phase = "load"
  /\ load.work # <<>>
  /\ LET m == Last(load.work)
         new == status[m] = "absent"
     IN /\ load' = [load EXCEPT !.work =
                      Front(@) \o (IF new THEN Reverse(graph[m]) ELSE <<>>)]
        /\ status' = IF new THEN [status EXCEPT ![m] = "unlinked"] ELSE status
  /\ UNCHANGED <<graph, cycleRoot, loads>>

\* The records of the checkpoint stay, one still being linked is unlinked
\* again (rollback_link), and every later record is dropped (rollback).
RolledBack ==
  [m \in Modules |-> CASE m \notin load.kept -> "absent"
                       [] m \in load.kept /\ status[m] = "linking" -> "unlinked"
                       [] OTHER -> status[m]]

Abandoned ==
  /\ status' = RolledBack
  /\ cycleRoot' = [m \in Modules |-> IF m \in load.kept THEN cycleRoot[m] ELSE None]
  /\ load' = NoLoad
  /\ UNCHANGED <<graph, loads>>

\* The loader has no such module, or refuses, or a limit of the graph is met.
LoadFails ==
  /\ load.phase = "load"
  /\ load.work # <<>>
  /\ status[Last(load.work)] = "absent"
  /\ Abandoned

-----------------------------------------------------------------------------
(* link: Tarjan's algorithm with explicit frames. *)

LinkFrame(m) == [module |-> m, next |-> 1, child |-> None]

Entered(l, m) ==
  [l EXCEPT !.frames = Append(@, LinkFrame(m)), !.stack = Append(@, m),
            !.index = @ + 1, !.dfs[m] = l.index + 1, !.low[m] = l.index + 1]

\* lower_ancestor
Lowered(l, m, c) ==
  [l EXCEPT !.low[m] = IF l.low[c] < @ THEN l.low[c] ELSE @]

BeginLink ==
  /\ load.phase = "load"
  /\ load.work = <<>>
  /\ load' = Entered([load EXCEPT !.phase = "link"], load.root)
  /\ status' = [status EXCEPT ![load.root] = "linking"]
  /\ UNCHANGED <<graph, cycleRoot, loads>>

Top == Last(load.frames)

\* Mutant: the child's ancestor is not looked at again after the child returns.
FromChildIgnored(l, m, c) == l

\* The frame of a child was left: a child that is still being linked belongs
\* to a cycle through an older module, and so does its parent.
FromChild(l, m, c) == IF status[c] = "linking" THEN Lowered(l, m, c) ELSE l

ReturnToParent ==
  /\ load.phase = "link"
  /\ Top.child # None
  /\ load' = FromChild([load EXCEPT !.frames[Len(load.frames)].child = None],
                       Top.module, Top.child)
  /\ UNCHANGED <<graph, status, cycleRoot, loads>>

FollowRequest ==
  /\ load.phase = "link"
  /\ Top.child = None
  /\ Top.next <= Len(graph[Top.module])
  /\ LET c == graph[Top.module][Top.next]
         n == Len(load.frames)
         moved == [load EXCEPT !.frames[n].next = @ + 1]
     IN CASE status[c] = "unlinked" ->
               /\ load' = Entered([moved EXCEPT !.frames[n].child = c], c)
               /\ status' = [status EXCEPT ![c] = "linking"]
          [] status[c] = "linking" ->
               /\ load' = Lowered(moved, Top.module, c)
               /\ status' = status
          [] OTHER ->
               /\ load' = moved
               /\ status' = status
  /\ UNCHANGED <<graph, cycleRoot, loads>>

\* Every request of the module on top is followed; its imports are resolved.
AtLeave ==
  /\ load.phase = "link"
  /\ Top.child = None
  /\ Top.next > Len(graph[Top.module])

\* complete_component pops the members of the cycle whose root is m.
Component(m) ==
  LET from == CHOOSE i \in DOMAIN load.stack : load.stack[i] = m
  IN SubSeq(load.stack, from, Len(load.stack))

LeaveModule ==
  /\ AtLeave
  /\ LET m == Top.module
         members == IF load.dfs[m] = load.low[m] THEN ToSet(Component(m)) ELSE {}
         left == [load EXCEPT !.frames = Front(@),
                              !.stack = SelectSeq(@, LAMBDA x : x \notin members)]
     IN /\ status' = [x \in Modules |-> IF x \in members THEN "linked" ELSE status[x]]
        /\ cycleRoot' = [x \in Modules |-> IF x \in members THEN m ELSE cycleRoot[x]]
        /\ load' = IF left.frames = <<>> THEN NoLoad ELSE left
  /\ UNCHANGED <<graph, loads>>

\* resolve_imports meets a missing or an ambiguous export.
LinkFails ==
  /\ AtLeave
  /\ Abandoned

LoadStep ==
  \/ LoadNext
  \/ LoadFails
  \/ BeginLink
  \/ ReturnToParent
  \/ FollowRequest
  \/ LeaveModule
  \/ LinkFails

-----------------------------------------------------------------------------
\* n is in every set of linked modules that holds m and all it requests.
Reaches(m, n) ==
  \A S \in SUBSET Linked :
    (m \in S /\ \A x \in S : ToSet(graph[x]) \subseteq S) => n \in S

\* Between load calls every record is linked and everything it requests is there: a
\* load that failed at any point left nothing of itself behind, so a later load may
\* skip the records it finds.  And two modules have the same cycle root exactly when
\* each one reaches the other through requests: the low-link bookkeeping of link()
\* and complete_component, after every order of loads of the graphs given.
RegistryExact ==
  load.phase = "idle" =>
    /\ \A m \in Present : status[m] = "linked" /\ ToSet(graph[m]) \subseteq Linked
    /\ \A m, n \in Linked :
         (Reaches(m, n) /\ Reaches(n, m)) <=> cycleRoot[m] = cycleRoot[n]
=============================================================================
