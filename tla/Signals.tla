------------------------------- MODULE Signals -------------------------------
(***************************************************************************)
(* The signal graph of the VM (builtins/signals.rs and builtins/signals/): *)
(* State and Computed signals, Watchers, the pull that brings a Computed   *)
(* up to date, the colouring a write spreads, the recursive live counts,   *)
(* and the agent-wide owner and frozen flag around every callback.         *)
(*                                                                         *)
(* JavaScript runs between the actions.  A native loop (the pull of a get, *)
(* the arguments and hooks of watch and unwatch, the notifications of a    *)
(* set) is "op", one action per turn; while a callback runs, its native    *)
(* continuation lies on "stack".  Values are abstracted to whether they    *)
(* changed, the order of hooks and of notified watchers to any order, and  *)
(* the collection of weak sinks is left out.                               *)
(***************************************************************************)
EXTENDS Naturals, Sequences, FiniteSets, SequencesExt

CONSTANTS
    States,     \* Signal.State objects
    Computeds,  \* Signal.Computed objects
    Watchers,   \* Signal.subtle.Watcher objects
    None,       \* no owner, no operation
    Arguments,  \* the lists of signals given to watch and unwatch
    Hooked,     \* the signals made with watched and unwatched options
    Comparable, \* the signals that may be made with an equals option
    MaxDepth,   \* bound on nested native continuations
    MaxPull,    \* bound on the frames of one pull
    MaxCalls    \* bound on the calls JavaScript makes

VARIABLES
    graph,      \* the nodes: edges, live counts, colours, watchers
    computing,  \* SignalRuntime.computing: who records what is read
    frozen,     \* SignalRuntime.frozen
    op,         \* the native loop in progress
    stack,      \* the native continuations of the callbacks that run
    outdated,   \* history: Computeds that read a State, outside their own
                \* callback, before its last change
    regular,    \* history: no callback has changed the liveness of a Computed
                \* that runs, or used one again after its cycle error
    calls       \* calls made so far

vars == <<graph, computing, frozen, op, stack, outdated, regular, calls>>

Signals == States \cup Computeds

ASSUME NodesAssumption == States \cap Computeds = {} /\ Signals \cap Watchers = {}

Init ==
    /\ \E compared \in SUBSET Comparable : graph =
               [sources |-> [c \in Computeds |-> <<>>],
                sinks   |-> [x \in Signals |-> {}],
                strong  |-> [x \in Signals |-> {}],
                live    |-> [x \in Signals |-> 0],
                color   |-> [c \in Computeds |-> "dirty"],
                cached  |-> [c \in Computeds |-> "none"],
                wstate  |-> [w \in Watchers |-> "waiting"],
                watched |-> [w \in Watchers |-> {}],
                pending |-> [w \in Watchers |-> {}],
                compared |-> compared]  \* those with an equals option
    /\ computing = None
    /\ frozen = FALSE
    /\ op = None
    /\ stack = <<>>
    /\ outdated = {}
    /\ regular = TRUE
    /\ calls = 0

-----------------------------------------------------------------------------
(* Edges and colours. *)

\* record_signal_dependency: first reads only, in order, and never oneself.
Recorded(g, owner, x) ==
    IF owner = None \/ owner = x \/ Contains(g.sources[owner], x)
    THEN g
    ELSE [g EXCEPT !.sources[owner] = Append(@, x)]

\* add_signal_sink, remove_signal_sink.
SinkAdded(g, x, k, live) ==
    [g EXCEPT !.sinks[x] = @ \cup {k},
              !.strong[x] = IF live THEN @ \cup {k} ELSE @]

SinkRemoved(g, x, k) ==
    [g EXCEPT !.sinks[x] = @ \ {k}, !.strong[x] = @ \ {k}]

\* The nodes reached from "start" by sinks, going on only through "via".
Downstream(g, start, via) ==
    LET closed == {S \in SUBSET (Computeds \cup Watchers) :
                      start \subseteq S /\ \A c \in S \cap via : g.sinks[c] \subseteq S}
    IN  {k \in Computeds \cup Watchers : \A S \in closed : k \in S}

HasColor(g, k) == {c \in Computeds : g.color[c] = k}

NeedsPull(g, S) == {c \in S \cap Computeds : g.color[c] # "clean"}

\* What a change of a State does to a direct sink: only a clean one turns dirty.
DirectColor(k) == IF k = "clean" THEN "dirty" ELSE k

\* mark_signal_watcher_pending for every watcher of W.
Marked(g, W) ==
    [g EXCEPT !.pending = [w \in Watchers |->
                  IF w \in W THEN @[w] \cup NeedsPull(g, g.watched[w]) ELSE @[w]],
              !.wstate = [w \in Watchers |->
                  IF w \in W /\ @[w] = "watching" THEN "pending" ELSE @[w]]]

\* Mutant: only the direct dependents are looked at.
ReachedDirectly(g, s) == g.sinks[s]

\* The watchers a change of s reaches: its own and those of what it colours.
Reached(g, s) ==
    LET direct == g.sinks[s] \cap Computeds
    IN  g.sinks[s] \cup Downstream(g, UNION {g.sinks[c] : c \in direct},
                                   HasColor(g, "clean") \ direct)

\* propagate_signal_change.
Propagated(g, s) ==
    LET direct == g.sinks[s] \cap Computeds
        reached == Reached(g, s)
    IN  Marked([g EXCEPT !.color = [c \in Computeds |->
                    IF c \in direct THEN DirectColor(@[c])
                    ELSE IF c \in reached /\ @[c] = "clean" THEN "checked"
                    ELSE @[c]]],
               reached \cap Watchers)

\* clear_signal_computed_from_watcher_pending.
Cleared(g, C) ==
    [g EXCEPT !.pending = [w \in Watchers |->
        @[w] \ {c \in C : w \in g.sinks[c]}]]

\* The checked chains below c whose Computed sources are all clean by then.
Cleanable(g, c) ==
    LET Ready(S) == {k \in HasColor(g, "checked") :
            /\ k \in UNION {g.sinks[d] : d \in S \cup {c}}
            /\ \A d \in ToSet(g.sources[k]) \cap Computeds :
                   g.color[d] = "clean" \/ d \in S}
        Grown[n \in 0..Cardinality(Computeds)] ==
            IF n = 0 THEN {} ELSE Grown[n - 1] \cup Ready(Grown[n - 1])
    IN  Grown[Cardinality(Computeds)]

\* finish_computed_coloring: promote or clean what is checked below c.
Colored(g, c, changed) ==
    LET checked == HasColor(g, "checked")
        below == Downstream(g, g.sinks[c], checked) \cap checked
        clean == Cleanable(g, c)
    IN  IF changed
        THEN [g EXCEPT !.color = [k \in Computeds |->
                 IF k \in below THEN "dirty" ELSE @[k]]]
        ELSE Cleared([g EXCEPT !.color = [k \in Computeds |->
                          IF k \in clean THEN "clean" ELSE @[k]]],
                     clean)

-----------------------------------------------------------------------------
(* Recursive liveness.  A turn of the loop takes one node off "work"; it   *)
(* fails when a source has no edge back to the node ("type", a TypeError)  *)
(* or when a count would go below zero ("fatal").                          *)

Walk(g, x) == [g |-> g, work |-> <<x>>, hooks |-> {}, error |-> "none"]

Sources(g, x) == IF x \in Computeds THEN g.sources[x] ELSE <<>>

\* set_signal_sink_live for the sources of x in order, up to a missing edge.
Strengthened(g, x, live) ==
    LET sources == Sources(g, x)
        known == {i \in DOMAIN sources :
                     \A j \in 1..i : x \in g.sinks[sources[j]]}
        S == {sources[i] : i \in known}
    IN  [g |-> [g EXCEPT !.strong = [y \in Signals |->
                    IF y \notin S THEN @[y]
                    ELSE IF live THEN @[y] \cup {x} ELSE @[y] \ {x}]],
         error |-> IF known = DOMAIN sources THEN "none" ELSE "type"]

\* One turn of attach_signal_liveness (live) or detach_signal_liveness.
Turn(walk, live) ==
    IF walk.work = <<>> \/ walk.error # "none" THEN walk
    ELSE LET x == Head(walk.work)
             was == walk.g.live[x]
             edge == IF live THEN was = 0 ELSE was = 1
             counted == [walk.g EXCEPT !.live[x] = IF live THEN was + 1 ELSE was - 1]
             s == Strengthened(counted, x, live)
         IN  IF ~live /\ was = 0 THEN [walk EXCEPT !.error = "fatal"]
             ELSE IF ~edge
             THEN [walk EXCEPT !.g = counted, !.work = Tail(@)]
             ELSE [g |-> s.g,
                   work |-> Sources(s.g, x) \o Tail(walk.work),
                   hooks |-> walk.hooks \cup ({x} \cap Hooked),
                   error |-> s.error]

\* Enough turns for every edge to be followed once.
Turns == [i \in 1..(Cardinality(Signals) * Cardinality(Computeds) + 1) |-> i]

\* What a walk changes: strong edges and counts.
Walked(g, walk) ==
    [g     |-> [g EXCEPT !.strong = walk.g.strong, !.live = walk.g.live],
     hooks |-> walk.hooks,
     error |-> walk.error]

Attached(g, x) == Walked(g, FoldLeft(LAMBDA walk, i : Turn(walk, TRUE), Walk(g, x), Turns))

Detached(g, x) == Walked(g, FoldLeft(LAMBDA walk, i : Turn(walk, FALSE), Walk(g, x), Turns))

\* Do the next change of a series unless an earlier one failed.
Then(r, walk) ==
    IF r.error # "none" THEN r
    ELSE [g |-> walk.g, hooks |-> r.hooks \cup walk.hooks, error |-> walk.error]

Done(g) == [g |-> g, hooks |-> {}, error |-> "none"]

\* One source dropped or taken up by a recomputation of c, live when it ended.
Dropped(r, c, x, live) ==
    LET d == IF live THEN Then(r, Detached(r.g, x)) ELSE r
    IN  IF d.error # "none" THEN d ELSE [d EXCEPT !.g = SinkRemoved(@, x, c)]

\* Mutant: a dependent that is not live leaves no reverse edge.
TakenUpLate(r, c, x, live) ==
    IF r.error # "none" \/ ~live THEN r ELSE Then(r, Attached(r.g, x))

TakenUp(r, c, x, live) ==
    LET added == SinkAdded(r.g, x, c, live)
    IN  IF r.error # "none" THEN r
        ELSE IF live THEN Then([r EXCEPT !.g = added], Attached(added, x))
        ELSE [r EXCEPT !.g = added]

\* reconcile_computed_sources: the edges to c, strong edges and counts change.
Reconciled(g, c, old) ==
    LET new == g.sources[c]
        live == g.live[c] # 0
        gone == SelectSeq(old, LAMBDA x : ~Contains(new, x))
        come == SelectSeq(new, LAMBDA x : ~Contains(old, x))
        dropped == FoldLeft(LAMBDA r, x : Dropped(r, c, x, live), Done(g), gone)
        done == FoldLeft(LAMBDA r, x : TakenUp(r, c, x, live), dropped, come)
    IN  [g     |-> [g EXCEPT !.sinks = [x \in Signals |->
                                           (@[x] \ {c}) \cup (done.g.sinks[x] \cap {c})],
                             !.strong = done.g.strong,
                             !.live = done.g.live],
         hooks |-> done.hooks,
         error |-> done.error]

\* prepare_signal_watch: the watcher with the edge to it, then liveness.
WatchAdded(g, w, x) ==
    [SinkAdded(g, x, w, TRUE) EXCEPT !.watched[w] = @ \cup {x},
                                     !.pending[w] = @ \cup NeedsPull(g, {x}),
                                     !.wstate[w] = "watching"]

WatchPrepared(g, w, x) ==
    LET added == WatchAdded(g, w, x)
    IN  IF x \in g.watched[w] THEN Done(g) ELSE Then(Done(added), Attached(added, x))

\* prepare_signal_unwatch.
WatchRemoved(g, w, x) == [SinkRemoved(g, x, w) EXCEPT !.watched[w] = @ \ {x}]

UnwatchPrepared(g, w, x) ==
    LET removed == WatchRemoved(g, w, x)
        r == Then(Done(removed), Detached(removed, x))
    IN  IF x \notin g.watched[w] THEN Done(g)
        ELSE IF r.error # "none" THEN r
        ELSE [r EXCEPT !.g.pending[w] = @ \ {x},
                       !.g.wstate[w] = IF removed.watched[w] = {} THEN "waiting" ELSE @]

-----------------------------------------------------------------------------
(* Frames and operations. *)

Pull(c) == [kind |-> "pull", subject |-> c, hooks |-> {},
            work |-> <<[computed |-> c, next |-> 1]>>]

Subject(frame) == Last(frame.op.work).computed

\* The Computeds whose callback runs.
Subjects(frames) == {Subject(f) : f \in {f \in ToSet(frames) : f.kind = "computed"}}
Running == Subjects(stack)

Top == Last(stack)

\* JavaScript runs and may use the graph.
Free == op = None /\ ~frozen

\* JavaScript calls into the graph.
Call == Free /\ calls < MaxCalls /\ calls' = calls + 1

HasRoom == Len(stack) < MaxDepth

Push(frame) == stack' = Append(stack, frame)

Pop == stack' = Front(stack)

\* cancel_signal_execution, from the innermost continuation to the outermost: what
\* the outermost one restores remains.
Cancelled(g, frames) ==
    LET of(c) == {i \in DOMAIN frames : frames[i].kind = "computed" /\ Subject(frames[i]) = c}
        notified == {f.watcher : f \in {f \in ToSet(frames) : f.kind = "notify"}}
    IN  [g EXCEPT !.wstate = [w \in Watchers |-> IF w \in notified THEN "waiting" ELSE @[w]],
                  !.sources = [c \in Computeds |->
                      IF c \in Subjects(frames) THEN frames[Min(of(c))].old ELSE @[c]],
                  !.color = [c \in Computeds |->
                      IF c \in Subjects(frames) THEN "dirty" ELSE @[c]]]

\* The end of a series: its hooks go to the operation that goes on, a
\* TypeError drops the operation, any other error ends the execution.
Ends(r) == r.error \notin {"none", "type"}
Continue(r, next, frames) ==
    /\ regular' = (regular /\ \A c \in Running : r.g.live[c] = graph.live[c])
    /\ CASE r.error = "none" ->
               /\ graph' = r.g
               /\ op' = [next EXCEPT !.hooks = r.hooks]
               /\ stack' = frames
         [] r.error = "type" -> graph' = r.g /\ op' = None /\ stack' = frames
         [] OTHER -> graph' = Cancelled(r.g, frames) /\ op' = None /\ stack' = <<>>

-----------------------------------------------------------------------------
(* State.get, State.set. *)

StateGet(s) ==
    /\ Free
    /\ computing # None /\ ~Contains(graph.sources[computing], s)
    /\ graph' = Recorded(graph, computing, s)
    /\ UNCHANGED <<computing, frozen, op, stack, outdated, regular>>
    /\ UNCHANGED calls

\* commit_signal_state_value: colour, then notify the watchers it armed off.
Commit(s, frames) ==
    LET g == Propagated(graph, s)
        armed == {w \in Watchers : graph.wstate[w] = "watching" /\ g.wstate[w] = "pending"}
    IN  /\ graph' = g
        /\ outdated' = outdated \cup
              {c \in Computeds \ Running : Contains(graph.sources[c], s)}
        /\ \E order \in SetToSeqs(armed) :
              op' = IF armed = {} THEN None
                    ELSE [kind |-> "notify", subject |-> None, work |-> order, hooks |-> {}]
        /\ stack' = frames
        /\ UNCHANGED <<computing, frozen, regular>>

StateSet(s) ==
    /\ Call
    /\ \/ s \notin graph.compared /\ Commit(s, stack)
       \/ /\ s \in graph.compared /\ HasRoom
          /\ Push([kind |-> "equals", state |-> s])
          /\ UNCHANGED <<graph, computing, frozen, op, outdated, regular>>

\* The comparator of a State says the values differ, or they stay as they are.
EqualsReturn ==
    /\ Free /\ stack # <<>> /\ Top.kind = "equals"
    /\ \/ Commit(Top.state, Front(stack))
       \/ Pop /\ UNCHANGED <<graph, computing, frozen, op, outdated, regular>>
    /\ UNCHANGED calls

-----------------------------------------------------------------------------
(* Computed.get. *)

\* A get of a Computed whose own callback runs caches a TypeError in it.
CycleCached(g, c) == [g EXCEPT !.color[c] = "clean", !.cached[c] = "thrown"]

ComputedGet(c) ==
    /\ Call
    /\ CASE graph.color[c] = "clean" ->
               /\ computing # None
               /\ graph' = Recorded(graph, computing, c)
               /\ UNCHANGED op
         [] graph.color[c] = "computing" -> graph' = CycleCached(graph, c) /\ UNCHANGED op
         [] OTHER -> op' = Pull(c) /\ UNCHANGED graph
    /\ regular' = (regular /\ (c \in Running => graph.color[c] = "computing"))
    /\ UNCHANGED <<computing, frozen, stack, outdated>>

\* start_signal_computed_callback.
Started(c) ==
    /\ graph' = [graph EXCEPT !.sources[c] = <<>>, !.color[c] = "computing"]
    /\ computing' = c
    /\ Push([kind |-> "computed", op |-> op, old |-> graph.sources[c],
             previous |-> computing, comparing |-> FALSE])
    /\ op' = None
    /\ outdated' = outdated \ {c}
    /\ regular' = (regular /\ c \notin Running)
    /\ UNCHANGED frozen

\* restore_failed_signal_computed_start: everything as before, an error thrown.
Refused ==
    /\ op' = None
    /\ UNCHANGED <<graph, computing, frozen, stack, outdated, regular>>

\* One turn of resume_signal_computed_pull.
PullTurn ==
    /\ op # None /\ op.kind = "pull" /\ op.hooks = {} /\ op.work # <<>>
    /\ LET c == Last(op.work).computed
           next == Last(op.work).next
           color == graph.color[c]
           popped == [op EXCEPT !.work = Front(@)]
           advanced == [op EXCEPT !.work[Len(op.work)].next = @ + 1]
           x == graph.sources[c][next]
       IN  \/ /\ color = "clean"
              /\ op' = popped
              /\ UNCHANGED <<graph, computing, frozen, stack, outdated, regular>>
           \/ /\ color = "computing"
              /\ graph' = CycleCached(graph, c)
              /\ op' = None
              /\ UNCHANGED <<computing, frozen, stack, outdated, regular>>
           \/ color = "dirty" /\ HasRoom /\ Started(c)
           \/ color = "dirty" /\ Refused
           \/ /\ color = "checked" /\ next <= Len(graph.sources[c])
              /\ Len(op.work) < MaxPull
              /\ op' = IF NeedsPull(graph, {x}) # {}
                       THEN [advanced EXCEPT !.work =
                                Append(@, [computed |-> x, next |-> 1])]
                       ELSE advanced
              /\ UNCHANGED <<graph, computing, frozen, stack, outdated, regular>>
           \/ /\ color = "checked" /\ next > Len(graph.sources[c])
              /\ graph' = Cleared([graph EXCEPT !.color[c] = "clean"], {c})
              /\ op' = popped
              /\ UNCHANGED <<computing, frozen, stack, outdated, regular>>
    /\ UNCHANGED calls

\* finish_signal_computed_pull.
PullFinish ==
    /\ op # None /\ op.kind = "pull" /\ op.hooks = {} /\ op.work = <<>>
    /\ graph' = Recorded(graph, computing, op.subject)
    /\ op' = None
    /\ UNCHANGED <<computing, frozen, stack, outdated, regular>>
    /\ UNCHANGED calls

\* Mutant: every owner is forgotten.
OwnerCleared(frame) == None

\* The owner that reads again once the callback of "frame" has ended.
OwnerAfter(frame) == frame.previous

\* The completion of a callback is cached.
Committed(g, c, thrown) ==
    [g EXCEPT !.color[c] = "clean", !.cached[c] = IF thrown THEN "thrown" ELSE "value"]

\* Its edges follow, then, unless one failed, the colours of what depends on it.
Recomputed(g, c, old, changed) ==
    LET r == Reconciled(g, c, old)
    IN  IF r.error = "none"
        THEN [r EXCEPT !.g = Cleared(Colored(@, c, changed), {c})]
        ELSE r

\* The callback is followed by a comparator when there is a value to compare with.
Compares(frame) ==
    /\ ~frame.comparing
    /\ Subject(frame) \in graph.compared /\ graph.cached[Subject(frame)] = "value"

\* restore_failed_signal_computed_start after the callback has run.
Restored(g, c, old) == [g EXCEPT !.sources[c] = old, !.color[c] = "dirty"]

\* begin_signal_computed_equals: the comparator runs with the same owner, or cannot be
\* called and the Computed is as dirty as before, its new value dropped.
ComparatorCall ==
    /\ Free /\ stack # <<>> /\ Top.kind = "computed" /\ Compares(Top)
    /\ \/ /\ stack' = Append(Front(stack), [Top EXCEPT !.comparing = TRUE])
          /\ UNCHANGED <<graph, computing>>
       \/ /\ graph' = Restored(graph, Subject(Top), Top.old)
          /\ computing' = OwnerAfter(Top)
          /\ Pop
    /\ UNCHANGED <<frozen, op, outdated, regular>>
    /\ UNCHANGED calls

\* resume_signal_computed (the built-in comparison or a comparator may say "unchanged")
\* and continue_signal_computed_abrupt.
ComputedEnd(thrown) ==
    /\ Free /\ stack # <<>> /\ Top.kind = "computed"
    /\ thrown \/ ~Compares(Top)
    /\ \E changed \in BOOLEAN :
          LET c == Subject(Top)
              r == Recomputed(Committed(graph, c, thrown), c, Top.old, changed)
          IN  /\ thrown \/ (~Top.comparing /\ graph.cached[c] # "value") => changed
              /\ Continue(r, [Top.op EXCEPT !.work = Front(@)], Front(stack))
              /\ computing' = IF Ends(r) THEN None ELSE OwnerAfter(Top)
    /\ UNCHANGED <<frozen, outdated>>
    /\ UNCHANGED calls

-----------------------------------------------------------------------------
(* Watcher.watch, Watcher.unwatch, lifecycle hooks and notifications. *)

Watch(w, arguments) ==
    /\ Call
    /\ IF arguments = <<>>
       THEN graph' = [graph EXCEPT !.wstate[w] = "watching"] /\ UNCHANGED op
       ELSE /\ op' = [kind |-> "watch", subject |-> w, work |-> arguments, hooks |-> {}]
            /\ UNCHANGED graph
    /\ UNCHANGED <<computing, frozen, stack, outdated, regular>>

Unwatch(w, arguments) ==
    /\ Call
    /\ op' = [kind |-> "unwatch", subject |-> w, work |-> arguments, hooks |-> {}]
    /\ UNCHANGED <<graph, computing, frozen, stack, outdated, regular>>

\* One argument, or finish_signal_watcher_operation after the last.
WatcherTurn ==
    /\ op # None /\ op.kind \in {"watch", "unwatch"} /\ op.hooks = {}
    /\ LET w == op.subject
           r == IF op.kind = "watch" THEN WatchPrepared(graph, w, Head(op.work))
                                     ELSE UnwatchPrepared(graph, w, Head(op.work))
       IN  \/ /\ op.work # <<>>
              /\ Continue(r, [op EXCEPT !.work = Tail(@)], stack)
              /\ computing' = IF Ends(r) THEN None ELSE computing
           \/ /\ op.work = <<>>
              /\ graph' = IF op.kind = "watch" /\ graph.watched[w] # {}
                          THEN [graph EXCEPT !.wstate[w] = "watching"] ELSE graph
              /\ op' = None
              /\ UNCHANGED <<computing, stack, regular>>
    /\ UNCHANGED <<frozen, outdated>>
    /\ UNCHANGED calls

\* dispatch_frozen_signal_callback for a hook: a callback that fails in the
\* call itself drops the rest of the operation.
HookCall ==
    /\ op # None /\ op.hooks # {}
    /\ \E x \in op.hooks :
          \/ /\ HasRoom
             /\ Push([kind |-> "hook", op |-> [op EXCEPT !.hooks = @ \ {x}]])
             /\ frozen' = TRUE
          \/ UNCHANGED <<stack, frozen>>
    /\ op' = None
    /\ UNCHANGED <<graph, computing, outdated, regular>>
    /\ UNCHANGED calls

\* resume_signal_watcher_hook, continue_signal_watcher_hook_abrupt.
HookEnd(thrown) ==
    /\ op = None /\ stack # <<>> /\ Top.kind = "hook"
    /\ frozen' = FALSE
    /\ op' = IF thrown THEN None ELSE Top.op
    /\ Pop
    /\ UNCHANGED <<graph, computing, outdated, regular>>
    /\ UNCHANGED calls

\* The next watcher of a notification, or the end of it.
NotifyTurn ==
    /\ op # None /\ op.kind = "notify"
    /\ \/ /\ op.work # <<>> /\ HasRoom
          /\ Push([kind |-> "notify", watcher |-> Head(op.work),
                   op |-> [op EXCEPT !.work = Tail(@)]])
          /\ frozen' = TRUE
       \/ UNCHANGED <<stack, frozen>>
    /\ op' = None
    /\ UNCHANGED <<graph, computing, outdated, regular>>
    /\ UNCHANGED calls

\* A notify callback returned or threw: its watcher waits, the next one's turn.
NotifyEnd ==
    /\ op = None /\ stack # <<>> /\ Top.kind = "notify"
    /\ graph' = [graph EXCEPT !.wstate[Top.watcher] = "waiting"]
    /\ frozen' = FALSE
    /\ op' = Top.op
    /\ Pop
    /\ UNCHANGED <<computing, outdated, regular>>
    /\ UNCHANGED calls

-----------------------------------------------------------------------------
(* subtle.untrack and the end of an execution. *)

Untrack ==
    /\ Call /\ HasRoom
    /\ Push([kind |-> "untrack", previous |-> computing])
    /\ computing' = None
    /\ UNCHANGED <<graph, frozen, op, outdated, regular>>

UntrackEnd ==
    /\ Free /\ stack # <<>> /\ Top.kind = "untrack"
    /\ computing' = Top.previous
    /\ Pop
    /\ UNCHANGED <<graph, frozen, op, outdated, regular>>
    /\ UNCHANGED calls

\* The execution fails for good, or a new one starts over a suspended one.
Cancel ==
    /\ stack # <<>>
    /\ graph' = Cancelled(graph, stack)
    /\ computing' = None
    /\ frozen' = FALSE
    /\ op' = None
    /\ stack' = <<>>
    /\ UNCHANGED <<outdated, regular>>
    /\ UNCHANGED calls

Next ==
    \/ \E s \in States : StateGet(s) \/ StateSet(s)
    \/ EqualsReturn
    \/ \E c \in Computeds : ComputedGet(c)
    \/ PullTurn \/ PullFinish \/ ComparatorCall
    \/ \E thrown \in BOOLEAN : ComputedEnd(thrown) \/ HookEnd(thrown)
    \/ \E w \in Watchers :
          \/ Watch(w, <<>>)
          \/ \E list \in Arguments : Watch(w, list) \/ Unwatch(w, list)
    \/ WatcherTurn \/ HookCall \/ NotifyTurn \/ NotifyEnd
    \/ Untrack \/ UntrackEnd \/ Cancel

Spec == Init /\ [][Next]_vars

-----------------------------------------------------------------------------
(* Properties. *)

\* "owner" is what the innermost computed or untrack continuation among the first
\* n stands for, or None where there is none.
Owning(frame) == frame.kind \in {"computed", "untrack"}
OwnerOf(frame) == IF frame.kind = "untrack" THEN None ELSE Subject(frame)
OwnerIs(n, owner) ==
    /\ (\A i \in 1..n : ~Owning(stack[i])) => owner = None
    /\ \A i \in 1..n :
          Owning(stack[i]) /\ (\A j \in (i + 1)..n : ~Owning(stack[j]))
          => owner = OwnerOf(stack[i])

\* Whatever returns, throws or is cancelled, the agent's owner is the one of
\* the innermost callback, the graph is frozen exactly while a hook or a notify
\* callback runs (signal_runtime.computing, signal_runtime.frozen), and no
\* Computed stays Computing without a callback that will end it: it would
\* answer every later get with a cycle error.
AgentMatchesStack ==
    /\ OwnerIs(Len(stack), computing)
    /\ frozen <=> op = None /\ stack # <<>> /\ Top.kind \in {"hook", "notify"}
    /\ HasColor(graph, "computing") \subseteq Running

\* The graph agrees with itself once the callback of a dependent has ended.  There
\* is a reverse edge for every source and for every watched signal, and no other:
\* writes reach every dependent.  A signal's live count is the number of its strong
\* edges, and those are the edges to watchers and to live Computeds: hooks run when
\* they should.  getPending answers only watched Computeds that need a pull, and
\* misses none whose last completion is a value (a cycle error is cached without
\* clearing).
GraphExact == regular =>
    /\ \A c \in Computeds \ Running :
          ToSet(graph.sources[c]) = {x \in Signals : c \in graph.sinks[x]}
    /\ \A x \in Signals :
          /\ graph.live[x] = Cardinality(graph.strong[x])
          /\ graph.strong[x] = {k \in graph.sinks[x] :
                                   k \in Watchers \/ graph.live[k] # 0}
    /\ \A w \in Watchers :
          LET due == NeedsPull(graph, graph.watched[w])
          IN  /\ graph.watched[w] = {x \in Signals : w \in graph.sinks[x]}
              /\ graph.pending[w] \subseteq graph.watched[w] \cap (due \cup Running)
              /\ \A c \in due : c \in graph.pending[w] \/ graph.cached[c] = "thrown"

\* When a clean watched Computed stops being clean outside its own callback, its
\* armed watcher is armed off to be notified in the same step.
ArmedNotified ==
    [][\A w \in Watchers : \A c \in graph.watched[w] \cap Computeds :
          (/\ graph.wstate[w] = "watching"
           /\ graph.color[c] = "clean" /\ c \notin Running
           /\ graph'.color[c] # "clean")
          => graph'.wstate[w] = "pending"]_vars

\* A clean Computed has been recomputed since the last change of a State it reads.
StateFresh == regular =>
    \A c \in Computeds \ Running : graph.color[c] = "clean" => c \notin outdated
=============================================================================
