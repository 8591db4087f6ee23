---------------------------- MODULE SignalsProofs ----------------------------
(***************************************************************************)
(* Proofs about the signal graph, for any States, Computeds, Watchers,     *)
(* argument lists and bounds: the agent's owner, the frozen flag and the   *)
(* Computing colour agree with the continuations on the stack, and an      *)
(* armed watcher is always notified.                                       *)
(***************************************************************************)
EXTENDS Signals, SequenceTheorems, TLAPS

-----------------------------------------------------------------------------
(* The inductive invariant. *)

\* The fields of the graph, and the ones the proofs look into.
IsGraph(g) ==
    /\ g = [sources |-> g.sources, sinks |-> g.sinks, strong |-> g.strong,
            live |-> g.live, color |-> g.color, cached |-> g.cached,
            wstate |-> g.wstate, watched |-> g.watched, pending |-> g.pending,
            compared |-> g.compared]
    /\ DOMAIN g.color = Computeds /\ g.color = [c \in Computeds |-> g.color[c]]
    /\ DOMAIN g.sinks = Signals /\ g.sinks = [x \in Signals |-> g.sinks[x]]
    /\ DOMAIN g.wstate = Watchers /\ g.wstate = [w \in Watchers |-> g.wstate[w]]
    /\ DOMAIN g.watched = Watchers /\ g.watched = [w \in Watchers |-> g.watched[w]]

\* A watched signal has an edge to its watcher.
LinkedOK(g) == \A w \in Watchers : \A x \in g.watched[w] \cap Signals : w \in g.sinks[x]

GraphOK(g) == IsGraph(g) /\ LinkedOK(g)

Freezing(frame) == frame.kind \in {"hook", "notify"}

\* OwnerIs for the stack "frames".
OwnerAt(frames, n, owner) ==
    /\ (\A i \in 1..n : ~Owning(frames[i])) => owner = None
    /\ \A i \in 1..n :
          Owning(frames[i]) /\ (\A j \in (i + 1)..n : ~Owning(frames[j]))
          => owner = OwnerOf(frames[i])

\* Every continuation that changes the owner keeps the one it found, and only the
\* innermost one freezes the graph.
AgentOK(frames, owner, froze) ==
    /\ frames \in Seq(ToSet(frames))
    /\ OwnerAt(frames, Len(frames), owner)
    /\ \A n \in 1..Len(frames) :
          Owning(frames[n]) => OwnerAt(frames, n - 1, frames[n].previous)
    /\ froze \in BOOLEAN
    /\ froze <=> frames # <<>> /\ Freezing(frames[Len(frames)])
    /\ \A i \in 1..(Len(frames) - 1) : ~Freezing(frames[i])

Entries == [computed : Computeds, next : Nat]

\* A pull goes through Computeds, and a computed continuation belongs to one.
OpOK(o) ==
    /\ o = [kind |-> o.kind, subject |-> o.subject, work |-> o.work, hooks |-> o.hooks]
    /\ o.kind = "pull" => o.work \in Seq(Entries)

FrameOK(frame) ==
    /\ frame.kind \in {"computed", "hook", "notify"} => OpOK(frame.op)
    /\ frame.kind = "computed" =>
          /\ frame.op.kind = "pull" /\ frame.op.work # <<>>
          /\ frame = [kind |-> "computed", op |-> frame.op, old |-> frame.old,
                      previous |-> frame.previous, comparing |-> frame.comparing]

FramesOK(frames) == \A f \in ToSet(frames) : FrameOK(f)

IInv ==
    /\ GraphOK(graph)
    /\ AgentOK(stack, computing, frozen)
    /\ FramesOK(stack)
    /\ op = None \/ OpOK(op)
    /\ frozen => op = None
    /\ HasColor(graph, "computing") \subseteq Subjects(stack)

-----------------------------------------------------------------------------
(* The stack. *)

LEMMA AppendIsSeq ==
    ASSUME NEW s, s \in Seq(ToSet(s)), NEW f
    PROVE  /\ Append(s, f) \in Seq(ToSet(Append(s, f)))
           /\ Len(s) \in Nat
           /\ Len(Append(s, f)) = Len(s) + 1
           /\ Append(s, f)[Len(s) + 1] = f
           /\ \A i \in 1..Len(s) : Append(s, f)[i] = s[i]
<1>1. PICK S : S = ToSet(s) \cup {f}
  OBVIOUS
<1>2. s \in Seq(S) /\ f \in S
  BY <1>1
<1>3. /\ Append(s, f) \in Seq(S)
      /\ Len(s) \in Nat
      /\ Len(Append(s, f)) = Len(s) + 1
      /\ Append(s, f)[Len(s) + 1] = f
      /\ \A i \in 1..Len(s) : Append(s, f)[i] = s[i]
  BY <1>2
<1>4. PICK t : t = Append(s, f)
  OBVIOUS
<1>5. t \in Seq(S)
  BY <1>3, <1>4
<1>6. t \in Seq(ToSet(t))
  <2>1. DOMAIN t = 1..Len(t) /\ Len(t) \in Nat /\ t = [i \in 1..Len(t) |-> t[i]]
    BY <1>5
  <2>2. \A i \in 1..Len(t) : t[i] \in ToSet(t)
    BY <2>1 DEF ToSet
  <2> QED
    BY <2>1, <2>2
<1> QED
  BY <1>3, <1>4, <1>6

LEMMA FrontIsSeq ==
    ASSUME NEW s, s \in Seq(ToSet(s)), s # <<>>
    PROVE  /\ Front(s) \in Seq(ToSet(Front(s)))
           /\ Len(s) \in Nat \ {0}
           /\ Len(Front(s)) = Len(s) - 1
           /\ \A i \in 1..(Len(s) - 1) : Front(s)[i] = s[i]
           /\ Last(s) = s[Len(s)]
<1>1. PICK S : S = ToSet(s)
  OBVIOUS
<1>2. s \in Seq(S) /\ Len(s) \in Nat \ {0}
  BY <1>1
<1>3. PICK t : t = Front(s)
  OBVIOUS
<1>4. /\ t \in Seq(S)
      /\ Len(t) = Len(s) - 1
      /\ \A i \in 1..(Len(s) - 1) : t[i] = s[i]
  <2>1. PICK n : n = Len(s) - 1 /\ n \in Nat /\ n <= Len(s)
    BY <1>2
  <2>2. t = SubSeq(s, 1, n)
    BY <1>3, <2>1 DEF Front
  <2>3. t \in Seq(S) /\ Len(t) = n /\ \A i \in 1..n : t[i] = s[i]
    BY <1>2, <2>1, <2>2, SubSeqProperties
  <2> QED
    BY <2>1, <2>3
<1>5. t \in Seq(ToSet(t))
  <2>1. DOMAIN t = 1..Len(t) /\ Len(t) \in Nat /\ t = [i \in 1..Len(t) |-> t[i]]
    BY <1>4
  <2>2. \A i \in 1..Len(t) : t[i] \in ToSet(t)
    BY <2>1 DEF ToSet
  <2> QED
    BY <2>1, <2>2
<1> QED
  BY <1>2, <1>3, <1>4, <1>5 DEF Last

\* The agent at rest.
LEMMA AgentAtRest == AgentOK(<<>>, None, FALSE) /\ Subjects(<<>>) = {} /\ FramesOK(<<>>)
BY DEF AgentOK, OwnerAt, ToSet, Subjects, FramesOK

\* Starting a computed callback or untrack.
LEMMA PushedOwning ==
    ASSUME NEW s, NEW o, AgentOK(s, o, FALSE), NEW f, Owning(f), f.previous = o
    PROVE  AgentOK(Append(s, f), OwnerOf(f), FALSE)
<1>1. PICK t : t = Append(s, f)
  OBVIOUS
<1>2. PICK m : m = Len(s)
  OBVIOUS
<1>3. /\ t \in Seq(ToSet(t)) /\ m \in Nat /\ Len(t) = m + 1 /\ t[m + 1] = f
      /\ \A i \in 1..m : t[i] = s[i]
  BY <1>1, <1>2, AppendIsSeq DEF AgentOK
<1>4. OwnerAt(t, m + 1, OwnerOf(f))
  BY <1>3 DEF OwnerAt
<1>5. \A n \in 1..(m + 1) : Owning(t[n]) => OwnerAt(t, n - 1, t[n].previous)
  <2>1. ASSUME NEW n \in 1..(m + 1), Owning(t[n])
        PROVE  OwnerAt(t, n - 1, t[n].previous)
    <3>1. PICK k : k = n - 1 /\ k \in 0..m
      BY <2>1, <1>3
    <3>2. OwnerAt(s, k, t[n].previous)
      BY <2>1, <3>1, <1>3, <1>2 DEF AgentOK
    <3>3. OwnerAt(t, k, t[n].previous)
      BY <3>2, <1>3, <3>1 DEF OwnerAt
    <3> QED
      BY <3>1, <3>3
  <2> QED
    BY <2>1
<1>6. ~Freezing(f)
  BY DEF Owning, Freezing
<1>7. \A i \in 1..m : ~Freezing(t[i])
  BY <1>2, <1>3 DEF AgentOK
<1>8. AgentOK(t, OwnerOf(f), FALSE)
  BY <1>3, <1>4, <1>5, <1>6, <1>7 DEF AgentOK
<1> QED
  BY <1>1, <1>8

\* Starting any other callback.
LEMMA PushedOther ==
    ASSUME NEW s, NEW o, AgentOK(s, o, FALSE), NEW f, ~Owning(f),
           NEW froze \in BOOLEAN, froze <=> Freezing(f)
    PROVE  AgentOK(Append(s, f), o, froze)
<1>1. PICK t : t = Append(s, f)
  OBVIOUS
<1>2. PICK m : m = Len(s)
  OBVIOUS
<1>3. /\ t \in Seq(ToSet(t)) /\ m \in Nat /\ Len(t) = m + 1 /\ t[m + 1] = f
      /\ \A i \in 1..m : t[i] = s[i]
  BY <1>1, <1>2, AppendIsSeq DEF AgentOK
<1>4. OwnerAt(t, m + 1, o)
  <2>1. OwnerAt(s, m, o)
    BY <1>2 DEF AgentOK
  <2>2. \A i \in 1..(m + 1) : Owning(t[i]) => i \in 1..m
    BY <1>3
  <2>3. \A i \in 1..m : (\A j \in (i + 1)..(m + 1) : ~Owning(t[j]))
                        => (\A j \in (i + 1)..m : ~Owning(s[j]))
    BY <1>3
  <2> QED
    BY <2>1, <2>2, <2>3, <1>3 DEF OwnerAt
<1>5. \A n \in 1..(m + 1) : Owning(t[n]) => OwnerAt(t, n - 1, t[n].previous)
  <2>1. ASSUME NEW n \in 1..(m + 1), Owning(t[n])
        PROVE  OwnerAt(t, n - 1, t[n].previous)
    <3>1. PICK k : k = n - 1 /\ k \in 0..m
      BY <2>1, <1>3
    <3>2. OwnerAt(s, k, t[n].previous)
      BY <2>1, <3>1, <1>3, <1>2 DEF AgentOK
    <3>3. OwnerAt(t, k, t[n].previous)
      BY <3>2, <1>3, <3>1 DEF OwnerAt
    <3> QED
      BY <3>1, <3>3
  <2> QED
    BY <2>1
<1>7. \A i \in 1..m : ~Freezing(t[i])
  BY <1>2, <1>3 DEF AgentOK
<1>8. AgentOK(t, o, froze)
  BY <1>3, <1>4, <1>5, <1>7 DEF AgentOK
<1> QED
  BY <1>1, <1>8

\* The end of a callback: one that owned gives back what it found.
LEMMA Popped ==
    ASSUME NEW s, NEW o, NEW froze, AgentOK(s, o, froze), s # <<>>,
           NEW p, p = IF Owning(Last(s)) THEN Last(s).previous ELSE o
    PROVE  AgentOK(Front(s), p, FALSE)
<1>1. PICK t : t = Front(s)
  OBVIOUS
<1>2. PICK m : m = Len(s) - 1
  OBVIOUS
<1>3. /\ t \in Seq(ToSet(t)) /\ m \in Nat /\ Len(t) = m /\ Len(s) = m + 1
      /\ Last(s) = s[m + 1]
      /\ \A i \in 1..m : t[i] = s[i]
  BY <1>1, <1>2, FrontIsSeq DEF AgentOK
<1>4. OwnerAt(s, m, p)
  <2>1. CASE Owning(s[m + 1])
    BY <2>1, <1>3 DEF AgentOK
  <2>2. CASE ~Owning(s[m + 1])
    <3>1. OwnerAt(s, m + 1, p)
      BY <2>2, <1>3 DEF AgentOK
    <3>2. (\A i \in 1..m : ~Owning(s[i])) => (\A i \in 1..(m + 1) : ~Owning(s[i]))
      BY <2>2, <1>3
    <3>3. \A i \in 1..m : (\A j \in (i + 1)..m : ~Owning(s[j]))
                          => (\A j \in (i + 1)..(m + 1) : ~Owning(s[j]))
      BY <2>2, <1>3
    <3> QED
      BY <3>1, <3>2, <3>3, <1>3 DEF OwnerAt
  <2> QED
    BY <2>1, <2>2
<1>5. OwnerAt(t, m, p)
  BY <1>4, <1>3 DEF OwnerAt
<1>6. \A n \in 1..m : Owning(t[n]) => OwnerAt(t, n - 1, t[n].previous)
  <2>1. ASSUME NEW n \in 1..m, Owning(t[n])
        PROVE  OwnerAt(t, n - 1, t[n].previous)
    <3>1. PICK k : k = n - 1 /\ k \in 0..m
      BY <2>1, <1>3
    <3>2. OwnerAt(s, k, t[n].previous)
      BY <2>1, <3>1, <1>3 DEF AgentOK
    <3>3. OwnerAt(t, k, t[n].previous)
      BY <3>2, <1>3, <3>1 DEF OwnerAt
    <3> QED
      BY <3>1, <3>3
  <2> QED
    BY <2>1
<1>7. \A i \in 1..m : ~Freezing(t[i])
  BY <1>3 DEF AgentOK
<1>8. AgentOK(t, p, FALSE)
  BY <1>3, <1>5, <1>6, <1>7 DEF AgentOK
<1> QED
  BY <1>1, <1>8

\* The Computeds whose callback runs, as callbacks start and end.
LEMMA SubjectsPushed ==
    ASSUME NEW s, s \in Seq(ToSet(s)), NEW f
    PROVE  /\ Subjects(s) \subseteq Subjects(Append(s, f))
           /\ f.kind = "computed" => Subject(f) \in Subjects(Append(s, f))
           /\ FramesOK(s) /\ FrameOK(f) => FramesOK(Append(s, f))
<1>1. PICK t : t = Append(s, f)
  OBVIOUS
<1>2. PICK m : m = Len(s)
  OBVIOUS
<1>3. /\ t \in Seq(ToSet(t)) /\ m \in Nat /\ Len(t) = m + 1 /\ t[m + 1] = f
      /\ \A i \in 1..m : t[i] = s[i]
  BY <1>1, <1>2, AppendIsSeq
<1>4. ToSet(s) \subseteq ToSet(t) /\ f \in ToSet(t) /\ ToSet(t) \subseteq ToSet(s) \cup {f}
  BY <1>2, <1>3 DEF ToSet
<1>5. Subjects(s) \subseteq Subjects(t) /\ (f.kind = "computed" => Subject(f) \in Subjects(t))
  BY <1>4 DEF Subjects
<1>6. FramesOK(s) /\ FrameOK(f) => FramesOK(t)
  BY <1>4 DEF FramesOK
<1> QED
  BY <1>1, <1>5, <1>6

LEMMA SubjectsPopped ==
    ASSUME NEW s, s \in Seq(ToSet(s)), s # <<>>
    PROVE  /\ Subjects(Front(s)) \subseteq Subjects(s)
           /\ Subjects(s) \subseteq Subjects(Front(s)) \cup {Subject(Last(s))}
           /\ Last(s).kind # "computed" => Subjects(s) \subseteq Subjects(Front(s))
           /\ FramesOK(s) => FramesOK(Front(s)) /\ FrameOK(Last(s))
<1>1. PICK t : t = Front(s)
  OBVIOUS
<1>2. PICK m : m = Len(s) - 1
  OBVIOUS
<1>3. /\ t \in Seq(ToSet(t)) /\ m \in Nat /\ Len(t) = m /\ Len(s) = m + 1
      /\ Last(s) = s[m + 1]
      /\ \A i \in 1..m : t[i] = s[i]
  BY <1>1, <1>2, FrontIsSeq
<1>4. /\ ToSet(t) \subseteq ToSet(s) /\ ToSet(s) \subseteq ToSet(t) \cup {Last(s)}
      /\ Last(s) \in ToSet(s)
  BY <1>3 DEF ToSet
<1>5. /\ Subjects(t) \subseteq Subjects(s)
      /\ Subjects(s) \subseteq Subjects(t) \cup {Subject(Last(s))}
      /\ Last(s).kind # "computed" => Subjects(s) \subseteq Subjects(t)
  BY <1>4 DEF Subjects
<1>6. FramesOK(s) => FramesOK(t) /\ FrameOK(Last(s))
  BY <1>4 DEF FramesOK
<1> QED
  BY <1>1, <1>5, <1>6

-----------------------------------------------------------------------------
(* The operations on the graph. *)

\* No Computed becomes Computing and none that is clean stops being clean.
Quiet(g, h) ==
    \A c \in Computeds :
        /\ h.color[c] = "computing" => g.color[c] = "computing"
        /\ g.color[c] = "clean" => h.color[c] = "clean"

\* What most operations on the graph guarantee.
Kept(g, h) == GraphOK(h) /\ Quiet(g, h)

LEMMA RecordedKept ==
    ASSUME NEW g, GraphOK(g), NEW o, NEW x
    PROVE  Kept(g, Recorded(g, o, x))
<1>1. PICK h : h = Recorded(g, o, x)
  OBVIOUS
<1>2. /\ h = [h EXCEPT !.sources = h.sources]
      /\ h.sinks = g.sinks /\ h.color = g.color /\ h.wstate = g.wstate
      /\ h.watched = g.watched
      /\ IsGraph(h)
  BY <1>1 DEF Recorded, GraphOK, IsGraph
<1>3. Kept(g, h)
  BY <1>2 DEF Kept, GraphOK, LinkedOK, Quiet
<1> QED
  BY <1>1, <1>3

\* mark_signal_watcher_pending arms every watcher of W off.
LEMMA MarkedKept ==
    ASSUME NEW g, GraphOK(g), NEW W
    PROVE  /\ GraphOK(Marked(g, W))
           /\ Marked(g, W).color = g.color
           /\ \A w \in Watchers \cap W :
                 g.wstate[w] = "watching" => Marked(g, W).wstate[w] = "pending"
<1>1. PICK h : h = Marked(g, W)
  OBVIOUS
<1>2. /\ IsGraph(h)
      /\ h.sinks = g.sinks /\ h.color = g.color /\ h.watched = g.watched
      /\ h.wstate = [w \in Watchers |->
             IF w \in W /\ g.wstate[w] = "watching" THEN "pending" ELSE g.wstate[w]]
  BY <1>1 DEF Marked, GraphOK, IsGraph
<1> QED
  BY <1>1, <1>2 DEF GraphOK, LinkedOK

\* A change colours no Computed without reaching the watchers of it.
LEMMA ReachedClosed ==
    ASSUME NEW g, NEW s, NEW c \in Computeds, g.color[c] = "clean",
           c \in Reached(g, s), NEW w \in Watchers, w \in g.sinks[c]
    PROVE  w \in Reached(g, s)
<1>1. PICK direct : direct = g.sinks[s] \cap Computeds
  OBVIOUS
<1>2. PICK start : start = UNION {g.sinks[d] : d \in direct}
  OBVIOUS
<1>3. PICK via : via = HasColor(g, "clean") \ direct
  OBVIOUS
<1>4. Reached(g, s) = g.sinks[s] \cup Downstream(g, start, via)
  BY <1>1, <1>2, <1>3 DEF Reached
<1>5. w \in Downstream(g, start, via)
  <2>1. SUFFICES ASSUME NEW S \in SUBSET (Computeds \cup Watchers), start \subseteq S,
                        \A d \in S \cap via : g.sinks[d] \subseteq S
                 PROVE  w \in S
    BY DEF Downstream
  <2>2. CASE c \in direct
    BY <2>1, <2>2, <1>2
  <2>3. CASE c \notin direct
    <3>1. c \in Downstream(g, start, via)
      BY <2>3, <1>1, <1>4
    <3>2. c \in S
      BY <3>1, <2>1 DEF Downstream
    <3>3. c \in via
      BY <2>3, <1>3 DEF HasColor
    <3> QED
      BY <3>2, <3>3, <2>1
  <2> QED
    BY <2>2, <2>3
<1> QED
  BY <1>4, <1>5

LEMMA PropagatedKept ==
    ASSUME NEW g, GraphOK(g), NEW s
    PROVE  /\ GraphOK(Propagated(g, s))
           /\ HasColor(Propagated(g, s), "computing") \subseteq HasColor(g, "computing")
           /\ \A w \in Watchers : \A c \in g.watched[w] \cap Computeds :
                 (/\ g.wstate[w] = "watching" /\ g.color[c] = "clean"
                  /\ Propagated(g, s).color[c] # "clean")
                 => Propagated(g, s).wstate[w] = "pending"
<1>1. PICK reached : reached = Reached(g, s)
  OBVIOUS
<1>2. PICK direct : direct = g.sinks[s] \cap Computeds
  OBVIOUS
<1>3. PICK k : k = [c \in Computeds |->
                       IF c \in direct THEN DirectColor(g.color[c])
                       ELSE IF c \in reached /\ g.color[c] = "clean" THEN "checked"
                       ELSE g.color[c]]
  OBVIOUS
<1>4. PICK h : h = [g EXCEPT !.color = k]
  OBVIOUS
<1>5. Propagated(g, s) = Marked(h, reached \cap Watchers)
  BY <1>1, <1>2, <1>3, <1>4, Zenon DEF Propagated
<1>6. /\ IsGraph(h) /\ h.color = k
      /\ h.sinks = g.sinks /\ h.wstate = g.wstate /\ h.watched = g.watched
  BY <1>3, <1>4 DEF GraphOK, IsGraph
<1>7. GraphOK(h)
  BY <1>6 DEF GraphOK, LinkedOK
<1>8. \A c \in Computeds : k[c] = "computing" => g.color[c] = "computing"
  BY <1>3 DEF DirectColor
<1>9. direct \subseteq reached
  BY <1>1, <1>2 DEF Reached
<1>10. \A c \in Computeds : g.color[c] = "clean" /\ k[c] # "clean" => c \in reached
  BY <1>3, <1>9
<1>11. PICK W : W = reached \cap Watchers
  OBVIOUS
<1>12. PICK m : m = Marked(h, W)
  OBVIOUS
<1>13. /\ GraphOK(m) /\ m.color = k
       /\ \A w \in Watchers \cap W : g.wstate[w] = "watching" => m.wstate[w] = "pending"
  BY <1>6, <1>7, <1>12, MarkedKept
<1>14. ASSUME NEW w \in Watchers, NEW c \in g.watched[w] \cap Computeds,
              g.wstate[w] = "watching", g.color[c] = "clean", m.color[c] # "clean"
       PROVE  m.wstate[w] = "pending"
  <2>1. w \in g.sinks[c]
    BY <1>14 DEF GraphOK, LinkedOK, Signals
  <2>2. c \in reached
    BY <1>14, <1>10, <1>13
  <2>3. w \in W
    BY <2>1, <2>2, <1>1, <1>11, <1>14, ReachedClosed
  <2> QED
    BY <2>3, <1>13, <1>14
<1>15. HasColor(m, "computing") \subseteq HasColor(g, "computing")
  BY <1>8, <1>13 DEF HasColor
<1>16. Propagated(g, s) = m
  BY <1>5, <1>11, <1>12
<1> QED
  BY <1>13, <1>14, <1>15, <1>16

LEMMA ClearedKept ==
    ASSUME NEW g, GraphOK(g), NEW C
    PROVE  GraphOK(Cleared(g, C)) /\ Cleared(g, C).color = g.color
<1>1. PICK h : h = Cleared(g, C)
  OBVIOUS
<1>2. /\ IsGraph(h)
      /\ h.sinks = g.sinks /\ h.color = g.color /\ h.wstate = g.wstate
      /\ h.watched = g.watched
  BY <1>1 DEF Cleared, GraphOK, IsGraph
<1> QED
  BY <1>1, <1>2 DEF GraphOK, LinkedOK

LEMMA RecoloredKept ==
    ASSUME NEW g, GraphOK(g), NEW k, k = [c \in Computeds |-> k[c]]
    PROVE  GraphOK([g EXCEPT !.color = k]) /\ [g EXCEPT !.color = k].color = k
<1>1. PICK h : h = [g EXCEPT !.color = k]
  OBVIOUS
<1>2. /\ IsGraph(h)
      /\ h.sinks = g.sinks /\ h.color = k /\ h.wstate = g.wstate
      /\ h.watched = g.watched
  BY <1>1 DEF GraphOK, IsGraph
<1> QED
  BY <1>1, <1>2 DEF GraphOK, LinkedOK

\* What finish_computed_coloring promotes was checked, so none was clean.
LEMMA ColoredKept ==
    ASSUME NEW g, GraphOK(g), NEW c, NEW changed \in BOOLEAN
    PROVE  Kept(g, Colored(g, c, changed))
<1>1. PICK checked : checked = HasColor(g, "checked")
  OBVIOUS
<1>2. PICK below : below = Downstream(g, g.sinks[c], checked) \cap checked
  OBVIOUS
<1>3. PICK clean : clean = Cleanable(g, c)
  OBVIOUS
<1>4. CASE changed
  <2>1. PICK k : k = [d \in Computeds |-> IF d \in below THEN "dirty" ELSE g.color[d]]
    OBVIOUS
  <2>2. PICK h : h = [g EXCEPT !.color = k]
    OBVIOUS
  <2>3. Colored(g, c, changed) = h
    BY <1>1, <1>2, <1>4, <2>1, <2>2 DEF Colored
  <2>4. GraphOK(h) /\ h.color = k
    BY <2>1, <2>2, RecoloredKept
  <2>5. Quiet(g, h)
    BY <2>1, <2>4, <1>1, <1>2 DEF Quiet, HasColor
  <2> QED
    BY <2>3, <2>4, <2>5 DEF Kept
<1>5. CASE ~changed
  <2>1. PICK k : k = [d \in Computeds |-> IF d \in clean THEN "clean" ELSE g.color[d]]
    OBVIOUS
  <2>2. PICK h : h = [g EXCEPT !.color = k]
    OBVIOUS
  <2>3. Colored(g, c, changed) = Cleared(h, clean)
    BY <1>3, <1>5, <2>1, <2>2 DEF Colored
  <2>4. GraphOK(h) /\ h.color = k
    BY <2>1, <2>2, RecoloredKept
  <2>5. GraphOK(Cleared(h, clean)) /\ Cleared(h, clean).color = k
    BY <2>4, ClearedKept
  <2>6. Quiet(g, Cleared(h, clean))
    BY <2>1, <2>5 DEF Quiet
  <2> QED
    BY <2>3, <2>5, <2>6 DEF Kept
<1> QED
  BY <1>4, <1>5

\* Liveness changes no colour, no edge and no watcher.
LEMMA WalkedKept ==
    ASSUME NEW g, GraphOK(g), NEW walk
    PROVE  /\ GraphOK(Walked(g, walk).g) /\ Walked(g, walk).g.color = g.color
           /\ Walked(g, walk).g.watched = g.watched
<1>1. PICK h : h = Walked(g, walk).g
  OBVIOUS
<1>2. h = [g EXCEPT !.strong = walk.g.strong, !.live = walk.g.live]
  BY <1>1 DEF Walked
<1>3. /\ IsGraph(h)
      /\ h.sinks = g.sinks /\ h.color = g.color /\ h.wstate = g.wstate
      /\ h.watched = g.watched
  BY <1>2 DEF GraphOK, IsGraph
<1> QED
  BY <1>1, <1>3 DEF GraphOK, LinkedOK

LEMMA AttachedKept ==
    ASSUME NEW g, GraphOK(g), NEW x
    PROVE  GraphOK(Attached(g, x).g) /\ Attached(g, x).g.color = g.color
BY WalkedKept, Zenon DEF Attached

LEMMA DetachedKept ==
    ASSUME NEW g, GraphOK(g), NEW x
    PROVE  /\ GraphOK(Detached(g, x).g) /\ Detached(g, x).g.color = g.color
           /\ Detached(g, x).g.watched = g.watched
BY WalkedKept, Zenon DEF Detached

\* A recomputation moves edges to a Computed, never those to watchers.
LEMMA ReconciledKept ==
    ASSUME NEW g, GraphOK(g), NEW c \in Computeds, NEW old
    PROVE  GraphOK(Reconciled(g, c, old).g) /\ Reconciled(g, c, old).g.color = g.color
<1>1. PICK h : h = Reconciled(g, c, old).g
  OBVIOUS
<1>2. PICK E, T, L : h = [g EXCEPT !.sinks = [x \in Signals |-> (@[x] \ {c}) \cup (E[x] \cap {c})],
                                   !.strong = T,
                                   !.live = L]
  BY <1>1, Zenon DEF Reconciled
<1>3. /\ IsGraph(h)
      /\ h.sinks = [x \in Signals |-> (g.sinks[x] \ {c}) \cup (E[x] \cap {c})]
      /\ h.color = g.color /\ h.wstate = g.wstate /\ h.watched = g.watched
  BY <1>2 DEF GraphOK, IsGraph
<1>4. c \notin Watchers
  BY NodesAssumption DEF Signals
<1> QED
  BY <1>1, <1>3, <1>4 DEF GraphOK, LinkedOK

LEMMA DoneKept ==
    ASSUME NEW g, GraphOK(g)
    PROVE  Kept(g, Done(g).g)
BY DEF Done, Kept, Quiet

LEMMA WatchKept ==
    ASSUME NEW g, GraphOK(g), NEW w, NEW x
    PROVE  Kept(g, WatchPrepared(g, w, x).g)
<1>1. CASE x \in g.watched[w]
  BY <1>1, DoneKept DEF WatchPrepared
<1>2. CASE x \notin g.watched[w]
  <2>1. PICK h : h = WatchAdded(g, w, x)
    OBVIOUS
  <2>2. WatchPrepared(g, w, x) = Then(Done(h), Attached(h, x))
    BY <1>2, <2>1 DEF WatchPrepared
  <2>3. /\ IsGraph(h) /\ h.color = g.color
        /\ h.sinks = [g.sinks EXCEPT ![x] = @ \cup {w}]
        /\ h.watched = [g.watched EXCEPT ![w] = @ \cup {x}]
    BY <2>1 DEF WatchAdded, SinkAdded, GraphOK, IsGraph
  <2>4. /\ \A y \in Signals : h.sinks[y] = IF y = x THEN g.sinks[y] \cup {w} ELSE g.sinks[y]
        /\ \A v \in Watchers :
              h.watched[v] = IF v = w THEN g.watched[v] \cup {x} ELSE g.watched[v]
    BY <2>3 DEF GraphOK, IsGraph
  <2>5. LinkedOK(h)
    <3>1. SUFFICES ASSUME NEW v \in Watchers, NEW y \in h.watched[v] \cap Signals
                   PROVE  v \in h.sinks[y]
      BY DEF LinkedOK
    <3>2. CASE v = w /\ y = x
      BY <2>4, <3>2
    <3>3. CASE ~(v = w /\ y = x)
      <4>1. y \in g.watched[v]
        BY <2>4, <3>1, <3>3
      <4>2. v \in g.sinks[y]
        BY <3>1, <4>1 DEF GraphOK, LinkedOK
      <4> QED
        BY <2>4, <4>2
    <3> QED
      BY <3>2, <3>3
  <2>6. WatchPrepared(g, w, x).g = Attached(h, x).g
    BY <2>2 DEF Then, Done
  <2> QED
    BY <2>3, <2>5, <2>6, AttachedKept DEF Kept, Quiet, GraphOK
<1> QED
  BY <1>1, <1>2

LEMMA UnwatchKept ==
    ASSUME NEW g, GraphOK(g), NEW w, NEW x
    PROVE  Kept(g, UnwatchPrepared(g, w, x).g)
<1>1. CASE x \notin g.watched[w]
  BY <1>1, DoneKept DEF UnwatchPrepared
<1>2. CASE x \in g.watched[w]
  <2>1. PICK h : h = WatchRemoved(g, w, x)
    OBVIOUS
  <2>2. /\ IsGraph(h) /\ h.color = g.color
        /\ h.sinks = [g.sinks EXCEPT ![x] = @ \ {w}]
        /\ h.watched = [g.watched EXCEPT ![w] = @ \ {x}]
    BY <2>1 DEF WatchRemoved, SinkRemoved, GraphOK, IsGraph
  <2>3. LinkedOK(h)
    <3>1. /\ \A y \in Signals : h.sinks[y] = IF y = x THEN g.sinks[y] \ {w} ELSE g.sinks[y]
          /\ \A v \in Watchers :
                h.watched[v] = IF v = w THEN g.watched[v] \ {x} ELSE g.watched[v]
      BY <2>2 DEF GraphOK, IsGraph
    <3> QED
      BY <3>1 DEF GraphOK, LinkedOK
  <2>4. PICK d : d = Detached(h, x).g
    OBVIOUS
  <2>5. GraphOK(d) /\ d.color = g.color
    BY <2>2, <2>3, <2>4, DetachedKept DEF GraphOK
  <2>6. PICK r : r = Then(Done(h), Detached(h, x))
    OBVIOUS
  <2>7. r.g = d /\ r = [g |-> r.g, hooks |-> r.hooks, error |-> r.error]
    BY <2>4, <2>6 DEF Then, Done
  <2>8. PICK u : u = UnwatchPrepared(g, w, x)
    OBVIOUS
  <2>9. u = IF r.error # "none" THEN r
            ELSE [r EXCEPT !.g.pending[w] = @ \ {x},
                           !.g.wstate[w] = IF h.watched[w] = {} THEN "waiting" ELSE @]
    BY <1>2, <2>1, <2>6, <2>8 DEF UnwatchPrepared
  <2>10. CASE r.error # "none"
    BY <2>5, <2>7, <2>8, <2>9, <2>10 DEF Kept, Quiet
  <2>11. CASE r.error = "none"
    <3>1. PICK e : e = IF h.watched[w] = {} THEN "waiting" ELSE d.wstate[w]
      OBVIOUS
    <3>2. u.g = [d EXCEPT !.pending[w] = @ \ {x}, !.wstate[w] = e]
      BY <2>7, <2>9, <2>11, <3>1
    <3>3. /\ IsGraph(u.g)
          /\ u.g.color = d.color /\ u.g.sinks = d.sinks /\ u.g.watched = d.watched
      BY <3>2, <2>5 DEF GraphOK, IsGraph
    <3> QED
      BY <3>3, <2>5, <2>8 DEF Kept, Quiet, GraphOK, LinkedOK
  <2> QED
    BY <2>10, <2>11
<1> QED
  BY <1>1, <1>2

\* cancel_signal_execution turns dirty what the cancelled callbacks computed.
LEMMA CancelledKept ==
    ASSUME NEW g, GraphOK(g), NEW frames
    PROVE  /\ GraphOK(Cancelled(g, frames))
           /\ \A c \in Computeds : Cancelled(g, frames).color[c] =
                 IF c \in Subjects(frames) THEN "dirty" ELSE g.color[c]
<1>1. PICK h : h = Cancelled(g, frames)
  OBVIOUS
<1>2. PICK k : k = [c \in Computeds |->
                       IF c \in Subjects(frames) THEN "dirty" ELSE g.color[c]]
  OBVIOUS
<1>3. PICK N : N = {f.watcher : f \in {f \in ToSet(frames) : f.kind = "notify"}}
  OBVIOUS
<1>4. PICK W : W = [w \in Watchers |-> IF w \in N THEN "waiting" ELSE g.wstate[w]]
  OBVIOUS
<1>5. \E Z : h = [g EXCEPT !.wstate = W, !.sources = Z, !.color = k]
  BY <1>1, <1>2, <1>3, <1>4, Zenon DEF Cancelled
<1>6. PICK Z : h = [g EXCEPT !.wstate = W, !.sources = Z, !.color = k]
  BY <1>5
<1>7. /\ IsGraph(h) /\ h.color = k
      /\ h.sinks = g.sinks /\ h.watched = g.watched
  BY <1>2, <1>4, <1>6 DEF GraphOK, IsGraph
<1> QED
  BY <1>1, <1>2, <1>7 DEF GraphOK, LinkedOK

LEMMA CycleKept ==
    ASSUME NEW g, GraphOK(g), NEW c
    PROVE  Kept(g, CycleCached(g, c))
<1>1. PICK h : h = CycleCached(g, c)
  OBVIOUS
<1>2. /\ IsGraph(h) /\ h.color = [g.color EXCEPT ![c] = "clean"]
      /\ h.sinks = g.sinks /\ h.watched = g.watched
  BY <1>1 DEF CycleCached, GraphOK, IsGraph
<1>3. Quiet(g, h)
  BY <1>2 DEF GraphOK, IsGraph, Quiet
<1> QED
  BY <1>1, <1>2, <1>3 DEF Kept, GraphOK, LinkedOK

LEMMA WatcherStateKept ==
    ASSUME NEW g, GraphOK(g), NEW w, NEW k
    PROVE  Kept(g, [g EXCEPT !.wstate[w] = k])
<1>1. PICK h : h = [g EXCEPT !.wstate[w] = k]
  OBVIOUS
<1>2. /\ IsGraph(h) /\ h.color = g.color
      /\ h.sinks = g.sinks /\ h.watched = g.watched
  BY <1>1 DEF GraphOK, IsGraph
<1> QED
  BY <1>1, <1>2 DEF Kept, GraphOK, LinkedOK, Quiet

-----------------------------------------------------------------------------
(* The steps. *)

\* What ArmedNotified says of one step.
ArmedStep ==
    \A w \in Watchers : \A c \in graph.watched[w] \cap Computeds :
        (/\ graph.wstate[w] = "watching"
         /\ graph.color[c] = "clean" /\ c \notin Running
         /\ graph'.color[c] # "clean")
        => graph'.wstate[w] = "pending"

Good == IInv' /\ ArmedStep

\* The agent and the operation after a step.
AgentStep ==
    /\ AgentOK(stack', computing', frozen')
    /\ FramesOK(stack')
    /\ op' = None \/ OpOK(op')
    /\ frozen' => op' = None

LEMMA QuietStep ==
    ASSUME IInv, AgentStep, Kept(graph, graph'), Subjects(stack) \subseteq Subjects(stack')
    PROVE  Good
<1>1. HasColor(graph', "computing") \subseteq HasColor(graph, "computing")
  BY DEF Kept, Quiet, HasColor
<1>2. HasColor(graph', "computing") \subseteq Subjects(stack')
  BY <1>1 DEF IInv
<1>3. IInv'
  BY <1>2 DEF IInv, AgentStep, Kept
<1>4. ArmedStep
  BY DEF ArmedStep, Kept, Quiet
<1> QED
  BY <1>3, <1>4 DEF Good

LEMMA UnchangedKept ==
    ASSUME NEW g, GraphOK(g)
    PROVE  Kept(g, g)
BY DEF Kept, Quiet

LEMMA StateGetStep ==
    ASSUME IInv, NEW s \in States, StateGet(s)
    PROVE  Good
<1>1. Kept(graph, Recorded(graph, computing, s))
  <2>1. PICK g : g = graph
    OBVIOUS
  <2>2. PICK o : o = computing
    OBVIOUS
  <2>3. GraphOK(g)
    BY <2>1 DEF IInv
  <2>4. Kept(g, Recorded(g, o, s))
    BY <2>3, RecordedKept
  <2> QED
    BY <2>1, <2>2, <2>4
<1>2. /\ graph' = Recorded(graph, computing, s)
      /\ computing' = computing /\ frozen' = frozen /\ op' = op /\ stack' = stack
  BY DEF StateGet
<1>3. AgentStep
  BY <1>2 DEF IInv, AgentStep
<1>4. Kept(graph, graph') /\ Subjects(stack) \subseteq Subjects(stack')
  BY <1>1, <1>2
<1> QED
  BY <1>3, <1>4, QuietStep

\* A write, on the stack that is left when it is committed.
LEMMA CommitStep ==
    ASSUME IInv, NEW s, NEW frames, frozen = FALSE,
           AgentOK(frames, computing, FALSE), FramesOK(frames),
           Subjects(stack) \subseteq Subjects(frames), Commit(s, frames)
    PROVE  Good
<1>1. /\ graph' = Propagated(graph, s)
      /\ stack' = frames /\ computing' = computing /\ frozen' = frozen
  BY Zenon DEF Commit
<1>2. op' = None \/ OpOK(op')
  <2>1. \/ op' = None
        \/ \E order : op' = [kind |-> "notify", subject |-> None, work |-> order, hooks |-> {}]
    BY DEF Commit
  <2> QED
    BY <2>1 DEF OpOK
<1>3. PICK g : g = graph
  OBVIOUS
<1>4. PICK h : h = Propagated(graph, s)
  OBVIOUS
<1>5. /\ GraphOK(h)
      /\ HasColor(h, "computing") \subseteq HasColor(g, "computing")
      /\ \A w \in Watchers : \A c \in g.watched[w] \cap Computeds :
            (g.wstate[w] = "watching" /\ g.color[c] = "clean" /\ h.color[c] # "clean")
            => h.wstate[w] = "pending"
  <2>1. GraphOK(g) /\ h = Propagated(g, s)
    BY <1>3, <1>4 DEF IInv
  <2> QED
    BY <2>1, PropagatedKept
<1>6. graph' = h /\ graph = g
  BY <1>1, <1>3, <1>4
<1>7. HasColor(graph', "computing") \subseteq Subjects(stack')
  BY <1>1, <1>5, <1>6 DEF IInv
<1>8. IInv'
  BY <1>1, <1>2, <1>5, <1>6, <1>7 DEF IInv
<1>9. ArmedStep
  BY <1>5, <1>6 DEF ArmedStep
<1> QED
  BY <1>8, <1>9 DEF Good

\* The stack without its innermost continuation.
LEMMA PopState ==
    ASSUME IInv, stack # <<>>
    PROVE  /\ Owning(Top) => AgentOK(Front(stack), Top.previous, FALSE)
           /\ ~Owning(Top) => AgentOK(Front(stack), computing, FALSE)
           /\ FramesOK(Front(stack)) /\ FrameOK(Top)
           /\ Subjects(Front(stack)) \subseteq Subjects(stack)
           /\ Subjects(stack) \subseteq Subjects(Front(stack)) \cup {Subject(Top)}
           /\ Top.kind # "computed" => Subjects(stack) \subseteq Subjects(Front(stack))
           /\ Top.kind = "computed" => Subject(Top) \in Subjects(stack)
           /\ Owning(Top) => computing = OwnerOf(Top)
<1>1. PICK s : s = stack
  OBVIOUS
<1>2. PICK o : o = computing
  OBVIOUS
<1>3. PICK froze : froze = frozen
  OBVIOUS
<1>4. s # <<>> /\ AgentOK(s, o, froze) /\ FramesOK(s) /\ s \in Seq(ToSet(s))
  BY <1>1, <1>2, <1>3 DEF IInv, AgentOK
<1>5. /\ Owning(Last(s)) => AgentOK(Front(s), Last(s).previous, FALSE)
      /\ ~Owning(Last(s)) => AgentOK(Front(s), o, FALSE)
  <2>1. PICK p : p = IF Owning(Last(s)) THEN Last(s).previous ELSE o
    OBVIOUS
  <2>2. AgentOK(Front(s), p, FALSE)
    BY <1>4, <2>1, Popped
  <2> QED
    BY <2>1, <2>2
<1>6. /\ FramesOK(Front(s)) /\ FrameOK(Last(s))
      /\ Subjects(Front(s)) \subseteq Subjects(s)
      /\ Subjects(s) \subseteq Subjects(Front(s)) \cup {Subject(Last(s))}
      /\ Last(s).kind # "computed" => Subjects(s) \subseteq Subjects(Front(s))
  BY <1>4, SubjectsPopped
<1>7. Last(s).kind = "computed" => Subject(Last(s)) \in Subjects(s)
  <2>1. /\ Last(s) = s[Len(s)] /\ Len(s) \in Nat \ {0} /\ DOMAIN s = 1..Len(s)
    BY <1>4, FrontIsSeq
  <2>2. Last(s) \in ToSet(s)
    BY <2>1 DEF ToSet
  <2> QED
    BY <2>2 DEF Subjects
<1>8. Owning(Last(s)) => o = OwnerOf(Last(s))
  <2>1. PICK n \in Nat : n = Len(s) /\ n # 0 /\ Last(s) = s[n]
    BY <1>4, FrontIsSeq
  <2> QED
    BY <1>4, <2>1 DEF AgentOK, OwnerAt
<1> QED
  BY <1>1, <1>2, <1>5, <1>6, <1>7, <1>8 DEF Top

\* The stack with one more continuation.
LEMMA PushState ==
    ASSUME IInv, frozen = FALSE, NEW f, FrameOK(f)
    PROVE  /\ Owning(f) /\ f.previous = computing
              => AgentOK(Append(stack, f), OwnerOf(f), FALSE)
           /\ ~Owning(f) /\ ~Freezing(f) => AgentOK(Append(stack, f), computing, FALSE)
           /\ Freezing(f) => AgentOK(Append(stack, f), computing, TRUE)
           /\ FramesOK(Append(stack, f))
           /\ Subjects(stack) \subseteq Subjects(Append(stack, f))
           /\ f.kind = "computed" => Subject(f) \in Subjects(Append(stack, f))
<1>1. PICK s : s = stack
  OBVIOUS
<1>2. PICK o : o = computing
  OBVIOUS
<1>3. AgentOK(s, o, FALSE) /\ FramesOK(s) /\ s \in Seq(ToSet(s))
  BY <1>1, <1>2 DEF IInv, AgentOK
<1>4. Owning(f) /\ f.previous = o => AgentOK(Append(s, f), OwnerOf(f), FALSE)
  BY <1>3, PushedOwning
<1>5. ~Owning(f) /\ ~Freezing(f) => AgentOK(Append(s, f), o, FALSE)
  BY <1>3, PushedOther
<1>6. Freezing(f) => AgentOK(Append(s, f), o, TRUE)
  <2>1. Freezing(f) => ~Owning(f)
    BY DEF Freezing, Owning
  <2> QED
    BY <1>3, <2>1, PushedOther
<1>7. /\ FramesOK(Append(s, f))
      /\ Subjects(s) \subseteq Subjects(Append(s, f))
      /\ f.kind = "computed" => Subject(f) \in Subjects(Append(s, f))
  BY <1>3, SubjectsPushed
<1> QED
  BY <1>1, <1>2, <1>4, <1>5, <1>6, <1>7

LEMMA StateSetStep ==
    ASSUME IInv, NEW s \in States, StateSet(s)
    PROVE  Good
<1>1. frozen = FALSE
  BY DEF StateSet, Call, Free, IInv, AgentOK
<1>2. CASE Commit(s, stack)
  <2>1. PICK frames : frames = stack
    OBVIOUS
  <2>2. Commit(s, frames)
    BY <1>2, <2>1 DEF Commit
  <2>3. AgentOK(frames, computing, FALSE) /\ FramesOK(frames)
    BY <1>1, <2>1 DEF IInv
  <2> QED
    BY <1>1, <2>1, <2>2, <2>3, CommitStep
<1>3. CASE /\ Push([kind |-> "equals", state |-> s])
           /\ UNCHANGED <<graph, computing, frozen, op, outdated, regular>>
  <2>1. PICK f : f = [kind |-> "equals", state |-> s]
    OBVIOUS
  <2>2. f.kind = "equals"
    BY <2>1
  <2>3. FrameOK(f) /\ ~Owning(f) /\ ~Freezing(f)
    BY <2>2 DEF FrameOK, Owning, Freezing
  <2>4. /\ stack' = Append(stack, f) /\ graph' = graph
        /\ computing' = computing /\ frozen' = frozen /\ op' = op
    BY <1>3, <2>1 DEF Push
  <2>5. /\ AgentOK(stack', computing', FALSE) /\ FramesOK(stack')
        /\ Subjects(stack) \subseteq Subjects(stack')
    BY <1>1, <2>3, <2>4, PushState
  <2>6. AgentStep
    BY <1>1, <2>4, <2>5 DEF AgentStep, IInv
  <2>7. Kept(graph, graph')
    BY <2>4 DEF IInv, Kept, Quiet
  <2> QED
    BY <2>5, <2>6, <2>7, QuietStep
<1> QED
  BY <1>2, <1>3, Zenon DEF StateSet

LEMMA EqualsReturnStep ==
    ASSUME IInv, EqualsReturn
    PROVE  Good
<1>1. frozen = FALSE /\ stack # <<>> /\ Top.kind = "equals"
  BY DEF EqualsReturn, Free, IInv, AgentOK
<1>2. /\ AgentOK(Front(stack), computing, FALSE) /\ FramesOK(Front(stack))
      /\ Subjects(stack) \subseteq Subjects(Front(stack))
  BY <1>1, PopState DEF Owning
<1>3. CASE Commit(Top.state, Front(stack))
  <2>1. PICK frames : frames = Front(stack)
    OBVIOUS
  <2>2. PICK s : s = Top.state
    OBVIOUS
  <2>3. Commit(s, frames)
    BY <1>3, <2>1, <2>2 DEF Commit
  <2> QED
    BY <1>1, <1>2, <2>1, <2>3, CommitStep
<1>4. CASE Pop /\ UNCHANGED <<graph, computing, frozen, op, outdated, regular>>
  <2>4. /\ stack' = Front(stack) /\ graph' = graph
        /\ computing' = computing /\ frozen' = frozen /\ op' = op
    BY <1>4 DEF Pop
  <2>6. AgentStep
    BY <1>1, <1>2, <2>4 DEF AgentStep, IInv
  <2>7. Kept(graph, graph')
    BY <2>4 DEF IInv, Kept, Quiet
  <2> QED
    BY <1>2, <2>4, <2>6, <2>7, QuietStep
<1> QED
  BY <1>3, <1>4, Zenon DEF EqualsReturn

\* A pull begins with a Computed.
LEMMA PullOK ==
    ASSUME NEW c \in Computeds
    PROVE  OpOK(Pull(c))
<1>1. PICK e : e = [computed |-> c, next |-> 1]
  OBVIOUS
<1>2. e \in Entries
  BY <1>1 DEF Entries
<1>3. Pull(c) = [kind |-> "pull", subject |-> c, hooks |-> {}, work |-> <<e>>]
  BY <1>1 DEF Pull
<1>4. <<e>> \in Seq(Entries)
  BY <1>2
<1> QED
  BY <1>3, <1>4 DEF OpOK

LEMMA ComputedGetStep ==
    ASSUME IInv, NEW c \in Computeds, ComputedGet(c)
    PROVE  Good
<1>1. frozen = FALSE /\ op = None
  BY DEF ComputedGet, Call, Free, IInv, AgentOK
<1>2. computing' = computing /\ frozen' = frozen /\ stack' = stack
  BY DEF ComputedGet
<1>3. \/ graph' = Recorded(graph, computing, c) /\ op' = op
      \/ graph' = CycleCached(graph, c) /\ op' = op
      \/ graph' = graph /\ op' = Pull(c)
  BY DEF ComputedGet
<1>4. AgentStep
  BY <1>1, <1>2, <1>3, PullOK DEF IInv, AgentStep
<1>5. Kept(graph, graph')
  <2>1. PICK g : g = graph
    OBVIOUS
  <2>2. PICK o : o = computing
    OBVIOUS
  <2>3. GraphOK(g)
    BY <2>1 DEF IInv
  <2>4. Kept(g, Recorded(g, o, c)) /\ Kept(g, CycleCached(g, c)) /\ Kept(g, g)
    BY <2>3, RecordedKept, CycleKept, UnchangedKept
  <2> QED
    BY <2>1, <2>2, <2>4, <1>3
<1> QED
  BY <1>2, <1>4, <1>5, QuietStep

\* The operation with its work or its hooks replaced.
LEMMA OpChanged ==
    ASSUME NEW o, OpOK(o), NEW k, o.kind = "pull" => k \in Seq(Entries)
    PROVE  OpOK([o EXCEPT !.work = k]) /\ [o EXCEPT !.work = k].work = k
<1>1. PICK q : q = [o EXCEPT !.work = k]
  OBVIOUS
<1>2. /\ q = [kind |-> q.kind, subject |-> q.subject, work |-> q.work, hooks |-> q.hooks]
      /\ q.kind = o.kind /\ q.work = k
  BY <1>1 DEF OpOK
<1> QED
  BY <1>1, <1>2 DEF OpOK

LEMMA HooksChanged ==
    ASSUME NEW o, OpOK(o), NEW H
    PROVE  OpOK([o EXCEPT !.hooks = H])
<1>1. PICK q : q = [o EXCEPT !.hooks = H]
  OBVIOUS
<1>2. /\ q = [kind |-> q.kind, subject |-> q.subject, work |-> q.work, hooks |-> q.hooks]
      /\ q.kind = o.kind /\ q.work = o.work
  BY <1>1 DEF OpOK
<1> QED
  BY <1>1, <1>2 DEF OpOK

\* The work of a pull: its last frame names a Computed, and is popped or advanced.
LEMMA PullWork ==
    ASSUME NEW k \in Seq(Entries), k # <<>>
    PROVE  /\ Last(k).computed \in Computeds /\ Front(k) \in Seq(Entries)
           /\ [k EXCEPT ![Len(k)].next = @ + 1] \in Seq(Entries)
           /\ \A j \in Seq(Entries) : \A x \in Computeds :
                 Append(j, [computed |-> x, next |-> 1]) \in Seq(Entries)
<1>1. Len(k) \in Nat \ {0} /\ k[Len(k)] \in Entries
  BY ElementOfSeq, EmptySeq
<1>2. Last(k).computed \in Computeds
  BY <1>1 DEF Last, Entries
<1>3. Front(k) \in Seq(Entries)
  <2>1. PICK n : n = Len(k) - 1 /\ n \in Nat /\ n <= Len(k)
    BY <1>1
  <2>2. \A i \in 1..n : k[i] \in Entries
    BY <2>1, ElementOfSeq
  <2>3. SubSeq(k, 1, n) \in Seq(Entries)
    BY <2>1, <2>2, SubSeqProperties
  <2> QED
    BY <2>1, <2>3 DEF Front
<1>4. PICK e : e = [k[Len(k)] EXCEPT !.next = @ + 1]
  OBVIOUS
<1>5. e \in Entries
  BY <1>1, <1>4 DEF Entries
<1>6. [k EXCEPT ![Len(k)].next = @ + 1] = [k EXCEPT ![Len(k)] = e]
  BY <1>4
<1>7. [k EXCEPT ![Len(k)] = e] \in Seq(Entries)
  BY <1>1, <1>5, ExceptSeq
<1>8. ASSUME NEW j \in Seq(Entries), NEW x \in Computeds
      PROVE  Append(j, [computed |-> x, next |-> 1]) \in Seq(Entries)
  <2>1. PICK f : f = [computed |-> x, next |-> 1]
    OBVIOUS
  <2>2. f \in Entries
    BY <2>1, <1>8 DEF Entries
  <2>3. Append(j, f) \in Seq(Entries)
    BY <2>2, <1>8, AppendProperties
  <2> QED
    BY <2>1, <2>3
<1> QED
  BY <1>2, <1>3, <1>6, <1>7, <1>8

LEMMA StartedStep ==
    ASSUME IInv, op # None, op.kind = "pull", op.work # <<>>,
           NEW c \in Computeds, c = Last(op.work).computed,
           graph.color[c] = "dirty", Started(c)
    PROVE  Good
<1>1. frozen = FALSE /\ OpOK(op)
  BY DEF IInv, AgentOK
<1>2. PICK f : f = [kind |-> "computed", op |-> op, old |-> graph.sources[c],
                    previous |-> computing, comparing |-> FALSE]
  OBVIOUS
<1>3. /\ f.kind = "computed" /\ f.op = op /\ f.previous = computing
      /\ f = [kind |-> "computed", op |-> f.op, old |-> f.old,
              previous |-> f.previous, comparing |-> f.comparing]
  BY <1>2
<1>4. FrameOK(f) /\ Owning(f) /\ Subject(f) = c /\ OwnerOf(f) = c
  BY <1>1, <1>3 DEF FrameOK, Owning, Subject, OwnerOf
<1>5. /\ graph' = [graph EXCEPT !.sources[c] = <<>>, !.color[c] = "computing"]
      /\ computing' = c /\ stack' = Append(stack, f) /\ op' = None /\ frozen' = frozen
  BY <1>2, Zenon DEF Started, Push
<1>6. /\ AgentOK(stack', computing', FALSE) /\ FramesOK(stack')
      /\ Subjects(stack) \subseteq Subjects(stack') /\ c \in Subjects(stack')
  BY <1>1, <1>3, <1>4, <1>5, PushState
<1>7. PICK g : g = graph
  OBVIOUS
<1>8. PICK h : h = [g EXCEPT !.sources[c] = <<>>, !.color[c] = "computing"]
  OBVIOUS
<1>9. GraphOK(g) /\ graph' = h
  BY <1>5, <1>7, <1>8 DEF IInv
<1>10. /\ IsGraph(h) /\ h.color = [g.color EXCEPT ![c] = "computing"]
       /\ h.sinks = g.sinks /\ h.watched = g.watched
  BY <1>8, <1>9 DEF GraphOK, IsGraph
<1>11. GraphOK(h)
  BY <1>9, <1>10 DEF GraphOK, LinkedOK
<1>12. \A d \in Computeds : d # c => h.color[d] = g.color[d]
  BY <1>9, <1>10 DEF GraphOK, IsGraph
<1>13. HasColor(h, "computing") \subseteq HasColor(g, "computing") \cup {c}
  BY <1>12 DEF HasColor
<1>14. HasColor(graph', "computing") \subseteq Subjects(stack')
  BY <1>6, <1>7, <1>9, <1>13 DEF IInv
<1>15. IInv'
  BY <1>1, <1>5, <1>6, <1>9, <1>11, <1>14 DEF IInv
<1>16. ArmedStep
  BY <1>7, <1>9, <1>12 DEF ArmedStep
<1> QED
  BY <1>15, <1>16 DEF Good

LEMMA PullTurnStep ==
    ASSUME IInv, PullTurn
    PROVE  Good
<1>1. op # None /\ op.kind = "pull" /\ op.work # <<>>
  BY Zenon DEF PullTurn
<1>2. frozen = FALSE /\ OpOK(op) /\ GraphOK(graph)
  BY <1>1 DEF IInv, AgentOK
<1>3. PICK o : o = op
  OBVIOUS
<1>4. PICK g : g = graph
  OBVIOUS
<1>5. PICK c : c = Last(op.work).computed
  OBVIOUS
<1>6. /\ c \in Computeds /\ Front(o.work) \in Seq(Entries)
      /\ [o.work EXCEPT ![Len(o.work)].next = @ + 1] \in Seq(Entries)
      /\ \A j \in Seq(Entries) : \A x \in Computeds :
            Append(j, [computed |-> x, next |-> 1]) \in Seq(Entries)
  <2>1. PICK k : k = o.work
    OBVIOUS
  <2>2. k \in Seq(Entries) /\ k # <<>>
    BY <2>1, <1>1, <1>2, <1>3 DEF OpOK
  <2> QED
    BY <2>1, <2>2, <1>3, <1>5, PullWork
<1>7. PICK advanced : advanced = [o EXCEPT !.work[Len(o.work)].next = @ + 1]
  OBVIOUS
<1>8. OpOK(advanced) /\ advanced.work \in Seq(Entries)
  <2>1. PICK k : k = [o.work EXCEPT ![Len(o.work)].next = @ + 1]
    OBVIOUS
  <2>2. advanced = [o EXCEPT !.work = k]
    BY <2>1, <1>7
  <2>3. k \in Seq(Entries)
    BY <2>1, <1>6
  <2> QED
    BY <2>2, <2>3, <1>2, <1>3, OpChanged
<1>9. OpOK([o EXCEPT !.work = Front(@)])
  <2>1. PICK k : k = Front(o.work)
    OBVIOUS
  <2>2. OpOK([o EXCEPT !.work = k])
    BY <2>1, <1>2, <1>3, <1>6, OpChanged
  <2> QED
    BY <2>1, <2>2
<1>10. PICK x : x = graph.sources[c][Last(op.work).next]
  OBVIOUS
<1>11. NeedsPull(graph, {x}) # {} =>
          OpOK([advanced EXCEPT !.work = Append(@, [computed |-> x, next |-> 1])])
  <2>1. SUFFICES ASSUME NeedsPull(graph, {x}) # {}
                 PROVE  OpOK([advanced EXCEPT !.work = Append(@, [computed |-> x, next |-> 1])])
    OBVIOUS
  <2>2. x \in Computeds
    BY <2>1 DEF NeedsPull
  <2>3. PICK k : k = Append(advanced.work, [computed |-> x, next |-> 1])
    OBVIOUS
  <2>4. k \in Seq(Entries)
    BY <2>2, <2>3, <1>6, <1>8
  <2>5. OpOK([advanced EXCEPT !.work = k])
    BY <2>4, <1>8, OpChanged
  <2> QED
    BY <2>3, <2>5
<1>12. \/ /\ op' = [op EXCEPT !.work = Front(@)]
          /\ UNCHANGED <<graph, computing, frozen, stack, outdated, regular>>
       \/ /\ graph' = CycleCached(graph, c) /\ op' = None
          /\ UNCHANGED <<computing, frozen, stack, outdated, regular>>
       \/ graph.color[c] = "dirty" /\ HasRoom /\ Started(c)
       \/ graph.color[c] = "dirty" /\ Refused
       \/ /\ op' = IF NeedsPull(graph, {x}) # {}
                   THEN [advanced EXCEPT !.work =
                            Append(@, [computed |-> x, next |-> 1])]
                   ELSE advanced
          /\ UNCHANGED <<graph, computing, frozen, stack, outdated, regular>>
       \/ /\ graph' = Cleared([graph EXCEPT !.color[c] = "clean"], {c})
          /\ op' = [op EXCEPT !.work = Front(@)]
          /\ UNCHANGED <<computing, frozen, stack, outdated, regular>>
  BY <1>3, <1>5, <1>7, <1>10, Zenon DEF PullTurn
<1>13. CASE graph.color[c] = "dirty" /\ HasRoom /\ Started(c)
  BY <1>1, <1>5, <1>6, <1>13, StartedStep
<1>14. Kept(g, Cleared([g EXCEPT !.color[c] = "clean"], {c}))
  <2>1. PICK h : h = [g EXCEPT !.color[c] = "clean"]
    OBVIOUS
  <2>2. PICK k : k = [g.color EXCEPT ![c] = "clean"]
    OBVIOUS
  <2>3. h = [g EXCEPT !.color = k]
    BY <2>1, <2>2
  <2>4. /\ k = [d \in Computeds |-> k[d]]
        /\ \A d \in Computeds : k[d] = IF d = c THEN "clean" ELSE g.color[d]
    BY <2>2, <1>2, <1>4 DEF GraphOK, IsGraph
  <2>5. GraphOK(h) /\ h.color = k
    BY <2>3, <2>4, <1>2, <1>4, RecoloredKept
  <2>6. PICK m : m = Cleared(h, {c})
    OBVIOUS
  <2>7. GraphOK(m) /\ m.color = k
    BY <2>5, <2>6, ClearedKept
  <2>8. Kept(g, m)
    BY <2>4, <2>7 DEF Kept, Quiet
  <2> QED
    BY <2>1, <2>6, <2>8
<1>15. Kept(g, CycleCached(g, c)) /\ Kept(g, g)
  BY <1>2, <1>4, CycleKept, UnchangedKept
<1>16. CASE ~(graph.color[c] = "dirty" /\ HasRoom /\ Started(c))
  <2>1. /\ computing' = computing /\ frozen' = frozen /\ stack' = stack
        /\ \/ graph' = graph
           \/ graph' = CycleCached(graph, c)
           \/ graph' = Cleared([graph EXCEPT !.color[c] = "clean"], {c})
    BY <1>12, <1>16, Zenon DEF Refused
  <2>2. op' = None \/ OpOK(op')
    BY <1>3, <1>8, <1>9, <1>11, <1>12, <1>16 DEF Refused
  <2>3. AgentStep
    BY <1>2, <2>1, <2>2 DEF AgentStep, IInv
  <2>4. Kept(graph, graph')
    BY <1>4, <1>14, <1>15, <2>1
  <2> QED
    BY <2>1, <2>3, <2>4, QuietStep
<1> QED
  BY <1>13, <1>16

LEMMA PullFinishStep ==
    ASSUME IInv, PullFinish
    PROVE  Good
<1>1. PICK x : x = op.subject
  OBVIOUS
<1>2. /\ graph' = Recorded(graph, computing, x) /\ op # None
      /\ computing' = computing /\ frozen' = frozen /\ op' = None /\ stack' = stack
  BY <1>1 DEF PullFinish
<1>3. AgentStep
  BY <1>2 DEF IInv, AgentStep
<1>4. Kept(graph, graph')
  <2>1. PICK g : g = graph
    OBVIOUS
  <2>2. PICK o : o = computing
    OBVIOUS
  <2>3. GraphOK(g)
    BY <2>1 DEF IInv
  <2>4. Kept(g, Recorded(g, o, x))
    BY <2>3, RecordedKept
  <2> QED
    BY <2>1, <2>2, <2>4, <1>2
<1> QED
  BY <1>2, <1>3, <1>4, QuietStep

\* The end of a series of edge changes, where "frames" and "owner" go on.
LEMMA ContinueStep ==
    ASSUME IInv, NEW r, NEW next, NEW frames, NEW owner,
           \/ graph' = r.g /\ op' = [next EXCEPT !.hooks = r.hooks]
              /\ stack' = frames /\ computing' = owner
           \/ graph' = r.g /\ op' = None /\ stack' = frames /\ computing' = owner
           \/ graph' = Cancelled(r.g, frames) /\ op' = None
              /\ stack' = <<>> /\ computing' = None,
           frozen' = FALSE, Kept(graph, r.g),
           HasColor(r.g, "computing") \subseteq Subjects(frames),
           Subjects(frames) \subseteq Subjects(stack),
           AgentOK(frames, owner, FALSE), FramesOK(frames), OpOK(next)
    PROVE  Good
<1>1. PICK H : H = r.hooks
  OBVIOUS
<1>2. OpOK([next EXCEPT !.hooks = H])
  BY HooksChanged
<1>3. CASE /\ graph' = r.g /\ stack' = frames /\ computing' = owner
           /\ op' = None \/ op' = [next EXCEPT !.hooks = H]
  <2>1. IInv'
    BY <1>2, <1>3 DEF IInv, Kept
  <2>2. ArmedStep
    BY <1>3 DEF ArmedStep, Kept, Quiet
  <2> QED
    BY <2>1, <2>2 DEF Good
<1>4. CASE graph' = Cancelled(r.g, frames) /\ op' = None /\ stack' = <<>> /\ computing' = None
  <2>1. PICK g : g = r.g
    OBVIOUS
  <2>2. /\ GraphOK(Cancelled(g, frames))
        /\ \A c \in Computeds : Cancelled(g, frames).color[c] =
              IF c \in Subjects(frames) THEN "dirty" ELSE g.color[c]
    BY <2>1, CancelledKept DEF Kept
  <2>3. HasColor(graph', "computing") = {}
    BY <1>4, <2>1, <2>2 DEF HasColor
  <2>4. IInv'
    BY <1>4, <2>1, <2>2, <2>3, AgentAtRest DEF IInv
  <2>5. ArmedStep
    BY <1>4, <2>1, <2>2 DEF ArmedStep, Kept, Quiet, Running
  <2> QED
    BY <2>4, <2>5 DEF Good
<1> QED
  BY <1>1, <1>3, <1>4

LEMMA ComparatorCallStep ==
    ASSUME IInv, ComparatorCall
    PROVE  Good
<1>1. /\ frozen = FALSE /\ op = None /\ frozen' = frozen /\ op' = op
      /\ stack # <<>> /\ Top.kind = "computed"
  BY DEF ComparatorCall, Free, IInv, AgentOK
<1>2. PICK frames, top, c, g : frames = Front(stack) /\ top = Top /\ c = Subject(Top) /\ g = graph
  OBVIOUS
<1>3. /\ AgentOK(frames, top.previous, FALSE) /\ FramesOK(frames) /\ FrameOK(top)
      /\ Subjects(frames) \subseteq Subjects(stack)
      /\ Subjects(stack) \subseteq Subjects(frames) \cup {c}
      /\ c \in Subjects(stack) /\ computing = OwnerOf(top) /\ GraphOK(g)
      /\ frames \in Seq(ToSet(frames))
  BY <1>1, <1>2, PopState DEF Owning, IInv, AgentOK
<1>4. CASE stack' = Append(Front(stack), [Top EXCEPT !.comparing = TRUE]) /\ UNCHANGED <<graph, computing>>
  <2>1. PICK f : f = [top EXCEPT !.comparing = TRUE]
    OBVIOUS
  <2>2. /\ f.kind = "computed" /\ f.op = top.op /\ f.previous = top.previous
        /\ f = [kind |-> "computed", op |-> f.op, old |-> f.old,
                previous |-> f.previous, comparing |-> f.comparing]
    BY <1>1, <1>2, <1>3, <2>1 DEF FrameOK
  <2>3. FrameOK(f) /\ Owning(f) /\ Subject(f) = c /\ OwnerOf(f) = OwnerOf(top)
    BY <1>1, <1>2, <1>3, <2>2 DEF FrameOK, Owning, Subject, OwnerOf
  <2>4. PICK o : o = top.previous
    OBVIOUS
  <2>5. AgentOK(Append(frames, f), OwnerOf(f), FALSE)
    BY <1>3, <2>2, <2>3, <2>4, PushedOwning
  <2>6. /\ FramesOK(Append(frames, f)) /\ Subjects(frames) \subseteq Subjects(Append(frames, f))
        /\ c \in Subjects(Append(frames, f))
    BY <1>3, <2>2, <2>3, SubjectsPushed
  <2>7. stack' = Append(frames, f) /\ computing' = computing /\ graph' = graph
    BY <1>2, <1>4, <2>1
  <2>8. AgentStep
    BY <1>1, <1>3, <2>3, <2>5, <2>6, <2>7 DEF AgentStep
  <2>9. Kept(graph, graph')
    BY <2>7, UnchangedKept DEF IInv
  <2>10. Subjects(stack) \subseteq Subjects(stack')
    BY <1>3, <2>6, <2>7
  <2> QED
    BY <2>8, <2>9, <2>10, QuietStep
<1>5. CASE /\ graph' = Restored(graph, Subject(Top), Top.old)
           /\ computing' = OwnerAfter(Top) /\ stack' = Front(stack)
  <2>1. PICK h, old : old = top.old /\ h = [g EXCEPT !.sources[c] = old, !.color[c] = "dirty"]
    OBVIOUS
  <2>2. graph' = h /\ computing' = top.previous /\ stack' = frames
    BY <1>2, <1>5, <2>1 DEF Restored, OwnerAfter
  <2>3. /\ IsGraph(h) /\ h.color = [g.color EXCEPT ![c] = "dirty"]
        /\ h.sinks = g.sinks /\ h.watched = g.watched
    BY <1>3, <2>1 DEF GraphOK, IsGraph
  <2>4. GraphOK(h)
    BY <1>3, <2>3 DEF GraphOK, LinkedOK
  <2>5. \A d \in Computeds : h.color[d] = IF d = c THEN "dirty" ELSE g.color[d]
    BY <1>3, <2>3 DEF GraphOK, IsGraph
  <2>6. HasColor(h, "computing") \subseteq HasColor(g, "computing") \ {c}
    BY <2>5 DEF HasColor
  <2>7. HasColor(graph', "computing") \subseteq Subjects(stack')
    BY <1>2, <1>3, <2>2, <2>6 DEF IInv
  <2>8. IInv'
    BY <1>1, <1>3, <2>2, <2>4, <2>7 DEF IInv
  <2>9. ArmedStep
    BY <1>2, <1>3, <2>2, <2>5 DEF ArmedStep, Running
  <2> QED
    BY <2>8, <2>9 DEF Good
<1> QED
  BY <1>4, <1>5, Zenon DEF ComparatorCall, Pop

LEMMA ComputedEndStep ==
    ASSUME IInv, NEW thrown \in BOOLEAN, ComputedEnd(thrown)
    PROVE  Good
<1>1. frozen = FALSE /\ stack # <<>> /\ Top.kind = "computed" /\ frozen' = frozen
  BY DEF ComputedEnd, Free, IInv, AgentOK
<1>2. PICK frames : frames = Front(stack)
  OBVIOUS
<1>3. PICK top : top = Top
  OBVIOUS
<1>4. PICK g : g = graph
  OBVIOUS
<1>5. PICK c : c = Subject(Top)
  OBVIOUS
<1>6. PICK h : h = Committed(g, c, thrown)
  OBVIOUS
<1>7. PICK r : r = Reconciled(h, c, top.old)
  OBVIOUS
<1>8. PICK next : next = [top.op EXCEPT !.work = Front(@)]
  OBVIOUS
<1>9. PICK changed \in BOOLEAN :
         /\ Continue(Recomputed(Committed(graph, Subject(Top), thrown), Subject(Top),
                                Top.old, changed),
                     [Top.op EXCEPT !.work = Front(@)], Front(stack))
         /\ computing' = IF Ends(Recomputed(Committed(graph, Subject(Top), thrown),
                                            Subject(Top), Top.old, changed))
                         THEN None ELSE OwnerAfter(Top)
  BY Zenon DEF ComputedEnd
<1>10. PICK q : q = Recomputed(Committed(graph, Subject(Top), thrown), Subject(Top),
                               Top.old, changed)
  OBVIOUS
<1>11. r = [g |-> r.g, hooks |-> r.hooks, error |-> r.error]
  <2>1. PICK A, B, C : r = [g |-> A, hooks |-> B, error |-> C]
    BY <1>7, Zenon DEF Reconciled
  <2> QED
    BY <2>1
<1>12. q.g = IF r.error = "none" THEN Cleared(Colored(r.g, c, changed), {c}) ELSE r.g
  <2>1. q = IF r.error = "none"
            THEN [r EXCEPT !.g = Cleared(Colored(@, c, changed), {c})]
            ELSE r
    BY <1>3, <1>4, <1>5, <1>6, <1>7, <1>10 DEF Recomputed
  <2> QED
    BY <2>1, <1>11
<1>13. PICK owner : owner = OwnerAfter(top)
  OBVIOUS
<1>14. \/ graph' = q.g /\ op' = [next EXCEPT !.hooks = q.hooks]
          /\ stack' = frames /\ computing' = owner
       \/ graph' = q.g /\ op' = None /\ stack' = frames /\ computing' = owner
       \/ graph' = Cancelled(q.g, frames) /\ op' = None
          /\ stack' = <<>> /\ computing' = None
  BY <1>2, <1>3, <1>8, <1>9, <1>10, <1>13 DEF Continue, Ends
<1>15. /\ AgentOK(frames, owner, FALSE) /\ FramesOK(frames) /\ FrameOK(top)
       /\ Subjects(frames) \subseteq Subjects(stack)
       /\ Subjects(stack) \subseteq Subjects(frames) \cup {c}
  BY <1>1, <1>2, <1>3, <1>5, <1>13, PopState DEF Owning, OwnerAfter
<1>16. c \in Computeds /\ OpOK(next)
  <2>1. PICK o : o = top.op
    OBVIOUS
  <2>2. PICK k : k = o.work
    OBVIOUS
  <2>3. OpOK(o) /\ o.kind = "pull" /\ k \in Seq(Entries) /\ k # <<>>
    BY <2>1, <2>2, <1>1, <1>3, <1>15 DEF FrameOK, OpOK
  <2>4. Last(k).computed \in Computeds /\ Front(k) \in Seq(Entries)
    BY <2>3, PullWork
  <2>5. PICK j : j = Front(k)
    OBVIOUS
  <2>6. OpOK([o EXCEPT !.work = j])
    BY <2>3, <2>4, <2>5, OpChanged
  <2>7. next = [o EXCEPT !.work = j]
    BY <1>8, <2>1, <2>2, <2>5
  <2>8. c = Last(k).computed
    BY <1>3, <1>5, <2>1, <2>2 DEF Subject
  <2> QED
    BY <2>4, <2>6, <2>7, <2>8
<1>17. GraphOK(h) /\ h.color = [g.color EXCEPT ![c] = "clean"]
  <2>1. GraphOK(g)
    BY <1>4 DEF IInv
  <2>2. /\ IsGraph(h) /\ h.color = [g.color EXCEPT ![c] = "clean"]
        /\ h.sinks = g.sinks /\ h.watched = g.watched
    BY <1>6, <2>1 DEF Committed, GraphOK, IsGraph
  <2> QED
    BY <2>1, <2>2 DEF GraphOK, LinkedOK
<1>18. \A d \in Computeds : h.color[d] = IF d = c THEN "clean" ELSE g.color[d]
  BY <1>4, <1>17 DEF IInv, GraphOK, IsGraph
<1>19. PICK old : old = top.old
  OBVIOUS
<1>20. PICK m : m = r.g
  OBVIOUS
<1>21. GraphOK(m) /\ m.color = h.color
  BY <1>7, <1>16, <1>17, <1>19, <1>20, ReconciledKept
<1>22. PICK n : n = Colored(m, c, changed)
  OBVIOUS
<1>23. Kept(m, n)
  BY <1>21, <1>22, ColoredKept
<1>24. GraphOK(Cleared(n, {c})) /\ Cleared(n, {c}).color = n.color
  BY <1>23, ClearedKept DEF Kept
<1>25. q.g = Cleared(n, {c}) \/ q.g = m
  BY <1>12, <1>20, <1>22
<1>26. GraphOK(q.g) /\ Quiet(h, q.g)
  BY <1>21, <1>23, <1>24, <1>25 DEF Kept, Quiet
<1>27. Kept(g, q.g)
  BY <1>18, <1>26 DEF Kept, Quiet
<1>28. HasColor(q.g, "computing") \subseteq HasColor(g, "computing") \ {c}
  BY <1>18, <1>26 DEF Quiet, HasColor
<1>29. HasColor(q.g, "computing") \subseteq Subjects(frames)
  BY <1>4, <1>15, <1>28 DEF IInv
<1> QED
  BY <1>1, <1>4, <1>14, <1>15, <1>16, <1>27, <1>29, ContinueStep

LEMMA WatchStep ==
    ASSUME IInv, NEW w \in Watchers, NEW list, Watch(w, list)
    PROVE  Good
<1>1. frozen = FALSE /\ op = None
  BY DEF Watch, Call, Free, IInv, AgentOK
<1>2. computing' = computing /\ frozen' = frozen /\ stack' = stack
  BY DEF Watch
<1>3. \/ graph' = [graph EXCEPT !.wstate[w] = "watching"] /\ op' = op
      \/ /\ graph' = graph
         /\ op' = [kind |-> "watch", subject |-> w, work |-> list, hooks |-> {}]
  BY DEF Watch
<1>4. op' = None \/ OpOK(op')
  BY <1>1, <1>3 DEF OpOK
<1>5. AgentStep
  BY <1>1, <1>2, <1>4 DEF AgentStep, IInv
<1>6. Kept(graph, graph')
  <2>1. PICK g : g = graph
    OBVIOUS
  <2>2. GraphOK(g)
    BY <2>1 DEF IInv
  <2>3. Kept(g, [g EXCEPT !.wstate[w] = "watching"]) /\ Kept(g, g)
    BY <2>2, WatcherStateKept, UnchangedKept
  <2> QED
    BY <2>1, <2>3, <1>3
<1> QED
  BY <1>2, <1>5, <1>6, QuietStep

LEMMA UnwatchStep ==
    ASSUME IInv, NEW w \in Watchers, NEW list, Unwatch(w, list)
    PROVE  Good
<1>1. frozen = FALSE
  BY DEF Unwatch, Call, Free, IInv, AgentOK
<1>2. /\ computing' = computing /\ frozen' = frozen /\ stack' = stack /\ graph' = graph
      /\ op' = [kind |-> "unwatch", subject |-> w, work |-> list, hooks |-> {}]
  BY DEF Unwatch
<1>3. AgentStep
  BY <1>1, <1>2 DEF AgentStep, IInv, OpOK
<1>4. Kept(graph, graph')
  BY <1>2 DEF IInv, Kept, Quiet
<1> QED
  BY <1>2, <1>3, <1>4, QuietStep

LEMMA WatcherTurnStep ==
    ASSUME IInv, WatcherTurn
    PROVE  Good
<1>1. op # None /\ op.kind \in {"watch", "unwatch"} /\ frozen' = frozen
  BY Zenon DEF WatcherTurn
<1>2. frozen = FALSE /\ OpOK(op)
  BY <1>1 DEF IInv, AgentOK
<1>3. PICK g : g = graph
  OBVIOUS
<1>4. GraphOK(g)
  BY <1>3 DEF IInv
<1>5. PICK w : w = op.subject
  OBVIOUS
<1>6. PICK x : x = Head(op.work)
  OBVIOUS
<1>7. PICK r : r = IF op.kind = "watch" THEN WatchPrepared(graph, op.subject, Head(op.work))
                                        ELSE UnwatchPrepared(graph, op.subject, Head(op.work))
  OBVIOUS
<1>8. CASE /\ Continue(IF op.kind = "watch"
                       THEN WatchPrepared(graph, op.subject, Head(op.work))
                       ELSE UnwatchPrepared(graph, op.subject, Head(op.work)),
                       [op EXCEPT !.work = Tail(@)], stack)
           /\ computing' = IF Ends(IF op.kind = "watch"
                                   THEN WatchPrepared(graph, op.subject, Head(op.work))
                                   ELSE UnwatchPrepared(graph, op.subject, Head(op.work)))
                           THEN None ELSE computing
  <2>1. PICK next : next = [op EXCEPT !.work = Tail(@)]
    OBVIOUS
  <2>2. PICK frames : frames = stack
    OBVIOUS
  <2>3. PICK owner : owner = computing
    OBVIOUS
  <2>4. \/ graph' = r.g /\ op' = [next EXCEPT !.hooks = r.hooks]
           /\ stack' = frames /\ computing' = owner
        \/ graph' = r.g /\ op' = None /\ stack' = frames /\ computing' = owner
        \/ graph' = Cancelled(r.g, frames) /\ op' = None
           /\ stack' = <<>> /\ computing' = None
    BY <1>7, <1>8, <2>1, <2>2, <2>3 DEF Continue, Ends
  <2>5. Kept(g, r.g)
    BY <1>3, <1>4, <1>5, <1>6, <1>7, WatchKept, UnwatchKept
  <2>6. HasColor(r.g, "computing") \subseteq Subjects(frames)
    BY <1>3, <2>2, <2>5 DEF Kept, Quiet, HasColor, IInv
  <2>7. OpOK(next)
    <3>1. PICK o : o = op
      OBVIOUS
    <3>2. PICK k : k = Tail(op.work)
      OBVIOUS
    <3>3. OpOK([o EXCEPT !.work = k])
      BY <3>1, <1>1, <1>2, OpChanged
    <3> QED
      BY <2>1, <3>1, <3>2, <3>3
  <2>8. AgentOK(frames, owner, FALSE) /\ FramesOK(frames)
    BY <1>2, <2>2, <2>3 DEF IInv
  <2> QED
    BY <1>1, <1>2, <1>3, <2>2, <2>4, <2>5, <2>6, <2>7, <2>8, ContinueStep
<1>9. CASE /\ graph' = IF op.kind = "watch" /\ graph.watched[op.subject] # {}
                       THEN [graph EXCEPT !.wstate[op.subject] = "watching"] ELSE graph
           /\ op' = None
           /\ UNCHANGED <<computing, stack, regular>>
  <2>1. Kept(g, [g EXCEPT !.wstate[w] = "watching"]) /\ Kept(g, g)
    BY <1>4, WatcherStateKept, UnchangedKept
  <2>2. Kept(graph, graph')
    BY <1>3, <1>5, <1>9, <2>1
  <2>3. AgentStep
    BY <1>1, <1>2, <1>9 DEF AgentStep, IInv
  <2> QED
    BY <1>9, <2>2, <2>3, QuietStep
<1> QED
  BY <1>8, <1>9, Zenon DEF WatcherTurn

\* A hook or a notify callback is called, or its call fails.
LEMMA HookCallStep ==
    ASSUME IInv, HookCall
    PROVE  Good
<1>1. op # None /\ op' = None /\ graph' = graph /\ computing' = computing
  BY Zenon DEF HookCall
<1>2. frozen = FALSE /\ OpOK(op)
  BY <1>1 DEF IInv, AgentOK
<1>3. Kept(graph, graph')
  BY <1>1 DEF IInv, Kept, Quiet
<1>4. CASE UNCHANGED <<stack, frozen>>
  <2>1. AgentStep
    BY <1>1, <1>2, <1>4 DEF AgentStep, IInv
  <2> QED
    BY <1>3, <1>4, <2>1, QuietStep
<1>5. ASSUME NEW x, Push([kind |-> "hook", op |-> [op EXCEPT !.hooks = @ \ {x}]]),
             frozen' = TRUE
      PROVE  Good
  <2>1. PICK o : o = [op EXCEPT !.hooks = @ \ {x}]
    OBVIOUS
  <2>2. OpOK(o)
    <3>1. PICK p : p = op
      OBVIOUS
    <3>2. PICK H : H = op.hooks \ {x}
      OBVIOUS
    <3>3. OpOK([p EXCEPT !.hooks = H])
      BY <3>1, <1>2, HooksChanged
    <3> QED
      BY <2>1, <3>1, <3>2, <3>3
  <2>3. PICK f : f = [kind |-> "hook", op |-> o]
    OBVIOUS
  <2>4. FrameOK(f) /\ Freezing(f)
    BY <2>2, <2>3 DEF FrameOK, Freezing
  <2>5. stack' = Append(stack, f)
    BY <1>5, <2>1, <2>3 DEF Push
  <2>6. /\ AgentOK(stack', computing', TRUE) /\ FramesOK(stack')
        /\ Subjects(stack) \subseteq Subjects(stack')
    BY <1>1, <1>2, <2>4, <2>5, PushState
  <2>7. AgentStep
    BY <1>1, <1>5, <2>6 DEF AgentStep
  <2> QED
    BY <1>3, <2>6, <2>7, QuietStep
<1> QED
  BY <1>4, <1>5, Zenon DEF HookCall

LEMMA NotifyTurnStep ==
    ASSUME IInv, NotifyTurn
    PROVE  Good
<1>1. /\ op # None /\ op' = None /\ op.kind = "notify"
      /\ graph' = graph /\ computing' = computing
  BY Zenon DEF NotifyTurn
<1>2. frozen = FALSE /\ OpOK(op)
  BY <1>1 DEF IInv, AgentOK
<1>3. Kept(graph, graph')
  BY <1>1 DEF IInv, Kept, Quiet
<1>4. CASE UNCHANGED <<stack, frozen>>
  <2>1. AgentStep
    BY <1>1, <1>2, <1>4 DEF AgentStep, IInv
  <2> QED
    BY <1>3, <1>4, <2>1, QuietStep
<1>5. CASE /\ Push([kind |-> "notify", watcher |-> Head(op.work),
                    op |-> [op EXCEPT !.work = Tail(@)]])
           /\ frozen' = TRUE
  <2>1. PICK o : o = [op EXCEPT !.work = Tail(@)]
    OBVIOUS
  <2>2. OpOK(o)
    <3>1. PICK p : p = op
      OBVIOUS
    <3>2. PICK k : k = Tail(op.work)
      OBVIOUS
    <3>3. OpOK([p EXCEPT !.work = k])
      BY <3>1, <1>1, <1>2, OpChanged
    <3> QED
      BY <2>1, <3>1, <3>2, <3>3
  <2>3. PICK f : f = [kind |-> "notify", watcher |-> Head(op.work), op |-> o]
    OBVIOUS
  <2>4. FrameOK(f) /\ Freezing(f)
    BY <2>2, <2>3 DEF FrameOK, Freezing
  <2>5. stack' = Append(stack, f)
    BY <1>5, <2>1, <2>3 DEF Push
  <2>6. /\ AgentOK(stack', computing', TRUE) /\ FramesOK(stack')
        /\ Subjects(stack) \subseteq Subjects(stack')
    BY <1>1, <1>2, <2>4, <2>5, PushState
  <2>7. AgentStep
    BY <1>1, <1>5, <2>6 DEF AgentStep
  <2> QED
    BY <1>3, <2>6, <2>7, QuietStep
<1> QED
  BY <1>4, <1>5, Zenon DEF NotifyTurn

LEMMA HookEndStep ==
    ASSUME IInv, NEW thrown \in BOOLEAN, HookEnd(thrown)
    PROVE  Good
<1>1. /\ stack # <<>> /\ Top.kind = "hook" /\ frozen' = FALSE
      /\ op' = (IF thrown THEN None ELSE Top.op) /\ stack' = Front(stack)
      /\ graph' = graph /\ computing' = computing
  BY DEF HookEnd, Pop
<1>2. /\ AgentOK(Front(stack), computing, FALSE) /\ FramesOK(Front(stack)) /\ FrameOK(Top)
      /\ Subjects(stack) \subseteq Subjects(Front(stack))
  BY <1>1, PopState DEF Owning
<1>3. AgentStep
  BY <1>1, <1>2 DEF AgentStep, FrameOK
<1>4. Kept(graph, graph')
  BY <1>1 DEF IInv, Kept, Quiet
<1> QED
  BY <1>1, <1>2, <1>3, <1>4, QuietStep

LEMMA NotifyEndStep ==
    ASSUME IInv, NotifyEnd
    PROVE  Good
<1>1. PICK w : w = Top.watcher
  OBVIOUS
<1>2. /\ stack # <<>> /\ Top.kind = "notify" /\ frozen' = FALSE
      /\ op' = Top.op /\ stack' = Front(stack)
      /\ graph' = [graph EXCEPT !.wstate[w] = "waiting"] /\ computing' = computing
  BY <1>1 DEF NotifyEnd, Pop
<1>3. /\ AgentOK(Front(stack), computing, FALSE) /\ FramesOK(Front(stack)) /\ FrameOK(Top)
      /\ Subjects(stack) \subseteq Subjects(Front(stack))
  BY <1>2, PopState DEF Owning
<1>4. AgentStep
  BY <1>2, <1>3 DEF AgentStep, FrameOK
<1>5. Kept(graph, graph')
  <2>1. PICK g : g = graph
    OBVIOUS
  <2>2. GraphOK(g)
    BY <2>1 DEF IInv
  <2>3. Kept(g, [g EXCEPT !.wstate[w] = "waiting"])
    BY <2>2, WatcherStateKept
  <2> QED
    BY <2>1, <2>3, <1>2
<1> QED
  BY <1>2, <1>3, <1>4, <1>5, QuietStep

LEMMA UntrackStep ==
    ASSUME IInv, Untrack
    PROVE  Good
<1>1. frozen = FALSE /\ op = None
  BY DEF Untrack, Call, Free, IInv, AgentOK
<1>2. PICK f : f = [kind |-> "untrack", previous |-> computing]
  OBVIOUS
<1>3. f.kind = "untrack" /\ f.previous = computing
  BY <1>2
<1>4. FrameOK(f) /\ Owning(f) /\ OwnerOf(f) = None
  BY <1>3 DEF FrameOK, Owning, OwnerOf
<1>5. /\ stack' = Append(stack, f) /\ computing' = None
      /\ graph' = graph /\ frozen' = frozen /\ op' = op
  BY <1>2 DEF Untrack, Push
<1>6. /\ AgentOK(stack', computing', FALSE) /\ FramesOK(stack')
      /\ Subjects(stack) \subseteq Subjects(stack')
  BY <1>1, <1>3, <1>4, <1>5, PushState
<1>7. AgentStep
  BY <1>1, <1>5, <1>6 DEF AgentStep
<1>8. Kept(graph, graph')
  BY <1>5 DEF IInv, Kept, Quiet
<1> QED
  BY <1>6, <1>7, <1>8, QuietStep

LEMMA UntrackEndStep ==
    ASSUME IInv, UntrackEnd
    PROVE  Good
<1>1. frozen = FALSE /\ op = None
  BY DEF UntrackEnd, Free, IInv, AgentOK
<1>2. /\ stack # <<>> /\ Top.kind = "untrack" /\ frozen' = frozen
      /\ op' = op /\ stack' = Front(stack)
      /\ graph' = graph /\ computing' = Top.previous
  BY DEF UntrackEnd, Pop
<1>3. /\ AgentOK(Front(stack), Top.previous, FALSE) /\ FramesOK(Front(stack))
      /\ Subjects(stack) \subseteq Subjects(Front(stack))
  BY <1>2, PopState DEF Owning
<1>4. AgentStep
  BY <1>1, <1>2, <1>3 DEF AgentStep
<1>5. Kept(graph, graph')
  BY <1>2 DEF IInv, Kept, Quiet
<1> QED
  BY <1>2, <1>3, <1>4, <1>5, QuietStep

LEMMA CancelStep ==
    ASSUME IInv, Cancel
    PROVE  Good
<1>1. PICK g : g = graph
  OBVIOUS
<1>2. PICK frames : frames = stack
  OBVIOUS
<1>3. /\ graph' = Cancelled(g, frames) /\ computing' = None /\ frozen' = FALSE
      /\ op' = None /\ stack' = <<>>
  BY <1>1, <1>2 DEF Cancel
<1>4. /\ GraphOK(Cancelled(g, frames))
      /\ \A c \in Computeds : Cancelled(g, frames).color[c] =
            IF c \in Subjects(frames) THEN "dirty" ELSE g.color[c]
  BY <1>1, CancelledKept DEF IInv
<1>5. HasColor(g, "computing") \subseteq Subjects(frames)
  BY <1>1, <1>2 DEF IInv
<1>6. HasColor(graph', "computing") = {}
  BY <1>3, <1>4, <1>5 DEF HasColor
<1>7. IInv'
  BY <1>3, <1>4, <1>6, AgentAtRest DEF IInv
<1>8. ArmedStep
  BY <1>1, <1>2, <1>3, <1>4 DEF ArmedStep, Running
<1> QED
  BY <1>7, <1>8 DEF Good

-----------------------------------------------------------------------------
(* The theorems. *)

LEMMA InitIInv == Init => IInv
<1>1. SUFFICES ASSUME Init PROVE IInv
  OBVIOUS
<1>2. PICK compared : graph =
               [sources |-> [c \in Computeds |-> <<>>],
                sinks   |-> [x \in Signals |-> {}],
                strong  |-> [x \in Signals |-> {}],
                live    |-> [x \in Signals |-> 0],
                color   |-> [c \in Computeds |-> "dirty"],
                cached  |-> [c \in Computeds |-> "none"],
                wstate  |-> [w \in Watchers |-> "waiting"],
                watched |-> [w \in Watchers |-> {}],
                pending |-> [w \in Watchers |-> {}],
                compared |-> compared]
  BY <1>1, Zenon DEF Init
<1>3. GraphOK(graph)
  BY <1>2 DEF GraphOK, IsGraph, LinkedOK
<1>4. HasColor(graph, "computing") = {}
  BY <1>2 DEF HasColor
<1>5. computing = None /\ frozen = FALSE /\ op = None /\ stack = <<>>
  BY <1>1 DEF Init
<1> QED
  BY <1>3, <1>4, <1>5, AgentAtRest DEF IInv

LEMMA NextGood ==
    ASSUME IInv, Next
    PROVE  Good
<1>1. ASSUME NEW s \in States, StateGet(s) \/ StateSet(s) PROVE Good
  BY <1>1, StateGetStep, StateSetStep
<1>2. ASSUME NEW c \in Computeds, ComputedGet(c) PROVE Good
  BY <1>2, ComputedGetStep
<1>3. ASSUME NEW thrown \in BOOLEAN, ComputedEnd(thrown) \/ HookEnd(thrown) PROVE Good
  BY <1>3, ComputedEndStep, HookEndStep
<1>4. ASSUME NEW w \in Watchers, NEW list, Watch(w, list) \/ Unwatch(w, list) PROVE Good
  BY <1>4, WatchStep, UnwatchStep
<1> QED
  BY <1>1, <1>2, <1>3, <1>4, EqualsReturnStep, PullTurnStep, PullFinishStep, ComparatorCallStep,
     WatcherTurnStep, HookCallStep, NotifyTurnStep, NotifyEndStep, UntrackStep,
     UntrackEndStep, CancelStep, Zenon DEF Next

LEMMA StutterIInv == IInv /\ UNCHANGED vars => IInv'
BY DEF IInv, vars

\* Every continuation keeps the owner it found, only the innermost one freezes the
\* graph, watched signals have edges to their watchers, and what is Computing has a
\* continuation on the stack.
THEOREM Inductive == Spec => []IInv
<1>1. IInv /\ [Next]_vars => IInv'
  BY NextGood, StutterIInv DEF Good
<1> QED
  BY InitIInv, <1>1, PTL DEF Spec

\* The agent's owner, the frozen flag and the Computing colour agree with the
\* callbacks that run, however they nest, return, throw or are cancelled
\* (signal_runtime.computing, signal_runtime.frozen).
THEOREM AgentAlwaysMatches == Spec => []AgentMatchesStack
<1>1. IInv => AgentMatchesStack
  <2>1. SUFFICES ASSUME IInv PROVE AgentMatchesStack
    OBVIOUS
  <2>2. OwnerIs(Len(stack), computing)
    BY <2>1 DEF IInv, AgentOK, OwnerAt, OwnerIs
  <2>3. frozen <=> op = None /\ stack # <<>> /\ Top.kind \in {"hook", "notify"}
    BY <2>1 DEF IInv, AgentOK, Freezing, Top, Last
  <2>4. HasColor(graph, "computing") \subseteq Running
    BY <2>1 DEF IInv, Running
  <2> QED
    BY <2>2, <2>3, <2>4 DEF AgentMatchesStack
<1> QED
  BY <1>1, Inductive, PTL

\* A write that makes a clean watched Computed stale arms its watcher off in the
\* same step, through any chain of Computeds (propagate_signal_change), and no
\* other step makes one stale outside its own callback.
THEOREM ArmedAlwaysNotified == Spec => ArmedNotified
<1>1. IInv /\ [Next]_vars => [ArmedStep]_vars
  BY NextGood DEF Good
<1> QED
  BY <1>1, Inductive, PTL DEF Spec, ArmedNotified, ArmedStep
=============================================================================
