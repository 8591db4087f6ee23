---------------------------- MODULE PromisesProofs ----------------------------
(***************************************************************************)
(* Proofs about promises (Promises), for any number of promises, cells,    *)
(* calls and frames: Promises implements PromiseOutcome, no adoption is    *)
(* forgotten, every call of then is answered once and in order, and        *)
(* finally is transparent.                                                 *)
(*                                                                         *)
(* A promise is decided by whoever holds it: an unclaimed pair of          *)
(* resolving functions, a reaction that derives it or adopts for it, in a  *)
(* list or as a job, a thenable job, or a continuation on the stack.  The  *)
(* inductive invariant says that a promise has at most one holder (Sole),  *)
(* and that its course is the one its holder expects.  The operations of a *)
(* step are followed one by one, as functions of tables, jobs, stacks and  *)
(* cells; in between, a step has promises in hand that no one else holds.  *)
(*                                                                         *)
(* On top of it, Standing(L, T) accounts for every call of then (Once),    *)
(* for promises L that nobody will resolve and for thunks T of finally     *)
(* callbacks that are still to run.  With L and T empty it is inductive;   *)
(* for any L and T it survives every step but the job of a thunk of T.     *)
(* FinalInv follows each finally callback through these stages.            *)
(***************************************************************************)
EXTENDS Promises, SequenceTheorems, FiniteSetTheorems, TLAPS

Settleable == Objects \cup Plain
Caps == Promises \cup {Hidden, Custom}
LockedTo(x) == [is |-> "locked", of |-> x]
Reading(x) == [is |-> "resolving", of |-> x]
Courses == {LockedTo(x) : x \in Promises \cup Objects} \cup {Reading(x) : x \in Objects} \cup {None}

IsSeq(s) == s \in Seq(ToSet(s))
InCourse(ps, p, c) == ps[p].state = "pending" /\ ps[p].course = c
Exists(ps, x) == x \in Promises => ps[x].state # "free"

\* The promise table.
PromiseOK(r) ==
  /\ r = [state |-> r.state, result |-> r.result, fulfil |-> r.fulfil, reject |-> r.reject,
          course |-> r.course]
  /\ r.state \in {"free", "pending", "fulfilled", "rejected"} /\ r.course \in Courses
  /\ r.state = "free" => r = Free
  /\ r.state = "fulfilled" => r.result \in Settleable
  /\ r.state = "rejected" => r.result \in Reasons
  /\ IsSeq(r.fulfil) /\ IsSeq(r.reject) /\ DOMAIN r.fulfil = DOMAIN r.reject
  /\ r.state # "pending" => r.fulfil = <<>> /\ r.reject = <<>>
Table(ps) ==
  /\ ps = [p \in Promises |-> ps[p]]
  /\ \A p \in Promises : PromiseOK(ps[p])
  /\ \A p, q \in Promises : p < q /\ ps[p].state = "free" => ps[q].state = "free"

\* Handlers, reactions in the lists of a promise q, and jobs.
HandlerOK(cs, h, rejecting) ==
  /\ h.kind \in {"none", "user", "resolver", "finally", "thunk"}
  /\ h.kind = "resolver" => /\ h.cell \in DOMAIN cs /\ h.reject = rejecting
                            /\ cs[h.cell].native /\ ~cs[h.cell].claimed
  /\ h.kind = "finally" => h.rejected = rejecting
  /\ h.kind = "thunk" => /\ h.rejected \in BOOLEAN
                         /\ h.value \in (IF h.rejected THEN Reasons ELSE Settleable)
Target(cs, r) == IF r.handler.kind = "resolver" THEN cs[r.handler.cell].promise ELSE r.cap
ReactionOK(ps, cs, q, r, rejecting) ==
  /\ r.cap \in Caps /\ HandlerOK(cs, r.handler, rejecting)
  /\ r.handler.kind = "resolver" => r.cap = Hidden /\ InCourse(ps, Target(cs, r), LockedTo(q))
  /\ r.handler.kind # "resolver" /\ r.cap \in Promises => InCourse(ps, r.cap, None)
PairOK(ps, cs, q, f, r) ==
  /\ ReactionOK(ps, cs, q, f, FALSE) /\ ReactionOK(ps, cs, q, r, TRUE)
  /\ f.cap = r.cap /\ (f.handler.kind = "resolver" <=> r.handler.kind = "resolver")
  /\ f.handler.kind = "resolver" => f.handler.cell = r.handler.cell
ListsOK(ps, cs, q) ==
  \A i \in DOMAIN ps[q].fulfil : PairOK(ps, cs, q, ps[q].fulfil[i], ps[q].reject[i])
Settlement(ps, q, v, rejected) ==
  ps[q].state = (IF rejected THEN "rejected" ELSE "fulfilled") /\ ps[q].result = v
JobOK(ps, cs, j) ==
  \/ /\ j.kind = "reaction" /\ j.rejected \in BOOLEAN
     /\ j.argument \in (IF j.rejected THEN Reasons ELSE Settleable)
     /\ j.cap \in Caps /\ HandlerOK(cs, j.handler, j.rejected)
     /\ j.handler.kind = "resolver" =>
          /\ j.cap = Hidden
          /\ \E q \in Promises : /\ InCourse(ps, Target(cs, j), LockedTo(q))
                                 /\ Settlement(ps, q, j.argument, j.rejected)
     /\ j.handler.kind # "resolver" /\ j.cap \in Promises => InCourse(ps, j.cap, None)
  \/ /\ j.kind = "thenable" /\ j.promise \in Promises /\ j.thenable \in Promises \cup Objects
     /\ InCourse(ps, j.promise, LockedTo(j.thenable)) /\ Exists(ps, j.thenable)

\* Continuations and resolving functions.
EntryOK(ps, cs, e) ==
  /\ e.kind \in {"entry", "executor", "thenable", "capability", "reaction", "finally", "try",
                 "resolution"}
  /\ e.frame \in BOOLEAN /\ (~e.frame => e.kind = "reaction")
  /\ e.kind \in {"executor", "thenable"} => e.cell \in DOMAIN cs /\ ~cs[e.cell].native
  /\ e.kind = "reaction" => e.cap \in Caps /\ (e.cap \in Promises => InCourse(ps, e.cap, None))
  /\ e.kind = "finally" => /\ e.rejected \in BOOLEAN
                           /\ e.original \in (IF e.rejected THEN Reasons ELSE Settleable)
  /\ e.kind = "try" => e.promise \in Promises /\ InCourse(ps, e.promise, None)
  /\ e.kind = "resolution" =>
       /\ e.promise \in Promises /\ e.value \in Objects /\ InCourse(ps, e.promise, Reading(e.value))
       /\ e.back \in Values /\ Exists(ps, e.back)
CellOK(ps, c) ==
  /\ c = [promise |-> c.promise, claimed |-> c.claimed, native |-> c.native]
  /\ c.promise \in Promises /\ ps[c.promise].state # "free"
  /\ c.claimed \in BOOLEAN /\ c.native \in BOOLEAN
  /\ ~c.claimed /\ ~c.native =>
       /\ ps[c.promise].state = "pending"
       /\ ps[c.promise].course \in {None} \cup {LockedTo(x) : x \in Objects}

\* The promise that a job, a continuation or a pair of resolving functions holds.
JobTarget(cs, j) == IF j.kind = "thenable" THEN j.promise ELSE Target(cs, j)
EntryTarget(e) ==
  IF e.kind = "reaction" THEN e.cap
  ELSE IF e.kind \in {"try", "resolution"} THEN e.promise ELSE Hidden
CellTarget(c) == IF c.claimed \/ c.native THEN Hidden ELSE c.promise

\* Position i of k, which is the queue, the stack, the cells or the lists of a promise.
Queue == 0
Frames == -1
Pairs == -2
Holds(ps, js, st, cs, k, i, p) ==
  \/ k = Queue /\ i \in DOMAIN js /\ JobTarget(cs, js[i]) = p
  \/ k = Frames /\ i \in DOMAIN st /\ EntryTarget(st[i]) = p
  \/ k = Pairs /\ i \in DOMAIN cs /\ CellTarget(cs[i]) = p
  \/ k \in Promises /\ i \in DOMAIN ps[k].fulfil /\ Target(cs, ps[k].fulfil[i]) = p

Sole(ps, js, st, cs) ==
  \A p \in Promises : \A k, m, i, j \in Int :
    Holds(ps, js, st, cs, k, i, p) /\ Holds(ps, js, st, cs, m, j, p) => k = m /\ i = j
Unheld(ps, js, st, cs, p) == \A k, i \in Int : ~Holds(ps, js, st, cs, k, i, p)
Sought(ps, js, st, cs, p) == \E k, i \in Int : k >= 0 /\ Holds(ps, js, st, cs, k, i, p)

\* The tables, and who holds what when the promises of H are in hand.
Content(ps, js, st, cs) ==
  /\ Table(ps) /\ IsSeq(js) /\ IsSeq(st) /\ IsSeq(cs)
  /\ \A q \in Promises : ListsOK(ps, cs, q)
  /\ \A i \in DOMAIN js : JobOK(ps, cs, js[i])
  /\ \A i \in DOMAIN st : EntryOK(ps, cs, st[i])
  /\ \A i \in DOMAIN cs : CellOK(ps, cs[i])
Holding(ps, js, st, cs, H) ==
  /\ Sole(ps, js, st, cs)
  /\ \A p \in H : p \in Promises /\ Unheld(ps, js, st, cs, p)
  /\ \A p, q \in Promises : p \notin H /\ InCourse(ps, p, LockedTo(q)) => Sought(ps, js, st, cs, p)
Good(ps, js, st, cs, H) == Content(ps, js, st, cs) /\ Holding(ps, js, st, cs, H)

\* A finally callback runs above the reaction that called it.
Shape(st) == \A i \in DOMAIN st : st[i].kind = "finally" => i - 1 \in DOMAIN st /\ st[i - 1].kind = "reaction"

Controlled ==
  /\ Shape(stack)
  /\ ctl = "run" => stack # <<>> /\ Top.frame
  /\ ctl = "drain" => stack # <<>> /\ ~Top.frame /\ out \in Values /\ Exists(promises, out)

IInv == Good(promises, jobs, stack, cells, {}) /\ Controlled

-----------------------------------------------------------------------------
(***************************************************************************)
(* Sequences.                                                              *)
(***************************************************************************)
LEMMA Sequence ==
  ASSUME NEW S, NEW s \in Seq(S)
  PROVE  IsSeq(s)
<1>1. Len(s) \in Nat /\ DOMAIN s = 1..Len(s) /\ s \in [1..Len(s) -> S]
  BY LenProperties
<1>2. s \in [1..Len(s) -> ToSet(s)]
  BY <1>1 DEF ToSet
<1>3. [1..Len(s) -> ToSet(s)] \in {[1..n -> ToSet(s)] : n \in Nat}
  BY <1>1
<1> QED
  BY <1>2, <1>3, SeqDef DEF IsSeq

LEMMA Listed ==
  ASSUME NEW n \in Nat, NEW s, s = [i \in 1..n |-> s[i]]
  PROVE  IsSeq(s)
<1>1. s \in [1..n -> ToSet(s)]
  BY DEF ToSet
<1>2. [1..n -> ToSet(s)] \in {[1..m -> ToSet(s)] : m \in Nat}
  OBVIOUS
<1> QED
  BY <1>1, <1>2, SeqDef DEF IsSeq

LEMMA SequenceDomain ==
  ASSUME NEW s, IsSeq(s)
  PROVE  Len(s) \in Nat /\ DOMAIN s = 1..Len(s) /\ (s # <<>> => Len(s) > 0)
<1>1. Len(s) \in Nat /\ DOMAIN s = 1..Len(s)
  BY LenProperties DEF IsSeq
<1>2. s # <<>> => Len(s) \in Nat \ {0}
  BY EmptySeq DEF IsSeq
<1> QED
  BY <1>1, <1>2

LEMMA NoElements == IsSeq(<<>>) /\ DOMAIN <<>> = {} /\ Len(<<>>) = 0
<1>1. <<>> \in Seq({})
  BY EmptySeq
<1>2. IsSeq(<<>>) /\ Len(<<>>) = 0
  BY <1>1, Sequence, EmptySeq
<1>3. DOMAIN <<>> = 1..0
  BY <1>2, SequenceDomain
<1> QED
  BY <1>2, <1>3

LEMMA Appended ==
  ASSUME NEW s, IsSeq(s), NEW e
  PROVE  /\ IsSeq(Append(s, e)) /\ Len(Append(s, e)) = Len(s) + 1
         /\ DOMAIN Append(s, e) = DOMAIN s \cup {Len(s) + 1} /\ Len(s) + 1 \notin DOMAIN s
         /\ \A i \in DOMAIN s : Append(s, e)[i] = s[i]
         /\ Append(s, e)[Len(s) + 1] = e
         /\ Append(s, e) # <<>> /\ Front(Append(s, e)) = s /\ Last(Append(s, e)) = e
<1> DEFINE S == ToSet(s) \cup {e}
           t == Append(s, e)
<1>1. Len(s) \in Nat /\ DOMAIN s = 1..Len(s)
  BY SequenceDomain
<1>2. s \in Seq(S)
  BY SeqMonotonic DEF IsSeq
<1>3. /\ t \in Seq(S) /\ t # <<>> /\ Len(t) = Len(s) + 1
      /\ \A i \in 1..Len(s) : t[i] = s[i]
      /\ t[Len(s) + 1] = e
  BY <1>2, AppendProperties
<1>4. IsSeq(t) /\ DOMAIN t = 1..Len(t)
  BY <1>3, Sequence, SequenceDomain
<1>5. DOMAIN t = DOMAIN s \cup {Len(s) + 1} /\ Len(s) + 1 \notin DOMAIN s
  BY <1>1, <1>3, <1>4
<1>6. Last(t) = e
  BY <1>3 DEF Last
<1>7. Front(t) = s
  <2>1. Len(t) - 1 = Len(s)
    BY <1>1, <1>3
  <2>2. \A i \in 1..Len(s) : t[i] \in S
    BY <1>1, <1>3 DEF ToSet
  <2>3. /\ SubSeq(t, 1, Len(s)) \in Seq(S)
        /\ Len(SubSeq(t, 1, Len(s))) = IF 1 <= Len(s) THEN Len(s) - 1 + 1 ELSE 0
        /\ \A i \in 1..Len(s) - 1 + 1 : SubSeq(t, 1, Len(s))[i] = t[1 + i - 1]
    BY <1>1, <2>2, SubSeqProperties
  <2>4. Len(SubSeq(t, 1, Len(s))) = Len(s) /\ \A i \in 1..Len(s) : SubSeq(t, 1, Len(s))[i] = s[i]
    BY <1>1, <1>3, <2>3
  <2> QED
    BY <1>2, <2>1, <2>3, <2>4, SeqEqual DEF Front
<1> QED
  BY <1>1, <1>3, <1>4, <1>5, <1>6, <1>7

LEMMA Popped ==
  ASSUME NEW s, IsSeq(s), s # <<>>
  PROVE  /\ IsSeq(Front(s)) /\ Len(Front(s)) = Len(s) - 1 /\ Len(s) \in DOMAIN s
         /\ DOMAIN Front(s) = DOMAIN s \ {Len(s)} /\ Last(s) = s[Len(s)]
         /\ \A i \in DOMAIN Front(s) : Front(s)[i] = s[i]
<1> DEFINE n == Len(s) - 1
           S == ToSet(s)
<1>1. Len(s) \in Nat /\ DOMAIN s = 1..Len(s) /\ Len(s) > 0
  BY SequenceDomain
<1>2. n \in Nat /\ \A i \in 1..n : s[i] \in S
  BY <1>1 DEF ToSet
<1>3. /\ SubSeq(s, 1, n) \in Seq(S)
      /\ Len(SubSeq(s, 1, n)) = IF 1 <= n THEN n - 1 + 1 ELSE 0
      /\ \A i \in 1..n - 1 + 1 : SubSeq(s, 1, n)[i] = s[1 + i - 1]
  BY <1>2, SubSeqProperties
<1>4. Len(SubSeq(s, 1, n)) = n /\ \A i \in 1..n : SubSeq(s, 1, n)[i] = s[i]
  <2> HIDE DEF n, S
  <2>1. n - 1 + 1 = n /\ (IF 1 <= n THEN n - 1 + 1 ELSE 0) = n /\ \A i \in Int : 1 + i - 1 = i
    BY <1>2
  <2> QED
    BY <1>3, <2>1
<1>5. Front(s) = SubSeq(s, 1, n) /\ Last(s) = s[Len(s)]
  BY DEF Front, Last
<1>6. IsSeq(Front(s)) /\ DOMAIN Front(s) = 1..n
  BY <1>3, <1>4, <1>5, Sequence, SequenceDomain
<1> QED
  BY <1>1, <1>2, <1>4, <1>5, <1>6

LEMMA Begins ==
  ASSUME NEW s, IsSeq(s), s # <<>>
  PROVE  /\ IsSeq(Tail(s)) /\ Head(s) = s[1] /\ 1 \in DOMAIN s
         /\ \A i \in Int : i \in DOMAIN Tail(s) <=> i >= 1 /\ i + 1 \in DOMAIN s
         /\ \A i \in DOMAIN Tail(s) : Tail(s)[i] = s[i + 1]
<1>1. Len(s) \in Nat /\ DOMAIN s = 1..Len(s) /\ Len(s) > 0
  BY SequenceDomain
<1>2. /\ Tail(s) \in Seq(ToSet(s)) /\ Len(Tail(s)) = Len(s) - 1
      /\ \A i \in 1..Len(Tail(s)) : Tail(s)[i] = s[i + 1]
  BY HeadTailProperties DEF IsSeq
<1>3. IsSeq(Tail(s)) /\ DOMAIN Tail(s) = 1..Len(Tail(s))
  BY <1>2, Sequence, SequenceDomain
<1>4. Head(s) = s[1]
  BY <1>1 DEF IsSeq
<1> QED
  BY <1>1, <1>2, <1>3, <1>4

LEMMA Joined ==
  ASSUME NEW s, IsSeq(s), NEW t, IsSeq(t)
  PROVE  /\ IsSeq(s \o t)
         /\ \A i \in Int : i \in DOMAIN (s \o t) <=> i \in DOMAIN s \/ i - Len(s) \in DOMAIN t
         /\ \A i \in DOMAIN s : (s \o t)[i] = s[i]
         /\ \A i \in Int : i - Len(s) \in DOMAIN t => (s \o t)[i] = t[i - Len(s)] /\ i \notin DOMAIN s
<1> DEFINE S == ToSet(s) \cup ToSet(t)
<1>1. /\ Len(s) \in Nat /\ DOMAIN s = 1..Len(s) /\ Len(t) \in Nat /\ DOMAIN t = 1..Len(t)
  BY SequenceDomain
<1>2. s \in Seq(S) /\ t \in Seq(S)
  BY SeqMonotonic DEF IsSeq
<1>3. /\ s \o t \in Seq(S) /\ Len(s \o t) = Len(s) + Len(t)
      /\ \A i \in 1..Len(s) + Len(t) :
           (s \o t)[i] = IF i <= Len(s) THEN s[i] ELSE t[i - Len(s)]
  BY <1>2, ConcatProperties
<1>4. IsSeq(s \o t) /\ DOMAIN (s \o t) = 1..Len(s) + Len(t)
  BY <1>3, Sequence, SequenceDomain
<1> QED
  BY <1>1, <1>3, <1>4
-----------------------------------------------------------------------------
(***************************************************************************)
(* The operations of a step on a table and a queue.                        *)
(***************************************************************************)
Both(ps, js) == [ps |-> ps, jobs |-> js]
Put(ps, p, r) == [ps EXCEPT ![p] = r]

Preceded(ps, p) == \A q \in Promises : q < p => ps[q].state # "free"
Made(state, result, fulfil, reject, course) ==
  [state |-> state, result |-> result, fulfil |-> fulfil, reject |-> reject, course |-> course]
Entered(r, course) == Made(r.state, r.result, r.fulfil, r.reject, course)
Ended(r, state, v) == Made(state, v, <<>>, <<>>, r.course)
Joining(r, f, g) == Made(r.state, r.result, Append(r.fulfil, f), Append(r.reject, g), r.course)
Woken(list, v, rejected) == [i \in DOMAIN list |-> ReactionJob(list[i], v, rejected)]
Waking(js, r, state, v) ==
  js \o Woken(IF state = "rejected" THEN r.reject ELSE r.fulfil, v, state = "rejected")
Fits(v, state) == v \in (IF state = "rejected" THEN Reasons ELSE Settleable)
Read(w, p, x) == [w EXCEPT !.ps[p].course = [is |-> "resolving", of |-> x]]
Attached(ps, js, p, f, g, w) ==
  /\ ps[p].state = "pending" => w = Both(Put(ps, p, Joining(ps[p], f, g)), js)
  /\ ps[p].state = "fulfilled" => w = Both(ps, Append(js, ReactionJob(f, ps[p].result, FALSE)))
  /\ ps[p].state = "rejected" => w = Both(ps, Append(js, ReactionJob(g, ps[p].result, TRUE)))

LEMMA BothWith ==
  ASSUME NEW ps, NEW js, NEW y
  PROVE  /\ [Both(ps, js) EXCEPT !.jobs = y] = Both(ps, y)
         /\ [Both(ps, js) EXCEPT !.ps = y] = Both(y, js)
<1>1. [[ps |-> ps, jobs |-> js] EXCEPT !.jobs = y] = [ps |-> ps, jobs |-> y]
  OBVIOUS
<1>2. [[ps |-> ps, jobs |-> js] EXCEPT !.ps = y] = [ps |-> y, jobs |-> js]
  OBVIOUS
<1> QED
  BY <1>1, <1>2, Zenon DEF Both

\* The records of a table have the fields of a promise.
Formed(r) == r = Made(r.state, r.result, r.fulfil, r.reject, r.course)
Framed(ps) == ps = [p \in Promises |-> ps[p]] /\ \A p \in Promises : Formed(ps[p])

LEMMA TableFramed ==
  ASSUME NEW ps, Table(ps)
  PROVE  Framed(ps)
BY DEF Table, PromiseOK, Framed, Formed, Made

LEMMA EnteredIs ==
  ASSUME NEW r, Formed(r), NEW c
  PROVE  [r EXCEPT !.course = c] = Entered(r, c)
<1>1. r = Made(r.state, r.result, r.fulfil, r.reject, r.course)
  BY DEF Formed
<1> QED
  BY <1>1, Z3 DEF Entered, Made

LEMMA JoiningIs ==
  ASSUME NEW r, Formed(r), NEW a, NEW b
  PROVE  [r EXCEPT !.fulfil = a, !.reject = b] = Made(r.state, r.result, a, b, r.course)
<1>1. r = Made(r.state, r.result, r.fulfil, r.reject, r.course)
  BY DEF Formed
<1>2. [r EXCEPT !.fulfil = a, !.reject = b] = [[r EXCEPT !.fulfil = a] EXCEPT !.reject = b]
  OBVIOUS
<1>3. [r EXCEPT !.fulfil = a] = Made(r.state, r.result, a, r.reject, r.course)
  BY <1>1, Z3 DEF Made
<1>4. [Made(r.state, r.result, a, r.reject, r.course) EXCEPT !.reject = b] =
        Made(r.state, r.result, a, b, r.course)
  BY Z3 DEF Made
<1> QED
  BY <1>2, <1>3, <1>4, Zenon

LEMMA EndedIs ==
  ASSUME NEW r, Formed(r), NEW u, NEW v, NEW a
  PROVE  [r EXCEPT !.state = u, !.result = v, !.fulfil = a, !.reject = a] =
           Made(u, v, a, a, r.course)
<1>1. r = Made(r.state, r.result, r.fulfil, r.reject, r.course)
  BY DEF Formed
<1>2. [r EXCEPT !.state = u, !.result = v, !.fulfil = a, !.reject = a] =
        [[[[r EXCEPT !.state = u] EXCEPT !.result = v] EXCEPT !.fulfil = a] EXCEPT !.reject = a]
  OBVIOUS
<1>3. [r EXCEPT !.state = u] = Made(u, r.result, r.fulfil, r.reject, r.course)
  BY <1>1, Z3 DEF Made
<1>4. [Made(u, r.result, r.fulfil, r.reject, r.course) EXCEPT !.result = v] =
        Made(u, v, r.fulfil, r.reject, r.course)
  BY Z3 DEF Made
<1>5. [Made(u, v, r.fulfil, r.reject, r.course) EXCEPT !.fulfil = a] = Made(u, v, a, r.reject, r.course)
  BY Z3 DEF Made
<1>6. [Made(u, v, a, r.reject, r.course) EXCEPT !.reject = a] = Made(u, v, a, a, r.course)
  BY Z3 DEF Made
<1> QED
  BY <1>2, <1>3, <1>4, <1>5, <1>6, Zenon

LEMMA WorldIs == World = Both(promises, jobs) /\ Begun = Both(promises, Tail(jobs))
<1>1. World = Both(promises, jobs)
  BY DEF World, Both
<1>2. World.jobs = jobs
  BY DEF World
<1>3. Begun = [World EXCEPT !.jobs = Tail(jobs)]
  BY <1>2, Zenon DEF Begun
<1>4. \A ps, js, y : [Both(ps, js) EXCEPT !.jobs = y] = Both(ps, y)
  BY BothWith
<1> QED
  BY <1>1, <1>3, <1>4, Zenon

LEMMA BecomeIs ==
  ASSUME NEW ps, NEW js, Become(Both(ps, js))
  PROVE  promises' = ps /\ jobs' = js
BY DEF Become, Both

LEMMA CreateIs ==
  ASSUME NEW ps, NEW js, NEW p \in Promises, NEW r
  PROVE  Create(Both(ps, js), p, r) = Both(Put(ps, p, r), js)
BY DEF Create, Both, Put

LEMMA FreshIs ==
  ASSUME NEW ps, NEW js, NEW p \in Promises, Fresh(Both(ps, js), p)
  PROVE  ps[p].state = "free" /\ Preceded(ps, p)
BY DEF Fresh, Both, Promises, Preceded

LEMMA LockIs ==
  ASSUME NEW ps, NEW js, NEW p \in Promises, NEW x, Framed(ps)
  PROVE  Lock(Both(ps, js), p, x) =
           Both(Put(ps, p, Entered(ps[p], LockedTo(x))),
                Append(js, [kind |-> "thenable", promise |-> p, thenable |-> x]))
<1>1. Formed(ps[p])
  BY DEF Framed
<1>2. [ps[p] EXCEPT !.course = LockedTo(x)] = Entered(ps[p], LockedTo(x))
  BY <1>1, EnteredIs
<1>3. [ps EXCEPT ![p].course = LockedTo(x)] = [ps EXCEPT ![p] = Entered(@, LockedTo(x))]
  BY <1>2
<1> QED
  BY <1>3, Zenon DEF Lock, Both, LockedTo, Put

LEMMA ReadIs ==
  ASSUME NEW ps, NEW js, NEW p \in Promises, NEW x, Framed(ps)
  PROVE  Read(Both(ps, js), p, x) = Both(Put(ps, p, Entered(ps[p], Reading(x))), js)
<1>1. Formed(ps[p])
  BY DEF Framed
<1>2. [ps[p] EXCEPT !.course = Reading(x)] = Entered(ps[p], Reading(x))
  BY <1>1, EnteredIs
<1>3. [ps EXCEPT ![p].course = Reading(x)] = [ps EXCEPT ![p] = Entered(@, Reading(x))]
  BY <1>2
<1>4. Read(Both(ps, js), p, x) =
        [Both(ps, js) EXCEPT !.ps = [ps EXCEPT ![p].course = Reading(x)]]
  BY DEF Both, Read, Reading
<1> QED
  BY <1>3, <1>4, BothWith DEF Put

Awaited(ps, p) == ps[p].state = "pending"
Settled(ps, js, p, state, v) == Both(Put(ps, p, Ended(ps[p], state, v)), Waking(js, ps[p], state, v))

LEMMA SettleIs ==
  ASSUME NEW ps, NEW js, NEW p \in Promises, NEW state, NEW v, Framed(ps), Awaited(ps, p)
  PROVE  Settle(Both(ps, js), p, state, v) = Settled(ps, js, p, state, v)
<1> DEFINE list == IF state = "rejected" THEN ps[p].reject ELSE ps[p].fulfil
           ended == [ps[p] EXCEPT !.state = state, !.result = v, !.fulfil = <<>>, !.reject = <<>>]
<1>1. Formed(ps[p])
  BY DEF Framed
<1>2. ended = Ended(ps[p], state, v)
  BY <1>1, EndedIs, Zenon DEF Ended
<1>3. Settle(Both(ps, js), p, state, v) =
        [ps |-> [ps EXCEPT ![p] = ended],
         jobs |-> js \o [i \in DOMAIN list |-> ReactionJob(list[i], v, state = "rejected")]]
  BY DEF Settle, MaySettle, Emptied, Both, Awaited
<1> QED
  BY <1>2, <1>3, Zenon DEF Both, Woken, Waking, Put, Settled

LEMMA AttachIs ==
  ASSUME NEW ps, NEW js, NEW p \in Promises, NEW h, NEW k, NEW cap, NEW id, Framed(ps),
         NEW f, NEW g, f = [handler |-> h, cap |-> cap, id |-> id],
         g = [handler |-> k, cap |-> cap, id |-> id]
  PROVE  Attached(ps, js, p, f, g, Attach(Both(ps, js), p, h, k, cap, id))
<1>1. CASE ps[p].state = "pending"
  <2>1. Attach(Both(ps, js), p, h, k, cap, id) =
          [Both(ps, js) EXCEPT !.ps[p].fulfil = Append(@, f), !.ps[p].reject = Append(@, g)]
    BY <1>1 DEF Attach, AppendReaction, Both
  <2>2. Formed(ps[p])
    BY DEF Framed
  <2>3. [ps[p] EXCEPT !.fulfil = Append(@, f), !.reject = Append(@, g)] = Joining(ps[p], f, g)
    BY <2>2, JoiningIs, Zenon DEF Joining
  <2>4. [ps EXCEPT ![p].fulfil = Append(@, f), ![p].reject = Append(@, g)] =
          [ps EXCEPT ![p] = Joining(@, f, g)]
    BY <2>3 DEF Framed
  <2>5. [Both(ps, js) EXCEPT !.ps[p].fulfil = Append(@, f), !.ps[p].reject = Append(@, g)] =
          [Both(ps, js) EXCEPT !.ps = [ps EXCEPT ![p].fulfil = Append(@, f), ![p].reject = Append(@, g)]]
    BY DEF Both
  <2>6. [Both(ps, js) EXCEPT !.ps = [ps EXCEPT ![p] = Joining(@, f, g)]] =
          Both([ps EXCEPT ![p] = Joining(@, f, g)], js)
    BY BothWith
  <2>7. Attach(Both(ps, js), p, h, k, cap, id) = Both(Put(ps, p, Joining(ps[p], f, g)), js)
    BY <2>1, <2>4, <2>5, <2>6, Zenon DEF Put
  <2> QED
    BY <1>1, <2>7 DEF Attached
<1>2. CASE ps[p].state = "fulfilled"
  BY <1>2 DEF Attach, Both, Attached
<1>3. CASE ps[p].state = "rejected"
  BY <1>3 DEF Attach, Both, Attached
<1> QED
  BY <1>1, <1>2, <1>3 DEF Attached
-----------------------------------------------------------------------------
(***************************************************************************)
(* What stays true when at most the course of p is changed: everything     *)
(* but what p's holder expects.                                            *)
(***************************************************************************)
Same(ps, ps2, q) ==
  ps2[q].state = ps[q].state /\ ps2[q].course = ps[q].course /\ ps2[q].result = ps[q].result
CellsOK(ps, cs) == \A i \in DOMAIN cs : CellOK(ps, cs[i])
Kept(ps, cs, ps2, cs2, p) ==
  /\ \A q \in Promises : q # p => Same(ps, ps2, q)
  /\ p \in Promises => ps[p].state \in {"free", "pending"} /\ ps2[p].state # "free"
  /\ \A c \in DOMAIN cs :
       /\ c \in DOMAIN cs2 /\ cs2[c].promise = cs[c].promise /\ cs2[c].native = cs[c].native
       /\ cs[c].promise # p => cs2[c] = cs[c]

LEMMA KeptCourse ==
  ASSUME NEW ps, NEW cs, NEW ps2, NEW cs2, NEW p, Kept(ps, cs, ps2, cs2, p),
         NEW q \in Promises, q # p, NEW c, InCourse(ps, q, c)
  PROVE  InCourse(ps2, q, c)
BY DEF Kept, Same, InCourse

LEMMA KeptExists ==
  ASSUME NEW ps, NEW cs, NEW ps2, NEW cs2, NEW p, Kept(ps, cs, ps2, cs2, p), NEW x, Exists(ps, x)
  PROVE  Exists(ps2, x)
BY DEF Kept, Same, Exists

LEMMA KeptReaction ==
  ASSUME NEW ps, NEW cs, NEW ps2, NEW cs2, NEW p, Kept(ps, cs, ps2, cs2, p), CellsOK(ps, cs),
         NEW q, NEW r, NEW b, ReactionOK(ps, cs, q, r, b), p \in Promises => Target(cs, r) # p
  PROVE  ReactionOK(ps2, cs2, q, r, b) /\ Target(cs2, r) = Target(cs, r)
<1>1. CASE r.handler.kind = "resolver"
  <2> DEFINE c == r.handler.cell
  <2>1. c \in DOMAIN cs /\ Target(cs, r) = cs[c].promise
    BY <1>1 DEF ReactionOK, HandlerOK, Target
  <2>2. c \in DOMAIN cs2 /\ cs2[c] = cs[c] /\ cs[c].promise \in Promises
    BY <2>1 DEF Kept, CellsOK, CellOK
  <2>3. Target(cs2, r) = Target(cs, r)
    BY <1>1, <2>1, <2>2 DEF Target
  <2>4. InCourse(ps2, Target(cs2, r), LockedTo(q))
    BY <1>1, <2>1, <2>2, <2>3, KeptCourse DEF ReactionOK
  <2>5. HandlerOK(cs2, r.handler, b)
    BY <1>1, <2>1, <2>2 DEF HandlerOK, ReactionOK
  <2> QED
    BY <1>1, <2>3, <2>4, <2>5 DEF ReactionOK
<1>2. CASE r.handler.kind # "resolver"
  <2>1. Target(cs, r) = r.cap /\ Target(cs2, r) = r.cap
    BY <1>2 DEF Target
  <2>2. r.cap \in Promises => InCourse(ps2, r.cap, None)
    BY <1>2, <2>1, KeptCourse DEF ReactionOK
  <2>3. HandlerOK(cs2, r.handler, b)
    BY <1>2 DEF HandlerOK, ReactionOK
  <2> QED
    BY <1>2, <2>1, <2>2, <2>3 DEF ReactionOK
<1> QED
  BY <1>1, <1>2

LEMMA PairTarget ==
  ASSUME NEW ps, NEW cs, NEW q, NEW f, NEW r, PairOK(ps, cs, q, f, r)
  PROVE  Target(cs, f) = Target(cs, r)
BY DEF PairOK, Target

LEMMA KeptPair ==
  ASSUME NEW ps, NEW cs, NEW ps2, NEW cs2, NEW p, Kept(ps, cs, ps2, cs2, p), CellsOK(ps, cs),
         NEW q, NEW f, NEW r, PairOK(ps, cs, q, f, r), p \in Promises => Target(cs, f) # p
  PROVE  PairOK(ps2, cs2, q, f, r) /\ Target(cs2, f) = Target(cs, f)
<1>1. ReactionOK(ps, cs, q, f, FALSE) /\ ReactionOK(ps, cs, q, r, TRUE)
      /\ (p \in Promises => Target(cs, r) # p)
  <2>1. Target(cs, f) = Target(cs, r)
    BY PairTarget
  <2> QED
    BY <2>1, Zenon DEF PairOK
<1>2. ASSUME NEW b \in BOOLEAN, NEW t, p \in Promises => Target(cs, t) # p, ReactionOK(ps, cs, q, t, b)
      PROVE  ReactionOK(ps2, cs2, q, t, b) /\ Target(cs2, t) = Target(cs, t)
  BY <1>2, KeptReaction
<1>3. ReactionOK(ps2, cs2, q, f, FALSE) /\ Target(cs2, f) = Target(cs, f)
  BY <1>1, <1>2, Zenon
<1>4. ReactionOK(ps2, cs2, q, r, TRUE)
  BY <1>1, <1>2, Zenon
<1> QED
  BY <1>3, <1>4 DEF PairOK

LEMMA KeptJob ==
  ASSUME NEW ps, NEW cs, NEW ps2, NEW cs2, NEW p, Kept(ps, cs, ps2, cs2, p), CellsOK(ps, cs),
         NEW j, JobOK(ps, cs, j), p \in Promises => JobTarget(cs, j) # p
  PROVE  JobOK(ps2, cs2, j) /\ JobTarget(cs2, j) = JobTarget(cs, j)
<1>1. CASE j.kind = "thenable"
  <2>1. j.promise \in Promises /\ j.promise # p /\ JobTarget(cs2, j) = JobTarget(cs, j)
    BY <1>1 DEF JobOK, JobTarget
  <2>2. InCourse(ps2, j.promise, LockedTo(j.thenable)) /\ Exists(ps2, j.thenable)
    BY <1>1, <2>1, KeptCourse, KeptExists DEF JobOK
  <2> QED
    BY <1>1, <2>1, <2>2 DEF JobOK
<1>2. CASE j.kind # "thenable" /\ j.handler.kind = "resolver"
  <2> DEFINE c == j.handler.cell
  <2>1. c \in DOMAIN cs /\ JobTarget(cs, j) = cs[c].promise /\ Target(cs, j) = cs[c].promise
    BY <1>2 DEF JobOK, HandlerOK, JobTarget, Target
  <2>2. c \in DOMAIN cs2 /\ cs2[c] = cs[c] /\ cs[c].promise \in Promises
    BY <2>1 DEF Kept, CellsOK, CellOK
  <2>3. Target(cs2, j) = cs[c].promise /\ JobTarget(cs2, j) = cs[c].promise
    BY <1>2, <2>1, <2>2 DEF Target, JobTarget
  <2>4. PICK q \in Promises : /\ InCourse(ps, Target(cs, j), LockedTo(q))
                              /\ Settlement(ps, q, j.argument, j.rejected)
    BY <1>2 DEF JobOK
  <2>5. InCourse(ps2, Target(cs2, j), LockedTo(q))
    BY <2>1, <2>2, <2>3, <2>4, KeptCourse
  <2>6. ps[q].state \in {"fulfilled", "rejected"}
    BY <2>4 DEF Settlement
  <2>7. Settlement(ps2, q, j.argument, j.rejected)
    BY <2>4, <2>6 DEF Settlement, Kept, Same
  <2>8. HandlerOK(cs2, j.handler, j.rejected)
    BY <1>2, <2>1, <2>2 DEF HandlerOK, JobOK
  <2> QED
    BY <1>2, <2>1, <2>3, <2>5, <2>7, <2>8 DEF JobOK
<1>3. CASE j.kind # "thenable" /\ j.handler.kind # "resolver"
  <2>1. JobTarget(cs, j) = j.cap /\ JobTarget(cs2, j) = j.cap
    BY <1>3 DEF JobTarget, Target
  <2>2. j.cap \in Promises => InCourse(ps2, j.cap, None)
    BY <1>3, <2>1, KeptCourse DEF JobOK
  <2>3. HandlerOK(cs2, j.handler, j.rejected)
    BY <1>3 DEF HandlerOK, JobOK
  <2> QED
    BY <1>3, <2>1, <2>2, <2>3 DEF JobOK
<1> QED
  BY <1>1, <1>2, <1>3

LEMMA KeptEntry ==
  ASSUME NEW ps, NEW cs, NEW ps2, NEW cs2, NEW p, Kept(ps, cs, ps2, cs2, p),
         NEW e, EntryOK(ps, cs, e), p \in Promises => EntryTarget(e) # p
  PROVE  EntryOK(ps2, cs2, e)
<1>1. e.kind \in {"executor", "thenable"} => e.cell \in DOMAIN cs2 /\ ~cs2[e.cell].native
  BY DEF EntryOK, Kept
<1>2. e.kind = "reaction" => e.cap \in Caps /\ (e.cap \in Promises => InCourse(ps2, e.cap, None))
  BY KeptCourse DEF EntryOK, EntryTarget
<1>3. e.kind = "try" => e.promise \in Promises /\ InCourse(ps2, e.promise, None)
  BY KeptCourse DEF EntryOK, EntryTarget
<1>4. e.kind = "resolution" =>
        /\ e.promise \in Promises /\ e.value \in Objects
        /\ InCourse(ps2, e.promise, Reading(e.value))
        /\ e.back \in Values /\ Exists(ps2, e.back)
  BY KeptCourse, KeptExists DEF EntryOK, EntryTarget
<1> QED
  BY <1>1, <1>2, <1>3, <1>4 DEF EntryOK

LEMMA KeptCell ==
  ASSUME NEW ps, NEW cs, NEW ps2, NEW cs2, NEW p, Kept(ps, cs, ps2, cs2, p),
         NEW c, CellOK(ps, c), p \in Promises => CellTarget(c) # p
  PROVE  CellOK(ps2, c)
<1>1. c.promise \in Promises /\ ps[c.promise].state # "free"
  BY DEF CellOK
<1>2. ps2[c.promise].state # "free"
  BY <1>1 DEF Kept, Same
<1>3. ~c.claimed /\ ~c.native => c.promise # p
  BY <1>1 DEF CellTarget
<1> QED
  BY <1>1, <1>2, <1>3 DEF CellOK, Kept, Same
-----------------------------------------------------------------------------
(***************************************************************************)
(* Holders.                                                                *)
(***************************************************************************)
LEMMA Numbers == Promises \subseteq Int /\ \A p \in Promises : p > 0 /\ p # Hidden /\ p # Custom
BY BoundsAssumption, ValuesAssumption DEF Promises, Hidden

LEMMA HeldPending ==
  ASSUME NEW ps, NEW js, NEW st, NEW cs, Content(ps, js, st, cs),
         NEW p \in Promises, NEW k, NEW i, Holds(ps, js, st, cs, k, i, p)
  PROVE  ps[p].state = "pending"
<1>1. CASE i \in DOMAIN js /\ JobTarget(cs, js[i]) = p
  <2>1. JobOK(ps, cs, js[i])
    BY <1>1 DEF Content
  <2> QED
    BY <1>1, <2>1 DEF JobOK, JobTarget, Target, InCourse
<1>2. CASE i \in DOMAIN st /\ EntryTarget(st[i]) = p
  <2>1. EntryOK(ps, cs, st[i])
    BY <1>2 DEF Content
  <2>2. p # Hidden
    BY Numbers
  <2> QED
    BY <1>2, <2>1, <2>2 DEF EntryOK, EntryTarget, InCourse
<1>3. CASE i \in DOMAIN cs /\ CellTarget(cs[i]) = p
  <2>1. CellOK(ps, cs[i])
    BY <1>3 DEF Content
  <2>2. p # Hidden
    BY Numbers
  <2> QED
    BY <1>3, <2>1, <2>2 DEF CellOK, CellTarget
<1>4. CASE k \in Promises /\ i \in DOMAIN ps[k].fulfil /\ Target(cs, ps[k].fulfil[i]) = p
  <2>1. PairOK(ps, cs, k, ps[k].fulfil[i], ps[k].reject[i])
    BY <1>4 DEF Content, ListsOK
  <2>2. ReactionOK(ps, cs, k, ps[k].fulfil[i], FALSE)
    BY <2>1, Zenon DEF PairOK
  <2> QED
    BY <1>4, <2>2 DEF ReactionOK, Target, InCourse
<1> QED
  BY <1>1, <1>2, <1>3, <1>4 DEF Holds

\* Positions of a table are numbers.
LEMMA Positions ==
  ASSUME NEW ps, NEW js, NEW st, NEW cs, Content(ps, js, st, cs)
  PROVE  /\ DOMAIN js \subseteq Int /\ DOMAIN st \subseteq Int /\ DOMAIN cs \subseteq Int
         /\ \A q \in Promises : DOMAIN ps[q].fulfil \subseteq Int
<1>1. IsSeq(js) /\ IsSeq(st) /\ IsSeq(cs) /\ \A q \in Promises : IsSeq(ps[q].fulfil)
  BY DEF Content, Table, PromiseOK
<1>2. \A s : IsSeq(s) => DOMAIN s \subseteq Int
  BY SequenceDomain
<1> QED
  BY <1>1, <1>2

LEMMA UnheldTargets ==
  ASSUME NEW ps, NEW js, NEW st, NEW cs, Content(ps, js, st, cs), NEW p \in Promises,
         Unheld(ps, js, st, cs, p)
  PROVE  /\ \A i \in DOMAIN js : JobTarget(cs, js[i]) # p
         /\ \A i \in DOMAIN st : EntryTarget(st[i]) # p
         /\ \A i \in DOMAIN cs : CellTarget(cs[i]) # p
         /\ \A q \in Promises : \A i \in DOMAIN ps[q].fulfil : Target(cs, ps[q].fulfil[i]) # p
<1>1. /\ DOMAIN js \subseteq Int /\ DOMAIN st \subseteq Int /\ DOMAIN cs \subseteq Int
      /\ \A q \in Promises : DOMAIN ps[q].fulfil \subseteq Int
  BY Positions
<1>2. Queue \in Int /\ Frames \in Int /\ Pairs \in Int /\ Promises \subseteq Int
  BY Numbers DEF Queue, Frames, Pairs
<1> QED
  BY <1>1, <1>2 DEF Unheld, Holds

\* A promise in nobody's hands can be changed without disturbing anyone.
Undisturbed(ps, js, st, cs, ps2, cs2) ==
  /\ \A i \in DOMAIN js : JobOK(ps2, cs2, js[i]) /\ JobTarget(cs2, js[i]) = JobTarget(cs, js[i])
  /\ \A i \in DOMAIN st : EntryOK(ps2, cs2, st[i])
  /\ \A i \in DOMAIN cs : CellOK(ps2, cs[i])
  /\ \A q \in Promises : \A i \in DOMAIN ps[q].fulfil :
       /\ PairOK(ps2, cs2, q, ps[q].fulfil[i], ps[q].reject[i])
       /\ Target(cs2, ps[q].fulfil[i]) = Target(cs, ps[q].fulfil[i])

LEMMA KeptAll ==
  ASSUME NEW ps, NEW js, NEW st, NEW cs, NEW ps2, NEW cs2, NEW p, Content(ps, js, st, cs),
         Kept(ps, cs, ps2, cs2, p), p \in Promises => Unheld(ps, js, st, cs, p)
  PROVE  Undisturbed(ps, js, st, cs, ps2, cs2)
<1>1. p \in Promises =>
        /\ \A i \in DOMAIN js : JobTarget(cs, js[i]) # p
        /\ \A i \in DOMAIN st : EntryTarget(st[i]) # p
        /\ \A i \in DOMAIN cs : CellTarget(cs[i]) # p
        /\ \A q \in Promises : \A i \in DOMAIN ps[q].fulfil : Target(cs, ps[q].fulfil[i]) # p
  BY UnheldTargets
<1>2. CellsOK(ps, cs)
  BY DEF CellsOK, Content
<1>3. ASSUME NEW i \in DOMAIN js
      PROVE  JobOK(ps2, cs2, js[i]) /\ JobTarget(cs2, js[i]) = JobTarget(cs, js[i])
  <2>1. JobOK(ps, cs, js[i])
    BY DEF Content
  <2> QED
    BY <1>1, <1>2, <2>1, KeptJob
<1>4. ASSUME NEW i \in DOMAIN st
      PROVE  EntryOK(ps2, cs2, st[i])
  <2>1. EntryOK(ps, cs, st[i])
    BY DEF Content
  <2> QED
    BY <1>1, <2>1, KeptEntry
<1>5. ASSUME NEW i \in DOMAIN cs
      PROVE  CellOK(ps2, cs[i])
  <2>1. CellOK(ps, cs[i])
    BY DEF Content
  <2> QED
    BY <1>1, <2>1, KeptCell
<1>6. ASSUME NEW q \in Promises, NEW i \in DOMAIN ps[q].fulfil
      PROVE  /\ PairOK(ps2, cs2, q, ps[q].fulfil[i], ps[q].reject[i])
             /\ Target(cs2, ps[q].fulfil[i]) = Target(cs, ps[q].fulfil[i])
  <2>1. PairOK(ps, cs, q, ps[q].fulfil[i], ps[q].reject[i])
    BY DEF Content, ListsOK
  <2> QED
    BY <1>1, <1>2, <2>1, KeptPair
<1> QED
  BY <1>3, <1>4, <1>5, <1>6 DEF Undisturbed

\* The same holders; fewer of them; one more; one that takes what is in hand.
LEMMA HoldersKept ==
  ASSUME NEW ps, NEW js, NEW st, NEW cs, NEW ps2, NEW js2, NEW st2, NEW cs2, NEW H,
         Holding(ps, js, st, cs, H),
         \A p \in Promises : \A k, i \in Int :
           /\ Holds(ps2, js2, st2, cs2, k, i, p) => Holds(ps, js, st, cs, k, i, p)
           /\ k >= 0 /\ Holds(ps, js, st, cs, k, i, p) => Holds(ps2, js2, st2, cs2, k, i, p),
         \A p \in Promises \ H : \A q \in Promises :
           InCourse(ps2, p, LockedTo(q)) => InCourse(ps, p, LockedTo(q))
  PROVE  Holding(ps2, js2, st2, cs2, H)
<1>1. Sole(ps2, js2, st2, cs2)
  BY DEF Holding, Sole
<1>2. \A p \in H : p \in Promises /\ Unheld(ps2, js2, st2, cs2, p)
  BY DEF Holding, Unheld
<1>3. ASSUME NEW p \in Promises, NEW q \in Promises, p \notin H, InCourse(ps2, p, LockedTo(q))
      PROVE  Sought(ps2, js2, st2, cs2, p)
  <2>1. Sought(ps, js, st, cs, p)
    BY <1>3 DEF Holding
  <2> QED
    BY <2>1 DEF Sought
<1> QED
  BY <1>1, <1>2, <1>3 DEF Holding

Gains(ps, js, st, cs, ps2, js2, st2, cs2, m, n, t) ==
  /\ \A p \in Promises : \A k, i \in Int :
       Holds(ps2, js2, st2, cs2, k, i, p) <=>
         Holds(ps, js, st, cs, k, i, p) \/ (k = m /\ i = n /\ p = t)
  /\ \A p, q \in Promises : InCourse(ps2, p, LockedTo(q)) => InCourse(ps, p, LockedTo(q))
Unlocked(ps, t) == \A q \in Promises : ~InCourse(ps, t, LockedTo(q))

LEMMA HolderAdded ==
  ASSUME NEW ps, NEW js, NEW st, NEW cs, NEW ps2, NEW js2, NEW st2, NEW cs2, NEW H,
         Holding(ps, js, st, cs, H), NEW m \in Int, NEW n \in Int, NEW t,
         t \in H \/ t \notin Promises,
         Gains(ps, js, st, cs, ps2, js2, st2, cs2, m, n, t),
         m >= 0 \/ t \notin Promises \/ Unlocked(ps, t)
  PROVE  Holding(ps2, js2, st2, cs2, H \ {t})
<1>0. /\ \A p \in Promises : \A k, i \in Int :
           Holds(ps2, js2, st2, cs2, k, i, p) <=>
             Holds(ps, js, st, cs, k, i, p) \/ (k = m /\ i = n /\ p = t)
      /\ \A p, q \in Promises : InCourse(ps2, p, LockedTo(q)) => InCourse(ps, p, LockedTo(q))
  BY DEF Gains
<1>1. Sole(ps2, js2, st2, cs2)
  <2>1. ASSUME NEW p \in Promises, NEW k \in Int, NEW l \in Int, NEW i \in Int, NEW j \in Int,
               Holds(ps2, js2, st2, cs2, k, i, p), Holds(ps2, js2, st2, cs2, l, j, p)
        PROVE  k = l /\ i = j
    <3>1. CASE p = t
      <4>1. ~Holds(ps, js, st, cs, k, i, p) /\ ~Holds(ps, js, st, cs, l, j, p)
        BY <3>1 DEF Holding, Unheld
      <4> QED
        BY <1>0, <2>1, <4>1
    <3>2. CASE p # t
      <4>1. Holds(ps, js, st, cs, k, i, p) /\ Holds(ps, js, st, cs, l, j, p)
        BY <1>0, <2>1, <3>2
      <4> QED
        BY <4>1 DEF Holding, Sole
    <3> QED
      BY <3>1, <3>2
  <2> QED
    BY <2>1 DEF Sole
<1>2. ASSUME NEW p \in H \ {t}
      PROVE  p \in Promises /\ Unheld(ps2, js2, st2, cs2, p)
  <2>1. p \in Promises /\ Unheld(ps, js, st, cs, p)
    BY DEF Holding
  <2> QED
    BY <1>0, <2>1 DEF Unheld
<1>3. ASSUME NEW p \in Promises, NEW q \in Promises, p \notin H \ {t}, InCourse(ps2, p, LockedTo(q))
      PROVE  Sought(ps2, js2, st2, cs2, p)
  <2>0. InCourse(ps, p, LockedTo(q))
    BY <1>0, <1>3
  <2>1. CASE p \in H
    <3>1. p = t /\ m >= 0
      BY <1>3, <2>0, <2>1 DEF Unlocked
    <3>2. Holds(ps2, js2, st2, cs2, m, n, p)
      BY <1>0, <3>1
    <3> QED
      BY <3>1, <3>2 DEF Sought
  <2>2. CASE p \notin H
    <3>1. Sought(ps, js, st, cs, p)
      BY <2>0, <2>2 DEF Holding
    <3> QED
      BY <1>0, <3>1 DEF Sought
  <2> QED
    BY <2>1, <2>2
<1> QED
  BY <1>1, <1>2, <1>3 DEF Holding

LEMMA Taken ==
  ASSUME NEW ps, NEW js, NEW st, NEW cs, NEW H, Good(ps, js, st, cs, H),
         NEW p \in Promises, Unheld(ps, js, st, cs, p)
  PROVE  Good(ps, js, st, cs, H \cup {p})
BY DEF Good, Holding

LEMMA Dropped ==
  ASSUME NEW ps, NEW js, NEW st, NEW cs, NEW H, Good(ps, js, st, cs, H),
         NEW p, Unlocked(ps, p)
  PROVE  Good(ps, js, st, cs, H \ {p})
BY DEF Good, Holding, Unlocked
-----------------------------------------------------------------------------
(***************************************************************************)
(* The operations, one by one.                                             *)
(***************************************************************************)
LEMMA TablePut ==
  ASSUME NEW ps, Table(ps), NEW p \in Promises, NEW r, PromiseOK(r), r.state # "free",
         Preceded(ps, p), NEW ps2, ps2 = Put(ps, p, r)
  PROVE  /\ Table(ps2) /\ ps2[p] = r
         /\ \A q \in Promises : q # p => ps2[q] = ps[q]
<1>1. ps = [q \in Promises |-> ps[q]]
  BY DEF Table
<1>2. ps2 = [q \in Promises |-> IF q = p THEN r ELSE ps[q]]
  BY <1>1 DEF Put
<1>3. ps2[p] = r /\ \A q \in Promises : q # p => ps2[q] = ps[q]
  BY <1>2
<1>4. ps2 = [q \in Promises |-> ps2[q]]
  BY <1>2
<1>5. \A q \in Promises : PromiseOK(ps2[q])
  BY <1>3 DEF Table
<1>6. ASSUME NEW a \in Promises, NEW b \in Promises, a < b, ps2[a].state = "free"
      PROVE  ps2[b].state = "free"
  <2>1. a # p /\ ps[a].state = "free"
    BY <1>3, <1>6
  <2>2. ps[b].state = "free"
    BY <1>6, <2>1 DEF Table
  <2>3. b # p
    BY <1>6, <2>1, <2>2 DEF Preceded
  <2> QED
    BY <1>3, <2>2, <2>3
<1>7. Table(ps2)
  BY <1>4, <1>5, <1>6 DEF Table
<1> QED
  BY <1>3, <1>7

\* A promise in hand enters a course.
LEMMA Enters ==
  ASSUME NEW ps, NEW js, NEW st, NEW cs, NEW H, Good(ps, js, st, cs, H),
         NEW p \in H, ps[p].state = "pending", NEW c \in Courses,
         NEW ps2, ps2 = Put(ps, p, Entered(ps[p], c))
  PROVE  /\ Good(ps2, js, st, cs, H) /\ InCourse(ps2, p, c)
         /\ \A q \in Promises : q # p => Same(ps, ps2, q)
<1> DEFINE r == Entered(ps[p], c)
<1>1. p \in Promises /\ Unheld(ps, js, st, cs, p) /\ Content(ps, js, st, cs) /\ Table(ps)
  BY DEF Good, Holding, Content
<1>2. /\ r.state = "pending" /\ r.result = ps[p].result /\ r.fulfil = ps[p].fulfil
      /\ r.reject = ps[p].reject /\ r.course = c
  BY DEF Entered, Made
<1>3. PromiseOK(ps[p])
  BY <1>1 DEF Table
<1>4. r = [state |-> r.state, result |-> r.result, fulfil |-> r.fulfil, reject |-> r.reject,
           course |-> r.course]
  BY DEF Entered, Made
<1>0. ps2 = Put(ps, p, r)
  OBVIOUS
<1> HIDE DEF r
<1>5. PromiseOK(r)
  BY <1>2, <1>3, <1>4 DEF PromiseOK
<1>6. Table(ps2) /\ ps2[p] = r /\ \A q \in Promises : q # p => ps2[q] = ps[q]
  <2>1. Preceded(ps, p)
    BY <1>1 DEF Table, Preceded
  <2>2. r.state # "free"
    BY <1>2
  <2> QED
    BY <1>1, <1>0, <1>5, <2>1, <2>2, TablePut
<1>7. \A q \in Promises : ps2[q].fulfil = ps[q].fulfil /\ ps2[q].reject = ps[q].reject
  BY <1>2, <1>6
<1>8. \A q \in Promises : q # p => Same(ps, ps2, q)
  BY <1>6 DEF Same
<1>9. Kept(ps, cs, ps2, cs, p)
  BY <1>2, <1>6, <1>8 DEF Kept
<1>10. Content(ps2, js, st, cs)
  <2>1. /\ \A i \in DOMAIN js : JobOK(ps2, cs, js[i])
        /\ \A i \in DOMAIN st : EntryOK(ps2, cs, st[i])
        /\ \A i \in DOMAIN cs : CellOK(ps2, cs[i])
        /\ \A q \in Promises : \A i \in DOMAIN ps[q].fulfil :
             PairOK(ps2, cs, q, ps[q].fulfil[i], ps[q].reject[i])
    <3>1. Undisturbed(ps, js, st, cs, ps2, cs)
      BY <1>1, <1>9, KeptAll
    <3> QED
      BY <3>1 DEF Undisturbed
  <2>2. \A q \in Promises : ListsOK(ps2, cs, q)
    BY <1>7, <2>1 DEF ListsOK
  <2> QED
    BY <1>1, <1>6, <2>1, <2>2 DEF Content
<1>11. Holding(ps2, js, st, cs, H)
  <2>1. \A a \in Promises : \A k, i \in Int :
          Holds(ps2, js, st, cs, k, i, a) <=> Holds(ps, js, st, cs, k, i, a)
    BY <1>7 DEF Holds
  <2>2. \A a \in Promises \ H : \A q \in Promises :
          InCourse(ps2, a, LockedTo(q)) => InCourse(ps, a, LockedTo(q))
    BY <1>8 DEF Same, InCourse
  <2>3. Holding(ps, js, st, cs, H)
    BY DEF Good
  <2> QED
    BY <2>1, <2>2, <2>3, HoldersKept
<1> QED
  BY <1>2, <1>6, <1>8, <1>10, <1>11 DEF Good, InCourse

\* create_promise: the new promise is in hand.
Creation(ps, p, r, ps2) ==
  /\ p \in Promises /\ ps[p].state = "free" /\ Preceded(ps, p)
  /\ PromiseOK(r) /\ r.state # "free" /\ r.fulfil = <<>> /\ ps2 = Put(ps, p, r)
Elsewhere(ps, ps2, p) == \A q \in Promises : q # p => ps2[q] = ps[q] /\ Same(ps, ps2, q)

LEMMA Creates ==
  ASSUME NEW ps, NEW js, NEW st, NEW cs, NEW H, Good(ps, js, st, cs, H),
         NEW p, NEW r, NEW ps2, Creation(ps, p, r, ps2)
  PROVE  Good(ps2, js, st, cs, H \cup {p}) /\ ps2[p] = r /\ Elsewhere(ps, ps2, p)
<1>0. /\ p \in Promises /\ ps[p].state = "free" /\ Preceded(ps, p)
      /\ PromiseOK(r) /\ r.state # "free" /\ r.fulfil = <<>> /\ ps2 = Put(ps, p, r)
  BY DEF Creation
<1>1. Content(ps, js, st, cs) /\ Table(ps)
  BY DEF Good, Content
<1>2. Unheld(ps, js, st, cs, p)
  BY <1>0, <1>1, HeldPending DEF Unheld
<1>3. Good(ps, js, st, cs, H \cup {p})
  BY <1>0, <1>2, Taken
<1>4. Table(ps2) /\ ps2[p] = r /\ \A q \in Promises : q # p => ps2[q] = ps[q]
  BY <1>0, <1>1, TablePut
<1>5. PromiseOK(ps[p])
  BY <1>0, <1>1 DEF Table
<1>6. ps[p].fulfil = <<>>
  BY <1>0, <1>5 DEF PromiseOK
<1>7. DOMAIN ps[p].fulfil = {} /\ DOMAIN ps2[p].fulfil = {}
  BY <1>0, <1>4, <1>6, NoElements
<1>8. \A q \in Promises : q # p => Same(ps, ps2, q)
  BY <1>4 DEF Same
<1>9. Kept(ps, cs, ps2, cs, p)
  BY <1>0, <1>4, <1>8 DEF Kept
<1>10. Content(ps2, js, st, cs)
  <2>1. /\ \A i \in DOMAIN js : JobOK(ps2, cs, js[i])
        /\ \A i \in DOMAIN st : EntryOK(ps2, cs, st[i])
        /\ \A i \in DOMAIN cs : CellOK(ps2, cs[i])
        /\ \A q \in Promises : \A i \in DOMAIN ps[q].fulfil :
             PairOK(ps2, cs, q, ps[q].fulfil[i], ps[q].reject[i])
    <3>1. Undisturbed(ps, js, st, cs, ps2, cs)
      BY <1>1, <1>2, <1>9, KeptAll
    <3> QED
      BY <3>1 DEF Undisturbed
  <2>2. \A q \in Promises : ListsOK(ps2, cs, q)
    BY <1>4, <1>7, <2>1 DEF ListsOK
  <2> QED
    BY <1>1, <1>4, <2>1, <2>2 DEF Content
<1>11. Holding(ps2, js, st, cs, H \cup {p})
  <2>1. \A a \in Promises : \A k, i \in Int :
          Holds(ps2, js, st, cs, k, i, a) <=> Holds(ps, js, st, cs, k, i, a)
    BY <1>4, <1>7 DEF Holds
  <2>2. \A a \in Promises \ (H \cup {p}) : \A q \in Promises :
          InCourse(ps2, a, LockedTo(q)) => InCourse(ps, a, LockedTo(q))
    BY <1>8 DEF Same, InCourse
  <2>3. Holding(ps, js, st, cs, H \cup {p})
    BY <1>3 DEF Good
  <2> QED
    BY <2>1, <2>2, <2>3, HoldersKept
<1> QED
  BY <1>4, <1>8, <1>10, <1>11 DEF Good, Elsewhere

\* A reaction to p becomes a job once p is settled.
LEMMA WokenJob ==
  ASSUME NEW ps, NEW cs, NEW p \in Promises, NEW r, NEW b \in BOOLEAN, ReactionOK(ps, cs, p, r, b),
         NEW v, v \in (IF b THEN Reasons ELSE Settleable), Settlement(ps, p, v, b),
         NEW j, j = ReactionJob(r, v, b)
  PROVE  JobOK(ps, cs, j) /\ JobTarget(cs, j) = Target(cs, r)
<1>1. /\ j.kind = "reaction" /\ j.handler = r.handler /\ j.cap = r.cap /\ j.argument = v
      /\ j.rejected = b
  BY DEF ReactionJob
<1>2. Target(cs, j) = Target(cs, r) /\ JobTarget(cs, j) = Target(cs, r)
  BY <1>1 DEF Target, JobTarget
<1>3. j.cap \in Caps /\ HandlerOK(cs, j.handler, j.rejected)
  BY <1>1 DEF ReactionOK
<1>4. j.handler.kind = "resolver" => j.cap = Hidden /\ InCourse(ps, Target(cs, j), LockedTo(p))
  BY <1>1, <1>2 DEF ReactionOK
<1>5. j.handler.kind # "resolver" /\ j.cap \in Promises => InCourse(ps, j.cap, None)
  BY <1>1 DEF ReactionOK
<1>6. Settlement(ps, p, j.argument, j.rejected)
  BY <1>1
<1> QED
  BY <1>1, <1>2, <1>3, <1>4, <1>5, <1>6 DEF JobOK

\* settle_promise of a promise in hand.
LEMMA Ends ==
  ASSUME NEW ps, NEW js, NEW st, NEW cs, NEW H, Good(ps, js, st, cs, H),
         NEW p \in H, ps[p].state = "pending", NEW state \in {"fulfilled", "rejected"},
         NEW v, Fits(v, state),
         NEW ps2, ps2 = Put(ps, p, Ended(ps[p], state, v)),
         NEW js2, js2 = Waking(js, ps[p], state, v)
  PROVE  /\ Good(ps2, js2, st, cs, H \ {p}) /\ ps2[p].state = state /\ ps2[p].result = v
         /\ \A q \in Promises : q # p => Same(ps, ps2, q)
<1> DEFINE r == Ended(ps[p], state, v)
           b == state = "rejected"
           list == IF b THEN ps[p].reject ELSE ps[p].fulfil
           new == Woken(list, v, b)
<1>1. p \in Promises /\ Unheld(ps, js, st, cs, p) /\ Content(ps, js, st, cs) /\ Table(ps)
  BY DEF Good, Holding, Content
<1>2. /\ r.state = state /\ r.result = v /\ r.fulfil = <<>> /\ r.reject = <<>>
      /\ r.course = ps[p].course
      /\ r = [state |-> r.state, result |-> r.result, fulfil |-> r.fulfil, reject |-> r.reject,
              course |-> r.course]
  BY DEF Ended, Made
<1>3. PromiseOK(ps[p])
  BY <1>1 DEF Table
<1>4. ps2 = Put(ps, p, r) /\ js2 = js \o new /\ b \in BOOLEAN
  BY DEF Waking
<1> HIDE DEF r
<1>5. PromiseOK(r)
  BY <1>2, <1>3, NoElements DEF PromiseOK, Fits
<1>6. Table(ps2) /\ ps2[p] = r /\ \A q \in Promises : q # p => ps2[q] = ps[q]
  <2>1. Preceded(ps, p)
    BY <1>1 DEF Table, Preceded
  <2>2. r.state # "free"
    BY <1>2
  <2> QED
    BY <1>1, <1>4, <1>5, <2>1, <2>2, TablePut
<1>7. \A q \in Promises : q # p => Same(ps, ps2, q)
  BY <1>6 DEF Same
<1>8. Kept(ps, cs, ps2, cs, p)
  BY <1>2, <1>6, <1>7 DEF Kept
<1>9. DOMAIN ps2[p].fulfil = {}
  BY <1>2, <1>6, NoElements
<1>10. /\ \A i \in DOMAIN js : JobOK(ps2, cs, js[i])
       /\ \A i \in DOMAIN st : EntryOK(ps2, cs, st[i])
       /\ \A i \in DOMAIN cs : CellOK(ps2, cs[i])
       /\ \A q \in Promises : \A i \in DOMAIN ps[q].fulfil :
            PairOK(ps2, cs, q, ps[q].fulfil[i], ps[q].reject[i])
  <2>1. Undisturbed(ps, js, st, cs, ps2, cs)
    BY <1>1, <1>8, KeptAll
  <2> QED
    BY <2>1 DEF Undisturbed
<1>11. IsSeq(list) /\ DOMAIN list = DOMAIN ps[p].fulfil
  BY <1>3 DEF PromiseOK
<1>12. IsSeq(new) /\ DOMAIN new = DOMAIN ps[p].fulfil
  <2>1. DOMAIN new = DOMAIN list /\ new \in [DOMAIN list -> ToSet(new)]
    BY DEF Woken, ToSet
  <2>2. Len(list) \in Nat /\ DOMAIN list = 1..Len(list)
    BY <1>11, SequenceDomain
  <2>3. new \in Seq(ToSet(new))
    BY <2>1, <2>2, SeqDef
  <2> QED
    BY <1>11, <2>1, <2>3 DEF IsSeq
<1>13. ASSUME NEW i \in DOMAIN ps[p].fulfil
       PROVE  JobOK(ps2, cs, new[i]) /\ JobTarget(cs, new[i]) = Target(cs, ps[p].fulfil[i])
  <2>1. PairOK(ps2, cs, p, ps[p].fulfil[i], ps[p].reject[i])
    BY <1>1, <1>10
  <2>2. Target(cs, ps[p].fulfil[i]) = Target(cs, ps[p].reject[i])
    BY <2>1, PairTarget
  <2>3. new[i] = ReactionJob(list[i], v, b)
    BY <1>11 DEF Woken
  <2>4. Settlement(ps2, p, v, b)
    BY <1>2, <1>6 DEF Settlement
  <2>5. ReactionOK(ps2, cs, p, list[i], b) /\ Target(cs, list[i]) = Target(cs, ps[p].fulfil[i])
    <3>1. CASE b
      <4>1. ReactionOK(ps2, cs, p, ps[p].reject[i], TRUE)
        BY <2>1, Zenon DEF PairOK
      <4>2. b = TRUE /\ list[i] = ps[p].reject[i]
        BY <3>1
      <4> HIDE DEF b, list
      <4> QED
        BY <2>2, <4>1, <4>2, Zenon
    <3>2. CASE ~b
      <4>1. ReactionOK(ps2, cs, p, ps[p].fulfil[i], FALSE)
        BY <2>1, Zenon DEF PairOK
      <4>2. b = FALSE /\ list[i] = ps[p].fulfil[i]
        BY <3>2
      <4> HIDE DEF b, list
      <4> QED
        BY <4>1, <4>2, Zenon
    <3> QED
      BY <3>1, <3>2
  <2>6. v \in (IF b THEN Reasons ELSE Settleable)
    BY DEF Fits
  <2> HIDE DEF b, list, new
  <2>7. JobOK(ps2, cs, new[i]) /\ JobTarget(cs, new[i]) = Target(cs, list[i])
    BY <1>1, <1>4, <2>3, <2>4, <2>5, <2>6, WokenJob
  <2> QED
    BY <2>5, <2>7
<1>14. IsSeq(js)
  BY <1>1 DEF Content
<1> HIDE DEF new, list, b
<1>15. /\ IsSeq(js2)
       /\ \A i \in Int : i \in DOMAIN js2 <=> i \in DOMAIN js \/ i - Len(js) \in DOMAIN new
       /\ \A i \in DOMAIN js : js2[i] = js[i]
       /\ \A i \in Int : i - Len(js) \in DOMAIN new => js2[i] = new[i - Len(js)] /\ i \notin DOMAIN js
  <2>1. /\ IsSeq(js \o new)
        /\ \A i \in Int : i \in DOMAIN (js \o new) <=> i \in DOMAIN js \/ i - Len(js) \in DOMAIN new
        /\ \A i \in DOMAIN js : (js \o new)[i] = js[i]
        /\ \A i \in Int : i - Len(js) \in DOMAIN new =>
             (js \o new)[i] = new[i - Len(js)] /\ i \notin DOMAIN js
    BY <1>12, <1>14, Joined
  <2> QED
    BY <1>4, <2>1, Zenon
<1>16. Len(js) \in Int /\ DOMAIN js2 \subseteq Int
  BY <1>14, <1>15, SequenceDomain
<1>17. Content(ps2, js2, st, cs)
  <2>1. \A q \in Promises : ListsOK(ps2, cs, q)
    BY <1>6, <1>9, <1>10 DEF ListsOK
  <2>2. \A i \in DOMAIN js2 : JobOK(ps2, cs, js2[i])
    BY <1>10, <1>12, <1>13, <1>15, <1>16
  <2> QED
    BY <1>1, <1>6, <1>10, <1>15, <2>1, <2>2 DEF Content
<1>18. ASSUME NEW a \in Promises, NEW i \in Int
       PROVE  Holds(ps2, js2, st, cs, Queue, i, a) <=>
                Holds(ps, js, st, cs, Queue, i, a) \/ Holds(ps, js, st, cs, p, i - Len(js), a)
  <2>1. Holds(ps2, js2, st, cs, Queue, i, a) <=> i \in DOMAIN js2 /\ JobTarget(cs, js2[i]) = a
    BY Numbers DEF Holds, Queue, Frames, Pairs
  <2>2. Holds(ps, js, st, cs, Queue, i, a) <=> i \in DOMAIN js /\ JobTarget(cs, js[i]) = a
    BY Numbers DEF Holds, Queue, Frames, Pairs
  <2>3. Holds(ps, js, st, cs, p, i - Len(js), a) <=>
          i - Len(js) \in DOMAIN ps[p].fulfil /\ Target(cs, ps[p].fulfil[i - Len(js)]) = a
    BY <1>1, Numbers DEF Holds, Queue, Frames, Pairs
  <2> QED
    BY <1>12, <1>13, <1>15, <2>1, <2>2, <2>3
<1>19. ASSUME NEW a \in Promises, NEW k \in Int, NEW i \in Int, k # Queue
       PROVE  Holds(ps2, js2, st, cs, k, i, a) <=> k # p /\ Holds(ps, js, st, cs, k, i, a)
  <2>1. CASE k = p
    BY <1>1, <1>9, <2>1, Numbers DEF Holds, Queue, Frames, Pairs
  <2>2. CASE k # p
    BY <1>6, <1>19, <2>2 DEF Holds
  <2> QED
    BY <2>1, <2>2
<1>20. Queue \in Int /\ p \in Int /\ Queue # p /\ Queue >= 0
  BY <1>1, Numbers DEF Queue
<1>21. Holding(ps, js, st, cs, H)
  BY DEF Good
<1>0. ASSUME NEW a \in Promises, NEW k \in Int, NEW i \in Int, Holds(ps2, js2, st, cs, k, i, a)
      PROVE  \E k1, i1 \in Int :
               /\ Holds(ps, js, st, cs, k1, i1, a) /\ k # p
               /\ (k1 = k /\ i1 = i) \/ (k = Queue /\ k1 = p /\ i1 = i - Len(js))
  <2>1. CASE k # Queue
    BY <1>0, <1>19, <2>1
  <2>2. CASE k = Queue /\ Holds(ps, js, st, cs, Queue, i, a)
    BY <1>20, <2>2
  <2>3. CASE k = Queue /\ Holds(ps, js, st, cs, p, i - Len(js), a)
    <3>1. i - Len(js) \in Int
      BY <1>16
    <3> QED
      BY <1>20, <2>3, <3>1
  <2> QED
    BY <1>0, <1>18, <2>1, <2>2, <2>3
<1>22. Sole(ps2, js2, st, cs)
  <2>1. ASSUME NEW a \in Promises, NEW k \in Int, NEW l \in Int, NEW i \in Int, NEW j \in Int,
               Holds(ps2, js2, st, cs, k, i, a), Holds(ps2, js2, st, cs, l, j, a)
        PROVE  k = l /\ i = j
    <3>1. PICK k1 \in Int, i1 \in Int : /\ Holds(ps, js, st, cs, k1, i1, a)
                                        /\ (k1 = k /\ i1 = i) \/ (k = Queue /\ k1 = p /\ i1 = i - Len(js))
                                        /\ k # p
      BY <1>0, <2>1
    <3>2. PICK l1 \in Int, j1 \in Int : /\ Holds(ps, js, st, cs, l1, j1, a)
                                        /\ (l1 = l /\ j1 = j) \/ (l = Queue /\ l1 = p /\ j1 = j - Len(js))
                                        /\ l # p
      BY <1>0, <2>1
    <3>3. k1 = l1 /\ i1 = j1
      BY <1>21, <3>1, <3>2 DEF Holding, Sole
    <3> QED
      BY <1>16, <1>20, <3>1, <3>2, <3>3
  <2> QED
    BY <2>1 DEF Sole
<1>23. ASSUME NEW a \in H
       PROVE  a \in Promises /\ Unheld(ps2, js2, st, cs, a)
  <2>1. a \in Promises /\ \A k, i \in Int : ~Holds(ps, js, st, cs, k, i, a)
    BY <1>21 DEF Holding, Unheld
  <2> QED
    BY <1>0, <2>1 DEF Unheld
<1>24. ASSUME NEW a \in Promises, NEW q \in Promises, a \notin H \ {p}, InCourse(ps2, a, LockedTo(q))
       PROVE  Sought(ps2, js2, st, cs, a)
  <2>1. a # p
    BY <1>2, <1>6, <1>24 DEF InCourse
  <2>2. InCourse(ps, a, LockedTo(q))
    BY <1>6, <1>24, <2>1 DEF InCourse
  <2>3. PICK k \in Int, i \in Int : k >= 0 /\ Holds(ps, js, st, cs, k, i, a)
    BY <1>21, <1>24, <2>1, <2>2 DEF Holding, Sought
  <2>4. CASE k = p
    <3>1. i + Len(js) \in Int /\ (i + Len(js)) - Len(js) = i
      BY <1>16
    <3>2. Holds(ps2, js2, st, cs, Queue, i + Len(js), a)
      BY <1>18, <2>3, <2>4, <3>1
    <3> QED
      BY <1>20, <3>1, <3>2 DEF Sought
  <2>5. CASE k = Queue
    BY <1>18, <1>20, <2>3, <2>5 DEF Sought
  <2>6. CASE k # p /\ k # Queue
    BY <1>19, <2>3, <2>6 DEF Sought
  <2> QED
    BY <2>4, <2>5, <2>6
<1>25. Holding(ps2, js2, st, cs, H \ {p})
  BY <1>22, <1>23, <1>24 DEF Holding
<1> QED
  BY <1>2, <1>6, <1>7, <1>17, <1>25 DEF Good

LEMMA CoursesDiffer ==
  /\ None \in Courses /\ \A x \in Promises \cup Objects : LockedTo(x) \in Courses
  /\ \A x \in Objects : Reading(x) \in Courses
  /\ \A x \in Promises : None # LockedTo(x) /\ \A y : Reading(y) # LockedTo(x)
  /\ \A x, y : LockedTo(x) = LockedTo(y) => x = y
  /\ \A x \in Promises : x \notin Objects /\ x \notin Plain
  /\ \A x \in Objects : None # LockedTo(x) /\ None # Reading(x) /\ x \notin Plain
<1>1. \A x \in Promises \cup Objects : None # LockedTo(x) /\ None # Reading(x)
  BY ValuesAssumption DEF LockedTo, Reading
<1>2. \A x, y : Reading(y) # LockedTo(x)
  <2>1. \A x : Reading(x).is = "resolving" /\ LockedTo(x).is = "locked"
    BY DEF Reading, LockedTo
  <2> QED
    BY <2>1
<1>3. \A x, y : LockedTo(x) = LockedTo(y) => x = y
  <2>1. \A x : LockedTo(x).of = x
    BY DEF LockedTo
  <2> QED
    BY <2>1
<1>4. /\ None \in Courses /\ \A x \in Promises \cup Objects : LockedTo(x) \in Courses
      /\ \A x \in Objects : Reading(x) \in Courses
  BY DEF Courses
<1>5. \A x \in Promises : x \notin Objects /\ x \notin Plain
  BY ValuesAssumption
<1>6. \A x \in Objects : x \notin Plain
  BY ValuesAssumption
<1> QED
  BY <1>1, <1>2, <1>3, <1>4, <1>5, <1>6

\* A job is queued for a promise in hand, or for none.
LEMMA Queues ==
  ASSUME NEW ps, NEW js, NEW st, NEW cs, NEW H, Good(ps, js, st, cs, H),
         NEW j, JobOK(ps, cs, j), NEW t, t = JobTarget(cs, j), t \in H \/ t \notin Promises
  PROVE  Good(ps, Append(js, j), st, cs, H \ {t})
<1> DEFINE js2 == Append(js, j)
           n == Len(js) + 1
<1>1. Content(ps, js, st, cs) /\ Holding(ps, js, st, cs, H) /\ IsSeq(js)
  BY DEF Good, Content
<1>2. /\ IsSeq(js2) /\ DOMAIN js2 = DOMAIN js \cup {n} /\ n \notin DOMAIN js
      /\ (\A i \in DOMAIN js : js2[i] = js[i]) /\ js2[n] = j
  BY <1>1, Appended
<1>3. Len(js) \in Nat
  BY <1>1, SequenceDomain
<1>4. n \in Int /\ Queue \in Int /\ Queue >= 0 /\ Queue # Frames /\ Queue # Pairs /\ Queue \notin Promises
  BY <1>3, Numbers DEF Queue, Frames, Pairs
<1> HIDE DEF js2, n
<1>5. Content(ps, js2, st, cs)
  BY <1>1, <1>2 DEF Content
<1>6. Gains(ps, js, st, cs, ps, js2, st, cs, Queue, n, t)
  BY <1>2, <1>4 DEF Holds, Gains
<1>7. Holding(ps, js2, st, cs, H \ {t})
  BY <1>1, <1>4, <1>6, HolderAdded
<1> QED
  BY <1>5, <1>7 DEF Good, js2

\* A continuation is pushed that holds a promise in hand, or none.
LEMMA Stacks ==
  ASSUME NEW ps, NEW js, NEW st, NEW cs, NEW H, Good(ps, js, st, cs, H),
         NEW e, EntryOK(ps, cs, e), NEW t, t = EntryTarget(e), t \in H \/ t \notin Promises
  PROVE  Good(ps, js, Append(st, e), cs, H \ {t})
<1> DEFINE st2 == Append(st, e)
           n == Len(st) + 1
<1>1. Content(ps, js, st, cs) /\ Holding(ps, js, st, cs, H) /\ IsSeq(st)
  BY DEF Good, Content
<1>2. /\ IsSeq(st2) /\ DOMAIN st2 = DOMAIN st \cup {n} /\ n \notin DOMAIN st
      /\ (\A i \in DOMAIN st : st2[i] = st[i]) /\ st2[n] = e
  BY <1>1, Appended
<1>3. Len(st) \in Nat
  BY <1>1, SequenceDomain
<1>4. n \in Int /\ Frames \in Int /\ Frames # Queue /\ Frames # Pairs /\ Frames \notin Promises
  BY <1>3, Numbers DEF Queue, Frames, Pairs
<1> HIDE DEF st2, n
<1>5. Content(ps, js, st2, cs)
  BY <1>1, <1>2 DEF Content
<1>6. Gains(ps, js, st, cs, ps, js, st2, cs, Frames, n, t)
  BY <1>2, <1>4 DEF Holds, Gains
<1>7. t \notin Promises \/ Unlocked(ps, t)
  <2>1. t \in Promises => t # Hidden
    BY Numbers
  <2> QED
    BY <2>1, CoursesDiffer DEF EntryOK, EntryTarget, InCourse, Unlocked
<1>8. Holding(ps, js, st2, cs, H \ {t})
  BY <1>1, <1>4, <1>6, <1>7, HolderAdded
<1> QED
  BY <1>5, <1>8 DEF Good, st2

\* Reactions to the pending promise q are registered, for a promise in hand or for none.
LEMMA Joins ==
  ASSUME NEW ps, NEW js, NEW st, NEW cs, NEW H, Good(ps, js, st, cs, H),
         NEW q \in Promises, ps[q].state = "pending", NEW f, NEW g, PairOK(ps, cs, q, f, g),
         NEW t, t = Target(cs, f), t \in H \/ t \notin Promises,
         NEW ps2, ps2 = Put(ps, q, Joining(ps[q], f, g))
  PROVE  Good(ps2, js, st, cs, H \ {t}) /\ \A p \in Promises : Same(ps, ps2, p)
<1> DEFINE r == Joining(ps[q], f, g)
           n == Len(ps[q].fulfil) + 1
<1>1. Content(ps, js, st, cs) /\ Holding(ps, js, st, cs, H) /\ Table(ps)
  BY DEF Good, Content
<1>2. /\ r.state = "pending" /\ r.result = ps[q].result /\ r.course = ps[q].course
      /\ r.fulfil = Append(ps[q].fulfil, f) /\ r.reject = Append(ps[q].reject, g)
      /\ r = [state |-> r.state, result |-> r.result, fulfil |-> r.fulfil, reject |-> r.reject,
              course |-> r.course]
  BY DEF Joining, Made
<1>3. PromiseOK(ps[q])
  BY <1>1 DEF Table
<1>4. ps2 = Put(ps, q, r)
  OBVIOUS
<1>5. IsSeq(ps[q].fulfil) /\ IsSeq(ps[q].reject) /\ DOMAIN ps[q].fulfil = DOMAIN ps[q].reject
  BY <1>3 DEF PromiseOK
<1>6. Len(ps[q].fulfil) \in Nat /\ Len(ps[q].reject) = Len(ps[q].fulfil)
  <2>1. /\ Len(ps[q].fulfil) \in Nat /\ DOMAIN ps[q].fulfil = 1..Len(ps[q].fulfil)
        /\ Len(ps[q].reject) \in Nat /\ DOMAIN ps[q].reject = 1..Len(ps[q].reject)
    BY <1>5, SequenceDomain
  <2>2. \A a, b \in Nat : 1..a = 1..b => a = b
    <3>1. ASSUME NEW a \in Nat, NEW b \in Nat, 1..a = 1..b
          PROVE  a = b
      <4>1. (a \in 1..a <=> a \in 1..b) /\ (b \in 1..a <=> b \in 1..b)
        BY <3>1
      <4> QED
        BY <4>1
    <3> QED
      BY <3>1
  <2> QED
    BY <1>5, <2>1, <2>2
<1> HIDE DEF r
<1>7. /\ IsSeq(r.fulfil) /\ DOMAIN r.fulfil = DOMAIN ps[q].fulfil \cup {n}
      /\ n \notin DOMAIN ps[q].fulfil
      /\ (\A i \in DOMAIN ps[q].fulfil : r.fulfil[i] = ps[q].fulfil[i]) /\ r.fulfil[n] = f
  BY <1>2, <1>5, Appended, SMTT(60)
<1>8. /\ IsSeq(r.reject) /\ DOMAIN r.reject = DOMAIN ps[q].reject \cup {n}
      /\ (\A i \in DOMAIN ps[q].reject : r.reject[i] = ps[q].reject[i]) /\ r.reject[n] = g
  <2>1. n = Len(ps[q].reject) + 1
    BY <1>6
  <2> HIDE DEF n
  <2> QED
    BY <1>2, <1>5, <2>1, Appended
<1>9. n \in Int /\ q \in Int /\ q >= 0 /\ q # Queue /\ q # Frames /\ q # Pairs
  BY <1>6, Numbers DEF Queue, Frames, Pairs
<1> HIDE DEF n
<1>10. PromiseOK(r)
  BY <1>2, <1>3, <1>5, <1>7, <1>8 DEF PromiseOK
<1>11. Table(ps2) /\ ps2[q] = r /\ \A p \in Promises : p # q => ps2[p] = ps[p]
  <2>1. Preceded(ps, q)
    BY <1>1 DEF Table, Preceded
  <2>2. r.state # "free"
    BY <1>2
  <2> QED
    BY <1>1, <1>4, <1>10, <2>1, <2>2, TablePut
<1>12. \A p \in Promises : Same(ps, ps2, p)
  BY <1>2, <1>11 DEF Same
<1>13. Hidden \notin Promises
  BY Numbers
<1>14. Kept(ps, cs, ps2, cs, Hidden)
  BY <1>12, <1>13 DEF Kept
<1>15. /\ \A i \in DOMAIN js : JobOK(ps2, cs, js[i])
       /\ \A i \in DOMAIN st : EntryOK(ps2, cs, st[i])
       /\ \A i \in DOMAIN cs : CellOK(ps2, cs[i])
       /\ \A p \in Promises : \A i \in DOMAIN ps[p].fulfil :
            PairOK(ps2, cs, p, ps[p].fulfil[i], ps[p].reject[i])
  <2>1. Undisturbed(ps, js, st, cs, ps2, cs)
    BY <1>1, <1>13, <1>14, KeptAll
  <2> QED
    BY <2>1 DEF Undisturbed
<1>16. PairOK(ps2, cs, q, f, g)
  <2>1. CellsOK(ps, cs)
    BY <1>1 DEF Content, CellsOK
  <2> QED
    BY <1>13, <1>14, <2>1, KeptPair
<1>17. \A p \in Promises : ListsOK(ps2, cs, p)
  <2>1. ASSUME NEW p \in Promises, p # q
        PROVE  ListsOK(ps2, cs, p)
    BY <1>11, <1>15, <2>1 DEF ListsOK
  <2>2. ListsOK(ps2, cs, q)
    BY <1>5, <1>7, <1>8, <1>11, <1>15, <1>16 DEF ListsOK
  <2> QED
    BY <2>1, <2>2
<1>18. Content(ps2, js, st, cs)
  BY <1>1, <1>11, <1>15, <1>17 DEF Content
<1>19. ASSUME NEW p \in Promises, NEW k \in Int, NEW i \in Int
       PROVE  Holds(ps2, js, st, cs, k, i, p) <=>
                Holds(ps, js, st, cs, k, i, p) \/ (k = q /\ i = n /\ p = t)
  <2>1. CASE k = q
    BY <1>7, <1>9, <1>11, <2>1 DEF Holds
  <2>2. CASE k # q
    BY <1>11, <2>2 DEF Holds
  <2> QED
    BY <2>1, <2>2
<1>20. \A a, b \in Promises : InCourse(ps2, a, LockedTo(b)) => InCourse(ps, a, LockedTo(b))
  BY <1>12 DEF Same, InCourse
<1>21. Holding(ps2, js, st, cs, H \ {t})
  <2>1. Gains(ps, js, st, cs, ps2, js, st, cs, q, n, t)
    BY <1>19, <1>20 DEF Gains
  <2> QED
    BY <1>1, <1>9, <2>1, HolderAdded
<1> QED
  BY <1>12, <1>18, <1>21 DEF Good

\* The continuation on top is popped: what it held is in hand.
LEMMA Pops ==
  ASSUME NEW ps, NEW js, NEW st, NEW cs, NEW H, Good(ps, js, st, cs, H), st # <<>>,
         NEW e, e = Last(st)
  PROVE  Good(ps, js, Front(st), cs, H \cup ({EntryTarget(e)} \cap Promises)) /\ EntryOK(ps, cs, e)
<1> DEFINE t == EntryTarget(e)
           st2 == Front(st)
           n == Len(st)
<1>1. Content(ps, js, st, cs) /\ Holding(ps, js, st, cs, H) /\ IsSeq(st)
  BY DEF Good, Content
<1>2. /\ IsSeq(st2) /\ n \in DOMAIN st /\ DOMAIN st2 = DOMAIN st \ {n} /\ e = st[n]
      /\ \A i \in DOMAIN st2 : st2[i] = st[i]
  BY <1>1, Popped
<1>3. n \in Int /\ Frames \in Int /\ Frames < 0 /\ Frames # Queue /\ Frames # Pairs /\ Frames \notin Promises
  BY <1>1, SequenceDomain, Numbers DEF Queue, Frames, Pairs
<1> HIDE DEF st2, n
<1>4. EntryOK(ps, cs, e) /\ Content(ps, js, st2, cs)
  BY <1>1, <1>2 DEF Content
<1>5. \A p \in Promises : \A k, i \in Int :
        Holds(ps, js, st2, cs, k, i, p) <=>
          Holds(ps, js, st, cs, k, i, p) /\ ~(k = Frames /\ i = n)
  BY <1>2, <1>3 DEF Holds
<1>6. Holding(ps, js, st2, cs, H)
  <2>1. \A p \in Promises : \A k, i \in Int :
          /\ Holds(ps, js, st2, cs, k, i, p) => Holds(ps, js, st, cs, k, i, p)
          /\ k >= 0 /\ Holds(ps, js, st, cs, k, i, p) => Holds(ps, js, st2, cs, k, i, p)
    BY <1>3, <1>5
  <2> QED
    BY <1>1, <2>1, HoldersKept
<1>7. Good(ps, js, st2, cs, H)
  BY <1>4, <1>6 DEF Good
<1>8. CASE t \in Promises
  <2>1. Holds(ps, js, st, cs, Frames, n, t)
    BY <1>2, <1>3 DEF Holds
  <2>2. Unheld(ps, js, st2, cs, t)
    BY <1>1, <1>3, <1>5, <1>8, <2>1 DEF Unheld, Holding, Sole
  <2>3. Good(ps, js, st2, cs, H \cup {t})
    BY <1>7, <1>8, <2>2, Taken
  <2>4. {t} \cap Promises = {t}
    BY <1>8
  <2> QED
    BY <1>4, <2>3, <2>4 DEF st2
<1>9. CASE t \notin Promises
  <2>1. H \cup ({t} \cap Promises) = H
    BY <1>9
  <2> QED
    BY <1>4, <1>7, <2>1 DEF st2
<1> QED
  BY <1>8, <1>9

\* The stack is discarded.
LEMMA Clears ==
  ASSUME NEW ps, NEW js, NEW st, NEW cs, NEW H, Good(ps, js, st, cs, H)
  PROVE  Good(ps, js, <<>>, cs, H)
<1>1. Content(ps, js, st, cs) /\ Holding(ps, js, st, cs, H)
  BY DEF Good
<1>2. Content(ps, js, <<>>, cs)
  BY <1>1, NoElements DEF Content
<1>3. Frames < 0
  BY DEF Frames
<1>4. \A p \in Promises : \A k, i \in Int :
        /\ Holds(ps, js, <<>>, cs, k, i, p) => Holds(ps, js, st, cs, k, i, p)
        /\ k >= 0 /\ Holds(ps, js, st, cs, k, i, p) => Holds(ps, js, <<>>, cs, k, i, p)
  BY <1>3, NoElements DEF Holds
<1>5. Holding(ps, js, <<>>, cs, H)
  BY <1>1, <1>4, HoldersKept
<1> QED
  BY <1>2, <1>5 DEF Good

\* The first job is taken: what it held is in hand.
LEMMA Takes ==
  ASSUME NEW ps, NEW js, NEW st, NEW cs, NEW H, Good(ps, js, st, cs, H), js # <<>>,
         NEW j, j = Head(js)
  PROVE  Good(ps, Tail(js), st, cs, H \cup ({JobTarget(cs, j)} \cap Promises)) /\ JobOK(ps, cs, j)
<1> DEFINE t == JobTarget(cs, j)
           js2 == Tail(js)
           G == H \cup ({t} \cap Promises)
<1>1. Content(ps, js, st, cs) /\ Holding(ps, js, st, cs, H) /\ IsSeq(js)
  BY DEF Good, Content
<1>2. /\ IsSeq(js2) /\ j = js[1] /\ 1 \in DOMAIN js
      /\ \A i \in Int : i \in DOMAIN js2 <=> i >= 1 /\ i + 1 \in DOMAIN js
      /\ \A i \in DOMAIN js2 : js2[i] = js[i + 1]
  BY <1>1, Begins
<1>3. DOMAIN js2 \subseteq Int /\ \A i \in DOMAIN js : i \in Int /\ i >= 1
  BY <1>1, <1>2, SequenceDomain
<1>4. Queue \in Int /\ Queue >= 0 /\ Queue # Frames /\ Queue # Pairs /\ Queue \notin Promises
  BY Numbers DEF Queue, Frames, Pairs
<1> HIDE DEF js2
<1>5. JobOK(ps, cs, j) /\ Content(ps, js2, st, cs)
  BY <1>1, <1>2, <1>3 DEF Content
<1>6. ASSUME NEW p \in Promises, NEW i \in Int
      PROVE  Holds(ps, js2, st, cs, Queue, i, p) <=> i >= 1 /\ Holds(ps, js, st, cs, Queue, i + 1, p)
  BY <1>2, <1>4 DEF Holds
<1>7. ASSUME NEW p \in Promises, NEW k \in Int, NEW i \in Int, k # Queue
      PROVE  Holds(ps, js2, st, cs, k, i, p) <=> Holds(ps, js, st, cs, k, i, p)
  BY <1>7 DEF Holds
<1>8. ASSUME NEW p \in Promises, NEW k \in Int, NEW i \in Int, Holds(ps, js2, st, cs, k, i, p)
      PROVE  \E m \in Int : /\ Holds(ps, js, st, cs, k, m, p)
                            /\ (k # Queue /\ m = i) \/ (k = Queue /\ m = i + 1 /\ m > 1)
  <2>1. CASE k = Queue
    <3>1. i >= 1 /\ Holds(ps, js, st, cs, Queue, i + 1, p)
      BY <1>6, <1>8, <2>1
    <3>2. i + 1 \in Int /\ i + 1 > 1
      BY <3>1
    <3> QED
      BY <2>1, <3>1, <3>2
  <2>2. CASE k # Queue
    BY <1>7, <1>8, <2>2
  <2> QED
    BY <2>1, <2>2
<1>9. Sole(ps, js2, st, cs)
  <2>1. ASSUME NEW p \in Promises, NEW k \in Int, NEW l \in Int, NEW i \in Int, NEW m \in Int,
               Holds(ps, js2, st, cs, k, i, p), Holds(ps, js2, st, cs, l, m, p)
        PROVE  k = l /\ i = m
    <3>1. PICK i1 \in Int : /\ Holds(ps, js, st, cs, k, i1, p)
                            /\ (k # Queue /\ i1 = i) \/ (k = Queue /\ i1 = i + 1 /\ i1 > 1)
      BY <1>8, <2>1
    <3>2. PICK m1 \in Int : /\ Holds(ps, js, st, cs, l, m1, p)
                            /\ (l # Queue /\ m1 = m) \/ (l = Queue /\ m1 = m + 1 /\ m1 > 1)
      BY <1>8, <2>1
    <3>3. k = l /\ i1 = m1
      BY <1>1, <3>1, <3>2 DEF Holding, Sole
    <3> QED
      BY <3>1, <3>2, <3>3
  <2> QED
    BY <2>1 DEF Sole
<1>10. ASSUME NEW p \in G
       PROVE  p \in Promises /\ Unheld(ps, js2, st, cs, p)
  <2>1. CASE p \in H
    <3>1. p \in Promises /\ \A k, i \in Int : ~Holds(ps, js, st, cs, k, i, p)
      BY <1>1, <2>1 DEF Holding, Unheld
    <3> QED
      BY <1>8, <3>1 DEF Unheld
  <2>2. CASE p = t /\ t \in Promises
    <3>1. Holds(ps, js, st, cs, Queue, 1, p)
      BY <1>2, <2>2 DEF Holds
    <3>2. ASSUME NEW k \in Int, NEW i \in Int, Holds(ps, js2, st, cs, k, i, p)
          PROVE  FALSE
      <4>1. PICK m \in Int : /\ Holds(ps, js, st, cs, k, m, p)
                             /\ (k # Queue /\ m = i) \/ (k = Queue /\ m = i + 1 /\ m > 1)
        BY <1>8, <2>2, <3>2
      <4>2. k = Queue /\ m = 1
        BY <1>1, <1>4, <2>2, <3>1, <4>1 DEF Holding, Sole
      <4> QED
        BY <4>1, <4>2
    <3> QED
      BY <2>2, <3>2 DEF Unheld
  <2> QED
    BY <2>1, <2>2
<1>11. ASSUME NEW p \in Promises, NEW q \in Promises, p \notin G, InCourse(ps, p, LockedTo(q))
       PROVE  Sought(ps, js2, st, cs, p)
  <2>1. p \notin H /\ p # t
    BY <1>11
  <2>2. PICK k \in Int, i \in Int : k >= 0 /\ Holds(ps, js, st, cs, k, i, p)
    BY <1>1, <1>11, <2>1 DEF Holding, Sought
  <2>3. CASE k = Queue
    <3>1. i \in DOMAIN js /\ JobTarget(cs, js[i]) = p
      BY <1>4, <2>2, <2>3 DEF Holds
    <3>2. i - 1 \in Int /\ i - 1 >= 1 /\ (i - 1) + 1 = i
      <4>1. i # 1
        BY <1>2, <2>1, <3>1
      <4> QED
        BY <1>3, <3>1, <4>1
    <3>3. Holds(ps, js2, st, cs, Queue, i - 1, p)
      BY <1>6, <2>2, <2>3, <3>2
    <3> QED
      BY <1>4, <3>2, <3>3 DEF Sought
  <2>4. CASE k # Queue
    BY <1>7, <2>2, <2>4 DEF Sought
  <2> QED
    BY <2>3, <2>4
<1>12. Holding(ps, js2, st, cs, G)
  BY <1>9, <1>10, <1>11 DEF Holding
<1> QED
  BY <1>5, <1>12 DEF Good, js2

\* A pair of resolving functions is created, for a promise in hand.
Paired(cs, c, cs2) == cs2 = Append(cs, c)

LEMMA NewPair ==
  ASSUME NEW ps, NEW js, NEW st, NEW cs, NEW H, Good(ps, js, st, cs, H),
         NEW c, CellOK(ps, c), NEW t, t = CellTarget(c), t \in H \/ t \notin Promises,
         NEW cs2, Paired(cs, c, cs2)
  PROVE  /\ Good(ps, js, st, cs2, H \ {t}) /\ Len(cs) + 1 \in DOMAIN cs2 /\ cs2[Len(cs) + 1] = c
         /\ \A i \in DOMAIN cs : i \in DOMAIN cs2 /\ cs2[i] = cs[i]
<1> DEFINE n == Len(cs) + 1
<1>1. Content(ps, js, st, cs) /\ Holding(ps, js, st, cs, H) /\ IsSeq(cs)
  BY DEF Good, Content
<1>2. /\ IsSeq(cs2) /\ DOMAIN cs2 = DOMAIN cs \cup {n} /\ n \notin DOMAIN cs
      /\ (\A i \in DOMAIN cs : cs2[i] = cs[i]) /\ cs2[n] = c
  <2> DEFINE s == Append(cs, c)
  <2>1. /\ IsSeq(s) /\ DOMAIN s = DOMAIN cs \cup {n} /\ n \notin DOMAIN cs
        /\ (\A i \in DOMAIN cs : s[i] = cs[i]) /\ s[n] = c
    BY <1>1, Appended
  <2> QED
    BY <2>1, Zenon DEF Paired
<1>3. Len(cs) \in Nat
  BY <1>1, SequenceDomain
<1>4. n \in Int /\ Pairs \in Int /\ Pairs # Frames /\ Pairs # Queue /\ Pairs \notin Promises
  BY <1>3, Numbers DEF Queue, Frames, Pairs
<1>5. Hidden \notin Promises
  BY Numbers
<1>6. Kept(ps, cs, ps, cs2, Hidden)
  BY <1>2, <1>5 DEF Kept, Same
<1>7. Undisturbed(ps, js, st, cs, ps, cs2)
  BY <1>1, <1>5, <1>6, KeptAll
<1> HIDE DEF n
<1>8. Content(ps, js, st, cs2)
  <2>1. \A q \in Promises : ListsOK(ps, cs2, q)
    BY <1>7 DEF ListsOK, Undisturbed
  <2>2. \A i \in DOMAIN cs2 : CellOK(ps, cs2[i])
    BY <1>1, <1>2 DEF Content
  <2> QED
    BY <1>1, <1>2, <1>7, <2>1, <2>2 DEF Content, Undisturbed
<1>9. Gains(ps, js, st, cs, ps, js, st, cs2, Pairs, n, t)
  <2>1. ASSUME NEW p \in Promises, NEW k \in Int, NEW i \in Int
        PROVE  Holds(ps, js, st, cs2, k, i, p) <=>
                 Holds(ps, js, st, cs, k, i, p) \/ (k = Pairs /\ i = n /\ p = t)
    BY <1>2, <1>4, <1>7 DEF Holds, Undisturbed
  <2> QED
    BY <2>1 DEF Gains
<1>10. t \notin Promises \/ Unlocked(ps, t)
  <2>1. t \in Promises => t # Hidden
    BY Numbers
  <2>2. ASSUME t \in Promises, NEW q \in Promises
        PROVE  ~InCourse(ps, t, LockedTo(q))
    <3>1. ps[t].course \in {None} \cup {LockedTo(x) : x \in Objects}
      BY <2>1, <2>2 DEF CellOK, CellTarget
    <3>2. LockedTo(q) # None /\ \A x \in Objects : LockedTo(x) # LockedTo(q)
      BY CoursesDiffer
    <3> QED
      BY <3>1, <3>2 DEF InCourse
  <2> QED
    BY <2>2 DEF Unlocked
<1>11. Holding(ps, js, st, cs2, H \ {t})
  BY <1>1, <1>4, <1>9, <1>10, HolderAdded
<1> QED
  BY <1>2, <1>8, <1>11 DEF Good, n

\* claim_promise_resolver: the promise of the pair is in hand.
LEMMA Claims ==
  ASSUME NEW ps, NEW js, NEW st, NEW cs, NEW H, Good(ps, js, st, cs, H),
         NEW c \in DOMAIN cs, ~cs[c].claimed, NEW p, p = cs[c].promise, ps[p].state = "pending",
         cs[c].native => p \in H,
         NEW cs2, cs2 = [cs EXCEPT ![c].claimed = TRUE]
  PROVE  Good(ps, js, st, cs2, H \cup {p})
<1>1. /\ Content(ps, js, st, cs) /\ Holding(ps, js, st, cs, H) /\ IsSeq(cs) /\ CellOK(ps, cs[c])
      /\ CellsOK(ps, cs)
  BY DEF Good, Content, CellsOK
<1>2. p \in Promises /\ cs[c] = [promise |-> p, claimed |-> cs[c].claimed, native |-> cs[c].native]
  BY <1>1 DEF CellOK
<1> DEFINE d == [promise |-> p, claimed |-> TRUE, native |-> cs[c].native]
<1>3. DOMAIN cs2 = DOMAIN cs /\ cs2[c] = d /\ \A i \in DOMAIN cs : i # c => cs2[i] = cs[i]
  BY <1>2
<1>4. IsSeq(cs2)
  <2>1. Len(cs) \in Nat /\ DOMAIN cs = 1..Len(cs)
    BY <1>1, SequenceDomain
  <2>2. cs2 = [i \in 1..Len(cs) |-> cs2[i]]
    BY <1>3, <2>1
  <2> QED
    BY <2>1, <2>2, Listed
<1>5. CellOK(ps, d) /\ CellTarget(d) = Hidden /\ d.promise = p
  BY <1>1, <1>2 DEF CellOK, CellTarget
<1>6. /\ Queue \in Int /\ Frames \in Int /\ Pairs \in Int /\ Promises \subseteq Int
      /\ Pairs # Queue /\ Pairs # Frames /\ Pairs \notin Promises /\ Pairs < 0 /\ Hidden \notin Promises
  BY Numbers DEF Queue, Frames, Pairs
<1>7. c \in Int /\ DOMAIN cs \subseteq Int
  BY <1>1, SequenceDomain
<1>8. ASSUME NEW k \in Int, NEW i \in Int, Holds(ps, js, st, cs, k, i, p)
      PROVE  k = Pairs /\ i = c
  <2>1. CASE cs[c].native
    BY <1>1, <1>8, <2>1 DEF Holding, Unheld
  <2>2. CASE ~cs[c].native
    <3>1. CellTarget(cs[c]) = p
      BY <2>2 DEF CellTarget
    <3>2. Holds(ps, js, st, cs, Pairs, c, p)
      BY <3>1 DEF Holds
    <3> QED
      BY <1>1, <1>2, <1>6, <1>7, <1>8, <3>2 DEF Holding, Sole
  <2> QED
    BY <2>1, <2>2
<1> HIDE DEF d
<1>9. Kept(ps, cs, ps, cs2, p)
  BY <1>2, <1>3, <1>5 DEF Kept, Same
<1>10. ASSUME NEW i \in DOMAIN js
       PROVE  JobOK(ps, cs2, js[i]) /\ JobTarget(cs2, js[i]) = JobTarget(cs, js[i])
  <2>1. i \in Int
    BY <1>1, Positions
  <2>2. JobTarget(cs, js[i]) = p => Holds(ps, js, st, cs, Queue, i, p)
    BY DEF Holds
  <2>3. JobTarget(cs, js[i]) # p
    BY <1>6, <1>8, <2>1, <2>2
  <2>4. JobOK(ps, cs, js[i])
    BY <1>1 DEF Content
  <2> QED
    BY <1>1, <1>9, <2>3, <2>4, KeptJob
<1>11. ASSUME NEW i \in DOMAIN st
       PROVE  EntryOK(ps, cs2, st[i])
  <2>1. i \in Int
    BY <1>1, Positions
  <2>2. EntryTarget(st[i]) = p => Holds(ps, js, st, cs, Frames, i, p)
    BY DEF Holds
  <2>3. EntryTarget(st[i]) # p
    BY <1>6, <1>8, <2>1, <2>2
  <2>4. EntryOK(ps, cs, st[i])
    BY <1>1 DEF Content
  <2> QED
    BY <1>9, <2>3, <2>4, KeptEntry
<1>12. ASSUME NEW q \in Promises, NEW i \in DOMAIN ps[q].fulfil
       PROVE  /\ PairOK(ps, cs2, q, ps[q].fulfil[i], ps[q].reject[i])
              /\ Target(cs2, ps[q].fulfil[i]) = Target(cs, ps[q].fulfil[i])
  <2>1. i \in Int /\ q \in Int
    BY <1>1, <1>6, Positions
  <2>2. Target(cs, ps[q].fulfil[i]) = p => Holds(ps, js, st, cs, q, i, p)
    BY DEF Holds
  <2>3. Target(cs, ps[q].fulfil[i]) # p
    BY <1>6, <1>8, <2>1, <2>2
  <2>4. PairOK(ps, cs, q, ps[q].fulfil[i], ps[q].reject[i])
    BY <1>1 DEF Content, ListsOK
  <2> QED
    BY <1>1, <1>9, <2>3, <2>4, KeptPair
<1>13. Content(ps, js, st, cs2)
  <2>1. \A q \in Promises : ListsOK(ps, cs2, q)
    BY <1>12 DEF ListsOK
  <2>2. \A i \in DOMAIN cs2 : CellOK(ps, cs2[i])
    BY <1>1, <1>3, <1>5 DEF Content
  <2> QED
    BY <1>1, <1>4, <1>10, <1>11, <2>1, <2>2 DEF Content
<1>14. ASSUME NEW a \in Promises, NEW k \in Int, NEW i \in Int
       PROVE  Holds(ps, js, st, cs2, k, i, a) <=>
                Holds(ps, js, st, cs, k, i, a) /\ ~(k = Pairs /\ i = c)
  <2>1. CASE k = Pairs
    <3>1. Holds(ps, js, st, cs2, k, i, a) <=> i \in DOMAIN cs2 /\ CellTarget(cs2[i]) = a
      BY <1>6, <2>1 DEF Holds
    <3>2. Holds(ps, js, st, cs, k, i, a) <=> i \in DOMAIN cs /\ CellTarget(cs[i]) = a
      BY <1>6, <2>1 DEF Holds
    <3>3. CellTarget(cs2[c]) # a
      BY <1>3, <1>5, <1>6
    <3>4. i \in DOMAIN cs /\ i # c => CellTarget(cs2[i]) = CellTarget(cs[i])
      BY <1>3
    <3> QED
      BY <1>3, <2>1, <3>1, <3>2, <3>3, <3>4
  <2>2. CASE k # Pairs
    BY <1>10, <1>12, <2>2 DEF Holds
  <2> QED
    BY <2>1, <2>2
<1>15. Holding(ps, js, st, cs2, H)
  <2>1. ASSUME NEW a \in Promises, NEW k \in Int, NEW i \in Int
        PROVE  /\ Holds(ps, js, st, cs2, k, i, a) => Holds(ps, js, st, cs, k, i, a)
               /\ k >= 0 /\ Holds(ps, js, st, cs, k, i, a) => Holds(ps, js, st, cs2, k, i, a)
    <3>1. k >= 0 => k # Pairs
      BY DEF Pairs
    <3> QED
      BY <1>14, <3>1
  <2> QED
    BY <1>1, <2>1, HoldersKept
<1>16. Unheld(ps, js, st, cs2, p)
  BY <1>2, <1>8, <1>14 DEF Unheld
<1>17. Good(ps, js, st, cs2, H)
  BY <1>13, <1>15 DEF Good
<1> QED
  BY <1>2, <1>16, <1>17, Taken
-----------------------------------------------------------------------------
(***************************************************************************)
(* Fates.                                                                  *)
(***************************************************************************)
FateIn(ps, p) ==
  LET q == ps[p] IN
  CASE q.state = "free" -> [is |-> "absent"]
    [] q.state = "pending" /\ q.course = None -> [is |-> "open"]
    [] q.state = "pending" /\ q.course # None -> q.course
    [] OTHER -> [is |-> q.state, of |-> q.result]

LEMMA FateNow == \A p : Fate(p) = FateIn(promises, p)
BY Zenon DEF Fate, FateIn

LEMMA FateCases ==
  ASSUME NEW ps, NEW p
  PROVE  /\ ps[p].state = "free" => FateIn(ps, p) = [is |-> "absent"]
         /\ InCourse(ps, p, None) => FateIn(ps, p) = [is |-> "open"]
         /\ ps[p].state = "pending" /\ ps[p].course # None => FateIn(ps, p) = ps[p].course
         /\ ps[p].state = "fulfilled" => FateIn(ps, p) = [is |-> "fulfilled", of |-> ps[p].result]
         /\ ps[p].state = "rejected" => FateIn(ps, p) = [is |-> "rejected", of |-> ps[p].result]
<1>1. ps[p].state = "free" => FateIn(ps, p) = [is |-> "absent"]
  BY Zenon DEF FateIn
<1>2. InCourse(ps, p, None) => FateIn(ps, p) = [is |-> "open"]
  BY Zenon DEF FateIn, InCourse
<1>3. ps[p].state = "pending" /\ ps[p].course # None => FateIn(ps, p) = ps[p].course
  BY Zenon DEF FateIn
<1>4. ps[p].state = "fulfilled" => FateIn(ps, p) = [is |-> "fulfilled", of |-> ps[p].result]
  BY Zenon DEF FateIn
<1>5. ps[p].state = "rejected" => FateIn(ps, p) = [is |-> "rejected", of |-> ps[p].result]
  BY Zenon DEF FateIn
<1> QED
  BY <1>1, <1>2, <1>3, <1>4, <1>5

LEMMA SameFate ==
  ASSUME NEW ps, NEW ps2, NEW p, Same(ps, ps2, p)
  PROVE  FateIn(ps2, p) = FateIn(ps, p)
BY Zenon DEF FateIn, Same

LEMMA FateType ==
  ASSUME NEW ps, Table(ps), NEW p \in Promises
  PROVE  FateIn(ps, p) \in Outcome!Fates
<1>1. PromiseOK(ps[p])
  BY DEF Table
<1>2. CASE ps[p].state = "free"
  BY <1>2, FateCases DEF Outcome!Fates, Outcome!Absent
<1>3. CASE InCourse(ps, p, None)
  BY <1>3, FateCases DEF Outcome!Fates, Outcome!Open
<1>4. CASE ps[p].state = "pending" /\ ps[p].course # None
  <2>1. ps[p].course \in {LockedTo(x) : x \in Promises \cup Objects} \cup {Reading(x) : x \in Objects}
    BY <1>1, <1>4 DEF PromiseOK, Courses
  <2>2. FateIn(ps, p) = ps[p].course
    BY <1>4, FateCases
  <2> QED
    BY <2>1, <2>2 DEF Outcome!Fates, Outcome!Locked, Outcome!Resolving, LockedTo, Reading
<1>5. CASE ps[p].state = "fulfilled"
  <2>1. FateIn(ps, p) = [is |-> "fulfilled", of |-> ps[p].result] /\ ps[p].result \in Objects \cup Plain
    BY <1>1, <1>5, FateCases DEF PromiseOK, Settleable
  <2> QED
    BY <2>1 DEF Outcome!Fates, Outcome!Fulfilled
<1>6. CASE ps[p].state = "rejected"
  <2>1. FateIn(ps, p) = [is |-> "rejected", of |-> ps[p].result] /\ ps[p].result \in Reasons
    BY <1>1, <1>6, FateCases DEF PromiseOK
  <2> QED
    BY <2>1 DEF Outcome!Fates, Outcome!Rejected
<1> QED
  BY <1>1, <1>2, <1>3, <1>4, <1>5, <1>6 DEF PromiseOK, InCourse

\* What may become of a promise (PromiseOutcome).
LEMMA ResolvedCases ==
  ASSUME NEW p \in Promises, NEW x
  PROVE  /\ x = p => \A e \in Reasons : [is |-> "rejected", of |-> e] \in Outcome!Resolved(p, x)
         /\ x \in Plain => [is |-> "fulfilled", of |-> x] \in Outcome!Resolved(p, x)
         /\ x \in Promises /\ x # p => LockedTo(x) \in Outcome!Resolved(p, x)
         /\ x \in Objects =>
              /\ {LockedTo(x), Reading(x), [is |-> "fulfilled", of |-> x]} \subseteq Outcome!Resolved(p, x)
              /\ \A e \in Reasons : [is |-> "rejected", of |-> e] \in Outcome!Resolved(p, x)
<1>1. \A y \in Promises : y \notin Objects /\ y \notin Plain
  BY CoursesDiffer
<1>2. \A y \in Objects : y \notin Plain
  BY CoursesDiffer
<1>3. \A e \in Reasons : [is |-> "rejected", of |-> e] \in Outcome!AnyRejection
  BY DEF Outcome!AnyRejection, Outcome!Rejected
<1>4. CASE x = p
  <2>1. Outcome!Resolved(p, x) = Outcome!AnyRejection
    BY <1>1, <1>4, Zenon DEF Outcome!Resolved
  <2> QED
    BY <1>1, <1>3, <1>4, <2>1
<1>5. CASE x \in Plain
  <2>1. Outcome!Resolved(p, x) = {Outcome!Fulfilled(x)} /\ x \notin Promises /\ x \notin Objects
    BY <1>1, <1>2, <1>5, Zenon DEF Outcome!Resolved
  <2> QED
    BY <1>5, <2>1 DEF Outcome!Fulfilled
<1>6. CASE x \in Promises /\ x # p
  <2>1. Outcome!Resolved(p, x) = {Outcome!Locked(x)} /\ x \notin Plain /\ x \notin Objects
    BY <1>1, <1>6, Zenon DEF Outcome!Resolved
  <2> QED
    BY <1>6, <2>1 DEF Outcome!Locked, LockedTo
<1>7. CASE x \in Objects
  <2>1. /\ x \notin Plain /\ x \notin Promises /\ x # p
    BY <1>1, <1>2, <1>7
  <2>2. Outcome!Resolved(p, x) =
          {Outcome!Resolving(x), Outcome!Locked(x), Outcome!Fulfilled(x)} \cup Outcome!AnyRejection
    BY <1>7, <2>1, Zenon DEF Outcome!Resolved
  <2> QED
    BY <1>3, <2>1, <2>2 DEF Outcome!Locked, Outcome!Resolving, Outcome!Fulfilled, LockedTo, Reading
<1> QED
  BY <1>4, <1>5, <1>6, <1>7

\* A promise that the program may still resolve.
Resolvable(ps, p) ==
  \/ ps[p].state = "free" \/ InCourse(ps, p, None)
  \/ \E x \in Objects : InCourse(ps, p, LockedTo(x))

LEMMA ProgramResolves ==
  ASSUME NEW p \in Promises, Resolvable(promises, p)
  PROVE  Outcome!ByProgram(p) \subseteq Outcome!Successors(p)
<1> DEFINE f == [q \in Promises |-> Fate(q)][p]
<1>1. f = FateIn(promises, p)
  BY FateNow
<1>2. CASE promises[p].state = "free"
  <2>1. f = [is |-> "absent"]
    BY <1>1, <1>2, FateCases
  <2>2. f.is = "absent"
    BY <2>1
  <2>3. Outcome!Successors(p) = {Outcome!Open} \cup Outcome!ByProgram(p)
    BY <2>2, Zenon DEF Outcome!Successors
  <2> QED
    BY <2>3
<1>3. CASE InCourse(promises, p, None)
  <2>1. f = [is |-> "open"]
    BY <1>1, <1>3, FateCases
  <2>2. f.is = "open"
    BY <2>1
  <2>3. Outcome!Successors(p) = Outcome!ByProgram(p)
    BY <2>2, Zenon DEF Outcome!Successors
  <2> QED
    BY <2>3
<1>4. CASE \E x \in Objects : InCourse(promises, p, LockedTo(x))
  <2>1. PICK x \in Objects : InCourse(promises, p, LockedTo(x))
    BY <1>4
  <2>2. f = LockedTo(x)
    BY <1>1, <2>1, FateCases, CoursesDiffer DEF InCourse
  <2>3. f.is = "locked" /\ f.of = x /\ x \notin Promises
    BY <2>2, CoursesDiffer DEF LockedTo
  <2>4. Outcome!Successors(p) = Outcome!ByProgram(p)
    BY <2>3, Zenon DEF Outcome!Successors
  <2> QED
    BY <2>4
<1> QED
  BY <1>2, <1>3, <1>4 DEF Resolvable

LEMMA ByProgramCases ==
  ASSUME NEW p \in Promises
  PROVE  /\ \A x \in Values : Outcome!Resolved(p, x) \subseteq Outcome!ByProgram(p)
         /\ \A e \in Reasons : [is |-> "rejected", of |-> e] \in Outcome!ByProgram(p)
<1>1. Outcome!Values = Values
  BY DEF Outcome!Values, Values
<1>2. \A x \in Values : Outcome!Resolved(p, x) \subseteq Outcome!ByProgram(p)
  BY <1>1, Zenon DEF Outcome!ByProgram
<1>3. \A e \in Reasons : [is |-> "rejected", of |-> e] \in Outcome!ByProgram(p)
  <2>1. \A e \in Reasons : [is |-> "rejected", of |-> e] \in Outcome!AnyRejection
    BY DEF Outcome!AnyRejection, Outcome!Rejected
  <2>2. Outcome!AnyRejection \subseteq Outcome!ByProgram(p)
    BY Zenon DEF Outcome!ByProgram
  <2> QED
    BY <2>1, <2>2
<1> QED
  BY <1>2, <1>3

LEMMA AbsentOpens ==
  ASSUME NEW p \in Promises, promises[p].state = "free"
  PROVE  [is |-> "open"] \in Outcome!Successors(p)
<1> DEFINE f == [q \in Promises |-> Fate(q)][p]
<1>1. f = [is |-> "absent"]
  BY FateNow, FateCases
<1>2. f.is = "absent"
  BY <1>1
<1>3. Outcome!Successors(p) = {Outcome!Open} \cup Outcome!ByProgram(p)
  BY <1>2, Zenon DEF Outcome!Successors
<1> QED
  BY <1>3 DEF Outcome!Open

LEMMA ReadingEnds ==
  ASSUME NEW p \in Promises, NEW x \in Objects, InCourse(promises, p, Reading(x))
  PROVE  /\ {LockedTo(x), [is |-> "fulfilled", of |-> x]} \subseteq Outcome!Successors(p)
         /\ \A e \in Reasons : [is |-> "rejected", of |-> e] \in Outcome!Successors(p)
<1> DEFINE f == [q \in Promises |-> Fate(q)][p]
<1>1. f = Reading(x)
  BY FateNow, FateCases, CoursesDiffer DEF InCourse
<1>2. f.is = "resolving" /\ f.of = x
  BY <1>1 DEF Reading
<1>3. Outcome!Successors(p) = Outcome!Resolved(p, x) \ {f}
  BY <1>2, Zenon DEF Outcome!Successors
<1>4. /\ {LockedTo(x), [is |-> "fulfilled", of |-> x]} \subseteq Outcome!Resolved(p, x)
      /\ \A e \in Reasons : [is |-> "rejected", of |-> e] \in Outcome!Resolved(p, x)
  BY ResolvedCases
<1>5. LockedTo(x) # f /\ \A y : [is |-> "fulfilled", of |-> y] # f /\ [is |-> "rejected", of |-> y] # f
  <2>1. LockedTo(x).is # f.is
    BY <1>2 DEF LockedTo
  <2>2. \A y : [is |-> "fulfilled", of |-> y].is # f.is /\ [is |-> "rejected", of |-> y].is # f.is
    BY <1>2
  <2> HIDE DEF f
  <2> QED
    BY <2>1, <2>2
<1> HIDE DEF f
<1> QED
  BY <1>3, <1>4, <1>5

LEMMA Adopts ==
  ASSUME NEW p \in Promises, NEW q \in Promises, InCourse(promises, p, LockedTo(q))
  PROVE  /\ promises[q].state = "fulfilled" =>
              Outcome!Resolved(p, promises[q].result) \subseteq Outcome!Successors(p)
         /\ promises[q].state = "rejected" =>
              [is |-> "rejected", of |-> promises[q].result] \in Outcome!Successors(p)
<1> DEFINE F == [a \in Promises |-> Fate(a)]
<1>1. F[p] = LockedTo(q)
  BY FateNow, FateCases, CoursesDiffer DEF InCourse
<1>2. F[p].is = "locked" /\ F[p].of = q /\ q \notin Objects
  BY <1>1, CoursesDiffer DEF LockedTo
<1>3. F[q] = FateIn(promises, q)
  BY FateNow
<1>4. CASE promises[q].state = "fulfilled"
  <2>1. F[q] = [is |-> "fulfilled", of |-> promises[q].result]
    BY <1>3, <1>4, FateCases
  <2>2. F[q].is = "fulfilled" /\ F[q].of = promises[q].result
    BY <2>1
  <2>3. F[F[p].of].is = "fulfilled" /\ F[F[p].of].of = promises[q].result
    BY <1>2, <2>2
  <2>4. Outcome!Successors(p) = Outcome!Resolved(p, F[F[p].of].of)
    BY <1>2, <2>3, Zenon DEF Outcome!Successors
  <2> QED
    BY <1>4, <2>3, <2>4
<1>5. CASE promises[q].state = "rejected"
  <2>1. F[q] = [is |-> "rejected", of |-> promises[q].result]
    BY <1>3, <1>5, FateCases
  <2>2. F[F[p].of].is = "rejected" /\ F[F[p].of] = [is |-> "rejected", of |-> promises[q].result]
    BY <1>2, <2>1
  <2>3. Outcome!Successors(p) = {F[F[p].of]}
    BY <1>2, <2>2, Zenon DEF Outcome!Successors
  <2> QED
    BY <1>5, <2>2, <2>3
<1> QED
  BY <1>4, <1>5

-----------------------------------------------------------------------------
(***************************************************************************)
(* The operations on a world w, with the stack st and the cells cs, while  *)
(* the promises of H are in hand.                                          *)
(***************************************************************************)
Sound(w, st, cs, H) == w = Both(w.ps, w.jobs) /\ Good(w.ps, w.jobs, st, cs, H)
Later(ps, ps2, p) ==
  /\ \A q \in Promises : q # p => Same(ps, ps2, q)
  /\ ps2[p].state # "free"
Steps(ps) ==
  \A p \in Promises : FateIn(ps, p) # FateIn(promises, p) => FateIn(ps, p) \in Outcome!Successors(p)

LEMMA BothParts == \A ps, js : Both(ps, js).ps = ps /\ Both(ps, js).jobs = js
BY DEF Both

LEMMA SoundBoth ==
  ASSUME NEW ps, NEW js, NEW st, NEW cs, NEW H, Good(ps, js, st, cs, H), NEW w, w = Both(ps, js)
  PROVE  Sound(w, st, cs, H) /\ w.ps = ps /\ w.jobs = js
<1>1. w.ps = ps /\ w.jobs = js
  BY BothParts
<1> QED
  BY <1>1 DEF Sound

LEMMA StepsSame ==
  ASSUME NEW ps, NEW ps2, Steps(ps), \A q \in Promises : Same(ps, ps2, q)
  PROVE  Steps(ps2)
BY SameFate DEF Steps

LEMMA StepsOne ==
  ASSUME NEW ps, NEW ps2, NEW p, Steps(ps), Later(ps, ps2, p), FateIn(ps2, p) \in Outcome!Successors(p)
  PROVE  Steps(ps2)
<1>1. \A q \in Promises : q # p => FateIn(ps2, q) = FateIn(ps, q)
  BY SameFate DEF Later
<1> QED
  BY <1>1 DEF Steps

LEMMA LaterExists ==
  ASSUME NEW ps, NEW ps2, NEW p, Later(ps, ps2, p), NEW x, Exists(ps, x)
  PROVE  Exists(ps2, x)
BY DEF Exists, Later, Same

LEMMA LaterCourse ==
  ASSUME NEW ps, NEW ps2, NEW p, Later(ps, ps2, p), NEW q \in Promises, q # p, NEW c
  PROVE  InCourse(ps2, q, c) <=> InCourse(ps, q, c)
BY DEF InCourse, Later, Same

LEMMA Settles ==
  ASSUME NEW w, NEW st, NEW cs, NEW H, Sound(w, st, cs, H), NEW p \in H, w.ps[p].state = "pending",
         NEW state \in {"fulfilled", "rejected"},
         NEW v, Fits(v, state),
         NEW u, u = Settle(w, p, state, v)
  PROVE  /\ Sound(u, st, cs, H \ {p}) /\ Later(w.ps, u.ps, p)
         /\ FateIn(u.ps, p) = [is |-> state, of |-> v]
<1>1. PICK ps, js : ps = w.ps /\ js = w.jobs
  OBVIOUS
<1>0. PICK ps2, js2 : ps2 = Put(ps, p, Ended(ps[p], state, v)) /\ js2 = Waking(js, ps[p], state, v)
  OBVIOUS
<1>2. w = Both(ps, js) /\ Good(ps, js, st, cs, H) /\ ps[p].state = "pending"
  BY <1>1 DEF Sound
<1>3. Table(ps) /\ p \in Promises
  BY <1>2 DEF Good, Content, Holding
<1>4. Settle(Both(ps, js), p, state, v) = Both(ps2, js2)
  <2>1. Awaited(ps, p) /\ Table(ps) /\ p \in Promises
    BY <1>2, <1>3 DEF Awaited
  <2>2. Settle(Both(ps, js), p, state, v) = Settled(ps, js, p, state, v)
    BY ONLY <2>1, SettleIs, TableFramed
  <2> QED
    BY <1>0, <2>2, Zenon DEF Settled
<1>5. /\ Good(ps2, js2, st, cs, H \ {p}) /\ ps2[p].state = state /\ ps2[p].result = v
      /\ \A q \in Promises : q # p => Same(ps, ps2, q)
  BY <1>0, <1>2, Ends, Z3
<1>6. FateIn(ps2, p) = [is |-> state, of |-> v]
  BY <1>5, FateCases
<1>7. Later(ps, ps2, p)
  BY <1>5 DEF Later
<1>8. u = Both(ps2, js2)
  BY <1>2, <1>4, Zenon
<1>9. Sound(u, st, cs, H \ {p}) /\ u.ps = ps2
  BY <1>5, <1>8, SoundBoth
<1> QED
  BY <1>1, <1>6, <1>7, <1>9, Zenon

LEMMA Locks ==
  ASSUME NEW w, NEW st, NEW cs, NEW H, Sound(w, st, cs, H), NEW p \in H, w.ps[p].state = "pending",
         NEW x \in Promises \cup Objects, Exists(w.ps, x), NEW u, u = Lock(w, p, x)
  PROVE  /\ Sound(u, st, cs, H \ {p}) /\ Later(w.ps, u.ps, p)
         /\ FateIn(u.ps, p) = LockedTo(x)
<1>1. PICK ps, js : ps = w.ps /\ js = w.jobs
  OBVIOUS
<1> DEFINE ps2 == Put(ps, p, Entered(ps[p], LockedTo(x)))
           j == [kind |-> "thenable", promise |-> p, thenable |-> x]
<1>2. w = Both(ps, js) /\ Good(ps, js, st, cs, H) /\ ps[p].state = "pending" /\ Exists(ps, x)
  BY <1>1 DEF Sound
<1>3. Table(ps) /\ p \in Promises
  BY <1>2 DEF Good, Content, Holding
<1>4. Lock(Both(ps, js), p, x) = Both(ps2, Append(js, j))
  BY <1>3, LockIs, TableFramed
<1>5. LockedTo(x) \in Courses /\ None # LockedTo(x)
  BY CoursesDiffer
<1>6. /\ Good(ps2, js, st, cs, H) /\ InCourse(ps2, p, LockedTo(x))
      /\ \A q \in Promises : q # p => Same(ps, ps2, q)
  BY <1>2, <1>5, Enters
<1>7. Later(ps, ps2, p)
  BY <1>6 DEF Later, InCourse
<1>8. FateIn(ps2, p) = LockedTo(x)
  BY <1>5, <1>6, FateCases DEF InCourse
<1>9. Exists(ps2, x)
  BY <1>2, <1>7, LaterExists
<1> HIDE DEF ps2
<1>10. JobOK(ps2, cs, j) /\ JobTarget(cs, j) = p
  BY <1>3, <1>6, <1>9 DEF JobOK, JobTarget
<1> HIDE DEF j
<1>11. Good(ps2, Append(js, j), st, cs, H \ {p})
  BY <1>6, <1>10, Queues
<1>12. u = Both(ps2, Append(js, j))
  BY <1>2, <1>4, Zenon
<1>13. Sound(u, st, cs, H \ {p}) /\ u.ps = ps2
  BY <1>11, <1>12, SoundBoth
<1> QED
  BY <1>1, <1>7, <1>8, <1>13, Zenon

LEMMA Reads ==
  ASSUME NEW w, NEW st, NEW cs, NEW H, Sound(w, st, cs, H), NEW p \in H, w.ps[p].state = "pending",
         NEW x \in Objects,
         NEW u, u = Read(w, p, x)
  PROVE  /\ Sound(u, st, cs, H) /\ Later(w.ps, u.ps, p)
         /\ FateIn(u.ps, p) = Reading(x) /\ InCourse(u.ps, p, Reading(x))
<1>1. PICK ps, js : ps = w.ps /\ js = w.jobs
  OBVIOUS
<1> DEFINE ps2 == Put(ps, p, Entered(ps[p], Reading(x)))
<1>2. w = Both(ps, js) /\ Good(ps, js, st, cs, H) /\ ps[p].state = "pending"
  BY <1>1 DEF Sound
<1>3. Table(ps) /\ p \in Promises
  BY <1>2 DEF Good, Content, Holding
<1>4. Read(Both(ps, js), p, x) = Both(ps2, js)
  BY <1>3, ReadIs, TableFramed
<1>5. Reading(x) \in Courses /\ None # Reading(x)
  BY CoursesDiffer
<1>6. /\ Good(ps2, js, st, cs, H) /\ InCourse(ps2, p, Reading(x))
      /\ \A q \in Promises : q # p => Same(ps, ps2, q)
  BY <1>2, <1>5, Enters
<1>7. Later(ps, ps2, p)
  BY <1>6 DEF Later, InCourse
<1>8. FateIn(ps2, p) = Reading(x)
  BY <1>5, <1>6, FateCases DEF InCourse
<1> HIDE DEF ps2
<1>9. u = Both(ps2, js)
  BY <1>2, <1>4, Zenon
<1>10. Sound(u, st, cs, H) /\ u.ps = ps2
  BY <1>6, <1>9, SoundBoth
<1> QED
  BY <1>1, <1>6, <1>7, <1>8, <1>10, Zenon

LEMMA Opens ==
  ASSUME NEW w, NEW st, NEW cs, NEW H, Sound(w, st, cs, H), NEW p \in Promises, Fresh(w, p),
         NEW r, PromiseOK(r), r.state # "free", r.fulfil = <<>>,
         NEW u, u = Create(w, p, r), NEW G, G = H \cup {p}
  PROVE  /\ Sound(u, st, cs, G) /\ Later(w.ps, u.ps, p)
         /\ u.ps[p] = r /\ w.ps[p].state = "free" /\ Preceded(w.ps, p)
         /\ \A q \in Promises : q # p => u.ps[q] = w.ps[q]
<1>1. PICK ps, js : ps = w.ps /\ js = w.jobs
  OBVIOUS
<1>0. PICK ps2 : ps2 = Put(ps, p, r)
  OBVIOUS
<1>2. w = Both(ps, js) /\ Good(ps, js, st, cs, H)
  BY <1>1 DEF Sound
<1>3. Create(Both(ps, js), p, r) = Both(ps2, js)
  BY <1>0, CreateIs
<1>4. Fresh(Both(ps, js), p)
  BY <1>2, Zenon
<1>5. ps[p].state = "free" /\ Preceded(ps, p)
  BY <1>4, FreshIs
<1>6. /\ Good(ps2, js, st, cs, H \cup {p}) /\ ps2[p] = r
      /\ \A q \in Promises : q # p => ps2[q] = ps[q] /\ Same(ps, ps2, q)
  <2>1. Creation(ps, p, r, ps2)
    BY <1>0, <1>5 DEF Creation
  <2>2. Good(ps2, js, st, cs, H \cup {p}) /\ ps2[p] = r /\ Elsewhere(ps, ps2, p)
    BY ONLY <1>2, <2>1, Creates
  <2> QED
    BY <2>2 DEF Elsewhere
<1>7. Later(ps, ps2, p)
  BY <1>6 DEF Later
<1>8. u = Both(ps2, js)
  BY <1>2, <1>3, Zenon
<1>9. Sound(u, st, cs, G) /\ u.ps = ps2
  BY <1>6, <1>8, SoundBoth
<1> QED
  BY <1>1, <1>5, <1>6, <1>7, <1>9, Zenon

LEMMA Attaches ==
  ASSUME NEW w, NEW st, NEW cs, NEW H, Sound(w, st, cs, H), NEW q \in Promises, w.ps[q].state # "free",
         NEW h, NEW k, NEW cap, NEW id, NEW f, NEW g,
         f = [handler |-> h, cap |-> cap, id |-> id], g = [handler |-> k, cap |-> cap, id |-> id],
         PairOK(w.ps, cs, q, f, g), NEW t, t = Target(cs, f), t \in H \/ t \notin Promises,
         NEW u, u = Attach(w, q, h, k, cap, id)
  PROVE  Sound(u, st, cs, H \ {t}) /\ \A p \in Promises : Same(w.ps, u.ps, p)
<1>1. PICK ps, js : ps = w.ps /\ js = w.jobs
  OBVIOUS
<1>2. w = Both(ps, js) /\ Good(ps, js, st, cs, H) /\ ps[q].state # "free" /\ PairOK(ps, cs, q, f, g)
  BY <1>1 DEF Sound
<1>3. Table(ps) /\ PromiseOK(ps[q])
  BY <1>2 DEF Good, Content, Table
<1>4. Attached(ps, js, q, f, g, Attach(Both(ps, js), q, h, k, cap, id))
  BY <1>3, AttachIs, TableFramed
<1>5. Attached(ps, js, q, f, g, u)
  BY <1>2, <1>4, Zenon
<1>6. Target(cs, g) = t
  BY <1>2, PairTarget
<1>7. ReactionOK(ps, cs, q, f, FALSE) /\ ReactionOK(ps, cs, q, g, TRUE)
  BY <1>2, Zenon DEF PairOK
<1>8. CASE ps[q].state = "pending"
  <2> DEFINE ps2 == Put(ps, q, Joining(ps[q], f, g))
  <2>1. Good(ps2, js, st, cs, H \ {t}) /\ \A p \in Promises : Same(ps, ps2, p)
    BY <1>2, <1>8, Joins
  <2>2. u = Both(ps2, js)
    BY <1>5, <1>8, Zenon DEF Attached
  <2> HIDE DEF ps2
  <2>3. Sound(u, st, cs, H \ {t}) /\ u.ps = ps2
    BY <2>1, <2>2, SoundBoth
  <2> QED
    BY <1>1, <2>1, <2>3, Zenon
<1>9. \A p \in Promises : Same(ps, ps, p)
  BY DEF Same
<1>10. CASE ps[q].state = "fulfilled"
  <2>0. PICK b \in BOOLEAN : b = FALSE
    OBVIOUS
  <2> DEFINE v == ps[q].result
             j == ReactionJob(f, v, b)
  <2>1. v \in (IF b THEN Reasons ELSE Settleable) /\ Settlement(ps, q, v, b)
    BY <1>3, <1>10, <2>0 DEF PromiseOK, Settlement
  <2>9. ReactionOK(ps, cs, q, f, b)
    BY <1>7, <2>0, Zenon
  <2>2. JobOK(ps, cs, j) /\ JobTarget(cs, j) = t
    BY <2>9, <2>1, WokenJob
  <2>3. u = Both(ps, Append(js, j))
    BY <1>5, <1>10, <2>0, Zenon DEF Attached
  <2> HIDE DEF j
  <2>4. Good(ps, Append(js, j), st, cs, H \ {t})
    BY <1>2, <2>2, Queues
  <2>5. Sound(u, st, cs, H \ {t}) /\ u.ps = ps
    BY <2>3, <2>4, SoundBoth
  <2> QED
    BY <1>1, <1>9, <2>5, Zenon
<1>11. CASE ps[q].state = "rejected"
  <2>0. PICK b \in BOOLEAN : b = TRUE
    OBVIOUS
  <2> DEFINE v == ps[q].result
             j == ReactionJob(g, v, b)
  <2>1. v \in (IF b THEN Reasons ELSE Settleable) /\ Settlement(ps, q, v, b)
    BY <1>3, <1>11, <2>0 DEF PromiseOK, Settlement
  <2>9. ReactionOK(ps, cs, q, g, b)
    BY <1>7, <2>0, Zenon
  <2>2. JobOK(ps, cs, j) /\ JobTarget(cs, j) = t
    BY <1>6, <2>9, <2>1, WokenJob
  <2>3. u = Both(ps, Append(js, j))
    BY <1>5, <1>11, <2>0, Zenon DEF Attached
  <2> HIDE DEF j
  <2>4. Good(ps, Append(js, j), st, cs, H \ {t})
    BY <1>2, <2>2, Queues
  <2>5. Sound(u, st, cs, H \ {t}) /\ u.ps = ps
    BY <2>3, <2>4, SoundBoth
  <2> QED
    BY <1>1, <1>9, <2>5, Zenon
<1> QED
  BY <1>2, <1>3, <1>8, <1>10, <1>11 DEF PromiseOK

\* What a then lookup leaves: p resolved and held by its job or by nobody, or p in the hand of the
\* getter that is called.
Found(w, st, cs, H, p, x, o) ==
  /\ Later(w.ps, o.w.ps, p) /\ FateIn(o.w.ps, p) \in Outcome!Resolved(p, x)
  /\ \/ o.getter = FALSE /\ Sound(o.w, st, cs, H \ {p})
     \/ o.getter = TRUE /\ Sound(o.w, st, cs, H) /\ x \in Objects /\ InCourse(o.w.ps, p, Reading(x))

LEMMA FoundDone ==
  ASSUME NEW w, NEW st, NEW cs, NEW H, NEW p, NEW x, NEW u, Sound(u, st, cs, H \ {p}),
         Later(w.ps, u.ps, p), NEW f, FateIn(u.ps, p) = f, f \in Outcome!Resolved(p, x),
         NEW o, o = [w |-> u, getter |-> FALSE]
  PROVE  Found(w, st, cs, H, p, x, o)
<1>1. o.w = u /\ o.getter = FALSE
  OBVIOUS
<1> QED
  BY <1>1, Zenon DEF Found

LEMMA Looked ==
  ASSUME NEW w, NEW st, NEW cs, NEW H, Sound(w, st, cs, H), NEW p \in H, w.ps[p].state = "pending",
         NEW x \in Values, Exists(w.ps, x), NEW o \in Lookups(w, p, x)
  PROVE  Found(w, st, cs, H, p, x, o)
<1> DEFINE done(u) == [w |-> u, getter |-> FALSE]
           rejected == Settle(w, p, "rejected", TypeError)
           fulfilled == Settle(w, p, "fulfilled", x)
<1>1. p \in Promises
  BY DEF Sound, Good, Holding
<1>2. TypeError \in Reasons /\ Fits(TypeError, "rejected")
  BY ValuesAssumption DEF Fits
<1>3. ASSUME \A e \in Reasons : [is |-> "rejected", of |-> e] \in Outcome!Resolved(p, x),
             o = done(rejected)
      PROVE  Found(w, st, cs, H, p, x, o)
  <2>1. /\ Sound(rejected, st, cs, H \ {p}) /\ Later(w.ps, rejected.ps, p)
        /\ FateIn(rejected.ps, p) = [is |-> "rejected", of |-> TypeError]
    BY <1>2, Settles
  <2>2. [is |-> "rejected", of |-> TypeError] \in Outcome!Resolved(p, x)
    BY <1>2, <1>3
  <2> HIDE DEF rejected
  <2> QED
    BY <1>3, <2>1, <2>2, FoundDone
<1>4. ASSUME x \in Settleable, [is |-> "fulfilled", of |-> x] \in Outcome!Resolved(p, x),
             o = done(fulfilled)
      PROVE  Found(w, st, cs, H, p, x, o)
  <2>1. Fits(x, "fulfilled")
    BY <1>4 DEF Fits
  <2>2. /\ Sound(fulfilled, st, cs, H \ {p}) /\ Later(w.ps, fulfilled.ps, p)
        /\ FateIn(fulfilled.ps, p) = [is |-> "fulfilled", of |-> x]
    BY <2>1, Settles
  <2> HIDE DEF fulfilled
  <2> QED
    BY <1>4, <2>2, FoundDone
<1>5. ASSUME x \in Promises \cup Objects, LockedTo(x) \in Outcome!Resolved(p, x),
             o = done(Lock(w, p, x))
      PROVE  Found(w, st, cs, H, p, x, o)
  <2>1. /\ Sound(Lock(w, p, x), st, cs, H \ {p}) /\ Later(w.ps, Lock(w, p, x).ps, p)
        /\ FateIn(Lock(w, p, x).ps, p) = LockedTo(x)
    BY <1>5, Locks
  <2> QED
    BY <1>5, <2>1, FoundDone
<1>6. CASE x = p
  <2>1. o = done(rejected)
    <3>1. x \in Promises /\ x \notin Objects
      BY <1>1, <1>6, CoursesDiffer
    <3>2. Lookups(w, p, x) = {done(rejected)}
      BY <1>6, <3>1, Zenon DEF Lookups
    <3> QED
      BY <3>2
  <2> QED
    BY <1>1, <1>3, <1>6, <2>1, ResolvedCases
<1>7. CASE x \notin Promises \cup Objects
  <2>1. o = done(fulfilled)
    <3>1. Lookups(w, p, x) = {done(fulfilled)}
      BY <1>1, <1>7, Zenon DEF Lookups
    <3> QED
      BY <3>1
  <2>2. x \in Plain /\ x \in Settleable
    BY <1>7 DEF Values, Settleable
  <2> QED
    BY <1>1, <1>4, <2>1, <2>2, ResolvedCases
<1>8. CASE x \in Promises /\ x # p
  <2>1. x \notin Objects
    BY <1>8, CoursesDiffer
  <2>2. o = done(Lock(w, p, x))
    <3>1. Lookups(w, p, x) = {done(Lock(w, p, x))}
      BY <1>8, <2>1, Zenon DEF Lookups
    <3> QED
      BY <3>1
  <2> QED
    BY <1>1, <1>5, <1>8, <2>2, ResolvedCases
<1>9. CASE x \in Objects
  <2> DEFINE reading == [w |-> Read(w, p, x), getter |-> TRUE]
  <2>1. x \notin Promises /\ x # p /\ x \in Settleable
    BY <1>1, <1>9, CoursesDiffer DEF Settleable
  <2>2. o \in {done(fulfilled), done(Lock(w, p, x)), done(rejected), reading}
    BY <1>9, <2>1, Zenon DEF Lookups, Read
  <2>3. /\ {LockedTo(x), Reading(x), [is |-> "fulfilled", of |-> x]} \subseteq Outcome!Resolved(p, x)
        /\ \A e \in Reasons : [is |-> "rejected", of |-> e] \in Outcome!Resolved(p, x)
    BY <1>1, <1>9, ResolvedCases
  <2>4. CASE o = reading
    <3>1. o.w = Read(w, p, x) /\ o.getter = TRUE
      BY <2>4
    <3>2. /\ Sound(o.w, st, cs, H) /\ Later(w.ps, o.w.ps, p)
          /\ FateIn(o.w.ps, p) = Reading(x) /\ InCourse(o.w.ps, p, Reading(x))
      BY <1>9, <3>1, Reads
    <3>3. FateIn(o.w.ps, p) \in Outcome!Resolved(p, x)
      BY <2>3, <3>2
    <3> QED
      BY <1>9, <3>1, <3>2, <3>3, Zenon DEF Found
  <2>5. CASE o = done(fulfilled)
    BY <1>4, <2>1, <2>3, <2>5
  <2>6. CASE o = done(Lock(w, p, x))
    BY <1>5, <1>9, <2>3, <2>6
  <2>7. CASE o = done(rejected)
    BY <1>3, <2>3, <2>7
  <2> HIDE DEF done, fulfilled, rejected, reading
  <2> QED
    BY <2>2, <2>4, <2>5, <2>6, <2>7
<1> QED
  BY <1>6, <1>7, <1>8, <1>9
-----------------------------------------------------------------------------
(***************************************************************************)
(* The stack, and how a step ends.                                         *)
(***************************************************************************)
LEMMA Pushed ==
  ASSUME NEW s, IsSeq(s), Shape(s), NEW e,
         e.kind = "finally" => s # <<>> /\ Last(s).kind = "reaction"
  PROVE  Shape(Append(s, e))
<1> DEFINE n == Len(s)
           u == Append(s, e)
<1>1. /\ DOMAIN u = DOMAIN s \cup {n + 1}
      /\ \A i \in DOMAIN s : u[i] = s[i]
      /\ u[n + 1] = e
  BY Appended
<1>2. n \in Nat /\ DOMAIN s = 1..n
  BY SequenceDomain
<1>3. ASSUME NEW i \in DOMAIN u, u[i].kind = "finally"
      PROVE  i - 1 \in DOMAIN u /\ u[i - 1].kind = "reaction"
  <2>1. CASE i \in DOMAIN s
    BY <1>1, <1>3, <2>1 DEF Shape
  <2>2. CASE i = n + 1
    <3>1. s # <<>> /\ Last(s).kind = "reaction"
      BY <1>1, <1>3, <2>2
    <3>2. n \in DOMAIN s /\ Last(s) = s[n]
      BY <3>1, Popped
    <3>3. i - 1 = n
      BY <1>2, <2>2
    <3> QED
      BY <1>1, <3>1, <3>2, <3>3
  <2> QED
    BY <1>1, <2>1, <2>2
<1> QED
  BY <1>3 DEF Shape

LEMMA Lowered ==
  ASSUME NEW s, IsSeq(s), Shape(s), s # <<>>
  PROVE  /\ IsSeq(Front(s)) /\ Shape(Front(s))
         /\ Last(s).kind = "finally" => Front(s) # <<>> /\ Last(Front(s)).kind = "reaction"
<1> DEFINE n == Len(s)
           u == Front(s)
<1>1. /\ IsSeq(u) /\ Len(u) = n - 1 /\ n \in DOMAIN s
      /\ DOMAIN u = DOMAIN s \ {n} /\ Last(s) = s[n]
      /\ \A i \in DOMAIN u : u[i] = s[i]
  BY Popped
<1>2. n \in Nat /\ DOMAIN s = 1..n
  BY SequenceDomain
<1>3. ASSUME NEW i \in DOMAIN u, u[i].kind = "finally"
      PROVE  i - 1 \in DOMAIN u /\ u[i - 1].kind = "reaction"
  <2>1. s[i].kind = "finally" /\ i \in DOMAIN s /\ i # n
    BY <1>1, <1>3
  <2>2. i - 1 \in DOMAIN s /\ s[i - 1].kind = "reaction"
    BY <2>1 DEF Shape
  <2>3. i - 1 # n
    BY <1>2, <2>1
  <2> QED
    BY <1>1, <2>2, <2>3
<1>4. ASSUME Last(s).kind = "finally"
      PROVE  u # <<>> /\ Last(u).kind = "reaction"
  <2>1. n - 1 \in DOMAIN s /\ s[n - 1].kind = "reaction"
    BY <1>1, <1>4 DEF Shape
  <2>2. n - 1 \in DOMAIN u
    BY <1>1, <1>2, <2>1
  <2>3. u # <<>>
    BY <2>2, NoElements
  <2>4. Last(u) = u[n - 1]
    BY <1>1 DEF Last
  <2> QED
    BY <1>1, <2>1, <2>2, <2>3, <2>4
<1> QED
  BY <1>1, <1>3, <1>4 DEF Shape

LEMMA Bare == IsSeq(<<>>) /\ Shape(<<>>)
BY NoElements DEF Shape

Control(ps, st, c, o) ==
  /\ Shape(st)
  /\ c = "run" => st # <<>> /\ Last(st).frame
  /\ c = "drain" => st # <<>> /\ ~Last(st).frame /\ o \in Values /\ Exists(ps, o)

LEMMA ControlNow == Controlled = Control(promises, stack, ctl, out)
BY DEF Controlled, Control, Top

\* A step whose new table, queue, stack and cells are in order ends in order.
Ending(w, s, cs) ==
  /\ Become(w) /\ cells' = cs /\ stack' = s /\ Sound(w, s, cs, {})
  /\ Control(w.ps, s, ctl', out') /\ Steps(w.ps)

LEMMA Finish ==
  ASSUME NEW w, NEW s, NEW cs, Ending(w, s, cs)
  PROVE  IInv' /\ Steps(promises')
<1>1. promises' = w.ps /\ jobs' = w.jobs /\ cells' = cs /\ stack' = s
  BY DEF Ending, Become
<1>2. Good(promises', jobs', stack', cells', {})
  BY <1>1, Zenon DEF Ending, Sound
<1>3. Control(promises', stack', ctl', out') /\ Steps(promises')
  BY <1>1, Zenon DEF Ending
<1> QED
  BY <1>2, <1>3 DEF IInv, Controlled, Control, Top

\* A native operation returns.
LEMMA Returns ==
  ASSUME NEW w, NEW s, NEW cs, Sound(w, s, cs, {}), Steps(w.ps), Shape(s),
         NEW v \in Values, Exists(w.ps, v),
         Become(w), cells' = cs, Proceed(s, v)
  PROVE  IInv' /\ Steps(promises')
<1>1. stack' = s
  BY DEF Proceed
<1>2. Control(w.ps, s, ctl', out')
  <2>1. CASE s # <<>> /\ ~Last(s).frame
    BY <2>1 DEF Proceed, Control
  <2>2. CASE s = <<>>
    BY <2>2 DEF Proceed, Control
  <2>3. CASE s # <<>> /\ Last(s).frame
    BY <2>3 DEF Proceed, Control
  <2> QED
    BY <2>1, <2>2, <2>3
<1> QED
  BY <1>1, <1>2, Finish DEF Ending

\* A throw was turned into a settlement.
LEMMA Leaves ==
  ASSUME NEW w, NEW s, NEW cs, Sound(w, s, cs, {}), Steps(w.ps), Shape(s),
         Become(w), cells' = cs, Abandon(s)
  PROVE  IInv' /\ Steps(promises')
<1>1. stack' = s
  BY DEF Abandon
<1>2. Control(w.ps, s, ctl', out')
  BY DEF Abandon, Control
<1> QED
  BY <1>1, <1>2, Finish DEF Ending

\* A function is called; its continuation takes the promise in hand.
LEMMA Invokes ==
  ASSUME NEW w, NEW s, NEW cs, NEW H, Sound(w, s, cs, H), Steps(w.ps), Shape(s),
         NEW e, EntryOK(w.ps, cs, e), e.frame = TRUE,
         e.kind = "finally" => s # <<>> /\ Last(s).kind = "reaction",
         NEW t, t = EntryTarget(e), t \in H \/ t \notin Promises, H \subseteq {t},
         Become(w), cells' = cs, Call(s, e)
  PROVE  IInv' /\ Steps(promises')
<1>1. stack' = Append(s, e) /\ ctl' = "run"
  BY DEF Call
<1>2. Good(w.ps, w.jobs, s, cs, H) /\ w = Both(w.ps, w.jobs)
  BY DEF Sound
<1>3. Good(w.ps, w.jobs, Append(s, e), cs, H \ {t})
  BY <1>2, Stacks
<1>4. H \ {t} = {}
  OBVIOUS
<1>5. Sound(w, Append(s, e), cs, {})
  BY <1>2, <1>3, <1>4, Zenon DEF Sound
<1>6. IsSeq(s)
  BY <1>2 DEF Good, Content
<1>7. Append(s, e) # <<>> /\ Last(Append(s, e)) = e
  BY <1>6, Appended
<1>8. Shape(Append(s, e))
  BY <1>6, Pushed
<1>9. Control(w.ps, Append(s, e), ctl', out')
  BY <1>1, <1>7, <1>8 DEF Control
<1> QED
  BY <1>1, <1>5, <1>9, Finish DEF Ending
\* A function is called, and no promise is in hand.
LEMMA InvokesBare ==
  ASSUME NEW w, NEW s, NEW cs, Sound(w, s, cs, {}), Steps(w.ps), Shape(s),
         NEW e, EntryOK(w.ps, cs, e), e.frame = TRUE,
         e.kind = "finally" => s # <<>> /\ Last(s).kind = "reaction",
         EntryTarget(e) \notin Promises, Become(w), cells' = cs, Call(s, e)
  PROVE  IInv' /\ Steps(promises')
<1>1. PICK H : H = {}
  OBVIOUS
<1>2. Sound(w, s, cs, H) /\ H \subseteq {EntryTarget(e)}
  BY <1>1
<1> QED
  BY <1>2, Invokes
-----------------------------------------------------------------------------
(***************************************************************************)
(* Resolution and the settlement of a reaction.                            *)
(***************************************************************************)
LEMMA Decides ==
  ASSUME NEW p \in Promises, Resolvable(promises, p)
  PROVE  /\ \A x \in Values : Outcome!Resolved(p, x) \subseteq Outcome!Successors(p)
         /\ \A e \in Reasons : [is |-> "rejected", of |-> e] \in Outcome!Successors(p)
<1>1. Outcome!ByProgram(p) \subseteq Outcome!Successors(p)
  BY ProgramResolves
<1>2. /\ \A x \in Values : Outcome!Resolved(p, x) \subseteq Outcome!ByProgram(p)
      /\ \A e \in Reasons : [is |-> "rejected", of |-> e] \in Outcome!ByProgram(p)
  BY ByProgramCases
<1> QED
  BY <1>1, <1>2

LEMMA Nothing == Undefined \in Values /\ \A ps : Exists(ps, Undefined)
BY ValuesAssumption DEF Values, Exists

LEMMA Capabilities == Hidden \notin Promises /\ Custom \notin Promises /\ Hidden # Custom
<1>1. Hidden # Custom
  BY ValuesAssumption, BoundsAssumption DEF Hidden
<1> QED
  BY <1>1, Numbers

\* A promise in hand that is rejected.
LEMMA Rejects ==
  ASSUME NEW w, NEW st, NEW cs, NEW p, Sound(w, st, cs, {p}), w.ps[p].state = "pending", Steps(w.ps),
         NEW e \in Reasons, [is |-> "rejected", of |-> e] \in Outcome!Successors(p),
         NEW u, u = Settle(w, p, "rejected", e)
  PROVE  Sound(u, st, cs, {}) /\ Steps(u.ps) /\ Later(w.ps, u.ps, p)
<1>1. Fits(e, "rejected") /\ {p} \ {p} = {}
  BY DEF Fits
<1>2. /\ Sound(u, st, cs, {p} \ {p}) /\ Later(w.ps, u.ps, p)
      /\ FateIn(u.ps, p) = [is |-> "rejected", of |-> e]
  BY <1>1, Settles
<1> QED
  BY <1>1, <1>2, StepsOne

LEMMA Resolution ==
  ASSUME NEW w, NEW s, NEW cs, NEW p, Sound(w, s, cs, {p}), w.ps[p].state = "pending", Steps(w.ps),
         Shape(s), NEW x \in Values, Exists(w.ps, x),
         Outcome!Resolved(p, x) \subseteq Outcome!Successors(p),
         NEW mode, NEW back \in Values, Exists(w.ps, back), cells' = cs,
         Resolve(w, s, p, x, mode, back)
  PROVE  IInv' /\ Steps(promises')
<1> DEFINE e == [kind |-> "resolution", frame |-> TRUE, promise |-> p, value |-> x,
                 mode |-> mode, back |-> back]
<1>1. PICK o \in Lookups(w, p, x) :
        /\ Become(o.w)
        /\ o.getter = TRUE => Call(s, e)
        /\ o.getter = FALSE => Proceed(s, back)
  BY Zenon DEF Resolve
<1>2. Found(w, s, cs, {p}, p, x, o)
  BY Looked
<1>3. PICK u : u = o.w
  OBVIOUS
<1>4. Later(w.ps, u.ps, p) /\ Steps(u.ps)
  BY <1>2, <1>3, StepsOne DEF Found
<1>5. Exists(u.ps, back)
  BY <1>4, LaterExists
<1>6. CASE o.getter = FALSE
  <2>1. Sound(u, s, cs, {}) /\ Become(u) /\ Proceed(s, back)
    BY <1>1, <1>2, <1>3, <1>6 DEF Found
  <2> QED
    BY <1>4, <1>5, <2>1, Returns
<1>7. CASE o.getter = TRUE
  <2>1. Sound(u, s, cs, {p}) /\ x \in Objects /\ InCourse(u.ps, p, Reading(x)) /\ Become(u) /\ Call(s, e)
    BY <1>1, <1>2, <1>3, <1>7 DEF Found
  <2>2. p \in Promises
    BY <2>1 DEF Sound, Good, Holding
  <2>3. EntryOK(u.ps, cs, e) /\ EntryTarget(e) = p /\ e.frame = TRUE /\ e.kind # "finally"
    BY <1>5, <2>1, <2>2 DEF EntryOK, EntryTarget
  <2> HIDE DEF e
  <2> QED
    BY <1>4, <2>1, <2>3, Invokes
<1> QED
  BY <1>2, <1>6, <1>7 DEF Found

LEMMA Completes ==
  ASSUME NEW w, NEW s, NEW cs, NEW cap \in Caps, Sound(w, s, cs, {cap} \cap Promises), Steps(w.ps),
         Shape(s),
         cap \in Promises => InCourse(w.ps, cap, None) /\ Resolvable(promises, cap),
         NEW rejected \in BOOLEAN, NEW x,
         IF rejected THEN x \in Reasons ELSE x \in Values /\ Exists(w.ps, x),
         cells' = cs, SettleReaction(w, s, cap, x, rejected)
  PROVE  IInv' /\ Steps(promises')
<1>1. Hidden \notin Promises /\ Custom \notin Promises /\ Hidden # Custom
  BY Capabilities
<1>2. CASE cap = Custom
  <2> DEFINE e == [kind |-> "capability", frame |-> TRUE]
  <2>1. Become(w) /\ Call(s, e)
    BY <1>1, <1>2, Zenon DEF SettleReaction
  <2>2. {cap} \cap Promises = {}
    BY <1>1, <1>2
  <2>3. EntryOK(w.ps, cs, e) /\ EntryTarget(e) = Hidden /\ e.frame = TRUE /\ e.kind # "finally"
    BY DEF EntryOK, EntryTarget
  <2>4. Sound(w, s, cs, {})
    BY <2>2
  <2> HIDE DEF e
  <2> QED
    BY <1>1, <2>1, <2>3, <2>4, InvokesBare
<1>3. CASE cap = Hidden
  <2>1. Become(w) /\ Proceed(s, Undefined)
    <3>1. CASE rejected
      BY <1>1, <1>3, <3>1, Zenon DEF SettleReaction, SettleCap
    <3>2. CASE ~rejected
      BY <1>1, <1>3, <3>2, Zenon DEF SettleReaction
    <3> QED
      BY <3>1, <3>2
  <2>2. {cap} \cap Promises = {}
    BY <1>1, <1>3
  <2>3. Sound(w, s, cs, {})
    BY <2>2
  <2> QED
    BY <2>1, <2>3, Nothing, Returns
<1>4. CASE cap \in Promises
  <2>1. {cap} \cap Promises = {cap} /\ w.ps[cap].state = "pending" /\ cap # Custom /\ cap # Hidden
    BY <1>1, <1>4 DEF InCourse
  <2>2. Sound(w, s, cs, {cap})
    BY <2>1
  <2>3. /\ \A y \in Values : Outcome!Resolved(cap, y) \subseteq Outcome!Successors(cap)
        /\ \A y \in Reasons : [is |-> "rejected", of |-> y] \in Outcome!Successors(cap)
    BY <1>4, Decides
  <2>4. CASE rejected
    <3>1. PICK u : u = Settle(w, cap, "rejected", x)
      OBVIOUS
    <3>2. Become(u) /\ Proceed(s, Undefined)
      BY <2>1, <2>4, <3>1, Zenon DEF SettleReaction, SettleCap
    <3>3. Sound(u, s, cs, {}) /\ Steps(u.ps)
      BY <2>1, <2>2, <2>3, <2>4, <3>1, Rejects
    <3> QED
      BY <3>2, <3>3, Nothing, Returns
  <2>5. CASE ~rejected
    <3>1. Resolve(w, s, cap, x, "reaction", Undefined)
      BY <1>4, <2>1, <2>5, Zenon DEF SettleReaction
    <3>2. x \in Values /\ Exists(w.ps, x)
      BY <2>5
    <3>3. Undefined \in Values /\ Exists(w.ps, Undefined)
      BY Nothing
    <3> QED
      BY <2>1, <2>2, <2>3, <3>1, <3>2, <3>3, Resolution
  <2> QED
    BY <2>4, <2>5
<1> QED
  BY <1>2, <1>3, <1>4 DEF Caps
-----------------------------------------------------------------------------
(***************************************************************************)
(* The program's calls.                                                    *)
(***************************************************************************)
LEMMA Start ==
  ASSUME IInv
  PROVE  /\ Sound(World, stack, cells, {}) /\ World.ps = promises /\ World.jobs = jobs
         /\ Steps(promises) /\ Shape(stack) /\ IsSeq(stack) /\ IsSeq(cells) /\ IsSeq(jobs)
         /\ Good(promises, jobs, stack, cells, {})
         /\ Running => stack # <<>> /\ Last(stack).frame
<1>1. World = Both(promises, jobs)
  BY WorldIs
<1>2. Good(promises, jobs, stack, cells, {}) /\ Controlled
  BY DEF IInv
<1>3. Sound(World, stack, cells, {}) /\ World.ps = promises /\ World.jobs = jobs
  BY <1>1, <1>2, SoundBoth
<1>4. Steps(promises)
  BY DEF Steps
<1> QED
  BY <1>2, <1>3, <1>4 DEF Controlled, Running, Top, Good, Content

LEMMA Unmoved ==
  ASSUME promises' = promises, jobs' = jobs
  PROVE  Become(World)
BY DEF Become, World

LEMMA Nobody == Sound(World, stack, cells, {}) => Sound(World, <<>>, cells, {})
BY Clears DEF Sound

\* Control stays where it is.
LEMMA Stays ==
  ASSUME NEW w, NEW cs, Sound(w, stack, cs, {}), Steps(w.ps), Controlled, ctl # "drain",
         Become(w), cells' = cs, stack' = stack, ctl' = ctl, out' = out
  PROVE  IInv' /\ Steps(promises')
<1>1. Control(w.ps, stack, ctl', out')
  BY DEF Control, Controlled, Top
<1> QED
  BY <1>1, Finish DEF Ending

LEMMA PendingIs == Pending = Made("pending", None, <<>>, <<>>, None) /\ PromiseOK(Pending)
                     /\ Pending.state = "pending" /\ Pending.fulfil = <<>> /\ Pending.course = None
<1>1. Pending = Made("pending", None, <<>>, <<>>, None)
  BY DEF Pending, Free, Made
<1>2. /\ Pending.state = "pending" /\ Pending.fulfil = <<>> /\ Pending.course = None
      /\ Pending.reject = <<>> /\ Pending.result = None
  BY <1>1 DEF Made
<1>3. IsSeq(<<>>) /\ None \in Courses
  BY NoElements, CoursesDiffer
<1>4. PromiseOK(Pending)
  BY <1>1, <1>2, <1>3 DEF PromiseOK, Made
<1> QED
  BY <1>1, <1>2, <1>4

LEMMA Opening ==
  ASSUME IInv, NEW p \in Promises, Fresh(World, p), NEW u, u = Create(World, p, Pending)
  PROVE  /\ Sound(u, stack, cells, {p}) /\ Later(promises, u.ps, p) /\ InCourse(u.ps, p, None)
         /\ u.ps[p].state = "pending" /\ Steps(u.ps)
         /\ promises[p].state = "free" /\ Preceded(promises, p) /\ Resolvable(promises, p)
<1>1. Sound(World, stack, cells, {}) /\ World.ps = promises /\ Steps(promises)
  BY Start
<1>2. PromiseOK(Pending) /\ Pending.state = "pending" /\ Pending.fulfil = <<>> /\ Pending.course = None
  BY PendingIs
<1>3. PICK H, G : H = {} /\ G = {p} /\ G = H \cup {p} /\ Sound(World, stack, cells, H)
  BY <1>1
<1>4. /\ Sound(u, stack, cells, G) /\ Later(World.ps, u.ps, p) /\ u.ps[p] = Pending
      /\ World.ps[p].state = "free" /\ Preceded(World.ps, p)
  BY <1>2, <1>3, Opens, Z3
<1>5. /\ Sound(u, stack, cells, {p}) /\ Later(promises, u.ps, p)
      /\ promises[p].state = "free" /\ Preceded(promises, p)
  BY <1>1, <1>3, <1>4
<1>6. InCourse(u.ps, p, None) /\ u.ps[p].state = "pending"
  BY <1>2, <1>4 DEF InCourse
<1>7. FateIn(u.ps, p) = [is |-> "open"]
  BY <1>6, FateCases
<1>8. [is |-> "open"] \in Outcome!Successors(p)
  BY <1>5, AbsentOpens
<1>9. Steps(u.ps)
  BY <1>1, <1>5, <1>7, <1>8, StepsOne
<1> QED
  BY <1>5, <1>6, <1>9 DEF Resolvable

LEMMA ExecuteOK ==
  ASSUME IInv, Execute
  PROVE  IInv' /\ Steps(promises')
<1> DEFINE e == [kind |-> "entry", frame |-> TRUE]
<1>1. /\ Sound(World, stack, cells, {}) /\ World.ps = promises /\ Steps(promises)
  BY Start
<1>2. Become(World) /\ cells' = cells /\ Call(<<>>, e)
  BY Unmoved DEF Execute
<1>3. Sound(World, <<>>, cells, {}) /\ Steps(World.ps) /\ Shape(<<>>)
  BY <1>1, Nobody, Bare
<1>4. /\ EntryOK(World.ps, cells, e) /\ e.frame = TRUE /\ e.kind # "finally"
      /\ EntryTarget(e) \notin Promises
  BY Capabilities DEF EntryOK, EntryTarget
<1> HIDE DEF e
<1> QED
  BY <1>2, <1>3, <1>4, InvokesBare

\* The pair of resolving functions of a promise that was just created.
LEMMA Pairing ==
  ASSUME IInv, NEW p \in Promises, Fresh(World, p), NewCell(p, FALSE),
         NEW u, u = Create(World, p, Pending)
  PROVE  \E cs : /\ cells' = cs /\ Sound(u, stack, cs, {})
                 /\ Len(cells) + 1 \in DOMAIN cs /\ ~cs[Len(cells) + 1].native
<1>0. PICK c : c = [promise |-> p, claimed |-> FALSE, native |-> FALSE]
  OBVIOUS
<1>1. Sound(u, stack, cells, {p}) /\ InCourse(u.ps, p, None)
  BY Opening
<1>2. CellOK(u.ps, c) /\ CellTarget(c) = p /\ ~c.native
  BY <1>0, <1>1 DEF CellOK, CellTarget, InCourse
<1>3. PICK cs : cells' = cs /\ Paired(cells, c, cs)
  BY <1>0 DEF NewCell, Paired
<1>4. u = Both(u.ps, u.jobs) /\ Good(u.ps, u.jobs, stack, cells, {p})
  BY <1>1 DEF Sound
<1>5. PICK H : H = {p} /\ Good(u.ps, u.jobs, stack, cells, H)
  BY <1>4
<1>6. /\ Good(u.ps, u.jobs, stack, cs, H \ {p})
      /\ Len(cells) + 1 \in DOMAIN cs /\ cs[Len(cells) + 1] = c
  <2>1. p \in H \/ p \notin Promises
    BY <1>5
  <2>2. Paired(cells, c, cs) /\ Good(u.ps, u.jobs, stack, cells, H)
    BY <1>3, <1>5
  <2>3. Good(u.ps, u.jobs, stack, cs, H \ {p}) /\ Len(cells) + 1 \in DOMAIN cs
    BY ONLY <1>2, <2>1, <2>2, NewPair
  <2>4. cs[Len(cells) + 1] = c
    <3>1. IsSeq(cells) /\ cs = Append(cells, c)
      BY <2>2, Start DEF Paired
    <3>2. Append(cells, c)[Len(cells) + 1] = c
      BY <3>1, Appended
    <3> QED
      BY <3>1, <3>2, Zenon
  <2> QED
    BY <2>3, <2>4
<1>7. Sound(u, stack, cs, {})
  <2>1. H \ {p} = {}
    BY <1>5
  <2> QED
    BY <1>4, <1>6, <2>1, Zenon DEF Sound
<1> QED
  BY <1>2, <1>3, <1>6, <1>7

LEMMA ConstructOK ==
  ASSUME IInv, NEW p \in Promises, Construct(p)
  PROVE  IInv' /\ Steps(promises')
<1> DEFINE e == [kind |-> "executor", frame |-> TRUE, cell |-> Len(cells) + 1]
<1>1. PICK u : u = Create(World, p, Pending)
  OBVIOUS
<1>2. Fresh(World, p) /\ Become(u) /\ NewCell(p, FALSE) /\ Call(stack, e)
  BY <1>1 DEF Construct
<1>3. Steps(u.ps) /\ Shape(stack)
  BY <1>1, <1>2, Opening, Start
<1>4. PICK cs : /\ cells' = cs /\ Sound(u, stack, cs, {})
                /\ Len(cells) + 1 \in DOMAIN cs /\ ~cs[Len(cells) + 1].native
  BY <1>1, <1>2, Pairing
<1>5. /\ EntryOK(u.ps, cs, e) /\ e.frame = TRUE /\ e.kind # "finally"
      /\ EntryTarget(e) \notin Promises
  BY <1>4, Capabilities DEF EntryOK, EntryTarget
<1> HIDE DEF e
<1> QED
  BY <1>2, <1>3, <1>4, <1>5, InvokesBare

LEMMA WithResolversOK ==
  ASSUME IInv, NEW p \in Promises, WithResolvers(p)
  PROVE  IInv' /\ Steps(promises')
<1>1. PICK u : u = Create(World, p, Pending)
  OBVIOUS
<1>2. Fresh(World, p) /\ Become(u) /\ NewCell(p, FALSE) /\ stack' = stack /\ ctl' = ctl /\ out' = out
  BY <1>1 DEF WithResolvers
<1>3. Steps(u.ps) /\ Controlled /\ ctl # "drain"
  BY <1>1, <1>2, Opening DEF IInv, WithResolvers, Running
<1>4. PICK cs : cells' = cs /\ Sound(u, stack, cs, {})
  BY <1>1, <1>2, Pairing
<1> QED
  BY <1>2, <1>3, <1>4, Stays

LEMMA CreateRejectedOK ==
  ASSUME IInv, NEW p \in Promises, NEW e \in Reasons, CreateRejected(p, e)
  PROVE  IInv' /\ Steps(promises')
<1> DEFINE r == [Free EXCEPT !.state = "rejected", !.result = e]
<1>1. PICK u : u = Create(World, p, r)
  OBVIOUS
<1>2. /\ Fresh(World, p) /\ Become(u) /\ cells' = cells /\ stack' = stack /\ ctl' = ctl /\ out' = out
      /\ ctl # "drain"
  BY <1>1 DEF CreateRejected, Running
<1>3. r = Made("rejected", e, <<>>, <<>>, None)
  <2>1. r = [[Free EXCEPT !.state = "rejected"] EXCEPT !.result = e]
    OBVIOUS
  <2>2. [Free EXCEPT !.state = "rejected"] = Made("rejected", None, <<>>, <<>>, None)
    BY DEF Free, Made
  <2>3. [Made("rejected", None, <<>>, <<>>, None) EXCEPT !.result = e] =
          Made("rejected", e, <<>>, <<>>, None)
    BY DEF Made
  <2> QED
    BY <2>1, <2>2, <2>3, Zenon
<1>4. /\ r.state = "rejected" /\ r.result = e /\ r.fulfil = <<>> /\ r.reject = <<>> /\ r.course = None
  BY <1>3 DEF Made
<1>5. PromiseOK(r)
  BY <1>3, <1>4, NoElements, CoursesDiffer DEF PromiseOK, Made
<1> HIDE DEF r
<1>6. Sound(World, stack, cells, {}) /\ World.ps = promises /\ Steps(promises) /\ Controlled
  BY Start DEF IInv
<1>7. /\ \E H : Sound(u, stack, cells, H) /\ H \ {p} = {}
      /\ Later(World.ps, u.ps, p) /\ u.ps[p] = r /\ World.ps[p].state = "free"
  <2>1. PICK H, G : H = {} /\ G = H \cup {p} /\ Sound(World, stack, cells, H)
    BY <1>6
  <2>2. Sound(u, stack, cells, G) /\ G \ {p} = {}
    BY <1>1, <1>2, <1>4, <1>5, <2>1, Opens, Z3
  <2>3. Later(World.ps, u.ps, p) /\ u.ps[p] = r /\ World.ps[p].state = "free"
    BY <1>1, <1>2, <1>4, <1>5, <2>1, Opens, Z3
  <2> QED
    BY <2>2, <2>3
<1>8. Sound(u, stack, cells, {})
  <2>1. Unlocked(u.ps, p)
    BY <1>4, <1>7 DEF Unlocked, InCourse
  <2>2. PICK H : Sound(u, stack, cells, H) /\ H \ {p} = {}
    BY <1>7
  <2>3. Good(u.ps, u.jobs, stack, cells, H \ {p})
    BY <2>1, <2>2, Dropped DEF Sound
  <2> QED
    BY <2>2, <2>3, Zenon DEF Sound
<1>9. FateIn(u.ps, p) = [is |-> "rejected", of |-> e]
  BY <1>4, <1>7, FateCases
<1>10. [is |-> "rejected", of |-> e] \in Outcome!Successors(p)
  BY <1>6, <1>7, Decides DEF Resolvable
<1>11. Steps(u.ps)
  BY <1>6, <1>7, <1>9, <1>10, StepsOne
<1> QED
  BY <1>2, <1>6, <1>8, <1>11, Stays

LEMMA StaticResolveOK ==
  ASSUME IInv, NEW p \in Promises, NEW x \in Values, StaticResolve(p, x)
  PROVE  IInv' /\ Steps(promises')
<1>1. PICK u : u = Create(World, p, Pending)
  OBVIOUS
<1>2. Fresh(World, p) /\ x \notin Promises /\ Resolve(u, stack, p, x, "static", p) /\ cells' = cells
  BY <1>1 DEF StaticResolve
<1>3. /\ Sound(u, stack, cells, {p}) /\ u.ps[p].state = "pending" /\ Steps(u.ps)
      /\ Resolvable(promises, p)
  BY <1>1, <1>2, Opening
<1>4. Outcome!Resolved(p, x) \subseteq Outcome!Successors(p)
  BY <1>3, Decides
<1>5. Exists(u.ps, x) /\ Exists(u.ps, p) /\ p \in Values /\ Shape(stack)
  BY <1>2, <1>3, Start DEF Exists, Values
<1> QED
  BY <1>2, <1>3, <1>4, <1>5, Resolution

LEMMA TryOK ==
  ASSUME IInv, NEW p \in Promises, Try(p)
  PROVE  IInv' /\ Steps(promises')
<1> DEFINE e == [kind |-> "try", frame |-> TRUE, promise |-> p]
<1>1. PICK u : u = Create(World, p, Pending)
  OBVIOUS
<1>2. Fresh(World, p) /\ Become(u) /\ cells' = cells /\ Call(stack, e)
  BY <1>1 DEF Try
<1>3. Sound(u, stack, cells, {p}) /\ InCourse(u.ps, p, None) /\ Steps(u.ps) /\ Shape(stack)
  BY <1>1, <1>2, Opening, Start
<1>4. /\ EntryOK(u.ps, cells, e) /\ e.frame = TRUE /\ e.kind # "finally" /\ EntryTarget(e) = p
  BY <1>3 DEF EntryOK, EntryTarget
<1> HIDE DEF e
<1> QED
  BY <1>2, <1>3, <1>4, Invokes

LEMMA HeldOK ==
  ASSUME NEW x \in Held
  PROVE  x \in Values /\ Exists(promises, x)
<1>1. CASE x \in Known
  BY <1>1 DEF Known, Values, Exists
<1>2. CASE x \in Objects \cup Plain
  <2>1. x \notin Promises
    BY <1>2, CoursesDiffer
  <2> QED
    BY <1>2, <2>1 DEF Values, Exists
<1> QED
  BY <1>1, <1>2 DEF Held

\* The first call of resolving functions, which the program or a job makes.
LEMMA Claiming ==
  ASSUME IInv, NEW c \in DOMAIN cells, ~cells[c].claimed, ~cells[c].native,
         NEW p, p = cells[c].promise, NEW st, Sound(World, st, cells, {})
  PROVE  /\ Sound(World, st, Claimed(c), {p}) /\ p \in Promises /\ promises[p].state = "pending"
         /\ Resolvable(promises, p)
<1>1. World.ps = promises /\ CellOK(promises, cells[c])
  BY Start DEF Good, Content
<1>2. /\ p \in Promises /\ promises[p].state = "pending"
      /\ promises[p].course \in {None} \cup {LockedTo(x) : x \in Objects}
  BY <1>1 DEF CellOK
<1>3. Resolvable(promises, p)
  BY <1>2 DEF Resolvable, InCourse
<1>4. Good(World.ps, World.jobs, st, cells, {}) /\ World = Both(World.ps, World.jobs)
  BY DEF Sound
<1>5. PICK H : H = {} /\ Good(World.ps, World.jobs, st, cells, H)
  BY <1>4
<1>6. Good(World.ps, World.jobs, st, Claimed(c), H \cup {p})
  <2>1. World.ps[p].state = "pending" /\ Claimed(c) = [cells EXCEPT ![c].claimed = TRUE]
    BY <1>1, <1>2 DEF Claimed
  <2>2. PICK cs : cs = Claimed(c)
    OBVIOUS
  <2>3. p = cells[c].promise /\ ~cells[c].claimed /\ ~cells[c].native /\ c \in DOMAIN cells
    OBVIOUS
  <2>4. cs = [cells EXCEPT ![c].claimed = TRUE]
    BY <2>1, <2>2, Zenon
  <2>5. Good(World.ps, World.jobs, st, cs, H \cup {p})
    BY ONLY <1>5, <2>1, <2>3, <2>4, Claims
  <2> QED
    BY <2>2, <2>5, Zenon
<1>7. H \cup {p} = {p}
  BY <1>5
<1> QED
  BY <1>2, <1>3, <1>4, <1>6, <1>7, Zenon DEF Sound

LEMMA CallResolvingOK ==
  ASSUME IInv, NEW c \in DOMAIN cells, NEW reject \in BOOLEAN, NEW x \in Values \cup Reasons,
         CallResolving(c, reject, x)
  PROVE  IInv' /\ Steps(promises')
<1>1. ~cells[c].native /\ (IF reject THEN x \in Reasons ELSE x \in Held) /\ CallResolver(stack, c, reject, x)
  BY DEF CallResolving
<1>2. Sound(World, stack, cells, {}) /\ World.ps = promises /\ Steps(promises) /\ Shape(stack)
  BY Start
<1>3. CASE cells[c].claimed
  <2>1. Become(World) /\ Proceed(stack, Undefined) /\ cells' = cells
    BY <1>1, <1>3 DEF CallResolver, Claimable
  <2> QED
    BY <1>2, <2>1, Nothing, Returns
<1>4. CASE ~cells[c].claimed
  <2>1. PICK p : p = cells[c].promise
    OBVIOUS
  <2>2. /\ Sound(World, stack, Claimed(c), {p}) /\ p \in Promises /\ promises[p].state = "pending"
        /\ Resolvable(promises, p)
    BY <1>1, <1>2, <1>4, <2>1, Claiming
  <2>3. /\ \A y \in Values : Outcome!Resolved(p, y) \subseteq Outcome!Successors(p)
        /\ \A y \in Reasons : [is |-> "rejected", of |-> y] \in Outcome!Successors(p)
    BY <2>2, Decides
  <2>4. cells' = Claimed(c)
    BY <1>1, <1>4 DEF CallResolver, Claimable
  <2>5. CASE reject
    <3>1. PICK u : u = Settle(World, p, "rejected", x)
      OBVIOUS
    <3>2. Become(u) /\ Proceed(stack, Undefined)
      BY <1>1, <1>4, <2>1, <2>5, <3>1 DEF CallResolver, Claimable
    <3>3. x \in Reasons
      BY <1>1, <2>5
    <3>4. Sound(u, stack, Claimed(c), {}) /\ Steps(u.ps)
      BY <1>2, <2>2, <2>3, <3>1, <3>3, Rejects
    <3> QED
      BY <1>2, <2>4, <3>2, <3>4, Nothing, Returns
  <2>6. CASE ~reject
    <3>1. Resolve(World, stack, p, x, "call", Undefined)
      BY <1>1, <1>4, <2>1, <2>6 DEF CallResolver, Claimable
    <3>2. x \in Values /\ Exists(World.ps, x)
      BY <1>1, <1>2, <2>6, HeldOK
    <3>3. Undefined \in Values /\ Exists(World.ps, Undefined)
      BY Nothing
    <3> QED
      BY <1>2, <2>2, <2>3, <2>4, <3>1, <3>2, <3>3, Resolution
  <2> QED
    BY <2>5, <2>6
<1> QED
  BY <1>3, <1>4

\* Handlers that hold no resolving functions.
PlainHandler(h, rejecting) ==
  /\ h.kind \in {"none", "user", "finally", "thunk"}
  /\ h.kind = "finally" => h.rejected = rejecting
  /\ h.kind = "thunk" => /\ h.rejected \in BOOLEAN
                         /\ h.value \in (IF h.rejected THEN Reasons ELSE Settleable)

\* A reaction with a capability in hand is attached.
LEMMA Reacts ==
  ASSUME NEW w, NEW st, NEW cs, NEW cap \in Caps, NEW H, Sound(w, st, cs, H),
         cap \in Promises => cap \in H /\ InCourse(w.ps, cap, None),
         NEW q \in Promises, w.ps[q].state # "free",
         NEW h, PlainHandler(h, FALSE), NEW k, PlainHandler(k, TRUE), NEW id,
         NEW u, u = Attach(w, q, h, k, cap, id)
  PROVE  Sound(u, st, cs, H \ {cap}) /\ \A p \in Promises : Same(w.ps, u.ps, p)
<1> DEFINE f == [handler |-> h, cap |-> cap, id |-> id]
           g == [handler |-> k, cap |-> cap, id |-> id]
<1>1. /\ f.handler = h /\ f.cap = cap /\ g.handler = k /\ g.cap = cap
      /\ f = [handler |-> h, cap |-> cap, id |-> id] /\ g = [handler |-> k, cap |-> cap, id |-> id]
  OBVIOUS
<1> HIDE DEF f, g
<1>2. HandlerOK(cs, h, FALSE) /\ h.kind # "resolver"
  BY DEF HandlerOK, PlainHandler
<1>3. HandlerOK(cs, k, TRUE) /\ k.kind # "resolver"
  BY DEF HandlerOK, PlainHandler
<1>4. ReactionOK(w.ps, cs, q, f, FALSE)
  BY <1>1, <1>2, Zenon DEF ReactionOK
<1>5. ReactionOK(w.ps, cs, q, g, TRUE)
  BY <1>1, <1>3, Zenon DEF ReactionOK
<1>6. PairOK(w.ps, cs, q, f, g)
  BY <1>1, <1>2, <1>3, <1>4, <1>5, Zenon DEF PairOK
<1>7. Target(cs, f) = cap
  BY <1>1, <1>2 DEF Target
<1> QED
  BY <1>1, <1>6, <1>7, Attaches

LEMMA ThenOK ==
  ASSUME IInv, NEW p \in Promises, NEW h, PlainHandler(h, FALSE), NEW k, PlainHandler(k, TRUE),
         NEW cap \in Promises \cup {Custom}, Then(p, h, k, cap)
  PROVE  IInv' /\ Steps(promises')
<1>1. PICK id : id = Len(thens')
  OBVIOUS
<1>2. /\ ctl # "drain" /\ promises[p].state # "free" /\ cells' = cells /\ stack' = stack
      /\ ctl' = ctl /\ out' = out
  BY DEF Then, Running, Known
<1>3. /\ Sound(World, stack, cells, {}) /\ World.ps = promises /\ Steps(promises) /\ Controlled
      /\ cap \in Caps
  BY Start DEF IInv, Caps
<1>4. CASE cap = Custom
  <2>1. PICK u : u = Attach(World, p, h, k, cap, id)
    OBVIOUS
  <2>2. Become(u)
    BY <1>1, <1>4, <2>1 DEF Then
  <2>3. cap \notin Promises
    BY <1>4, Capabilities
  <2>4. PICK H : H = {} /\ Sound(World, stack, cells, H)
    BY <1>3
  <2>5. Sound(u, stack, cells, H \ {cap}) /\ \A q \in Promises : Same(promises, u.ps, q)
    BY <1>2, <1>3, <2>1, <2>3, <2>4, Reacts
  <2>6. H \ {cap} = {} /\ Steps(u.ps)
    BY <1>3, <2>4, <2>5, StepsSame
  <2> QED
    BY <1>2, <1>3, <2>2, <2>5, <2>6, Stays
<1>5. CASE cap # Custom
  <2>1. PICK w : w = Create(World, cap, Pending)
    OBVIOUS
  <2>2. PICK u : u = Attach(w, p, h, k, cap, id)
    OBVIOUS
  <2>3. Fresh(World, cap) /\ Become(u) /\ cap \in Promises
    BY <1>1, <1>5, <2>1, <2>2 DEF Then
  <2>4. /\ Sound(w, stack, cells, {cap}) /\ Later(promises, w.ps, cap) /\ InCourse(w.ps, cap, None)
        /\ Steps(w.ps)
    BY <2>1, <2>3, Opening
  <2>5. w.ps[p].state # "free"
    BY <1>2, <2>4 DEF Later, Same
  <2>6. PICK H : H = {cap} /\ Sound(w, stack, cells, H)
    BY <2>4
  <2>7. Sound(u, stack, cells, H \ {cap}) /\ \A q \in Promises : Same(w.ps, u.ps, q)
    BY <1>3, <2>2, <2>3, <2>4, <2>5, <2>6, Reacts
  <2>8. H \ {cap} = {} /\ Steps(u.ps)
    BY <2>4, <2>6, <2>7, StepsSame
  <2> QED
    BY <1>2, <1>3, <2>3, <2>7, <2>8, Stays
<1> QED
  BY <1>4, <1>5

LEMMA Handlers ==
  /\ \A h \in {NoHandler, UserHandler} : PlainHandler(h, FALSE) /\ PlainHandler(h, TRUE)
  /\ PlainHandler(FinallyHandler(FALSE), FALSE) /\ PlainHandler(FinallyHandler(TRUE), TRUE)
BY DEF PlainHandler, NoHandler, UserHandler, FinallyHandler

LEMMA FinallyOK ==
  ASSUME IInv, NEW p \in Promises, NEW d \in Promises, Finally(p, d)
  PROVE  IInv' /\ Steps(promises')
<1>1. PICK h, k : h = FinallyHandler(FALSE) /\ k = FinallyHandler(TRUE)
  OBVIOUS
<1>2. PlainHandler(h, FALSE) /\ PlainHandler(k, TRUE)
  BY <1>1, Handlers, Zenon
<1>3. Then(p, h, k, d)
  BY <1>1, Zenon DEF Finally
<1> QED
  BY <1>2, <1>3, ThenOK
-----------------------------------------------------------------------------
(***************************************************************************)
(* Returns and throws.                                                     *)
(***************************************************************************)
\* The continuation on top, and the world without it.
LEMMA Unwinds ==
  ASSUME IInv, stack # <<>>
  PROVE  /\ EntryOK(promises, cells, Top)
         /\ Sound(World, Front(stack), cells, {EntryTarget(Top)} \cap Promises)
         /\ Shape(Front(stack)) /\ IsSeq(Front(stack))
         /\ Top.kind = "finally" => Front(stack) # <<>> /\ Last(Front(stack)).kind = "reaction"
<1>1. /\ Sound(World, stack, cells, {}) /\ World.ps = promises /\ Shape(stack) /\ IsSeq(stack)
  BY Start
<1>2. PICK H : H = {} /\ Good(World.ps, World.jobs, stack, cells, H) /\ World = Both(World.ps, World.jobs)
  BY <1>1 DEF Sound
<1>3. PICK e : e = Last(stack) /\ e = Top
  BY DEF Top
<1>4. /\ Good(World.ps, World.jobs, Front(stack), cells, H \cup ({EntryTarget(e)} \cap Promises))
      /\ EntryOK(World.ps, cells, e)
  BY <1>2, <1>3, Pops
<1>5. H \cup ({EntryTarget(e)} \cap Promises) = {EntryTarget(e)} \cap Promises
  BY <1>2
<1>6. Sound(World, Front(stack), cells, {EntryTarget(e)} \cap Promises)
  BY <1>2, <1>4, <1>5, Zenon DEF Sound
<1>7. /\ Shape(Front(stack)) /\ IsSeq(Front(stack))
      /\ Last(stack).kind = "finally" => Front(stack) # <<>> /\ Last(Front(stack)).kind = "reaction"
  BY <1>1, Lowered
<1> QED
  BY <1>1, <1>3, <1>4, <1>6, <1>7

\* A continuation that holds no promise.
LEMMA UnwindsBare ==
  ASSUME IInv, stack # <<>>, Top.kind \notin {"reaction", "try", "resolution"}
  PROVE  Sound(World, Front(stack), cells, {})
<1>1. EntryTarget(Top) = Hidden
  BY DEF EntryTarget
<1>2. {EntryTarget(Top)} \cap Promises = {}
  BY <1>1, Capabilities
<1> QED
  BY <1>2, Unwinds

\* A continuation that holds a promise.
LEMMA UnwindsHolding ==
  ASSUME IInv, stack # <<>>, Top.kind \in {"try", "resolution"}
  PROVE  /\ Sound(World, Front(stack), cells, {Top.promise}) /\ Top.promise \in Promises
         /\ World.ps = promises /\ Steps(World.ps) /\ Shape(Front(stack))
<1>1. EntryTarget(Top) = Top.promise /\ Top.promise \in Promises
  BY Unwinds DEF EntryTarget, EntryOK
<1>2. {EntryTarget(Top)} \cap Promises = {Top.promise}
  BY <1>1
<1> QED
  BY <1>1, <1>2, Unwinds, Start

LEMMA ReturnEntryOK ==
  ASSUME IInv, ReturnEntry
  PROVE  IInv' /\ Steps(promises')
<1>1. Sound(World, <<>>, cells, {}) /\ Steps(World.ps) /\ Shape(<<>>)
  BY Start, Nobody, Bare
<1>2. Become(World) /\ cells' = cells /\ Proceed(<<>>, Undefined)
  BY Unmoved DEF ReturnEntry
<1> QED
  BY <1>1, <1>2, Nothing, Returns

LEMMA ReturnExecutorOK ==
  ASSUME IInv, ReturnExecutor
  PROVE  IInv' /\ Steps(promises')
<1>1. stack # <<>> /\ Top.kind = "executor"
  BY Start DEF ReturnExecutor, Returning
<1>2. Sound(World, Front(stack), cells, {}) /\ Steps(World.ps) /\ Shape(Front(stack)) /\ World.ps = promises
  BY <1>1, Unwinds, UnwindsBare, Start
<1>3. PICK v : v = cells[Top.cell].promise
  OBVIOUS
<1>4. v \in Values /\ Exists(World.ps, v)
  <2>1. Top.cell \in DOMAIN cells
    BY <1>1, Unwinds DEF EntryOK
  <2>2. CellOK(promises, cells[Top.cell])
    BY <2>1, Start DEF Good, Content
  <2> QED
    BY <1>2, <1>3, <2>2 DEF CellOK, Values, Exists
<1>5. Become(World) /\ cells' = cells /\ Proceed(Front(stack), v)
  BY <1>3, Unmoved DEF ReturnExecutor
<1> QED
  BY <1>2, <1>4, <1>5, Returns

LEMMA ReturnJobOK ==
  ASSUME IInv, ReturnJob
  PROVE  IInv' /\ Steps(promises')
<1>1. stack # <<>> /\ Top.kind \in {"thenable", "capability"}
  BY Start DEF ReturnJob, Returning
<1>2. Sound(World, Front(stack), cells, {}) /\ Steps(World.ps) /\ Shape(Front(stack))
  BY <1>1, Unwinds, UnwindsBare, Start
<1>3. Become(World) /\ cells' = cells /\ Proceed(Front(stack), Undefined)
  BY Unmoved DEF ReturnJob
<1> QED
  BY <1>2, <1>3, Nothing, Returns

\* The reaction on top completes.
LEMMA ReactionCompletes ==
  ASSUME IInv, stack # <<>>, Top.kind = "reaction", NEW b \in BOOLEAN, NEW x,
         IF b THEN x \in Reasons ELSE x \in Values /\ Exists(promises, x),
         cells' = cells, SettleReaction(World, Front(stack), Top.cap, x, b)
  PROVE  IInv' /\ Steps(promises')
<1>1. PICK cap : cap = Top.cap
  OBVIOUS
<1>2. cap \in Caps /\ (cap \in Promises => InCourse(promises, cap, None)) /\ EntryTarget(Top) = cap
  BY <1>1, Unwinds DEF EntryOK, EntryTarget
<1>3. cap \in Promises => Resolvable(promises, cap)
  BY <1>2 DEF Resolvable
<1>4. /\ Sound(World, Front(stack), cells, {cap} \cap Promises) /\ Shape(Front(stack))
      /\ Steps(World.ps) /\ World.ps = promises
  BY <1>2, Unwinds, Start
<1>5. SettleReaction(World, Front(stack), cap, x, b)
  BY <1>1
<1> QED
  BY <1>2, <1>3, <1>4, <1>5, Completes

LEMMA ReturnReactionOK ==
  ASSUME IInv, NEW x \in Held, ReturnReaction(x)
  PROVE  IInv' /\ Steps(promises')
<1>1. stack # <<>> /\ Top.kind = "reaction"
  BY Start DEF ReturnReaction, Returning
<1>2. PICK b \in BOOLEAN : b = FALSE
  OBVIOUS
<1>3. SettleReaction(World, Front(stack), Top.cap, x, b) /\ cells' = cells
  BY <1>2, Zenon DEF ReturnReaction
<1>4. IF b THEN x \in Reasons ELSE x \in Values /\ Exists(promises, x)
  BY <1>2, HeldOK
<1> QED
  BY <1>1, <1>3, <1>4, ReactionCompletes

LEMMA DrainOK ==
  ASSUME IInv, Drain
  PROVE  IInv' /\ Steps(promises')
<1>1. stack # <<>> /\ ~Top.frame /\ out \in Values /\ Exists(promises, out)
  BY DEF IInv, Controlled, Drain
<1>2. Top.kind = "reaction"
  BY <1>1, Unwinds DEF EntryOK
<1>3. PICK b \in BOOLEAN : b = FALSE
  OBVIOUS
<1>4. SettleReaction(World, Front(stack), Top.cap, out, b) /\ cells' = cells
  BY <1>3, Zenon DEF Drain
<1>5. IF b THEN out \in Reasons ELSE out \in Values /\ Exists(promises, out)
  BY <1>1, <1>3
<1> QED
  BY <1>1, <1>2, <1>4, <1>5, ReactionCompletes

LEMMA ReturnTryOK ==
  ASSUME IInv, NEW x \in Held, ReturnTry(x)
  PROVE  IInv' /\ Steps(promises')
<1>1. stack # <<>> /\ Top.kind = "try"
  BY Start DEF ReturnTry, Returning
<1>2. PICK p : p = Top.promise
  OBVIOUS
<1>3. Resolve(World, Front(stack), p, x, "static", p) /\ cells' = cells
  BY <1>2 DEF ReturnTry
<1>4. /\ Sound(World, Front(stack), cells, {p}) /\ p \in Promises
      /\ World.ps = promises /\ Steps(World.ps) /\ Shape(Front(stack))
  BY <1>1, <1>2, UnwindsHolding
<1>5. InCourse(promises, p, None)
  BY <1>1, <1>2, Unwinds DEF EntryOK
<1>6. World.ps[p].state = "pending" /\ Resolvable(promises, p)
  BY <1>4, <1>5 DEF InCourse, Resolvable
<1>7. x \in Values /\ Exists(World.ps, x) /\ p \in Values /\ Exists(World.ps, p)
  BY <1>4, <1>6, HeldOK DEF Values, Exists
<1>8. Outcome!Resolved(p, x) \subseteq Outcome!Successors(p)
  BY <1>4, <1>6, <1>7, Decides
<1> QED
  BY <1>3, <1>4, <1>6, <1>7, <1>8, Resolution

LEMMA ReturnGetterOK ==
  ASSUME IInv, NEW callable \in BOOLEAN, ReturnGetter(callable)
  PROVE  IInv' /\ Steps(promises')
<1>1. stack # <<>> /\ Top.kind = "resolution"
  BY Start DEF ReturnGetter, Returning
<1>2. PICK p, x, back : p = Top.promise /\ x = Top.value /\ back = Top.back
  OBVIOUS
<1>3. /\ Sound(World, Front(stack), cells, {p}) /\ p \in Promises
      /\ World.ps = promises /\ Steps(World.ps) /\ Shape(Front(stack))
  BY <1>1, <1>2, UnwindsHolding
<1>4. x \in Objects /\ InCourse(promises, p, Reading(x)) /\ back \in Values /\ Exists(World.ps, back)
  BY <1>1, <1>2, <1>3, Unwinds DEF EntryOK
<1>5. World.ps[p].state = "pending"
  BY <1>3, <1>4 DEF InCourse
<1>6. {LockedTo(x), [is |-> "fulfilled", of |-> x]} \subseteq Outcome!Successors(p)
  BY <1>3, <1>4, ReadingEnds
<1>7. cells' = cells /\ Proceed(Front(stack), back)
  BY <1>2 DEF ReturnGetter
<1>8. \E u : /\ Become(u) /\ Sound(u, Front(stack), cells, {p} \ {p}) /\ Later(World.ps, u.ps, p)
             /\ FateIn(u.ps, p) \in Outcome!Successors(p)
  <2>1. CASE callable
    <3>1. PICK u : u = Lock(World, p, x)
      OBVIOUS
    <3>2. Become(u)
      BY <1>2, <2>1, <3>1 DEF ReturnGetter
    <3>3. x \in Promises \cup Objects /\ Exists(World.ps, x)
      BY <1>4, CoursesDiffer DEF Exists
    <3>4. /\ Sound(u, Front(stack), cells, {p} \ {p}) /\ Later(World.ps, u.ps, p)
          /\ FateIn(u.ps, p) = LockedTo(x)
      BY <1>3, <1>5, <3>1, <3>3, Locks
    <3> QED
      BY <1>6, <3>2, <3>4
  <2>2. CASE ~callable
    <3>1. PICK u : u = Settle(World, p, "fulfilled", x)
      OBVIOUS
    <3>2. Become(u)
      BY <1>2, <2>2, <3>1 DEF ReturnGetter
    <3>3. Fits(x, "fulfilled")
      BY <1>4 DEF Fits, Settleable
    <3>4. /\ Sound(u, Front(stack), cells, {p} \ {p}) /\ Later(World.ps, u.ps, p)
          /\ FateIn(u.ps, p) = [is |-> "fulfilled", of |-> x]
      BY <1>3, <1>5, <3>1, <3>3, Settles
    <3> QED
      BY <1>6, <3>2, <3>4
  <2> QED
    BY <2>1, <2>2
<1>9. PICK u : /\ Become(u) /\ Sound(u, Front(stack), cells, {p} \ {p}) /\ Later(World.ps, u.ps, p)
               /\ FateIn(u.ps, p) \in Outcome!Successors(p)
  BY <1>8
<1>10. {p} \ {p} = {} /\ Steps(u.ps) /\ Exists(u.ps, back)
  BY <1>3, <1>4, <1>9, StepsOne, LaterExists
<1> QED
  BY <1>3, <1>4, <1>7, <1>9, <1>10, Returns

\* A throw rejects through resolving functions.
LEMMA Throwing ==
  ASSUME IInv, NEW c \in DOMAIN cells, ~cells[c].native, NEW e \in Reasons,
         NEW s, Sound(World, s, cells, {}), Shape(s), RejectThrough(c, e), Abandon(s)
  PROVE  IInv' /\ Steps(promises')
<1>1. World.ps = promises /\ Steps(World.ps)
  BY Start
<1>2. CASE cells[c].claimed
  <2>1. Become(World) /\ cells' = cells
    BY <1>2, Unmoved DEF RejectThrough, Claimable
  <2> QED
    BY <1>1, <2>1, Leaves
<1>3. CASE ~cells[c].claimed
  <2>1. PICK p : p = cells[c].promise
    OBVIOUS
  <2>2. PICK u : u = Settle(World, p, "rejected", e)
    OBVIOUS
  <2>3. Become(u) /\ cells' = Claimed(c)
    BY <1>3, <2>1, <2>2 DEF RejectThrough, Claimable
  <2>4. /\ Sound(World, s, Claimed(c), {p}) /\ p \in Promises /\ World.ps[p].state = "pending"
        /\ Resolvable(promises, p)
    BY <1>1, <1>3, <2>1, Claiming
  <2>5. [is |-> "rejected", of |-> e] \in Outcome!Successors(p)
    BY <2>4, Decides
  <2>6. Sound(u, s, Claimed(c), {}) /\ Steps(u.ps)
    BY <1>1, <2>2, <2>4, <2>5, Rejects
  <2> QED
    BY <2>3, <2>6, Leaves
<1> QED
  BY <1>2, <1>3

\* The reaction below a finally callback.
LEMMA BelowFinally ==
  ASSUME IInv, stack # <<>>, Top.kind = "finally", NEW cap, cap = Last(Front(stack)).cap
  PROVE  /\ Sound(World, Front(Front(stack)), cells, {cap} \cap Promises)
         /\ Shape(Front(Front(stack))) /\ cap \in Caps
         /\ cap \in Promises => InCourse(promises, cap, None) /\ Resolvable(promises, cap)
         /\ Front(stack) # <<>> /\ Shape(Front(stack)) /\ Sound(World, Front(stack), cells, {})
<1>1. /\ Shape(Front(stack)) /\ IsSeq(Front(stack)) /\ Front(stack) # <<>>
      /\ Last(Front(stack)).kind = "reaction" /\ Sound(World, Front(stack), cells, {})
      /\ World.ps = promises
  BY Unwinds, UnwindsBare, Start
<1>2. PICK H : H = {} /\ Good(World.ps, World.jobs, Front(stack), cells, H) /\ World = Both(World.ps, World.jobs)
  BY <1>1 DEF Sound
<1>3. PICK e : e = Last(Front(stack))
  OBVIOUS
<1>4. /\ Good(World.ps, World.jobs, Front(Front(stack)), cells, H \cup ({EntryTarget(e)} \cap Promises))
      /\ EntryOK(World.ps, cells, e)
  BY <1>1, <1>2, <1>3, Pops
<1>5. EntryTarget(e) = cap /\ cap \in Caps /\ (cap \in Promises => InCourse(promises, cap, None))
  BY <1>1, <1>3, <1>4 DEF EntryTarget, EntryOK
<1>6. H \cup ({EntryTarget(e)} \cap Promises) = {cap} \cap Promises
  BY <1>2, <1>5
<1>7. Sound(World, Front(Front(stack)), cells, {cap} \cap Promises)
  BY <1>2, <1>4, <1>6, Zenon DEF Sound
<1>8. Shape(Front(Front(stack)))
  BY <1>1, Lowered
<1> QED
  BY <1>1, <1>5, <1>7, <1>8 DEF Resolvable

LEMMA ThrowOK ==
  ASSUME IInv, NEW e \in Reasons, Throw(e)
  PROVE  IInv' /\ Steps(promises')
<1>1. stack # <<>> /\ World.ps = promises /\ Steps(World.ps)
  BY Start DEF Throw
<1>2. EntryOK(promises, cells, Top) /\ Shape(Front(stack))
  BY <1>1, Unwinds
<1>3. Sound(World, <<>>, cells, {}) /\ Shape(<<>>)
  BY Start, Nobody, Bare
<1>4. PICK b \in BOOLEAN : b = TRUE
  OBVIOUS
<1>5. CASE Top.kind = "entry"
  <2>1. Abandon(<<>>) /\ promises' = promises /\ jobs' = jobs /\ cells' = cells
    BY <1>5 DEF Throw
  <2> QED
    BY <1>1, <1>3, <2>1, Unmoved, Leaves
<1>6. CASE Top.kind = "capability"
  <2>1. Abandon(<<>>) /\ promises' = promises /\ jobs' = jobs /\ cells' = cells
    BY <1>6 DEF Throw
  <2> QED
    BY <1>1, <1>3, <2>1, Unmoved, Leaves
<1>7. CASE Top.kind \in {"executor", "thenable"}
  <2>1. RejectThrough(Top.cell, e) /\ Abandon(Front(stack))
    BY <1>7 DEF Throw
  <2>2. Top.cell \in DOMAIN cells /\ ~cells[Top.cell].native
    BY <1>2, <1>7 DEF EntryOK
  <2>3. Sound(World, Front(stack), cells, {})
    BY <1>1, <1>7, UnwindsBare
  <2> QED
    BY <1>2, <2>1, <2>2, <2>3, Throwing
<1>8. CASE Top.kind = "reaction"
  <2>1. SettleReaction(World, Front(stack), Top.cap, e, b) /\ cells' = cells
    <3>1. SettleReaction(World, Front(stack), Top.cap, e, TRUE) /\ cells' = cells
      BY <1>8 DEF Throw
    <3> QED
      BY <1>4, <3>1, Zenon
  <2>2. IF b THEN e \in Reasons ELSE e \in Values /\ Exists(promises, e)
    BY <1>4
  <2> QED
    BY <1>1, <1>8, <2>1, <2>2, ReactionCompletes
<1>9. CASE Top.kind = "finally"
  <2>1. PICK cap : cap = Last(Front(stack)).cap
    OBVIOUS
  <2>2. SettleReaction(World, Front(Front(stack)), cap, e, b) /\ cells' = cells
    <3>1. SettleReaction(World, Front(Front(stack)), cap, e, TRUE) /\ cells' = cells
      BY <1>9, <2>1 DEF Throw
    <3> QED
      BY <1>4, <3>1, Zenon
  <2>3. /\ Sound(World, Front(Front(stack)), cells, {cap} \cap Promises)
        /\ Shape(Front(Front(stack))) /\ cap \in Caps
        /\ cap \in Promises => InCourse(World.ps, cap, None) /\ Resolvable(promises, cap)
    BY <1>1, <1>9, <2>1, BelowFinally
  <2>4. IF b THEN e \in Reasons ELSE e \in Values /\ Exists(World.ps, e)
    BY <1>4
  <2> QED
    BY <1>1, <2>2, <2>3, <2>4, Completes
<1>10. CASE Top.kind \in {"try", "resolution"}
  <2>1. PICK p : p = Top.promise
    OBVIOUS
  <2>2. PICK u : u = Settle(World, p, "rejected", e)
    OBVIOUS
  <2>3. Become(u) /\ Abandon(Front(stack)) /\ cells' = cells
    BY <1>10, <2>1, <2>2 DEF Throw
  <2>4. Sound(World, Front(stack), cells, {p}) /\ p \in Promises
    BY <1>1, <1>10, <2>1, UnwindsHolding
  <2>5. World.ps[p].state = "pending" /\ [is |-> "rejected", of |-> e] \in Outcome!Successors(p)
    <3>1. CASE Top.kind = "try"
      <4>1. InCourse(promises, p, None)
        BY <1>2, <2>1, <3>1 DEF EntryOK
      <4> QED
        BY <1>1, <2>4, <4>1, Decides DEF Resolvable, InCourse
    <3>2. CASE Top.kind = "resolution"
      <4>1. PICK x \in Objects : InCourse(promises, p, Reading(x))
        BY <1>2, <2>1, <3>2 DEF EntryOK
      <4> QED
        BY <1>1, <2>4, <4>1, ReadingEnds DEF InCourse
    <3> QED
      BY <1>10, <3>1, <3>2
  <2>6. Sound(u, Front(stack), cells, {}) /\ Steps(u.ps)
    BY <1>1, <2>2, <2>4, <2>5, Rejects
  <2> QED
    BY <1>2, <2>3, <2>6, Leaves
<1> QED
  BY <1>2, <1>5, <1>6, <1>7, <1>8, <1>9, <1>10 DEF EntryOK
-----------------------------------------------------------------------------
(***************************************************************************)
(* Jobs.                                                                   *)
(***************************************************************************)
LEMMA Beginning ==
  ASSUME IInv, stack = <<>>, jobs # <<>>, NEW j, j = Head(jobs)
  PROVE  /\ Sound(Begun, <<>>, cells, {JobTarget(cells, j)} \cap Promises)
         /\ Begun.ps = promises /\ Steps(Begun.ps) /\ JobOK(promises, cells, j)
<1>1. Good(promises, jobs, <<>>, cells, {}) /\ Steps(promises)
  BY Start
<1>2. PICK H : H = {} /\ Good(promises, jobs, <<>>, cells, H)
  BY <1>1
<1>3. /\ Good(promises, Tail(jobs), <<>>, cells, H \cup ({JobTarget(cells, j)} \cap Promises))
      /\ JobOK(promises, cells, j)
  BY <1>2, Takes
<1>4. H \cup ({JobTarget(cells, j)} \cap Promises) = {JobTarget(cells, j)} \cap Promises
  BY <1>2
<1>5. Good(promises, Tail(jobs), <<>>, cells, {JobTarget(cells, j)} \cap Promises)
  BY <1>3, <1>4
<1>6. Begun = Both(promises, Tail(jobs))
  BY WorldIs
<1> QED
  BY <1>1, <1>3, <1>5, <1>6, SoundBoth

\* A native handler's reaction waits below the frame that it calls.
Waiting(cap) == [kind |-> "reaction", frame |-> FALSE, cap |-> cap]

LEMMA Waits ==
  ASSUME NEW w, NEW cs, NEW H, Sound(w, <<>>, cs, H), NEW cap \in Caps,
         cap \in Promises => cap \in H /\ InCourse(w.ps, cap, None),
         NEW s, s = <<Waiting(cap)>>
  PROVE  /\ Sound(w, s, cs, H \ {cap}) /\ Shape(s) /\ s # <<>> /\ Last(s).kind = "reaction"
<1>1. PICK e : e = Waiting(cap)
  OBVIOUS
<1>2. EntryOK(w.ps, cs, e) /\ EntryTarget(e) = cap /\ e.kind = "reaction"
  BY <1>1 DEF EntryOK, EntryTarget, Waiting
<1>3. Good(w.ps, w.jobs, <<>>, cs, H) /\ w = Both(w.ps, w.jobs)
  BY DEF Sound
<1>4. Good(w.ps, w.jobs, Append(<<>>, e), cs, H \ {cap})
  BY <1>2, <1>3, Stacks
<1>5. s = Append(<<>>, e)
  BY <1>1
<1>6. Shape(Append(<<>>, e)) /\ Append(<<>>, e) # <<>> /\ Last(Append(<<>>, e)) = e
  BY <1>2, Bare, Pushed, Appended
<1> QED
  BY <1>2, <1>3, <1>4, <1>5, <1>6, Zenon DEF Sound

\* The job's reaction settles its capability at once.
LEMMA JobCompletes ==
  ASSUME IInv, stack = <<>>, jobs # <<>>, NEW j, j = Head(jobs), j.kind = "reaction",
         j.handler.kind # "resolver", NEW b \in BOOLEAN, NEW x,
         x \in (IF b THEN Reasons ELSE Settleable),
         cells' = cells, SettleReaction(Begun, <<>>, j.cap, x, b)
  PROVE  IInv' /\ Steps(promises')
<1>1. /\ Sound(Begun, <<>>, cells, {JobTarget(cells, j)} \cap Promises)
      /\ Begun.ps = promises /\ Steps(Begun.ps) /\ JobOK(promises, cells, j)
  BY Beginning
<1>2. PICK cap : cap = j.cap
  OBVIOUS
<1>3. JobTarget(cells, j) = cap /\ cap \in Caps /\ (cap \in Promises => InCourse(promises, cap, None))
  BY <1>1, <1>2 DEF JobTarget, Target, JobOK
<1>4. cap \in Promises => InCourse(Begun.ps, cap, None) /\ Resolvable(promises, cap)
  BY <1>1, <1>3 DEF Resolvable
<1>5. IF b THEN x \in Reasons ELSE x \in Values /\ Exists(Begun.ps, x)
  BY CoursesDiffer DEF Settleable, Values, Exists
<1>6. Sound(Begun, <<>>, cells, {cap} \cap Promises) /\ SettleReaction(Begun, <<>>, cap, x, b)
  BY <1>1, <1>2, <1>3
<1> QED
  BY <1>1, <1>3, <1>4, <1>5, <1>6, Bare, Completes

LEMMA UserReactionOK ==
  ASSUME IInv, RunReaction, Head(jobs).handler.kind = "user"
  PROVE  IInv' /\ Steps(promises')
<1>1. PICK j : j = Head(jobs)
  OBVIOUS
<1>2. stack = <<>> /\ jobs # <<>> /\ j.kind = "reaction" /\ j.handler.kind = "user"
  BY <1>1 DEF RunReaction, Begin
<1>3. PICK e : e = [(<<Waiting(j.cap)>>)[1] EXCEPT !.frame = TRUE]
  OBVIOUS
<1>4. Become(Begun) /\ Call(<<>>, e) /\ cells' = cells
  BY <1>1, <1>2, <1>3, Zenon DEF RunReaction, Waiting
<1>5. /\ Sound(Begun, <<>>, cells, {JobTarget(cells, j)} \cap Promises)
      /\ Begun.ps = promises /\ Steps(Begun.ps) /\ JobOK(promises, cells, j)
  BY <1>1, <1>2, Beginning
<1>6. PICK cap : cap = j.cap
  OBVIOUS
<1>7. JobTarget(cells, j) = cap /\ cap \in Caps /\ (cap \in Promises => InCourse(promises, cap, None))
  BY <1>2, <1>5, <1>6 DEF JobTarget, Target, JobOK
<1>8. PICK H : H = {cap} \cap Promises /\ Sound(Begun, <<>>, cells, H)
  BY <1>5, <1>7
<1>9. /\ EntryOK(Begun.ps, cells, e) /\ e.frame = TRUE /\ e.kind # "finally" /\ EntryTarget(e) = cap
  <2>1. e.kind = "reaction" /\ e.frame = TRUE /\ e.cap = cap
    BY <1>3, <1>6 DEF Waiting
  <2> QED
    BY <1>5, <1>7, <2>1 DEF EntryOK, EntryTarget
<1>10. (cap \in H \/ cap \notin Promises) /\ H \subseteq {cap}
  BY <1>8
<1> QED
  BY <1>4, <1>5, <1>8, <1>9, <1>10, Bare, Invokes

LEMMA FinallyReactionOK ==
  ASSUME IInv, RunReaction, Head(jobs).handler.kind = "finally"
  PROVE  IInv' /\ Steps(promises')
<1>1. PICK j : j = Head(jobs)
  OBVIOUS
<1>2. stack = <<>> /\ jobs # <<>> /\ j.kind = "reaction" /\ j.handler.kind = "finally"
  BY <1>1 DEF RunReaction, Begin
<1>3. PICK s : s = <<Waiting(j.cap)>>
  OBVIOUS
<1>4. PICK e : e = [kind |-> "finally", frame |-> TRUE, original |-> j.argument,
                    rejected |-> j.handler.rejected]
  OBVIOUS
<1>5. Become(Begun) /\ Call(s, e) /\ cells' = cells
  BY <1>1, <1>2, <1>3, <1>4, Zenon DEF RunReaction, Waiting
<1>6. /\ Sound(Begun, <<>>, cells, {JobTarget(cells, j)} \cap Promises)
      /\ Begun.ps = promises /\ Steps(Begun.ps) /\ JobOK(promises, cells, j)
  BY <1>1, <1>2, Beginning
<1>7. PICK cap : cap = j.cap
  OBVIOUS
<1>8. JobTarget(cells, j) = cap /\ cap \in Caps /\ (cap \in Promises => InCourse(promises, cap, None))
  BY <1>2, <1>6, <1>7 DEF JobTarget, Target, JobOK
<1>9. PICK H : H = {cap} \cap Promises /\ Sound(Begun, <<>>, cells, H)
  BY <1>6, <1>8
<1>10. Sound(Begun, s, cells, H \ {cap}) /\ Shape(s) /\ s # <<>> /\ Last(s).kind = "reaction"
  BY <1>3, <1>6, <1>7, <1>8, <1>9, Waits
<1>11. Sound(Begun, s, cells, {})
  <2>1. H \ {cap} = {}
    BY <1>9
  <2> QED
    BY <1>10, <2>1
<1>12. /\ j.handler.rejected = j.rejected /\ j.rejected \in BOOLEAN
       /\ j.argument \in (IF j.rejected THEN Reasons ELSE Settleable)
  BY <1>2, <1>6 DEF JobOK, HandlerOK
<1>13. /\ EntryOK(Begun.ps, cells, e) /\ e.frame = TRUE /\ EntryTarget(e) \notin Promises
  BY <1>4, <1>12, Capabilities DEF EntryOK, EntryTarget
<1> QED
  BY <1>5, <1>6, <1>10, <1>11, <1>13, InvokesBare

\* An adoption: native resolving functions decide a promise that is locked to q.
LEMMA ResolverReactionOK ==
  ASSUME IInv, RunReaction, Head(jobs).handler.kind = "resolver"
  PROVE  IInv' /\ Steps(promises')
<1>1. PICK j : j = Head(jobs)
  OBVIOUS
<1>2. stack = <<>> /\ jobs # <<>> /\ j.kind = "reaction" /\ j.handler.kind = "resolver"
  BY <1>1 DEF RunReaction, Begin
<1>3. /\ Sound(Begun, <<>>, cells, {JobTarget(cells, j)} \cap Promises)
      /\ Begun.ps = promises /\ Steps(Begun.ps) /\ JobOK(promises, cells, j)
  BY <1>1, <1>2, Beginning
<1>4. PICK c, p, x, b : c = j.handler.cell /\ p = cells[c].promise /\ x = j.argument /\ b = j.handler.reject
  OBVIOUS
<1>5. /\ c \in DOMAIN cells /\ cells[c].native /\ ~cells[c].claimed /\ j.cap = Hidden
      /\ j.rejected \in BOOLEAN /\ b = j.rejected /\ x \in (IF b THEN Reasons ELSE Settleable)
  BY <1>2, <1>3, <1>4 DEF JobOK, HandlerOK
<1>6. JobTarget(cells, j) = p /\ Target(cells, j) = p
  BY <1>2, <1>4 DEF JobTarget, Target
<1>7. PICK q \in Promises : InCourse(promises, p, LockedTo(q)) /\ Settlement(promises, q, x, b)
  BY <1>2, <1>3, <1>4, <1>5, <1>6 DEF JobOK
<1>8. p \in Promises /\ promises[p].state = "pending" /\ Begun.ps[p].state = "pending"
  <2>1. CellOK(promises, cells[c])
    BY <1>5, Start DEF Good, Content
  <2> QED
    BY <1>3, <1>4, <1>7, <2>1 DEF CellOK, InCourse
<1>9. Sound(Begun, <<>>, Claimed(c), {p})
  <2>1. PICK H : H = {p} /\ Good(Begun.ps, Begun.jobs, <<>>, cells, H) /\ Begun = Both(Begun.ps, Begun.jobs)
    <3>1. {JobTarget(cells, j)} \cap Promises = {p}
      BY <1>6, <1>8
    <3> QED
      BY <1>3, <3>1 DEF Sound
  <2>2. Claimed(c) = [cells EXCEPT ![c].claimed = TRUE] /\ (cells[c].native => p \in H)
    BY <2>1 DEF Claimed
  <2>3. Good(Begun.ps, Begun.jobs, <<>>, Claimed(c), H \cup {p})
    BY <1>4, <1>5, <1>8, <2>1, <2>2, Claims
  <2>4. H \cup {p} = {p}
    BY <2>1
  <2> QED
    BY <2>1, <2>3, <2>4, Zenon DEF Sound
<1>10. cells' = Claimed(c)
  BY <1>1, <1>2, <1>4, Zenon DEF RunReaction
<1>11. CASE b
  <2>1. PICK u : u = Settle(Begun, p, "rejected", x)
    OBVIOUS
  <2>2. Become(u) /\ Proceed(<<>>, Undefined)
    BY <1>1, <1>2, <1>4, <1>11, <2>1, Zenon DEF RunReaction
  <2>3. x \in Reasons /\ promises[q].state = "rejected" /\ promises[q].result = x
    BY <1>5, <1>7, <1>11 DEF Settlement
  <2>4. [is |-> "rejected", of |-> x] \in Outcome!Successors(p)
    BY <1>7, <1>8, <2>3, Adopts
  <2>5. Sound(u, <<>>, Claimed(c), {}) /\ Steps(u.ps)
    BY <1>3, <1>8, <1>9, <2>1, <2>3, <2>4, Rejects
  <2> QED
    BY <1>10, <2>2, <2>5, Bare, Nothing, Returns
<1>12. CASE ~b
  <2>1. PICK e : e = [kind |-> "resolution", frame |-> TRUE, promise |-> p, value |-> x,
                      mode |-> "call", back |-> Undefined]
    OBVIOUS
  <2>2. PICK s : s = <<Waiting(j.cap)>>
    OBVIOUS
  <2>3. PICK o \in Lookups(Begun, p, x) :
          /\ Become(o.w)
          /\ o.getter = TRUE => Call(s, e)
          /\ o.getter = FALSE => Proceed(<<>>, Undefined)
    <3>1. \E o \in Lookups(Begun, p, x) :
            /\ Become(o.w)
            /\ IF o.getter THEN active' = TRUE /\ Call(s, e)
               ELSE Proceed(<<>>, Undefined) /\ active' = FALSE
      BY <1>1, <1>2, <1>4, <1>12, <2>1, <2>2, Zenon DEF RunReaction, Waiting
    <3> QED
      BY <3>1, Zenon
  <2>4. x \in Values /\ Exists(Begun.ps, x) /\ x \in Settleable
    BY <1>5, <1>12, CoursesDiffer DEF Settleable, Values, Exists
  <2>5. Found(Begun, <<>>, Claimed(c), {p}, p, x, o)
    BY <1>8, <1>9, <2>3, <2>4, Looked
  <2>6. Outcome!Resolved(p, x) \subseteq Outcome!Successors(p)
    <3>1. promises[q].state = "fulfilled" /\ promises[q].result = x
      BY <1>7, <1>12 DEF Settlement
    <3> QED
      BY <1>7, <1>8, <3>1, Adopts
  <2>7. PICK u : u = o.w
    OBVIOUS
  <2>8. Later(Begun.ps, u.ps, p) /\ Steps(u.ps)
    BY <1>3, <2>5, <2>6, <2>7, StepsOne DEF Found
  <2>9. CASE o.getter = FALSE
    <3>1. Sound(u, <<>>, Claimed(c), {}) /\ Become(u) /\ Proceed(<<>>, Undefined)
      BY <2>3, <2>5, <2>7, <2>9 DEF Found
    <3> QED
      BY <1>10, <2>8, <3>1, Bare, Nothing, Returns
  <2>10. CASE o.getter = TRUE
    <3>1. /\ Sound(u, <<>>, Claimed(c), {p}) /\ x \in Objects /\ InCourse(u.ps, p, Reading(x))
          /\ Become(u) /\ Call(s, e)
      BY <2>3, <2>5, <2>7, <2>10 DEF Found
    <3>2. Hidden \in Caps /\ Hidden \notin Promises
      BY Capabilities DEF Caps
    <3>3. PICK H : H = {p} /\ Sound(u, <<>>, Claimed(c), H)
      BY <3>1
    <3>4. Sound(u, s, Claimed(c), H \ {Hidden}) /\ Shape(s)
      BY <1>5, <2>2, <3>2, <3>3, Waits
    <3>5. H \ {Hidden} = H /\ p \in H /\ H \subseteq {p}
      BY <1>8, <3>2, <3>3
    <3>6. Sound(u, s, Claimed(c), H)
      BY <3>4, <3>5
    <3>7. EntryOK(u.ps, Claimed(c), e) /\ EntryTarget(e) = p /\ e.frame = TRUE /\ e.kind # "finally"
      BY <1>8, <2>1, <3>1, Nothing DEF EntryOK, EntryTarget
    <3> QED
      BY <1>10, <2>8, <3>1, <3>4, <3>5, <3>6, <3>7, Invokes
  <2> QED
    BY <2>5, <2>9, <2>10 DEF Found
<1> QED
  BY <1>5, <1>11, <1>12

LEMMA RunReactionOK ==
  ASSUME IInv, RunReaction
  PROVE  IInv' /\ Steps(promises')
<1>1. PICK j : j = Head(jobs)
  OBVIOUS
<1>2. stack = <<>> /\ jobs # <<>> /\ j.kind = "reaction"
  BY <1>1 DEF RunReaction, Begin
<1>3. JobOK(promises, cells, j)
  BY <1>1, <1>2, Beginning
<1>4. CASE j.handler.kind = "none"
  <2>1. PICK b, x : b = j.rejected /\ x = j.argument
    OBVIOUS
  <2>2. SettleReaction(Begun, <<>>, j.cap, x, b) /\ cells' = cells
    BY <1>1, <1>4, <2>1, Zenon DEF RunReaction
  <2>3. b \in BOOLEAN /\ x \in (IF b THEN Reasons ELSE Settleable)
    BY <1>2, <1>3, <2>1 DEF JobOK
  <2> QED
    BY <1>1, <1>2, <1>4, <2>2, <2>3, JobCompletes
<1>5. CASE j.handler.kind = "thunk"
  <2>1. PICK b, x : b = j.handler.rejected /\ x = j.handler.value
    OBVIOUS
  <2>2. SettleReaction(Begun, <<>>, j.cap, x, b) /\ cells' = cells
    BY <1>1, <1>5, <2>1, Zenon DEF RunReaction
  <2>3. b \in BOOLEAN /\ x \in (IF b THEN Reasons ELSE Settleable)
    BY <1>2, <1>3, <1>5, <2>1 DEF JobOK, HandlerOK
  <2> QED
    BY <1>1, <1>2, <1>5, <2>2, <2>3, JobCompletes
<1>6. j.handler.kind \in {"none", "user", "resolver", "finally", "thunk"}
  BY <1>2, <1>3 DEF JobOK, HandlerOK
<1> QED
  BY <1>1, <1>4, <1>5, <1>6, UserReactionOK, FinallyReactionOK, ResolverReactionOK

\* A capability that nobody resolves any more is not locked to anything.
LEMMA LetGo ==
  ASSUME NEW w, NEW st, NEW cs, NEW cap, Sound(w, st, cs, {cap} \cap Promises),
         cap \in Promises => InCourse(w.ps, cap, None)
  PROVE  Sound(w, st, cs, {})
<1>1. /\ w = Both(w.ps, w.jobs) /\ Content(w.ps, w.jobs, st, cs)
      /\ Holding(w.ps, w.jobs, st, cs, {cap} \cap Promises)
  BY DEF Sound, Good
<1>2. ASSUME NEW p \in Promises, NEW q \in Promises, InCourse(w.ps, p, LockedTo(q))
      PROVE  p \notin {cap} \cap Promises
  BY <1>2, CoursesDiffer DEF InCourse, LockedTo
<1>3. Holding(w.ps, w.jobs, st, cs, {})
  BY <1>1, <1>2 DEF Holding
<1> QED
  BY <1>1, <1>3 DEF Sound, Good

LEMMA HandlerFailsOK ==
  ASSUME IInv, HandlerFails
  PROVE  IInv' /\ Steps(promises')
<1>1. PICK j : j = Head(jobs)
  OBVIOUS
<1>2. /\ stack = <<>> /\ ctl # "drain" /\ jobs # <<>> /\ j.kind = "reaction"
      /\ j.handler.kind \in {"user", "finally"}
      /\ Become(Begun) /\ cells' = cells /\ stack' = stack /\ ctl' = ctl /\ out' = out
  BY <1>1 DEF HandlerFails, Begin
<1>3. /\ Sound(Begun, <<>>, cells, {JobTarget(cells, j)} \cap Promises)
      /\ Begun.ps = promises /\ Steps(Begun.ps) /\ JobOK(promises, cells, j)
  BY <1>1, <1>2, Beginning
<1>4. PICK cap : cap = j.cap
  OBVIOUS
<1>5. JobTarget(cells, j) = cap /\ (cap \in Promises => InCourse(promises, cap, None))
  BY <1>2, <1>3, <1>4 DEF JobTarget, Target, JobOK
<1>6. Sound(Begun, <<>>, cells, {})
  BY <1>3, <1>5, LetGo
<1>7. Controlled
  BY DEF IInv
<1> QED
  BY <1>2, <1>3, <1>6, <1>7, Stays

\* The thenable job that begins, and its promise in hand.
LEMMA ThenableBegins ==
  ASSUME IInv, Begin("thenable"), NEW j, j = Head(jobs)
  PROVE  /\ j.promise \in Promises /\ j.thenable \in Promises \cup Objects
         /\ Sound(Begun, <<>>, cells, {j.promise}) /\ Begun.ps = promises /\ Steps(Begun.ps)
         /\ InCourse(promises, j.promise, LockedTo(j.thenable)) /\ Exists(promises, j.thenable)
         /\ stack = <<>> /\ ctl # "drain"
<1>1. stack = <<>> /\ jobs # <<>> /\ j.kind = "thenable" /\ ctl # "drain"
  BY DEF Begin
<1>2. /\ Sound(Begun, <<>>, cells, {JobTarget(cells, j)} \cap Promises)
      /\ Begun.ps = promises /\ Steps(Begun.ps) /\ JobOK(promises, cells, j)
  BY <1>1, Beginning
<1>3. /\ j.promise \in Promises /\ j.thenable \in Promises \cup Objects /\ JobTarget(cells, j) = j.promise
      /\ InCourse(promises, j.promise, LockedTo(j.thenable)) /\ Exists(promises, j.thenable)
  BY <1>1, <1>2 DEF JobOK, JobTarget
<1>4. {JobTarget(cells, j)} \cap Promises = {j.promise}
  BY <1>3
<1> QED
  BY <1>1, <1>2, <1>3, <1>4

LEMMA ThenableFailsOK ==
  ASSUME IInv, ThenableFails
  PROVE  IInv' /\ Steps(promises')
<1>1. PICK j : j = Head(jobs)
  OBVIOUS
<1>2. PICK p, x : p = j.promise /\ x = j.thenable
  OBVIOUS
<1>3. PICK u : u = Settle(Begun, p, "rejected", TypeError)
  OBVIOUS
<1>4. /\ Begin("thenable") /\ x \notin Promises /\ Become(u) /\ cells' = cells /\ stack' = stack
      /\ ctl' = ctl /\ out' = out
  BY <1>1, <1>2, <1>3 DEF ThenableFails
<1>5. /\ p \in Promises /\ x \in Objects /\ Sound(Begun, <<>>, cells, {p}) /\ Begun.ps = promises
      /\ Steps(Begun.ps) /\ InCourse(promises, p, LockedTo(x)) /\ stack = <<>> /\ ctl # "drain"
  BY <1>1, <1>2, <1>4, ThenableBegins
<1>6. Begun.ps[p].state = "pending" /\ Resolvable(promises, p)
  BY <1>5 DEF InCourse, Resolvable
<1>7. TypeError \in Reasons /\ [is |-> "rejected", of |-> TypeError] \in Outcome!Successors(p)
  BY <1>5, <1>6, Decides, ValuesAssumption
<1>8. Sound(u, <<>>, cells, {}) /\ Steps(u.ps)
  BY <1>3, <1>5, <1>6, <1>7, Rejects
<1>9. Controlled
  BY DEF IInv
<1> QED
  BY <1>4, <1>5, <1>8, <1>9, Stays

\* The cell of a thenable job that begins.
LEMMA ThenablePairs ==
  ASSUME IInv, Begin("thenable"), NEW j, j = Head(jobs),
         NEW b \in BOOLEAN, b = TRUE <=> j.thenable \in Promises, NewCell(j.promise, b)
  PROVE  \E cs : /\ cells' = cs /\ Len(cells) + 1 \in DOMAIN cs
                 /\ cs[Len(cells) + 1] = [promise |-> j.promise, claimed |-> FALSE, native |-> b]
                 /\ Sound(Begun, <<>>, cs, IF b THEN {j.promise} ELSE {})
<1>1. PICK p : p = j.promise
  OBVIOUS
<1>2. PICK c : c = [promise |-> p, claimed |-> FALSE, native |-> b]
  OBVIOUS
<1>3. /\ p \in Promises /\ j.thenable \in Promises \cup Objects
      /\ Sound(Begun, <<>>, cells, {p}) /\ Begun.ps = promises
      /\ InCourse(promises, p, LockedTo(j.thenable)) /\ IsSeq(cells)
  BY <1>1, ThenableBegins, Start
<1>4. PICK cs : cells' = cs /\ Paired(cells, c, cs)
  BY <1>1, <1>2 DEF NewCell, Paired
<1>5. Begun = Both(Begun.ps, Begun.jobs) /\ Good(Begun.ps, Begun.jobs, <<>>, cells, {p})
  BY <1>3 DEF Sound
<1>6. PICK H : H = {p} /\ Good(Begun.ps, Begun.jobs, <<>>, cells, H)
  BY <1>5
<1>7. CellOK(Begun.ps, c)
  <2>1. b = FALSE => j.thenable \in Objects
    BY <1>3
  <2> QED
    BY <1>2, <1>3, <2>1 DEF CellOK, InCourse
<1>8. PICK t : t = CellTarget(c)
  OBVIOUS
<1>9. t = (IF b THEN Hidden ELSE p) /\ (t \in H \/ t \notin Promises)
  BY <1>2, <1>6, <1>8, Capabilities DEF CellTarget
<1>10. Good(Begun.ps, Begun.jobs, <<>>, cs, H \ {t}) /\ Len(cells) + 1 \in DOMAIN cs
  BY ONLY <1>4, <1>6, <1>7, <1>8, <1>9, NewPair
<1>11. cs[Len(cells) + 1] = c
  <2>1. cs = Append(cells, c) /\ Append(cells, c)[Len(cells) + 1] = c
    BY <1>3, <1>4, Appended DEF Paired
  <2> QED
    BY <2>1, Zenon
<1>12. H \ {t} = IF b THEN {p} ELSE {}
  BY <1>3, <1>6, <1>9, Capabilities
<1>13. Sound(Begun, <<>>, cs, IF b THEN {p} ELSE {})
  BY <1>5, <1>10, <1>12, Zenon DEF Sound
<1> QED
  BY <1>1, <1>2, <1>4, <1>10, <1>11, <1>13, Zenon

LEMMA RunThenableOK ==
  ASSUME IInv, RunThenable
  PROVE  IInv' /\ Steps(promises')
<1>1. PICK j : j = Head(jobs)
  OBVIOUS
<1>2. PICK n : n = Len(cells) + 1
  OBVIOUS
<1>3. PICK p, q : p = j.promise /\ q = j.thenable
  OBVIOUS
<1>4. Begin("thenable") /\ NewCell(p, q \in Promises)
  BY <1>1, <1>3, Zenon DEF RunThenable
<1>5. /\ p \in Promises /\ q \in Promises \cup Objects /\ Begun.ps = promises /\ Steps(Begun.ps)
      /\ InCourse(promises, p, LockedTo(q)) /\ Exists(promises, q) /\ stack = <<>>
  BY <1>1, <1>3, <1>4, ThenableBegins
<1>6. CASE q \in Promises
  <2>1. PICK b \in BOOLEAN : b = TRUE
    OBVIOUS
  <2>2. NewCell(p, b)
    BY <1>4, <1>6, <2>1, Zenon
  <2>3. PICK cs : /\ cells' = cs /\ n \in DOMAIN cs
                  /\ cs[n] = [promise |-> p, claimed |-> FALSE, native |-> b]
                  /\ Sound(Begun, <<>>, cs, IF b THEN {p} ELSE {})
    BY <1>1, <1>2, <1>3, <1>4, <1>6, <2>1, <2>2, ThenablePairs
  <2>4. cs[n].promise = p /\ ~cs[n].claimed /\ cs[n].native
    BY <2>1, <2>3
  <2>5. PICK H : H = {p} /\ Sound(Begun, <<>>, cs, H)
    BY <2>1, <2>3
  <2>6. PICK h, k : h = Resolver(n, FALSE) /\ k = Resolver(n, TRUE)
    OBVIOUS
  <2>7. HandlerOK(cs, h, FALSE) /\ HandlerOK(cs, k, TRUE)
    BY <2>3, <2>4, <2>6 DEF HandlerOK, Resolver
  <2>8. h.kind = "resolver" /\ k.kind = "resolver" /\ h.cell = n /\ k.cell = n
    BY <2>6 DEF Resolver
  <2>9. PICK f, g : /\ f = [handler |-> h, cap |-> Hidden, id |-> 0]
                    /\ g = [handler |-> k, cap |-> Hidden, id |-> 0]
    OBVIOUS
  <2>10. f.handler = h /\ f.cap = Hidden /\ g.handler = k /\ g.cap = Hidden
    BY <2>9
  <2>11. Target(cs, f) = p /\ Target(cs, g) = p
    BY <2>4, <2>8, <2>10 DEF Target
  <2>12. ReactionOK(Begun.ps, cs, q, f, FALSE) /\ ReactionOK(Begun.ps, cs, q, g, TRUE)
    BY <1>5, <2>7, <2>8, <2>10, <2>11, Zenon DEF ReactionOK, Caps
  <2>13. PairOK(Begun.ps, cs, q, f, g)
    BY <2>8, <2>10, <2>12, Zenon DEF PairOK
  <2>14. PICK u : u = Attach(Begun, q, h, k, Hidden, 0)
    OBVIOUS
  <2>15. Become(u) /\ Proceed(<<>>, Undefined)
    BY <1>1, <1>2, <1>3, <1>6, <2>6, <2>14, Zenon DEF RunThenable
  <2>16. Begun.ps[q].state # "free" /\ p \in H
    BY <1>5, <1>6, <2>5 DEF Exists
  <2>17. Sound(u, <<>>, cs, H \ {p}) /\ \A a \in Promises : Same(Begun.ps, u.ps, a)
    BY <1>6, <2>5, <2>9, <2>11, <2>13, <2>14, <2>16, Attaches
  <2>18. H \ {p} = {} /\ Steps(u.ps)
    BY <1>5, <2>5, <2>17, StepsSame
  <2>19. Sound(u, <<>>, cs, {})
    BY <2>17, <2>18
  <2> QED
    BY <2>3, <2>15, <2>18, <2>19, Bare, Nothing, Returns
<1>7. CASE q \notin Promises
  <2>1. PICK b \in BOOLEAN : b = FALSE
    OBVIOUS
  <2>2. NewCell(p, b)
    <3>1. (q \in Promises) = b
      BY <1>7, <2>1
    <3> QED
      BY <1>4, <3>1, Zenon
  <2>3. PICK cs : /\ cells' = cs /\ n \in DOMAIN cs
                  /\ cs[n] = [promise |-> p, claimed |-> FALSE, native |-> b]
                  /\ Sound(Begun, <<>>, cs, IF b THEN {p} ELSE {})
    BY <1>1, <1>2, <1>3, <1>4, <1>7, <2>1, <2>2, ThenablePairs
  <2>4. ~cs[n].native /\ Sound(Begun, <<>>, cs, {})
    BY <2>1, <2>3
  <2>5. PICK e : e = [kind |-> "thenable", frame |-> TRUE, cell |-> n]
    OBVIOUS
  <2>6. Become(Begun) /\ Call(<<>>, e)
    BY <1>1, <1>2, <1>3, <1>7, <2>5, Zenon DEF RunThenable
  <2>7. /\ EntryOK(Begun.ps, cs, e) /\ e.frame = TRUE /\ e.kind # "finally"
        /\ EntryTarget(e) \notin Promises
    BY <2>3, <2>4, <2>5, Capabilities DEF EntryOK, EntryTarget
  <2> QED
    BY <1>5, <2>3, <2>4, <2>6, <2>7, Bare, InvokesBare
<1> QED
  BY <1>6, <1>7
-----------------------------------------------------------------------------
(***************************************************************************)
(* The return of a finally callback: two promises in one step.             *)
(***************************************************************************)
\* A promise is created while others are in hand.
LEMMA Brings ==
  ASSUME NEW w, NEW st, NEW cs, NEW H, Sound(w, st, cs, H), Steps(w.ps),
         NEW p \in Promises, Fresh(w, p), promises[p].state = "free",
         NEW u, u = Create(w, p, Pending)
  PROVE  /\ Sound(u, st, cs, H \cup {p}) /\ Later(w.ps, u.ps, p) /\ InCourse(u.ps, p, None)
         /\ Steps(u.ps) /\ w.ps[p].state = "free"
<1>1. PromiseOK(Pending) /\ Pending.state = "pending" /\ Pending.fulfil = <<>> /\ Pending.course = None
  BY PendingIs
<1>2. PICK G : G = H \cup {p}
  OBVIOUS
<1>3. Sound(u, st, cs, G) /\ Later(w.ps, u.ps, p) /\ u.ps[p] = Pending /\ w.ps[p].state = "free"
  BY <1>1, <1>2, Opens, Z3
<1>4. InCourse(u.ps, p, None)
  BY <1>1, <1>3 DEF InCourse
<1>5. FateIn(u.ps, p) = [is |-> "open"] /\ [is |-> "open"] \in Outcome!Successors(p)
  BY <1>4, FateCases, AbsentOpens
<1>6. Steps(u.ps)
  BY <1>3, <1>5, StepsOne
<1> QED
  BY <1>2, <1>3, <1>4, <1>6

\* d is derived from q by a thunk.
LEMMA Mapped ==
  ASSUME NEW w, NEW st, NEW cs, NEW H, Sound(w, st, cs, H), Steps(w.ps),
         NEW d \in Promises, Fresh(w, d), d \notin H, promises[d].state = "free",
         NEW q \in Promises, w.ps[q].state # "free", NEW h, PlainHandler(h, FALSE),
         NEW u, u = Attach(Create(w, d, Pending), q, h, NoHandler, d, 0)
  PROVE  Sound(u, st, cs, H) /\ Steps(u.ps) /\ Later(w.ps, u.ps, d)
<1>1. PICK v : v = Create(w, d, Pending)
  OBVIOUS
<1>2. PICK G : G = H \cup {d}
  OBVIOUS
<1>3. Sound(v, st, cs, G) /\ Later(w.ps, v.ps, d) /\ InCourse(v.ps, d, None) /\ Steps(v.ps)
  BY <1>1, <1>2, Brings
<1>4. v.ps[q].state # "free"
  BY <1>3 DEF Later, Same
<1>5. PICK k : k = NoHandler /\ PlainHandler(k, TRUE)
  BY Handlers
<1>6. d \in Caps /\ d \in G
  BY <1>2 DEF Caps
<1>7. u = Attach(v, q, h, k, d, 0)
  BY <1>1, <1>5, Zenon
<1>8. Sound(u, st, cs, G \ {d}) /\ \A p \in Promises : Same(v.ps, u.ps, p)
  BY <1>3, <1>4, <1>5, <1>6, <1>7, Reacts
<1>9. G \ {d} = H
  BY <1>2
<1>10. Later(w.ps, u.ps, d)
  BY <1>3, <1>8 DEF Later, Same
<1> QED
  BY <1>3, <1>8, <1>9, <1>10, StepsSame, Zenon

\* After a fresh promise comes the next one.
LEMMA NextFresh ==
  ASSUME NEW ps, Table(ps), NEW q \in Promises, ps[q].state = "free", Preceded(ps, q),
         NEW d, d = q + 1, d \in Promises, NEW w, Later(ps, w.ps, q)
  PROVE  Fresh(w, d) /\ ps[d].state = "free" /\ w.ps[d].state = "free"
<1>1. q \in Int /\ d \in Int /\ q < d /\ q # d
  BY Numbers
<1>2. ps[d].state = "free"
  BY <1>1 DEF Table
<1>3. w.ps[d].state = "free"
  BY <1>1, <1>2 DEF Later, Same
<1>4. \A a \in 1..d-1 : w.ps[a].state # "free"
  <2>1. SUFFICES ASSUME NEW a \in 1..d-1 PROVE w.ps[a].state # "free"
    OBVIOUS
  <2>2. a \in Promises /\ (a = q \/ a < q)
    BY <1>1, BoundsAssumption DEF Promises
  <2>3. CASE a = q
    BY <2>3 DEF Later
  <2>4. CASE a < q
    BY <1>1, <2>2, <2>4 DEF Preceded, Later, Same
  <2> QED
    BY <2>2, <2>3, <2>4
<1> QED
  BY <1>2, <1>3, <1>4 DEF Fresh

\* The callback's result as a promise q, and d derived from it.
AllPending(H) == \A a \in H : promises[a].state = "pending"
Wraps(u, s, H, q, d, x, o) ==
  /\ Steps(u.ps) /\ u.ps[d].state # "free" /\ \A a \in H : Same(promises, u.ps, a)
  /\ \/ o.getter = FALSE /\ Sound(u, s, cells, H)
     \/ /\ o.getter = TRUE /\ Sound(u, s, cells, H \cup {q})
        /\ x \in Objects /\ InCourse(u.ps, q, Reading(x))

LEMMA Wrapped ==
  ASSUME IInv, NEW s, NEW H, Sound(World, s, cells, H), AllPending(H),
         NEW q \in Promises, Fresh(World, q), NEW d \in Promises, d = q + 1,
         NEW x \in Held, NEW o \in Lookups(Create(World, q, Pending), q, x),
         NEW h, PlainHandler(h, FALSE),
         NEW u, u = Attach(Create(o.w, d, Pending), q, h, NoHandler, d, 0)
  PROVE  Wraps(u, s, H, q, d, x, o)
<1>1. PICK v : v = Create(World, q, Pending)
  OBVIOUS
<1>2. World.ps = promises /\ Steps(promises) /\ Table(promises)
  BY Start DEF Good, Content
<1>3. promises[q].state = "free" /\ Preceded(promises, q) /\ Resolvable(promises, q)
  BY <1>1, Opening
<1>4. PICK G : G = H \cup {q}
  OBVIOUS
<1>5. /\ Sound(v, s, cells, G) /\ Later(promises, v.ps, q) /\ InCourse(v.ps, q, None)
      /\ Steps(v.ps)
  BY <1>1, <1>2, <1>3, <1>4, Brings
<1>6. x \in Values /\ Exists(v.ps, x) /\ q \in G /\ v.ps[q].state = "pending"
  BY <1>4, <1>5, HeldOK, LaterExists DEF InCourse
<1>7. Found(v, s, cells, G, q, x, o)
  BY <1>1, <1>5, <1>6, Looked
<1>8. PICK y : y = o.w
  OBVIOUS
<1>9. Later(v.ps, y.ps, q) /\ FateIn(y.ps, q) \in Outcome!Successors(q)
  BY <1>3, <1>6, <1>7, <1>8, Decides DEF Found
<1>10. Later(promises, y.ps, q) /\ Steps(y.ps) /\ y.ps[q].state # "free"
  <2>1. Later(promises, y.ps, q) /\ y.ps[q].state # "free"
    BY <1>5, <1>9 DEF Later, Same
  <2>2. Steps(y.ps)
    BY <1>5, <1>9, StepsOne
  <2> QED
    BY <2>1, <2>2
<1>11. Fresh(y, d) /\ promises[d].state = "free" /\ d # q
  <2>1. Fresh(y, d) /\ promises[d].state = "free"
    BY <1>2, <1>3, <1>10, NextFresh
  <2> QED
    BY <2>1, Numbers
<1>12. H \subseteq Promises
  BY DEF Sound, Good, Holding
<1>13. d \notin H /\ q \notin H /\ d \notin G
  BY <1>3, <1>4, <1>11 DEF AllPending
<1>14. u = Attach(Create(y, d, Pending), q, h, NoHandler, d, 0)
  BY <1>8, Zenon
<1>15. ASSUME NEW I, Sound(y, s, cells, I), d \notin I
       PROVE  Sound(u, s, cells, I) /\ Steps(u.ps) /\ Later(y.ps, u.ps, d)
  <2>1. d \in Promises /\ q \in Promises /\ PlainHandler(h, FALSE)
    OBVIOUS
  <2> QED
    BY ONLY <1>10, <1>11, <1>14, <1>15, <2>1, Mapped
<1>16. CASE o.getter = FALSE
  <2>1. Sound(y, s, cells, G \ {q}) /\ G \ {q} = H
    BY <1>4, <1>7, <1>8, <1>13, <1>16 DEF Found
  <2>2. Sound(u, s, cells, H) /\ Steps(u.ps) /\ Later(y.ps, u.ps, d)
    BY <1>13, <1>15, <2>1
  <2> QED
    BY <1>10, <1>12, <1>13, <1>16, <2>2 DEF Later, Same, Wraps
<1>17. CASE o.getter = TRUE
  <2>1. Sound(y, s, cells, G) /\ x \in Objects /\ InCourse(y.ps, q, Reading(x))
    BY <1>7, <1>8, <1>17 DEF Found
  <2>2. Sound(u, s, cells, G) /\ Steps(u.ps) /\ Later(y.ps, u.ps, d)
    BY <1>13, <1>15, <2>1
  <2>3. InCourse(u.ps, q, Reading(x))
    BY <1>11, <2>1, <2>2, LaterCourse
  <2>4. u.ps[d].state # "free" /\ \A a \in H : Same(promises, u.ps, a)
    BY <1>10, <1>12, <1>13, <2>2 DEF Later, Same
  <2> QED
    BY <1>4, <1>17, <2>1, <2>2, <2>3, <2>4 DEF Wraps
<1> QED
  BY <1>7, <1>16, <1>17 DEF Found

LEMMA ReturnFinallyOK ==
  ASSUME IInv, NEW x \in Held, NEW q \in Promises, NEW d \in Promises, ReturnFinally(x, q, d)
  PROVE  IInv' /\ Steps(promises')
<1>1. PICK cap : cap = Last(Front(stack)).cap
  OBVIOUS
<1>2. PICK h : h = Thunk(Top.original, Restore(Top.rejected))
  OBVIOUS
<1>3. PICK s, r : s = Front(Front(stack)) /\ r = Front(stack)
  OBVIOUS
<1>4. Running /\ Top.kind = "finally" /\ cells' = cells /\ stack # <<>>
  BY Start DEF ReturnFinally, Returning
<1>5. /\ Sound(World, s, cells, {cap} \cap Promises) /\ Shape(s) /\ cap \in Caps
      /\ cap \in Promises => InCourse(promises, cap, None) /\ Resolvable(promises, cap)
      /\ Shape(r) /\ Sound(World, r, cells, {})
  BY <1>1, <1>3, <1>4, BelowFinally
<1>6. PlainHandler(h, FALSE)
  <2>1. EntryOK(promises, cells, Top)
    BY <1>4, Unwinds
  <2>2. Top.rejected \in BOOLEAN /\ Top.original \in (IF Top.rejected THEN Reasons ELSE Settleable)
    BY <1>4, <2>1 DEF EntryOK
  <2>3. h.kind = "thunk" /\ h.value = Top.original /\ h.rejected = Top.rejected
    BY <1>2 DEF Thunk, Restore
  <2> QED
    BY <2>2, <2>3 DEF PlainHandler
<1>7. PICK H : H = {cap} \cap Promises
  OBVIOUS
<1>8. Sound(World, s, cells, H) /\ AllPending(H)
  BY <1>5, <1>7 DEF InCourse, AllPending
<1>9. World.ps = promises /\ Steps(promises) /\ x \in Values /\ Exists(promises, x)
  BY Start, HeldOK
<1>10. ASSUME NEW u, Sound(u, s, cells, H), Steps(u.ps), \A a \in H : Same(promises, u.ps, a),
              u.ps[d].state # "free", SettleReaction(u, s, cap, d, FALSE)
       PROVE  IInv' /\ Steps(promises')
  <2>1. cap \in Promises => InCourse(u.ps, cap, None) /\ Resolvable(promises, cap)
    BY <1>5, <1>7, <1>10 DEF InCourse, Same
  <2>2. d \in Values /\ Exists(u.ps, d)
    BY <1>10 DEF Values, Exists
  <2>3. Sound(u, s, cells, {cap} \cap Promises)
    BY <1>7, <1>10, Zenon
  <2>4. PICK b \in BOOLEAN : b = FALSE
    OBVIOUS
  <2>5. SettleReaction(u, s, cap, d, b)
    BY <1>10, <2>4, Zenon
  <2>6. IF b THEN d \in Reasons ELSE d \in Values /\ Exists(u.ps, d)
    BY <2>2, <2>4
  <2> QED
    BY <1>4, <1>5, <1>10, <2>1, <2>3, <2>5, <2>6, Completes
<1>11. CASE x \in Promises
  <2>1. PICK u : u = Attach(Create(World, d, Pending), q, h, NoHandler, d, 0)
    OBVIOUS
  <2>2. q = x /\ Fresh(World, d) /\ SettleReaction(u, s, cap, d, FALSE)
    BY <1>1, <1>2, <1>3, <1>11, <2>1, Zenon DEF ReturnFinally
  <2>3. World.ps[q].state # "free"
    BY <1>9, <1>11, <2>2 DEF Exists
  <2>4. PICK v : v = Create(World, d, Pending)
    OBVIOUS
  <2>5. promises[d].state = "free"
    BY <2>2, <2>4, Opening
  <2>6. d \notin H
    BY <1>8, <2>5 DEF AllPending
  <2>7. Sound(u, s, cells, H) /\ Steps(u.ps) /\ Later(promises, u.ps, d)
    <3>1. d \in Promises /\ q \in Promises /\ Steps(World.ps)
      BY <1>9
    <3>2. Sound(u, s, cells, H) /\ Steps(u.ps) /\ Later(World.ps, u.ps, d)
      BY ONLY <1>6, <1>8, <2>1, <2>2, <2>3, <2>5, <2>6, <3>1, Mapped
    <3> QED
      BY <1>9, <3>2
  <2>8. u.ps[d].state # "free" /\ \A a \in H : Same(promises, u.ps, a)
    BY <1>7, <2>6, <2>7 DEF Later
  <2> QED
    BY <1>10, <2>2, <2>7, <2>8
<1>12. CASE x \notin Promises
  <2>1. Fresh(World, q) /\ d = q + 1
    BY <1>12, Zenon DEF ReturnFinally
  <2>2. PICK e : e = [kind |-> "resolution", frame |-> TRUE, promise |-> q, value |-> x,
                      mode |-> "internal", back |-> d]
    OBVIOUS
  <2>3. PICK o \in Lookups(Create(World, q, Pending), q, x) :
          IF o.getter
          THEN /\ Become(Attach(Create(o.w, d, Pending), q, h, NoHandler, d, 0))
               /\ Call(r, e)
          ELSE SettleReaction(Attach(Create(o.w, d, Pending), q, h, NoHandler, d, 0), s, cap, d, FALSE)
    <3>1. \E o \in Lookups(Create(World, q, Pending), q, x) :
            IF o.getter
            THEN /\ Become(Attach(Create(o.w, d, Pending), q, h, NoHandler, d, 0))
                 /\ Call(r, e) /\ UNCHANGED active
            ELSE SettleReaction(Attach(Create(o.w, d, Pending), q, h, NoHandler, d, 0), s, cap, d, FALSE)
      BY <1>1, <1>2, <1>3, <1>12, <2>2, Zenon DEF ReturnFinally
    <3> QED
      BY <3>1, Zenon
  <2>4. PICK u : u = Attach(Create(o.w, d, Pending), q, h, NoHandler, d, 0)
    OBVIOUS
  <2>5. CASE o.getter = FALSE
    <3>1. SettleReaction(u, s, cap, d, FALSE)
      BY <2>3, <2>4, <2>5, Zenon
    <3>2. Wraps(u, s, H, q, d, x, o)
      BY <1>6, <1>8, <2>1, <2>4, Wrapped
    <3>3. /\ Steps(u.ps) /\ u.ps[d].state # "free" /\ \A a \in H : Same(promises, u.ps, a)
          /\ Sound(u, s, cells, H)
      BY <2>5, <3>2 DEF Wraps
    <3> QED
      BY <1>10, <3>1, <3>3
  <2>6. CASE o.getter = TRUE
    <3>1. Become(u) /\ Call(r, e)
      BY <2>3, <2>4, <2>6, Zenon
    <3>2. PICK G : G = {} /\ Sound(World, r, cells, G) /\ AllPending(G)
      BY <1>5 DEF AllPending
    <3>3. Wraps(u, r, G, q, d, x, o)
      BY <1>6, <2>1, <2>4, <3>2, Wrapped
    <3>4. /\ Steps(u.ps) /\ u.ps[d].state # "free"
          /\ Sound(u, r, cells, G \cup {q}) /\ x \in Objects /\ InCourse(u.ps, q, Reading(x))
      BY <2>6, <3>3 DEF Wraps
    <3>5. PICK I : I = {q} /\ Sound(u, r, cells, I)
      BY <3>2, <3>4
    <3>6. EntryOK(u.ps, cells, e) /\ EntryTarget(e) = q /\ e.frame = TRUE /\ e.kind # "finally"
      BY <2>2, <3>4 DEF EntryOK, EntryTarget, Values, Exists
    <3>7. q \in I /\ I \subseteq {q}
      BY <3>5
    <3> QED
      BY <1>4, <1>5, <3>1, <3>4, <3>5, <3>6, <3>7, Invokes
  <2>7. o.getter \in BOOLEAN
    <3>1. Wraps(u, s, H, q, d, x, o)
      BY <1>6, <1>8, <2>1, <2>4, Wrapped
    <3> QED
      BY <3>1 DEF Wraps
  <2> QED
    BY <2>5, <2>6, <2>7
<1> QED
  BY <1>11, <1>12
-----------------------------------------------------------------------------
(***************************************************************************)
(* The specification.                                                      *)
(***************************************************************************)
LEMMA ProgramOK ==
  ASSUME IInv, Program
  PROVE  IInv' /\ Steps(promises')
<1>1. ASSUME NEW p \in Promises,
             \/ Construct(p) \/ WithResolvers(p) \/ Try(p)
             \/ \E e \in Reasons : CreateRejected(p, e)
             \/ \E x \in Values : StaticResolve(p, x)
             \/ \E d \in Promises : Finally(p, d)
      PROVE  IInv' /\ Steps(promises')
  BY <1>1, ConstructOK, WithResolversOK, TryOK, CreateRejectedOK, StaticResolveOK, FinallyOK
<1>2. ASSUME NEW p \in Promises, NEW h \in {NoHandler, UserHandler}, NEW k \in {NoHandler, UserHandler},
             NEW cap \in Promises \cup {Custom}, Then(p, h, k, cap)
      PROVE  IInv' /\ Steps(promises')
  <2>1. PlainHandler(h, FALSE) /\ PlainHandler(k, TRUE)
    BY Handlers, Zenon
  <2> QED
    BY <1>2, <2>1, ThenOK
<1>3. ASSUME NEW c \in DOMAIN cells, NEW reject \in BOOLEAN, NEW x \in Values \cup Reasons,
             CallResolving(c, reject, x)
      PROVE  IInv' /\ Steps(promises')
  BY <1>3, CallResolvingOK
<1>4. ASSUME ReturnEntry \/ ReturnExecutor \/ ReturnJob
      PROVE  IInv' /\ Steps(promises')
  BY <1>4, ReturnEntryOK, ReturnExecutorOK, ReturnJobOK
<1>5. ASSUME NEW x \in Held, ReturnReaction(x) \/ ReturnTry(x)
      PROVE  IInv' /\ Steps(promises')
  BY <1>5, ReturnReactionOK, ReturnTryOK
<1>6. ASSUME NEW callable \in BOOLEAN, ReturnGetter(callable)
      PROVE  IInv' /\ Steps(promises')
  BY <1>6, ReturnGetterOK
<1>7. ASSUME NEW x \in Held, NEW q \in Promises, NEW d \in Promises, ReturnFinally(x, q, d)
      PROVE  IInv' /\ Steps(promises')
  BY <1>7, ReturnFinallyOK
<1>8. ASSUME NEW e \in Reasons, Throw(e)
      PROVE  IInv' /\ Steps(promises')
  BY <1>8, ThrowOK
<1> QED
  BY <1>1, <1>2, <1>3, <1>4, <1>5, <1>6, <1>7, <1>8, Zenon DEF Program

LEMMA NextOK ==
  ASSUME IInv, [Next]_vars
  PROVE  IInv' /\ Steps(promises')
<1>1. CASE Next
  BY <1>1, ExecuteOK, ProgramOK, DrainOK, RunReactionOK, HandlerFailsOK, RunThenableOK,
     ThenableFailsOK DEF Next
<1>2. CASE UNCHANGED vars
  <2>1. /\ promises' = promises /\ cells' = cells /\ jobs' = jobs /\ stack' = stack
        /\ ctl' = ctl /\ out' = out
    BY <1>2 DEF vars
  <2>2. Good(promises, jobs, stack, cells, {}) /\ Control(promises, stack, ctl, out)
    BY ControlNow DEF IInv
  <2>3. Good(promises', jobs', stack', cells', {}) /\ Control(promises', stack', ctl', out')
    BY <2>1, <2>2, Zenon
  <2>4. IInv'
    BY <2>3 DEF IInv, Controlled, Control, Top
  <2> QED
    BY <2>1, <2>4, Start
<1> QED
  BY <1>1, <1>2

LEMMA InitOK ==
  ASSUME Init
  PROVE  IInv
<1>1. /\ promises = [p \in Promises |-> Free] /\ cells = <<>> /\ jobs = <<>> /\ stack = <<>>
      /\ ctl = "idle"
  BY DEF Init
<1>2. \A p \in Promises : promises[p] = Free
  BY <1>1
<1>3. /\ Free.state = "free" /\ Free.fulfil = <<>> /\ Free.reject = <<>> /\ Free.course = None
      /\ Free = [state |-> Free.state, result |-> Free.result, fulfil |-> Free.fulfil,
                 reject |-> Free.reject, course |-> Free.course]
  BY DEF Free
<1>4. PromiseOK(Free)
  BY <1>3, NoElements, CoursesDiffer DEF PromiseOK
<1>5. Table(promises)
  BY <1>1, <1>2, <1>3, <1>4 DEF Table
<1>6. Content(promises, jobs, stack, cells)
  <2>1. \A q \in Promises : ListsOK(promises, cells, q)
    BY <1>2, <1>3, NoElements DEF ListsOK
  <2> QED
    BY <1>1, <1>5, <2>1, NoElements DEF Content
<1>7. \A p, k, i : ~Holds(promises, jobs, stack, cells, k, i, p)
  BY <1>1, <1>2, <1>3, NoElements DEF Holds
<1>8. Holding(promises, jobs, stack, cells, {})
  <2>1. \A p \in Promises : \A c : ~InCourse(promises, p, c)
    BY <1>2, <1>3 DEF InCourse
  <2> QED
    BY <1>7, <2>1 DEF Holding, Sole
<1>9. Controlled
  BY <1>1, Bare DEF Controlled
<1> QED
  BY <1>6, <1>8, <1>9 DEF IInv, Good

\* A locked promise is sought by its thenable job, or by resolving functions that react.
LEMMA AdoptionOK ==
  ASSUME IInv
  PROVE  AdoptionPending
<1> DEFINE adopts(r, p) == /\ r.handler.kind = "resolver"
                           /\ cells[r.handler.cell] = [promise |-> p, claimed |-> FALSE, native |-> TRUE]
           within(list, p) == \E i \in DOMAIN list : adopts(list[i], p)
<1>1. Content(promises, jobs, stack, cells) /\ Holding(promises, jobs, stack, cells, {})
  BY DEF IInv, Good
<1>2. SUFFICES ASSUME NEW p \in Promises, NEW q, q = promises[p].course.of,
                      promises[p].state = "pending", promises[p].course # None,
                      promises[p].course.is = "locked", q \in Promises
               PROVE  \/ \E i \in DOMAIN jobs : /\ jobs[i].kind = "thenable"
                                                /\ jobs[i].promise = p /\ jobs[i].thenable = q
                      \/ within(promises[q].fulfil, p) /\ within(promises[q].reject, p)
                      \/ \E i \in DOMAIN jobs : jobs[i].kind = "reaction" /\ adopts(jobs[i], p)
  BY Zenon DEF AdoptionPending
<1>3. InCourse(promises, p, LockedTo(q))
  <2>1. promises[p].course \in Courses
    BY <1>1 DEF Content, Table, PromiseOK
  <2>2. \A x : Reading(x).is = "resolving" /\ LockedTo(x).of = x
    BY DEF Reading, LockedTo
  <2>3. PICK x \in Promises \cup Objects : promises[p].course = LockedTo(x)
    BY <1>2, <2>1, <2>2 DEF Courses
  <2> QED
    BY <1>2, <2>2, <2>3 DEF InCourse
<1>4. PICK k \in Int, i \in Int : k >= 0 /\ Holds(promises, jobs, stack, cells, k, i, p)
  BY <1>1, <1>2, <1>3 DEF Holding, Sought
<1>5. ~InCourse(promises, p, None)
  BY <1>2, <1>3, CoursesDiffer DEF InCourse
<1>6. \A x : InCourse(promises, p, LockedTo(x)) => x = q
  BY <1>3, CoursesDiffer DEF InCourse
<1>7. ASSUME NEW r, NEW b, HandlerOK(cells, r.handler, b), r.handler.kind = "resolver", Target(cells, r) = p
      PROVE  adopts(r, p)
  <2>1. PICK c : c = r.handler.cell
    OBVIOUS
  <2>2. c \in DOMAIN cells /\ cells[c].native /\ ~cells[c].claimed /\ cells[c].promise = p
    BY <1>7, <2>1 DEF HandlerOK, Target
  <2>3. CellOK(promises, cells[c])
    BY <1>1, <2>2 DEF Content
  <2>4. cells[c].native = TRUE /\ cells[c].claimed = FALSE
    BY <2>2, <2>3 DEF CellOK
  <2>5. cells[c] = [promise |-> p, claimed |-> FALSE, native |-> TRUE]
    BY <2>2, <2>3, <2>4 DEF CellOK
  <2> QED
    BY <1>7, <2>1, <2>5
<1>8. CASE k = Queue
  <2>1. PICK j : j = jobs[i]
    OBVIOUS
  <2>2. i \in DOMAIN jobs /\ JobTarget(cells, j) = p /\ JobOK(promises, cells, j)
    BY <1>1, <1>4, <1>8, <2>1, Numbers DEF Holds, Content, Queue, Frames, Pairs, Hidden
  <2>3. CASE j.kind = "thenable"
    <3>1. j.promise = p /\ j.thenable = q
      BY <1>6, <2>2, <2>3 DEF JobOK, JobTarget
    <3> QED
      BY <2>1, <2>2, <2>3, <3>1
  <2>4. CASE j.kind = "reaction"
    <3>1. Target(cells, j) = p /\ HandlerOK(cells, j.handler, j.rejected)
      BY <2>2, <2>4 DEF JobOK, JobTarget
    <3>2. j.handler.kind = "resolver"
      BY <1>5, <2>2, <2>4, <3>1 DEF JobOK, Target
    <3>3. adopts(j, p)
      BY <1>7, <3>1, <3>2
    <3> QED
      BY <2>1, <2>2, <2>4, <3>3
  <2> QED
    BY <2>2, <2>3, <2>4 DEF JobOK
<1>9. CASE k \in Promises
  <2>1. PICK f, g : f = promises[k].fulfil[i] /\ g = promises[k].reject[i]
    OBVIOUS
  <2>2. i \in DOMAIN promises[k].fulfil /\ Target(cells, f) = p
    BY <1>4, <1>9, <2>1, Numbers DEF Holds, Queue, Frames, Pairs, Hidden
  <2>3. PairOK(promises, cells, k, f, g) /\ i \in DOMAIN promises[k].reject
    BY <1>1, <1>9, <2>1, <2>2 DEF Content, ListsOK, Table, PromiseOK
  <2>4. ReactionOK(promises, cells, k, f, FALSE) /\ Target(cells, g) = p
    <3>1. ReactionOK(promises, cells, k, f, FALSE)
      BY <2>3, Zenon DEF PairOK
    <3>2. Target(cells, f) = Target(cells, g)
      BY <2>3, PairTarget
    <3> QED
      BY <2>2, <3>1, <3>2
  <2>5. f.handler.kind = "resolver"
    BY <1>5, <2>2, <2>4 DEF ReactionOK, Target
  <2>6. k = q /\ g.handler.kind = "resolver"
    BY <1>6, <2>2, <2>3, <2>4, <2>5 DEF ReactionOK, PairOK
  <2>7. HandlerOK(cells, f.handler, FALSE) /\ HandlerOK(cells, g.handler, TRUE)
    BY <2>3 DEF PairOK, ReactionOK
  <2>8. adopts(f, p) /\ adopts(g, p)
    BY <1>7, <2>2, <2>4, <2>5, <2>6, <2>7
  <2> QED
    BY <2>1, <2>2, <2>3, <2>6, <2>8
<1> QED
  <2>1. k # Frames /\ k # Pairs
    BY <1>4 DEF Frames, Pairs
  <2>2. k = Queue \/ k \in Promises
    BY <1>4, <2>1 DEF Holds
  <2> QED
    BY <1>8, <1>9, <2>2, Zenon

\* What a step does to the fates of all promises is a step of PromiseOutcome.
LEMMA StepOK ==
  ASSUME IInv, IInv', Steps(promises')
  PROVE  [Outcome!Next]_([p \in Promises |-> Fate(p)])
<1>1. Table(promises')
  BY DEF IInv, Good, Content
<1>2. \A p \in Promises : Fate(p)' = FateIn(promises', p) /\ Fate(p) = FateIn(promises, p)
  BY DEF Fate, FateIn
<1>3. \A p \in Promises : Fate(p)' \in Outcome!Fates
  BY <1>1, <1>2, FateType
<1>4. \A p \in Promises : Fate(p)' # Fate(p) => Fate(p)' \in Outcome!Successors(p)
  BY <1>2 DEF Steps
<1> QED
  BY <1>3, <1>4 DEF Outcome!Next

\* Every promise has one holder and the course that the holder expects, in every state that
\* resolving functions, jobs, frames and thenables can reach.
THEOREM Inductive == Spec => []IInv
<1>1. Init => IInv
  BY InitOK
<1>2. IInv /\ [Next]_vars => IInv'
  BY NextOK
<1> QED
  BY <1>1, <1>2, PTL DEF Spec

\* The first resolution decides a promise, a locked promise adopts the outcome of the promise it
\* is locked to, and no outcome changes (claim_promise_resolver, settle_promise,
\* begin_promise_thenable_job): Promises implements PromiseOutcome.
THEOREM Implements == Spec => OutcomesFirm
<1>1. Init => Outcome!Init
  <2>1. ASSUME Init PROVE \A p \in Promises : Fate(p) = [is |-> "absent"]
    BY <2>1 DEF Init, Fate, Free
  <2> QED
    BY <2>1 DEF Outcome!Init, Outcome!Absent
<1>2. IInv /\ [Next]_vars => IInv' /\ Steps(promises')
  BY NextOK
<1>3. IInv /\ IInv' /\ [Next]_vars => [Outcome!Next]_([p \in Promises |-> Fate(p)])
  BY <1>2, StepOK
<1> QED
  BY <1>1, <1>3, Inductive, PTL DEF Spec, OutcomesFirm, Outcome!Spec

\* A promise locked to another is never forgotten (finish_promise_resolution,
\* begin_promise_thenable_job).
THEOREM AdoptionKept == Spec => []AdoptionPending
<1>1. IInv => AdoptionPending
  BY AdoptionOK
<1> QED
  BY <1>1, Inductive, PTL

-----------------------------------------------------------------------------
(***************************************************************************)
(* Calls of then are answered once and in order, and what a finally        *)
(* callback was called for is restored.  Apart from the reactions of the   *)
(* program this follows what nobody may touch: the promises of L, that no  *)
(* one will ever resolve, and those a thunk of T is still to settle.       *)
(***************************************************************************)
\* Both lists of a promise have the same length, and a settled one has none.
States == {"free", "pending", "fulfilled", "rejected"}
Lists(r) ==
  /\ r.state \in States
  /\ IsSeq(r.fulfil) /\ IsSeq(r.reject) /\ DOMAIN r.fulfil = DOMAIN r.reject
  /\ r.state # "pending" => r.fulfil = <<>> /\ r.reject = <<>>
Tidy(ps, js) == Framed(ps) /\ (\A p \in Promises : Lists(ps[p])) /\ IsSeq(js)

\* The n-th call of then.
InList(list, n) == \E i \in DOMAIN list : list[i].id = n
Answered(js, n) == \E i \in DOMAIN js : js[i].kind = "reaction" /\ js[i].id = n
CallOK(ps, js, ts, n) ==
  /\ ts[n] = [of |-> ts[n].of, begun |-> ts[n].begun] /\ ts[n].begun \in BOOLEAN
  /\ ts[n].of \in Promises /\ ps[ts[n].of].state # "free"
  /\ ps[ts[n].of].state = "pending" => ~ts[n].begun /\ InList(ps[ts[n].of].fulfil, n)
  /\ ps[ts[n].of].state # "pending" /\ ~ts[n].begun => Answered(js, n)

\* The reactions of a promise q that stand for calls.
EntriesOK(ps, ts, q) ==
  \A i \in DOMAIN ps[q].fulfil :
    /\ ps[q].fulfil[i].id = ps[q].reject[i].id
    /\ ps[q].fulfil[i].id # 0 => ps[q].fulfil[i].id \in DOMAIN ts /\ ts[ps[q].fulfil[i].id].of = q
Ascending(list) ==
  \A i, j \in DOMAIN list : i < j /\ list[i].id # 0 /\ list[j].id # 0 => list[i].id < list[j].id
Answering(j) == j.kind = "reaction" /\ j.id # 0
AnswerOK(ps, ts, j) ==
  Answering(j) => /\ j.id \in DOMAIN ts /\ ~ts[j.id].begun /\ j.rejected \in BOOLEAN
                /\ Settlement(ps, ts[j.id].of, j.argument, j.rejected)
InTurn(js, ts) ==
  \A i, j \in DOMAIN js :
    i < j /\ Answering(js[i]) /\ Answering(js[j]) /\ ts[js[i].id].of = ts[js[j].id].of =>
      js[i].id < js[j].id
Before(ts) ==
  \A m, n \in DOMAIN ts : ts[n].begun /\ m < n /\ ts[m].of = ts[n].of => ts[m].begun
Once(ps, js, ts) ==
  /\ IsSeq(ts) /\ Before(ts)
  /\ \A n \in DOMAIN ts : CallOK(ps, js, ts, n)
  /\ \A q \in Promises : EntriesOK(ps, ts, q) /\ Ascending(ps[q].fulfil)
  /\ \A i \in DOMAIN js : AnswerOK(ps, ts, js[i])
  /\ InTurn(js, ts)

\* Nobody resolves c, as far as jobs and reactions go.
Spared(ps, js, cs, c) ==
  /\ c \in Promises /\ InCourse(ps, c, None)
  /\ \A i \in DOMAIN js : JobTarget(cs, js[i]) # c
  /\ \A q \in Promises : \A i \in DOMAIN ps[q].fulfil :
       Target(cs, ps[q].fulfil[i]) # c /\ Target(cs, ps[q].reject[i]) # c

\* The thunk of a finally callback, for t = [inner, via, original, rejected].
Plainly(h, cap) == [handler |-> h, cap |-> cap, id |-> 0]
Restoring(t) == Plainly(Thunk(t.original, t.rejected), t.inner)
Passing(t) == Plainly(NoHandler, t.inner)
Owed(ps, js, t) ==
  /\ t.inner \in Promises /\ t.via \in Promises /\ InCourse(ps, t.inner, None)
  /\ \/ /\ ps[t.via].state = "pending"
        /\ \E i \in DOMAIN ps[t.via].fulfil : /\ ps[t.via].fulfil[i] = Restoring(t)
                                             /\ ps[t.via].reject[i] = Passing(t)
     \/ /\ ps[t.via].state = "fulfilled"
        /\ \E i \in DOMAIN js : js[i] = ReactionJob(Restoring(t), ps[t.via].result, FALSE)
     \/ /\ ps[t.via].state = "rejected"
        /\ \E i \in DOMAIN js : js[i] = ReactionJob(Passing(t), ps[t.via].result, TRUE)

Accounted(ps, js, cs, ts, L, T) ==
  /\ Tidy(ps, js) /\ Once(ps, js, ts)
  /\ \A c \in L : Spared(ps, js, cs, c)
  /\ \A t \in T : Owed(ps, js, t)
Untouched(L, T, p) == p \notin L /\ \A t \in T : t.inner # p

LEMMA FramedPut ==
  ASSUME NEW ps, Framed(ps), NEW p \in Promises, NEW r, Formed(r), NEW ps2, ps2 = Put(ps, p, r)
  PROVE  Framed(ps2) /\ ps2[p] = r /\ \A q \in Promises : q # p => ps2[q] = ps[q]
<1>1. ps = [q \in Promises |-> ps[q]]
  BY DEF Framed
<1>2. ps2 = [q \in Promises |-> IF q = p THEN r ELSE ps[q]]
  BY <1>1 DEF Put
<1>3. ps2[p] = r /\ \A q \in Promises : q # p => ps2[q] = ps[q]
  BY <1>2
<1>4. ps2 = [q \in Promises |-> ps2[q]]
  BY <1>2
<1>5. \A q \in Promises : Formed(ps2[q])
  BY <1>3 DEF Framed
<1> QED
  BY <1>3, <1>4, <1>5 DEF Framed

\* The lists stay, and so does every promise that exists.
Undecided(ps, ps2) ==
  \A q \in Promises :
    /\ ps2[q].fulfil = ps[q].fulfil /\ ps2[q].reject = ps[q].reject
    /\ ps[q].state # "free" => ps2[q].state = ps[q].state /\ ps2[q].result = ps[q].result

LEMMA OnceUndecided ==
  ASSUME NEW ps, NEW js, NEW ts, Once(ps, js, ts), NEW ps2, Undecided(ps, ps2)
  PROVE  Once(ps2, js, ts)
<1>1. \A n \in DOMAIN ts : CallOK(ps2, js, ts, n)
  BY DEF Once, CallOK, Undecided
<1>2. \A q \in Promises : EntriesOK(ps2, ts, q) /\ Ascending(ps2[q].fulfil)
  BY DEF Once, EntriesOK, Undecided
<1>3. ASSUME NEW i \in DOMAIN js PROVE AnswerOK(ps2, ts, js[i])
  <2>1. CASE Answering(js[i])
    <3>1. AnswerOK(ps, ts, js[i])
      BY DEF Once
    <3>2. CallOK(ps, js, ts, js[i].id)
      BY <2>1, <3>1 DEF AnswerOK, Once
    <3> QED
      BY <2>1, <3>1, <3>2 DEF AnswerOK, CallOK, Settlement, Undecided
  <2> QED
    BY <2>1 DEF AnswerOK
<1> QED
  BY <1>1, <1>2, <1>3 DEF Once

\* A job that answers no call is queued.
LEMMA OnceQueued ==
  ASSUME NEW ps, NEW js, NEW ts, IsSeq(js), Once(ps, js, ts), NEW j, ~Answering(j)
  PROVE  Once(ps, Append(js, j), ts)
<1>1. PICK js2 : js2 = Append(js, j)
  OBVIOUS
<1>2. /\ DOMAIN js2 = DOMAIN js \cup {Len(js) + 1}
      /\ \A i \in DOMAIN js : js2[i] = js[i]
      /\ js2[Len(js) + 1] = j
  BY <1>1, Appended
<1>3. \A n : Answered(js, n) => Answered(js2, n)
  BY <1>2 DEF Answered
<1>4. \A n \in DOMAIN ts : CallOK(ps, js2, ts, n)
  BY <1>3 DEF Once, CallOK
<1>5. \A i \in DOMAIN js2 : AnswerOK(ps, ts, js2[i])
  BY <1>2 DEF Once, AnswerOK
<1>6. InTurn(js2, ts)
  BY <1>2 DEF Once, InTurn
<1>7. Once(ps, js2, ts)
  BY <1>4, <1>5, <1>6 DEF Once
<1> QED
  BY <1>1, <1>7

LEMMA JobFields ==
  ASSUME NEW r, NEW v, NEW b, NEW j, j = ReactionJob(r, v, b)
  PROVE  /\ j.kind = "reaction" /\ j.id = r.id /\ j.handler = r.handler /\ j.cap = r.cap
         /\ j.argument = v /\ j.rejected = b
BY DEF ReactionJob

Following(js, list, v, rejected, js2) ==
  /\ \A i \in DOMAIN js : i \in DOMAIN js2 /\ js2[i] = js[i] /\ i <= Len(js)
  /\ \A k \in DOMAIN list : /\ Len(js) + k \in DOMAIN js2
                            /\ js2[Len(js) + k] = ReactionJob(list[k], v, rejected)
  /\ \A i \in DOMAIN js2 : i \in DOMAIN js \/ \E k \in DOMAIN list : i = Len(js) + k
  /\ DOMAIN list \subseteq Nat \ {0} /\ Len(js) \in Nat

\* Those who wait for a promise become jobs when it settles.
LEMMA Wakes ==
  ASSUME NEW js, IsSeq(js), NEW list, IsSeq(list), NEW v, NEW rejected,
         NEW js2, js2 = js \o Woken(list, v, rejected)
  PROVE  IsSeq(js2) /\ Following(js, list, v, rejected, js2)
<1>1. PICK new : new = Woken(list, v, rejected)
  OBVIOUS
<1>2. Len(list) \in Nat /\ DOMAIN list = 1..Len(list) /\ Len(js) \in Nat /\ DOMAIN js = 1..Len(js)
  BY SequenceDomain
<1>3. DOMAIN new = DOMAIN list /\ \A k \in DOMAIN list : new[k] = ReactionJob(list[k], v, rejected)
  BY <1>1 DEF Woken
<1>4. IsSeq(new)
  <2>1. new = [i \in 1..Len(list) |-> new[i]]
    BY <1>1, <1>2 DEF Woken
  <2> QED
    BY <1>2, <2>1, Listed
<1>5. /\ IsSeq(js2)
      /\ \A i \in Int : i \in DOMAIN js2 <=> i \in DOMAIN js \/ i - Len(js) \in DOMAIN new
      /\ \A i \in DOMAIN js : js2[i] = js[i]
      /\ \A i \in Int : i - Len(js) \in DOMAIN new => js2[i] = new[i - Len(js)]
  <2>1. js2 = js \o new
    BY <1>1
  <2>2. /\ IsSeq(js \o new)
        /\ \A i \in Int : i \in DOMAIN (js \o new) <=> i \in DOMAIN js \/ i - Len(js) \in DOMAIN new
        /\ \A i \in DOMAIN js : (js \o new)[i] = js[i]
        /\ \A i \in Int : i - Len(js) \in DOMAIN new => (js \o new)[i] = new[i - Len(js)]
    BY ONLY IsSeq(js), <1>4, Joined
  <2> QED
    BY ONLY <2>1, <2>2, Zenon
<1>6. DOMAIN js2 \subseteq Int
  BY <1>5, SequenceDomain
<1>7. ASSUME NEW k \in DOMAIN list
      PROVE  Len(js) + k \in DOMAIN js2 /\ js2[Len(js) + k] = ReactionJob(list[k], v, rejected)
  <2>1. PICK i : i = Len(js) + k /\ i \in Int /\ i - Len(js) = k
    BY <1>2
  <2> QED
    BY <1>3, <1>5, <2>1
<1>8. ASSUME NEW i \in DOMAIN js2, i \notin DOMAIN js
      PROVE  \E k \in DOMAIN list : i = Len(js) + k
  <2>1. i \in Int /\ i - Len(js) \in DOMAIN list
    BY <1>3, <1>5, <1>6, <1>8
  <2>2. i = Len(js) + (i - Len(js))
    BY <1>2, <2>1
  <2> QED
    BY <2>1, <2>2
<1> QED
  BY <1>2, <1>5, <1>7, <1>8 DEF Following

Settling(state) == state \in {"fulfilled", "rejected"}
Waiters(r, state, list, b) ==
  /\ b \in BOOLEAN /\ state = (IF b THEN "rejected" ELSE "fulfilled")
  /\ list = (IF b THEN r.reject ELSE r.fulfil) /\ IsSeq(list) /\ DOMAIN list = DOMAIN r.fulfil
Wakened(r, state, js, v, js2) ==
  \E list, b : Waiters(r, state, list, b) /\ js2 = js \o Woken(list, v, b)

LEMMA TidySettled ==
  ASSUME NEW ps, NEW js, Tidy(ps, js), NEW p \in Promises, NEW state, Settling(state), NEW v,
         NEW ps2, ps2 = Put(ps, p, Ended(ps[p], state, v)),
         NEW js2, js2 = Waking(js, ps[p], state, v)
  PROVE  /\ Tidy(ps2, js2)
         /\ ps2[p].state = state /\ ps2[p].result = v /\ ps2[p].fulfil = <<>> /\ ps2[p].reject = <<>>
         /\ \A q \in Promises : q # p => ps2[q] = ps[q]
         /\ Wakened(ps[p], state, js, v, js2)
<1>1. PICK r : r = Ended(ps[p], state, v)
  OBVIOUS
<1>2. r.state = state /\ r.result = v /\ r.fulfil = <<>> /\ r.reject = <<>> /\ Formed(r)
  BY <1>1 DEF Ended, Made, Formed
<1>3. Framed(ps2) /\ ps2[p] = r /\ \A q \in Promises : q # p => ps2[q] = ps[q]
  BY <1>1, <1>2, FramedPut DEF Tidy
<1>4. Lists(ps[p]) /\ IsSeq(js)
  BY DEF Tidy
<1>5. PICK list, b : Waiters(ps[p], state, list, b) /\ js2 = js \o Woken(list, v, b)
  <2>1. CASE state = "rejected"
    <3>1. Waiters(ps[p], state, ps[p].reject, TRUE)
      BY <1>4, <2>1 DEF Lists, Waiters
    <3>2. js2 = js \o Woken(ps[p].reject, v, TRUE)
      BY <2>1 DEF Waking
    <3> QED
      BY <3>1, <3>2
  <2>2. CASE state = "fulfilled"
    <3>1. Waiters(ps[p], state, ps[p].fulfil, FALSE)
      BY <1>4, <2>2 DEF Lists, Waiters
    <3>2. js2 = js \o Woken(ps[p].fulfil, v, FALSE)
      BY <2>2 DEF Waking
    <3> QED
      BY <3>1, <3>2
  <2> QED
    BY <2>1, <2>2 DEF Settling
<1>7. IsSeq(js2)
  BY <1>4, <1>5, Wakes DEF Waiters
<1>8. \A q \in Promises : Lists(ps2[q])
  <2>1. Lists(r)
    BY <1>2, NoElements DEF Lists, Settling, States
  <2> QED
    BY <1>3, <2>1 DEF Tidy
<1> QED
  BY <1>2, <1>3, <1>5, <1>7, <1>8 DEF Tidy, Wakened

LEMMA OnceSettled ==
  ASSUME NEW ps, NEW js, Tidy(ps, js), NEW ts, Once(ps, js, ts),
         NEW p \in Promises, ps[p].state = "pending", NEW state, Settling(state), NEW v,
         NEW ps2, ps2 = Put(ps, p, Ended(ps[p], state, v)),
         NEW js2, js2 = Waking(js, ps[p], state, v)
  PROVE  Once(ps2, js2, ts)
<1>1. /\ ps2[p].state = state /\ ps2[p].result = v /\ ps2[p].fulfil = <<>> /\ ps2[p].reject = <<>>
      /\ \A q \in Promises : q # p => ps2[q] = ps[q]
      /\ Wakened(ps[p], state, js, v, js2)
  <2>1. /\ Tidy(ps, js) /\ p \in Promises /\ Settling(state) /\ ps2 = Put(ps, p, Ended(ps[p], state, v))
        /\ js2 = Waking(js, ps[p], state, v)
    OBVIOUS
  <2> QED
    BY ONLY <2>1, TidySettled
<1>2. PICK list, rejected : Waiters(ps[p], state, list, rejected) /\ js2 = js \o Woken(list, v, rejected)
  BY <1>1, Zenon DEF Wakened
<1>3. /\ rejected \in BOOLEAN /\ state = (IF rejected THEN "rejected" ELSE "fulfilled")
      /\ IsSeq(list) /\ DOMAIN list = DOMAIN ps[p].fulfil
      /\ list = (IF rejected THEN ps[p].reject ELSE ps[p].fulfil)
  BY <1>2 DEF Waiters
<1>4. IsSeq(js)
  BY DEF Tidy
<1>5. /\ \A i \in DOMAIN js : i \in DOMAIN js2 /\ js2[i] = js[i] /\ i <= Len(js)
      /\ \A k \in DOMAIN list : /\ Len(js) + k \in DOMAIN js2
                                /\ js2[Len(js) + k] = ReactionJob(list[k], v, rejected)
      /\ \A i \in DOMAIN js2 : i \in DOMAIN js \/ \E k \in DOMAIN list : i = Len(js) + k
      /\ DOMAIN list \subseteq Nat \ {0} /\ Len(js) \in Nat
  <2>1. IsSeq(js) /\ IsSeq(list) /\ js2 = js \o Woken(list, v, rejected)
    BY <1>2, <1>3, <1>4
  <2>2. Following(js, list, v, rejected, js2)
    BY ONLY <2>1, Wakes
  <2> QED
    BY <2>2 DEF Following
<1>6. ASSUME NEW k \in DOMAIN list
      PROVE  /\ list[k].id = ps[p].fulfil[k].id
             /\ list[k].id # 0 => list[k].id \in DOMAIN ts /\ ts[list[k].id].of = p
  <2>1. EntriesOK(ps, ts, p)
    BY DEF Once
  <2> QED
    BY <1>3, <2>1 DEF EntriesOK
<1>7. ASSUME NEW i \in DOMAIN js2, i \notin DOMAIN js
      PROVE  \E k \in DOMAIN list : /\ i = Len(js) + k /\ js2[i].id = list[k].id
                                   /\ js2[i].argument = v /\ js2[i].rejected = rejected
  <2>1. PICK k \in DOMAIN list : i = Len(js) + k
    BY <1>5, <1>7
  <2>2. js2[i] = ReactionJob(list[k], v, rejected)
    BY <1>5, <2>1
  <2> QED
    BY <2>1, <2>2, JobFields
<1>8. ASSUME NEW i \in DOMAIN js, Answering(js[i])
      PROVE  /\ ts[js[i].id].of # p /\ ts[js[i].id].of \in Promises
             /\ js[i].id \in DOMAIN ts /\ ~ts[js[i].id].begun /\ js[i].rejected \in BOOLEAN
             /\ Settlement(ps, ts[js[i].id].of, js[i].argument, js[i].rejected)
  <2>1. AnswerOK(ps, ts, js[i])
    BY DEF Once
  <2>2. CallOK(ps, js, ts, js[i].id)
    BY <1>8, <2>1 DEF Once, AnswerOK
  <2> QED
    BY <1>8, <2>1, <2>2 DEF AnswerOK, Settlement, CallOK
<1>9. ASSUME NEW n \in DOMAIN ts PROVE CallOK(ps2, js2, ts, n)
  <2>1. CallOK(ps, js, ts, n)
    BY DEF Once
  <2>2. CASE ts[n].of # p
    <3>1. Answered(js, n) => Answered(js2, n)
      BY <1>5 DEF Answered
    <3> QED
      BY <1>1, <2>1, <2>2, <3>1 DEF CallOK
  <2>3. CASE ts[n].of = p
    <3>1. PICK k \in DOMAIN ps[p].fulfil : ps[p].fulfil[k].id = n
      BY <2>1, <2>3 DEF CallOK, InList
    <3>2. k \in DOMAIN list /\ list[k].id = n
      BY <1>3, <1>6, <3>1
    <3>3. js2[Len(js) + k].kind = "reaction" /\ js2[Len(js) + k].id = n
      BY <1>5, <3>2, JobFields
    <3>4. Answered(js2, n)
      BY <1>5, <3>2, <3>3 DEF Answered
    <3> QED
      BY <1>1, <1>3, <2>1, <2>3, <3>4 DEF CallOK
  <2> QED
    BY <2>2, <2>3
<1>10. \A q \in Promises : EntriesOK(ps2, ts, q) /\ Ascending(ps2[q].fulfil)
  BY <1>1, NoElements DEF Once, EntriesOK, Ascending
<1>11. ASSUME NEW i \in DOMAIN js2 PROVE AnswerOK(ps2, ts, js2[i])
  <2>1. CASE i \in DOMAIN js
    BY <1>1, <1>5, <1>8, <2>1 DEF AnswerOK, Settlement
  <2>2. CASE i \notin DOMAIN js /\ js2[i].id # 0
    <3>1. PICK k \in DOMAIN list : js2[i].id = list[k].id /\ js2[i].argument = v /\ js2[i].rejected = rejected
      BY <1>7, <2>2
    <3>2. js2[i].id \in DOMAIN ts /\ ts[js2[i].id].of = p
      BY <1>6, <2>2, <3>1
    <3>3. ~ts[js2[i].id].begun
      BY <3>2 DEF Once, CallOK
    <3>4. Settlement(ps2, p, v, rejected)
      BY <1>1, <1>3 DEF Settlement
    <3> QED
      BY <1>3, <3>1, <3>2, <3>3, <3>4 DEF AnswerOK
  <2> QED
    BY <2>1, <2>2 DEF AnswerOK, Answering
<1>12. InTurn(js2, ts)
  <2>1. SUFFICES ASSUME NEW i \in DOMAIN js2, NEW j \in DOMAIN js2, i < j, Answering(js2[i]),
                        Answering(js2[j]), ts[js2[i].id].of = ts[js2[j].id].of
                 PROVE  js2[i].id < js2[j].id
    BY DEF InTurn
  <2>2. CASE i \in DOMAIN js /\ j \in DOMAIN js
    BY <1>5, <2>1, <2>2 DEF Once, InTurn
  <2>3. CASE i \in DOMAIN js /\ j \notin DOMAIN js
    <3>1. ts[js2[i].id].of # p
      BY <1>5, <1>8, <2>1, <2>3
    <3>2. ts[js2[j].id].of = p
      BY <1>6, <1>7, <2>1, <2>3 DEF Answering
    <3> QED
      BY <2>1, <3>1, <3>2
  <2>4. CASE i \notin DOMAIN js /\ j \in DOMAIN js
    <3>1. PICK k \in DOMAIN list : i = Len(js) + k
      BY <1>7, <2>4
    <3>2. j <= Len(js) /\ j \in Int
      BY <1>4, <1>5, <2>4, SequenceDomain
    <3> QED
      BY <1>5, <2>1, <3>1, <3>2
  <2>5. CASE i \notin DOMAIN js /\ j \notin DOMAIN js
    <3>1. PICK k \in DOMAIN list : i = Len(js) + k /\ js2[i].id = list[k].id
      BY <1>7, <2>5
    <3>2. PICK m \in DOMAIN list : j = Len(js) + m /\ js2[j].id = list[m].id
      BY <1>7, <2>5
    <3>3. k < m
      BY <1>5, <2>1, <3>1, <3>2
    <3>4. Ascending(ps[p].fulfil)
      BY DEF Once
    <3> QED
      BY <1>3, <1>6, <2>1, <3>1, <3>2, <3>3, <3>4 DEF Ascending, Answering
  <2> QED
    BY <2>2, <2>3, <2>4, <2>5
<1> QED
  BY <1>9, <1>10, <1>11, <1>12 DEF Once

LEMMA SparedSettled ==
  ASSUME NEW ps, NEW js, Tidy(ps, js), NEW cs, NEW p \in Promises, NEW state, Settling(state), NEW v,
         NEW ps2, ps2 = Put(ps, p, Ended(ps[p], state, v)),
         NEW js2, js2 = Waking(js, ps[p], state, v),
         NEW c, Spared(ps, js, cs, c), c # p
  PROVE  Spared(ps2, js2, cs, c)
<1>1. /\ ps2[p].fulfil = <<>> /\ ps2[p].reject = <<>>
      /\ \A q \in Promises : q # p => ps2[q] = ps[q]
      /\ Wakened(ps[p], state, js, v, js2)
  BY TidySettled
<1>2. PICK list, b : Waiters(ps[p], state, list, b) /\ js2 = js \o Woken(list, v, b)
  BY <1>1, Zenon DEF Wakened
<1>3. /\ \A i \in DOMAIN js : i \in DOMAIN js2 /\ js2[i] = js[i]
      /\ \A k \in DOMAIN list : /\ Len(js) + k \in DOMAIN js2
                                /\ js2[Len(js) + k] = ReactionJob(list[k], v, b)
      /\ \A i \in DOMAIN js2 : i \in DOMAIN js \/ \E k \in DOMAIN list : i = Len(js) + k
  <2>1. IsSeq(js) /\ IsSeq(list) /\ js2 = js \o Woken(list, v, b)
    BY <1>2 DEF Tidy, Waiters
  <2>2. Following(js, list, v, b, js2)
    BY ONLY <2>1, Wakes
  <2> QED
    BY <2>2 DEF Following
<1>4. \A k \in DOMAIN list : Target(cs, list[k]) # c
  BY <1>2 DEF Waiters, Spared
<1>5. ASSUME NEW i \in DOMAIN js2 PROVE JobTarget(cs, js2[i]) # c
  <2>1. CASE i \in DOMAIN js
    BY <1>3, <2>1 DEF Spared
  <2>2. ASSUME NEW k \in DOMAIN list, i = Len(js) + k PROVE JobTarget(cs, js2[i]) # c
    <3>1. js2[i] = ReactionJob(list[k], v, b)
      BY <1>3, <2>2
    <3>2. JobTarget(cs, js2[i]) = Target(cs, list[k])
      BY <3>1, JobFields DEF JobTarget, Target
    <3> QED
      BY <1>4, <3>2
  <2> QED
    BY <1>3, <2>1, <2>2
<1>6. ASSUME NEW q \in Promises, NEW i \in DOMAIN ps2[q].fulfil
      PROVE  Target(cs, ps2[q].fulfil[i]) # c /\ Target(cs, ps2[q].reject[i]) # c
  <2>1. q # p
    BY <1>1, NoElements
  <2> QED
    BY <1>1, <2>1 DEF Spared
<1>7. InCourse(ps2, c, None)
  BY <1>1 DEF Spared, InCourse
<1> QED
  BY <1>5, <1>6, <1>7 DEF Spared

LEMMA OwedSettled ==
  ASSUME NEW ps, NEW js, Tidy(ps, js), NEW p \in Promises, ps[p].state = "pending",
         NEW state, Settling(state), NEW v,
         NEW ps2, ps2 = Put(ps, p, Ended(ps[p], state, v)),
         NEW js2, js2 = Waking(js, ps[p], state, v),
         NEW t, Owed(ps, js, t), t.inner # p
  PROVE  Owed(ps2, js2, t)
<1>1. /\ ps2[p].state = state /\ ps2[p].result = v
      /\ \A q \in Promises : q # p => ps2[q] = ps[q]
      /\ Wakened(ps[p], state, js, v, js2)
  <2>1. /\ Tidy(ps, js) /\ p \in Promises /\ Settling(state) /\ ps2 = Put(ps, p, Ended(ps[p], state, v))
        /\ js2 = Waking(js, ps[p], state, v)
    OBVIOUS
  <2> QED
    BY ONLY <2>1, TidySettled
<1>2. PICK list, b : Waiters(ps[p], state, list, b) /\ js2 = js \o Woken(list, v, b)
  BY <1>1, Zenon DEF Wakened
<1>3. /\ \A i \in DOMAIN js : i \in DOMAIN js2 /\ js2[i] = js[i]
      /\ \A k \in DOMAIN list : /\ Len(js) + k \in DOMAIN js2
                                /\ js2[Len(js) + k] = ReactionJob(list[k], v, b)
  <2>1. IsSeq(js) /\ IsSeq(list)
    BY <1>2 DEF Tidy, Waiters
  <2>2. Following(js, list, v, b, js2)
    BY ONLY <1>2, <2>1, Wakes
  <2> QED
    BY <2>2 DEF Following
<1>4. t.inner \in Promises /\ t.via \in Promises /\ InCourse(ps2, t.inner, None)
  BY <1>1 DEF Owed, InCourse
<1>5. CASE t.via # p
  <2>1. ps2[t.via] = ps[t.via]
    BY <1>1, <1>4, <1>5
  <2> QED
    BY <1>3, <1>4, <2>1 DEF Owed
<1>6. CASE t.via = p
  <2>1. PICK k \in DOMAIN ps[p].fulfil : ps[p].fulfil[k] = Restoring(t) /\ ps[p].reject[k] = Passing(t)
    BY <1>6 DEF Owed
  <2>2. k \in DOMAIN list /\ list[k] = (IF b THEN Passing(t) ELSE Restoring(t)) /\ b \in BOOLEAN
    BY <1>2, <2>1 DEF Waiters
  <2>3. Len(js) + k \in DOMAIN js2 /\ js2[Len(js) + k] = ReactionJob(list[k], v, b)
    BY <1>3, <2>2
  <2>4. CASE b = TRUE
    <3>1. js2[Len(js) + k] = ReactionJob(Passing(t), v, TRUE) /\ state = "rejected"
      BY <1>2, <2>2, <2>3, <2>4 DEF Waiters
    <3> QED
      BY <1>1, <1>4, <1>6, <2>3, <3>1 DEF Owed
  <2>5. CASE b = FALSE
    <3>1. js2[Len(js) + k] = ReactionJob(Restoring(t), v, FALSE) /\ state = "fulfilled"
      BY <1>2, <2>2, <2>3, <2>5 DEF Waiters
    <3> QED
      BY <1>1, <1>4, <1>6, <2>3, <3>1 DEF Owed
  <2> QED
    BY <2>2, <2>4, <2>5
<1> QED
  BY <1>5, <1>6

\* settle_promise.
LEMMA AccountedSettled ==
  ASSUME NEW ps, NEW js, NEW cs, NEW ts, NEW L, NEW T, Accounted(ps, js, cs, ts, L, T),
         NEW p \in Promises, ps[p].state = "pending", Untouched(L, T, p),
         NEW state, Settling(state), NEW v,
         NEW ps2, ps2 = Put(ps, p, Ended(ps[p], state, v)),
         NEW js2, js2 = Waking(js, ps[p], state, v)
  PROVE  Accounted(ps2, js2, cs, ts, L, T)
<1>1. Tidy(ps, js) /\ Once(ps, js, ts)
  BY DEF Accounted
<1>2. Tidy(ps2, js2)
  <2>1. /\ p \in Promises /\ Settling(state) /\ ps2 = Put(ps, p, Ended(ps[p], state, v))
        /\ js2 = Waking(js, ps[p], state, v)
    OBVIOUS
  <2> QED
    BY ONLY <1>1, <2>1, TidySettled
<1>3. Once(ps2, js2, ts)
  BY <1>1, OnceSettled
<1>4. ASSUME NEW c \in L PROVE Spared(ps2, js2, cs, c)
  <2>1. Spared(ps, js, cs, c) /\ c # p
    BY DEF Accounted, Untouched
  <2> QED
    BY <1>1, <2>1, SparedSettled
<1>5. ASSUME NEW t \in T PROVE Owed(ps2, js2, t)
  <2>1. Owed(ps, js, t) /\ t.inner # p
    BY DEF Accounted, Untouched
  <2> QED
    BY <1>1, <2>1, OwedSettled
<1> QED
  BY <1>2, <1>3, <1>4, <1>5 DEF Accounted

\* create_promise, and the courses.
LEMMA AccountedUndecided ==
  ASSUME NEW ps, NEW js, NEW cs, NEW ts, NEW L, NEW T, Accounted(ps, js, cs, ts, L, T),
         NEW p \in Promises, Untouched(L, T, p), NEW r, Formed(r),
         r.fulfil = ps[p].fulfil, r.reject = ps[p].reject,
         \/ r.state = ps[p].state /\ r.result = ps[p].result
         \/ ps[p].state = "free" /\ r.state \in States,
         NEW ps2, ps2 = Put(ps, p, r)
  PROVE  Accounted(ps2, js, cs, ts, L, T)
<1>1. Tidy(ps, js) /\ Once(ps, js, ts) /\ Framed(ps) /\ Lists(ps[p])
  BY DEF Accounted, Tidy
<1>2. Framed(ps2) /\ ps2[p] = r /\ \A q \in Promises : q # p => ps2[q] = ps[q]
  BY <1>1, FramedPut
<1>3. Undecided(ps, ps2)
  BY <1>2 DEF Undecided
<1>4. Lists(r)
  BY <1>1 DEF Lists
<1>5. Tidy(ps2, js)
  BY <1>1, <1>2, <1>4 DEF Tidy
<1>6. Once(ps2, js, ts)
  BY <1>1, <1>3, OnceUndecided
<1>7. ASSUME NEW c \in L PROVE Spared(ps2, js, cs, c)
  <2>1. Spared(ps, js, cs, c) /\ c # p
    BY DEF Accounted, Untouched
  <2> QED
    BY <1>2, <1>3, <2>1 DEF Spared, InCourse, Undecided
<1>8. ASSUME NEW t \in T PROVE Owed(ps2, js, t)
  <2>1. Owed(ps, js, t) /\ t.inner # p
    BY DEF Accounted, Untouched
  <2>2. InCourse(ps2, t.inner, None) /\ t.inner \in Promises /\ t.via \in Promises
    BY <1>2, <2>1 DEF Owed, InCourse
  <2>3. ps[t.via].state # "free"
    BY <2>1 DEF Owed
  <2>4. /\ ps2[t.via].state = ps[t.via].state /\ ps2[t.via].result = ps[t.via].result
        /\ ps2[t.via].fulfil = ps[t.via].fulfil /\ ps2[t.via].reject = ps[t.via].reject
    BY <1>3, <2>2, <2>3 DEF Undecided
  <2> QED
    BY <2>1, <2>2, <2>4 DEF Owed
<1> QED
  BY <1>5, <1>6, <1>7, <1>8 DEF Accounted

LEMMA SparedQueued ==
  ASSUME NEW ps, NEW js, IsSeq(js), NEW cs, NEW c, Spared(ps, js, cs, c), NEW j, JobTarget(cs, j) # c
  PROVE  Spared(ps, Append(js, j), cs, c)
<1>1. PICK js2 : js2 = Append(js, j)
  OBVIOUS
<1>2. /\ DOMAIN js2 = DOMAIN js \cup {Len(js) + 1}
      /\ \A i \in DOMAIN js : js2[i] = js[i]
      /\ js2[Len(js) + 1] = j
  BY <1>1, Appended
<1>3. Spared(ps, js2, cs, c)
  BY <1>2 DEF Spared
<1> QED
  BY <1>1, <1>3

LEMMA OwedQueued ==
  ASSUME NEW ps, NEW js, IsSeq(js), NEW t, Owed(ps, js, t), NEW j
  PROVE  Owed(ps, Append(js, j), t)
<1>1. PICK js2 : js2 = Append(js, j)
  OBVIOUS
<1>2. /\ DOMAIN js2 = DOMAIN js \cup {Len(js) + 1}
      /\ \A i \in DOMAIN js : js2[i] = js[i]
  BY <1>1, Appended
<1>3. Owed(ps, js2, t)
  BY <1>2 DEF Owed
<1> QED
  BY <1>1, <1>3

\* A job that answers no call.
LEMMA AccountedQueued ==
  ASSUME NEW ps, NEW js, NEW cs, NEW ts, NEW L, NEW T, Accounted(ps, js, cs, ts, L, T),
         NEW j, ~Answering(j), JobTarget(cs, j) \notin L
  PROVE  Accounted(ps, Append(js, j), cs, ts, L, T)
<1>1. Tidy(ps, js) /\ Once(ps, js, ts) /\ IsSeq(js)
  BY DEF Accounted, Tidy
<1>2. Tidy(ps, Append(js, j))
  BY <1>1, Appended DEF Tidy
<1>3. Once(ps, Append(js, j), ts)
  BY <1>1, OnceQueued
<1>4. \A c \in L : Spared(ps, Append(js, j), cs, c)
  BY <1>1, SparedQueued DEF Accounted
<1>5. \A t \in T : Owed(ps, Append(js, j), t)
  BY <1>1, OwedQueued DEF Accounted
<1> QED
  BY <1>2, <1>3, <1>4, <1>5 DEF Accounted

\* A reaction to p, which stands for the call id of then unless that is 0.
Registers(ts, p, id, ts2) ==
  \/ id = 0 /\ ts2 = ts
  \/ id = Len(ts) + 1 /\ ts2 = Append(ts, [of |-> p, begun |-> FALSE])
Recorded(ts, p, id, ts2) ==
  /\ IsSeq(ts2) /\ DOMAIN ts \subseteq Nat /\ 0 \notin DOMAIN ts2 /\ id \in Nat
  /\ DOMAIN ts2 = DOMAIN ts \cup ({id} \ {0})
  /\ \A n \in DOMAIN ts : ts2[n] = ts[n] /\ (id # 0 => n < id)
  /\ id # 0 => /\ ts2[id].of = p /\ ts2[id].begun = FALSE
               /\ ts2[id] = [of |-> ts2[id].of, begun |-> ts2[id].begun]

LEMMA Registered ==
  ASSUME NEW ts, IsSeq(ts), NEW p, NEW id, NEW ts2, Registers(ts, p, id, ts2)
  PROVE  Recorded(ts, p, id, ts2)
<1>1. Len(ts) \in Nat /\ DOMAIN ts = 1..Len(ts)
  BY SequenceDomain
<1>2. CASE id = 0 /\ ts2 = ts
  BY <1>1, <1>2 DEF Recorded
<1>3. CASE id = Len(ts) + 1 /\ ts2 = Append(ts, [of |-> p, begun |-> FALSE])
  <2>1. PICK e : e = [of |-> p, begun |-> FALSE]
    OBVIOUS
  <2>2. /\ IsSeq(ts2) /\ DOMAIN ts2 = DOMAIN ts \cup {Len(ts) + 1}
        /\ \A i \in DOMAIN ts : ts2[i] = ts[i]
        /\ ts2[Len(ts) + 1] = e
    BY <1>3, <2>1, Appended
  <2>3. e.of = p /\ e.begun = FALSE /\ e = [of |-> e.of, begun |-> e.begun]
    BY <2>1
  <2>4. /\ DOMAIN ts \subseteq Nat /\ 0 \notin DOMAIN ts2 /\ id \in Nat /\ id # 0
        /\ DOMAIN ts2 = DOMAIN ts \cup ({id} \ {0})
        /\ \A n \in DOMAIN ts : ts2[n] = ts[n] /\ n < id
        /\ ts2[id] = e
    BY <1>1, <1>3, <2>2
  <2> QED
    BY <2>2, <2>3, <2>4 DEF Recorded
<1> QED
  BY <1>2, <1>3 DEF Registers

\* The history grows by a call: what was known of the earlier ones stays known.
LEMMA BeforeRegistered ==
  ASSUME NEW ps, NEW js, NEW ts, Once(ps, js, ts), NEW p, NEW id, NEW ts2, Registers(ts, p, id, ts2)
  PROVE  Before(ts2)
<1>1. IsSeq(ts) /\ Before(ts)
  BY DEF Once
<1>0. Recorded(ts, p, id, ts2)
  BY <1>1, Registered
<1>2. /\ DOMAIN ts \subseteq Nat /\ DOMAIN ts2 = DOMAIN ts \cup ({id} \ {0}) /\ id \in Nat
      /\ \A n \in DOMAIN ts : ts2[n] = ts[n] /\ (id # 0 => n < id)
      /\ id # 0 => ts2[id].begun = FALSE
  BY <1>0 DEF Recorded
<1>3. SUFFICES ASSUME NEW m \in DOMAIN ts2, NEW n \in DOMAIN ts2, ts2[n].begun, m < n,
                      ts2[m].of = ts2[n].of
               PROVE  ts2[m].begun
  BY DEF Before
<1>4. n \in DOMAIN ts
  BY <1>2, <1>3
<1>5. m \in DOMAIN ts
  BY <1>2, <1>3, <1>4
<1> QED
  BY <1>1, <1>2, <1>3, <1>4, <1>5 DEF Before

LEMMA OnceJoined ==
  ASSUME NEW ps, NEW js, Tidy(ps, js), NEW ts, Once(ps, js, ts),
         NEW p \in Promises, ps[p].state = "pending", NEW f, NEW g, NEW id, f.id = id, g.id = id,
         NEW ts2, Registers(ts, p, id, ts2),
         NEW ps2, ps2[p].state = "pending", ps2[p].fulfil = Append(ps[p].fulfil, f),
         ps2[p].reject = Append(ps[p].reject, g),
         \A q \in Promises : q # p => ps2[q] = ps[q]
  PROVE  Once(ps2, js, ts2)
<1>1. IsSeq(ts) /\ Before(ts2)
  BY BeforeRegistered DEF Once
<1>0. Recorded(ts, p, id, ts2)
  BY <1>1, Registered
<1>2. /\ IsSeq(ts2) /\ DOMAIN ts \subseteq Nat /\ 0 \notin DOMAIN ts2 /\ id \in Nat
      /\ DOMAIN ts2 = DOMAIN ts \cup ({id} \ {0})
      /\ \A n \in DOMAIN ts : ts2[n] = ts[n] /\ (id # 0 => n < id)
      /\ id # 0 => /\ ts2[id].of = p /\ ts2[id].begun = FALSE
                   /\ ts2[id] = [of |-> ts2[id].of, begun |-> ts2[id].begun]
  BY <1>0 DEF Recorded
<1>3. PICK a, b, m : a = ps[p].fulfil /\ b = ps[p].reject /\ m = Len(a) + 1
  OBVIOUS
<1>4. /\ IsSeq(a) /\ IsSeq(b) /\ DOMAIN a = DOMAIN b
      /\ \A i \in DOMAIN a : a[i].id = b[i].id /\ (a[i].id # 0 => a[i].id \in DOMAIN ts /\ ts[a[i].id].of = p)
      /\ Ascending(a)
  BY <1>3 DEF Tidy, Lists, Once, EntriesOK
<1>5. Len(a) = Len(b) /\ Len(a) \in Nat /\ DOMAIN a = 1..Len(a)
  BY <1>4, SequenceDomain
<1>6. PICK x, y : x = ps2[p].fulfil /\ y = ps2[p].reject
  OBVIOUS
<1>7. /\ DOMAIN x = DOMAIN a \cup {m} /\ m \notin DOMAIN a /\ x[m] = f /\ y[m] = g
      /\ \A i \in DOMAIN a : x[i] = a[i] /\ y[i] = b[i]
  BY <1>3, <1>4, <1>5, <1>6, Appended
<1>8. ASSUME NEW n \in DOMAIN ts2 PROVE CallOK(ps2, js, ts2, n)
  <2>1. CASE n \in DOMAIN ts
    <3>1. CallOK(ps, js, ts, n) /\ ts2[n] = ts[n]
      BY <1>2, <2>1 DEF Once
    <3>2. CASE ts[n].of # p
      BY <3>1, <3>2 DEF CallOK
    <3>3. CASE ts[n].of = p
      <4>1. InList(a, n) /\ ~ts[n].begun
        BY <1>3, <3>1, <3>3 DEF CallOK
      <4>2. InList(x, n)
        BY <1>7, <4>1 DEF InList
      <4> QED
        BY <1>6, <3>1, <3>3, <4>1, <4>2 DEF CallOK
    <3> QED
      BY <3>2, <3>3
  <2>2. CASE n \notin DOMAIN ts
    <3>1. /\ n = id /\ ts2[n].of = p /\ ts2[n].begun = FALSE
          /\ ts2[n] = [of |-> ts2[n].of, begun |-> ts2[n].begun]
      BY <1>2, <2>2
    <3>2. InList(x, n)
      BY <1>7, <3>1 DEF InList
    <3> QED
      BY <1>6, <3>1, <3>2 DEF CallOK
  <2> QED
    BY <2>1, <2>2
<1>9. ASSUME NEW q \in Promises PROVE EntriesOK(ps2, ts2, q) /\ Ascending(ps2[q].fulfil)
  <2>1. CASE q # p
    <3>1. EntriesOK(ps, ts, q) /\ Ascending(ps[q].fulfil) /\ ps2[q] = ps[q]
      BY <2>1 DEF Once
    <3> QED
      BY <1>2, <3>1 DEF EntriesOK
  <2>2. CASE q = p
    <3>1. ASSUME NEW i \in DOMAIN x
          PROVE  /\ x[i].id = y[i].id
                 /\ x[i].id # 0 => x[i].id \in DOMAIN ts2 /\ ts2[x[i].id].of = p
      <4>1. CASE i \in DOMAIN a
        BY <1>2, <1>4, <1>7, <4>1
      <4>2. CASE i = m
        BY <1>2, <1>7, <4>2
      <4> QED
        BY <1>7, <4>1, <4>2
    <3>2. Ascending(x)
      <4>1. SUFFICES ASSUME NEW i \in DOMAIN x, NEW j \in DOMAIN x, i < j, x[i].id # 0, x[j].id # 0
                     PROVE  x[i].id < x[j].id
        BY DEF Ascending
      <4>2. CASE i \in DOMAIN a /\ j \in DOMAIN a
        BY <1>4, <1>7, <4>1, <4>2 DEF Ascending
      <4>3. CASE i \in DOMAIN a /\ j \notin DOMAIN a
        BY <1>2, <1>4, <1>7, <4>1, <4>3
      <4>4. CASE i \notin DOMAIN a
        BY <1>3, <1>5, <1>7, <4>1, <4>4
      <4> QED
        BY <4>2, <4>3, <4>4
    <3> QED
      BY <1>6, <2>2, <3>1, <3>2 DEF EntriesOK
  <2> QED
    BY <2>1, <2>2
<1>10. ASSUME NEW i \in DOMAIN js PROVE AnswerOK(ps2, ts2, js[i])
  <2>1. AnswerOK(ps, ts, js[i])
    BY DEF Once
  <2>2. ASSUME Answering(js[i]) PROVE ts[js[i].id].of \in Promises \ {p}
    <3>1. CallOK(ps, js, ts, js[i].id)
      BY <2>1, <2>2 DEF AnswerOK, Once
    <3> QED
      BY <2>1, <2>2, <3>1 DEF AnswerOK, CallOK, Settlement
  <2> QED
    BY <1>2, <2>1, <2>2 DEF AnswerOK, Settlement
<1>11. InTurn(js, ts2)
  <2>1. \A i \in DOMAIN js : Answering(js[i]) => ts2[js[i].id] = ts[js[i].id]
    BY <1>2 DEF Once, AnswerOK
  <2> QED
    BY <2>1 DEF Once, InTurn
<1> QED
  BY <1>1, <1>2, <1>8, <1>9, <1>10, <1>11 DEF Once

LEMMA OnceAnswered ==
  ASSUME NEW ps, NEW js, IsSeq(js), NEW ts, Once(ps, js, ts),
         NEW p \in Promises, NEW r, NEW v, NEW b \in BOOLEAN, Settlement(ps, p, v, b),
         NEW ts2, Registers(ts, p, r.id, ts2), NEW js2, js2 = Append(js, ReactionJob(r, v, b))
  PROVE  Once(ps, js2, ts2)
<1>1. IsSeq(ts) /\ Before(ts2)
  BY BeforeRegistered DEF Once
<1>2. PICK id : id = r.id
  OBVIOUS
<1>0. Recorded(ts, p, id, ts2)
  BY <1>1, <1>2, Registered
<1>3. /\ IsSeq(ts2) /\ DOMAIN ts \subseteq Nat /\ 0 \notin DOMAIN ts2 /\ id \in Nat
      /\ DOMAIN ts2 = DOMAIN ts \cup ({id} \ {0})
      /\ \A n \in DOMAIN ts : ts2[n] = ts[n] /\ (id # 0 => n < id)
      /\ id # 0 => /\ ts2[id].of = p /\ ts2[id].begun = FALSE
                   /\ ts2[id] = [of |-> ts2[id].of, begun |-> ts2[id].begun]
  BY <1>0 DEF Recorded
<1>4. PICK j : j = ReactionJob(r, v, b)
  OBVIOUS
<1>5. j.kind = "reaction" /\ j.id = id /\ j.argument = v /\ j.rejected = b
  BY <1>2, <1>4, JobFields
<1>6. PICK m : m = Len(js) + 1
  OBVIOUS
<1>7. DOMAIN js2 = DOMAIN js \cup {m} /\ js2[m] = j /\ \A i \in DOMAIN js : js2[i] = js[i]
  BY <1>4, <1>6, Appended
<1>8. \A i \in DOMAIN js : i \in Int /\ i < m
  BY <1>6, SequenceDomain
<1>9. \A n : Answered(js, n) => Answered(js2, n)
  BY <1>7 DEF Answered
<1>10. ASSUME NEW n \in DOMAIN ts2 PROVE CallOK(ps, js2, ts2, n)
  <2>1. CASE n \in DOMAIN ts
    <3>1. CallOK(ps, js, ts, n) /\ ts2[n] = ts[n]
      BY <1>3, <2>1 DEF Once
    <3> QED
      BY <1>9, <3>1 DEF CallOK
  <2>2. CASE n \notin DOMAIN ts
    <3>1. /\ n = id /\ ts2[n].of = p /\ ts2[n].begun = FALSE
          /\ ts2[n] = [of |-> ts2[n].of, begun |-> ts2[n].begun]
      BY <1>3, <2>2
    <3>2. Answered(js2, n)
      BY <1>5, <1>7, <3>1 DEF Answered
    <3>3. ps[p].state # "free" /\ ps[p].state # "pending"
      BY DEF Settlement
    <3> QED
      BY <3>1, <3>2, <3>3 DEF CallOK
  <2> QED
    BY <2>1, <2>2
<1>11. \A q \in Promises : EntriesOK(ps, ts2, q) /\ Ascending(ps[q].fulfil)
  BY <1>3 DEF Once, EntriesOK
<1>12. ASSUME NEW i \in DOMAIN js2 PROVE AnswerOK(ps, ts2, js2[i])
  <2>1. CASE i \in DOMAIN js
    <3>1. AnswerOK(ps, ts, js[i]) /\ js2[i] = js[i]
      BY <1>7, <2>1 DEF Once
    <3> QED
      BY <1>3, <3>1 DEF AnswerOK
  <2>2. CASE i = m
    BY <1>3, <1>5, <1>7, <2>2 DEF AnswerOK, Answering
  <2> QED
    BY <1>7, <2>1, <2>2
<1>13. InTurn(js2, ts2)
  <2>1. SUFFICES ASSUME NEW i \in DOMAIN js2, NEW k \in DOMAIN js2, i < k, Answering(js2[i]),
                        Answering(js2[k]), ts2[js2[i].id].of = ts2[js2[k].id].of
                 PROVE  js2[i].id < js2[k].id
    BY DEF InTurn
  <2>2. i \in DOMAIN js
    BY <1>6, <1>7, <1>8, <2>1, SequenceDomain
  <2>3. js2[i] = js[i] /\ js[i].id \in DOMAIN ts /\ ts2[js[i].id] = ts[js[i].id]
    BY <1>3, <1>7, <2>1, <2>2 DEF Once, AnswerOK
  <2>4. CASE k \in DOMAIN js
    <3>1. js2[k] = js[k] /\ js[k].id \in DOMAIN ts /\ ts2[js[k].id] = ts[js[k].id]
      BY <1>3, <1>7, <2>1, <2>4 DEF Once, AnswerOK
    <3> QED
      BY <2>1, <2>2, <2>3, <2>4, <3>1 DEF Once, InTurn
  <2>5. CASE k = m
    BY <1>3, <1>5, <1>7, <2>1, <2>3, <2>5 DEF Answering
  <2> QED
    BY <1>7, <2>4, <2>5
<1> QED
  BY <1>1, <1>3, <1>10, <1>11, <1>12, <1>13 DEF Once

\* perform_promise_then_with_capability: a reaction to a pending promise joins both lists.
LEMMA AccountedJoined ==
  ASSUME NEW ps, NEW js, NEW cs, NEW ts, NEW L, NEW T, Accounted(ps, js, cs, ts, L, T),
         NEW p \in Promises, ps[p].state = "pending", NEW f, NEW g, f.id = g.id,
         Target(cs, f) \notin L, Target(cs, g) \notin L,
         NEW ts2, Registers(ts, p, f.id, ts2), NEW ps2, ps2 = Put(ps, p, Joining(ps[p], f, g))
  PROVE  Accounted(ps2, js, cs, ts2, L, T)
<1>1. Tidy(ps, js) /\ Once(ps, js, ts) /\ Framed(ps) /\ Lists(ps[p])
  BY DEF Accounted, Tidy
<1>2. PICK r : r = Joining(ps[p], f, g)
  OBVIOUS
<1>3. /\ r.state = "pending" /\ r.result = ps[p].result /\ r.course = ps[p].course
      /\ r.fulfil = Append(ps[p].fulfil, f) /\ r.reject = Append(ps[p].reject, g) /\ Formed(r)
  BY <1>2 DEF Joining, Made, Formed
<1>4. Framed(ps2) /\ ps2[p] = r /\ \A q \in Promises : q # p => ps2[q] = ps[q]
  BY <1>1, <1>2, <1>3, FramedPut
<1>5. PICK a, b, m : a = ps[p].fulfil /\ b = ps[p].reject /\ m = Len(a) + 1
  OBVIOUS
<1>6. /\ IsSeq(a) /\ IsSeq(b) /\ DOMAIN a = DOMAIN b
  BY <1>1, <1>5 DEF Lists
<1>7. Len(a) = Len(b)
  BY <1>6, SequenceDomain
<1>8. PICK x, y : x = r.fulfil /\ y = r.reject
  OBVIOUS
<1>9. /\ IsSeq(x) /\ IsSeq(y) /\ DOMAIN x = DOMAIN a \cup {m} /\ DOMAIN y = DOMAIN x
      /\ x[m] = f /\ y[m] = g /\ \A i \in DOMAIN a : x[i] = a[i] /\ y[i] = b[i]
  BY <1>3, <1>5, <1>6, <1>7, <1>8, Appended
<1>10. Tidy(ps2, js)
  <2>1. Lists(r)
    BY <1>3, <1>8, <1>9 DEF Lists, States
  <2> QED
    BY <1>1, <1>4, <2>1 DEF Tidy
<1>11. Once(ps2, js, ts2)
  <2>1. /\ ps2[p].state = "pending" /\ ps2[p].fulfil = Append(ps[p].fulfil, f)
        /\ ps2[p].reject = Append(ps[p].reject, g) /\ \A q \in Promises : q # p => ps2[q] = ps[q]
    BY <1>3, <1>4
  <2>2. PICK id : id = f.id /\ g.id = id /\ Registers(ts, p, id, ts2)
    OBVIOUS
  <2>3. ps[p].state = "pending" /\ p \in Promises
    OBVIOUS
  <2> QED
    BY ONLY <1>1, <2>1, <2>2, <2>3, OnceJoined
<1>12. \A q \in Promises : ps2[q].state = ps[q].state /\ ps2[q].result = ps[q].result
                             /\ ps2[q].course = ps[q].course
  BY <1>3, <1>4
<1>13. \A q \in Promises : \A i \in DOMAIN ps[q].fulfil :
         /\ i \in DOMAIN ps2[q].fulfil /\ ps2[q].fulfil[i] = ps[q].fulfil[i]
         /\ ps2[q].reject[i] = ps[q].reject[i]
  BY <1>4, <1>5, <1>8, <1>9
<1>14. ASSUME NEW c \in L PROVE Spared(ps2, js, cs, c)
  <2>1. Spared(ps, js, cs, c)
    BY DEF Accounted
  <2>2. ASSUME NEW q \in Promises, NEW i \in DOMAIN ps2[q].fulfil
        PROVE  Target(cs, ps2[q].fulfil[i]) # c /\ Target(cs, ps2[q].reject[i]) # c
    <3>1. CASE i \in DOMAIN ps[q].fulfil
      BY <1>13, <2>1, <3>1 DEF Spared
    <3>2. CASE i \notin DOMAIN ps[q].fulfil
      <4>1. q = p /\ i = m
        BY <1>4, <1>5, <1>8, <1>9, <2>2, <3>2
      <4> QED
        BY <1>4, <1>8, <1>9, <4>1
    <3> QED
      BY <3>1, <3>2
  <2> QED
    BY <1>12, <2>1, <2>2 DEF Spared, InCourse
<1>15. ASSUME NEW t \in T PROVE Owed(ps2, js, t)
  <2>1. Owed(ps, js, t)
    BY DEF Accounted
  <2>2. InCourse(ps2, t.inner, None)
    BY <1>12, <2>1 DEF Owed, InCourse
  <2> QED
    BY <1>12, <1>13, <2>1, <2>2 DEF Owed
<1> QED
  BY <1>10, <1>11, <1>14, <1>15 DEF Accounted

\* A reaction to a settled promise is a job at once.
LEMMA AccountedAnswered ==
  ASSUME NEW ps, NEW js, NEW cs, NEW ts, NEW L, NEW T, Accounted(ps, js, cs, ts, L, T),
         NEW p \in Promises, NEW r, NEW v, NEW b \in BOOLEAN, Settlement(ps, p, v, b),
         Target(cs, r) \notin L, NEW ts2, Registers(ts, p, r.id, ts2),
         NEW js2, js2 = Append(js, ReactionJob(r, v, b))
  PROVE  Accounted(ps, js2, cs, ts2, L, T)
<1>1. Tidy(ps, js) /\ Once(ps, js, ts) /\ IsSeq(js)
  BY DEF Accounted, Tidy
<1>2. PICK j : j = ReactionJob(r, v, b)
  OBVIOUS
<1>3. JobTarget(cs, j) = Target(cs, r) /\ js2 = Append(js, j)
  BY <1>2, JobFields DEF JobTarget, Target
<1>4. Tidy(ps, js2)
  BY <1>1, <1>3, Appended DEF Tidy
<1>5. Once(ps, js2, ts2)
  BY <1>1, OnceAnswered
<1>6. \A c \in L : Spared(ps, js2, cs, c)
  BY <1>1, <1>3, SparedQueued DEF Accounted
<1>7. \A t \in T : Owed(ps, js2, t)
  BY <1>1, <1>3, OwedQueued DEF Accounted
<1> QED
  BY <1>4, <1>5, <1>6, <1>7 DEF Accounted

\* promise_checkpoint_step takes the first job.
Marked(ts, id) == [i \in DOMAIN ts |-> IF i = id THEN [ts[i] EXCEPT !.begun = TRUE] ELSE ts[i]]

LEMMA MarkedCall ==
  ASSUME NEW p, NEW b, NEW c
  PROVE  [[of |-> p, begun |-> b] EXCEPT !.begun = c] = [of |-> p, begun |-> c]
BY Z3

LEMMA OnceDropped ==
  ASSUME NEW ps, NEW js, IsSeq(js), js # <<>>, NEW ts, Once(ps, js, ts), ~Answering(js[1]),
         NEW js2, js2 = Tail(js)
  PROVE  Once(ps, js2, ts)
<1>1. /\ IsSeq(js2) /\ 1 \in DOMAIN js
      /\ \A i \in Int : i \in DOMAIN js2 <=> i >= 1 /\ i + 1 \in DOMAIN js
      /\ \A i \in DOMAIN js2 : js2[i] = js[i + 1]
  BY Begins
<1>2. DOMAIN js2 \subseteq Int /\ DOMAIN js \subseteq Int /\ \A i \in DOMAIN js : i >= 1
  BY <1>1, SequenceDomain
<1>3. \A i \in DOMAIN js2 : i + 1 \in DOMAIN js /\ js2[i] = js[i + 1]
  BY <1>1, <1>2
<1>4. ASSUME NEW i \in DOMAIN js, i # 1 PROVE i - 1 \in DOMAIN js2 /\ js2[i - 1] = js[i]
  <2>1. PICK k \in Int : i = k + 1 /\ k = i - 1 /\ k >= 1
    BY <1>2, <1>4
  <2> QED
    BY <1>1, <2>1
<1>5. ASSUME NEW n \in DOMAIN ts PROVE CallOK(ps, js2, ts, n)
  <2>1. CallOK(ps, js, ts, n) /\ n # 0
    BY SequenceDomain DEF Once
  <2>2. ASSUME Answered(js, n) PROVE Answered(js2, n)
    <3>1. PICK i \in DOMAIN js : js[i].kind = "reaction" /\ js[i].id = n
      BY <2>2 DEF Answered
    <3>2. i # 1
      BY <2>1, <3>1 DEF Answering
    <3> QED
      BY <1>4, <3>1, <3>2 DEF Answered
  <2> QED
    BY <2>1, <2>2 DEF CallOK
<1>6. \A i \in DOMAIN js2 : AnswerOK(ps, ts, js2[i])
  BY <1>3 DEF Once
<1>7. InTurn(js2, ts)
  <2>1. SUFFICES ASSUME NEW i \in DOMAIN js2, NEW k \in DOMAIN js2, i < k, Answering(js2[i]),
                        Answering(js2[k]), ts[js2[i].id].of = ts[js2[k].id].of
                 PROVE  js2[i].id < js2[k].id
    BY DEF InTurn
  <2>2. i + 1 < k + 1 /\ i + 1 \in DOMAIN js /\ k + 1 \in DOMAIN js
    BY <1>2, <1>3, <2>1
  <2> QED
    BY <1>3, <2>1, <2>2 DEF Once, InTurn
<1> QED
  BY <1>5, <1>6, <1>7 DEF Once

LEMMA OnceBegun ==
  ASSUME NEW ps, NEW js, IsSeq(js), js # <<>>, NEW ts, Once(ps, js, ts), Answering(js[1]),
         NEW js2, js2 = Tail(js), NEW ts2, ts2 = Marked(ts, js[1].id)
  PROVE  Once(ps, js2, ts2)
<1>1. /\ IsSeq(js2) /\ 1 \in DOMAIN js
      /\ \A i \in Int : i \in DOMAIN js2 <=> i >= 1 /\ i + 1 \in DOMAIN js
      /\ \A i \in DOMAIN js2 : js2[i] = js[i + 1]
  BY Begins
<1>2. DOMAIN js2 \subseteq Int /\ DOMAIN js \subseteq Int /\ \A i \in DOMAIN js : i >= 1
  BY <1>1, SequenceDomain
<1>3. \A i \in DOMAIN js2 : i + 1 \in DOMAIN js /\ js2[i] = js[i + 1] /\ 1 < i + 1
  BY <1>1, <1>2
<1>4. ASSUME NEW i \in DOMAIN js, i # 1 PROVE i - 1 \in DOMAIN js2 /\ js2[i - 1] = js[i] /\ 1 < i
  <2>1. PICK k \in Int : i = k + 1 /\ k = i - 1 /\ k >= 1
    BY <1>2, <1>4
  <2> QED
    BY <1>1, <2>1
<1>5. PICK id : id = js[1].id
  OBVIOUS
<1>6. PICK p : p = ts[id].of
  OBVIOUS
<1>7. /\ id \in DOMAIN ts /\ ~ts[id].begun /\ CallOK(ps, js, ts, id)
      /\ ps[p].state # "pending"
  <2>1. AnswerOK(ps, ts, js[1]) /\ id \in DOMAIN ts
    BY <1>1, <1>5 DEF Once, AnswerOK
  <2> QED
    BY <1>5, <1>6, <2>1 DEF Once, AnswerOK, Settlement
<1>8. IsSeq(ts) /\ Len(ts) \in Nat /\ DOMAIN ts = 1..Len(ts)
  BY SequenceDomain DEF Once
<1>9. /\ DOMAIN ts2 = DOMAIN ts /\ ts2[id] = [ts[id] EXCEPT !.begun = TRUE]
      /\ \A n \in DOMAIN ts : n # id => ts2[n] = ts[n]
  BY <1>5, <1>7 DEF Marked
<1>10. ts2[id].of = p /\ ts2[id].begun = TRUE /\ ts2[id] = [of |-> p, begun |-> TRUE]
  <2>1. ts[id] = [of |-> p, begun |-> ts[id].begun]
    BY <1>6, <1>7 DEF CallOK
  <2>2. PICK b : b = ts[id].begun
    OBVIOUS
  <2>3. [[of |-> p, begun |-> b] EXCEPT !.begun = TRUE] = [of |-> p, begun |-> TRUE]
    BY MarkedCall, Zenon
  <2>4. ts2[id] = [of |-> p, begun |-> TRUE]
    BY <1>9, <2>1, <2>2, <2>3, Zenon
  <2> QED
    BY <2>4
<1>11. IsSeq(ts2)
  <2>1. ts2 = [i \in 1..Len(ts) |-> ts2[i]]
    BY <1>8 DEF Marked
  <2> QED
    BY <1>8, <2>1, Listed
<1>12. \A n \in DOMAIN ts : ts2[n].of = ts[n].of
  BY <1>6, <1>9, <1>10
<1>13. ASSUME NEW i \in DOMAIN js, i # 1, Answering(js[i]), ts[js[i].id].of = p PROVE id < js[i].id
  BY <1>1, <1>4, <1>5, <1>6, <1>13 DEF Once, InTurn
<1>14. ASSUME NEW i \in DOMAIN js2, Answering(js2[i]) PROVE js2[i].id # id /\ js2[i].id \in DOMAIN ts
  <2>1. PICK k \in DOMAIN js : k # 1 /\ js2[i] = js[k]
    BY <1>2, <1>3, <1>14
  <2>2. js[k].id \in DOMAIN ts
    BY <1>14, <2>1 DEF Once, AnswerOK
  <2> QED
    BY <1>6, <1>8, <1>13, <1>14, <2>1, <2>2
<1>15. Before(ts2)
  <2>1. SUFFICES ASSUME NEW m \in DOMAIN ts2, NEW n \in DOMAIN ts2, ts2[n].begun, m < n,
                        ts2[m].of = ts2[n].of, ~ts2[m].begun
                 PROVE  FALSE
    BY DEF Before
  <2>2. m \in DOMAIN ts /\ n \in DOMAIN ts /\ m # id /\ ts[m].of = ts[n].of /\ ~ts[m].begun
    BY <1>9, <1>10, <1>12, <2>1
  <2>3. CASE n # id
    BY <1>9, <2>1, <2>2, <2>3 DEF Once, Before
  <2>4. CASE n = id
    <3>1. Answered(js, m)
      BY <1>6, <1>7, <2>2, <2>4 DEF Once, CallOK
    <3>2. PICK i \in DOMAIN js : js[i].kind = "reaction" /\ js[i].id = m
      BY <3>1 DEF Answered
    <3>3. Answering(js[i]) /\ i # 1
      BY <1>5, <1>8, <2>2, <3>2 DEF Answering
    <3>4. id < m
      BY <1>6, <1>13, <2>2, <2>4, <3>2, <3>3
    <3> QED
      BY <1>8, <2>1, <2>2, <2>4, <3>4
  <2> QED
    BY <2>3, <2>4
<1>16. ASSUME NEW n \in DOMAIN ts2 PROVE CallOK(ps, js2, ts2, n)
  <2>1. n \in DOMAIN ts /\ CallOK(ps, js, ts, n)
    BY <1>9 DEF Once
  <2>2. CASE n = id
    BY <1>6, <1>7, <1>10, <2>2 DEF CallOK
  <2>3. CASE n # id
    <3>1. ASSUME Answered(js, n) PROVE Answered(js2, n)
      <4>1. PICK i \in DOMAIN js : js[i].kind = "reaction" /\ js[i].id = n
        BY <3>1 DEF Answered
      <4> QED
        BY <1>4, <1>5, <2>3, <4>1 DEF Answered
    <3>2. ts2[n] = ts[n]
      BY <1>9, <2>1, <2>3
    <3> QED
      BY <2>1, <3>1, <3>2 DEF CallOK
  <2> QED
    BY <2>2, <2>3
<1>17. ASSUME NEW q \in Promises PROVE EntriesOK(ps, ts2, q) /\ Ascending(ps[q].fulfil)
  BY <1>9, <1>12 DEF Once, EntriesOK
<1>18. ASSUME NEW i \in DOMAIN js2 PROVE AnswerOK(ps, ts2, js2[i])
  <2>1. AnswerOK(ps, ts, js2[i])
    BY <1>3 DEF Once
  <2>2. CASE Answering(js2[i])
    BY <1>9, <1>14, <2>1, <2>2 DEF AnswerOK
  <2> QED
    BY <2>2 DEF AnswerOK
<1>19. InTurn(js2, ts2)
  <2>1. SUFFICES ASSUME NEW i \in DOMAIN js2, NEW k \in DOMAIN js2, i < k, Answering(js2[i]),
                        Answering(js2[k]), ts2[js2[i].id].of = ts2[js2[k].id].of
                 PROVE  js2[i].id < js2[k].id
    BY DEF InTurn
  <2>2. i + 1 < k + 1 /\ i + 1 \in DOMAIN js /\ k + 1 \in DOMAIN js
    BY <1>2, <1>3, <2>1
  <2>3. ts[js2[i].id].of = ts[js2[k].id].of
    BY <1>12, <1>14, <2>1
  <2> QED
    BY <1>3, <2>1, <2>2, <2>3 DEF Once, InTurn
<1> QED
  BY <1>11, <1>15, <1>16, <1>17, <1>18, <1>19 DEF Once

LEMMA AccountedBegun ==
  ASSUME NEW ps, NEW js, NEW cs, NEW ts, NEW L, NEW T, Accounted(ps, js, cs, ts, L, T), js # <<>>,
         \A t \in T : t.inner # JobTarget(cs, js[1]), NEW js2, js2 = Tail(js), NEW ts2,
         \/ Answering(js[1]) /\ ts2 = Marked(ts, js[1].id)
         \/ ~Answering(js[1]) /\ ts2 = ts
  PROVE  Accounted(ps, js2, cs, ts2, L, T)
<1>1. Tidy(ps, js) /\ Once(ps, js, ts) /\ IsSeq(js)
  BY DEF Accounted, Tidy
<1>2. /\ IsSeq(js2) /\ 1 \in DOMAIN js
      /\ \A i \in Int : i \in DOMAIN js2 <=> i >= 1 /\ i + 1 \in DOMAIN js
      /\ \A i \in DOMAIN js2 : js2[i] = js[i + 1]
  BY <1>1, Begins
<1>3. DOMAIN js2 \subseteq Int /\ DOMAIN js \subseteq Int /\ \A i \in DOMAIN js : i >= 1
  BY <1>1, <1>2, SequenceDomain
<1>4. \A i \in DOMAIN js2 : i + 1 \in DOMAIN js /\ js2[i] = js[i + 1]
  BY <1>2, <1>3
<1>5. ASSUME NEW i \in DOMAIN js, i # 1 PROVE i - 1 \in DOMAIN js2 /\ js2[i - 1] = js[i]
  <2>1. PICK k \in Int : i = k + 1 /\ k = i - 1 /\ k >= 1
    BY <1>3, <1>5
  <2> QED
    BY <1>2, <2>1
<1>6. Tidy(ps, js2)
  BY <1>1, <1>2 DEF Tidy
<1>7. Once(ps, js2, ts2)
  BY <1>1, OnceBegun, OnceDropped
<1>8. \A c \in L : Spared(ps, js2, cs, c)
  BY <1>4 DEF Accounted, Spared
<1>9. ASSUME NEW t \in T PROVE Owed(ps, js2, t)
  <2>1. Owed(ps, js, t) /\ t.inner # JobTarget(cs, js[1])
    BY DEF Accounted
  <2>2. ASSUME NEW i \in DOMAIN js, NEW r, NEW v, NEW b, r.cap = t.inner, r.handler.kind # "resolver",
               js[i] = ReactionJob(r, v, b)
        PROVE  \E k \in DOMAIN js2 : js2[k] = ReactionJob(r, v, b)
    <3>1. JobTarget(cs, js[i]) = t.inner
      BY <2>2, JobFields DEF JobTarget, Target
    <3>2. i # 1
      BY <2>1, <3>1
    <3> QED
      BY <1>5, <2>2, <3>2
  <2>3. /\ Restoring(t).cap = t.inner /\ Restoring(t).handler.kind # "resolver"
        /\ Passing(t).cap = t.inner /\ Passing(t).handler.kind # "resolver"
    BY DEF Restoring, Passing, Plainly, Thunk, NoHandler
  <2>4. CASE ps[t.via].state = "pending"
    BY <2>1, <2>4 DEF Owed
  <2>5. CASE ps[t.via].state = "fulfilled"
    <3>1. PICK r, v, b : r = Restoring(t) /\ v = ps[t.via].result /\ b = FALSE
      OBVIOUS
    <3>2. PICK i \in DOMAIN js : js[i] = ReactionJob(r, v, b)
      BY <2>1, <2>5, <3>1 DEF Owed
    <3>3. \E k \in DOMAIN js2 : js2[k] = ReactionJob(r, v, b)
      BY <2>2, <2>3, <3>1, <3>2
    <3> QED
      BY <2>1, <2>5, <3>1, <3>3 DEF Owed
  <2>6. CASE ps[t.via].state = "rejected"
    <3>1. PICK r, v, b : r = Passing(t) /\ v = ps[t.via].result /\ b = TRUE
      OBVIOUS
    <3>2. PICK i \in DOMAIN js : js[i] = ReactionJob(r, v, b)
      BY <2>1, <2>6, <3>1 DEF Owed
    <3>5. r.cap = t.inner /\ r.handler.kind # "resolver"
      BY <2>3, <3>1
    <3>3. \E k \in DOMAIN js2 : js2[k] = ReactionJob(r, v, b)
      BY <2>2, <3>2, <3>5
    <3>4. \E k \in DOMAIN js2 : js2[k] = ReactionJob(Passing(t), ps[t.via].result, TRUE)
      BY <3>1, <3>3, Zenon
    <3> QED
      BY <2>1, <2>6, <3>4 DEF Owed
  <2> QED
    BY <2>1, <2>4, <2>5, <2>6 DEF Owed
<1> QED
  BY <1>6, <1>7, <1>8, <1>9 DEF Accounted

-----------------------------------------------------------------------------
(***************************************************************************)
(* The same for the operations of the module.                              *)
(***************************************************************************)
Fine(w, cs, ts, L, T) == w = Both(w.ps, w.jobs) /\ Accounted(w.ps, w.jobs, cs, ts, L, T)

LEMMA FineBoth ==
  ASSUME NEW ps, NEW js, NEW cs, NEW ts, NEW L, NEW T, Accounted(ps, js, cs, ts, L, T),
         NEW u, u = Both(ps, js)
  PROVE  Fine(u, cs, ts, L, T)
BY BothParts DEF Fine

\* Only p is touched, and it stays in existence.
Alone(w, u, p) ==
  /\ \A q \in Promises : q # p => u.ps[q] = w.ps[q]
  /\ w.ps[p].state # "free" => u.ps[p].state # "free"

LEMMA AlonePut ==
  ASSUME NEW w, Framed(w.ps), NEW p \in Promises, NEW r, Formed(r), r.state # "free" \/ w.ps[p].state = "free",
         NEW js, NEW u, u = Both(Put(w.ps, p, r), js)
  PROVE  Alone(w, u, p) /\ u.ps[p] = r
<1>1. PICK ps2 : ps2 = Put(w.ps, p, r)
  OBVIOUS
<1>2. u.ps = ps2
  BY <1>1, BothParts
<1>3. ps2[p] = r /\ \A q \in Promises : q # p => ps2[q] = w.ps[q]
  BY <1>1, FramedPut
<1> QED
  BY <1>2, <1>3 DEF Alone

LEMMA FineSettle ==
  ASSUME NEW w, NEW cs, NEW ts, NEW L, NEW T, Fine(w, cs, ts, L, T),
         NEW p \in Promises, Untouched(L, T, p), NEW state, Settling(state), NEW v,
         NEW u, u = Settle(w, p, state, v)
  PROVE  Fine(u, cs, ts, L, T) /\ Alone(w, u, p)
<1>1. PICK ps, js : ps = w.ps /\ js = w.jobs
  OBVIOUS
<1>2. w = Both(ps, js) /\ Accounted(ps, js, cs, ts, L, T)
  BY <1>1 DEF Fine
<1>3. CASE ps[p].state # "pending"
  <2>1. u = w
    BY <1>1, <1>3 DEF Settle, MaySettle
  <2> QED
    BY <2>1 DEF Alone
<1>4. CASE ps[p].state = "pending"
  <2>1. Framed(ps) /\ Awaited(ps, p)
    BY <1>2, <1>4 DEF Accounted, Tidy, Awaited
  <2>2. u = Settled(ps, js, p, state, v)
    BY <1>2, <2>1, SettleIs
  <2>3. PICK ps2, js2 : ps2 = Put(ps, p, Ended(ps[p], state, v)) /\ js2 = Waking(js, ps[p], state, v)
    OBVIOUS
  <2>4. Accounted(ps2, js2, cs, ts, L, T)
    BY <1>2, <1>4, <2>3, AccountedSettled
  <2>5. u = Both(ps2, js2)
    BY <2>2, <2>3, Zenon DEF Settled
  <2>6. PICK r : r = Ended(ps[p], state, v)
    OBVIOUS
  <2>7. Formed(r) /\ r.state # "free"
    BY <2>6 DEF Ended, Made, Formed, Settling
  <2>8. Alone(w, u, p)
    BY <1>1, <2>1, <2>3, <2>5, <2>6, <2>7, AlonePut
  <2> QED
    BY <2>4, <2>5, <2>8, FineBoth
<1> QED
  BY <1>3, <1>4

LEMMA EnteredForm ==
  ASSUME NEW q, NEW c, NEW r, r = Entered(q, c)
  PROVE  /\ Formed(r) /\ r.state = q.state /\ r.result = q.result /\ r.fulfil = q.fulfil
         /\ r.reject = q.reject
BY DEF Entered, Made, Formed

LEMMA FineRead ==
  ASSUME NEW w, NEW cs, NEW ts, NEW L, NEW T, Fine(w, cs, ts, L, T),
         NEW p \in Promises, Untouched(L, T, p), NEW x, NEW u, u = Read(w, p, x)
  PROVE  Fine(u, cs, ts, L, T) /\ Alone(w, u, p)
<1>1. PICK ps, js : ps = w.ps /\ js = w.jobs
  OBVIOUS
<1>2. w = Both(ps, js) /\ Accounted(ps, js, cs, ts, L, T) /\ Framed(ps)
  BY <1>1 DEF Fine, Accounted, Tidy
<1>3. PICK r : r = Entered(ps[p], Reading(x))
  OBVIOUS
<1>4. PICK ps2 : ps2 = Put(ps, p, r)
  OBVIOUS
<1>5. Accounted(ps2, js, cs, ts, L, T)
  BY <1>2, <1>3, <1>4, EnteredForm, AccountedUndecided
<1>6. u = Both(ps2, js)
  BY <1>2, <1>3, <1>4, ReadIs
<1>7. Alone(w, u, p)
  <2>1. u = Both(Put(w.ps, p, r), js) /\ Framed(w.ps)
    BY <1>1, <1>2, <1>4, <1>6, Zenon
  <2>2. Formed(r) /\ r.state = w.ps[p].state
    BY <1>1, <1>3, EnteredForm
  <2> QED
    BY <2>1, <2>2, AlonePut
<1> QED
  BY <1>5, <1>6, <1>7, FineBoth

LEMMA FineLock ==
  ASSUME NEW w, NEW cs, NEW ts, NEW L, NEW T, Fine(w, cs, ts, L, T),
         NEW p \in Promises, Untouched(L, T, p), NEW x, NEW u, u = Lock(w, p, x)
  PROVE  Fine(u, cs, ts, L, T) /\ Alone(w, u, p)
<1>1. PICK ps, js : ps = w.ps /\ js = w.jobs
  OBVIOUS
<1>2. w = Both(ps, js) /\ Accounted(ps, js, cs, ts, L, T) /\ Framed(ps)
  BY <1>1 DEF Fine, Accounted, Tidy
<1>3. PICK r : r = Entered(ps[p], LockedTo(x))
  OBVIOUS
<1>4. PICK ps2, j : ps2 = Put(ps, p, r) /\ j = [kind |-> "thenable", promise |-> p, thenable |-> x]
  OBVIOUS
<1>5. Accounted(ps2, js, cs, ts, L, T)
  BY <1>2, <1>3, <1>4, EnteredForm, AccountedUndecided
<1>6. ~Answering(j) /\ JobTarget(cs, j) \notin L
  BY <1>4 DEF Answering, JobTarget, Untouched
<1>7. PICK js2 : js2 = Append(js, j)
  OBVIOUS
<1>8. Accounted(ps2, js2, cs, ts, L, T)
  BY <1>5, <1>6, <1>7, AccountedQueued
<1>9. u = Both(ps2, js2)
  BY <1>2, <1>3, <1>4, <1>7, LockIs
<1>10. Alone(w, u, p)
  <2>1. u = Both(Put(w.ps, p, r), js2) /\ Framed(w.ps)
    BY <1>1, <1>2, <1>4, <1>9, Zenon
  <2>2. Formed(r) /\ r.state = w.ps[p].state
    BY <1>1, <1>3, EnteredForm
  <2> QED
    BY <2>1, <2>2, AlonePut
<1> QED
  BY <1>8, <1>9, <1>10, FineBoth

\* A free promise is nobody's.
LEMMA FreeUntouched ==
  ASSUME NEW w, NEW cs, NEW ts, NEW L, NEW T, Fine(w, cs, ts, L, T), NEW p, w.ps[p].state = "free"
  PROVE  Untouched(L, T, p)
BY DEF Fine, Accounted, Spared, Owed, InCourse, Untouched

LEMMA FineCreate ==
  ASSUME NEW w, NEW cs, NEW ts, NEW L, NEW T, Fine(w, cs, ts, L, T),
         NEW p \in Promises, w.ps[p].state = "free",
         NEW r, Formed(r), r.state \in States, r.fulfil = <<>>, r.reject = <<>>,
         NEW u, u = Create(w, p, r)
  PROVE  Fine(u, cs, ts, L, T) /\ Alone(w, u, p) /\ u.ps[p] = r
<1>1. PICK ps, js : ps = w.ps /\ js = w.jobs
  OBVIOUS
<1>2. w = Both(ps, js) /\ Accounted(ps, js, cs, ts, L, T) /\ Framed(ps) /\ Lists(ps[p])
  BY <1>1 DEF Fine, Accounted, Tidy
<1>3. Untouched(L, T, p)
  BY FreeUntouched
<1>4. PICK ps2 : ps2 = Put(ps, p, r)
  OBVIOUS
<1>5. ps[p].state = "free" /\ ps[p].fulfil = <<>> /\ ps[p].reject = <<>>
  BY <1>1, <1>2 DEF Lists
<1>6. Accounted(ps2, js, cs, ts, L, T)
  BY <1>2, <1>3, <1>4, <1>5, AccountedUndecided
<1>7. u = Both(ps2, js)
  BY <1>2, <1>4, CreateIs
<1>8. Alone(w, u, p) /\ u.ps[p] = r
  <2>1. u = Both(Put(w.ps, p, r), js) /\ Framed(w.ps)
    BY <1>1, <1>2, <1>4, <1>7, Zenon
  <2> QED
    BY <2>1, AlonePut
<1> QED
  BY <1>6, <1>7, <1>8, FineBoth

LEMMA FineAttach ==
  ASSUME NEW w, NEW cs, NEW ts, NEW L, NEW T, Fine(w, cs, ts, L, T),
         NEW p \in Promises, w.ps[p].state # "free", NEW h, NEW k, NEW cap, NEW id,
         NEW f, f = [handler |-> h, cap |-> cap, id |-> id], Target(cs, f) \notin L,
         NEW g, g = [handler |-> k, cap |-> cap, id |-> id], Target(cs, g) \notin L,
         NEW ts2, Registers(ts, p, id, ts2), NEW u, u = Attach(w, p, h, k, cap, id)
  PROVE  Fine(u, cs, ts2, L, T)
<1>1. PICK ps, js : ps = w.ps /\ js = w.jobs
  OBVIOUS
<1>2. w = Both(ps, js) /\ Accounted(ps, js, cs, ts, L, T) /\ Framed(ps) /\ Lists(ps[p])
  BY <1>1 DEF Fine, Accounted, Tidy
<1>3. Attached(ps, js, p, f, g, u)
  BY <1>2, AttachIs
<1>4. f.id = id /\ g.id = id /\ Registers(ts, p, f.id, ts2) /\ Registers(ts, p, g.id, ts2)
  OBVIOUS
<1>5. CASE ps[p].state = "pending"
  <2>1. PICK ps2 : ps2 = Put(ps, p, Joining(ps[p], f, g))
    OBVIOUS
  <2>2. Accounted(ps2, js, cs, ts2, L, T)
    BY <1>2, <1>4, <1>5, <2>1, AccountedJoined
  <2>3. u = Both(ps2, js)
    BY <1>3, <1>5, <2>1 DEF Attached
  <2> QED
    BY <2>2, <2>3, FineBoth
<1>6. CASE ps[p].state = "fulfilled"
  <2>1. PICK v, b : v = ps[p].result /\ b = FALSE
    OBVIOUS
  <2>2. Settlement(ps, p, v, b) /\ b \in BOOLEAN
    BY <1>6, <2>1 DEF Settlement
  <2>3. PICK js2 : js2 = Append(js, ReactionJob(f, v, b))
    OBVIOUS
  <2>4. Accounted(ps, js2, cs, ts2, L, T)
    BY <1>2, <1>4, <2>2, <2>3, AccountedAnswered
  <2>5. u = Both(ps, js2)
    BY <1>3, <1>6, <2>1, <2>3, Zenon DEF Attached
  <2> QED
    BY <2>4, <2>5, FineBoth
<1>7. CASE ps[p].state = "rejected"
  <2>1. PICK v, b : v = ps[p].result /\ b = TRUE
    OBVIOUS
  <2>2. Settlement(ps, p, v, b) /\ b \in BOOLEAN
    BY <1>7, <2>1 DEF Settlement
  <2>3. PICK js2 : js2 = Append(js, ReactionJob(g, v, b))
    OBVIOUS
  <2>4. Accounted(ps, js2, cs, ts2, L, T)
    BY <1>2, <1>4, <2>2, <2>3, AccountedAnswered
  <2>5. u = Both(ps, js2)
    BY <1>3, <1>7, <2>1, <2>3, Zenon DEF Attached
  <2> QED
    BY <2>4, <2>5, FineBoth
<1> QED
  BY <1>1, <1>2, <1>5, <1>6, <1>7 DEF Lists, States

\* begin_promise_resolution.
LEMMA FineLookup ==
  ASSUME NEW w, NEW cs, NEW ts, NEW L, NEW T, Fine(w, cs, ts, L, T),
         NEW p \in Promises, Untouched(L, T, p), NEW x, NEW o \in Lookups(w, p, x)
  PROVE  Fine(o.w, cs, ts, L, T) /\ Alone(w, o.w, p) /\ o.getter \in BOOLEAN
<1> DEFINE done(u) == [w |-> u, getter |-> FALSE]
           rejected == Settle(w, p, "rejected", TypeError)
           fulfilled == Settle(w, p, "fulfilled", x)
           reading == [w |-> Read(w, p, x), getter |-> TRUE]
<1>1. o \in {done(fulfilled), done(Lock(w, p, x)), done(rejected), reading}
  <2>1. CASE x = p
    <3>1. x \in Promises /\ x \notin Objects
      BY <2>1, CoursesDiffer
    <3> QED
      BY <2>1, <3>1, Zenon DEF Lookups
  <2>2. CASE x \notin Promises \cup Objects
    BY <2>2, Zenon DEF Lookups
  <2>3. CASE x \in Promises /\ x # p
    <3>1. x \notin Objects
      BY <2>3, CoursesDiffer
    <3> QED
      BY <2>3, <3>1, Zenon DEF Lookups
  <2>4. CASE x \in Objects
    <3>1. x \notin Promises /\ x # p
      BY <2>4, CoursesDiffer
    <3> QED
      BY <2>4, <3>1, Zenon DEF Lookups, Read
  <2> QED
    BY <2>1, <2>2, <2>3, <2>4
<1>2. CASE o = done(fulfilled)
  <2>1. o.w = fulfilled /\ o.getter = FALSE
    BY <1>2
  <2>2. Settling("fulfilled")
    BY DEF Settling
  <2> QED
    BY <2>1, <2>2, FineSettle
<1>3. CASE o = done(rejected)
  <2>1. o.w = rejected /\ o.getter = FALSE
    BY <1>3
  <2>2. Settling("rejected")
    BY DEF Settling
  <2> QED
    BY <2>1, <2>2, FineSettle
<1>4. CASE o = done(Lock(w, p, x))
  <2>1. o.w = Lock(w, p, x) /\ o.getter = FALSE
    BY <1>4
  <2> QED
    BY <2>1, FineLock
<1>5. CASE o = reading
  <2>1. o.w = Read(w, p, x) /\ o.getter = TRUE
    BY <1>5
  <2> QED
    BY <2>1, FineRead
<1> HIDE DEF done, fulfilled, rejected, reading
<1> QED
  BY <1>1, <1>2, <1>3, <1>4, <1>5

\* Nor do continuations and resolving functions hold a promise of L.
Unsought(st, cs, L) ==
  /\ \A i \in DOMAIN st : EntryTarget(st[i]) \notin L
  /\ \A i \in DOMAIN cs : CellTarget(cs[i]) \notin L
Preserved(w, st, cs, ts, L, T) == Fine(w, cs, ts, L, T) /\ IsSeq(st) /\ Unsought(st, cs, L)
Standing(L, T) == Preserved(World, stack, cells, thens, L, T)

LEMMA Arrives ==
  ASSUME NEW w, NEW st, NEW cs, NEW ts, NEW L, NEW T, Preserved(w, st, cs, ts, L, T),
         Become(w), stack' = st, cells' = cs, thens' = ts
  PROVE  Standing(L, T)'
<1>1. w = Both(w.ps, w.jobs)
  BY DEF Preserved, Fine
<1>2. promises' = w.ps /\ jobs' = w.jobs
  BY DEF Become
<1>3. World' = Both(promises', jobs')
  BY DEF World, Both
<1>4. World' = w
  BY <1>1, <1>2, <1>3, Zenon
<1>5. Preserved(World', stack', cells', thens', L, T)
  BY <1>4, Zenon
<1> QED
  BY <1>5 DEF Standing

LEMMA Members ==
  ASSUME NEW w, NEW cs, NEW ts, NEW L, NEW T, Fine(w, cs, ts, L, T)
  PROVE  L \subseteq Promises /\ Hidden \notin L /\ Custom \notin L
<1>1. L \subseteq Promises
  BY DEF Fine, Accounted, Spared
<1> QED
  BY <1>1, Capabilities

LEMMA PreservedPush ==
  ASSUME NEW w, NEW st, NEW cs, NEW ts, NEW L, NEW T, Preserved(w, st, cs, ts, L, T),
         NEW e, EntryTarget(e) \notin L, NEW st2, st2 = Append(st, e)
  PROVE  Preserved(w, st2, cs, ts, L, T)
<1>1. IsSeq(st) /\ Unsought(st, cs, L)
  BY DEF Preserved
<1>2. /\ IsSeq(st2) /\ DOMAIN st2 = DOMAIN st \cup {Len(st) + 1}
      /\ \A i \in DOMAIN st : st2[i] = st[i]
      /\ st2[Len(st) + 1] = e
  BY <1>1, Appended
<1> QED
  BY <1>1, <1>2 DEF Preserved, Unsought

LEMMA PreservedPop ==
  ASSUME NEW w, NEW st, NEW cs, NEW ts, NEW L, NEW T, Preserved(w, st, cs, ts, L, T), st # <<>>
  PROVE  Preserved(w, Front(st), cs, ts, L, T)
<1>1. IsSeq(st) /\ Unsought(st, cs, L)
  BY DEF Preserved
<1>2. PICK st2 : st2 = Front(st)
  OBVIOUS
<1>3. /\ IsSeq(st2) /\ DOMAIN st2 = DOMAIN st \ {Len(st)}
      /\ \A i \in DOMAIN st2 : st2[i] = st[i]
  BY <1>1, <1>2, Popped
<1>4. Preserved(w, st2, cs, ts, L, T)
  BY <1>1, <1>3 DEF Preserved, Unsought
<1> QED
  BY <1>2, <1>4

LEMMA PreservedBare ==
  ASSUME NEW w, NEW st, NEW cs, NEW ts, NEW L, NEW T, Preserved(w, st, cs, ts, L, T)
  PROVE  Preserved(w, <<>>, cs, ts, L, T)
BY NoElements DEF Preserved, Unsought

LEMMA PreservedWorld ==
  ASSUME NEW w, NEW st, NEW cs, NEW ts, NEW L, NEW T, Preserved(w, st, cs, ts, L, T),
         NEW u, NEW ts2, Fine(u, cs, ts2, L, T)
  PROVE  Preserved(u, st, cs, ts2, L, T)
BY DEF Preserved

\* How a step ends.
LEMMA ArrivesCalling ==
  ASSUME NEW w, NEW st, NEW cs, NEW ts, NEW L, NEW T, Preserved(w, st, cs, ts, L, T),
         NEW e, EntryTarget(e) \notin L, Become(w), Call(st, e), cells' = cs, thens' = ts
  PROVE  Standing(L, T)'
<1>1. stack' = Append(st, e)
  BY DEF Call
<1>2. PICK st2 : st2 = Append(st, e)
  OBVIOUS
<1>3. Preserved(w, st2, cs, ts, L, T) /\ stack' = st2
  BY <1>1, <1>2, PreservedPush
<1> QED
  BY <1>3, Arrives

LEMMA ArrivesReturning ==
  ASSUME NEW w, NEW st, NEW cs, NEW ts, NEW L, NEW T, Preserved(w, st, cs, ts, L, T),
         Become(w), NEW v, Proceed(st, v) \/ Abandon(st), cells' = cs, thens' = ts
  PROVE  Standing(L, T)'
<1>1. stack' = st
  BY DEF Proceed, Abandon
<1> QED
  BY <1>1, Arrives

LEMMA ArrivesResolving ==
  ASSUME NEW w, NEW st, NEW cs, NEW ts, NEW L, NEW T, Preserved(w, st, cs, ts, L, T),
         NEW p \in Promises, Untouched(L, T, p), NEW x, NEW mode, NEW back,
         Resolve(w, st, p, x, mode, back), cells' = cs, thens' = ts
  PROVE  Standing(L, T)'
<1> DEFINE e == [kind |-> "resolution", frame |-> TRUE, promise |-> p, value |-> x,
                 mode |-> mode, back |-> back]
<1>1. PICK o \in Lookups(w, p, x) :
        /\ Become(o.w)
        /\ o.getter = TRUE => Call(st, e)
        /\ o.getter = FALSE => Proceed(st, back)
  BY Zenon DEF Resolve
<1>2. PICK u : u = o.w
  OBVIOUS
<1>3. Fine(w, cs, ts, L, T)
  BY DEF Preserved
<1>4. Fine(u, cs, ts, L, T) /\ o.getter \in BOOLEAN
  BY <1>2, <1>3, FineLookup
<1>5. Preserved(u, st, cs, ts, L, T) /\ Become(u)
  BY <1>1, <1>2, <1>4, PreservedWorld
<1>6. EntryTarget(e) \notin L
  BY DEF EntryTarget, Untouched
<1> HIDE DEF e
<1>7. CASE o.getter = TRUE
  BY <1>1, <1>5, <1>6, <1>7, ArrivesCalling
<1>8. CASE o.getter = FALSE
  BY <1>1, <1>5, <1>8, ArrivesReturning
<1> QED
  BY <1>4, <1>7, <1>8

LEMMA ArrivesSettling ==
  ASSUME NEW w, NEW st, NEW cs, NEW ts, NEW L, NEW T, Preserved(w, st, cs, ts, L, T),
         NEW cap \in Caps, cap \in Promises => Untouched(L, T, cap), NEW rejected \in BOOLEAN, NEW x,
         SettleReaction(w, st, cap, x, rejected), cells' = cs, thens' = ts
  PROVE  Standing(L, T)'
<1>1. Hidden \notin Promises /\ Custom \notin Promises /\ Hidden # Custom
  BY Capabilities
<1>2. Fine(w, cs, ts, L, T)
  BY DEF Preserved
<1>3. CASE cap = Custom
  <2>1. PICK e : e = [kind |-> "capability", frame |-> TRUE]
    OBVIOUS
  <2>2. Become(w) /\ Call(st, e)
    BY <1>1, <1>3, <2>1, Zenon DEF SettleReaction
  <2>3. EntryTarget(e) \notin L
    BY <1>2, <2>1, Members DEF EntryTarget
  <2> QED
    BY <2>2, <2>3, ArrivesCalling
<1>4. CASE cap = Hidden
  <2>1. Become(w) /\ Proceed(st, Undefined)
    <3>1. CASE rejected
      BY <1>1, <1>4, <3>1, Zenon DEF SettleReaction, SettleCap
    <3>2. CASE ~rejected
      BY <1>1, <1>4, <3>2, Zenon DEF SettleReaction
    <3> QED
      BY <3>1, <3>2
  <2> QED
    BY <2>1, ArrivesReturning
<1>5. CASE cap \in Promises
  <2>1. cap # Custom /\ cap # Hidden
    BY <1>1, <1>5
  <2>2. CASE rejected
    <3>1. PICK u : u = Settle(w, cap, "rejected", x)
      OBVIOUS
    <3>2. Become(u) /\ Proceed(st, Undefined)
      BY <2>1, <2>2, <3>1, Zenon DEF SettleReaction, SettleCap
    <3>3. Fine(u, cs, ts, L, T)
      <4>1. Settling("rejected")
        BY DEF Settling
      <4> QED
        BY <1>2, <1>5, <3>1, <4>1, FineSettle
    <3>4. Preserved(u, st, cs, ts, L, T)
      BY <3>3, PreservedWorld
    <3> QED
      BY <3>2, <3>4, ArrivesReturning
  <2>3. CASE ~rejected
    <3>1. Resolve(w, st, cap, x, "reaction", Undefined)
      BY <1>5, <2>1, <2>3, Zenon DEF SettleReaction
    <3> QED
      BY <1>5, <3>1, ArrivesResolving
  <2> QED
    BY <2>2, <2>3
<1> QED
  BY <1>3, <1>4, <1>5 DEF Caps
-----------------------------------------------------------------------------
(***************************************************************************)
(* What a step finds: what anyone else holds is touched by nobody's thunk. *)
(***************************************************************************)
LEMMA OwedSought ==
  ASSUME NEW ps, NEW js, NEW st, NEW cs, Content(ps, js, st, cs), NEW t, Owed(ps, js, t)
  PROVE  Sought(ps, js, st, cs, t.inner)
<1>1. /\ DOMAIN js \subseteq Int /\ t.via \in Promises
      /\ \A q \in Promises : DOMAIN ps[q].fulfil \subseteq Int /\ q \in Int /\ q >= 0
  BY Positions, Numbers DEF Owed
<1>2. /\ Restoring(t).cap = t.inner /\ Restoring(t).handler.kind # "resolver"
      /\ Passing(t).cap = t.inner /\ Passing(t).handler.kind # "resolver"
  BY DEF Restoring, Passing, Plainly, Thunk, NoHandler
<1>3. ASSUME NEW i \in DOMAIN js, NEW r, NEW v, NEW b, js[i] = ReactionJob(r, v, b),
             r.cap = t.inner, r.handler.kind # "resolver"
      PROVE  Sought(ps, js, st, cs, t.inner)
  <2>1. JobTarget(cs, js[i]) = t.inner
    BY <1>3, JobFields DEF JobTarget, Target
  <2>2. Queue \in Int /\ Queue >= 0
    BY DEF Queue
  <2> QED
    BY <1>1, <2>1, <2>2 DEF Sought, Holds
<1>4. CASE \E i \in DOMAIN ps[t.via].fulfil : ps[t.via].fulfil[i] = Restoring(t)
  <2>1. PICK i \in DOMAIN ps[t.via].fulfil : ps[t.via].fulfil[i] = Restoring(t)
    BY <1>4
  <2>2. Target(cs, ps[t.via].fulfil[i]) = t.inner
    BY <1>2, <2>1 DEF Target
  <2>3. t.via \in Int /\ t.via >= 0 /\ i \in Int
    BY <1>1
  <2> QED
    BY <1>1, <2>2, <2>3 DEF Sought, Holds
<1>5. CASE \E i \in DOMAIN js : js[i] = ReactionJob(Restoring(t), ps[t.via].result, FALSE)
  <2>1. PICK i, b, r : i \in DOMAIN js /\ b = FALSE /\ r = Restoring(t) /\ js[i] = ReactionJob(r, ps[t.via].result, b)
    BY <1>5
  <2> QED
    BY <1>2, <1>3, <2>1, Zenon
<1>6. CASE \E i \in DOMAIN js : js[i] = ReactionJob(Passing(t), ps[t.via].result, TRUE)
  <2>1. PICK i, b, r : i \in DOMAIN js /\ b = TRUE /\ r = Passing(t) /\ js[i] = ReactionJob(r, ps[t.via].result, b)
    BY <1>6
  <2> QED
    BY <1>2, <1>3, <2>1, Zenon
<1> QED
  BY <1>4, <1>5, <1>6 DEF Owed

LEMMA StandingParts ==
  ASSUME NEW L, NEW T, IInv, Standing(L, T)
  PROVE  /\ Fine(World, cells, thens, L, T) /\ IsSeq(stack) /\ Unsought(stack, cells, L)
         /\ World.ps = promises /\ World.jobs = jobs
         /\ Content(promises, jobs, stack, cells) /\ Sole(promises, jobs, stack, cells)
         /\ \A c \in L : Spared(promises, jobs, cells, c)
         /\ \A t \in T : Owed(promises, jobs, t)
<1>1. World.ps = promises /\ World.jobs = jobs
  BY Start
<1> QED
  BY <1>1 DEF Standing, Preserved, Fine, Accounted, IInv, Good, Holding

LEMMA HolderUntouched ==
  ASSUME NEW L, NEW T, IInv, Standing(L, T), NEW p \in Promises, p \notin L,
         NEW k \in Int, k < 0, NEW i \in Int, Holds(promises, jobs, stack, cells, k, i, p)
  PROVE  Untouched(L, T, p)
<1>1. ASSUME NEW t \in T, t.inner = p PROVE FALSE
  <2>1. Sought(promises, jobs, stack, cells, p)
    BY <1>1, StandingParts, OwedSought
  <2>2. PICK m \in Int, j \in Int : m >= 0 /\ Holds(promises, jobs, stack, cells, m, j, p)
    BY <2>1 DEF Sought
  <2>3. k = m
    BY <2>2, StandingParts DEF Sole
  <2> QED
    BY <2>2, <2>3
<1> QED
  BY <1>1 DEF Untouched

\* A promise that a continuation holds.
LEMMA EntryUntouched ==
  ASSUME NEW L, NEW T, IInv, Standing(L, T), NEW p \in Promises,
         NEW i \in DOMAIN stack, EntryTarget(stack[i]) = p
  PROVE  Untouched(L, T, p)
<1>1. p \notin L
  BY StandingParts DEF Unsought
<1>2. i \in Int /\ Frames \in Int /\ Frames < 0
  BY StandingParts, Positions DEF Frames
<1>3. Holds(promises, jobs, stack, cells, Frames, i, p)
  BY DEF Holds
<1> QED
  BY <1>1, <1>2, <1>3, HolderUntouched

\* One that unclaimed resolving functions hold.
LEMMA CellUntouched ==
  ASSUME NEW L, NEW T, IInv, Standing(L, T), NEW p \in Promises,
         NEW i \in DOMAIN cells, CellTarget(cells[i]) = p
  PROVE  Untouched(L, T, p)
<1>1. p \notin L
  BY StandingParts DEF Unsought
<1>2. i \in Int /\ Pairs \in Int /\ Pairs < 0
  BY StandingParts, Positions DEF Pairs
<1>3. Holds(promises, jobs, stack, cells, Pairs, i, p)
  BY DEF Holds
<1> QED
  BY <1>1, <1>2, <1>3, HolderUntouched

\* Cells come and are claimed; no reaction's target changes.
LEMMA FineCells ==
  ASSUME NEW st, NEW ps, NEW js, NEW cs, Content(ps, js, st, cs), NEW ts, NEW L, NEW T,
         NEW w, w.ps = ps, w.jobs = js, Fine(w, cs, ts, L, T),
         NEW cs2, \A c \in DOMAIN cs : cs2[c].promise = cs[c].promise
  PROVE  Fine(w, cs2, ts, L, T)
<1>1. ASSUME NEW i \in DOMAIN js PROVE JobTarget(cs2, js[i]) = JobTarget(cs, js[i])
  <2>1. JobOK(ps, cs, js[i])
    BY DEF Content
  <2> QED
    BY <2>1 DEF JobOK, HandlerOK, JobTarget, Target
<1>2. ASSUME NEW q \in Promises, NEW i \in DOMAIN ps[q].fulfil
      PROVE  /\ Target(cs2, ps[q].fulfil[i]) = Target(cs, ps[q].fulfil[i])
             /\ Target(cs2, ps[q].reject[i]) = Target(cs, ps[q].reject[i])
  <2>1. PICK f, g : f = ps[q].fulfil[i] /\ g = ps[q].reject[i]
    OBVIOUS
  <2>2. PairOK(ps, cs, q, f, g)
    BY <2>1 DEF Content, ListsOK
  <2>3. HandlerOK(cs, f.handler, FALSE) /\ HandlerOK(cs, g.handler, TRUE)
    BY <2>2 DEF PairOK, ReactionOK
  <2>4. Target(cs2, f) = Target(cs, f)
    BY <2>3 DEF HandlerOK, Target
  <2>5. Target(cs2, g) = Target(cs, g)
    BY <2>3 DEF HandlerOK, Target
  <2> QED
    BY <2>1, <2>4, <2>5
<1>3. \A c \in L : Spared(ps, js, cs, c) => Spared(ps, js, cs2, c)
  BY <1>1, <1>2 DEF Spared
<1> QED
  BY <1>3 DEF Fine, Accounted

LEMMA PreservedCells ==
  ASSUME NEW L, NEW T, IInv, Standing(L, T),
         NEW cs, \A c \in DOMAIN cells : cs[c].promise = cells[c].promise,
         \A i \in DOMAIN cs : CellTarget(cs[i]) \notin L
  PROVE  Preserved(World, stack, cs, thens, L, T)
<1>1. Fine(World, cs, thens, L, T)
  <2>1. /\ World.ps = promises /\ World.jobs = jobs /\ Content(promises, jobs, stack, cells)
        /\ Fine(World, cells, thens, L, T)
    BY StandingParts
  <2>2. PICK w : w = World
    OBVIOUS
  <2>3. w.ps = promises /\ w.jobs = jobs /\ Fine(w, cells, thens, L, T)
    BY <2>1, <2>2
  <2>4. \A c \in DOMAIN cells : cs[c].promise = cells[c].promise
    OBVIOUS
  <2>5. Fine(w, cs, thens, L, T)
    BY ONLY <2>1, <2>3, <2>4, FineCells
  <2> QED
    BY <2>2, <2>5
<1> QED
  BY <1>1, StandingParts DEF Preserved, Unsought

LEMMA PreservedClaimed ==
  ASSUME NEW L, NEW T, IInv, Standing(L, T), NEW c \in DOMAIN cells, NEW cs, cs = Claimed(c)
  PROVE  Preserved(World, stack, cs, thens, L, T)
<1>1. cs = [cells EXCEPT ![c].claimed = TRUE]
  BY DEF Claimed
<1>2. Hidden \notin L /\ \A i \in DOMAIN cells : CellTarget(cells[i]) \notin L
  BY StandingParts, Members DEF Unsought
<1>3. IsSeq(cells) /\ CellOK(promises, cells[c])
  BY StandingParts DEF Content
<1>4. Len(cells) \in Nat /\ DOMAIN cells = 1..Len(cells)
  BY <1>3, SequenceDomain
<1>5. DOMAIN cs = DOMAIN cells /\ \A i \in DOMAIN cells : i # c => cs[i] = cells[i]
  BY <1>1
<1>6. cs[c] = [cells[c] EXCEPT !.claimed = TRUE]
  BY <1>1, <1>3 DEF IsSeq
<1>7. cs[c].promise = cells[c].promise /\ cs[c].claimed = TRUE
  <2>1. PICK r : r = cells[c] /\ r = [promise |-> r.promise, claimed |-> r.claimed, native |-> r.native]
    BY <1>3 DEF CellOK
  <2>2. PICK y : y = [r EXCEPT !.claimed = TRUE]
    OBVIOUS
  <2>3. y.promise = r.promise /\ y.claimed = TRUE
    BY ONLY <2>1, <2>2, Z3
  <2> QED
    BY <1>6, <2>1, <2>2, <2>3, Zenon
<1>8. CellTarget(cs[c]) = Hidden
  BY <1>7 DEF CellTarget
<1>9. \A i \in DOMAIN cs : CellTarget(cs[i]) \notin L
  BY <1>2, <1>5, <1>8
<1>10. \A i \in DOMAIN cells : cs[i].promise = cells[i].promise
  BY <1>5, <1>7
<1> QED
  BY <1>9, <1>10, PreservedCells

LEMMA PreservedPair ==
  ASSUME NEW L, NEW T, IInv, Standing(L, T), NEW p, p \notin L, NEW b, NewCell(p, b),
         NEW cs, cells' = cs
  PROVE  Preserved(World, stack, cs, thens, L, T) /\ cs[Len(cells) + 1].promise = p
<1>1. PICK c : c = [promise |-> p, claimed |-> FALSE, native |-> b]
  OBVIOUS
<1>2. cs = Append(cells, c) /\ c.promise = p
  BY <1>1 DEF NewCell
<1>3. IsSeq(cells)
  BY StandingParts DEF Content
<1>4. /\ DOMAIN cs = DOMAIN cells \cup {Len(cells) + 1} /\ cs[Len(cells) + 1] = c
      /\ \A i \in DOMAIN cells : cs[i] = cells[i]
  BY <1>2, <1>3, Appended
<1>5. Hidden \notin L /\ \A i \in DOMAIN cells : CellTarget(cells[i]) \notin L
  BY StandingParts, Members DEF Unsought
<1>6. CellTarget(c) \notin L
  BY <1>2, <1>5 DEF CellTarget
<1>7. \A i \in DOMAIN cs : CellTarget(cs[i]) \notin L
  BY <1>4, <1>5, <1>6
<1>8. \A i \in DOMAIN cells : cs[i].promise = cells[i].promise
  BY <1>4
<1> QED
  BY <1>2, <1>4, <1>7, <1>8, PreservedCells

\* The first job is taken off the queue.
Outside(T, p) == \A t \in T : t.inner # p
LEMMA PreservedBegun ==
  ASSUME NEW L, NEW T, IInv, NEW st, NEW cs, Preserved(World, st, cs, thens, L, T), jobs # <<>>,
         NEW j, j = Head(jobs), Outside(T, JobTarget(cs, j)), NEW ts,
         \/ j.kind = "reaction" /\ ts = Marked(thens, j.id)
         \/ j.kind = "thenable" /\ ts = thens
  PROVE  Preserved(Begun, st, cs, ts, L, T) /\ JobTarget(cs, j) \notin L
<1>1. PICK js, w : js = Tail(jobs) /\ w = Begun
  OBVIOUS
<1>2. w = Both(promises, js) /\ World.ps = promises /\ World.jobs = jobs /\ IsSeq(jobs)
  BY <1>1, WorldIs, Start
<1>3. Accounted(promises, jobs, cs, thens, L, T)
  BY <1>2 DEF Preserved, Fine
<1>4. j = jobs[1] /\ 1 \in DOMAIN jobs
  BY <1>2, Begins
<1>5. JobTarget(cs, j) \notin L
  BY <1>3, <1>4 DEF Accounted, Spared
<1>6. \A t \in T : t.inner # JobTarget(cs, jobs[1])
  BY <1>4 DEF Outside
<1>7. \/ Answering(jobs[1]) /\ ts = Marked(thens, jobs[1].id)
      \/ ~Answering(jobs[1]) /\ ts = thens
  <2>1. CASE j.kind = "reaction" /\ j.id # 0
    BY <1>4, <2>1 DEF Answering
  <2>2. CASE j.kind = "reaction" /\ j.id = 0
    <3>1. IsSeq(thens)
      BY <1>3 DEF Accounted, Once
    <3>2. Len(thens) \in Nat /\ DOMAIN thens = 1..Len(thens)
      BY <3>1, SequenceDomain
    <3>3. j.id \notin DOMAIN thens
      BY <2>2, <3>2
    <3>4. thens = [i \in DOMAIN thens |-> thens[i]]
      BY <3>1 DEF IsSeq
    <3>5. Marked(thens, j.id) = thens
      BY <3>3, <3>4 DEF Marked
    <3> QED
      BY <1>4, <2>2, <3>5 DEF Answering
  <2>3. CASE j.kind = "thenable"
    BY <1>4, <2>3 DEF Answering
  <2> QED
    BY <2>1, <2>2, <2>3
<1>8. Accounted(promises, js, cs, ts, L, T)
  BY <1>1, <1>3, <1>6, <1>7, AccountedBegun
<1>9. Fine(w, cs, ts, L, T)
  BY <1>2, <1>8, FineBoth
<1>10. Preserved(w, st, cs, ts, L, T)
  BY <1>9, PreservedWorld
<1> QED
  BY <1>1, <1>5, <1>10

\* What is created, and where the resolving functions for it come from.
LEMMA PendingForm ==
  /\ Formed(Pending) /\ Pending.state \in States /\ Pending.state # "free" /\ Pending.fulfil = <<>>
  /\ Pending.reject = <<>>
BY PendingIs DEF Formed, Made, States

LEMMA StandingCreated ==
  ASSUME NEW L, NEW T, NEW w, NEW st, NEW cs, NEW ts, Preserved(w, st, cs, ts, L, T),
         NEW p \in Promises, Fresh(w, p), NEW u, u = Create(w, p, Pending)
  PROVE  /\ Preserved(u, st, cs, ts, L, T) /\ Untouched(L, T, p) /\ u.ps[p].state # "free"
         /\ Alone(w, u, p)
<1>1. w.ps[p].state = "free" /\ Fine(w, cs, ts, L, T)
  BY DEF Fresh, Preserved
<1>2. PICK r : r = Pending
  OBVIOUS
<1>3. Formed(r) /\ r.state \in States /\ r.state # "free" /\ r.fulfil = <<>> /\ r.reject = <<>>
  BY <1>2, PendingForm
<1>4. u = Create(w, p, r)
  BY <1>2
<1>5. Fine(u, cs, ts, L, T) /\ Alone(w, u, p) /\ u.ps[p] = r
  BY ONLY p \in Promises, <1>1, <1>3, <1>4, FineCreate
<1>6. Untouched(L, T, p)
  BY <1>1, FreeUntouched
<1> QED
  BY <1>3, <1>5, <1>6, PreservedWorld

\* The calls of the program.
LEMMA ExecuteKeeps ==
  ASSUME NEW L, NEW T, IInv, Standing(L, T), Execute
  PROVE  Standing(L, T)'
<1> DEFINE e == [kind |-> "entry", frame |-> TRUE]
<1>1. Become(World) /\ cells' = cells /\ thens' = thens /\ Call(<<>>, e)
  BY Unmoved DEF Execute
<1>2. Preserved(World, <<>>, cells, thens, L, T)
  BY PreservedBare DEF Standing
<1>3. EntryTarget(e) \notin L
  BY StandingParts, Members DEF EntryTarget
<1> HIDE DEF e
<1> QED
  BY <1>1, <1>2, <1>3, ArrivesCalling

LEMMA ConstructKeeps ==
  ASSUME NEW L, NEW T, IInv, Standing(L, T), NEW p \in Promises, Construct(p) \/ WithResolvers(p)
  PROVE  Standing(L, T)'
<1> DEFINE e == [kind |-> "executor", frame |-> TRUE, cell |-> Len(cells) + 1]
<1>1. PICK u, cs : u = Create(World, p, Pending) /\ cs = cells'
  OBVIOUS
<1>2. /\ Fresh(World, p) /\ Become(u) /\ NewCell(p, FALSE) /\ thens' = thens
      /\ Call(stack, e) \/ stack' = stack
  BY <1>1 DEF Construct, WithResolvers
<1>3. PICK b : b = FALSE
  OBVIOUS
<1>4. NewCell(p, b)
  BY <1>2, <1>3, Zenon
<1>5. p \notin L
  <2>1. Preserved(World, stack, cells, thens, L, T)
    BY DEF Standing
  <2>2. Untouched(L, T, p)
    BY <1>1, <1>2, <2>1, StandingCreated
  <2> QED
    BY <2>2 DEF Untouched
<1>6. Preserved(World, stack, cs, thens, L, T)
  BY <1>1, <1>4, <1>5, PreservedPair
<1>7. Preserved(u, stack, cs, thens, L, T)
  BY <1>1, <1>2, <1>6, StandingCreated
<1>8. EntryTarget(e) \notin L
  BY StandingParts, Members DEF EntryTarget
<1> HIDE DEF e
<1>9. CASE Call(stack, e)
  BY <1>1, <1>2, <1>7, <1>8, <1>9, ArrivesCalling
<1>10. CASE stack' = stack
  BY <1>1, <1>2, <1>7, <1>10, Arrives
<1> QED
  BY <1>2, <1>9, <1>10

LEMMA CreateRejectedKeeps ==
  ASSUME NEW L, NEW T, IInv, Standing(L, T), NEW p \in Promises, NEW e, CreateRejected(p, e)
  PROVE  Standing(L, T)'
<1>1. PICK r : r = [Free EXCEPT !.state = "rejected", !.result = e]
  OBVIOUS
<1>2. PICK u : u = Create(World, p, r)
  OBVIOUS
<1>3. /\ Fresh(World, p) /\ Become(u) /\ cells' = cells /\ stack' = stack /\ thens' = thens
  BY <1>1, <1>2 DEF CreateRejected
<1>4. r = Made("rejected", e, <<>>, <<>>, None)
  <2>1. r = [[Free EXCEPT !.state = "rejected"] EXCEPT !.result = e]
    BY <1>1
  <2>2. [Free EXCEPT !.state = "rejected"] = Made("rejected", None, <<>>, <<>>, None)
    BY DEF Free, Made
  <2>3. [Made("rejected", None, <<>>, <<>>, None) EXCEPT !.result = e] =
          Made("rejected", e, <<>>, <<>>, None)
    BY DEF Made
  <2> QED
    BY <2>1, <2>2, <2>3, Zenon
<1>5. Formed(r) /\ r.state \in States /\ r.fulfil = <<>> /\ r.reject = <<>>
  BY <1>4 DEF Formed, Made, States
<1>6. Preserved(World, stack, cells, thens, L, T)
  BY DEF Standing
<1>7. Fine(World, cells, thens, L, T) /\ World.ps[p].state = "free"
  BY <1>3, <1>6 DEF Preserved, Fresh
<1>8. Fine(u, cells, thens, L, T)
  BY ONLY p \in Promises, <1>2, <1>5, <1>7, FineCreate
<1>9. Preserved(u, stack, cells, thens, L, T)
  BY <1>6, <1>8, PreservedWorld
<1> QED
  BY <1>3, <1>9, Arrives

LEMMA StaticResolveKeeps ==
  ASSUME NEW L, NEW T, IInv, Standing(L, T), NEW p \in Promises, NEW x, StaticResolve(p, x)
  PROVE  Standing(L, T)'
<1>1. PICK u : u = Create(World, p, Pending)
  OBVIOUS
<1>2. /\ Fresh(World, p) /\ Resolve(u, stack, p, x, "static", p) /\ cells' = cells
      /\ thens' = thens
  BY <1>1 DEF StaticResolve
<1>3. Preserved(World, stack, cells, thens, L, T)
  BY DEF Standing
<1>4. Preserved(u, stack, cells, thens, L, T) /\ Untouched(L, T, p)
  BY <1>1, <1>2, <1>3, StandingCreated
<1> QED
  BY <1>2, <1>4, ArrivesResolving

LEMMA TryKeeps ==
  ASSUME NEW L, NEW T, IInv, Standing(L, T), NEW p \in Promises, Try(p)
  PROVE  Standing(L, T)'
<1> DEFINE e == [kind |-> "try", frame |-> TRUE, promise |-> p]
<1>1. PICK u : u = Create(World, p, Pending)
  OBVIOUS
<1>2. Fresh(World, p) /\ Become(u) /\ cells' = cells /\ thens' = thens /\ Call(stack, e)
  BY <1>1 DEF Try
<1>3. Preserved(World, stack, cells, thens, L, T)
  BY DEF Standing
<1>4. Preserved(u, stack, cells, thens, L, T) /\ Untouched(L, T, p)
  BY <1>1, <1>2, <1>3, StandingCreated
<1>5. EntryTarget(e) \notin L
  BY <1>4 DEF EntryTarget, Untouched
<1> HIDE DEF e
<1> QED
  BY <1>2, <1>4, <1>5, ArrivesCalling

LEMMA CallResolvingKeeps ==
  ASSUME NEW L, NEW T, IInv, Standing(L, T), NEW c \in DOMAIN cells, NEW reject \in BOOLEAN, NEW x,
         CallResolving(c, reject, x)
  PROVE  Standing(L, T)'
<1>1. ~cells[c].native /\ CallResolver(stack, c, reject, x) /\ thens' = thens
  BY DEF CallResolving
<1>2. Preserved(World, stack, cells, thens, L, T)
  BY DEF Standing
<1>3. CASE cells[c].claimed
  <2>1. Become(World) /\ Proceed(stack, Undefined) /\ cells' = cells
    BY <1>1, <1>3 DEF CallResolver, Claimable
  <2> QED
    BY <1>1, <1>2, <2>1, ArrivesReturning
<1>4. CASE ~cells[c].claimed
  <2>1. PICK p, cs : p = cells[c].promise /\ cs = Claimed(c)
    OBVIOUS
  <2>2. p \in Promises /\ CellTarget(cells[c]) = p
    BY <1>1, <1>4, <2>1, StandingParts DEF Content, CellOK, CellTarget
  <2>3. Untouched(L, T, p)
    BY <2>2, CellUntouched
  <2>4. Preserved(World, stack, cs, thens, L, T)
    BY <2>1, PreservedClaimed
  <2>5. cells' = cs
    BY <1>1, <1>4, <2>1 DEF CallResolver, Claimable
  <2>6. CASE reject
    <3>1. PICK u : u = Settle(World, p, "rejected", x)
      OBVIOUS
    <3>2. Become(u) /\ Proceed(stack, Undefined)
      BY <1>1, <1>4, <2>1, <2>6, <3>1 DEF CallResolver, Claimable
    <3>3. Fine(World, cs, thens, L, T) /\ Settling("rejected")
      BY <2>4 DEF Preserved, Settling
    <3>4. Fine(u, cs, thens, L, T)
      BY <2>2, <2>3, <3>1, <3>3, FineSettle
    <3>5. Preserved(u, stack, cs, thens, L, T)
      BY <2>4, <3>4, PreservedWorld
    <3> QED
      BY <1>1, <2>5, <3>2, <3>5, ArrivesReturning
  <2>7. CASE ~reject
    <3>1. Resolve(World, stack, p, x, "call", Undefined)
      BY <1>1, <1>4, <2>1, <2>7 DEF CallResolver, Claimable
    <3> QED
      BY <1>1, <2>2, <2>3, <2>4, <2>5, <3>1, ArrivesResolving
  <2> QED
    BY <2>6, <2>7
<1> QED
  BY <1>3, <1>4

\* A reaction whose handlers hold no resolving functions.
LEMMA PlainTarget ==
  ASSUME NEW cs, NEW h, NEW b, PlainHandler(h, b), NEW cap, NEW id,
         NEW f, f = [handler |-> h, cap |-> cap, id |-> id]
  PROVE  Target(cs, f) = cap
<1>1. h.kind # "resolver" /\ f.handler = h /\ f.cap = cap
  BY DEF PlainHandler
<1> QED
  BY <1>1 DEF Target

LEMMA PreservedAttach ==
  ASSUME NEW L, NEW T, NEW w, NEW st, NEW cs, NEW ts, Preserved(w, st, cs, ts, L, T),
         NEW p \in Promises, w.ps[p].state # "free", NEW h, PlainHandler(h, FALSE),
         NEW k, PlainHandler(k, TRUE), NEW cap, cap \notin L, NEW id,
         NEW ts2, Registers(ts, p, id, ts2), NEW u, u = Attach(w, p, h, k, cap, id)
  PROVE  Preserved(u, st, cs, ts2, L, T)
<1>1. PICK f, g : f = [handler |-> h, cap |-> cap, id |-> id] /\ g = [handler |-> k, cap |-> cap, id |-> id]
  OBVIOUS
<1>2. PICK b, c : b = FALSE /\ c = TRUE
  OBVIOUS
<1>3. PlainHandler(h, b) /\ PlainHandler(k, c)
  BY <1>2, Zenon
<1>4. Target(cs, f) = cap /\ Target(cs, g) = cap
  BY ONLY <1>1, <1>3, PlainTarget
<1>5. Fine(w, cs, ts, L, T)
  BY DEF Preserved
<1>6. Target(cs, f) \notin L /\ Target(cs, g) \notin L
  BY <1>4
<1>7. Fine(u, cs, ts2, L, T)
  BY <1>1, <1>5, <1>6, FineAttach
<1> QED
  BY <1>7, PreservedWorld

LEMMA ThenKeeps ==
  ASSUME NEW L, NEW T, IInv, Standing(L, T), NEW p \in Promises,
         NEW h, PlainHandler(h, FALSE), NEW k, PlainHandler(k, TRUE),
         NEW cap \in Promises \cup {Custom}, Then(p, h, k, cap)
  PROVE  Standing(L, T)'
<1>1. PICK ts, id : ts = thens' /\ id = Len(ts)
  OBVIOUS
<1>2. /\ promises[p].state # "free" /\ cells' = cells /\ stack' = stack
      /\ ts = Append(thens, [of |-> p, begun |-> FALSE])
  BY <1>1 DEF Then, Known
<1>3. Preserved(World, stack, cells, thens, L, T) /\ World.ps = promises
  BY StandingParts DEF Standing
<1>4. Registers(thens, p, id, ts)
  <2>1. IsSeq(thens)
    BY <1>3 DEF Preserved, Fine, Accounted, Once
  <2>2. Len(ts) = Len(thens) + 1
    BY <1>2, <2>1, Appended
  <2> QED
    BY <1>1, <1>2, <2>2 DEF Registers
<1>5. CASE cap = Custom
  <2>1. PICK u : u = Attach(World, p, h, k, cap, id)
    OBVIOUS
  <2>2. Become(u)
    BY <1>1, <1>5, <2>1 DEF Then
  <2>3. cap \notin L
    BY <1>5, StandingParts, Members
  <2>4. World.ps[p].state # "free"
    BY <1>2, <1>3
  <2>5. Preserved(u, stack, cells, ts, L, T)
    BY ONLY p \in Promises, PlainHandler(h, FALSE), PlainHandler(k, TRUE), <1>3, <1>4, <2>1, <2>3, <2>4, PreservedAttach
  <2> QED
    BY <1>1, <1>2, <2>2, <2>5, Arrives
<1>6. CASE cap # Custom
  <2>1. PICK w : w = Create(World, cap, Pending)
    OBVIOUS
  <2>2. PICK u : u = Attach(w, p, h, k, cap, id)
    OBVIOUS
  <2>3. Fresh(World, cap) /\ Become(u) /\ cap \in Promises
    BY <1>1, <1>6, <2>1, <2>2 DEF Then
  <2>4. /\ Preserved(w, stack, cells, thens, L, T) /\ Untouched(L, T, cap)
        /\ w.ps[cap].state # "free" /\ Alone(World, w, cap)
    BY <1>3, <2>1, <2>3, StandingCreated
  <2>5. w.ps[p].state # "free" /\ cap \notin L
    BY <1>2, <1>3, <2>4 DEF Alone, Untouched
  <2>6. Preserved(u, stack, cells, ts, L, T)
    BY ONLY p \in Promises, PlainHandler(h, FALSE), PlainHandler(k, TRUE), <1>4, <2>2, <2>4, <2>5, PreservedAttach
  <2> QED
    BY <1>1, <1>2, <2>3, <2>6, Arrives
<1> QED
  BY <1>5, <1>6

LEMMA FinallyKeeps ==
  ASSUME NEW L, NEW T, IInv, Standing(L, T), NEW p \in Promises, NEW d \in Promises, Finally(p, d)
  PROVE  Standing(L, T)'
<1>1. PICK h, k : h = FinallyHandler(FALSE) /\ k = FinallyHandler(TRUE)
  OBVIOUS
<1>2. PlainHandler(h, FALSE) /\ PlainHandler(k, TRUE)
  BY <1>1, Handlers, Zenon
<1>3. Then(p, h, k, d)
  BY <1>1, Zenon DEF Finally
<1> QED
  BY <1>2, <1>3, ThenKeeps
-----------------------------------------------------------------------------
(***************************************************************************)
(* Returns and throws.                                                     *)
(***************************************************************************)
\* A return that settles nothing.
LEMMA ReturnKeeps ==
  ASSUME NEW L, NEW T, IInv, Standing(L, T), ReturnEntry \/ ReturnExecutor \/ ReturnJob
  PROVE  Standing(L, T)'
<1>1. Become(World) /\ cells' = cells /\ thens' = thens
  BY Unmoved DEF ReturnEntry, ReturnExecutor, ReturnJob
<1>2. stack # <<>>
  BY Start DEF ReturnEntry, ReturnExecutor, ReturnJob, Returning
<1>3. Preserved(World, <<>>, cells, thens, L, T) /\ Preserved(World, Front(stack), cells, thens, L, T)
  BY <1>2, PreservedBare, PreservedPop DEF Standing
<1>4. \E v : Proceed(<<>>, v) \/ Proceed(Front(stack), v)
  BY DEF ReturnEntry, ReturnExecutor, ReturnJob
<1>5. PICK v : Proceed(<<>>, v) \/ Proceed(Front(stack), v)
  BY <1>4
<1>6. CASE Proceed(<<>>, v)
  BY <1>1, <1>3, <1>6, ArrivesReturning
<1>7. CASE Proceed(Front(stack), v)
  BY <1>1, <1>3, <1>7, ArrivesReturning
<1> QED
  BY <1>5, <1>6, <1>7

\* The promise that the continuation on top holds.
LEMMA TopUntouched ==
  ASSUME NEW L, NEW T, IInv, Standing(L, T), stack # <<>>, NEW p, p = EntryTarget(Top)
  PROVE  /\ p \in Promises => Untouched(L, T, p)
         /\ Preserved(World, Front(stack), cells, thens, L, T)
         /\ EntryOK(promises, cells, Top)
<1>1. IsSeq(stack)
  BY StandingParts
<1>2. Top = stack[Len(stack)] /\ Len(stack) \in DOMAIN stack
  BY <1>1, Popped DEF Top
<1>3. p \in Promises => Untouched(L, T, p)
  BY <1>2, EntryUntouched
<1> QED
  BY <1>3, PreservedPop, Unwinds DEF Standing

LEMMA ReactionKeeps ==
  ASSUME NEW L, NEW T, IInv, Standing(L, T), stack # <<>>, Top.kind = "reaction",
         NEW b \in BOOLEAN, NEW x, cells' = cells, thens' = thens,
         SettleReaction(World, Front(stack), Top.cap, x, b)
  PROVE  Standing(L, T)'
<1>1. PICK cap : cap = Top.cap
  OBVIOUS
<1>2. EntryTarget(Top) = cap
  BY <1>1 DEF EntryTarget
<1>3. /\ cap \in Promises => Untouched(L, T, cap)
      /\ Preserved(World, Front(stack), cells, thens, L, T)
      /\ EntryOK(promises, cells, Top)
  BY <1>2, TopUntouched
<1>4. cap \in Caps
  BY <1>1, <1>3 DEF EntryOK
<1>5. SettleReaction(World, Front(stack), cap, x, b)
  BY <1>1
<1> QED
  BY <1>3, <1>4, <1>5, ArrivesSettling

LEMMA ReturnReactionKeeps ==
  ASSUME NEW L, NEW T, IInv, Standing(L, T), NEW x, ReturnReaction(x)
  PROVE  Standing(L, T)'
<1>1. stack # <<>> /\ Top.kind = "reaction"
  BY Start DEF ReturnReaction, Returning
<1>2. PICK b \in BOOLEAN : b = FALSE
  OBVIOUS
<1>3. SettleReaction(World, Front(stack), Top.cap, x, b) /\ cells' = cells /\ thens' = thens
  BY <1>2, Zenon DEF ReturnReaction
<1> QED
  BY <1>1, <1>3, ReactionKeeps

LEMMA DrainKeeps ==
  ASSUME NEW L, NEW T, IInv, Standing(L, T), Drain
  PROVE  Standing(L, T)'
<1>1. stack # <<>> /\ ~Top.frame
  BY DEF IInv, Controlled, Drain
<1>2. Top.kind = "reaction"
  BY <1>1, Unwinds DEF EntryOK
<1>3. PICK b \in BOOLEAN : b = FALSE
  OBVIOUS
<1>4. SettleReaction(World, Front(stack), Top.cap, out, b) /\ cells' = cells /\ thens' = thens
  BY <1>3, Zenon DEF Drain
<1> QED
  BY <1>1, <1>2, <1>4, ReactionKeeps

LEMMA ReturnTryKeeps ==
  ASSUME NEW L, NEW T, IInv, Standing(L, T), NEW x, ReturnTry(x)
  PROVE  Standing(L, T)'
<1>1. stack # <<>> /\ Top.kind = "try"
  BY Start DEF ReturnTry, Returning
<1>2. PICK p : p = Top.promise
  OBVIOUS
<1>3. Resolve(World, Front(stack), p, x, "static", p) /\ cells' = cells /\ thens' = thens
  BY <1>2 DEF ReturnTry
<1>4. EntryTarget(Top) = p
  BY <1>1, <1>2 DEF EntryTarget
<1>5. /\ p \in Promises => Untouched(L, T, p)
      /\ Preserved(World, Front(stack), cells, thens, L, T)
      /\ EntryOK(promises, cells, Top)
  BY <1>1, <1>4, TopUntouched
<1>6. p \in Promises
  BY <1>1, <1>2, <1>5 DEF EntryOK
<1> QED
  BY <1>3, <1>5, <1>6, ArrivesResolving

LEMMA ReturnGetterKeeps ==
  ASSUME NEW L, NEW T, IInv, Standing(L, T), NEW callable \in BOOLEAN, ReturnGetter(callable)
  PROVE  Standing(L, T)'
<1>1. stack # <<>> /\ Top.kind = "resolution"
  BY Start DEF ReturnGetter, Returning
<1>2. PICK p, x, back : p = Top.promise /\ x = Top.value /\ back = Top.back
  OBVIOUS
<1>3. EntryTarget(Top) = p
  BY <1>1, <1>2 DEF EntryTarget
<1>4. /\ p \in Promises => Untouched(L, T, p)
      /\ Preserved(World, Front(stack), cells, thens, L, T)
      /\ EntryOK(promises, cells, Top)
  BY <1>1, <1>3, TopUntouched
<1>5. p \in Promises
  BY <1>1, <1>2, <1>4 DEF EntryOK
<1>6. cells' = cells /\ thens' = thens /\ Proceed(Front(stack), back)
  BY <1>2 DEF ReturnGetter
<1>7. Fine(World, cells, thens, L, T) /\ Untouched(L, T, p)
  BY <1>4, <1>5 DEF Preserved
<1>8. CASE callable
  <2>1. PICK u : u = Lock(World, p, x)
    OBVIOUS
  <2>2. Become(u)
    BY <1>2, <1>8, <2>1 DEF ReturnGetter
  <2>3. Fine(u, cells, thens, L, T)
    BY ONLY <1>5, <1>7, <2>1, FineLock
  <2>4. Preserved(u, Front(stack), cells, thens, L, T)
    BY <1>4, <2>3, PreservedWorld
  <2> QED
    BY <1>6, <2>2, <2>4, ArrivesReturning
<1>9. CASE ~callable
  <2>1. PICK u, state : u = Settle(World, p, state, x) /\ state = "fulfilled"
    OBVIOUS
  <2>2. Become(u)
    BY <1>2, <1>9, <2>1 DEF ReturnGetter
  <2>3. Settling(state)
    BY <2>1 DEF Settling
  <2>4. Fine(u, cells, thens, L, T)
    BY <1>5, <1>7, <2>1, <2>3, FineSettle
  <2>5. Preserved(u, Front(stack), cells, thens, L, T)
    BY <1>4, <2>4, PreservedWorld
  <2> QED
    BY <1>6, <2>2, <2>5, ArrivesReturning
<1> QED
  BY <1>8, <1>9

LEMMA RejectThroughKeeps ==
  ASSUME NEW L, NEW T, IInv, Standing(L, T), NEW c \in DOMAIN cells, ~cells[c].native, NEW e,
         stack # <<>>, RejectThrough(c, e), Abandon(Front(stack)), thens' = thens
  PROVE  Standing(L, T)'
<1>1. CASE cells[c].claimed
  <2>1. Become(World) /\ cells' = cells
    BY <1>1, Unmoved DEF RejectThrough, Claimable
  <2>2. Preserved(World, Front(stack), cells, thens, L, T)
    BY PreservedPop DEF Standing
  <2> QED
    BY <2>1, <2>2, ArrivesReturning
<1>2. CASE ~cells[c].claimed
  <2>1. PICK p, cs : p = cells[c].promise /\ cs = Claimed(c)
    OBVIOUS
  <2>2. PICK u : u = Settle(World, p, "rejected", e)
    OBVIOUS
  <2>3. Become(u) /\ cells' = cs
    BY <1>2, <2>1, <2>2 DEF RejectThrough, Claimable
  <2>4. p \in Promises /\ CellTarget(cells[c]) = p
    BY <1>2, <2>1, StandingParts DEF Content, CellOK, CellTarget
  <2>5. Untouched(L, T, p)
    BY <2>4, CellUntouched
  <2>6. Preserved(World, stack, cs, thens, L, T)
    BY <2>1, PreservedClaimed
  <2>7. Fine(World, cs, thens, L, T) /\ Settling("rejected")
    BY <2>6 DEF Preserved, Settling
  <2>8. Fine(u, cs, thens, L, T)
    BY <2>2, <2>4, <2>5, <2>7, FineSettle
  <2>9. Preserved(u, stack, cs, thens, L, T)
    BY <2>6, <2>8, PreservedWorld
  <2>10. Preserved(u, Front(stack), cs, thens, L, T)
    BY <2>9, PreservedPop
  <2> QED
    BY <2>3, <2>10, ArrivesReturning
<1> QED
  BY <1>1, <1>2

\* The reaction below a finally callback.
LEMMA BelowUntouched ==
  ASSUME NEW L, NEW T, IInv, Standing(L, T), stack # <<>>, Top.kind = "finally",
         NEW cap, cap = Last(Front(stack)).cap
  PROVE  /\ cap \in Promises => Untouched(L, T, cap)
         /\ cap \in Caps /\ Front(stack) # <<>>
         /\ Preserved(World, Front(stack), cells, thens, L, T)
         /\ Preserved(World, Front(Front(stack)), cells, thens, L, T)
<1>1. /\ cap \in Caps /\ Front(stack) # <<>> /\ Last(Front(stack)).kind = "reaction"
  BY BelowFinally, Unwinds
<1>2. Preserved(World, Front(stack), cells, thens, L, T)
  BY PreservedPop DEF Standing
<1>3. Preserved(World, Front(Front(stack)), cells, thens, L, T)
  BY <1>1, <1>2, PreservedPop
<1>4. PICK st : st = Front(stack)
  OBVIOUS
<1>5. /\ IsSeq(st) /\ DOMAIN st \subseteq DOMAIN stack /\ \A i \in DOMAIN st : st[i] = stack[i]
  BY <1>4, StandingParts, Popped
<1>6. Len(st) \in DOMAIN st /\ Last(st) = st[Len(st)]
  BY <1>1, <1>4, <1>5, Popped
<1>7. PICK i \in DOMAIN stack : stack[i] = Last(Front(stack))
  BY <1>4, <1>5, <1>6
<1>8. EntryTarget(stack[i]) = cap
  BY <1>1, <1>7 DEF EntryTarget
<1>9. cap \in Promises => Untouched(L, T, cap)
  BY <1>8, EntryUntouched
<1> QED
  BY <1>1, <1>2, <1>3, <1>9

LEMMA ThrowKeeps ==
  ASSUME NEW L, NEW T, IInv, Standing(L, T), NEW e, Throw(e)
  PROVE  Standing(L, T)'
<1>1. stack # <<>> /\ thens' = thens
  BY Start DEF Throw
<1>2. EntryOK(promises, cells, Top)
  BY <1>1, Unwinds
<1>3. PICK b \in BOOLEAN : b = TRUE
  OBVIOUS
<1>4. CASE Top.kind \in {"entry", "capability"}
  <2>1. Abandon(<<>>) /\ promises' = promises /\ jobs' = jobs /\ cells' = cells
    BY <1>4 DEF Throw
  <2>2. Become(World) /\ Preserved(World, <<>>, cells, thens, L, T)
    BY <2>1, Unmoved, PreservedBare DEF Standing
  <2> QED
    BY <1>1, <2>1, <2>2, ArrivesReturning
<1>5. CASE Top.kind \in {"executor", "thenable"}
  <2>1. PICK c : c = Top.cell
    OBVIOUS
  <2>2. RejectThrough(c, e) /\ Abandon(Front(stack))
    BY <1>5, <2>1 DEF Throw
  <2>3. c \in DOMAIN cells /\ ~cells[c].native
    BY <1>2, <1>5, <2>1 DEF EntryOK
  <2> QED
    BY <1>1, <2>2, <2>3, RejectThroughKeeps
<1>6. CASE Top.kind = "reaction"
  <2>1. SettleReaction(World, Front(stack), Top.cap, e, TRUE) /\ cells' = cells
    BY <1>6 DEF Throw
  <2>2. SettleReaction(World, Front(stack), Top.cap, e, b) /\ cells' = cells
    BY <1>3, <2>1, Zenon
  <2> QED
    BY <1>1, <1>6, <2>2, ReactionKeeps
<1>7. CASE Top.kind = "finally"
  <2>1. PICK cap, s : cap = Last(Front(stack)).cap /\ s = Front(Front(stack))
    OBVIOUS
  <2>2. SettleReaction(World, s, cap, e, TRUE) /\ cells' = cells
    BY <1>7, <2>1 DEF Throw
  <2>3. SettleReaction(World, s, cap, e, b)
    BY <1>3, <2>2, Zenon
  <2>4. /\ cap \in Promises => Untouched(L, T, cap)
        /\ cap \in Caps /\ Preserved(World, s, cells, thens, L, T)
    BY <1>1, <1>7, <2>1, BelowUntouched
  <2> QED
    BY <1>1, <2>2, <2>3, <2>4, ArrivesSettling
<1>8. CASE Top.kind \in {"try", "resolution"}
  <2>1. PICK p : p = Top.promise
    OBVIOUS
  <2>2. PICK u : u = Settle(World, p, "rejected", e)
    OBVIOUS
  <2>3. Become(u) /\ Abandon(Front(stack)) /\ cells' = cells
    BY <1>8, <2>1, <2>2 DEF Throw
  <2>4. EntryTarget(Top) = p /\ p \in Promises
    BY <1>2, <1>8, <2>1 DEF EntryTarget, EntryOK
  <2>5. Untouched(L, T, p) /\ Preserved(World, Front(stack), cells, thens, L, T)
    BY <1>1, <2>4, TopUntouched
  <2>6. Fine(World, cells, thens, L, T) /\ Settling("rejected")
    BY <2>5 DEF Preserved, Settling
  <2>7. Fine(u, cells, thens, L, T)
    BY <2>2, <2>4, <2>5, <2>6, FineSettle
  <2>8. Preserved(u, Front(stack), cells, thens, L, T)
    BY <2>5, <2>7, PreservedWorld
  <2> QED
    BY <1>1, <2>3, <2>8, ArrivesReturning
<1> QED
  BY <1>2, <1>4, <1>5, <1>6, <1>7, <1>8 DEF EntryOK

\* finish_promise_finally_callback: d is derived from q by the thunk.
LEMMA OwedAttached ==
  ASSUME NEW v, NEW cs, NEW ts, NEW L, NEW T, Fine(v, cs, ts, L, T), NEW t,
         NEW d \in Promises, InCourse(v.ps, d, None), t.inner = d,
         NEW q \in Promises, v.ps[q].state # "free", t.via = q,
         NEW h, h = Thunk(t.original, t.rejected), NEW u, u = Attach(v, q, h, NoHandler, d, 0)
  PROVE  Owed(u.ps, u.jobs, t)
<1>1. PICK ps, js, f, g, k : ps = v.ps /\ js = v.jobs /\ f = Restoring(t) /\ g = Passing(t) /\ k = NoHandler
  OBVIOUS
<1>2. v = Both(ps, js) /\ Framed(ps) /\ IsSeq(js) /\ Lists(ps[q])
  BY <1>1 DEF Fine, Accounted, Tidy
<1>3. f = [handler |-> h, cap |-> d, id |-> 0] /\ g = [handler |-> k, cap |-> d, id |-> 0]
  BY <1>1, Zenon DEF Restoring, Passing, Plainly
<1>4. PICK id : id = 0
  OBVIOUS
<1>5. Attached(ps, js, q, f, g, u)
  <2>1. Attached(ps, js, q, f, g, Attach(Both(ps, js), q, h, k, d, id))
    BY <1>2, <1>3, <1>4, AttachIs
  <2> QED
    BY <1>1, <1>2, <1>4, <2>1, Zenon
<1>6. CASE ps[q].state = "pending"
  <2>1. PICK r : r = Joining(ps[q], f, g)
    OBVIOUS
  <2>2. PICK a, b : a = Append(ps[q].fulfil, f) /\ b = Append(ps[q].reject, g)
    OBVIOUS
  <2>3. r = Made(ps[q].state, ps[q].result, a, b, ps[q].course)
    BY <2>1, <2>2 DEF Joining
  <2>4. Formed(r) /\ r.state = ps[q].state /\ r.fulfil = a /\ r.reject = b /\ r.course = ps[q].course
    BY <2>3 DEF Formed, Made
  <2>5. PICK ps2 : ps2 = Put(ps, q, r)
    OBVIOUS
  <2>6. u.ps = ps2 /\ u.jobs = js
    BY <1>5, <1>6, <2>1, <2>5, BothParts DEF Attached
  <2>7. ps2[q] = r /\ \A p \in Promises : p # q => ps2[p] = ps[p]
    BY <1>2, <2>4, <2>5, FramedPut
  <2>8. IsSeq(ps[q].fulfil) /\ IsSeq(ps[q].reject) /\ DOMAIN ps[q].fulfil = DOMAIN ps[q].reject
    BY <1>2 DEF Lists
  <2>9. PICK n : n = Len(ps[q].fulfil) + 1
    OBVIOUS
  <2>10. Len(ps[q].fulfil) = Len(ps[q].reject)
    <3>1. PICK x, y : x = ps[q].fulfil /\ y = ps[q].reject
      OBVIOUS
    <3>2. Len(x) = Len(y)
      BY <2>8, <3>1, SequenceDomain
    <3> QED
      BY <3>1, <3>2
  <2>11. n \in DOMAIN a /\ a[n] = f /\ b[n] = g
    BY <2>2, <2>8, <2>9, <2>10, Appended
  <2>12. InCourse(ps2, d, None)
    BY <1>1, <2>4, <2>7 DEF InCourse
  <2>13. ps2[q].state = "pending" /\ ps2[q].fulfil = a /\ ps2[q].reject = b
    BY <1>6, <2>4, <2>7
  <2>14. Owed(ps2, js, t)
    BY <1>1, <2>11, <2>12, <2>13 DEF Owed
  <2> QED
    BY <2>6, <2>14
<1>7. CASE ps[q].state = "fulfilled"
  <2>1. PICK j, js2 : j = ReactionJob(f, ps[q].result, FALSE) /\ js2 = Append(js, j)
    OBVIOUS
  <2>2. u = Both(ps, js2)
    BY <1>5, <1>7, <2>1, Zenon DEF Attached
  <2>3. u.ps = ps /\ u.jobs = js2
    BY <2>2, BothParts, Zenon
  <2>4. js2 = Append(js, j)
    BY <2>1
  <2>5. Len(js) + 1 \in DOMAIN js2 /\ js2[Len(js) + 1] = j
    BY ONLY <1>2, <2>4, Appended
  <2>6. \E i \in DOMAIN js2 : js2[i] = ReactionJob(Restoring(t), ps[q].result, FALSE)
    BY <1>1, <2>1, <2>5, Zenon
  <2>7. InCourse(ps, d, None)
    BY <1>1
  <2>8. Owed(ps, js2, t)
    BY <1>7, <2>6, <2>7, Zenon DEF Owed
  <2> QED
    BY <2>3, <2>8
<1>8. CASE ps[q].state = "rejected"
  <2>1. PICK j, js2 : j = ReactionJob(g, ps[q].result, TRUE) /\ js2 = Append(js, j)
    OBVIOUS
  <2>2. u = Both(ps, js2)
    BY <1>5, <1>8, <2>1, Zenon DEF Attached
  <2>3. u.ps = ps /\ u.jobs = js2
    BY <2>2, BothParts, Zenon
  <2>4. js2 = Append(js, j)
    BY <2>1
  <2>5. Len(js) + 1 \in DOMAIN js2 /\ js2[Len(js) + 1] = j
    BY ONLY <1>2, <2>4, Appended
  <2>6. \E i \in DOMAIN js2 : js2[i] = ReactionJob(Passing(t), ps[q].result, TRUE)
    BY <1>1, <2>1, <2>5, Zenon
  <2>7. InCourse(ps, d, None)
    BY <1>1
  <2>8. Owed(ps, js2, t)
    BY <1>8, <2>6, <2>7, Zenon DEF Owed
  <2> QED
    BY <2>3, <2>8
<1> QED
  BY <1>1, <1>2, <1>6, <1>7, <1>8 DEF Lists, States

LEMMA PreservedMore ==
  ASSUME NEW L, NEW T, NEW w, NEW st, NEW cs, NEW ts, Preserved(w, st, cs, ts, L, T),
         NEW t, Owed(w.ps, w.jobs, t), NEW T2, T2 = T \cup {t}
  PROVE  Preserved(w, st, cs, ts, L, T2)
BY DEF Preserved, Fine, Accounted

LEMMA PreservedMapped ==
  ASSUME NEW L, NEW T, NEW w, NEW st, NEW cs, NEW ts, Preserved(w, st, cs, ts, L, T),
         NEW d \in Promises, Fresh(w, d), NEW q \in Promises, w.ps[q].state # "free",
         NEW t, t.inner = d, t.via = q, NEW h, h = Thunk(t.original, t.rejected), PlainHandler(h, FALSE),
         NEW u, u = Attach(Create(w, d, Pending), q, h, NoHandler, d, 0), NEW T2, T2 = T \cup {t}
  PROVE  Preserved(u, st, cs, ts, L, T2)
<1>1. PICK v : v = Create(w, d, Pending)
  OBVIOUS
<1>2. /\ Preserved(v, st, cs, ts, L, T) /\ Untouched(L, T, d) /\ v.ps[d].state # "free"
      /\ Alone(w, v, d)
  BY <1>1, StandingCreated
<1>3. v.ps[q].state # "free" /\ d \notin L
  BY <1>2 DEF Alone, Untouched
<1>4. PICK k : k = NoHandler /\ PlainHandler(k, TRUE)
  BY Handlers
<1>5. PICK id : id = 0
  OBVIOUS
<1>6. Registers(ts, q, id, ts)
  BY <1>5 DEF Registers
<1>7. u = Attach(v, q, h, k, d, id)
  BY <1>1, <1>4, <1>5, Zenon
<1>8. Preserved(u, st, cs, ts, L, T)
  BY ONLY q \in Promises, PlainHandler(h, FALSE), <1>2, <1>3, <1>4, <1>6, <1>7, PreservedAttach
<1>9. InCourse(v.ps, d, None)
  <2>1. w.ps = [p \in Promises |-> w.ps[p]] /\ w = Both(w.ps, w.jobs)
    BY DEF Preserved, Fine, Accounted, Tidy, Framed
  <2>2. v = Both(Put(w.ps, d, Pending), w.jobs)
    BY <1>1, <2>1, CreateIs
  <2>3. v.ps = Put(w.ps, d, Pending)
    BY <2>2, BothParts
  <2>4. v.ps[d] = Pending
    BY <2>1, <2>3 DEF Put
  <2> QED
    BY <2>4, PendingIs DEF InCourse
<1>10. Fine(v, cs, ts, L, T)
  BY <1>2 DEF Preserved
<1>11. u = Attach(v, q, h, NoHandler, d, 0)
  BY <1>1, Zenon
<1>12. d \in Promises /\ t.inner = d /\ q \in Promises /\ t.via = q /\ h = Thunk(t.original, t.rejected)
  OBVIOUS
<1>13. Owed(u.ps, u.jobs, t)
  BY ONLY <1>3, <1>9, <1>10, <1>11, <1>12, OwedAttached
<1> QED
  BY <1>8, <1>13, PreservedMore

LEMMA ThunkPlain ==
  ASSUME IInv, stack # <<>>, Top.kind = "finally",
         NEW h, h = Thunk(Top.original, Restore(Top.rejected))
  PROVE  PlainHandler(h, FALSE)
<1>1. EntryOK(promises, cells, Top)
  BY Unwinds
<1>2. Top.rejected \in BOOLEAN /\ Top.original \in (IF Top.rejected THEN Reasons ELSE Settleable)
  BY <1>1 DEF EntryOK
<1>3. h.kind = "thunk" /\ h.value = Top.original /\ h.rejected = Top.rejected
  BY DEF Thunk, Restore
<1> QED
  BY <1>2, <1>3 DEF PlainHandler

\* What the callback was called for, and what it returned.
Duty(q, d) == [inner |-> d, via |-> q, original |-> Top.original, rejected |-> Top.rejected]

\* The world u in which d, of what the callback returned, is the outcome of the handler: it
\* settles the reaction below the callback, unless a getter for q is to be called first.
GetterOf(q, x, d) ==
  [kind |-> "resolution", frame |-> TRUE, promise |-> q, value |-> x, mode |-> "internal", back |-> d]
Derives(u, x, q, d) ==
  /\ promises[d].state = "free"
  /\ \/ SettleReaction(u, Front(Front(stack)), Last(Front(stack)).cap, d, FALSE)
     \/ promises[q].state = "free" /\ Become(u) /\ Call(Front(stack), GetterOf(q, x, d))

LEMMA FinallyDerives ==
  ASSUME NEW L, NEW T, IInv, Preserved(World, <<>>, cells, thens, L, T),
         NEW x \in Held, NEW q \in Promises, NEW d \in Promises,
         ReturnFinally(x, q, d), NEW t, t = Duty(q, d), NEW T2, T2 = T \cup {t}
  PROVE  \E u : Preserved(u, <<>>, cells, thens, L, T2) /\ Derives(u, x, q, d)
<1>1. PICK cap : cap = Last(Front(stack)).cap
  OBVIOUS
<1>2. PICK h : h = Thunk(Top.original, Restore(Top.rejected))
  OBVIOUS
<1>3. PICK s, r : s = Front(Front(stack)) /\ r = Front(stack)
  OBVIOUS
<1>4. Running /\ Top.kind = "finally" /\ stack # <<>>
  BY Start DEF ReturnFinally, Returning
<1>5. PlainHandler(h, FALSE)
  BY <1>2, <1>4, ThunkPlain
<1>6. t.inner = d /\ t.via = q /\ h = Thunk(t.original, t.rejected)
  BY <1>2 DEF Duty, Restore
<1>7. World.ps = promises /\ x \in Values /\ Exists(promises, x) /\ Table(promises)
  BY Start, HeldOK DEF Good, Content
<1>8. d \in Promises /\ q \in Promises /\ T2 = T \cup {t} /\ Preserved(World, <<>>, cells, thens, L, T)
  OBVIOUS
<1>9. CASE x \in Promises
  <2>1. PICK u : u = Attach(Create(World, d, Pending), q, h, NoHandler, d, 0)
    OBVIOUS
  <2>2. q = x /\ Fresh(World, d) /\ SettleReaction(u, s, cap, d, FALSE)
    BY <1>1, <1>2, <1>3, <1>9, <2>1, Zenon DEF ReturnFinally
  <2>3. World.ps[q].state # "free" /\ promises[d].state = "free"
    BY <1>7, <1>9, <2>2 DEF Exists, Fresh
  <2>4. Preserved(u, <<>>, cells, thens, L, T2)
    BY ONLY <1>5, <1>6, <1>8, <2>1, <2>2, <2>3, PreservedMapped
  <2> QED
    BY <1>1, <1>3, <2>2, <2>3, <2>4, Zenon DEF Derives
<1>10. CASE x \notin Promises
  <2>1. Fresh(World, q) /\ d = q + 1
    BY <1>10, Zenon DEF ReturnFinally
  <2>2. PICK e : e = GetterOf(q, x, d)
    OBVIOUS
  <2>3. PICK v : v = Create(World, q, Pending)
    OBVIOUS
  <2>4. PICK o \in Lookups(v, q, x) :
          IF o.getter
          THEN /\ Become(Attach(Create(o.w, d, Pending), q, h, NoHandler, d, 0))
               /\ Call(r, e)
          ELSE SettleReaction(Attach(Create(o.w, d, Pending), q, h, NoHandler, d, 0), s, cap, d, FALSE)
    <3>1. \E o \in Lookups(v, q, x) :
            IF o.getter
            THEN /\ Become(Attach(Create(o.w, d, Pending), q, h, NoHandler, d, 0))
                 /\ Call(r, e) /\ UNCHANGED active
            ELSE SettleReaction(Attach(Create(o.w, d, Pending), q, h, NoHandler, d, 0), s, cap, d, FALSE)
      BY <1>1, <1>2, <1>3, <1>10, <2>2, <2>3, Zenon DEF ReturnFinally, GetterOf
    <3> QED
      BY <3>1, Zenon
  <2>5. PICK w : w = o.w
    OBVIOUS
  <2>6. PICK u : u = Attach(Create(w, d, Pending), q, h, NoHandler, d, 0)
    OBVIOUS
  <2>7. /\ Preserved(v, <<>>, cells, thens, L, T)
        /\ Untouched(L, T, q) /\ v.ps[q].state # "free" /\ Alone(World, v, q)
    BY <1>8, <2>1, <2>3, StandingCreated
  <2>8. Fine(w, cells, thens, L, T) /\ Alone(v, w, q) /\ o.getter \in BOOLEAN
    <3>1. Fine(v, cells, thens, L, T)
      BY <2>7 DEF Preserved
    <3> QED
      BY <2>4, <2>5, <2>7, <3>1, FineLookup
  <2>9. Preserved(w, <<>>, cells, thens, L, T)
    BY <2>7, <2>8, PreservedWorld
  <2>10. w.ps[q].state # "free" /\ Later(promises, w.ps, q)
    BY <1>7, <2>7, <2>8 DEF Alone, Later, Same
  <2>11. promises[q].state = "free" /\ Preceded(promises, q)
    BY <2>1, WorldIs, FreshIs
  <2>12. Fresh(w, d) /\ promises[d].state = "free"
    BY <1>7, <2>1, <2>10, <2>11, NextFresh
  <2>13. Preserved(u, <<>>, cells, thens, L, T2)
    BY ONLY <1>5, <1>6, <1>8, <2>6, <2>9, <2>10, <2>12, PreservedMapped
  <2>14. SettleReaction(u, s, cap, d, FALSE) \/ (Become(u) /\ Call(r, e))
    BY <2>4, <2>5, <2>6, <2>8, Zenon
  <2> QED
    BY <1>1, <1>3, <2>2, <2>11, <2>12, <2>13, <2>14, Zenon DEF Derives
<1> QED
  BY <1>9, <1>10

LEMMA ReturnFinallyKeeps ==
  ASSUME NEW L, NEW T, IInv, Standing(L, T), NEW x \in Held, NEW q \in Promises, NEW d \in Promises,
         ReturnFinally(x, q, d), NEW t, t = Duty(q, d), NEW T2, T2 = T \cup {t}
  PROVE  Standing(L, T2)'
<1>1. PICK cap, s, r : cap = Last(Front(stack)).cap /\ s = Front(Front(stack)) /\ r = Front(stack)
  OBVIOUS
<1>2. Running /\ Top.kind = "finally" /\ cells' = cells /\ thens' = thens /\ stack # <<>>
  BY Start DEF ReturnFinally, Returning
<1>3. /\ cap \in Promises => Untouched(L, T, cap) /\ promises[cap].state = "pending"
      /\ cap \in Caps
      /\ Preserved(World, r, cells, thens, L, T) /\ Preserved(World, s, cells, thens, L, T)
  BY <1>1, <1>2, BelowUntouched, BelowFinally DEF InCourse
<1>4. Preserved(World, <<>>, cells, thens, L, T) /\ World.ps = promises
  BY <1>3, PreservedBare, Start
<1>5. PICK u : Preserved(u, <<>>, cells, thens, L, T2) /\ Derives(u, x, q, d)
  BY <1>4, FinallyDerives
<1>6. Preserved(u, s, cells, thens, L, T2) /\ Preserved(u, r, cells, thens, L, T2)
  BY <1>3, <1>5 DEF Preserved
<1>7. t.inner = d
  BY DEF Duty
<1>8. CASE SettleReaction(u, s, cap, d, FALSE)
  <2>1. cap \in Promises => Untouched(L, T2, cap)
    BY <1>3, <1>5, <1>7 DEF Untouched, Derives
  <2>2. PICK b \in BOOLEAN : b = FALSE
    OBVIOUS
  <2>3. SettleReaction(u, s, cap, d, b)
    BY <1>8, <2>2, Zenon
  <2> QED
    BY <1>2, <1>3, <1>6, <2>1, <2>3, ArrivesSettling
<1>9. CASE promises[q].state = "free" /\ Become(u) /\ Call(r, GetterOf(q, x, d))
  <2>1. PICK e : e = GetterOf(q, x, d)
    OBVIOUS
  <2>2. EntryTarget(e) = q
    BY <2>1 DEF GetterOf, EntryTarget
  <2>3. q \notin L
    BY <1>4, <1>9 DEF Preserved, Fine, Accounted, Spared, InCourse
  <2>4. Become(u) /\ Call(r, e) /\ EntryTarget(e) \notin L
    BY <1>9, <2>1, <2>2, <2>3
  <2> QED
    BY <1>2, <1>6, <2>4, ArrivesCalling
<1> QED
  BY <1>1, <1>5, <1>8, <1>9, Zenon DEF Derives

-----------------------------------------------------------------------------
(***************************************************************************)
(* Jobs other than the thunks of T.                                        *)
(***************************************************************************)
Another(T) == jobs # <<>> => Outside(T, JobTarget(cells, Head(jobs)))

\* The job that begins.
LEMMA JobBegins ==
  ASSUME NEW L, NEW T, IInv, Standing(L, T), stack = <<>>, jobs # <<>>, Another(T),
         NEW j, j = Head(jobs), NEW ts,
         \/ j.kind = "reaction" /\ ts = Marked(thens, j.id)
         \/ j.kind = "thenable" /\ ts = thens
  PROVE  /\ Preserved(Begun, <<>>, cells, ts, L, T) /\ JobOK(promises, cells, j)
         /\ JobTarget(cells, j) \in Promises => Untouched(L, T, JobTarget(cells, j))
         /\ JobTarget(cells, j) \notin L
<1>1. Preserved(World, <<>>, cells, thens, L, T)
  BY PreservedBare DEF Standing
<1>2. Outside(T, JobTarget(cells, j))
  BY DEF Another
<1>3. Preserved(Begun, <<>>, cells, ts, L, T) /\ JobTarget(cells, j) \notin L
  BY <1>1, <1>2, PreservedBegun
<1>4. JobOK(promises, cells, j)
  BY Beginning
<1> QED
  BY <1>2, <1>3, <1>4 DEF Untouched, Outside

LEMMA JobSettles ==
  ASSUME NEW L, NEW T, IInv, Standing(L, T), stack = <<>>, jobs # <<>>, Another(T),
         NEW j, j = Head(jobs), j.kind = "reaction", j.handler.kind # "resolver",
         NEW b \in BOOLEAN, NEW x, cells' = cells, NEW ts, ts = Marked(thens, j.id), thens' = ts,
         SettleReaction(Begun, <<>>, j.cap, x, b)
  PROVE  Standing(L, T)'
<1>1. PICK cap : cap = j.cap
  OBVIOUS
<1>2. JobTarget(cells, j) = cap
  BY <1>1 DEF JobTarget, Target
<1>3. /\ Preserved(Begun, <<>>, cells, ts, L, T) /\ JobOK(promises, cells, j)
      /\ cap \in Promises => Untouched(L, T, cap)
  BY <1>2, JobBegins
<1>4. cap \in Caps
  BY <1>1, <1>3 DEF JobOK
<1>5. SettleReaction(Begun, <<>>, cap, x, b)
  BY <1>1
<1> QED
  BY <1>3, <1>4, <1>5, ArrivesSettling

\* The stack of a handler that calls a frame.
LEMMA PreservedWaiting ==
  ASSUME NEW L, NEW T, NEW w, NEW cs, NEW ts, Preserved(w, <<>>, cs, ts, L, T),
         NEW cap, cap \notin L, NEW s, s = <<Waiting(cap)>>
  PROVE  Preserved(w, s, cs, ts, L, T)
<1>1. PICK e : e = Waiting(cap)
  OBVIOUS
<1>2. EntryTarget(e) = cap
  BY <1>1 DEF EntryTarget, Waiting
<1>3. s = Append(<<>>, e)
  BY <1>1
<1>4. EntryTarget(e) \notin L
  BY <1>2
<1> QED
  BY ONLY Preserved(w, <<>>, cs, ts, L, T), <1>3, <1>4, PreservedPush

LEMMA RunResolverKeeps ==
  ASSUME NEW L, NEW T, IInv, Standing(L, T), Another(T), RunReaction, Head(jobs).handler.kind = "resolver"
  PROVE  Standing(L, T)'
<1>1. PICK j : j = Head(jobs)
  OBVIOUS
<1>2. stack = <<>> /\ jobs # <<>> /\ j.kind = "reaction" /\ j.handler.kind = "resolver"
  BY <1>1 DEF RunReaction, Begin
<1>3. PICK c, p, x, b : c = j.handler.cell /\ p = cells[c].promise /\ x = j.argument /\ b = j.handler.reject
  OBVIOUS
<1>4. PICK ts, cs : ts = Marked(thens, j.id) /\ cs = Claimed(c)
  OBVIOUS
<1>5. thens' = ts /\ cells' = cs
  BY <1>1, <1>2, <1>3, <1>4, Zenon DEF RunReaction, Began, Marked
<1>6. JobTarget(cells, j) = p
  BY <1>2, <1>3 DEF JobTarget, Target
<1>7. JobOK(promises, cells, j) /\ (p \in Promises => Untouched(L, T, p))
  BY <1>1, <1>2, <1>4, <1>6, JobBegins
<1>8. c \in DOMAIN cells /\ j.cap = Hidden /\ b \in BOOLEAN
  BY <1>2, <1>3, <1>7 DEF JobOK, HandlerOK
<1>9. p \in Promises /\ CellOK(promises, cells[c])
  BY <1>3, <1>8, StandingParts DEF Content, CellOK
<1>10. Preserved(Begun, <<>>, cs, ts, L, T)
  <2>1. Preserved(World, stack, cs, thens, L, T)
    BY <1>4, <1>8, PreservedClaimed
  <2>2. Preserved(World, <<>>, cs, thens, L, T)
    BY <1>2, <2>1
  <2>3. JobTarget(cs, j) = p
    <3>1. cs[c].promise = p
      <4>1. cs[c] = [cells[c] EXCEPT !.claimed = TRUE]
        BY <1>4, <1>8 DEF Claimed
      <4>2. PICK r : r = cells[c] /\ r = [promise |-> r.promise, claimed |-> r.claimed, native |-> r.native]
        BY <1>9 DEF CellOK
      <4>3. PICK y : y = [r EXCEPT !.claimed = TRUE]
        OBVIOUS
      <4>4. y.promise = r.promise
        BY ONLY <4>2, <4>3, Z3
      <4> QED
        BY <1>3, <4>1, <4>2, <4>3, <4>4, Zenon
    <3> QED
      BY <1>2, <1>3, <3>1 DEF JobTarget, Target
  <2>4. Outside(T, JobTarget(cs, j))
    BY <1>1, <1>2, <1>6, <2>3 DEF Another
  <2> QED
    BY <1>1, <1>2, <1>4, <2>2, <2>4, PreservedBegun
<1>11. Fine(Begun, cs, ts, L, T) /\ Untouched(L, T, p)
  BY <1>7, <1>9, <1>10 DEF Preserved
<1>12. CASE b
  <2>1. PICK u, state : u = Settle(Begun, p, state, x) /\ state = "rejected"
    OBVIOUS
  <2>2. Become(u) /\ Proceed(<<>>, Undefined)
    BY <1>1, <1>2, <1>3, <1>12, <2>1, Zenon DEF RunReaction
  <2>3. Settling(state)
    BY <2>1 DEF Settling
  <2>4. Fine(u, cs, ts, L, T)
    BY <1>9, <1>11, <2>1, <2>3, FineSettle
  <2>5. Preserved(u, <<>>, cs, ts, L, T)
    BY <1>10, <2>4, PreservedWorld
  <2> QED
    BY <1>5, <2>2, <2>5, ArrivesReturning
<1>13. CASE ~b
  <2>1. PICK e : e = [kind |-> "resolution", frame |-> TRUE, promise |-> p, value |-> x,
                      mode |-> "call", back |-> Undefined]
    OBVIOUS
  <2>2. PICK s : s = <<Waiting(j.cap)>>
    OBVIOUS
  <2>3. PICK o \in Lookups(Begun, p, x) :
          /\ Become(o.w)
          /\ o.getter = TRUE => Call(s, e)
          /\ o.getter = FALSE => Proceed(<<>>, Undefined)
    <3>1. \E o \in Lookups(Begun, p, x) :
            /\ Become(o.w)
            /\ IF o.getter THEN active' = TRUE /\ Call(s, e)
               ELSE Proceed(<<>>, Undefined) /\ active' = FALSE
      BY <1>1, <1>2, <1>3, <1>13, <2>1, <2>2, Zenon DEF RunReaction, Waiting
    <3> QED
      BY <3>1, Zenon
  <2>4. PICK u : u = o.w
    OBVIOUS
  <2>5. Fine(u, cs, ts, L, T) /\ o.getter \in BOOLEAN
    BY <1>9, <1>11, <2>3, <2>4, FineLookup
  <2>6. Preserved(u, <<>>, cs, ts, L, T) /\ Become(u)
    BY <1>10, <2>3, <2>4, <2>5, PreservedWorld
  <2>7. CASE o.getter = FALSE
    BY <1>5, <2>3, <2>6, <2>7, ArrivesReturning
  <2>8. CASE o.getter = TRUE
    <3>1. j.cap \notin L
      BY <1>8, StandingParts, Members
    <3>2. Preserved(u, s, cs, ts, L, T)
      BY <2>2, <2>6, <3>1, PreservedWaiting
    <3>3. EntryTarget(e) \notin L
      BY <1>11, <2>1 DEF EntryTarget, Untouched
    <3> QED
      BY <1>5, <2>3, <2>6, <2>8, <3>2, <3>3, ArrivesCalling
  <2> QED
    BY <2>5, <2>7, <2>8
<1> QED
  BY <1>8, <1>12, <1>13

LEMMA RunReactionKeeps ==
  ASSUME NEW L, NEW T, IInv, Standing(L, T), Another(T), RunReaction
  PROVE  Standing(L, T)'
<1>1. PICK j : j = Head(jobs)
  OBVIOUS
<1>2. stack = <<>> /\ jobs # <<>> /\ j.kind = "reaction"
  BY <1>1 DEF RunReaction, Begin
<1>3. PICK ts : ts = Marked(thens, j.id)
  OBVIOUS
<1>4. thens' = ts
  BY <1>1, <1>3, Zenon DEF RunReaction, Began, Marked
<1>5. /\ Preserved(Begun, <<>>, cells, ts, L, T) /\ JobOK(promises, cells, j)
      /\ JobTarget(cells, j) \notin L
  BY <1>1, <1>2, <1>3, JobBegins
<1>6. j.handler.kind # "resolver" => j.cap \notin L
  BY <1>2, <1>5 DEF JobTarget, Target
<1>7. CASE j.handler.kind = "none"
  <2>1. PICK b, x : b = j.rejected /\ x = j.argument
    OBVIOUS
  <2>2. SettleReaction(Begun, <<>>, j.cap, x, b) /\ cells' = cells
    BY <1>1, <1>7, <2>1, Zenon DEF RunReaction
  <2>3. b \in BOOLEAN
    BY <1>2, <1>5, <2>1 DEF JobOK
  <2> QED
    BY <1>1, <1>2, <1>3, <1>4, <1>7, <2>2, <2>3, JobSettles
<1>8. CASE j.handler.kind = "thunk"
  <2>1. PICK b, x : b = j.handler.rejected /\ x = j.handler.value
    OBVIOUS
  <2>2. SettleReaction(Begun, <<>>, j.cap, x, b) /\ cells' = cells
    BY <1>1, <1>8, <2>1, Zenon DEF RunReaction
  <2>3. b \in BOOLEAN
    BY <1>2, <1>5, <1>8, <2>1 DEF JobOK, HandlerOK
  <2> QED
    BY <1>1, <1>2, <1>3, <1>4, <1>8, <2>2, <2>3, JobSettles
<1>9. CASE j.handler.kind = "user"
  <2>1. PICK e : e = [(<<Waiting(j.cap)>>)[1] EXCEPT !.frame = TRUE]
    OBVIOUS
  <2>2. Become(Begun) /\ Call(<<>>, e) /\ cells' = cells
    BY <1>1, <1>2, <1>9, <2>1, Zenon DEF RunReaction, Waiting
  <2>3. e.kind = "reaction" /\ e.cap = j.cap
    BY <2>1 DEF Waiting
  <2>4. EntryTarget(e) \notin L
    BY <1>6, <1>9, <2>3 DEF EntryTarget
  <2> QED
    BY <1>4, <1>5, <2>2, <2>4, ArrivesCalling
<1>10. CASE j.handler.kind = "finally"
  <2>1. PICK s : s = <<Waiting(j.cap)>>
    OBVIOUS
  <2>2. PICK e : e = [kind |-> "finally", frame |-> TRUE, original |-> j.argument,
                      rejected |-> j.handler.rejected]
    OBVIOUS
  <2>3. Become(Begun) /\ Call(s, e) /\ cells' = cells
    BY <1>1, <1>2, <1>10, <2>1, <2>2, Zenon DEF RunReaction, Waiting
  <2>4. Preserved(Begun, s, cells, ts, L, T)
    BY <1>5, <1>6, <1>10, <2>1, PreservedWaiting
  <2>5. EntryTarget(e) \notin L
    BY <2>2, StandingParts, Members DEF EntryTarget
  <2> QED
    BY <1>4, <2>3, <2>4, <2>5, ArrivesCalling
<1>11. CASE j.handler.kind = "resolver"
  BY <1>1, <1>11, RunResolverKeeps
<1>12. j.handler.kind \in {"none", "user", "resolver", "finally", "thunk"}
  BY <1>2, <1>5 DEF JobOK, HandlerOK
<1> QED
  BY <1>7, <1>8, <1>9, <1>10, <1>11, <1>12

LEMMA HandlerFailsKeeps ==
  ASSUME NEW L, NEW T, IInv, Standing(L, T), Another(T), HandlerFails
  PROVE  Standing(L, T)'
<1>1. PICK j : j = Head(jobs)
  OBVIOUS
<1>2. PICK ts : ts = Marked(thens, j.id)
  OBVIOUS
<1>3. thens' = ts
  BY <1>1, <1>2, Zenon DEF HandlerFails, Began, Marked
<1>4. /\ Become(Begun) /\ cells' = cells /\ stack' = stack
      /\ stack = <<>> /\ jobs # <<>> /\ j.kind = "reaction"
  BY <1>1 DEF HandlerFails, Begin
<1>5. Preserved(Begun, <<>>, cells, ts, L, T)
  BY <1>1, <1>2, <1>4, JobBegins
<1> QED
  BY <1>3, <1>4, <1>5, Arrives

LEMMA ThenableFailsKeeps ==
  ASSUME NEW L, NEW T, IInv, Standing(L, T), Another(T), ThenableFails
  PROVE  Standing(L, T)'
<1>1. PICK j : j = Head(jobs)
  OBVIOUS
<1>2. PICK p, state : p = j.promise /\ state = "rejected"
  OBVIOUS
<1>3. PICK u : u = Settle(Begun, p, state, TypeError)
  OBVIOUS
<1>4. /\ Become(u) /\ cells' = cells /\ stack' = stack /\ thens' = thens
      /\ stack = <<>> /\ jobs # <<>> /\ j.kind = "thenable"
  BY <1>1, <1>2, <1>3 DEF ThenableFails, Begin
<1>5. JobTarget(cells, j) = p
  BY <1>2, <1>4 DEF JobTarget
<1>6. /\ Preserved(Begun, <<>>, cells, thens, L, T) /\ JobOK(promises, cells, j)
      /\ p \in Promises => Untouched(L, T, p)
  BY <1>1, <1>4, <1>5, JobBegins
<1>7. p \in Promises /\ Settling(state) /\ Fine(Begun, cells, thens, L, T)
  BY <1>2, <1>4, <1>6 DEF JobOK, Settling, Preserved
<1>8. Fine(u, cells, thens, L, T)
  BY <1>3, <1>6, <1>7, FineSettle
<1>9. Preserved(u, <<>>, cells, thens, L, T)
  BY <1>6, <1>8, PreservedWorld
<1> QED
  BY <1>4, <1>9, Arrives

LEMMA RunThenableKeeps ==
  ASSUME NEW L, NEW T, IInv, Standing(L, T), Another(T), RunThenable
  PROVE  Standing(L, T)'
<1>1. PICK j : j = Head(jobs)
  OBVIOUS
<1>2. PICK n, p, q, cs : n = Len(cells) + 1 /\ p = j.promise /\ q = j.thenable /\ cs = cells'
  OBVIOUS
<1>3. PICK b : b = (q \in Promises)
  OBVIOUS
<1>4. Begin("thenable") /\ NewCell(p, b) /\ thens' = thens
  BY <1>1, <1>2, <1>3, Zenon DEF RunThenable
<1>5. stack = <<>> /\ jobs # <<>> /\ j.kind = "thenable"
  BY <1>1, <1>4 DEF Begin
<1>6. JobTarget(cells, j) = p /\ JobTarget(cs, j) = p
  BY <1>2, <1>5 DEF JobTarget
<1>7. p \notin L /\ JobOK(promises, cells, j)
  BY <1>1, <1>5, <1>6, JobBegins
<1>8. Preserved(World, stack, cs, thens, L, T) /\ cs[n].promise = p
  BY <1>2, <1>4, <1>7, PreservedPair
<1>9. Preserved(Begun, <<>>, cs, thens, L, T)
  <2>1. Outside(T, JobTarget(cs, j))
    BY <1>1, <1>5, <1>6 DEF Another
  <2>2. Preserved(World, <<>>, cs, thens, L, T)
    BY <1>5, <1>8
  <2> QED
    BY <1>1, <1>5, <2>1, <2>2, PreservedBegun
<1>10. CASE q \in Promises
  <2>1. PICK h, k : h = Resolver(n, FALSE) /\ k = Resolver(n, TRUE)
    OBVIOUS
  <2>2. PICK id : id = 0
    OBVIOUS
  <2>3. PICK u : u = Attach(Begun, q, h, k, Hidden, id)
    OBVIOUS
  <2>4. Become(u) /\ Proceed(<<>>, Undefined)
    BY <1>1, <1>2, <1>10, <2>1, <2>2, <2>3, Zenon DEF RunThenable
  <2>5. PICK f, g : /\ f = [handler |-> h, cap |-> Hidden, id |-> id]
                    /\ g = [handler |-> k, cap |-> Hidden, id |-> id]
    OBVIOUS
  <2>6. f.handler = h /\ g.handler = k
    BY <2>5
  <2>7. h.kind = "resolver" /\ k.kind = "resolver" /\ h.cell = n /\ k.cell = n
    BY <2>1 DEF Resolver
  <2>8. Target(cs, f) \notin L /\ Target(cs, g) \notin L
    BY <1>7, <1>8, <2>6, <2>7 DEF Target
  <2>9. Registers(thens, q, id, thens)
    BY <2>2 DEF Registers
  <2>10. Begun.ps[q].state # "free" /\ Fine(Begun, cs, thens, L, T)
    <3>1. Begun.ps = promises
      BY <1>1, <1>4, ThenableBegins
    <3> QED
      BY <1>2, <1>5, <1>7, <1>9, <1>10, <3>1 DEF JobOK, Exists, Preserved
  <2>11. Fine(u, cs, thens, L, T)
    BY ONLY <1>10, <2>3, <2>5, <2>8, <2>9, <2>10, FineAttach
  <2>12. Preserved(u, <<>>, cs, thens, L, T)
    BY <1>9, <2>11, PreservedWorld
  <2> QED
    BY <1>2, <1>4, <2>4, <2>12, ArrivesReturning
<1>11. CASE q \notin Promises
  <2>1. PICK e : e = [kind |-> "thenable", frame |-> TRUE, cell |-> n]
    OBVIOUS
  <2>2. Become(Begun) /\ Call(<<>>, e)
    BY <1>1, <1>2, <1>11, <2>1, Zenon DEF RunThenable
  <2>3. EntryTarget(e) \notin L
    BY <2>1, StandingParts, Members DEF EntryTarget
  <2> QED
    BY <1>2, <1>4, <1>9, <2>2, <2>3, ArrivesCalling
<1> QED
  BY <1>10, <1>11

-----------------------------------------------------------------------------
(***************************************************************************)
(* Every step.                                                             *)
(***************************************************************************)
LEMMA StandingLess ==
  ASSUME NEW L, NEW T, NEW M, NEW U, Standing(L, T), M \subseteq L, U \subseteq T
  PROVE  Standing(M, U)
BY DEF Standing, Preserved, Unsought, Fine, Accounted

LEMMA ProgramKeeps ==
  ASSUME NEW L, NEW T, IInv, Standing(L, T), Program
  PROVE  Standing(L, T)'
<1>1. ASSUME NEW p \in Promises,
             \/ Construct(p) \/ WithResolvers(p) \/ Try(p)
             \/ \E e \in Reasons : CreateRejected(p, e)
             \/ \E x \in Values : StaticResolve(p, x)
             \/ \E d \in Promises : Finally(p, d)
      PROVE  Standing(L, T)'
  BY <1>1, ConstructKeeps, TryKeeps, CreateRejectedKeeps, StaticResolveKeeps, FinallyKeeps
<1>2. ASSUME NEW p \in Promises, NEW h \in {NoHandler, UserHandler}, NEW k \in {NoHandler, UserHandler},
             NEW cap \in Promises \cup {Custom}, Then(p, h, k, cap)
      PROVE  Standing(L, T)'
  <2>1. PlainHandler(h, FALSE) /\ PlainHandler(k, TRUE)
    BY Handlers, Zenon
  <2> QED
    BY <1>2, <2>1, ThenKeeps
<1>3. ASSUME NEW c \in DOMAIN cells, NEW reject \in BOOLEAN, NEW x \in Values \cup Reasons,
             CallResolving(c, reject, x)
      PROVE  Standing(L, T)'
  BY <1>3, CallResolvingKeeps
<1>4. ASSUME ReturnEntry \/ ReturnExecutor \/ ReturnJob
      PROVE  Standing(L, T)'
  BY <1>4, ReturnKeeps
<1>5. ASSUME NEW x \in Held, ReturnReaction(x) \/ ReturnTry(x)
      PROVE  Standing(L, T)'
  BY <1>5, ReturnReactionKeeps, ReturnTryKeeps
<1>6. ASSUME NEW callable \in BOOLEAN, ReturnGetter(callable)
      PROVE  Standing(L, T)'
  BY <1>6, ReturnGetterKeeps
<1>7. ASSUME NEW x \in Held, NEW q \in Promises, NEW d \in Promises, ReturnFinally(x, q, d)
      PROVE  Standing(L, T)'
  <2>1. PICK t, T2 : t = Duty(q, d) /\ T2 = T \cup {t}
    OBVIOUS
  <2>2. Standing(L, T2)'
    BY <1>7, <2>1, ReturnFinallyKeeps
  <2>3. Preserved(World', stack', cells', thens', L, T2) /\ T \subseteq T2
    BY <2>1, <2>2 DEF Standing
  <2>4. Preserved(World', stack', cells', thens', L, T)
    BY <2>3 DEF Preserved, Fine, Accounted
  <2> QED
    BY <2>4 DEF Standing
<1>8. ASSUME NEW e \in Reasons, Throw(e)
      PROVE  Standing(L, T)'
  BY <1>8, ThrowKeeps
<1> QED
  BY <1>1, <1>2, <1>3, <1>4, <1>5, <1>6, <1>7, <1>8, Zenon DEF Program

Working == RunReaction \/ HandlerFails \/ RunThenable \/ ThenableFails

LEMMA NextKeeps ==
  ASSUME NEW L, NEW T, IInv, Standing(L, T), Working => Another(T), [Next]_vars
  PROVE  Standing(L, T)'
<1>1. CASE UNCHANGED vars
  <2>1. /\ promises' = promises /\ cells' = cells /\ jobs' = jobs /\ stack' = stack /\ thens' = thens
    BY <1>1 DEF vars
  <2>2. Become(World) /\ Preserved(World, stack, cells, thens, L, T)
    BY <2>1, Unmoved DEF Standing
  <2> QED
    BY <2>1, <2>2, Arrives
<1>2. CASE Working
  BY <1>2, RunReactionKeeps, HandlerFailsKeeps, RunThenableKeeps, ThenableFailsKeeps DEF Working
<1>3. CASE Execute \/ Program \/ Drain
  BY <1>3, ExecuteKeeps, ProgramKeeps, DrainKeeps
<1> QED
  BY <1>1, <1>2, <1>3 DEF Next, Working

LEMMA InitKeeps ==
  ASSUME Init
  PROVE  Standing({}, {})
<1>1. /\ promises = [p \in Promises |-> Free] /\ cells = <<>> /\ jobs = <<>> /\ stack = <<>>
      /\ thens = <<>>
  BY DEF Init
<1>2. World = Both(promises, jobs)
  BY WorldIs
<1>3. IInv
  BY InitOK
<1>4. Table(promises) /\ Framed(promises)
  BY <1>3, TableFramed DEF IInv, Good, Content
<1>5. Tidy(promises, jobs)
  BY <1>1, <1>4, NoElements DEF Tidy, Table, PromiseOK, Lists, States
<1>6. \A p \in Promises : DOMAIN promises[p].fulfil = {}
  <2>1. \A p \in Promises : promises[p].fulfil = <<>>
    BY <1>1 DEF Free
  <2> QED
    BY <2>1, NoElements
<1>7. Once(promises, jobs, thens)
  BY <1>1, <1>6, NoElements DEF Once, Before, EntriesOK, Ascending, InTurn
<1>8. PICK w : w = World
  OBVIOUS
<1>9. PICK L, T : L = {} /\ T = {}
  OBVIOUS
<1>10. Accounted(promises, jobs, cells, thens, L, T)
  BY <1>5, <1>7, <1>9 DEF Accounted
<1>11. Fine(w, cells, thens, L, T)
  BY <1>2, <1>8, <1>10, FineBoth
<1>12. Preserved(w, stack, cells, thens, L, T)
  BY <1>1, <1>9, <1>11, NoElements DEF Preserved, Unsought
<1> QED
  BY <1>8, <1>9, <1>12 DEF Standing

\* The calls that a state accounts for.
LEMMA ListedOnce ==
  ASSUME NEW ps, NEW js, NEW ts, Tidy(ps, js), Once(ps, js, ts), NEW n \in DOMAIN ts,
         NEW p, p = ps[ts[n].of], NEW list \in {p.fulfil, p.reject}
  PROVE  Cardinality(Occurrences(list, n)) = IF p.state = "pending" THEN 1 ELSE 0
<1>1. PICK q : q = ts[n].of
  OBVIOUS
<1>2. CallOK(ps, js, ts, n) /\ q \in Promises /\ Lists(p) /\ p = ps[q]
  BY <1>1 DEF Once, CallOK, Tidy
<1>3. EntriesOK(ps, ts, q) /\ Ascending(ps[q].fulfil)
  BY <1>2 DEF Once
<1>4. IsSeq(ts) /\ n # 0
  <2>1. IsSeq(ts)
    BY DEF Once
  <2> QED
    BY <2>1, SequenceDomain
<1>5. /\ DOMAIN list = DOMAIN p.fulfil /\ DOMAIN list \subseteq Int
      /\ \A i \in DOMAIN list : list[i].id = p.fulfil[i].id
  <2>1. IsSeq(p.fulfil) /\ DOMAIN p.fulfil = DOMAIN p.reject
    BY <1>2 DEF Lists
  <2> QED
    BY <1>2, <1>3, <2>1, SequenceDomain DEF EntriesOK
<1>6. CASE p.state = "pending"
  <2>1. PICK i \in DOMAIN p.fulfil : p.fulfil[i].id = n
    BY <1>1, <1>2, <1>6 DEF CallOK, InList
  <2>2. ASSUME NEW k \in DOMAIN list, list[k].id = n PROVE k = i
    <3>1. p.fulfil[k].id = n /\ k \in Int /\ i \in Int /\ k \in DOMAIN p.fulfil
      BY <1>5, <2>1, <2>2
    <3>2. n \in Int
      BY <1>4, SequenceDomain
    <3>3. ~(k < i) /\ ~(i < k)
      BY <1>2, <1>3, <1>4, <2>1, <3>1, <3>2 DEF Ascending
    <3> QED
      BY <3>1, <3>3
  <2>3. Occurrences(list, n) = {i}
    BY <1>5, <2>1, <2>2 DEF Occurrences
  <2>4. Cardinality({i}) = 1
    BY FS_Singleton
  <2> QED
    BY <1>6, <2>3, <2>4
<1>7. CASE p.state # "pending"
  <2>1. DOMAIN list = {}
    BY <1>2, <1>5, <1>7, NoElements DEF Lists
  <2>2. Occurrences(list, n) = {}
    BY <2>1 DEF Occurrences
  <2>3. Cardinality({}) = 0
    BY FS_EmptySet
  <2> QED
    BY <1>7, <2>2, <2>3
<1> QED
  BY <1>6, <1>7

LEMMA OnceOK ==
  ASSUME IInv, Standing({}, {})
  PROVE  ReactionsOnceInOrder
<1>1. Tidy(promises, jobs) /\ Once(promises, jobs, thens)
  <2>1. PICK L, T : L = {} /\ T = {}
    OBVIOUS
  <2>2. Fine(World, cells, thens, L, T) /\ World.ps = promises /\ World.jobs = jobs
    BY <2>1, StandingParts
  <2> QED
    BY <2>2 DEF Fine, Accounted
<1>2. IsSeq(thens) /\ DOMAIN thens \subseteq Int /\ IsSeq(jobs) /\ DOMAIN jobs \subseteq Int /\ 0 \notin DOMAIN thens
  <2>1. IsSeq(thens) /\ IsSeq(jobs)
    BY <1>1 DEF Once, Tidy
  <2> QED
    BY <2>1, SequenceDomain
<1>3. ASSUME NEW n \in DOMAIN thens, NEW p, p = promises[thens[n].of]
      PROVE  /\ \A list \in {p.fulfil, p.reject} :
                  Cardinality(Occurrences(list, n)) = IF p.state = "pending" THEN 1 ELSE 0
             /\ thens[n].begun => p.state # "pending"
             /\ Cardinality(Answers(n)) = IF p.state = "pending" \/ thens[n].begun THEN 0 ELSE 1
             /\ \A i \in Answers(n) : /\ jobs[i].argument = p.result
                                      /\ jobs[i].rejected = (p.state = "rejected")
  <2>1. \A list \in {p.fulfil, p.reject} :
          Cardinality(Occurrences(list, n)) = IF p.state = "pending" THEN 1 ELSE 0
    BY <1>1, <1>3, ListedOnce
  <2>2. CallOK(promises, jobs, thens, n)
    BY <1>1 DEF Once
  <2>3. thens[n].begun => p.state # "pending"
    BY <1>3, <2>2 DEF CallOK
  <2>4. ASSUME NEW i \in Answers(n)
        PROVE  /\ i \in DOMAIN jobs /\ jobs[i].id = n /\ Answering(jobs[i]) /\ ~thens[n].begun
               /\ jobs[i].rejected \in BOOLEAN /\ jobs[i].argument = p.result
               /\ p.state = IF jobs[i].rejected THEN "rejected" ELSE "fulfilled"
    <3>1. i \in DOMAIN jobs /\ jobs[i].kind = "reaction" /\ jobs[i].id = n
      BY DEF Answers
    <3>2. Answering(jobs[i])
      BY <1>2, <3>1 DEF Answering
    <3>3. AnswerOK(promises, thens, jobs[i])
      BY <1>1, <3>1 DEF Once
    <3> QED
      BY <1>3, <3>1, <3>2, <3>3 DEF AnswerOK, Settlement
  <2>5. ASSUME NEW i \in Answers(n)
        PROVE  jobs[i].argument = p.result /\ jobs[i].rejected = (p.state = "rejected")
    <3>1. PICK b : b = jobs[i].rejected
      OBVIOUS
    <3>2. b \in BOOLEAN /\ p.state = IF b THEN "rejected" ELSE "fulfilled"
      BY <2>4, <3>1
    <3>3. b = (p.state = "rejected")
      BY <3>2
    <3> QED
      BY <2>4, <3>1, <3>3
  <2>6. CASE p.state = "pending" \/ thens[n].begun
    <3>1. Answers(n) = {}
      BY <2>4, <2>6
    <3>2. Cardinality({}) = 0
      BY FS_EmptySet
    <3> QED
      BY <2>1, <2>3, <2>5, <2>6, <3>1, <3>2
  <2>7. CASE ~(p.state = "pending" \/ thens[n].begun)
    <3>1. PICK i \in DOMAIN jobs : jobs[i].kind = "reaction" /\ jobs[i].id = n
      BY <1>3, <2>2, <2>7 DEF CallOK, Answered
    <3>2. i \in Answers(n)
      BY <3>1 DEF Answers
    <3>3. ASSUME NEW k \in Answers(n) PROVE k = i
      <4>1. /\ k \in DOMAIN jobs /\ jobs[k].id = n /\ Answering(jobs[k])
            /\ i \in DOMAIN jobs /\ jobs[i].id = n /\ Answering(jobs[i])
        BY <2>4, <3>2, <3>3
      <4>2. InTurn(jobs, thens) /\ k \in Int /\ i \in Int /\ n \in Int
        BY <1>1, <1>2, <4>1 DEF Once
      <4>3. ~(i < k) /\ ~(k < i)
        BY <4>1, <4>2 DEF InTurn
      <4> QED
        BY <4>2, <4>3
    <3>4. Answers(n) = {i}
      BY <3>2, <3>3
    <3>5. Cardinality({i}) = 1
      BY FS_Singleton
    <3> QED
      BY <2>1, <2>3, <2>5, <2>7, <3>4, <3>5
  <2> QED
    BY <2>6, <2>7
<1>4. ASSUME NEW j \in DOMAIN thens, thens[j].begun, NEW i \in 1..j-1, thens[i].of = thens[j].of
      PROVE  thens[i].begun
  <2>1. Len(thens) \in Nat /\ DOMAIN thens = 1..Len(thens) /\ Before(thens)
    BY <1>1, <1>2, SequenceDomain DEF Once
  <2>2. i \in DOMAIN thens /\ i < j
    BY <2>1
  <2> QED
    BY <1>4, <2>1, <2>2 DEF Before
<1> QED
  BY <1>3, <1>4 DEF ReactionsOnceInOrder

\* Every call of then is answered once, with the outcome of its promise, and the reactions to
\* one promise begin in the order of the calls (perform_promise_then_with_capability,
\* settle_promise, append_reaction, enqueue_promise_reaction_list).
THEOREM AnsweredInOrder == Spec => []ReactionsOnceInOrder
<1>1. Init => Standing({}, {})
  BY InitKeeps
<1>2. IInv /\ Standing({}, {}) /\ [Next]_vars => Standing({}, {})'
  <2>1. Another({})
    BY DEF Another, Outside
  <2> QED
    BY <2>1, NextKeeps
<1>3. IInv /\ Standing({}, {}) => ReactionsOnceInOrder
  BY OnceOK
<1> QED
  BY <1>1, <1>2, <1>3, Inductive, PTL DEF Spec
-----------------------------------------------------------------------------
(***************************************************************************)
(* The bottom of the stack: jobs and scripts start there, and only a       *)
(* reaction whose native handler called a frame has one above it.          *)
(***************************************************************************)
Bottoms == {"entry", "reaction", "thenable", "capability"}
Nested == {"executor", "try", "resolution"}
Bottom(st) ==
  \A i \in DOMAIN st : /\ st[i].kind \in Bottoms => i = 1
                       /\ st[i].kind = "finally" => i = 2 /\ ~st[1].frame

LEMMA BottomBare == Bottom(<<>>)
BY NoElements DEF Bottom

LEMMA BottomPush ==
  ASSUME NEW st, IsSeq(st), Bottom(st), NEW e,
         \/ e.kind \in Nested
         \/ st = <<>> /\ e.kind \in Bottoms
         \/ Len(st) = 1 /\ ~st[1].frame /\ e.kind = "finally"
  PROVE  Bottom(Append(st, e))
<1>1. PICK s : s = Append(st, e)
  OBVIOUS
<1>2. /\ DOMAIN s = DOMAIN st \cup {Len(st) + 1} /\ Len(st) + 1 \notin DOMAIN st
      /\ \A i \in DOMAIN st : s[i] = st[i]
      /\ s[Len(st) + 1] = e
  BY <1>1, Appended
<1>3. Len(st) \in Nat /\ DOMAIN st = 1..Len(st) /\ Len(<<>>) = 0
  BY SequenceDomain, NoElements
<1>4. ASSUME NEW i \in DOMAIN s
      PROVE  s[i].kind \in Bottoms => i = 1
  BY <1>2, <1>3 DEF Bottom, Bottoms, Nested
<1>5. ASSUME NEW i \in DOMAIN s, s[i].kind = "finally"
      PROVE  i = 2 /\ ~s[1].frame
  <2>1. CASE i \in DOMAIN st
    <3>1. i = 2 /\ ~st[1].frame /\ 1 \in DOMAIN st
      BY <1>2, <1>3, <1>5, <2>1 DEF Bottom
    <3> QED
      BY <1>2, <3>1
  <2>2. CASE i = Len(st) + 1
    BY <1>2, <1>3, <1>5, <2>2 DEF Bottoms, Nested
  <2> QED
    BY <1>2, <2>1, <2>2
<1> QED
  BY <1>1, <1>4, <1>5 DEF Bottom

LEMMA BottomPop ==
  ASSUME NEW st, IsSeq(st), st # <<>>, Bottom(st)
  PROVE  /\ Bottom(Front(st)) /\ IsSeq(Front(st))
         /\ Last(st).kind \in Bottoms => Front(st) = <<>>
         /\ Last(st).kind = "finally" =>
              Len(Front(st)) = 1 /\ Front(st) # <<>> /\ Front(Front(st)) = <<>> /\ ~Front(st)[1].frame
<1>1. PICK s, n : s = Front(st) /\ n = Len(st)
  OBVIOUS
<1>2. /\ IsSeq(s) /\ Len(s) = n - 1 /\ n \in DOMAIN st
      /\ DOMAIN s = DOMAIN st \ {n} /\ Last(st) = st[n]
      /\ \A i \in DOMAIN s : s[i] = st[i]
  BY <1>1, Popped
<1>3. n \in Nat /\ DOMAIN st = 1..n
  BY <1>1, SequenceDomain
<1>4. Bottom(s)
  <2>1. ASSUME NEW i \in DOMAIN s, s[i].kind = "finally"
        PROVE  i = 2 /\ ~s[1].frame
    <3>1. i = 2 /\ ~st[1].frame
      BY <1>2, <2>1 DEF Bottom
    <3>2. 1 \in DOMAIN s
      BY <1>2, <1>3, <3>1
    <3> QED
      BY <1>2, <3>1, <3>2
  <2> QED
    BY <1>2, <2>1 DEF Bottom
<1>5. ASSUME NEW u, IsSeq(u), Len(u) = 0 PROVE u = <<>>
  BY <1>5, SequenceDomain
<1>6. ASSUME Last(st).kind \in Bottoms PROVE s = <<>>
  <2>1. n = 1
    BY <1>2, <1>6 DEF Bottom
  <2> QED
    BY <1>2, <1>5, <2>1
<1>7. ASSUME Last(st).kind = "finally"
      PROVE  Len(s) = 1 /\ s # <<>> /\ Front(s) = <<>> /\ ~s[1].frame
  <2>1. n = 2 /\ ~st[1].frame
    BY <1>2, <1>7 DEF Bottom
  <2>2. Len(s) = 1 /\ 1 \in DOMAIN s /\ s[1] = st[1]
    BY <1>2, <1>3, <2>1
  <2>3. s # <<>>
    BY <2>2, NoElements
  <2>4. PICK u : u = Front(s)
    OBVIOUS
  <2>5. IsSeq(u) /\ Len(u) = 0
    <3>1. IsSeq(Front(s)) /\ Len(Front(s)) = Len(s) - 1
      BY ONLY <1>2, <2>3, Popped
    <3> QED
      BY <2>2, <2>4, <3>1
  <2>6. u = <<>>
    BY <1>5, <2>5
  <2> QED
    BY <2>1, <2>2, <2>3, <2>4, <2>6
<1> QED
  BY <1>1, <1>2, <1>4, <1>6, <1>7

\* What a running program does to the stack.
Steady == stack' = stack /\ ctl' = "run"
Nests(st) == ctl' = "run" /\ \E e : e.kind \in Nested /\ stack' = Append(st, e)
Resumes == Top.kind \in Nested /\ \E v : Proceed(Front(stack), v) /\ (Top.kind = "resolution" => v = Top.back)
Forsakes == Top.kind \in Nested /\ Abandon(Front(stack))
Reaches == Top.kind = "try" /\ (Nests(Front(stack)) \/ \E v : Proceed(Front(stack), v))
Finishes == Top.kind \notin Nested /\ Bottom(stack')
Turned == Running /\ (Steady \/ Nests(stack) \/ Resumes \/ Forsakes \/ Reaches \/ Finishes)

LEMMA TurnedBottom ==
  ASSUME IInv, Bottom(stack), Turned
  PROVE  Bottom(stack')
<1>1. IsSeq(stack) /\ stack # <<>>
  BY Start DEF Turned
<1>2. Bottom(Front(stack)) /\ IsSeq(Front(stack))
  BY <1>1, BottomPop
<1>3. ASSUME NEW st, IsSeq(st), Bottom(st), Nests(st) PROVE Bottom(stack')
  BY <1>3, BottomPush DEF Nests
<1>4. CASE Steady
  BY <1>4 DEF Steady
<1>5. CASE Nests(stack)
  BY <1>1, <1>3, <1>5
<1>6. CASE Resumes
  BY <1>2, <1>6 DEF Resumes, Proceed
<1>7. CASE Forsakes
  BY <1>2, <1>7 DEF Forsakes, Abandon
<1>8. CASE Reaches
  <2>1. CASE Nests(Front(stack))
    BY <1>2, <1>3, <2>1
  <2>2. CASE \E v : Proceed(Front(stack), v)
    BY <1>2, <2>2 DEF Proceed
  <2> QED
    BY <1>8, <2>1, <2>2 DEF Reaches
<1>9. CASE Finishes
  BY <1>9 DEF Finishes
<1> QED
  BY <1>4, <1>5, <1>6, <1>7, <1>8, <1>9 DEF Turned

LEMMA ProceedsHere ==
  ASSUME IInv, Running, NEW v, Proceed(stack, v)
  PROVE  Steady
<1>1. stack # <<>> /\ Last(stack).frame
  BY Start
<1> QED
  BY <1>1 DEF Steady, Proceed

LEMMA ResolveNests ==
  ASSUME NEW w, NEW st, NEW p, NEW x, NEW mode, NEW back, Resolve(w, st, p, x, mode, back)
  PROVE  Nests(st) \/ Proceed(st, back)
<1>1. PICK e : e = [kind |-> "resolution", frame |-> TRUE, promise |-> p, value |-> x,
                    mode |-> mode, back |-> back]
  OBVIOUS
<1>2. Call(st, e) \/ Proceed(st, back)
  BY <1>1, Zenon DEF Resolve
<1>3. e.kind \in Nested
  BY <1>1 DEF Nested
<1> QED
  BY <1>2, <1>3 DEF Nests, Call

LEMMA SettleReactionBottom ==
  ASSUME NEW w, NEW cap \in Caps, NEW x, NEW rejected \in BOOLEAN, SettleReaction(w, <<>>, cap, x, rejected)
  PROVE  Bottom(stack')
<1>1. Bottom(<<>>) /\ IsSeq(<<>>)
  BY BottomBare, NoElements
<1>2. \A v : Proceed(<<>>, v) => stack' = <<>>
  BY DEF Proceed
<1>3. Hidden \notin Promises /\ Custom \notin Promises /\ Hidden # Custom
  BY Capabilities
<1>4. CASE cap = Custom
  <2>1. PICK e : e = [kind |-> "capability", frame |-> TRUE]
    OBVIOUS
  <2>2. Call(<<>>, e)
    BY <1>3, <1>4, <2>1, Zenon DEF SettleReaction
  <2>3. e.kind \in Bottoms
    BY <2>1 DEF Bottoms
  <2>4. Bottom(Append(<<>>, e))
    BY <1>1, <2>3, BottomPush
  <2> QED
    BY <2>2, <2>4 DEF Call
<1>5. CASE cap # Custom /\ rejected
  <2>1. Proceed(<<>>, Undefined)
    BY <1>5, Zenon DEF SettleReaction
  <2> QED
    BY <1>1, <1>2, <2>1
<1>6. CASE cap = Hidden /\ ~rejected
  <2>1. Proceed(<<>>, Undefined)
    BY <1>3, <1>6, Zenon DEF SettleReaction
  <2> QED
    BY <1>1, <1>2, <2>1
<1>7. CASE cap \in Promises /\ ~rejected
  <2>1. Resolve(w, <<>>, cap, x, "reaction", Undefined)
    BY <1>3, <1>7, Zenon DEF SettleReaction
  <2>2. Nests(<<>>) \/ Proceed(<<>>, Undefined)
    BY <2>1, ResolveNests
  <2>3. CASE Nests(<<>>)
    BY <1>1, <2>3, BottomPush DEF Nests
  <2> QED
    BY <1>1, <1>2, <2>2, <2>3
<1> QED
  BY <1>4, <1>5, <1>6, <1>7 DEF Caps

LEMMA ProgramTurns ==
  ASSUME IInv, Bottom(stack), Program
  PROVE  Turned
<1>1. ASSUME Running PROVE IsSeq(stack) /\ stack # <<>> /\ Top.frame /\ Bottom(Front(stack)) /\ IsSeq(Front(stack))
  BY <1>1, Start, BottomPop DEF Top
<1>2. ASSUME NEW w, NEW p, NEW x, NEW mode, NEW back, Running, Resolve(w, stack, p, x, mode, back)
      PROVE  Turned
  BY <1>2, ResolveNests, ProceedsHere DEF Turned
<1>3. ASSUME NEW p \in Promises, Construct(p) \/ Try(p)
      PROVE  Turned
  <2>1. PICK e, f : /\ e = [kind |-> "executor", frame |-> TRUE, cell |-> Len(cells) + 1]
                    /\ f = [kind |-> "try", frame |-> TRUE, promise |-> p]
    OBVIOUS
  <2>2. Running /\ (Call(stack, e) \/ Call(stack, f))
    BY <1>3, <2>1, Zenon DEF Construct, Try
  <2>3. e.kind \in Nested /\ f.kind \in Nested
    BY <2>1 DEF Nested
  <2> QED
    BY <2>2, <2>3 DEF Turned, Nests, Call
<1>4. ASSUME NEW p \in Promises,
             \/ WithResolvers(p)
             \/ \E e \in Reasons : CreateRejected(p, e)
             \/ \E h, k \in {NoHandler, UserHandler}, cap \in Promises \cup {Custom} : Then(p, h, k, cap)
             \/ \E d \in Promises : Finally(p, d)
      PROVE  Turned
  <2>1. Running /\ stack' = stack /\ ctl' = ctl
    BY <1>4, Zenon DEF WithResolvers, CreateRejected, Then, Finally
  <2> QED
    BY <2>1 DEF Turned, Steady, Running
<1>5. ASSUME NEW p \in Promises, NEW x \in Values, StaticResolve(p, x)
      PROVE  Turned
  <2>1. Running /\ Resolve(Create(World, p, Pending), stack, p, x, "static", p)
    BY <1>5, Zenon DEF StaticResolve
  <2> QED
    BY <1>2, <2>1
<1>6. ASSUME NEW c \in DOMAIN cells, NEW reject \in BOOLEAN, NEW x \in Values \cup Reasons,
             CallResolving(c, reject, x)
      PROVE  Turned
  <2>1. Running /\ (Proceed(stack, Undefined) \/ Resolve(World, stack, cells[c].promise, x, "call", Undefined))
    BY <1>6, Zenon DEF CallResolving, CallResolver
  <2>2. CASE Proceed(stack, Undefined)
    BY <2>1, <2>2, ProceedsHere DEF Turned
  <2> QED
    BY <1>2, <2>1, <2>2
<1>7. ASSUME ReturnEntry \/ ReturnJob
      PROVE  Turned
  <2>1. Running /\ Top.kind \in Bottoms /\ Top.kind \notin Nested
    BY <1>7 DEF ReturnEntry, ReturnJob, Returning, Bottoms, Nested
  <2>2. Front(stack) = <<>>
    BY <1>1, <2>1, BottomPop DEF Top
  <2>3. stack' = <<>>
    BY <1>7, <2>2 DEF ReturnEntry, ReturnJob, Proceed
  <2> QED
    BY <2>1, <2>3, BottomBare DEF Turned, Finishes
<1>8. CASE ReturnExecutor
  <2>1. Running /\ Top.kind = "executor" /\ Proceed(Front(stack), cells[Top.cell].promise)
    BY <1>8 DEF ReturnExecutor, Returning
  <2> QED
    BY <2>1 DEF Turned, Resumes, Nested
<1>9. ASSUME NEW w, NEW cap \in Caps, NEW x, NEW rejected \in BOOLEAN, Running, Top.kind \notin Nested,
             SettleReaction(w, <<>>, cap, x, rejected)
      PROVE  Turned
  BY <1>9, SettleReactionBottom DEF Turned, Finishes
<1>10. ASSUME NEW x, NEW rejected \in BOOLEAN, Running, Top.kind = "reaction",
              SettleReaction(World, Front(stack), Top.cap, x, rejected)
       PROVE  Turned
  <2>1. PICK cap : cap = Top.cap
    OBVIOUS
  <2>2. cap \in Caps
    BY <1>1, <1>10, <2>1, Unwinds DEF EntryOK
  <2>3. Front(stack) = <<>> /\ Top.kind \notin Nested
    BY <1>1, <1>10, BottomPop DEF Top, Bottoms, Nested
  <2>4. SettleReaction(World, <<>>, cap, x, rejected)
    BY <1>10, <2>1, <2>3, Zenon
  <2> QED
    BY <1>9, <1>10, <2>2, <2>3, <2>4
<1>11. ASSUME NEW x \in Held, ReturnReaction(x)
       PROVE  Turned
  <2>1. PICK b \in BOOLEAN : b = FALSE
    OBVIOUS
  <2>2. Running /\ Top.kind = "reaction" /\ SettleReaction(World, Front(stack), Top.cap, x, b)
    BY <1>11, <2>1, Zenon DEF ReturnReaction, Returning
  <2> QED
    BY <1>10, <2>2
<1>12. ASSUME NEW x \in Held, ReturnTry(x)
       PROVE  Turned
  <2>1. Running /\ Top.kind = "try" /\ Resolve(World, Front(stack), Top.promise, x, "static", Top.promise)
    BY <1>12, Zenon DEF ReturnTry, Returning
  <2> QED
    BY <2>1, ResolveNests DEF Turned, Reaches
<1>13. ASSUME NEW callable \in BOOLEAN, ReturnGetter(callable)
       PROVE  Turned
  <2>1. Running /\ Top.kind = "resolution" /\ Proceed(Front(stack), Top.back)
    BY <1>13, Zenon DEF ReturnGetter, Returning
  <2> QED
    BY <2>1 DEF Turned, Resumes, Nested
<1>14. ASSUME NEW x \in Held, NEW q \in Promises, NEW d \in Promises, ReturnFinally(x, q, d)
       PROVE  Turned
  <2>1. PICK cap : cap = Last(Front(stack)).cap
    OBVIOUS
  <2>2. PICK b \in BOOLEAN : b = FALSE
    OBVIOUS
  <2>3. Running /\ Top.kind = "finally"
    BY <1>14, Zenon DEF ReturnFinally, Returning
  <2>4. cap \in Caps /\ Front(Front(stack)) = <<>> /\ Len(Front(stack)) = 1 /\ Top.kind \notin Nested
    BY <1>1, <2>1, <2>3, BelowFinally, BottomPop DEF Top, Nested
  <2>5. PICK e : e = [kind |-> "resolution", frame |-> TRUE, promise |-> q, value |-> x,
                      mode |-> "internal", back |-> d]
    OBVIOUS
  <2>6. Call(Front(stack), e) \/ \E w : SettleReaction(w, Front(Front(stack)), cap, d, b)
    BY <1>14, <2>1, <2>2, <2>5, Zenon DEF ReturnFinally
  <2>7. CASE Call(Front(stack), e)
    <3>1. e.kind \in Nested
      BY <2>5 DEF Nested
    <3>2. Bottom(Append(Front(stack), e))
      BY <1>1, <2>3, <3>1, BottomPush
    <3> QED
      BY <2>3, <2>4, <2>7, <3>2 DEF Turned, Finishes, Call
  <2>8. CASE \E w : SettleReaction(w, Front(Front(stack)), cap, d, b)
    <3>1. PICK w : SettleReaction(w, <<>>, cap, d, b)
      BY <2>4, <2>8, Zenon
    <3> QED
      BY <1>9, <2>3, <2>4, <3>1
  <2> QED
    BY <2>6, <2>7, <2>8
<1>15. ASSUME NEW e \in Reasons, Throw(e)
       PROVE  Turned
  <2>1. Running
    BY <1>15 DEF Throw
  <2>2. PICK k : k = Top.kind
    OBVIOUS
  <2>3. k \in {"entry", "executor", "thenable", "capability", "reaction", "finally", "try", "resolution"}
    BY <1>1, <2>1, <2>2, Unwinds DEF EntryOK
  <2>4. PICK b \in BOOLEAN : b = TRUE
    OBVIOUS
  <2>5. CASE k \in {"entry", "thenable", "capability"}
    <3>1. Front(stack) = <<>> /\ k \notin Nested
      BY <1>1, <2>1, <2>2, <2>5, BottomPop DEF Top, Bottoms, Nested
    <3>2. Abandon(<<>>)
      BY <1>15, <2>2, <2>5, <3>1, Zenon DEF Throw
    <3> QED
      BY <2>1, <2>2, <3>1, <3>2, BottomBare DEF Turned, Finishes, Abandon
  <2>6. CASE k \in {"executor", "try", "resolution"}
    <3>1. Abandon(Front(stack))
      BY <1>15, <2>2, <2>6, Zenon DEF Throw
    <3> QED
      BY <2>1, <2>2, <2>6, <3>1 DEF Turned, Forsakes, Nested
  <2>7. CASE k = "reaction"
    <3>1. SettleReaction(World, Front(stack), Top.cap, e, b)
      BY <1>15, <2>2, <2>4, <2>7, Zenon DEF Throw
    <3> QED
      BY <1>10, <2>1, <2>2, <2>7, <3>1
  <2>8. CASE k = "finally"
    <3>1. PICK cap : cap = Last(Front(stack)).cap
      OBVIOUS
    <3>2. SettleReaction(World, Front(Front(stack)), cap, e, b)
      BY <1>15, <2>2, <2>4, <2>8, <3>1, Zenon DEF Throw
    <3>3. cap \in Caps /\ Front(Front(stack)) = <<>> /\ Top.kind \notin Nested
      BY <1>1, <2>1, <2>2, <2>8, <3>1, BelowFinally, BottomPop DEF Top, Nested
    <3>4. SettleReaction(World, <<>>, cap, e, b)
      BY <3>2, <3>3, Zenon
    <3> QED
      BY <1>9, <2>1, <3>3, <3>4
  <2> QED
    BY <2>3, <2>5, <2>6, <2>7, <2>8
<1> QED
  BY <1>3, <1>4, <1>5, <1>6, <1>7, <1>8, <1>11, <1>12, <1>13, <1>14, <1>15, Zenon DEF Program

LEMMA NextBottom ==
  ASSUME IInv, Bottom(stack), [Next]_vars
  PROVE  Bottom(stack')
<1>1. ASSUME NEW e, Call(<<>>, e), e.kind \in Bottoms
      PROVE  Bottom(stack')
  <2>1. Bottom(Append(<<>>, e))
    BY <1>1, BottomBare, NoElements, BottomPush
  <2> QED
    BY <1>1, <2>1 DEF Call
<1>2. CASE UNCHANGED vars
  BY <1>2 DEF vars
<1>3. CASE Execute
  <2>1. PICK e : e = [kind |-> "entry", frame |-> TRUE]
    OBVIOUS
  <2>2. Call(<<>>, e) /\ e.kind \in Bottoms
    BY <1>3, <2>1 DEF Execute, Bottoms
  <2> QED
    BY <1>1, <2>2
<1>4. CASE Program
  BY <1>4, ProgramTurns, TurnedBottom
<1>5. CASE Drain
  <2>1. stack # <<>> /\ ~Top.frame /\ IsSeq(stack)
    BY <1>5, Start DEF IInv, Controlled, Drain
  <2>2. PICK cap : cap = Top.cap
    OBVIOUS
  <2>3. Top.kind = "reaction" /\ cap \in Caps
    BY <2>1, <2>2, Unwinds DEF EntryOK
  <2>4. Front(stack) = <<>>
    BY <2>1, <2>3, BottomPop DEF Top, Bottoms
  <2>5. PICK b \in BOOLEAN : b = FALSE
    OBVIOUS
  <2>6. SettleReaction(World, <<>>, cap, out, b)
    BY <1>5, <2>2, <2>4, <2>5, Zenon DEF Drain
  <2> QED
    BY <2>3, <2>6, SettleReactionBottom
<1>6. CASE RunThenable
  <2>1. PICK e : e = [kind |-> "thenable", frame |-> TRUE, cell |-> Len(cells) + 1]
    OBVIOUS
  <2>2. Proceed(<<>>, Undefined) \/ Call(<<>>, e)
    BY <1>6, <2>1, Zenon DEF RunThenable
  <2>3. e.kind \in Bottoms
    BY <2>1 DEF Bottoms
  <2> QED
    BY <1>1, <2>2, <2>3, BottomBare DEF Proceed
<1>7. CASE ThenableFails \/ HandlerFails
  BY <1>7 DEF ThenableFails, HandlerFails
<1>8. CASE RunReaction
  <2>1. PICK j, k : j = Head(jobs) /\ k = j.handler.kind
    OBVIOUS
  <2>2. jobs # <<>> /\ j.kind = "reaction"
    BY <1>8, <2>1, Zenon DEF RunReaction, Begin
  <2>3. JobOK(promises, cells, j)
    <3>1. IsSeq(jobs) /\ Content(promises, jobs, stack, cells)
      BY Start DEF Good
    <3> QED
      BY <2>1, <2>2, <3>1, Begins DEF Content
  <2>4. j.cap \in Caps /\ k \in {"none", "user", "resolver", "finally", "thunk"} /\ j.rejected \in BOOLEAN
        /\ (k = "thunk" => j.handler.rejected \in BOOLEAN)
    BY <2>1, <2>2, <2>3 DEF JobOK, HandlerOK
  <2>5. PICK w, e : /\ w = [kind |-> "reaction", frame |-> FALSE, cap |-> j.cap]
                    /\ e = [kind |-> "finally", frame |-> TRUE, original |-> j.argument,
                            rejected |-> j.handler.rejected]
    OBVIOUS
  <2>6. Bottom(<<w>>) /\ IsSeq(<<w>>) /\ Len(<<w>>) = 1 /\ ~(<<w>>[1].frame)
    <3>1. <<w>> = Append(<<>>, w) /\ w.kind \in Bottoms /\ w.frame = FALSE
      BY <2>5 DEF Bottoms
    <3>2. Bottom(Append(<<>>, w))
      BY <3>1, BottomBare, NoElements, BottomPush
    <3>3. IsSeq(Append(<<>>, w))
      BY NoElements, Appended
    <3> QED
      BY <3>1, <3>2, <3>3
  <2>7. CASE k = "none"
    <3>1. SettleReaction(Begun, <<>>, j.cap, j.argument, j.rejected)
      BY <1>8, <2>1, <2>7, Zenon DEF RunReaction
    <3> QED
      BY <2>4, <3>1, SettleReactionBottom
  <2>8. CASE k = "thunk"
    <3>1. SettleReaction(Begun, <<>>, j.cap, j.handler.value, j.handler.rejected)
      BY <1>8, <2>1, <2>8, Zenon DEF RunReaction
    <3> QED
      BY <2>4, <2>8, <3>1, SettleReactionBottom
  <2>9. CASE k = "user"
    <3>1. PICK f : f = [w EXCEPT !.frame = TRUE]
      OBVIOUS
    <3>2. <<w>>[1] = w
      OBVIOUS
    <3>3. Call(<<>>, [<<w>>[1] EXCEPT !.frame = TRUE])
      BY <1>8, <2>1, <2>5, <2>9, Zenon DEF RunReaction
    <3>4. Call(<<>>, f)
      BY ONLY <3>1, <3>2, <3>3, Zenon
    <3>5. f.kind \in Bottoms
      BY <2>5, <3>1 DEF Bottoms
    <3> QED
      BY <1>1, <3>4, <3>5
  <2>10. CASE k = "finally"
    <3>1. Call(<<w>>, e)
      BY <1>8, <2>1, <2>5, <2>10, Zenon DEF RunReaction
    <3>2. e.kind = "finally"
      BY <2>5
    <3>3. Bottom(Append(<<w>>, e))
      BY <2>6, <3>2, BottomPush
    <3> QED
      BY <3>1, <3>3 DEF Call
  <2>11. CASE k = "resolver"
    <3>1. PICK f : f = [kind |-> "resolution", frame |-> TRUE, promise |-> cells[j.handler.cell].promise,
                        value |-> j.argument, mode |-> "call", back |-> Undefined]
      OBVIOUS
    <3>2. Proceed(<<>>, Undefined) \/ Call(<<w>>, f)
      BY <1>8, <2>1, <2>5, <2>11, <3>1, Zenon DEF RunReaction
    <3>3. f.kind \in Nested
      BY <3>1 DEF Nested
    <3>4. Bottom(Append(<<w>>, f))
      BY <2>6, <3>3, BottomPush
    <3> QED
      BY <3>2, <3>4, BottomBare DEF Call, Proceed
  <2> QED
    BY <2>4, <2>7, <2>8, <2>9, <2>10, <2>11
<1> QED
  BY <1>2, <1>3, <1>4, <1>5, <1>6, <1>7, <1>8 DEF Next

\* The reaction whose finally callback returned a thenable object: it resolves its promise c
\* with d after the getter, or the getter threw and it never does.
Suspended(c, d) ==
  /\ stack # <<>> /\ stack[1].kind = "reaction" /\ stack[1].cap = c /\ ~stack[1].frame
  /\ \/ ctl = "run" /\ 2 \in DOMAIN stack /\ stack[2].kind = "resolution" /\ stack[2].back = d
     \/ ctl = "drain" /\ Len(stack) = 1 /\ out = d
     \/ ctl = "idle" /\ Len(stack) = 1

LEMMA SuspendedTurns ==
  ASSUME IInv, Bottom(stack), NEW c, NEW d, Suspended(c, d), Turned
  PROVE  Suspended(c, d)'
<1>1. PICK w : w = stack[1] /\ w.kind = "reaction" /\ w.cap = c /\ ~w.frame
  BY DEF Suspended
<1>2. /\ ctl = "run" /\ 2 \in DOMAIN stack /\ stack[2].kind = "resolution" /\ stack[2].back = d
      /\ stack[1] = w /\ ~w.frame /\ IsSeq(stack) /\ stack # <<>>
  BY <1>1, Start DEF Suspended, Turned, Running
<1>3. PICK n, s : n = Len(stack) /\ s = Front(stack)
  OBVIOUS
<1>4. n \in Nat /\ DOMAIN stack = 1..n /\ n >= 2 /\ Top = stack[n]
  <2>1. n \in Nat /\ DOMAIN stack = 1..n
    BY <1>2, <1>3, SequenceDomain
  <2>2. n >= 2
    BY <1>2, <2>1
  <2> QED
    BY <1>2, <1>3, <2>1, <2>2, Popped DEF Top
<1>5. IsSeq(s) /\ Len(s) = n - 1 /\ DOMAIN s = 1..n-1 /\ \A i \in DOMAIN s : s[i] = stack[i]
  <2>1. IsSeq(s) /\ Len(s) = n - 1 /\ \A i \in DOMAIN s : s[i] = stack[i]
    BY <1>2, <1>3, Popped
  <2> QED
    BY <2>1, SequenceDomain
<1>6. s # <<>> /\ Last(s) = stack[n - 1] /\ s[1] = w
  <2>1. s # <<>>
    BY <1>4, <1>5, NoElements
  <2>2. Last(s) = s[Len(s)]
    BY <1>5, <2>1, Popped
  <2>3. 1 \in DOMAIN s /\ Len(s) = n - 1 /\ n - 1 \in DOMAIN s
    BY <1>4, <1>5
  <2>4. s[Len(s)] = stack[n - 1] /\ s[1] = stack[1]
    BY <1>5, <2>3
  <2> QED
    BY <1>2, <2>1, <2>2, <2>4
<1>7. ASSUME n # 2 PROVE Last(s).frame /\ 2 \in DOMAIN s /\ s[2] = stack[2]
  <2>1. n - 1 \in DOMAIN stack /\ n - 1 # 1
    BY <1>4, <1>7
  <2>2. EntryOK(promises, cells, stack[n - 1])
    BY <2>1, Start DEF Good, Content
  <2>3. stack[n - 1].kind # "reaction"
    BY <2>1 DEF Bottom, Bottoms
  <2>4. Last(s).frame
    BY <1>6, <2>2, <2>3 DEF EntryOK
  <2> QED
    BY <1>4, <1>5, <1>7, <2>4
<1>8. n = 2 => Last(s) = w /\ Top.kind = "resolution" /\ Top.back = d
  BY <1>2, <1>4, <1>6
<1>9. ASSUME NEW st, IsSeq(st), st # <<>>, st[1] = w, 2 \in DOMAIN st, st[2] = stack[2], Nests(st)
      PROVE  Suspended(c, d)'
  <2>1. PICK e : stack' = Append(st, e)
    BY <1>9 DEF Nests
  <2>2. stack' # <<>> /\ 1 \in DOMAIN st /\ DOMAIN st \subseteq DOMAIN stack' /\ \A i \in DOMAIN st : stack'[i] = st[i]
    BY <1>9, <2>1, Appended, SequenceDomain
  <2>3. stack'[1] = w /\ 2 \in DOMAIN stack' /\ stack'[2] = stack[2] /\ ctl' = "run"
    BY <1>9, <2>2 DEF Nests
  <2> QED
    BY <1>1, <1>2, <2>2, <2>3 DEF Suspended
<1>10. ASSUME stack' = s, n # 2 => ctl' = "run", n = 2 => (ctl' = "drain" /\ out' = d) \/ ctl' = "idle"
       PROVE  Suspended(c, d)'
  <2>1. CASE n = 2
    BY <1>1, <1>5, <1>6, <1>10, <2>1 DEF Suspended
  <2>2. CASE n # 2
    BY <1>1, <1>2, <1>6, <1>7, <1>10, <2>2 DEF Suspended
  <2> QED
    BY <2>1, <2>2
<1>11. CASE Steady
  BY <1>1, <1>2, <1>11 DEF Steady, Suspended
<1>12. CASE Nests(stack)
  BY <1>2, <1>9, <1>12
<1>13. CASE Resumes
  <2>1. PICK v : Proceed(s, v) /\ (Top.kind = "resolution" => v = Top.back)
    BY <1>3, <1>13 DEF Resumes
  <2> QED
    BY <1>2, <1>6, <1>7, <1>8, <1>10, <2>1 DEF Proceed
<1>14. CASE Forsakes
  <2>1. Abandon(s)
    BY <1>3, <1>14 DEF Forsakes
  <2> QED
    BY <1>2, <1>6, <1>7, <1>8, <1>10, <2>1 DEF Abandon
<1>15. CASE Reaches
  <2>1. n # 2
    BY <1>8, <1>15 DEF Reaches
  <2>2. CASE Nests(s)
    BY <1>5, <1>6, <1>7, <1>9, <2>1, <2>2
  <2>3. CASE \E v : Proceed(s, v)
    BY <1>6, <1>7, <1>10, <2>1, <2>3 DEF Proceed
  <2> QED
    BY <1>3, <1>15, <2>2, <2>3 DEF Reaches
<1>16. CASE Finishes
  <2>1. n # 2
    BY <1>8, <1>16 DEF Finishes, Nested
  <2>2. EntryOK(promises, cells, stack[n]) /\ n \in DOMAIN stack
    BY <1>4, Start DEF Good, Content
  <2>3. Top.kind \notin Bottoms /\ Top.kind # "finally"
    BY <1>4, <2>1, <2>2 DEF Bottom
  <2> QED
    BY <1>4, <1>16, <2>2, <2>3 DEF EntryOK, Finishes, Nested, Bottoms
<1> QED
  BY <1>11, <1>12, <1>13, <1>14, <1>15, <1>16 DEF Turned

-----------------------------------------------------------------------------
(***************************************************************************)
(* Outcomes stay, and a locked promise takes over an outcome.              *)
(***************************************************************************)
Decided(ps, p) == ps[p].state \in {"fulfilled", "rejected"}
Rejection(ps, p, e) == ps[p].state = "rejected" /\ ps[p].result = e
Fulfilment(ps, p, v) == ps[p].state = "fulfilled" /\ ps[p].result = v

\* The fate of a promise tells its state.
LEMMA FateTells ==
  ASSUME NEW ps, Table(ps), NEW p \in Promises, NEW f, f = FateIn(ps, p)
  PROVE  /\ f.is = "fulfilled" => Fulfilment(ps, p, f.of)
         /\ f.is = "rejected" => Rejection(ps, p, f.of)
         /\ \A x \in Promises : f = LockedTo(x) => InCourse(ps, p, LockedTo(x))
<1>1. PromiseOK(ps[p])
  BY DEF Table
<1>2. \A x : LockedTo(x).is = "locked" /\ Reading(x).is = "resolving"
  BY DEF LockedTo, Reading
<1>3. CASE ps[p].state = "free"
  <2>1. f = [is |-> "absent"]
    BY <1>3, FateCases
  <2>2. f.is = "absent"
    BY <2>1
  <2> QED
    BY <1>2, <2>2
<1>4. CASE InCourse(ps, p, None)
  <2>1. f = [is |-> "open"]
    BY <1>4, FateCases
  <2>2. f.is = "open"
    BY <2>1
  <2> QED
    BY <1>2, <2>2
<1>5. CASE ps[p].state = "pending" /\ ps[p].course # None
  <2>1. f = ps[p].course /\ f \in Courses
    BY <1>1, <1>5, FateCases DEF PromiseOK
  <2>2. f.is \in {"locked", "resolving"}
    BY <1>2, <1>5, <2>1 DEF Courses
  <2> QED
    BY <1>5, <2>1, <2>2 DEF InCourse
<1>6. CASE ps[p].state = "fulfilled"
  <2>1. f = [is |-> "fulfilled", of |-> ps[p].result]
    BY <1>6, FateCases
  <2>2. f.is = "fulfilled" /\ f.of = ps[p].result
    BY <2>1
  <2> QED
    BY <1>2, <1>6, <2>2 DEF Fulfilment
<1>7. CASE ps[p].state = "rejected"
  <2>1. f = [is |-> "rejected", of |-> ps[p].result]
    BY <1>7, FateCases
  <2>2. f.is = "rejected" /\ f.of = ps[p].result
    BY <2>1
  <2> QED
    BY <1>2, <1>7, <2>2 DEF Rejection
<1> QED
  BY <1>1, <1>3, <1>4, <1>5, <1>6, <1>7 DEF PromiseOK, InCourse

\* An outcome is for ever.
LEMMA Firm ==
  ASSUME IInv, IInv', Steps(promises'), NEW p \in Promises, Decided(promises, p)
  PROVE  promises'[p].state = promises[p].state /\ promises'[p].result = promises[p].result
<1> DEFINE F == [a \in Promises |-> Fate(a)]
<1>1. Table(promises')
  BY DEF IInv, Good, Content
<1>2. PICK f : f = FateIn(promises, p)
  OBVIOUS
<1>3. f.is = promises[p].state /\ f.of = promises[p].result
  <2>1. f = [is |-> promises[p].state, of |-> promises[p].result]
    BY <1>2, FateCases DEF Decided
  <2> QED
    BY <2>1
<1>4. F[p].is \in {"fulfilled", "rejected"}
  BY <1>2, <1>3, FateNow DEF Decided
<1>5. Outcome!Successors(p) = {}
  <2>1. /\ F[p].is # "absent" /\ F[p].is # "open" /\ F[p].is # "resolving" /\ F[p].is # "locked"
    BY <1>4
  <2> QED
    BY <2>1, Zenon DEF Outcome!Successors
<1>6. FateIn(promises', p) = f
  BY <1>2, <1>5 DEF Steps
<1>7. /\ f.is = "fulfilled" => Fulfilment(promises', p, f.of)
      /\ f.is = "rejected" => Rejection(promises', p, f.of)
  BY <1>1, <1>6, FateTells
<1> QED
  BY <1>3, <1>7 DEF Decided, Fulfilment, Rejection

\* c took the outcome of d.
Adopted(ps, c, d) ==
  /\ Decided(ps, d)
  /\ ps[d].state = "rejected" => Rejection(ps, c, ps[d].result)
  /\ ps[d].state = "fulfilled" /\ ps[d].result \in Plain => Fulfilment(ps, c, ps[d].result)
Follows(ps, c, d) == InCourse(ps, c, LockedTo(d)) \/ Adopted(ps, c, d)

LEMMA LockedFollows ==
  ASSUME IInv, IInv', Steps(promises'), NEW c \in Promises, NEW d \in Promises,
         InCourse(promises, c, LockedTo(d))
  PROVE  Follows(promises', c, d)
<1> DEFINE F == [a \in Promises |-> Fate(a)]
<1>1. Table(promises') /\ Table(promises)
  BY DEF IInv, Good, Content
<1>2. F[c] = LockedTo(d) /\ F[c] = FateIn(promises, c) /\ F[d] = FateIn(promises, d)
  BY FateNow, FateCases, CoursesDiffer DEF InCourse
<1>3. F[c].is = "locked" /\ F[c].of = d /\ d \notin Objects
  BY <1>2, CoursesDiffer DEF LockedTo
<1>4. PICK g : g = FateIn(promises', c)
  OBVIOUS
<1>5. /\ g.is = "fulfilled" => Fulfilment(promises', c, g.of)
      /\ g.is = "rejected" => Rejection(promises', c, g.of)
      /\ g = LockedTo(d) => InCourse(promises', c, LockedTo(d))
  BY <1>1, <1>4, FateTells
<1>6. CASE g = LockedTo(d)
  BY <1>5, <1>6 DEF Follows
<1>7. CASE g # LockedTo(d)
  <2>1. g \in Outcome!Successors(c)
    BY <1>2, <1>4, <1>7 DEF Steps
  <2>2. CASE promises[d].state = "rejected"
    <3>1. F[d] = [is |-> "rejected", of |-> promises[d].result]
      BY <1>2, <2>2, FateCases
    <3>2. F[F[c].of].is = "rejected" /\ F[F[c].of] = F[d]
      BY <1>3, <3>1
    <3>3. Outcome!Successors(c) = {F[F[c].of]}
      BY <1>3, <3>2, Zenon DEF Outcome!Successors
    <3>4. g.is = "rejected" /\ g.of = promises[d].result
      BY <2>1, <3>1, <3>2, <3>3
    <3>5. promises'[d].state = "rejected" /\ promises'[d].result = promises[d].result
      BY <2>2, Firm DEF Decided
    <3> QED
      BY <1>5, <3>4, <3>5 DEF Follows, Adopted, Decided
  <2>3. CASE promises[d].state = "fulfilled"
    <3>1. F[d] = [is |-> "fulfilled", of |-> promises[d].result]
      BY <1>2, <2>3, FateCases
    <3>2. F[F[c].of].is = "fulfilled" /\ F[F[c].of].of = promises[d].result
      BY <1>3, <3>1
    <3>3. Outcome!Successors(c) = Outcome!Resolved(c, F[F[c].of].of)
      BY <1>3, <3>2, Zenon DEF Outcome!Successors
    <3>4. PICK x : x = promises[d].result
      OBVIOUS
    <3>5. g \in Outcome!Resolved(c, x)
      BY <2>1, <3>2, <3>3, <3>4
    <3>6. ASSUME x \in Plain PROVE Fulfilment(promises', c, x)
      <4>1. x # c /\ x \notin Promises /\ x \notin Objects
        BY <3>6, CoursesDiffer
      <4>2. Outcome!Resolved(c, x) = {Outcome!Fulfilled(x)}
        BY <3>6, <4>1, Zenon DEF Outcome!Resolved
      <4>3. g.is = "fulfilled" /\ g.of = x
        BY <3>5, <4>2 DEF Outcome!Fulfilled
      <4> QED
        BY <1>5, <4>3
    <3>7. promises'[d].state = "fulfilled" /\ promises'[d].result = x
      BY <2>3, <3>4, Firm DEF Decided
    <3> QED
      BY <3>6, <3>7 DEF Follows, Adopted, Decided
  <2>4. CASE promises[d].state \notin {"fulfilled", "rejected"}
    <3>1. F[d].is \notin {"fulfilled", "rejected"}
      <4>1. PICK f : f = F[d]
        OBVIOUS
      <4>2. /\ f.is = "fulfilled" => Fulfilment(promises, d, f.of)
            /\ f.is = "rejected" => Rejection(promises, d, f.of)
        BY <1>1, <1>2, <4>1, FateTells
      <4> QED
        BY <2>4, <4>1, <4>2 DEF Fulfilment, Rejection
    <3>2. F[F[c].of].is # "fulfilled" /\ F[F[c].of].is # "rejected"
      BY <1>3, <3>1
    <3>3. Outcome!Successors(c) = {}
      BY <1>3, <3>2, Zenon DEF Outcome!Successors
    <3> QED
      BY <2>1, <3>3
  <2> QED
    BY <2>2, <2>3, <2>4
<1> QED
  BY <1>6, <1>7

LEMMA FollowsKept ==
  ASSUME IInv, IInv', Steps(promises'), NEW c \in Promises, NEW d \in Promises, Follows(promises, c, d)
  PROVE  Follows(promises', c, d)
<1>1. CASE InCourse(promises, c, LockedTo(d))
  BY <1>1, LockedFollows
<1>2. CASE Adopted(promises, c, d)
  <2>1. promises'[d].state = promises[d].state /\ promises'[d].result = promises[d].result
    BY <1>2, Firm DEF Adopted
  <2>2. Decided(promises, c) =>
          promises'[c].state = promises[c].state /\ promises'[c].result = promises[c].result
    BY Firm
  <2> QED
    BY <1>2, <2>1, <2>2 DEF Follows, Adopted, Decided, Rejection, Fulfilment
<1> QED
  BY <1>1, <1>2 DEF Follows

-----------------------------------------------------------------------------
(***************************************************************************)
(* The promise d that a thunk settles, of t = [inner |-> d, via, original, *)
(* rejected], takes over the rejection of via, and else the original       *)
(* settlement.                                                             *)
(***************************************************************************)
Restored(ps, t) ==
  /\ t.via \in Promises /\ t.inner \in Promises /\ Decided(ps, t.via)
  /\ ps[t.via].state = "rejected" => Rejection(ps, t.inner, ps[t.via].result)
  /\ ps[t.via].state = "fulfilled" /\ t.rejected => Rejection(ps, t.inner, t.original)
  /\ ps[t.via].state = "fulfilled" /\ ~t.rejected /\ t.original \in Plain =>
       Fulfilment(ps, t.inner, t.original)
Mended(ps, js, t) == Owed(ps, js, t) \/ Restored(ps, t)

LEMMA RestoredKept ==
  ASSUME IInv, IInv', Steps(promises'), NEW t, Restored(promises, t)
  PROVE  Restored(promises', t)
<1>1. PICK d, q : d = t.inner /\ q = t.via
  OBVIOUS
<1>2. d \in Promises /\ q \in Promises /\ Decided(promises, q)
  BY <1>1 DEF Restored
<1>3. promises'[q].state = promises[q].state /\ promises'[q].result = promises[q].result
  BY <1>2, Firm
<1>4. Decided(promises, d) =>
        promises'[d].state = promises[d].state /\ promises'[d].result = promises[d].result
  BY <1>2, Firm
<1> QED
  BY <1>1, <1>2, <1>3, <1>4 DEF Restored, Decided, Rejection, Fulfilment

\* A promise that the next job is to settle is settled by its thunk or by what passes the
\* rejection of via on.
LEMMA OwedHead ==
  ASSUME IInv, NEW t, Owed(promises, jobs, t), jobs # <<>>, NEW j, j = Head(jobs), JobTarget(cells, j) = t.inner
  PROVE  \/ promises[t.via].state = "fulfilled" /\ j = ReactionJob(Restoring(t), promises[t.via].result, FALSE)
         \/ promises[t.via].state = "rejected" /\ j = ReactionJob(Passing(t), promises[t.via].result, TRUE)
<1>1. /\ Content(promises, jobs, stack, cells) /\ Sole(promises, jobs, stack, cells) /\ IsSeq(jobs)
      /\ t.inner \in Promises /\ t.via \in Promises
  BY Start DEF Good, Holding, Owed
<1>2. 1 \in DOMAIN jobs /\ j = jobs[1]
  BY <1>1, Begins
<1>3. Holds(promises, jobs, stack, cells, Queue, 1, t.inner)
  BY <1>2 DEF Holds
<1>4. /\ DOMAIN jobs \subseteq Int /\ Queue \in Int
      /\ \A q \in Promises : DOMAIN promises[q].fulfil \subseteq Int /\ q \in Int /\ q # Queue
  BY <1>1, Positions, Numbers DEF Queue, Hidden
<1>5. ASSUME NEW k \in Int, NEW i \in Int, Holds(promises, jobs, stack, cells, k, i, t.inner)
      PROVE  k = Queue /\ i = 1
  BY <1>1, <1>3, <1>4, <1>5 DEF Sole
<1>6. ASSUME NEW r, NEW v, NEW b, NEW i \in DOMAIN jobs, jobs[i] = ReactionJob(r, v, b),
             r.cap = t.inner, r.handler.kind # "resolver"
      PROVE  i = 1
  <2>1. JobTarget(cells, jobs[i]) = t.inner
    BY <1>6, JobFields DEF JobTarget, Target
  <2>2. Holds(promises, jobs, stack, cells, Queue, i, t.inner)
    BY <2>1 DEF Holds
  <2> QED
    BY <1>4, <1>5, <2>2
<1>7. /\ Restoring(t).cap = t.inner /\ Restoring(t).handler.kind # "resolver"
      /\ Passing(t).cap = t.inner /\ Passing(t).handler.kind # "resolver"
  BY DEF Restoring, Passing, Plainly, Thunk, NoHandler
<1>8. CASE \E i \in DOMAIN promises[t.via].fulfil : /\ promises[t.via].fulfil[i] = Restoring(t)
                                                    /\ promises[t.via].reject[i] = Passing(t)
  <2>1. PICK i \in DOMAIN promises[t.via].fulfil : promises[t.via].fulfil[i] = Restoring(t)
    BY <1>8
  <2>2. Target(cells, promises[t.via].fulfil[i]) = t.inner
    BY <1>7, <2>1 DEF Target
  <2>3. Holds(promises, jobs, stack, cells, t.via, i, t.inner)
    BY <1>1, <2>1, <2>2 DEF Holds
  <2> QED
    BY <1>1, <1>4, <1>5, <2>3
<1>9. CASE /\ promises[t.via].state = "fulfilled"
           /\ \E i \in DOMAIN jobs : jobs[i] = ReactionJob(Restoring(t), promises[t.via].result, FALSE)
  <2>1. PICK i, b, r : /\ i \in DOMAIN jobs /\ b = FALSE /\ r = Restoring(t)
                       /\ jobs[i] = ReactionJob(r, promises[t.via].result, b)
    BY <1>9
  <2>2. r.cap = t.inner /\ r.handler.kind # "resolver"
    BY <1>7, <2>1, Zenon
  <2>3. i = 1
    BY <1>6, <2>1, <2>2, Zenon
  <2> QED
    BY <1>2, <1>9, <2>1, <2>3, Zenon
<1>10. CASE /\ promises[t.via].state = "rejected"
            /\ \E i \in DOMAIN jobs : jobs[i] = ReactionJob(Passing(t), promises[t.via].result, TRUE)
  <2>1. PICK i, b, r : /\ i \in DOMAIN jobs /\ b = TRUE /\ r = Passing(t)
                       /\ jobs[i] = ReactionJob(r, promises[t.via].result, b)
    BY <1>10
  <2>2. r.cap = t.inner /\ r.handler.kind # "resolver"
    BY <1>7, <2>1, Zenon
  <2>3. i = 1
    BY <1>6, <2>1, <2>2, Zenon
  <2> QED
    BY <1>2, <1>10, <2>1, <2>3, Zenon
<1> QED
  BY <1>8, <1>9, <1>10, Zenon DEF Owed

LEMMA SettlesAs ==
  ASSUME NEW w, w = Both(w.ps, w.jobs), Framed(w.ps), NEW p \in Promises, Awaited(w.ps, p),
         NEW state, NEW v, Become(Settle(w, p, state, v))
  PROVE  promises'[p].state = state /\ promises'[p].result = v
<1>1. PICK ps, js : ps = w.ps /\ js = w.jobs /\ w = Both(ps, js)
  OBVIOUS
<1>2. Settle(w, p, state, v) = Settled(ps, js, p, state, v)
  BY <1>1, SettleIs
<1>3. PICK r, ps2, js2 : /\ r = Ended(ps[p], state, v) /\ ps2 = Put(ps, p, r)
                         /\ js2 = Waking(js, ps[p], state, v) /\ Settle(w, p, state, v) = Both(ps2, js2)
  BY <1>2, Zenon DEF Settled
<1>4. promises' = ps2
  <2>1. Become(Both(ps2, js2))
    BY <1>3
  <2> QED
    BY <2>1, BecomeIs
<1>5. Formed(r) /\ r.state = state /\ r.result = v
  BY <1>3 DEF Ended, Made, Formed
<1>6. ps2[p] = r
  <2>1. Framed(ps) /\ ps2 = Put(ps, p, r)
    BY <1>1, <1>3
  <2> QED
    BY ONLY <1>5, <2>1, p \in Promises, FramedPut
<1> QED
  BY <1>4, <1>5, <1>6

\* The job that settles what a thunk owes.
LEMMA JobRestores ==
  ASSUME IInv, IInv', Steps(promises'), NEW t, Owed(promises, jobs, t), RunReaction,
         JobTarget(cells, Head(jobs)) = t.inner
  PROVE  Restored(promises', t)
<1>1. PICK j, d, q : j = Head(jobs) /\ d = t.inner /\ q = t.via
  OBVIOUS
<1>2. jobs # <<>> /\ j.kind = "reaction"
  BY <1>1, Zenon DEF RunReaction, Begin
<1>3. d \in Promises /\ q \in Promises /\ Awaited(promises, d) /\ Framed(promises)
      /\ IsSeq(jobs) /\ Content(promises, jobs, stack, cells)
  <2>1. Table(promises)
    BY Start DEF Good, Content
  <2> QED
    BY <1>1, <2>1, Start, TableFramed DEF Owed, InCourse, Awaited, Good
<1>4. PICK w : w = Begun
  OBVIOUS
<1>5. w = Both(promises, Tail(jobs)) /\ w.ps = promises /\ w = Both(w.ps, w.jobs)
  <2>1. w = Both(promises, Tail(jobs))
    BY <1>4, WorldIs
  <2>2. w.ps = promises /\ w.jobs = Tail(jobs)
    BY <2>1, BothParts, Zenon
  <2> QED
    BY <2>1, <2>2, Zenon
<1>6. JobOK(promises, cells, j)
  BY <1>1, <1>2, <1>3, Begins DEF Content
<1>7. Hidden \notin Promises /\ Custom \notin Promises /\ d # Hidden /\ d # Custom
  BY <1>3, Numbers, Capabilities
<1>8. ASSUME NEW state, NEW v, Become(Settle(w, d, state, v))
      PROVE  promises'[d].state = state /\ promises'[d].result = v
  BY <1>3, <1>5, <1>8, SettlesAs
<1>9. ASSUME NEW x, NEW b, b \in BOOLEAN, SettleReaction(w, <<>>, d, x, b)
      PROVE  /\ b => Rejection(promises', d, x)
             /\ ~b /\ x \in Plain => Fulfilment(promises', d, x)
  <2>1. ASSUME b PROVE Rejection(promises', d, x)
    <3>1. Become(SettleCap(w, d, "rejected", x))
      BY <1>7, <1>9, <2>1, Zenon DEF SettleReaction
    <3>2. Become(Settle(w, d, "rejected", x))
      BY <1>7, <3>1, Zenon DEF SettleCap
    <3> QED
      BY <1>8, <3>2 DEF Rejection
  <2>2. ASSUME ~b, x \in Plain PROVE Fulfilment(promises', d, x)
    <3>1. Resolve(w, <<>>, d, x, "reaction", Undefined)
      BY <1>3, <1>7, <1>9, <2>2, Zenon DEF SettleReaction
    <3>2. PICK o \in Lookups(w, d, x) : Become(o.w)
      BY <3>1, Zenon DEF Resolve
    <3>3. x # d /\ x \notin Promises \cup Objects
      BY <1>3, <2>2, CoursesDiffer
    <3>4. PICK u : u = Settle(w, d, "fulfilled", x)
      OBVIOUS
    <3>5. Lookups(w, d, x) = {[w |-> u, getter |-> FALSE]}
      BY <3>3, <3>4, Zenon DEF Lookups
    <3>6. o.w = u
      BY <3>2, <3>5
    <3> QED
      BY <1>8, <3>2, <3>4, <3>6 DEF Fulfilment
  <2> QED
    BY <2>1, <2>2
<1>10. ASSUME Decided(promises, q)
       PROVE  promises'[q].state = promises[q].state /\ promises'[q].result = promises[q].result
  BY <1>3, <1>10, Firm
<1>11. CASE promises[q].state = "fulfilled" /\ j = ReactionJob(Restoring(t), promises[q].result, FALSE)
  <2>1. PICK h : h = Thunk(t.original, t.rejected)
    OBVIOUS
  <2>2. h.kind = "thunk" /\ h.value = t.original /\ h.rejected = t.rejected
    BY <2>1 DEF Thunk
  <2>3. j.handler = h /\ j.cap = d
    <3>1. PICK r, b : r = Restoring(t) /\ b = FALSE
      OBVIOUS
    <3>2. j = ReactionJob(r, promises[q].result, b)
      BY <1>11, <3>1, Zenon
    <3>3. j.handler = r.handler /\ j.cap = r.cap
      BY <3>2, JobFields
    <3>4. r.handler = h /\ r.cap = d
      BY ONLY <1>1, <2>1, <3>1 DEF Restoring, Plainly
    <3> QED
      BY <3>3, <3>4
  <2>4. h.rejected \in BOOLEAN
    BY <1>2, <1>6, <2>2, <2>3 DEF JobOK, HandlerOK
  <2>5. SettleReaction(Begun, <<>>, j.cap, j.handler.value, j.handler.rejected)
    <3>1. j.handler.kind = "thunk"
      BY <2>2, <2>3
    <3> QED
      BY <1>1, <3>1, Zenon DEF RunReaction
  <2>6. PICK b : b = t.rejected
    OBVIOUS
  <2>7. b \in BOOLEAN /\ SettleReaction(w, <<>>, d, t.original, b)
    BY <1>4, <2>2, <2>3, <2>4, <2>5, <2>6, Zenon
  <2>8. /\ b => Rejection(promises', d, t.original)
        /\ ~b /\ t.original \in Plain => Fulfilment(promises', d, t.original)
    BY <1>9, <2>7
  <2>9. promises'[q].state = "fulfilled"
    BY <1>10, <1>11 DEF Decided
  <2> QED
    BY <1>1, <1>3, <2>6, <2>8, <2>9 DEF Restored, Decided
<1>12. CASE promises[q].state = "rejected" /\ j = ReactionJob(Passing(t), promises[q].result, TRUE)
  <2>1. PICK r, b, v : r = Passing(t) /\ b \in BOOLEAN /\ b = TRUE /\ v = promises[q].result
    OBVIOUS
  <2>2. j = ReactionJob(r, v, b)
    BY <1>12, <2>1, Zenon
  <2>3. j.handler = r.handler /\ j.cap = r.cap /\ j.argument = v /\ j.rejected = b
    BY <2>2, JobFields
  <2>4. r.handler.kind = "none" /\ r.cap = d
    BY ONLY <1>1, <2>1 DEF Passing, Plainly, NoHandler
  <2>5. SettleReaction(Begun, <<>>, j.cap, j.argument, j.rejected)
    <3>1. j.handler.kind = "none"
      BY <2>3, <2>4
    <3> QED
      BY <1>1, <3>1, Zenon DEF RunReaction
  <2>6. SettleReaction(w, <<>>, d, v, b)
    BY <1>4, <2>3, <2>4, <2>5, Zenon
  <2>7. Rejection(promises', d, v)
    BY <1>9, <2>1, <2>6
  <2>8. promises'[q].state = "rejected" /\ promises'[q].result = v
    BY <1>10, <1>12, <2>1 DEF Decided
  <2> QED
    BY <1>1, <1>3, <2>7, <2>8 DEF Restored, Decided
<1> QED
  BY <1>1, <1>2, <1>11, <1>12, OwedHead

LEMMA OwedKept ==
  ASSUME IInv, IInv', Steps(promises'), Standing({}, {}), [Next]_vars, NEW t, Owed(promises, jobs, t)
  PROVE  Mended(promises', jobs', t)
<1>1. PICK L, N, T : L = {} /\ N = {} /\ T = {t}
  OBVIOUS
<1>2. Standing(L, T)
  <2>1. Standing(L, N)
    BY <1>1
  <2>2. Fine(World, cells, thens, L, N) /\ World.ps = promises /\ World.jobs = jobs
    BY <2>1, StandingParts
  <2>3. Fine(World, cells, thens, L, T)
    BY <1>1, <2>2 DEF Fine, Accounted
  <2> QED
    BY <2>1, <2>3 DEF Standing, Preserved
<1>3. CASE Working => Another(T)
  <2>1. Standing(L, T)'
    BY <1>2, <1>3, NextKeeps
  <2>2. Preserved(World', stack', cells', thens', L, T)
    BY <2>1 DEF Standing
  <2>3. World'.ps = promises' /\ World'.jobs = jobs'
    BY DEF World
  <2>4. Owed(promises', jobs', t)
    BY <1>1, <2>2, <2>3 DEF Preserved, Fine, Accounted
  <2> QED
    BY <2>4 DEF Mended
<1>4. CASE Working /\ ~Another(T)
  <2>1. jobs # <<>> /\ JobTarget(cells, Head(jobs)) = t.inner
    BY <1>1, <1>4 DEF Another, Outside
  <2>2. PICK j : j = Head(jobs)
    OBVIOUS
  <2>3. j.kind = "reaction"
    <3>1. PICK r, v, b : j = ReactionJob(r, v, b)
      BY <2>1, <2>2, OwedHead, Zenon
    <3> QED
      BY <3>1, JobFields
  <2>4. j.handler.kind \in {"thunk", "none"}
    <3>1. PICK r, v, b : (r = Restoring(t) \/ r = Passing(t)) /\ j = ReactionJob(r, v, b)
      BY <2>1, <2>2, OwedHead, Zenon
    <3>2. r.handler.kind \in {"thunk", "none"}
      BY <3>1 DEF Restoring, Passing, Plainly, Thunk, NoHandler
    <3> QED
      BY <3>1, <3>2, JobFields
  <2>5. ~HandlerFails
    BY <2>2, <2>4 DEF HandlerFails
  <2>6. RunReaction
    BY <1>4, <2>2, <2>3, <2>5 DEF Working, RunThenable, ThenableFails, Begin
  <2> QED
    BY <2>1, <2>6, JobRestores DEF Mended
<1> QED
  BY <1>3, <1>4

LEMMA MendedKept ==
  ASSUME IInv, IInv', Steps(promises'), Standing({}, {}), [Next]_vars, NEW t, Mended(promises, jobs, t)
  PROVE  Mended(promises', jobs', t)
BY OwedKept, RestoredKept DEF Mended

-----------------------------------------------------------------------------
(***************************************************************************)
(* The promise c that finally derived: it waits to be locked to d, follows *)
(* d, or is never resolved because a getter threw below its reaction.      *)
(***************************************************************************)
\* A promise that only a continuation holds, once that is gone.
LEMMA Loosened ==
  ASSUME IInv, Standing({}, {}), NEW c \in Promises, NEW n \in DOMAIN stack, stack[n].kind = "reaction",
         stack[n].cap = c, NEW L, L = {c}, NEW T, T = {}
  PROVE  Preserved(World, <<>>, cells, thens, L, T) /\ InCourse(promises, c, None)
<1>1. PICK N : N = {}
  OBVIOUS
<1>2. /\ Fine(World, cells, thens, N, T) /\ World.ps = promises /\ World.jobs = jobs
      /\ Content(promises, jobs, stack, cells) /\ Sole(promises, jobs, stack, cells)
  BY <1>1, StandingParts
<1>3. InCourse(promises, c, None)
  <2>1. EntryOK(promises, cells, stack[n])
    BY <1>2 DEF Content
  <2> QED
    BY <2>1 DEF EntryOK
<1>4. Holds(promises, jobs, stack, cells, Frames, n, c) /\ Frames \in Int /\ n \in Int
  BY <1>2, Positions DEF Holds, EntryTarget, Frames
<1>5. ASSUME NEW k \in Int, k # Frames, NEW i \in Int PROVE ~Holds(promises, jobs, stack, cells, k, i, c)
  BY <1>2, <1>4, <1>5 DEF Sole
<1>6. /\ Queue \in Int /\ Queue # Frames /\ Pairs \in Int /\ Pairs # Frames
      /\ \A q \in Promises : q \in Int /\ q # Frames /\ DOMAIN promises[q].fulfil \subseteq Int
      /\ DOMAIN jobs \subseteq Int /\ DOMAIN cells \subseteq Int
  BY <1>2, Positions, Numbers DEF Queue, Frames, Pairs
<1>7. \A i \in DOMAIN jobs : JobTarget(cells, jobs[i]) # c
  BY <1>5, <1>6 DEF Holds
<1>8. \A i \in DOMAIN cells : CellTarget(cells[i]) # c
  BY <1>5, <1>6 DEF Holds
<1>9. ASSUME NEW q \in Promises, NEW i \in DOMAIN promises[q].fulfil
      PROVE  Target(cells, promises[q].fulfil[i]) # c /\ Target(cells, promises[q].reject[i]) # c
  <2>1. Target(cells, promises[q].fulfil[i]) # c
    BY <1>5, <1>6 DEF Holds
  <2>2. PairOK(promises, cells, q, promises[q].fulfil[i], promises[q].reject[i])
    BY <1>2 DEF Content, ListsOK
  <2>3. Target(cells, promises[q].fulfil[i]) = Target(cells, promises[q].reject[i])
    BY <2>2, PairTarget
  <2> QED
    BY <2>1, <2>3
<1>10. Spared(promises, jobs, cells, c)
  BY <1>3, <1>7, <1>9 DEF Spared
<1>11. Fine(World, cells, thens, L, T)
  BY <1>2, <1>10 DEF Fine, Accounted
<1> QED
  BY <1>3, <1>8, <1>11, NoElements DEF Preserved, Unsought

LEMMA LocksTo ==
  ASSUME NEW w, w = Both(w.ps, w.jobs), Framed(w.ps), NEW c \in Promises, Awaited(w.ps, c),
         NEW d \in Promises, d # c, NEW st, SettleReaction(w, st, c, d, FALSE)
  PROVE  InCourse(promises', c, LockedTo(d))
<1>1. PICK ps, js : ps = w.ps /\ js = w.jobs /\ w = Both(ps, js)
  OBVIOUS
<1>2. Hidden \notin Promises /\ Custom \notin Promises /\ c # Hidden /\ c # Custom
  BY Numbers, Capabilities
<1>3. Resolve(w, st, c, d, "reaction", Undefined)
  BY <1>2, Zenon DEF SettleReaction
<1>4. PICK o \in Lookups(w, c, d) : Become(o.w)
  BY <1>3, Zenon DEF Resolve
<1>5. PICK u : u = Lock(w, c, d)
  OBVIOUS
<1>6. Lookups(w, c, d) = {[w |-> u, getter |-> FALSE]}
  <2>1. d \in Promises \cup Objects /\ d \in Promises \ {c} /\ d \notin Objects
    BY CoursesDiffer
  <2> QED
    BY <1>5, <2>1, Zenon DEF Lookups
<1>7. o.w = u
  BY <1>4, <1>6
<1>8. PICK r, ps2, js2 : r = Entered(ps[c], LockedTo(d)) /\ ps2 = Put(ps, c, r) /\ u = Both(ps2, js2)
  <2>1. u = Lock(Both(ps, js), c, d) /\ Framed(ps)
    BY <1>1, <1>5
  <2>2. Lock(Both(ps, js), c, d) = Both(Put(ps, c, Entered(ps[c], LockedTo(d))),
                                       Append(js, [kind |-> "thenable", promise |-> c, thenable |-> d]))
    BY ONLY <2>1, c \in Promises, LockIs
  <2> QED
    BY ONLY <2>1, <2>2, Zenon
<1>9. promises' = ps2
  <2>1. Become(Both(ps2, js2))
    BY <1>4, <1>7, <1>8
  <2> QED
    BY <2>1, BecomeIs
<1>10. Formed(r) /\ r.state = ps[c].state /\ r.course = LockedTo(d)
  BY <1>8 DEF Entered, Made, Formed
<1>11. ps2[c] = r
  <2>1. Framed(ps) /\ ps2 = Put(ps, c, r)
    BY <1>1, <1>8
  <2> QED
    BY ONLY <1>10, <2>1, c \in Promises, FramedPut
<1> QED
  BY <1>1, <1>9, <1>10, <1>11 DEF InCourse, Awaited

LEMMA SuspendedKept ==
  ASSUME IInv, Standing({}, {}), Bottom(stack), [Next]_vars,
         NEW c \in Promises, NEW d \in Promises, d # c, Suspended(c, d)
  PROVE  Suspended(c, d)' \/ Follows(promises', c, d) \/ Standing({c}, {})'
<1>1. PICK w : w = stack[1] /\ w.kind = "reaction" /\ w.cap = c /\ ~w.frame
  BY DEF Suspended
<1>2. stack # <<>> /\ stack[1] = w /\ w.kind = "reaction" /\ w.cap = c /\ IsSeq(stack) /\ 1 \in DOMAIN stack
  <2>1. IsSeq(stack) /\ stack # <<>>
    BY Start DEF Suspended
  <2> QED
    BY <1>1, <2>1, SequenceDomain DEF Suspended
<1>3. PICK L, T : L = {c} /\ T = {}
  OBVIOUS
<1>4. Preserved(World, <<>>, cells, thens, L, T) /\ InCourse(promises, c, None)
  BY <1>2, <1>3, Loosened
<1>5. CASE UNCHANGED vars
  BY <1>5 DEF vars, Suspended
<1>6. CASE Program
  BY <1>6, ProgramTurns, SuspendedTurns
<1>7. CASE Execute
  <2>1. PICK e : e = [kind |-> "entry", frame |-> TRUE]
    OBVIOUS
  <2>2. Call(<<>>, e) /\ promises' = promises /\ jobs' = jobs /\ cells' = cells /\ thens' = thens
    BY <1>7, <2>1 DEF Execute
  <2>3. Become(World)
    BY <2>2, Unmoved
  <2>4. EntryTarget(e) \notin L
    <3>1. EntryTarget(e) = Hidden
      BY <2>1 DEF EntryTarget
    <3> QED
      BY <1>3, <3>1, Numbers
  <2>5. Standing(L, T)'
    BY <1>4, <2>2, <2>3, <2>4, ArrivesCalling
  <2> QED
    BY <1>3, <2>5
<1>8. CASE Drain
  <2>1. ctl = "drain" /\ Len(stack) = 1 /\ out = d
    BY <1>8 DEF Suspended, Drain
  <2>2. Top.cap = c
    BY <1>2, <2>1, Popped DEF Top
  <2>3. SettleReaction(World, Front(stack), c, d, FALSE)
    BY <1>8, <2>1, <2>2, Zenon DEF Drain
  <2>4. PICK u, st : u = World /\ st = Front(stack)
    OBVIOUS
  <2>5. u = Both(u.ps, u.jobs) /\ Framed(u.ps) /\ Awaited(u.ps, c) /\ u.ps = promises
    <3>1. u.ps = promises
      BY <2>4, Start
    <3> QED
      BY <1>4, <2>4, <3>1 DEF Preserved, Fine, Accounted, Tidy, Awaited, InCourse
  <2>6. SettleReaction(u, st, c, d, FALSE)
    BY <2>3, <2>4
  <2>7. InCourse(promises', c, LockedTo(d))
    BY <2>5, <2>6, LocksTo
  <2> QED
    BY <2>7 DEF Follows
<1>9. CASE Working
  BY <1>2, <1>9 DEF Working, RunReaction, HandlerFails, RunThenable, ThenableFails, Begin
<1> QED
  BY <1>5, <1>6, <1>7, <1>8, <1>9 DEF Next, Working

\* What a finally callback was called for, f, on its way to the promise derived by finally.
Due(f, d) == [inner |-> d, via |-> f.via, original |-> f.original, rejected |-> f.rejected]
Course(c, d) == Follows(promises, c, d) \/ Suspended(c, d) \/ Standing({c}, {})
Stage(f, d) == Mended(promises, jobs, Due(f, d)) /\ Course(f.of, d)
Staged(f) ==
  f.via \in Promises /\ (f.of \in Promises => \E d \in Promises : d # f.of /\ Stage(f, d))
FinalInv == Standing({}, {}) /\ Bottom(stack) /\ \A f \in finals : Staged(f)

LEMMA CourseKept ==
  ASSUME IInv, IInv', Steps(promises'), Standing({}, {}), Bottom(stack), [Next]_vars,
         NEW c \in Promises, NEW d \in Promises, d # c, Course(c, d)
  PROVE  Course(c, d)'
<1>1. CASE Follows(promises, c, d)
  BY <1>1, FollowsKept DEF Course
<1>2. CASE Suspended(c, d)
  BY <1>2, SuspendedKept DEF Course
<1>3. CASE Standing({c}, {})
  <2>1. PICK L, T : L = {c} /\ T = {}
    OBVIOUS
  <2>2. Another(T)
    BY <2>1 DEF Another, Outside
  <2>3. Standing(L, T)'
    BY <1>3, <2>1, <2>2, NextKeeps
  <2> QED
    BY <2>1, <2>3 DEF Course
<1> QED
  BY <1>1, <1>2, <1>3 DEF Course

LEMMA StagedKept ==
  ASSUME IInv, IInv', Steps(promises'), Standing({}, {}), Bottom(stack), [Next]_vars, NEW f, Staged(f)
  PROVE  Staged(f)'
<1>1. ASSUME NEW d \in Promises, f.of \in Promises, d # f.of, Stage(f, d)
      PROVE  Stage(f, d)'
  <2>1. PICK t, c : t = Due(f, d) /\ c = f.of
    OBVIOUS
  <2>2. Mended(promises, jobs, t) /\ Course(c, d) /\ c \in Promises /\ d # c
    BY <1>1, <2>1 DEF Stage
  <2>3. Mended(promises', jobs', t)
    BY <2>2, MendedKept
  <2>4. Course(c, d)'
    BY <2>2, CourseKept
  <2> QED
    BY <2>1, <2>3, <2>4 DEF Stage
<1> QED
  BY <1>1 DEF Staged

\* What the callback has just been called for.
LEMMA ReturnFinallyStages ==
  ASSUME IInv, IInv', Standing({}, {}), Bottom(stack),
         NEW x \in Held, NEW q \in Promises, NEW d \in Promises, ReturnFinally(x, q, d),
         NEW f, f.of = Last(Front(stack)).cap, f.via = q, f.original = Top.original, f.rejected = Top.rejected
  PROVE  Staged(f)'
<1>1. PICK c, s, r : c = f.of /\ s = Front(Front(stack)) /\ r = Front(stack)
  OBVIOUS
<1>2. SUFFICES ASSUME c \in Promises PROVE d # c /\ Stage(f, d)'
  BY <1>1 DEF Staged
<1>3. Running /\ Top.kind = "finally" /\ stack # <<>> /\ IsSeq(stack)
  BY Start DEF ReturnFinally, Returning
<1>4. /\ IsSeq(r) /\ Len(r) = 1 /\ r # <<>> /\ ~r[1].frame /\ Last(r).kind = "reaction" /\ Last(r).cap = c
      /\ \A i \in DOMAIN r : i \in DOMAIN stack /\ r[i] = stack[i]
  BY <1>1, <1>3, BottomPop, Popped, Unwinds DEF Top
<1>5. 1 \in DOMAIN r /\ Last(r) = r[1]
  BY <1>4, Popped
<1>6. /\ 1 \in DOMAIN stack /\ stack[1].kind = "reaction" /\ stack[1].cap = c /\ ~stack[1].frame
      /\ stack[1] = r[1]
  BY <1>4, <1>5
<1>7. PICK L, N, t, T : L = {c} /\ N = {} /\ t = Duty(q, d) /\ T = N \cup {t}
  OBVIOUS
<1>8. Preserved(World, <<>>, cells, thens, L, N) /\ InCourse(promises, c, None)
  BY <1>2, <1>6, <1>7, Loosened
<1>9. PICK u : Preserved(u, <<>>, cells, thens, L, T) /\ Derives(u, x, q, d)
  BY <1>7, <1>8, FinallyDerives
<1>10. d # c
  BY <1>8, <1>9 DEF Derives, InCourse
<1>11. Mended(promises', jobs', Due(f, d))
  <2>1. Standing(N, T)'
    BY <1>7, ReturnFinallyKeeps
  <2>2. Preserved(World', stack', cells', thens', N, T)
    BY <2>1 DEF Standing
  <2>3. World'.ps = promises' /\ World'.jobs = jobs'
    BY DEF World
  <2>4. Owed(promises', jobs', t)
    BY <1>7, <2>2, <2>3 DEF Preserved, Fine, Accounted
  <2>5. Due(f, d) = t
    BY <1>7 DEF Due, Duty
  <2> QED
    BY <2>4, <2>5 DEF Mended
<1>12. CASE SettleReaction(u, s, c, d, FALSE)
  <2>1. u = Both(u.ps, u.jobs) /\ Framed(u.ps) /\ Awaited(u.ps, c)
    BY <1>7, <1>9 DEF Preserved, Fine, Accounted, Tidy, Spared, Awaited, InCourse
  <2>2. InCourse(promises', c, LockedTo(d))
    BY <1>2, <1>10, <1>12, <2>1, LocksTo
  <2> QED
    BY <1>1, <1>10, <1>11, <2>2 DEF Stage, Course, Follows
<1>13. CASE Call(r, GetterOf(q, x, d))
  <2>1. PICK e : e = GetterOf(q, x, d)
    OBVIOUS
  <2>2. e.kind = "resolution" /\ e.back = d
    BY <2>1 DEF GetterOf
  <2>3. stack' = Append(r, e) /\ ctl' = "run"
    BY <1>13, <2>1 DEF Call
  <2>4. stack' # <<>> /\ stack'[1] = r[1] /\ 2 \in DOMAIN stack' /\ stack'[2] = e
    BY <1>4, <1>5, <2>3, Appended
  <2>5. stack'[1].kind = "reaction" /\ stack'[1].cap = c /\ ~stack'[1].frame
    BY <1>6, <2>4
  <2> QED
    BY <1>1, <1>10, <1>11, <2>2, <2>3, <2>4, <2>5 DEF Stage, Course, Suspended
<1> QED
  BY <1>1, <1>9, <1>12, <1>13, Zenon DEF Derives

LEMMA FinalsGrow ==
  ASSUME [Next]_vars, finals' # finals
  PROVE  \E x \in Held, q \in Promises, d \in Promises : ReturnFinally(x, q, d)
<1>1. ~UNCHANGED vars
  BY DEF vars
<1>2. ~Execute /\ ~Drain /\ ~RunReaction /\ ~HandlerFails /\ ~RunThenable /\ ~ThenableFails
  BY Zenon DEF Execute, Drain, RunReaction, HandlerFails, RunThenable, ThenableFails
<1>3. Program
  BY <1>1, <1>2 DEF Next
<1>4. ASSUME NEW p \in Promises
      PROVE  /\ ~Construct(p) /\ ~WithResolvers(p) /\ ~Try(p)
             /\ \A e : ~CreateRejected(p, e) /\ ~StaticResolve(p, e) /\ ~Finally(p, e)
             /\ \A h, k, cap : ~Then(p, h, k, cap)
  BY Zenon DEF Construct, WithResolvers, Try, CreateRejected, StaticResolve, Finally, Then
<1>5. \A c, reject, x : ~CallResolving(c, reject, x)
  BY Zenon DEF CallResolving
<1>6. /\ ~ReturnEntry /\ ~ReturnExecutor /\ ~ReturnJob
      /\ \A x : ~ReturnReaction(x) /\ ~ReturnTry(x) /\ ~ReturnGetter(x) /\ ~Throw(x)
  BY Zenon DEF ReturnEntry, ReturnExecutor, ReturnJob, ReturnReaction, ReturnTry, ReturnGetter, Throw
<1> QED
  BY <1>3, <1>4, <1>5, <1>6, Zenon DEF Program

LEMMA FinalsStaged ==
  ASSUME IInv, IInv', Steps(promises'), FinalInv, [Next]_vars
  PROVE  FinalInv'
<1>1. Standing({}, {})'
  <2>1. PICK L, T : L = {} /\ T = {}
    OBVIOUS
  <2>2. Another(T) /\ Standing(L, T)
    BY <2>1 DEF Another, Outside, FinalInv
  <2>3. Standing(L, T)'
    BY <2>2, NextKeeps
  <2> QED
    BY <2>1, <2>3
<1>2. Bottom(stack')
  BY NextBottom DEF FinalInv
<1>3. ASSUME NEW f \in finals PROVE Staged(f)'
  BY StagedKept DEF FinalInv
<1>4. ASSUME NEW f \in finals', f \notin finals PROVE Staged(f)'
  <2>1. PICK x \in Held, q \in Promises, d \in Promises : ReturnFinally(x, q, d)
    BY <1>4, FinalsGrow
  <2>2. PICK cap : cap = Last(Front(stack)).cap
    OBVIOUS
  <2>3. PICK g : /\ g = [of |-> cap, original |-> Top.original, rejected |-> Top.rejected, via |-> q,
                         inner |-> (IF cap = Custom THEN {q} ELSE {q, d}) \ {x}]
                 /\ finals' = finals \cup {g}
    BY <2>1, <2>2, Zenon DEF ReturnFinally
  <2>4. f = g
    BY <1>4, <2>3
  <2>5. f.of = Last(Front(stack)).cap /\ f.via = q /\ f.original = Top.original /\ f.rejected = Top.rejected
    BY <2>2, <2>3, <2>4
  <2> QED
    BY <2>1, <2>5, ReturnFinallyStages DEF FinalInv
<1> QED
  BY <1>1, <1>2, <1>3, <1>4 DEF FinalInv

LEMMA TransparentOK ==
  ASSUME IInv, FinalInv
  PROVE  FinallyTransparent
<1>1. SUFFICES ASSUME NEW f \in finals, f.of \in Promises, promises[f.of].state # "pending"
               PROVE  /\ promises[f.via].state # "pending"
                      /\ promises[f.via].state = "rejected" => Rejection(promises, f.of, promises[f.via].result)
                      /\ promises[f.via].state = "fulfilled" /\ f.rejected => Rejection(promises, f.of, f.original)
                      /\ promises[f.via].state = "fulfilled" /\ ~f.rejected /\ f.original \in Plain =>
                           Fulfilment(promises, f.of, f.original)
  BY DEF FinallyTransparent, Rejection, Fulfilment
<1>2. PICK d \in Promises : d # f.of /\ Stage(f, d)
  BY <1>1 DEF FinalInv, Staged
<1>3. PICK t, c : t = Due(f, d) /\ c = f.of
  OBVIOUS
<1>4. t.inner = d /\ t.via = f.via /\ t.original = f.original /\ t.rejected = f.rejected
  BY <1>3 DEF Due
<1>5. Mended(promises, jobs, t) /\ Course(c, d)
  BY <1>2, <1>3 DEF Stage
<1>6. ~InCourse(promises, c, None) /\ ~InCourse(promises, c, LockedTo(d))
  BY <1>1, <1>3 DEF InCourse
<1>7. ~Suspended(c, d)
  <2>1. ASSUME Suspended(c, d) PROVE FALSE
    <3>1. IsSeq(stack) /\ stack # <<>> /\ Content(promises, jobs, stack, cells)
      BY <2>1, Start DEF Suspended, Good
    <3>2. 1 \in DOMAIN stack
      BY <3>1, SequenceDomain
    <3>3. EntryOK(promises, cells, stack[1]) /\ stack[1].kind = "reaction" /\ stack[1].cap = c
      BY <2>1, <3>1, <3>2 DEF Content, Suspended
    <3> QED
      BY <1>1, <1>3, <1>6, <3>3 DEF EntryOK
  <2> QED
    BY <2>1
<1>8. ~Standing({c}, {})
  <2>1. ASSUME Standing({c}, {}) PROVE FALSE
    <3>1. PICK L, T : L = {c} /\ T = {} /\ Standing(L, T)
      BY <2>1
    <3>2. Spared(promises, jobs, cells, c)
      BY <3>1, StandingParts
    <3> QED
      BY <1>6, <3>2 DEF Spared
  <2> QED
    BY <2>1
<1>9. Adopted(promises, c, d)
  BY <1>5, <1>6, <1>7, <1>8 DEF Course, Follows
<1>10. Restored(promises, t)
  BY <1>4, <1>5, <1>9 DEF Mended, Owed, InCourse, Adopted, Decided
<1>11. PICK q, p : q = f.via /\ p = promises[q]
  OBVIOUS
<1>12. /\ Decided(promises, q)
       /\ p.state = "rejected" => Rejection(promises, d, p.result)
       /\ p.state = "fulfilled" /\ f.rejected => Rejection(promises, d, f.original)
       /\ p.state = "fulfilled" /\ ~f.rejected /\ f.original \in Plain => Fulfilment(promises, d, f.original)
  BY <1>4, <1>10, <1>11 DEF Restored
<1>13. /\ \A e : Rejection(promises, d, e) => Rejection(promises, c, e)
       /\ \A v \in Plain : Fulfilment(promises, d, v) => Fulfilment(promises, c, v)
  BY <1>9 DEF Adopted, Rejection, Fulfilment
<1> QED
  BY <1>3, <1>11, <1>12, <1>13 DEF Decided

\* finally is transparent: a promise that it derived settles after the promise its callback
\* returned, takes over that one's rejection, and else the settlement that the callback was
\* called for (finish_promise_finally_callback and its thunks).
THEOREM Transparent == Spec => []FinallyTransparent
<1>1. Init => FinalInv
  <2>1. ASSUME Init PROVE FinalInv
    <3>1. stack = <<>> /\ finals = {}
      BY <2>1 DEF Init
    <3> QED
      BY <2>1, <3>1, InitKeeps, BottomBare DEF FinalInv
  <2> QED
    BY <2>1
<1>2. IInv /\ [Next]_vars => IInv' /\ Steps(promises')
  BY NextOK
<1>3. IInv /\ IInv' /\ FinalInv /\ [Next]_vars => FinalInv'
  BY <1>2, FinalsStaged
<1>4. IInv /\ FinalInv => FinallyTransparent
  BY TransparentOK
<1> QED
  BY <1>1, <1>3, <1>4, Inductive, PTL DEF Spec
=============================================================================
