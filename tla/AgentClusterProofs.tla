-------------------------- MODULE AgentClusterProofs --------------------------
(***************************************************************************)
(* Proofs about the agents that share memory (AgentCluster), for any       *)
(* number of workers, locations, calls, waiters and reports.               *)
(*                                                                         *)
(* Neither WaitersAnswered nor NoLostWakeup is inductive.  What they leave *)
(* out is who holds the mutex and what each thread does meanwhile          *)
(* (Control), which waiter a blocked agent waits for (Intents), that a     *)
(* queue holds waiters of its own location (Queued), that an answer under  *)
(* way is the only one for its waiter (Flying), why a thread is asleep     *)
(* (Sleeping), where an agent's driver left its waker (Driving) and who    *)
(* takes part in a broadcast (Meeting).  That the timer has looked at      *)
(* every deadline before it sleeps (Heeded), and that a broadcast waits    *)
(* only for workers that are still there (Awaited), are invariants of      *)
(* their own.                                                              *)
(***************************************************************************)
EXTENDS AgentCluster, SequenceTheorems, FiniteSetTheorems, TLAPS

States == {"unborn", "boot", "script", "publish", "wait", "complete", "start", "broadcast",
           "receive", "drive", "poll", "park", "exit", "run", "join", "done"}
Wait == [at : Locations, async : BOOLEAN, timed : BOOLEAN, since : Nat]
Waiter == [by : Agents, at : Locations, async : BOOLEAN, timed : BOOLEAN, since : Nat,
           open : BOOLEAN, outcome : Outcomes \cup {None}, waker : BOOLEAN]

TypeOK ==
  /\ queues \in [Locations -> Seq(Nat)] /\ waiters \in Seq(Waiter)
  /\ deadlines \subseteq Ids /\ notified \subseteq Ids
  /\ sweeps \in [Locations -> Nat]
  /\ inFlight \in [Threads -> Seq(Nat \X Outcomes)]
  /\ pc \in [Threads -> States] /\ asleep \subseteq Threads
  /\ DOMAIN intent = Agents
  /\ unpolled \in [Agents -> SUBSET Nat] /\ signaled \in [Agents -> BOOLEAN]
  /\ waking \in [Threads -> Agents \cup {None}]
  /\ lock \in Agents \cup {None} /\ cancelled \in BOOLEAN
  /\ ready \subseteq Workers /\ addressed \subseteq Workers /\ received \subseteq Workers
  /\ broadcast \in (SUBSET Workers) \cup {None}

\* An agent about to publish a waiter holds the mutex.
Control ==
  /\ \A a \in Agents : pc[a] = "publish" <=> lock = a
  /\ lock # None => ~cancelled
  /\ pc[Timer] \in {"unborn", "run", "complete", "done"}
  /\ \A w \in Workers : pc[w] \notin {"start", "broadcast", "join"}
  /\ pc[Main] \notin {"unborn", "boot", "receive"}
  /\ \A w \in Workers : pc[w] = "boot" => pc[Main] = "start"
  /\ \A v, w \in Workers : pc[v] = "boot" /\ pc[w] = "boot" => v = w
  /\ cancelled => pc[Main] \in {"complete", "join", "done"}

Intents ==
  \A a \in Agents :
    /\ pc[a] = "publish" => intent[a] \in Wait /\ intent[a].since = sweeps[intent[a].at]
    /\ pc[a] = "wait" => /\ intent[a] \in Ids
                         /\ waiters[intent[a]].by = a
                         /\ ~waiters[intent[a]].async
                         /\ waiters[intent[a]].outcome = None

Ascending(q) == \A i, j \in DOMAIN q : i < j => q[i] < q[j]

Queued ==
  \A l \in Locations :
    /\ Ascending(queues[l])
    /\ \A id \in ToSet(queues[l]) : id \in Ids /\ waiters[id].at = l
    /\ cancelled => queues[l] = <<>>

UnderWay(id) == \E t \in Threads : \E i \in DOMAIN inFlight[t] : inFlight[t][i][1] = id

\* A waiter's fate.
Known(id) ==
  LET w == waiters[id] IN
  /\ Registered(id) => /\ w.outcome = None /\ id \notin notified
                       /\ w.since = sweeps[w.at]
                       /\ w.async => w.open
  /\ w.open => w.async
  /\ ~w.async /\ w.outcome = None =>
       /\ pc[w.by] = "wait" /\ intent[w.by] = id
       /\ Registered(id) \/ id \in notified \/ cancelled
  /\ w.async /\ w.open /\ w.outcome = None => Registered(id) \/ UnderWay(id)
  /\ id \in deadlines <=> w.async /\ w.timed /\ Registered(id)
  /\ w.outcome = "ok" => id \in notified
  /\ w.outcome = "timed-out" => id \notin notified
  /\ w.outcome = "unavailable" => cancelled
Answered == \A id \in Ids : Known(id)

\* A completion still to be published.
Carried(entry) ==
  /\ entry[1] \in Ids /\ ~Registered(entry[1])
  /\ waiters[entry[1]].async => waiters[entry[1]].outcome = None
  /\ entry[2] = "ok" => entry[1] \in notified
  /\ entry[2] = "timed-out" => entry[1] \notin notified
  /\ entry[2] = "unavailable" => cancelled
Flying ==
  /\ \A t \in Threads : pc[t] # "complete" => inFlight[t] = <<>>
  /\ \A t \in Threads : \A i \in DOMAIN inFlight[t] : Carried(inFlight[t][i])
  /\ \A t, u \in Threads : \A i \in DOMAIN inFlight[t], j \in DOMAIN inFlight[u] :
       inFlight[t][i][1] = inFlight[u][j][1] => t = u /\ i = j

\* What a sleeping thread waits for.
Awaits(t) ==
  /\ ~cancelled
  /\ pc[t] = "wait" => Registered(intent[t])
  /\ pc[t] = "receive" => ~Addressed(t)
  /\ pc[t] = "broadcast" => broadcast # None
Sleeping ==
  /\ Timer \in asleep => pc[Timer] = "run"
  /\ \A a \in Agents : a \in asleep => pc[a] \in {"wait", "receive", "broadcast"}
  /\ (\E u \in Threads : pc[u] = "complete") \/ (\A t \in asleep : Awaits(t))

\* The waker of an agent's driver has been called, or a thread holds it to call it next.
Summoned(a) == signaled[a] \/ \E t \in Threads : waking[t] = a
Driving ==
  \A a \in Agents :
    /\ pc[a] # "poll" => unpolled[a] = {}
    /\ unpolled[a] \subseteq Handles(a)
    /\ pc[a] \in {"poll", "park"} /\ ~Summoned(a) =>
         \A id \in Handles(a) \ unpolled[a] : waiters[id].outcome = None /\ waiters[id].waker

Meeting ==
  /\ broadcast # None => pc[Main] = "broadcast"
  /\ addressed \cap ready \subseteq received \cup (IF broadcast = None THEN {} ELSE broadcast)
  /\ \A w \in Workers : pc[w] \in {"unborn", "boot"} => w \notin addressed \cup ready

IInv ==
  /\ TypeOK /\ Control /\ Intents /\ Queued /\ Answered /\ Flying /\ Sleeping /\ Driving
  /\ Meeting

\* Besides, the timer sleeps until the first of all deadlines, and a broadcast waits only
\* for workers that are still there.
Heeded == Timer \in asleep => unseen = {}
Awaited == broadcast # None => broadcast # {} /\ broadcast \subseteq ready

-----------------------------------------------------------------------------
(***************************************************************************)
(* Queues.                                                                 *)
(***************************************************************************)

LEMMA Members ==
  ASSUME NEW S, NEW q \in Seq(S)
  PROVE  /\ DOMAIN q = 1..Len(q) /\ Len(q) \in Nat
         /\ ToSet(q) \subseteq S
         /\ \A x : x \in ToSet(q) <=> \E i \in 1..Len(q) : q[i] = x
<1>1. DOMAIN q = 1..Len(q) /\ Len(q) \in Nat /\ q \in [1..Len(q) -> S]
  BY LenProperties
<1>2. QED
  BY <1>1 DEF ToSet

\* Publishing a waiter with a new number.
LEMMA AppendedQueue ==
  ASSUME NEW q \in Seq(Nat), Ascending(q), NEW n \in Nat, \A x \in ToSet(q) : x < n
  PROVE  /\ Append(q, n) \in Seq(Nat) /\ Ascending(Append(q, n))
         /\ ToSet(Append(q, n)) = ToSet(q) \cup {n}
<1> DEFINE r == Append(q, n)
<1>1. /\ r \in Seq(Nat) /\ Len(r) = Len(q) + 1
      /\ \A i \in 1..Len(q) : r[i] = q[i]
      /\ r[Len(q) + 1] = n
  BY AppendProperties
<1>2. /\ DOMAIN q = 1..Len(q) /\ Len(q) \in Nat /\ \A x : x \in ToSet(q) <=> \E i \in 1..Len(q) : q[i] = x
  BY Members
<1>3. /\ DOMAIN r = 1..Len(r) /\ \A x : x \in ToSet(r) <=> \E i \in 1..Len(r) : r[i] = x
  BY <1>1, Members
<1>4. \A i \in 1..Len(q) : q[i] \in Nat /\ q[i] < n
  BY <1>2, ElementOfSeq
<1> HIDE DEF r
<1>5. Ascending(r)
  <2>1. SUFFICES ASSUME NEW i \in 1..Len(r), NEW j \in 1..Len(r), i < j PROVE r[i] < r[j]
    BY <1>3 DEF Ascending
  <2>2. i \in 1..Len(q) /\ r[i] = q[i]
    BY <1>1, <1>2, <2>1
  <2>3. CASE j = Len(q) + 1
    BY <1>1, <1>4, <2>2, <2>3
  <2>4. CASE j # Len(q) + 1
    <3>1. j \in 1..Len(q)
      BY <1>1, <1>2, <2>4
    <3>2. q[i] < q[j]
      BY <1>2, <2>1, <2>2, <3>1 DEF Ascending
    <3>3. QED
      BY <1>1, <2>2, <3>1, <3>2
  <2>5. QED
    BY <2>3, <2>4
<1>6. ToSet(r) = ToSet(q) \cup {n}
  <2>1. \A i : i \in 1..Len(r) <=> i \in 1..Len(q) \/ i = Len(q) + 1
    BY <1>1, <1>2
  <2>2. QED
    BY <1>1, <1>2, <1>3, <2>1
<1>7. QED
  BY <1>1, <1>5, <1>6 DEF r

\* remove_waiter.
LEMMA RemovedQueue ==
  ASSUME NEW q \in Seq(Nat), Ascending(q), NEW id
  PROVE  /\ RemoveFirst(q, id) \in Seq(Nat) /\ Ascending(RemoveFirst(q, id))
         /\ ToSet(RemoveFirst(q, id)) = ToSet(q) \ {id}
<1>1. /\ DOMAIN q = 1..Len(q) /\ Len(q) \in Nat /\ \A x : x \in ToSet(q) <=> \E i \in 1..Len(q) : q[i] = x
  BY Members
<1>2. CASE ~\E i \in 1..Len(q) : q[i] = id
  <2>1. RemoveFirst(q, id) = q
    BY <1>2 DEF RemoveFirst
  <2>2. QED
    BY <1>1, <1>2, <2>1
<1>3. ASSUME NEW k \in 1..Len(q), q[k] = id
      PROVE  /\ RemoveFirst(q, id) \in Seq(Nat) /\ Ascending(RemoveFirst(q, id))
             /\ ToSet(RemoveFirst(q, id)) = ToSet(q) \ {id}
  <2> DEFINE s == SubSeq(q, 1, k - 1)
             t == SubSeq(q, k + 1, Len(q))
             r == s \o t
  <2>1. \A i \in 1..Len(q) : q[i] \in Nat
    BY ElementOfSeq
  <2>2. \A i \in 1..Len(q) : q[i] = id => i = k
    <3>1. SUFFICES ASSUME NEW i \in 1..Len(q), q[i] = id, i # k PROVE FALSE
      OBVIOUS
    <3>2. q[i] < q[k] \/ q[k] < q[i]
      BY <1>1, <1>3, <3>1 DEF Ascending
    <3>3. QED
      BY <1>3, <2>1, <3>1, <3>2
  <2>3. {i \in 1..Len(q) : q[i] = id} = {k}
    BY <1>3, <2>2
  <2>4. SelectInSeq(q, LAMBDA v : v = id) = k
    <3>1. Min({k}) = k
      BY DEF Min
    <3>2. QED
      BY <2>3, <3>1 DEF SelectInSeq
  <2>5. RemoveFirst(q, id) = r
    BY <1>3, <2>4 DEF RemoveFirst, RemoveAt
  <2>6. /\ s \in Seq(Nat) /\ Len(s) = k - 1
        /\ \A i \in 1..k - 1 : s[i] = q[i]
    <3>1. \A i \in 1..k - 1 : q[i] \in Nat
      BY <1>1, <1>3, <2>1
    <3>2. /\ s \in Seq(Nat) /\ Len(s) = IF 1 <= k - 1 THEN k - 1 - 1 + 1 ELSE 0
          /\ \A i \in 1..k - 1 - 1 + 1 : s[i] = q[1 + i - 1]
      BY <3>1, SubSeqProperties
    <3>3. QED
      BY <1>1, <3>2
  <2>7. /\ t \in Seq(Nat) /\ Len(t) = Len(q) - k
        /\ \A i \in 1..Len(q) - k : t[i] = q[k + i]
    <3>1. \A i \in k + 1..Len(q) : q[i] \in Nat
      BY <1>1, <1>3, <2>1
    <3>2. /\ t \in Seq(Nat) /\ Len(t) = IF k + 1 <= Len(q) THEN Len(q) - (k + 1) + 1 ELSE 0
          /\ \A i \in 1..Len(q) - (k + 1) + 1 : t[i] = q[k + 1 + i - 1]
      BY <1>1, <3>1, SubSeqProperties
    <3> HIDE DEF t
    <3>3. Len(t) = Len(q) - k
      <4>1. \A m \in Nat : \A n \in 1..m : (IF n + 1 <= m THEN m - (n + 1) + 1 ELSE 0) = m - n
        OBVIOUS
      <4>2. QED
        BY <1>1, <3>2, <4>1
    <3>4. Len(q) - (k + 1) + 1 = Len(q) - k /\ \A i \in 1..Len(q) - k : k + 1 + i - 1 = k + i
      BY <1>1
    <3>5. QED
      BY <3>2, <3>3, <3>4
  <2>8. /\ r \in Seq(Nat) /\ Len(r) = Len(q) - 1
        /\ \A i \in 1..Len(q) - 1 : r[i] = IF i < k THEN q[i] ELSE q[i + 1]
    <3> HIDE DEF s, t
    <3>1. /\ r \in Seq(Nat) /\ Len(r) = Len(s) + Len(t)
          /\ \A i \in 1..Len(s) + Len(t) : r[i] = IF i <= Len(s) THEN s[i] ELSE t[i - Len(s)]
      BY <2>6, <2>7, ConcatProperties
    <3>2. Len(r) = Len(q) - 1
      BY <1>1, <2>6, <2>7, <3>1
    <3>3. ASSUME NEW i \in 1..Len(q) - 1 PROVE r[i] = IF i < k THEN q[i] ELSE q[i + 1]
      <4>0. i \in 1..Len(s) + Len(t)
        BY <1>1, <2>6, <2>7
      <4>1. r[i] = IF i <= k - 1 THEN s[i] ELSE t[i - (k - 1)]
        BY <2>6, <3>1, <4>0
      <4>2. CASE i < k
        BY <1>1, <2>6, <4>1, <4>2
      <4>3. CASE ~(i < k)
        <5>1. i - (k - 1) \in 1..Len(q) - k /\ k + (i - (k - 1)) = i + 1
          BY <1>1, <4>3
        <5>2. QED
          BY <2>7, <4>1, <4>3, <5>1, SMTT(30)
      <4>4. QED
        BY <4>2, <4>3
    <3>4. QED
      BY <3>1, <3>2, <3>3
  <2> HIDE DEF r
  <2>9. DOMAIN r = 1..Len(r) /\ \A x : x \in ToSet(r) <=> \E i \in 1..Len(r) : r[i] = x
    BY <2>8, Members
  <2>10. Ascending(r)
    <3>1. SUFFICES ASSUME NEW i \in 1..Len(r), NEW j \in 1..Len(r), i < j PROVE r[i] < r[j]
      BY <2>9 DEF Ascending
    <3> DEFINE at(n) == IF n < k THEN n ELSE n + 1
    <3>2. at(i) \in 1..Len(q) /\ at(j) \in 1..Len(q) /\ at(i) < at(j)
      BY <1>1, <2>8, <3>1, SMTT(30)
    <3>3. r[i] = q[at(i)] /\ r[j] = q[at(j)]
      BY <2>8
    <3> HIDE DEF at
    <3>4. QED
      BY <1>1, <3>2, <3>3 DEF Ascending
  <2>11. ToSet(r) = ToSet(q) \ {id}
    <3>1. ASSUME NEW i \in 1..Len(r) PROVE r[i] \in ToSet(q) \ {id}
      <4>1. CASE i < k
        <5>1. i \in 1..Len(q) /\ i # k /\ r[i] = q[i]
          BY <1>1, <2>8, <4>1
        <5>2. QED
          BY <1>1, <2>2, <5>1
      <4>2. CASE ~(i < k)
        <5>1. i + 1 \in 1..Len(q) /\ i + 1 # k /\ r[i] = q[i + 1]
          BY <1>1, <2>8, <4>2
        <5>2. QED
          BY <1>1, <2>2, <5>1
      <4>3. QED
        BY <4>1, <4>2
    <3>2. ASSUME NEW i \in 1..Len(q), i # k PROVE q[i] \in ToSet(r)
      <4>1. CASE i < k
        <5>1. i \in 1..Len(q) - 1
          BY <1>1, <4>1
        <5>2. i \in 1..Len(r) /\ r[i] = q[i]
          BY <2>8, <4>1, <5>1
        <5>3. QED
          BY <2>9, <5>2
      <4>2. CASE ~(i < k)
        <5>1. i - 1 \in 1..Len(r) /\ ~(i - 1 < k) /\ i - 1 + 1 = i
          BY <1>1, <2>8, <3>2, <4>2
        <5>2. r[i - 1] = q[i]
          BY <2>8, <5>1
        <5>3. QED
          BY <2>9, <5>1, <5>2
      <4>3. QED
        BY <4>1, <4>2
    <3>3. QED
      BY <1>1, <1>3, <2>9, <3>1, <3>2
  <2>12. QED
    BY <2>5, <2>8, <2>10, <2>11
<1>4. QED
  BY <1>2, <1>3

\* notify takes the front of a queue.
LEMMA SplitQueue ==
  ASSUME NEW q \in Seq(Nat), Ascending(q), NEW n \in 0..Len(q)
  PROVE  /\ SubSeq(q, 1, n) \in Seq(Nat) /\ Len(SubSeq(q, 1, n)) = n
         /\ \A i \in 1..n : SubSeq(q, 1, n)[i] = q[i]
         /\ ToSet(SubSeq(q, 1, n)) = {q[i] : i \in 1..n}
         /\ SubSeq(q, n + 1, Len(q)) \in Seq(Nat) /\ Ascending(SubSeq(q, n + 1, Len(q)))
         /\ ToSet(SubSeq(q, n + 1, Len(q))) = ToSet(q) \ {q[i] : i \in 1..n}
         /\ {q[i] : i \in 1..n} \subseteq ToSet(q)
         /\ n = Len(q) => SubSeq(q, n + 1, Len(q)) = <<>>
<1> DEFINE s == SubSeq(q, 1, n)
           t == SubSeq(q, n + 1, Len(q))
<1>1. /\ DOMAIN q = 1..Len(q) /\ Len(q) \in Nat /\ \A x : x \in ToSet(q) <=> \E i \in 1..Len(q) : q[i] = x
  BY Members
<1>2. /\ \A i \in 1..Len(q) : q[i] \in Nat
      /\ \A i \in 1..n : q[i] \in Nat /\ i \in 1..Len(q)
      /\ \A i \in n + 1..Len(q) : q[i] \in Nat
  BY <1>1, ElementOfSeq
<1>3. s \in Seq(Nat) /\ Len(s) = n /\ \A i \in 1..n : s[i] = q[i]
  <2>1. /\ s \in Seq(Nat) /\ Len(s) = (IF 1 <= n THEN n - 1 + 1 ELSE 0)
        /\ \A i \in 1..n - 1 + 1 : s[i] = q[1 + i - 1]
    BY <1>1, <1>2, SubSeqProperties
  <2> HIDE DEF s
  <2>2. n - 1 + 1 = n /\ (IF 1 <= n THEN n - 1 + 1 ELSE 0) = n /\ \A i \in 1..n : 1 + i - 1 = i
    BY <1>1
  <2>3. QED
    BY <2>1, <2>2
<1>4. t \in Seq(Nat) /\ Len(t) = Len(q) - n /\ \A i \in 1..Len(q) - n : t[i] = q[n + i]
  <2>1. /\ t \in Seq(Nat) /\ Len(t) = (IF n + 1 <= Len(q) THEN Len(q) - (n + 1) + 1 ELSE 0)
        /\ \A i \in 1..Len(q) - (n + 1) + 1 : t[i] = q[n + 1 + i - 1]
    BY <1>1, <1>2, SubSeqProperties
  <2> HIDE DEF t
  <2>2. \A m \in Nat : \A k \in 0..m : /\ (IF k + 1 <= m THEN m - (k + 1) + 1 ELSE 0) = m - k
                                       /\ m - (k + 1) + 1 = m - k
    OBVIOUS
  <2>3. \A i \in 1..Len(q) - n : n + 1 + i - 1 = n + i
    BY <1>1
  <2>4. QED
    BY <1>1, <2>1, <2>2, <2>3
<1> HIDE DEF s, t
<1>5. /\ DOMAIN s = 1..n /\ DOMAIN t = 1..Len(q) - n
      /\ \A x : x \in ToSet(t) <=> \E i \in 1..Len(q) - n : t[i] = x
      /\ \A x : x \in ToSet(s) <=> \E i \in 1..n : s[i] = x
  <2>1. DOMAIN s = 1..n /\ \A x : x \in ToSet(s) <=> \E i \in 1..n : s[i] = x
    BY <1>3, Members
  <2>2. DOMAIN t = 1..Len(q) - n /\ \A x : x \in ToSet(t) <=> \E i \in 1..Len(q) - n : t[i] = x
    BY <1>4, Members
  <2>3. QED
    BY <2>1, <2>2
<1>6. ToSet(s) = {q[i] : i \in 1..n}
  <2>1. \A x : x \in ToSet(s) <=> \E i \in 1..n : q[i] = x
    BY <1>3, <1>5
  <2>2. QED
    BY ONLY <2>1
<1>7. Ascending(t)
  <2>1. SUFFICES ASSUME NEW i \in 1..Len(q) - n, NEW j \in 1..Len(q) - n, i < j PROVE t[i] < t[j]
    BY <1>5 DEF Ascending
  <2>2. n + i \in 1..Len(q) /\ n + j \in 1..Len(q) /\ n + i < n + j
    BY <1>1, <2>1
  <2>3. q[n + i] < q[n + j]
    BY <1>1, <2>2 DEF Ascending
  <2>4. QED
    BY <1>4, <2>3
<1>8. ToSet(t) = ToSet(q) \ {q[i] : i \in 1..n}
  <2>1. ASSUME NEW i \in 1..Len(q) - n PROVE t[i] \in ToSet(q) \ {q[j] : j \in 1..n}
    <3>1. n + i \in 1..Len(q) /\ t[i] = q[n + i]
      BY <1>1, <1>4
    <3>2. ASSUME NEW j \in 1..n PROVE q[j] # q[n + i]
      <4>1. j \in 1..Len(q) /\ j < n + i
        BY <1>1
      <4>2. q[j] < q[n + i]
        BY <1>1, <3>1, <4>1 DEF Ascending
      <4>3. QED
        BY <1>2, <3>1, <4>1, <4>2
    <3>3. QED
      BY <1>1, <3>1, <3>2
  <2>2. ASSUME NEW j \in 1..Len(q), q[j] \notin {q[i] : i \in 1..n} PROVE q[j] \in ToSet(t)
    <3>1. j \notin 1..n
      BY <2>2
    <3>2. j - n \in 1..Len(q) - n /\ n + (j - n) = j
      BY <1>1, <3>1
    <3>3. t[j - n] = q[j]
      BY <1>4, <3>2
    <3>4. QED
      BY <1>5, <3>2, <3>3
  <2>3. \A x \in ToSet(t) : x \in ToSet(q) \ {q[i] : i \in 1..n}
    BY <1>5, <2>1
  <2>4. \A x \in ToSet(q) : x \notin {q[i] : i \in 1..n} => x \in ToSet(t)
    BY <1>1, <2>2
  <2>5. QED
    BY ONLY <2>3, <2>4
<1>9. {q[i] : i \in 1..n} \subseteq ToSet(q)
  BY <1>1, <1>2
<1>10. n = Len(q) => t = <<>>
  BY <1>1, SubSeqEmpty DEF t
<1>11. QED
  BY <1>3, <1>4, <1>6, <1>7, <1>8, <1>9, <1>10 DEF s, t

\* The completions that cancel collects.
LEMMA ListedSet ==
  ASSUME NEW S, IsFiniteSet(S)
  PROVE  /\ SetToSeq(S) \in Seq(S)
         /\ \A i, j \in DOMAIN SetToSeq(S) : SetToSeq(S)[i] = SetToSeq(S)[j] => i = j
         /\ \A x \in S : \E i \in DOMAIN SetToSeq(S) : SetToSeq(S)[i] = x
<1> DEFINE n == Cardinality(S)
           f == SetToSeq(S)
<1>1. n \in Nat /\ ExistsBijection(1..n, S)
  BY FS_CardinalityType
<1>2. \E g \in [1..n -> S] : IsInjective(g)
  BY <1>1 DEF ExistsBijection, Bijection, Injection
<1>3. f \in [1..n -> S] /\ IsInjective(f)
  BY <1>2 DEF SetToSeq
<1> HIDE DEF f
<1>4. f \in Injection(1..n, S)
  BY <1>3 DEF Injection
<1>5. Cardinality(1..n) = n
  BY <1>1, FS_Interval
<1>6. f \in Surjection(1..n, S)
  BY <1>4, <1>5, FS_Injection
<1>7. f \in Seq(S)
  BY <1>1, <1>3, SeqDef
<1>8. \A i, j \in DOMAIN f : f[i] = f[j] => i = j
  BY <1>3 DEF IsInjective
<1>9. \A x \in S : \E i \in DOMAIN f : f[i] = x
  BY <1>3, <1>6 DEF Surjection
<1>10. QED
  BY <1>7, <1>8, <1>9 DEF f

-----------------------------------------------------------------------------
(***************************************************************************)
(* Frames: what a step that touches little preserves.                      *)
(***************************************************************************)

answerVars == <<waiters, queues, notified, sweeps, deadlines, inFlight, cancelled, intent>>
meetingVars == <<broadcast, ready, addressed, received>>
pollVars == <<unpolled, signaled, waking>>

LEMMA ThreadNames ==
  /\ Main \in Agents /\ Workers \subseteq Agents /\ Agents \subseteq Threads /\ Timer \in Threads
  /\ Timer \notin Agents /\ Main \notin Workers /\ Agents = Workers \cup {Main}
  /\ Threads = Agents \cup {Timer} /\ None \notin Threads
BY AgentsAssumption, NoneAssumption DEF Agents, Threads, Timer

LEMMA WaiterFields ==
  ASSUME TypeOK, NEW id \in Ids
  PROVE  /\ waiters[id] \in Waiter
         /\ waiters[id].by \in Agents /\ waiters[id].at \in Locations
         /\ waiters[id].outcome \in Outcomes \cup {None} /\ id \in Nat
         /\ id \in 1..Len(waiters) /\ Ids = 1..Len(waiters) /\ Len(waiters) \in Nat
<1>1. waiters \in Seq(Waiter) /\ Ids = 1..Len(waiters) /\ Len(waiters) \in Nat
  BY LenProperties DEF TypeOK, Ids
<1>2. waiters[id] \in Waiter
  BY <1>1, ElementOfSeq
<1>3. QED
  BY <1>1, <1>2 DEF Waiter

LEMMA IntentsKept ==
  ASSUME Intents, UNCHANGED <<intent, sweeps, waiters>>,
         \A a \in Agents : pc'[a] \in {"publish", "wait"} => pc'[a] = pc[a]
  PROVE  Intents'
BY DEF Intents, Ids

LEMMA AnsweredKept ==
  ASSUME TypeOK, Answered,
         UNCHANGED <<waiters, queues, notified, sweeps, deadlines, inFlight, cancelled>>,
         \A a \in Agents : pc[a] = "wait" => pc'[a] = "wait" /\ intent'[a] = intent[a]
  PROVE  Answered'
<1>1. ASSUME NEW id \in Ids PROVE waiters[id].by \in Agents
  BY <1>1, WaiterFields
<1>2. ASSUME NEW id \in Ids PROVE Known(id)'
  <2>1. (UnderWay(id)' <=> UnderWay(id)) /\ (Registered(id)' <=> Registered(id))
    BY DEF UnderWay, Registered
  <2>2. QED
    BY <1>1, <1>2, <2>1 DEF Known, Answered
<1>3. QED
  BY <1>2 DEF Answered, Ids

LEMMA FlyingKept ==
  ASSUME Flying, UNCHANGED <<waiters, queues, notified, inFlight, cancelled>>,
         \A t \in Threads : pc'[t] # pc[t] /\ pc[t] = "complete" => inFlight[t] = <<>>
  PROVE  Flying'
<1>1. ASSUME NEW entry PROVE Carried(entry)' <=> Carried(entry)
  BY DEF Carried, Ids, Registered
<1>2. \A t \in Threads : pc'[t] # "complete" => inFlight'[t] = <<>>
  BY DEF Flying
<1>3. QED
  BY <1>1, <1>2 DEF Flying

LEMMA AnswersKept ==
  ASSUME TypeOK, Intents, Queued, Answered, Flying, UNCHANGED answerVars,
         \A u \in Threads : pc'[u] # pc[u] =>
           pc[u] \notin {"wait", "complete"} /\ pc'[u] \notin {"publish", "wait"}
  PROVE  Intents' /\ Queued' /\ Answered' /\ Flying'
<1>1. Intents'
  BY IntentsKept, ThreadNames DEF answerVars
<1>2. Queued'
  BY DEF Queued, answerVars, Ids
<1>3. Answered'
  BY AnsweredKept, ThreadNames DEF answerVars
<1>4. Flying'
  BY FlyingKept DEF answerVars
<1>5. QED
  BY <1>1, <1>2, <1>3, <1>4

LEMMA SleepingKept ==
  ASSUME Sleeping, UNCHANGED <<waiters, queues, cancelled, broadcast>>,
         asleep' \subseteq asleep, asleep \subseteq Threads,
         \A t \in asleep' : pc'[t] = pc[t] /\ intent'[t] = intent[t],
         \A u \in Threads : pc[u] = "complete" => pc'[u] = "complete"
  PROVE  Sleeping'
<1>1. ASSUME NEW t \in asleep', Awaits(t) PROVE Awaits(t)'
  BY <1>1 DEF Awaits, Registered, Addressed
<1>2. Timer \in asleep' => pc'[Timer] = "run"
  BY DEF Sleeping
<1>3. \A a \in Agents : a \in asleep' => pc'[a] \in {"wait", "receive", "broadcast"}
  BY DEF Sleeping
<1>4. (\E u \in Threads : pc'[u] = "complete") \/ (\A t \in asleep' : Awaits(t)')
  BY <1>1 DEF Sleeping
<1>5. QED
  BY <1>2, <1>3, <1>4 DEF Sleeping

LEMMA SleepingWoken ==
  ASSUME asleep' = {}
  PROVE  Sleeping'
BY DEF Sleeping

LEMMA DrivingKept ==
  ASSUME Driving, UNCHANGED <<waiters, unpolled, signaled, waking>>,
         \A a \in Agents : pc'[a] # pc[a] => pc'[a] \notin {"poll", "park"} /\ pc[a] # "poll"
  PROVE  Driving'
<1>1. ASSUME NEW a \in Agents PROVE Handles(a)' = Handles(a)
  BY DEF Handles, Ids
<1>2. ASSUME NEW a \in Agents PROVE Summoned(a)' <=> Summoned(a)
  BY DEF Summoned
<1>3. QED
  BY <1>1, <1>2 DEF Driving

LEMMA MeetingKept ==
  ASSUME Meeting, UNCHANGED meetingVars,
         pc[Main] = "broadcast" => pc'[Main] = "broadcast",
         \A w \in Workers : pc'[w] \in {"unborn", "boot"} => pc[w] \in {"unborn", "boot"}
  PROVE  Meeting'
BY DEF Meeting, meetingVars

\* One thread moves on, and the mutex stays as it is.
LEMMA ControlMoved ==
  ASSUME TypeOK, Control, NEW t \in Threads, NEW to, pc' = [pc EXCEPT ![t] = to],
         UNCHANGED <<lock, cancelled>>, pc[t] # "publish", to # "publish", to # "boot",
         t = Timer => to \in {"unborn", "run", "complete", "done"},
         t \in Workers => to \notin {"start", "broadcast", "join"},
         t = Main => /\ to \notin {"unborn", "receive"} /\ pc[Main] # "start"
                     /\ cancelled => to \in {"complete", "join", "done"}
  PROVE  Control' /\ pc'[t] = to /\ \A u \in Threads \ {t} : pc'[u] = pc[u]
<1>1. pc'[t] = to /\ \A u \in Threads \ {t} : pc'[u] = pc[u]
  BY DEF TypeOK
<1>2. \A a \in Agents : pc'[a] = "publish" <=> lock' = a
  BY <1>1, ThreadNames DEF Control
<1>3. lock' # None => ~cancelled'
  BY DEF Control
<1>4. pc'[Timer] \in {"unborn", "run", "complete", "done"}
  BY <1>1, ThreadNames DEF Control
<1>5. \A w \in Workers : pc'[w] \notin {"start", "broadcast", "join"}
  BY <1>1, ThreadNames DEF Control
<1>6. pc'[Main] \notin {"unborn", "boot", "receive"}
  BY <1>1, ThreadNames DEF Control
<1>7. \A w \in Workers : pc'[w] = "boot" => pc'[Main] = "start" /\ pc[w] = "boot"
  BY <1>1, ThreadNames DEF Control
<1>8. cancelled' => pc'[Main] \in {"complete", "join", "done"}
  BY <1>1, ThreadNames DEF Control
<1>9. \A v, w \in Workers : pc'[v] = "boot" /\ pc'[w] = "boot" => v = w
  BY <1>7 DEF Control
<1>10. QED
  BY <1>1, <1>2, <1>3, <1>4, <1>5, <1>6, <1>7, <1>8, <1>9 DEF Control

\* A step of which the proved properties see nothing.
LEMMA Unaffected ==
  ASSUME IInv, UNCHANGED answerVars, UNCHANGED meetingVars, UNCHANGED pollVars,
         UNCHANGED <<lock, pc>>, asleep' \subseteq asleep
  PROVE  IInv'
<1>1. TypeOK'
  BY DEF IInv, TypeOK, answerVars, meetingVars, pollVars, Ids
<1>2. Control'
  BY DEF IInv, Control, answerVars
<1>3. Intents' /\ Queued' /\ Answered' /\ Flying'
  BY AnswersKept DEF IInv
<1>4. Sleeping'
  BY SleepingKept DEF IInv, TypeOK, answerVars, meetingVars
<1>5. Driving'
  BY DrivingKept DEF IInv, answerVars, pollVars
<1>6. Meeting'
  BY MeetingKept DEF IInv
<1>7. QED
  BY <1>1, <1>2, <1>3, <1>4, <1>5, <1>6 DEF IInv

\* A thread moves on to a call that blocks nobody.
LEMMA Moved ==
  ASSUME IInv, NEW t \in Threads, NEW to \in States, pc' = [pc EXCEPT ![t] = to],
         Control', asleep' \subseteq asleep,
         pc[t] \in {"script", "drive", "park", "join", "unborn", "exit"},
         to \notin {"publish", "wait", "poll", "park", "unborn", "boot"},
         UNCHANGED answerVars, UNCHANGED meetingVars, UNCHANGED pollVars, UNCHANGED lock
  PROVE  IInv'
<1>1. /\ pc'[t] = to /\ pc'[t] # pc[t] => pc[t] \in {"script", "drive", "park", "join", "unborn", "exit"}
      /\ \A u \in Threads \ {t} : pc'[u] = pc[u]
  BY DEF IInv, TypeOK
<1>2. TypeOK'
  BY DEF IInv, TypeOK, answerVars, meetingVars, pollVars, Ids
<1>3. Intents' /\ Queued' /\ Answered' /\ Flying'
  <2>1. \A u \in Threads : pc'[u] # pc[u] =>
           pc[u] \notin {"wait", "complete"} /\ pc'[u] \notin {"publish", "wait"}
    BY <1>1
  <2>2. QED
    BY <2>1, AnswersKept DEF IInv
<1>4. t \notin asleep
  BY ThreadNames DEF IInv, Sleeping
<1>5. Sleeping'
  <2>1. asleep \subseteq Threads
    BY DEF IInv, TypeOK
  <2>2. \A u \in asleep' : pc'[u] = pc[u]
    BY <1>1, <1>4, <2>1
  <2>3. \A u \in Threads : pc[u] = "complete" => pc'[u] = "complete"
    BY <1>1
  <2>4. QED
    BY <2>1, <2>2, <2>3, SleepingKept DEF IInv, answerVars, meetingVars
<1>6. Driving'
  <2>1. \A a \in Agents : pc'[a] # pc[a] => pc'[a] \notin {"poll", "park"} /\ pc[a] # "poll"
    BY <1>1, ThreadNames
  <2>2. QED
    BY <2>1, DrivingKept DEF IInv, answerVars, pollVars
<1>7. Meeting'
  <2>1. pc[Main] = "broadcast" => pc'[Main] = "broadcast"
    BY <1>1, ThreadNames
  <2>2. \A w \in Workers : pc'[w] \in {"unborn", "boot"} => pc[w] \in {"unborn", "boot"}
    BY <1>1, ThreadNames
  <2>3. QED
    BY <2>1, <2>2, MeetingKept DEF IInv
<1>8. QED
  BY <1>2, <1>3, <1>5, <1>6, <1>7 DEF IInv

-----------------------------------------------------------------------------
(***************************************************************************)
(* Steps that leave the waiters alone.                                     *)
(***************************************************************************)

LEMMA StoreStep ==
  ASSUME IInv, NEW a \in Agents, NEW l \in Locations, Store(a, l)
  PROVE  IInv'
<1>1. UNCHANGED answerVars /\ UNCHANGED meetingVars /\ UNCHANGED pollVars /\ UNCHANGED <<lock, pc>>
  BY DEF Store, answerVars, meetingVars, pollVars, memoryVars, registryVars, messageVars, driverVars, historyVars
<1>2. asleep' \subseteq asleep
  BY DEF Store
<1>3. QED
  BY <1>1, <1>2, Unaffected

LEMMA ElapseStep ==
  ASSUME IInv, NEW id \in Ids, Elapse(id)
  PROVE  IInv'
<1>1. UNCHANGED answerVars /\ UNCHANGED meetingVars /\ UNCHANGED pollVars /\ UNCHANGED <<lock, pc>>
  BY DEF Elapse, answerVars, meetingVars, pollVars, memoryVars, registryVars, messageVars, driverVars, historyVars
<1>2. asleep' \subseteq asleep
  BY DEF Elapse
<1>3. QED
  BY <1>1, <1>2, Unaffected

LEMMA GetReportStep ==
  ASSUME IInv, GetReport
  PROVE  IInv'
<1>1. UNCHANGED answerVars /\ UNCHANGED meetingVars /\ UNCHANGED pollVars /\ UNCHANGED <<lock, pc>>
  BY DEF GetReport, answerVars, meetingVars, pollVars, memoryVars, registryVars, messageVars, driverVars, historyVars
<1>2. asleep' \subseteq asleep
  BY DEF GetReport
<1>3. QED
  BY <1>1, <1>2, Unaffected

LEMMA ReportStep ==
  ASSUME IInv, NEW w \in Agents, Report(w)
  PROVE  IInv'
<1>1. UNCHANGED answerVars /\ UNCHANGED meetingVars /\ UNCHANGED pollVars /\ UNCHANGED <<lock, pc>>
  BY DEF Report, answerVars, meetingVars, pollVars, memoryVars, registryVars, messageVars, driverVars, historyVars
<1>2. asleep' \subseteq asleep
  BY DEF Report, NotifyAll
<1>3. QED
  BY <1>1, <1>2, Unaffected

LEMMA ExpireStep ==
  ASSUME IInv, NEW t \in Threads, Expire(t)
  PROVE  IInv'
<1>1. UNCHANGED answerVars /\ UNCHANGED meetingVars /\ UNCHANGED pollVars /\ UNCHANGED <<lock, pc>>
  BY DEF Expire, answerVars, meetingVars, pollVars, memoryVars, registryVars, messageVars, driverVars, historyVars
<1>2. asleep' \subseteq asleep
  BY DEF Expire
<1>3. QED
  BY <1>1, <1>2, Unaffected

LEMMA EnsureTimerStep ==
  ASSUME IInv, NEW a \in Agents, EnsureTimer(a)
  PROVE  IInv'
<1>1. /\ UNCHANGED answerVars /\ UNCHANGED meetingVars /\ UNCHANGED pollVars /\ UNCHANGED lock
      /\ asleep' \subseteq asleep
  BY DEF EnsureTimer, answerVars, meetingVars, pollVars, memoryVars, registryVars, messageVars, driverVars, historyVars
<1>2. /\ Timer \in Threads /\ pc[Timer] \in {"unborn"}
      /\ pc' = [pc EXCEPT ![Timer] = "run"]
  BY ThreadNames DEF EnsureTimer, Goes
<1>3. TypeOK /\ Control /\ UNCHANGED <<lock, cancelled>>
  BY <1>1 DEF IInv, answerVars
<1>4. Control'
  <2>1. /\ Timer = Main => pc[Main] # "start" /\ (cancelled => "run" \in {"complete", "join", "done"})
        /\ Timer = Main => "run" # "receive"
        /\ Timer = Timer => "run" = "run"
    BY <1>2, <1>3, ThreadNames DEF Control, EnsureTimer
  <2>2. QED
    BY <1>2, <1>3, <2>1, ControlMoved
<1>5. "run" \in States /\ "run" \notin {"publish", "wait", "poll", "park", "unborn", "boot"}
  BY DEF States
<1>6. QED
  BY <1>1, <1>2, <1>4, <1>5, Moved

LEMMA FailsStep ==
  ASSUME IInv, NEW a \in Agents, Fails(a)
  PROVE  IInv'
<1>1. /\ UNCHANGED answerVars /\ UNCHANGED meetingVars /\ UNCHANGED pollVars /\ UNCHANGED lock
      /\ asleep' \subseteq asleep
  BY DEF Fails, answerVars, meetingVars, pollVars, memoryVars, registryVars, messageVars, driverVars, historyVars
<1>2. /\ a \in Threads /\ pc[a] \in {"script"}
      /\ pc' = [pc EXCEPT ![a] = "exit"]
  BY ThreadNames DEF Fails, Goes
<1>3. TypeOK /\ Control /\ UNCHANGED <<lock, cancelled>>
  BY <1>1 DEF IInv, answerVars
<1>4. Control'
  <2>1. /\ a = Main => pc[Main] # "start" /\ (cancelled => "exit" \in {"complete", "join", "done"})
        /\ a = Main => "exit" # "receive"
        /\ a = Timer => "exit" = "run"
    BY <1>2, <1>3, ThreadNames DEF Control
  <2>2. QED
    BY <1>2, <1>3, <2>1, ControlMoved
<1>5. "exit" \in States /\ "exit" \notin {"publish", "wait", "poll", "park", "unborn", "boot"}
  BY DEF States
<1>6. QED
  BY <1>1, <1>2, <1>4, <1>5, Moved

LEMMA EndScriptStep ==
  ASSUME IInv, NEW a \in Agents, EndScript(a)
  PROVE  IInv'
<1>1. /\ UNCHANGED answerVars /\ UNCHANGED meetingVars /\ UNCHANGED pollVars /\ UNCHANGED lock
      /\ asleep' \subseteq asleep
  BY DEF EndScript, answerVars, meetingVars, pollVars, memoryVars, registryVars, messageVars, driverVars, historyVars
<1>2. /\ a \in Threads /\ pc[a] \in {"script"}
      /\ pc' = [pc EXCEPT ![a] = "drive"]
  BY ThreadNames DEF EndScript, Goes
<1>3. TypeOK /\ Control /\ UNCHANGED <<lock, cancelled>>
  BY <1>1 DEF IInv, answerVars
<1>4. Control'
  <2>1. /\ a = Main => pc[Main] # "start" /\ (cancelled => "drive" \in {"complete", "join", "done"})
        /\ a = Main => "drive" # "receive"
        /\ a = Timer => "drive" = "run"
    BY <1>2, <1>3, ThreadNames DEF Control
  <2>2. QED
    BY <1>2, <1>3, <2>1, ControlMoved
<1>5. "drive" \in States /\ "drive" \notin {"publish", "wait", "poll", "park", "unborn", "boot"}
  BY DEF States
<1>6. QED
  BY <1>1, <1>2, <1>4, <1>5, Moved

LEMMA ReceiveStep ==
  ASSUME IInv, NEW w \in Agents, Receive(w)
  PROVE  IInv'
<1>1. /\ UNCHANGED answerVars /\ UNCHANGED meetingVars /\ UNCHANGED pollVars /\ UNCHANGED lock
      /\ asleep' \subseteq asleep
  BY DEF Receive, answerVars, meetingVars, pollVars, memoryVars, registryVars, messageVars, driverVars, historyVars
<1>2. /\ w \in Threads /\ pc[w] \in {"script"}
      /\ pc' = [pc EXCEPT ![w] = "receive"]
  BY ThreadNames DEF Receive, Goes, Calls
<1>3. TypeOK /\ Control /\ UNCHANGED <<lock, cancelled>>
  BY <1>1 DEF IInv, answerVars
<1>4. Control'
  <2>1. /\ w = Main => pc[Main] # "start" /\ (cancelled => "receive" \in {"complete", "join", "done"})
        /\ w = Main => "receive" # "receive"
        /\ w = Timer => "receive" = "run"
    BY <1>2, <1>3, ThreadNames DEF Control, Receive
  <2>2. QED
    BY <1>2, <1>3, <2>1, ControlMoved
<1>5. "receive" \in States /\ "receive" \notin {"publish", "wait", "poll", "park", "unborn", "boot"}
  BY DEF States
<1>6. QED
  BY <1>1, <1>2, <1>4, <1>5, Moved

LEMMA UnparkStep ==
  ASSUME IInv, NEW a \in Agents, Unpark(a)
  PROVE  IInv'
<1>1. /\ UNCHANGED answerVars /\ UNCHANGED meetingVars /\ UNCHANGED pollVars /\ UNCHANGED lock
      /\ asleep' \subseteq asleep
  BY DEF Unpark, answerVars, meetingVars, pollVars, memoryVars, registryVars, messageVars, driverVars, historyVars
<1>2. /\ a \in Threads /\ pc[a] \in {"park"}
      /\ pc' = [pc EXCEPT ![a] = "drive"]
  BY ThreadNames DEF Unpark, Goes
<1>3. TypeOK /\ Control /\ UNCHANGED <<lock, cancelled>>
  BY <1>1 DEF IInv, answerVars
<1>4. Control'
  <2>1. /\ a = Main => pc[Main] # "start" /\ (cancelled => "drive" \in {"complete", "join", "done"})
        /\ a = Main => "drive" # "receive"
        /\ a = Timer => "drive" = "run"
    BY <1>2, <1>3, ThreadNames DEF Control
  <2>2. QED
    BY <1>2, <1>3, <2>1, ControlMoved
<1>5. "drive" \in States /\ "drive" \notin {"publish", "wait", "poll", "park", "unborn", "boot"}
  BY DEF States
<1>6. QED
  BY <1>1, <1>2, <1>4, <1>5, Moved

LEMMA JoinStep ==
  ASSUME IInv, Join
  PROVE  IInv'
<1>1. /\ UNCHANGED answerVars /\ UNCHANGED meetingVars /\ UNCHANGED pollVars /\ UNCHANGED lock
      /\ asleep' \subseteq asleep
  BY DEF Join, answerVars, meetingVars, pollVars, memoryVars, registryVars, messageVars, driverVars, historyVars
<1>2. /\ Main \in Threads /\ pc[Main] \in {"join"}
      /\ pc' = [pc EXCEPT ![Main] = "done"]
  BY ThreadNames DEF Join, Goes
<1>3. TypeOK /\ Control /\ UNCHANGED <<lock, cancelled>>
  BY <1>1 DEF IInv, answerVars
<1>4. Control'
  <2>1. /\ Main = Main => pc[Main] # "start" /\ (cancelled => "done" \in {"complete", "join", "done"})
        /\ Main = Main => "done" # "receive"
        /\ Main = Timer => "done" = "run"
    BY <1>2, <1>3, ThreadNames DEF Control, Join
  <2>2. QED
    BY <1>2, <1>3, <2>1, ControlMoved
<1>5. "done" \in States /\ "done" \notin {"publish", "wait", "poll", "park", "unborn", "boot"}
  BY DEF States
<1>6. QED
  BY <1>1, <1>2, <1>4, <1>5, Moved

\* start, worker_ready and a worker that cannot be made move two threads.
LEMMA PairMoved ==
  ASSUME IInv, NEW w \in Workers, NEW x, NEW y, pc' = [pc EXCEPT ![Main] = x, ![w] = y],
         \/ x = "start" /\ y = "boot" /\ pc[Main] = "script" /\ pc[w] = "unborn"
         \/ x = "script" /\ y = "script" /\ pc[w] = "boot"
         \/ x = "exit" /\ y = "exit" /\ pc[w] = "boot",
         UNCHANGED answerVars, UNCHANGED pollVars, UNCHANGED lock,
         UNCHANGED <<broadcast, addressed, received>>,
         ready' = ready \/ (y = "script" /\ ready' = ready \cup {w}),
         asleep' \subseteq asleep
  PROVE  IInv'
<1>0. TypeOK /\ Control /\ Sleeping /\ Driving /\ Meeting
  BY DEF IInv
<1>1. /\ pc'[Main] = x /\ pc'[w] = y /\ \A u \in Threads \ {Main, w} : pc'[u] = pc[u]
      /\ pc[Main] \in {"script", "start"} /\ pc[w] \in {"unborn", "boot"}
  <2>1. pc[Main] \in {"script", "start"} /\ pc[w] \in {"unborn", "boot"}
    BY <1>0 DEF Control
  <2>2. QED
    BY <1>0, <2>1, ThreadNames DEF TypeOK
<1>2. TypeOK'
  <2>1. pc' \in [Threads -> States]
    BY <1>0 DEF TypeOK, States
  <2>2. QED
    BY <1>0, <2>1 DEF TypeOK, answerVars, pollVars, Ids
<1>3. Control'
  <2>1. ~cancelled
    BY <1>0, <1>1 DEF Control
  <2>2. \A a \in Agents : pc'[a] = "publish" <=> lock' = a
    <3>1. lock # Main /\ lock # w
      BY <1>0, <1>1, ThreadNames DEF Control
    <3>2. pc'[Main] # "publish" /\ pc'[w] # "publish"
      BY <1>1
    <3>3. QED
      BY <1>0, <1>1, <3>1, <3>2, ThreadNames DEF Control
  <2>3. \A v \in Workers : pc[v] = "boot" /\ pc[Main] # "script" => pc[w] = "boot" /\ v = w
    BY <1>0, <1>1 DEF Control
  <2>4. \A v \in Workers : pc'[v] = "boot" => v = w /\ pc'[Main] = "start"
    <3>1. ASSUME NEW v \in Workers, v # w, pc'[v] = "boot" PROVE FALSE
      <4>1. pc[v] = "boot"
        BY <1>1, <3>1, ThreadNames
      <4>2. pc[Main] = "start"
        BY <1>0, <4>1 DEF Control
      <4>3. QED
        BY <2>3, <3>1, <4>1, <4>2
    <3>2. QED
      BY <1>1, <3>1
  <2>5. pc'[Timer] = pc[Timer]
    BY <1>1, ThreadNames
  <2>6. \A v \in Workers : pc'[v] \notin {"start", "broadcast", "join"}
    BY <1>0, <1>1, ThreadNames DEF Control
  <2>7. QED
    BY <1>0, <1>1, <2>1, <2>2, <2>4, <2>5, <2>6 DEF Control, answerVars
<1>4. Intents' /\ Queued' /\ Answered' /\ Flying'
  <2>1. \A u \in Threads : pc'[u] # pc[u] =>
           pc[u] \notin {"wait", "complete"} /\ pc'[u] \notin {"publish", "wait"}
    BY <1>1
  <2>2. QED
    BY <2>1, AnswersKept DEF IInv
<1>5. Sleeping'
  <2>1. asleep \subseteq Threads /\ Main \notin asleep /\ w \notin asleep
    BY <1>0, <1>1, ThreadNames DEF Sleeping, TypeOK
  <2>2. \A u \in asleep' : pc'[u] = pc[u]
    BY <1>1, <2>1
  <2>3. \A u \in Threads : pc[u] = "complete" => pc'[u] = "complete"
    BY <1>1
  <2>4. QED
    BY <1>0, <2>1, <2>2, <2>3, SleepingKept DEF answerVars
<1>6. Driving'
  <2>1. \A a \in Agents : pc'[a] # pc[a] => pc'[a] \notin {"poll", "park"} /\ pc[a] # "poll"
    BY <1>1, ThreadNames
  <2>2. QED
    BY <1>0, <2>1, DrivingKept DEF answerVars, pollVars
<1>7. Meeting'
  <2>1. broadcast = None /\ w \notin addressed \cup ready
    BY <1>0, <1>1 DEF Meeting
  <2>2. \A v \in Workers : pc'[v] \in {"unborn", "boot"} => v \notin addressed' \cup ready'
    <3>1. \A v \in Workers : v # w => pc'[v] = pc[v]
      BY <1>1, ThreadNames
    <3>2. QED
      BY <1>0, <1>1, <2>1, <3>1 DEF Meeting
  <2>3. addressed' \cap ready' \subseteq received'
    BY <1>0, <2>1 DEF Meeting
  <2>4. QED
    BY <2>1, <2>2, <2>3 DEF Meeting
<1>8. QED
  BY <1>2, <1>3, <1>4, <1>5, <1>6, <1>7 DEF IInv

LEMMA StartStep ==
  ASSUME IInv, NEW w \in Workers, Start(w)
  PROVE  IInv'
BY PairMoved DEF Start, answerVars, meetingVars, pollVars, memoryVars, registryVars, messageVars, driverVars, historyVars, Calls

LEMMA BootStep ==
  ASSUME IInv, NEW w \in Workers, Boot(w)
  PROVE  IInv'
BY PairMoved DEF Boot, answerVars, meetingVars, pollVars, memoryVars, registryVars, messageVars, driverVars, historyVars, NotifyAll

LEMMA BootFailsStep ==
  ASSUME IInv, NEW w \in Workers, BootFails(w)
  PROVE  IInv'
BY PairMoved DEF BootFails, answerVars, meetingVars, pollVars, memoryVars, registryVars, messageVars, driverVars, historyVars

\* The comparison of a wait, under the mutex.
LEMMA CompareStep ==
  ASSUME IInv, NEW a \in Agents, NEW l \in Locations, NEW async \in BOOLEAN,
         NEW timed \in BOOLEAN, Compare(a, l, async, timed)
  PROVE  IInv'
<1> DEFINE i == [at |-> l, async |-> async, timed |-> timed, since |-> sweeps[l]]
<1>0. TypeOK /\ Control /\ Intents /\ Queued /\ Answered /\ Flying /\ Sleeping /\ Driving /\ Meeting
  BY DEF IInv
<1>1. /\ pc[a] = "script" /\ pc' = [pc EXCEPT ![a] = "publish"]
      /\ lock = None /\ lock' = a /\ ~cancelled
      /\ intent' = [intent EXCEPT ![a] = i]
      /\ UNCHANGED <<waiters, queues, notified, sweeps, deadlines, inFlight, cancelled, asleep>>
      /\ UNCHANGED meetingVars /\ UNCHANGED pollVars
  BY DEF Compare, Calls, Enters, Goes, HoldsLock, answerVars, meetingVars, pollVars, registryVars,
         messageVars, driverVars, historyVars
<1>2. /\ pc'[a] = "publish" /\ \A u \in Threads \ {a} : pc'[u] = pc[u]
      /\ intent'[a] = i /\ \A b \in Agents \ {a} : intent'[b] = intent[b]
      /\ DOMAIN intent' = Agents
  BY <1>0, <1>1, ThreadNames DEF TypeOK
<1>3. TypeOK'
  <2>1. pc' \in [Threads -> States]
    BY <1>0, <1>1 DEF TypeOK, States
  <2>2. QED
    BY <1>0, <1>1, <1>2, <2>1 DEF TypeOK, meetingVars, pollVars, Ids
<1>4. Control'
  <2>1. \A b \in Agents : pc'[b] = "publish" <=> lock' = b
    BY <1>0, <1>1, <1>2, ThreadNames DEF Control
  <2>2. pc'[Timer] = pc[Timer] /\ (a # Main => pc'[Main] = pc[Main])
    BY <1>2, ThreadNames
  <2>3. \A w \in Workers : pc'[w] # "publish" => pc'[w] = pc[w]
    BY <1>2, ThreadNames
  <2>4. a = Main => \A w \in Workers : pc[w] # "boot"
    BY <1>0, <1>1 DEF Control
  <2>5. \A w \in Workers : pc'[w] = "boot" => pc[w] = "boot" /\ pc'[Main] = "start"
    BY <1>0, <1>2, <2>2, <2>3, <2>4 DEF Control
  <2>6. pc'[Timer] \in {"unborn", "run", "complete", "done"}
    BY <1>0, <2>2 DEF Control
  <2>7. \A w \in Workers : pc'[w] \notin {"start", "broadcast", "join"}
    BY <1>0, <2>3 DEF Control
  <2>8. pc'[Main] \notin {"unborn", "boot", "receive"}
    BY <1>0, <1>2, <2>2 DEF Control
  <2>9. \A v, w \in Workers : pc'[v] = "boot" /\ pc'[w] = "boot" => v = w
    BY <1>0, <2>5 DEF Control
  <2>10. QED
    BY <1>1, <2>1, <2>5, <2>6, <2>7, <2>8, <2>9 DEF Control
<1>5. Intents'
  <2>1. ASSUME NEW b \in Agents, pc'[b] = "publish"
        PROVE  intent'[b] \in Wait /\ intent'[b].since = sweeps'[intent'[b].at]
    <3>1. b = a
      BY <1>0, <1>1, <1>2, <2>1, ThreadNames DEF Control
    <3>2. sweeps[l] \in Nat
      BY <1>0 DEF TypeOK
    <3>3. i \in Wait /\ i.since = sweeps[i.at]
      BY <3>2 DEF Wait
    <3>4. QED
      BY <1>1, <1>2, <3>1, <3>3
  <2>2. ASSUME NEW b \in Agents, pc'[b] = "wait" PROVE pc[b] = "wait" /\ intent'[b] = intent[b]
    BY <1>1, <1>2, <2>2, ThreadNames
  <2>3. QED
    BY <1>0, <1>1, <2>1, <2>2 DEF Intents, Ids
<1>6. Queued'
  BY <1>0, <1>1 DEF Queued, Ids
<1>7. Answered'
  <2>1. \A b \in Agents : pc[b] = "wait" => pc'[b] = "wait" /\ intent'[b] = intent[b]
    BY <1>1, <1>2, ThreadNames
  <2>2. QED
    BY <1>0, <1>1, <2>1, AnsweredKept
<1>8. Flying'
  <2>1. \A u \in Threads : pc'[u] # pc[u] => pc[u] # "complete"
    BY <1>1, <1>2
  <2>2. QED
    BY <1>0, <1>1, <2>1, FlyingKept
<1>9. Sleeping'
  <2>1. asleep \subseteq Threads /\ a \notin asleep
    BY <1>0, <1>1 DEF Sleeping, TypeOK
  <2>2. Timer \in asleep' => pc'[Timer] = "run"
    BY <1>0, <1>1, <1>2, ThreadNames DEF Sleeping
  <2>3. \A b \in Agents : b \in asleep' => pc'[b] \in {"wait", "receive", "broadcast"}
    BY <1>0, <1>1, <1>2, <2>1, ThreadNames DEF Sleeping
  <2>4. ASSUME NEW t \in asleep', Awaits(t) PROVE Awaits(t)'
    <3>1. pc'[t] = pc[t] /\ t \in Threads /\ t # a
      BY <1>1, <1>2, <2>1
    <3>2. CASE t = Timer
      BY <1>0, <1>1, <2>2, <2>4, <3>2 DEF Awaits
    <3>3. CASE t \in Agents
      <4>1. intent'[t] = intent[t]
        BY <1>2, <3>1, <3>3
      <4>2. QED
        BY <1>1, <2>4, <3>1, <4>1 DEF Awaits, Registered, Addressed, meetingVars
    <3>4. QED
      BY <3>1, <3>2, <3>3, ThreadNames
  <2>5. (\E u \in Threads : pc[u] = "complete") => \E u \in Threads : pc'[u] = "complete"
    BY <1>1, <1>2
  <2>6. QED
    BY <1>0, <1>1, <2>2, <2>3, <2>4, <2>5 DEF Sleeping
<1>10. Driving'
  <2>1. \A b \in Agents : pc'[b] # pc[b] => pc'[b] \notin {"poll", "park"} /\ pc[b] # "poll"
    BY <1>1, <1>2, ThreadNames
  <2>2. QED
    BY <1>0, <1>1, <2>1, DrivingKept DEF pollVars
<1>11. Meeting'
  <2>1. pc[Main] = "broadcast" => pc'[Main] = "broadcast"
    BY <1>1, <1>2, ThreadNames
  <2>2. \A w \in Workers : pc'[w] \in {"unborn", "boot"} => pc[w] \in {"unborn", "boot"}
    BY <1>2, ThreadNames
  <2>3. QED
    BY <1>0, <1>1, <2>1, <2>2, MeetingKept
<1>12. QED
  BY <1>3, <1>4, <1>5, <1>6, <1>7, <1>8, <1>9, <1>10, <1>11 DEF IInv

\* The end of notify, of a turn of the timer and of cancel.
LEMMA CompletedStep ==
  ASSUME IInv, NEW t \in Threads, Completed(t)
  PROVE  IInv'
<1>0. TypeOK /\ Control /\ Intents /\ Queued /\ Answered /\ Flying /\ Driving /\ Meeting
  BY DEF IInv
<1>1. /\ pc[t] = "complete" /\ inFlight[t] = <<>> /\ asleep' = {}
      /\ pc' = [pc EXCEPT ![t] = Resumed(t)]
      /\ UNCHANGED answerVars /\ UNCHANGED meetingVars /\ UNCHANGED pollVars /\ UNCHANGED lock
  BY DEF Completed, AsleepAfter, Goes, answerVars, meetingVars, pollVars, memoryVars, registryVars, messageVars, driverVars, historyVars
<1>2. /\ t = Timer => Resumed(t) = "run"
      /\ t = Main /\ cancelled => Resumed(t) = "join"
      /\ t = Main /\ ~cancelled => Resumed(t) = "script"
      /\ t \in Workers => Resumed(t) = "script"
      /\ Resumed(t) \in {"run", "join", "script"}
  <2>1. CASE t = Timer
    BY <2>1, ThreadNames DEF Resumed
  <2>2. CASE t # Timer
    BY <2>2, ThreadNames DEF Resumed
  <2>3. QED
    BY <2>1, <2>2
<1>3. Control' /\ pc'[t] = Resumed(t) /\ \A u \in Threads \ {t} : pc'[u] = pc[u]
  <2>1. UNCHANGED <<lock, cancelled>>
    BY <1>1 DEF answerVars
  <2>2. t = Main => (cancelled => Resumed(t) \in {"complete", "join", "done"})
    BY <1>2
  <2>3. QED
    BY <1>0, <1>1, <1>2, <2>1, <2>2, ThreadNames, ControlMoved
<1>4. TypeOK'
  <2>1. pc' \in [Threads -> States]
    BY <1>0, <1>1, <1>2 DEF TypeOK, States
  <2>2. QED
    BY <1>0, <1>1, <2>1 DEF TypeOK, answerVars, meetingVars, pollVars, Ids
<1>5. Intents'
  <2>1. \A a \in Agents : pc'[a] \in {"publish", "wait"} => pc'[a] = pc[a]
    BY <1>2, <1>3, ThreadNames
  <2>2. QED
    BY <1>0, <1>1, <2>1, IntentsKept DEF answerVars
<1>6. Queued'
  BY <1>0, <1>1 DEF Queued, Ids, answerVars
<1>7. Answered'
  <2>1. \A a \in Agents : pc[a] = "wait" => pc'[a] = "wait" /\ intent'[a] = intent[a]
    BY <1>1, <1>3, ThreadNames DEF answerVars
  <2>2. QED
    BY <1>0, <1>1, <2>1, AnsweredKept DEF answerVars
<1>8. Flying'
  BY <1>0, <1>1, <1>3, FlyingKept DEF answerVars
<1>9. Driving'
  <2>1. \A a \in Agents : pc'[a] # pc[a] => pc'[a] \notin {"poll", "park"} /\ pc[a] # "poll"
    BY <1>1, <1>2, <1>3, ThreadNames
  <2>2. QED
    BY <1>0, <1>1, <2>1, DrivingKept DEF pollVars, answerVars
<1>10. Meeting'
  <2>1. pc[Main] = "broadcast" => pc'[Main] = "broadcast"
    BY <1>1, <1>3, ThreadNames
  <2>2. \A w \in Workers : pc'[w] \in {"unborn", "boot"} => pc[w] \in {"unborn", "boot"}
    BY <1>2, <1>3, ThreadNames
  <2>3. QED
    BY <1>0, <1>1, <2>1, <2>2, MeetingKept
<1>11. QED
  BY <1>1, <1>3, <1>4, <1>5, <1>6, <1>7, <1>8, <1>9, <1>10, SleepingWoken DEF IInv

\* A thread that has seen, under the mutex, that it must wait.
LEMMA SleepingMore ==
  ASSUME Sleeping, UNCHANGED <<waiters, queues, cancelled, broadcast, pc, intent>>,
         NEW t \in Threads, asleep' = asleep \cup {t}, Awaits(t),
         IF t = Timer THEN pc[t] = "run" ELSE pc[t] \in {"wait", "receive", "broadcast"}
  PROVE  Sleeping'
<1>1. ASSUME NEW u, Awaits(u) PROVE Awaits(u)'
  BY <1>1 DEF Awaits, Registered, Addressed
<1>2. Timer \in asleep' => pc'[Timer] = "run"
  BY DEF Sleeping
<1>3. \A a \in Agents : a \in asleep' => pc'[a] \in {"wait", "receive", "broadcast"}
  BY ThreadNames DEF Sleeping
<1>4. (\E u \in Threads : pc'[u] = "complete") \/ (\A u \in asleep' : Awaits(u)')
  BY <1>1 DEF Sleeping
<1>5. QED
  BY <1>2, <1>3, <1>4 DEF Sleeping

\* It falls asleep and nothing else happens.
LEMMA FallsAsleep ==
  ASSUME IInv, UNCHANGED answerVars, UNCHANGED meetingVars, UNCHANGED pollVars,
         UNCHANGED <<lock, pc>>, NEW t \in Threads, asleep' = asleep \cup {t}, Awaits(t),
         IF t = Timer THEN pc[t] = "run" ELSE pc[t] \in {"wait", "receive", "broadcast"}
  PROVE  IInv'
<1>1. TypeOK'
  BY DEF IInv, TypeOK, answerVars, meetingVars, pollVars, Ids
<1>2. Control'
  BY DEF IInv, Control, answerVars
<1>3. Intents' /\ Queued' /\ Answered' /\ Flying'
  BY AnswersKept DEF IInv
<1>4. Sleeping'
  BY SleepingMore DEF IInv, answerVars, meetingVars
<1>5. Driving'
  BY DrivingKept DEF IInv, answerVars, pollVars
<1>6. Meeting'
  BY MeetingKept DEF IInv
<1>7. QED
  BY <1>1, <1>2, <1>3, <1>4, <1>5, <1>6 DEF IInv

LEMMA BroadcastStep ==
  ASSUME IInv, Broadcast
  PROVE  IInv'
<1>0. TypeOK /\ Control /\ Sleeping /\ Driving /\ Meeting
  BY DEF IInv
<1>1. /\ pc[Main] = "script" /\ pc' = [pc EXCEPT ![Main] = "broadcast"] /\ asleep' = {Main}
      /\ broadcast' = ready /\ addressed' = ready /\ received' = {} /\ ready' = ready
      /\ UNCHANGED answerVars /\ UNCHANGED pollVars /\ UNCHANGED lock
  BY DEF Broadcast, Calls, Goes, answerVars, meetingVars, pollVars, memoryVars, registryVars, messageVars, driverVars, historyVars
<1>2. Control' /\ pc'[Main] = "broadcast" /\ \A u \in Threads \ {Main} : pc'[u] = pc[u]
  <2>1. UNCHANGED <<lock, cancelled>> /\ ~cancelled
    BY <1>0, <1>1 DEF answerVars, Control
  <2>2. QED
    BY <1>0, <1>1, <2>1, ThreadNames, ControlMoved
<1>3. ready \subseteq Workers /\ ready # None
  BY <1>0, NoneAssumption DEF TypeOK
<1>4. TypeOK'
  <2>1. pc' \in [Threads -> States]
    BY <1>0, <1>1 DEF TypeOK, States
  <2>2. QED
    BY <1>0, <1>1, <2>1, ThreadNames DEF TypeOK, answerVars, pollVars, Ids
<1>5. Intents' /\ Queued' /\ Answered' /\ Flying'
  <2>1. \A u \in Threads : pc'[u] # pc[u] =>
           pc[u] \notin {"wait", "complete"} /\ pc'[u] \notin {"publish", "wait"}
    BY <1>1, <1>2
  <2>2. QED
    BY <1>1, <2>1, AnswersKept DEF IInv
<1>6. Sleeping'
  <2>1. ~cancelled'
    BY <1>0, <1>1 DEF answerVars, Control
  <2>2. Awaits(Main)'
    BY <1>1, <1>2, <1>3, <2>1 DEF Awaits
  <2>3. QED
    BY <1>1, <1>2, <2>2, ThreadNames DEF Sleeping
<1>7. Driving'
  <2>1. \A a \in Agents : pc'[a] # pc[a] => pc'[a] \notin {"poll", "park"} /\ pc[a] # "poll"
    BY <1>1, <1>2, ThreadNames
  <2>2. QED
    BY <1>0, <1>1, <2>1, DrivingKept DEF answerVars, pollVars
<1>8. Meeting'
  <2>1. \A w \in Workers : pc'[w] = pc[w]
    BY <1>2, ThreadNames
  <2>2. QED
    BY <1>0, <1>1, <1>2, <1>3, <2>1 DEF Meeting
<1>9. QED
  BY <1>2, <1>4, <1>5, <1>6, <1>7, <1>8 DEF IInv

LEMMA BroadcastTurnStep ==
  ASSUME IInv, BroadcastTurn
  PROVE  IInv'
<1>0. TypeOK /\ Control /\ Sleeping /\ Driving /\ Meeting
  BY DEF IInv
<1>1. /\ pc[Main] = "broadcast" /\ Main \notin asleep
      /\ UNCHANGED answerVars /\ UNCHANGED meetingVars /\ UNCHANGED pollVars /\ UNCHANGED lock
  BY DEF BroadcastTurn, Enters, answerVars, meetingVars, pollVars, memoryVars, registryVars, messageVars, driverVars, historyVars
<1>2. ~cancelled
  BY <1>0, <1>1 DEF Control
<1>3. CASE broadcast # None
  <2>1. asleep' = asleep \cup {Main} /\ UNCHANGED <<lock, pc>>
    BY <1>1, <1>3 DEF BroadcastTurn, Sleeps
  <2>2. Awaits(Main)
    BY <1>1, <1>2, <1>3 DEF Awaits
  <2>3. QED
    BY <1>1, <2>1, <2>2, ThreadNames, FallsAsleep
<1>4. CASE broadcast = None
  <2>1. pc' = [pc EXCEPT ![Main] = "script"] /\ asleep' = asleep
    BY <1>4 DEF BroadcastTurn, Goes
  <2>2. Control' /\ pc'[Main] = "script" /\ \A u \in Threads \ {Main} : pc'[u] = pc[u]
    <3>1. UNCHANGED <<lock, cancelled>>
      BY <1>1 DEF answerVars
    <3>2. QED
      BY <1>0, <1>1, <1>2, <2>1, <3>1, ThreadNames, ControlMoved
  <2>3. TypeOK'
    <3>1. pc' \in [Threads -> States]
      BY <1>0, <2>1 DEF TypeOK, States
    <3>2. QED
      BY <1>0, <1>1, <2>1, <3>1 DEF TypeOK, answerVars, meetingVars, pollVars, Ids
  <2>4. Intents' /\ Queued' /\ Answered' /\ Flying'
    <3>1. \A u \in Threads : pc'[u] # pc[u] =>
             pc[u] \notin {"wait", "complete"} /\ pc'[u] \notin {"publish", "wait"}
      BY <1>1, <2>2
    <3>2. QED
      BY <1>1, <3>1, AnswersKept DEF IInv
  <2>5. Sleeping'
    <3>1. asleep \subseteq Threads
      BY <1>0 DEF TypeOK
    <3>2. \A u \in asleep' : pc'[u] = pc[u]
      BY <1>1, <2>1, <2>2, <3>1
    <3>3. \A u \in Threads : pc[u] = "complete" => pc'[u] = "complete"
      BY <1>1, <2>2
    <3>4. QED
      BY <1>0, <1>1, <2>1, <3>1, <3>2, <3>3, SleepingKept DEF answerVars, meetingVars
  <2>6. Driving'
    <3>1. \A a \in Agents : pc'[a] # pc[a] => pc'[a] \notin {"poll", "park"} /\ pc[a] # "poll"
      BY <1>1, <2>2, ThreadNames
    <3>2. QED
      BY <1>0, <1>1, <3>1, DrivingKept DEF answerVars, pollVars
  <2>7. Meeting'
    <3>1. \A w \in Workers : pc'[w] = pc[w]
      BY <2>2, ThreadNames
    <3>2. QED
      BY <1>0, <1>1, <1>4, <3>1 DEF Meeting, meetingVars
  <2>8. QED
    BY <2>2, <2>3, <2>4, <2>5, <2>6, <2>7 DEF IInv
<1>5. QED
  BY <1>3, <1>4

\* A recipient received the broadcast, or left.
LEMMA Acknowledges ==
  ASSUME TypeOK, Meeting, NEW w \in Workers, broadcast' = Acknowledged(w),
         \/ received' = received \cup {w} /\ ready' = ready
         \/ received' = received /\ ready' = ready \ {w}
  PROVE  /\ broadcast' \in (SUBSET Workers) \cup {None}
         /\ broadcast' # None => broadcast # None
         /\ addressed \cap ready' \subseteq received' \cup (IF broadcast' = None THEN {} ELSE broadcast')
         /\ ready' \subseteq Workers /\ received' \subseteq Workers
<1>1. CASE broadcast = None
  BY <1>1 DEF Acknowledged, TypeOK, Meeting
<1>2. CASE broadcast # None /\ broadcast \subseteq {w}
  BY <1>2 DEF Acknowledged, TypeOK, Meeting
<1>3. CASE broadcast # None /\ ~(broadcast \subseteq {w})
  <2>1. broadcast' = broadcast \ {w} /\ broadcast \subseteq Workers
    BY <1>3 DEF Acknowledged, TypeOK
  <2>2. broadcast' # None
    BY <2>1, NoneAssumption
  <2>3. QED
    BY <1>3, <2>1, <2>2 DEF TypeOK, Meeting
<1>4. QED
  BY <1>1, <1>2, <1>3

\* A worker that takes part in a broadcast, or leaves it, wakes everyone.
LEMMA Rendezvous ==
  ASSUME IInv, NEW w \in Workers, NEW to \in {"script", "done"},
         pc[w] \in {"script", "receive", "exit"}, asleep' = {},
         pc' = pc \/ pc' = [pc EXCEPT ![w] = to], broadcast' = Acknowledged(w),
         UNCHANGED addressed,
         \/ received' = received \cup {w} /\ ready' = ready
         \/ received' = received /\ ready' = ready \ {w},
         UNCHANGED answerVars, UNCHANGED pollVars, UNCHANGED lock
  PROVE  IInv'
<1>0. TypeOK /\ Control /\ Driving /\ Meeting
  BY DEF IInv
<1>1. /\ pc'[w] \in {pc[w], to} /\ \A u \in Threads \ {w} : pc'[u] = pc[u]
      /\ pc' \in [Threads -> States]
  <2>1. pc \in [Threads -> States] /\ w \in Threads /\ to \in States
    BY <1>0, ThreadNames DEF TypeOK, States
  <2>2. QED
    BY <2>1
<1>2. Control'
  <2>1. CASE pc' = pc
    BY <1>0, <2>1 DEF Control, answerVars
  <2>2. CASE pc' = [pc EXCEPT ![w] = to]
    <3>1. UNCHANGED <<lock, cancelled>> /\ w \in Threads /\ w # Timer /\ w # Main
      BY ThreadNames DEF answerVars
    <3>2. QED
      BY <1>0, <2>2, <3>1, ControlMoved
  <2>3. QED
    BY <2>1, <2>2
<1>3. /\ broadcast' \in (SUBSET Workers) \cup {None}
      /\ broadcast' # None => broadcast # None
      /\ addressed \cap ready' \subseteq received' \cup (IF broadcast' = None THEN {} ELSE broadcast')
      /\ ready' \subseteq Workers /\ received' \subseteq Workers
  BY <1>0, Acknowledges
<1>4. TypeOK'
  BY <1>0, <1>1, <1>3 DEF TypeOK, answerVars, pollVars, Ids
<1>5. Intents' /\ Queued' /\ Answered' /\ Flying'
  <2>1. \A u \in Threads : pc'[u] # pc[u] =>
           pc[u] \notin {"wait", "complete"} /\ pc'[u] \notin {"publish", "wait"}
    BY <1>1
  <2>2. QED
    BY <2>1, AnswersKept DEF IInv
<1>6. Driving'
  <2>1. \A a \in Agents : pc'[a] # pc[a] => pc'[a] \notin {"poll", "park"} /\ pc[a] # "poll"
    BY <1>1, ThreadNames
  <2>2. QED
    BY <1>0, <2>1, DrivingKept DEF answerVars, pollVars
<1>7. Meeting'
  <2>1. pc'[Main] = pc[Main]
    BY <1>1, ThreadNames
  <2>2. \A v \in Workers : pc'[v] \in {"unborn", "boot"} => pc[v] \in {"unborn", "boot"}
    BY <1>1, ThreadNames
  <2>3. ready' \subseteq ready
    OBVIOUS
  <2>4. \A v \in Workers : pc'[v] \in {"unborn", "boot"} => v \notin addressed' \cup ready'
    BY <1>0, <2>2, <2>3 DEF Meeting
  <2>5. broadcast' # None => pc'[Main] = "broadcast"
    BY <1>0, <1>3, <2>1 DEF Meeting
  <2>6. QED
    BY <1>3, <2>4, <2>5 DEF Meeting
<1>8. QED
  BY <1>2, <1>4, <1>5, <1>6, <1>7, SleepingWoken DEF IInv

LEMMA ReceiveTurnStep ==
  ASSUME IInv, NEW w \in Workers, ReceiveTurn(w)
  PROVE  IInv'
<1>0. TypeOK /\ Control /\ Sleeping /\ Driving /\ Meeting
  BY DEF IInv
<1>1. /\ pc[w] = "receive" /\ w \notin asleep /\ UNCHANGED <<addressed, ready>>
      /\ UNCHANGED answerVars /\ UNCHANGED pollVars /\ UNCHANGED lock
  BY DEF ReceiveTurn, Enters, answerVars, meetingVars, pollVars, memoryVars, registryVars, messageVars, driverVars, historyVars
<1>2. CASE cancelled /\ Goes(w, "exit") /\ UNCHANGED <<asleep, broadcast, received>>
  <2>1. pc' = [pc EXCEPT ![w] = "exit"] /\ asleep' = asleep /\ UNCHANGED meetingVars
    BY <1>1, <1>2 DEF Goes, meetingVars
  <2>2. Control' /\ pc'[w] = "exit" /\ \A u \in Threads \ {w} : pc'[u] = pc[u]
    <3>1. UNCHANGED <<lock, cancelled>> /\ w \in Threads /\ w # Main /\ w # Timer
      BY <1>1, ThreadNames DEF answerVars
    <3>2. QED
      BY <1>0, <1>1, <2>1, <3>1, ControlMoved
  <2>3. TypeOK'
    <3>1. pc' \in [Threads -> States]
      BY <1>0, <2>1 DEF TypeOK, States
    <3>2. QED
      BY <1>0, <1>1, <2>1, <3>1 DEF TypeOK, answerVars, meetingVars, pollVars, Ids
  <2>4. Intents' /\ Queued' /\ Answered' /\ Flying'
    <3>1. \A u \in Threads : pc'[u] # pc[u] =>
             pc[u] \notin {"wait", "complete"} /\ pc'[u] \notin {"publish", "wait"}
      BY <1>1, <2>2
    <3>2. QED
      BY <1>1, <3>1, AnswersKept DEF IInv
  <2>5. Sleeping'
    <3>1. asleep \subseteq Threads
      BY <1>0 DEF TypeOK
    <3>2. \A u \in asleep' : pc'[u] = pc[u]
      BY <1>1, <2>1, <2>2, <3>1
    <3>3. \A u \in Threads : pc[u] = "complete" => pc'[u] = "complete"
      BY <1>1, <2>2
    <3>4. QED
      BY <1>0, <1>1, <2>1, <3>1, <3>2, <3>3, SleepingKept DEF answerVars, meetingVars
  <2>6. Driving'
    <3>1. \A a \in Agents : pc'[a] # pc[a] => pc'[a] \notin {"poll", "park"} /\ pc[a] # "poll"
      BY <1>1, <2>2, ThreadNames
    <3>2. QED
      BY <1>0, <1>1, <3>1, DrivingKept DEF answerVars, pollVars
  <2>7. Meeting'
    <3>1. pc'[Main] = pc[Main]
      BY <2>2, ThreadNames
    <3>2. \A v \in Workers : pc'[v] \in {"unborn", "boot"} => pc[v] \in {"unborn", "boot"}
      BY <2>2, ThreadNames
    <3>3. QED
      BY <1>0, <2>1, <3>1, <3>2, MeetingKept
  <2>8. QED
    BY <2>2, <2>3, <2>4, <2>5, <2>6, <2>7 DEF IInv
<1>3. CASE ~cancelled /\ Addressed(w) /\ Goes(w, "script") /\ NotifyAll
           /\ broadcast' = Acknowledged(w) /\ received' = received \cup {w}
  <2>1. pc' = [pc EXCEPT ![w] = "script"] /\ asleep' = {}
    BY <1>3 DEF Goes, NotifyAll
  <2>2. QED
    BY <1>1, <1>3, <2>1, Rendezvous
<1>4. CASE ~cancelled /\ ~Addressed(w) /\ Sleeps(w) /\ UNCHANGED <<pc, broadcast, received>>
  <2>1. Awaits(w) /\ w \in Threads /\ w # Timer
    BY <1>1, <1>4, ThreadNames DEF Awaits
  <2>2. asleep' = asleep \cup {w} /\ UNCHANGED <<lock, pc>> /\ UNCHANGED meetingVars
    BY <1>1, <1>4 DEF Sleeps, meetingVars
  <2>3. QED
    BY <1>1, <2>1, <2>2, FallsAsleep
<1>5. QED
  BY <1>2, <1>3, <1>4 DEF ReceiveTurn

LEMMA LeavingStep ==
  ASSUME IInv, NEW w \in Workers, Leaving(w)
  PROVE  IInv'
<1>1. /\ pc[w] = "script" /\ pc' = pc /\ asleep' = {} /\ broadcast' = Acknowledged(w)
      /\ UNCHANGED <<addressed, received>> /\ ready' = ready \ {w}
      /\ UNCHANGED answerVars /\ UNCHANGED pollVars /\ UNCHANGED lock
  BY DEF Leaving, Calls, WorkerFinished, NotifyAll, answerVars, meetingVars, pollVars, memoryVars, registryVars, messageVars, driverVars, historyVars
<1>2. "script" \in {"script", "done"}
  OBVIOUS
<1>3. QED
  BY <1>1, <1>2, Rendezvous

LEMMA FinishStep ==
  ASSUME IInv, NEW w \in Workers, Finish(w)
  PROVE  IInv'
<1>1. /\ pc[w] = "exit" /\ pc' = [pc EXCEPT ![w] = "done"]
      /\ UNCHANGED <<addressed, received>>
      /\ UNCHANGED answerVars /\ UNCHANGED pollVars /\ UNCHANGED lock
  BY DEF Finish, Goes, answerVars, meetingVars, pollVars, memoryVars, registryVars, messageVars, driverVars, historyVars
<1>2. CASE w \in left
  <2>1. UNCHANGED <<ready, broadcast, asleep>>
    BY <1>2 DEF Finish
  <2>2. Control'
    <3>1. UNCHANGED <<lock, cancelled>> /\ w \in Threads /\ w # Main /\ w # Timer
      BY <1>1, ThreadNames DEF answerVars
    <3>2. QED
      BY <1>1, <3>1, ControlMoved DEF IInv
  <2>3. "done" \in States /\ w \in Threads /\ UNCHANGED meetingVars
    BY <1>1, <2>1, ThreadNames DEF States, meetingVars
  <2>4. QED
    BY <1>1, <2>1, <2>2, <2>3, Moved
<1>3. CASE w \notin left
  <2>1. asleep' = {} /\ broadcast' = Acknowledged(w) /\ ready' = ready \ {w}
    BY <1>3 DEF Finish, WorkerFinished, NotifyAll
  <2>2. QED
    BY <1>1, <2>1, Rendezvous
<1>4. QED
  BY <1>2, <1>3

\* A turn of the driver.
LEMMA TurnMoved ==
  ASSUME IInv, NEW a \in Agents, NEW to \in {"poll", "drive", "script", "park", "exit"},
         pc[a] \in {"drive", "poll", "park"}, pc' = [pc EXCEPT ![a] = to],
         UNCHANGED answerVars, UNCHANGED meetingVars, UNCHANGED <<lock, asleep>>
  PROVE  /\ Control' /\ Intents' /\ Queued' /\ Answered' /\ Flying' /\ Sleeping' /\ Meeting'
         /\ pc' \in [Threads -> States]
         /\ pc'[a] = to /\ \A u \in Threads \ {a} : pc'[u] = pc[u]
<1>0. TypeOK /\ Control /\ Sleeping /\ Meeting
  BY DEF IInv
<1>1. Control' /\ pc'[a] = to /\ \A u \in Threads \ {a} : pc'[u] = pc[u]
  <2>1. UNCHANGED <<lock, cancelled>> /\ a \in Threads /\ a # Timer /\ (a = Main => ~cancelled)
    BY <1>0, ThreadNames DEF answerVars, Control
  <2>2. QED
    BY <1>0, <2>1, ControlMoved
<1>2. pc' \in [Threads -> States]
  BY <1>0 DEF TypeOK, States
<1>3. Intents' /\ Queued' /\ Answered' /\ Flying'
  <2>1. \A u \in Threads : pc'[u] # pc[u] =>
           pc[u] \notin {"wait", "complete"} /\ pc'[u] \notin {"publish", "wait"}
    BY <1>1
  <2>2. QED
    BY <2>1, AnswersKept DEF IInv
<1>4. Sleeping'
  <2>1. asleep \subseteq Threads /\ a \notin asleep
    BY <1>0 DEF TypeOK, Sleeping
  <2>2. \A u \in asleep' : pc'[u] = pc[u]
    BY <1>1, <2>1
  <2>3. \A u \in Threads : pc[u] = "complete" => pc'[u] = "complete"
    BY <1>1
  <2>4. QED
    BY <1>0, <2>1, <2>2, <2>3, SleepingKept DEF answerVars, meetingVars
<1>5. Meeting'
  <2>1. pc[Main] = "broadcast" => pc'[Main] = "broadcast"
    BY <1>1, ThreadNames
  <2>2. \A v \in Workers : pc'[v] \in {"unborn", "boot"} => pc[v] \in {"unborn", "boot"}
    BY <1>1, ThreadNames
  <2>3. QED
    BY <1>0, <2>1, <2>2, MeetingKept
<1>6. QED
  BY <1>1, <1>2, <1>3, <1>4, <1>5

LEMMA BeginTurnStep ==
  ASSUME IInv, NEW a \in Agents, BeginTurn(a)
  PROVE  IInv'
<1>0. TypeOK /\ Driving
  BY DEF IInv
<1>1. /\ pc[a] = "drive" /\ pc' = [pc EXCEPT ![a] = "poll"]
      /\ unpolled' = [unpolled EXCEPT ![a] = Handles(a)]
      /\ signaled' = [signaled EXCEPT ![a] = FALSE] /\ waking' = waking
      /\ UNCHANGED answerVars /\ UNCHANGED meetingVars /\ UNCHANGED <<lock, asleep>>
  BY DEF BeginTurn, Goes, answerVars, meetingVars, pollVars, memoryVars, registryVars, messageVars, driverVars, historyVars
<1>2. "poll" \in {"poll", "drive", "script", "park", "exit"}
  OBVIOUS
<1>3. /\ Control' /\ Intents' /\ Queued' /\ Answered' /\ Flying' /\ Sleeping' /\ Meeting'
      /\ pc' \in [Threads -> States]
      /\ pc'[a] = "poll" /\ \A u \in Threads \ {a} : pc'[u] = pc[u]
  BY <1>1, <1>2, TurnMoved
<1>4. Handles(a) \subseteq Nat /\ \A b \in Agents : Handles(b)' = Handles(b)
  <2>1. Ids \subseteq Nat
    BY <1>0, LenProperties DEF Ids, TypeOK
  <2>2. QED
    BY <1>1, <2>1 DEF Handles, Ids, answerVars
<1>5. /\ unpolled' \in [Agents -> SUBSET Nat] /\ signaled' \in [Agents -> BOOLEAN]
      /\ unpolled'[a] = Handles(a)
      /\ \A b \in Agents \ {a} : unpolled'[b] = unpolled[b] /\ signaled'[b] = signaled[b]
  BY <1>0, <1>1, <1>4 DEF TypeOK
<1>6. TypeOK'
  BY <1>0, <1>1, <1>3, <1>5 DEF TypeOK, answerVars, meetingVars, Ids
<1>7. Driving'
  <2>1. ASSUME NEW b \in Agents
        PROVE  /\ pc'[b] # "poll" => unpolled'[b] = {}
               /\ unpolled'[b] \subseteq Handles(b)'
               /\ pc'[b] \in {"poll", "park"} /\ ~Summoned(b)' =>
                    \A id \in Handles(b)' \ unpolled'[b] : waiters'[id].outcome = None /\ waiters'[id].waker
    <3>1. CASE b = a
      BY <1>3, <1>4, <1>5, <3>1
    <3>2. CASE b # a
      <4>1. pc'[b] = pc[b]
        BY <1>3, <3>2, ThreadNames
      <4>2. Summoned(b)' <=> Summoned(b)
        BY <1>1, <1>5, <3>2 DEF Summoned
      <4>3. QED
        BY <1>0, <1>1, <1>4, <1>5, <3>2, <4>1, <4>2 DEF Driving, answerVars
    <3>3. QED
      BY <3>1, <3>2
  <2>2. QED
    BY <2>1 DEF Driving
<1>8. QED
  BY <1>3, <1>6, <1>7 DEF IInv

LEMMA EndTurnStep ==
  ASSUME IInv, NEW a \in Agents, EndTurn(a)
  PROVE  IInv'
<1>0. TypeOK /\ Driving
  BY DEF IInv
<1>1. /\ pc[a] = "poll" /\ unpolled[a] = {}
      /\ UNCHANGED pollVars
      /\ UNCHANGED answerVars /\ UNCHANGED meetingVars /\ UNCHANGED <<lock, asleep>>
  BY DEF EndTurn, answerVars, meetingVars, pollVars, memoryVars, registryVars, messageVars, driverVars, historyVars
<1>2. PICK to \in {"poll", "drive", "script", "park", "exit"} : pc' = [pc EXCEPT ![a] = to]
  BY DEF EndTurn, Goes
<1>3. /\ Control' /\ Intents' /\ Queued' /\ Answered' /\ Flying' /\ Sleeping' /\ Meeting'
      /\ pc' \in [Threads -> States]
      /\ pc'[a] = to /\ \A u \in Threads \ {a} : pc'[u] = pc[u]
  BY <1>1, <1>2, TurnMoved
<1>4. \A b \in Agents : Handles(b)' = Handles(b)
  BY <1>1 DEF Handles, Ids, answerVars
<1>5. TypeOK'
  BY <1>0, <1>1, <1>3 DEF TypeOK, answerVars, meetingVars, pollVars, Ids
<1>6. \A b \in Agents : /\ pc'[b] # "poll" => unpolled[b] = {}
                        /\ pc'[b] \in {"poll", "park"} => pc[b] \in {"poll", "park"}
  BY <1>0, <1>1, <1>3, ThreadNames DEF Driving
<1>7. \A b \in Agents : Summoned(b)' <=> Summoned(b)
  BY <1>1 DEF Summoned, pollVars
<1>8. Driving'
  BY <1>0, <1>1, <1>4, <1>6, <1>7 DEF Driving, pollVars, answerVars
<1>9. QED
  BY <1>3, <1>5, <1>8 DEF IInv

LEMMA GiveUpStep ==
  ASSUME IInv, NEW a \in Agents, GiveUp(a)
  PROVE  IInv'
<1>0. TypeOK /\ Driving
  BY DEF IInv
<1>1. /\ pc[a] \in {"drive", "poll", "park"} /\ pc' = [pc EXCEPT ![a] = "exit"]
      /\ unpolled' = [unpolled EXCEPT ![a] = {}] /\ UNCHANGED <<signaled, waking>>
      /\ UNCHANGED answerVars /\ UNCHANGED meetingVars /\ UNCHANGED <<lock, asleep>>
  BY DEF GiveUp, Goes, answerVars, meetingVars, memoryVars, registryVars, messageVars, historyVars
<1>2. "exit" \in {"poll", "drive", "script", "park", "exit"}
  OBVIOUS
<1>3. /\ Control' /\ Intents' /\ Queued' /\ Answered' /\ Flying' /\ Sleeping' /\ Meeting'
      /\ pc' \in [Threads -> States]
      /\ pc'[a] = "exit" /\ \A u \in Threads \ {a} : pc'[u] = pc[u]
  BY <1>1, <1>2, TurnMoved
<1>4. \A b \in Agents : Handles(b)' = Handles(b) /\ (Summoned(b)' <=> Summoned(b))
  BY <1>1 DEF Handles, Ids, Summoned, answerVars
<1>5. /\ unpolled' \in [Agents -> SUBSET Nat] /\ unpolled'[a] = {}
      /\ \A b \in Agents \ {a} : unpolled'[b] = unpolled[b]
  BY <1>0, <1>1 DEF TypeOK
<1>6. TypeOK'
  BY <1>0, <1>1, <1>3, <1>5 DEF TypeOK, answerVars, meetingVars, Ids
<1>7. Driving'
  <2>1. \A b \in Agents \ {a} : pc'[b] = pc[b]
    BY <1>3, ThreadNames
  <2>2. QED
    BY <1>0, <1>1, <1>3, <1>4, <1>5, <2>1 DEF Driving, answerVars
<1>8. QED
  BY <1>3, <1>6, <1>7 DEF IInv

\* The waker a thread took from a completion is called.
LEMMA WakeStep ==
  ASSUME IInv, NEW t \in Threads, Wake(t)
  PROVE  IInv'
<1>0. TypeOK /\ Control /\ Sleeping /\ Driving /\ Meeting
  BY DEF IInv
<1>1. /\ waking[t] # None /\ signaled' = [signaled EXCEPT ![waking[t]] = TRUE]
      /\ waking' = [waking EXCEPT ![t] = None] /\ unpolled' = unpolled
      /\ UNCHANGED answerVars /\ UNCHANGED meetingVars /\ UNCHANGED <<lock, pc, asleep>>
  BY DEF Wake, answerVars, meetingVars, memoryVars, registryVars, messageVars, historyVars
<1>2. waking[t] \in Agents
  BY <1>0, <1>1 DEF TypeOK
<1>3. /\ signaled' \in [Agents -> BOOLEAN] /\ waking' \in [Threads -> Agents \cup {None}]
      /\ signaled'[waking[t]] /\ \A b \in Agents : signaled[b] => signaled'[b]
      /\ \A u \in Threads \ {t} : waking'[u] = waking[u]
  BY <1>0, <1>1, <1>2 DEF TypeOK
<1>4. \A b \in Agents : Handles(b)' = Handles(b) /\ (Summoned(b) => Summoned(b)')
  BY <1>1, <1>3 DEF Handles, Ids, Summoned, answerVars
<1>5. TypeOK'
  BY <1>0, <1>1, <1>3 DEF TypeOK, answerVars, meetingVars, Ids
<1>6. Control'
  BY <1>0, <1>1 DEF Control, answerVars
<1>7. Intents' /\ Queued' /\ Answered' /\ Flying'
  BY <1>1, AnswersKept DEF IInv
<1>8. Sleeping'
  BY <1>0, <1>1, SleepingKept DEF TypeOK, answerVars, meetingVars
<1>9. Driving'
  BY <1>0, <1>1, <1>4 DEF Driving, answerVars
<1>10. Meeting'
  BY <1>0, <1>1, MeetingKept
<1>11. QED
  BY <1>5, <1>6, <1>7, <1>8, <1>9, <1>10 DEF IInv

-----------------------------------------------------------------------------
(***************************************************************************)
(* Steps that answer waiters.                                              *)
(***************************************************************************)

\* A waiter that a step does not touch.
LEMMA KnownKept ==
  ASSUME TypeOK, NEW id \in Ids, Known(id), waiters'[id] = waiters[id],
         Registered(id)' <=> Registered(id),
         UnderWay(id) => UnderWay(id)',
         id \in notified' <=> id \in notified, id \in deadlines' <=> id \in deadlines,
         cancelled => cancelled',
         Registered(id) => sweeps'[waiters[id].at] = sweeps[waiters[id].at],
         \A a \in Agents : pc[a] = "wait" /\ intent[a] = id => pc'[a] = "wait" /\ intent'[a] = id
  PROVE  Known(id)'
<1>1. waiters[id].by \in Agents
  BY WaiterFields
<1>2. QED
  BY <1>1 DEF Known

LEMMA CarriedKept ==
  ASSUME NEW e, Carried(e), e[1] \in Ids', Registered(e[1])' => Registered(e[1]),
         waiters'[e[1]] = waiters[e[1]], e[1] \in notified' <=> e[1] \in notified,
         cancelled => cancelled'
  PROVE  Carried(e)'
BY DEF Carried

\* One waiter's record changes.
LEMMA Amended ==
  ASSUME TypeOK, NEW id \in Ids, NEW w \in Waiter, waiters' = [waiters EXCEPT ![id] = w]
  PROVE  /\ waiters' \in Seq(Waiter) /\ Ids' = Ids
         /\ waiters'[id] = w /\ \A j \in Ids : j # id => waiters'[j] = waiters[j]
<1>1. waiters \in Seq(Waiter) /\ DOMAIN waiters = 1..Len(waiters) /\ id \in 1..Len(waiters)
  BY LenProperties DEF TypeOK, Ids
<1>2. waiters' \in Seq(Waiter)
  BY <1>1, ExceptSeq
<1>3. QED
  BY <1>1, <1>2 DEF Ids

\* A waiter leaves its queue.
LEMMA RemovedFrom ==
  ASSUME TypeOK, Queued, NEW id \in Ids
  PROVE  /\ Removed(id) \in [Locations -> Seq(Nat)]
         /\ \A l \in Locations : /\ Ascending(Removed(id)[l])
                                 /\ ToSet(Removed(id)[l]) = ToSet(queues[l]) \ {id}
                                 /\ cancelled => Removed(id)[l] = <<>>
<1>1. waiters[id].at \in Locations /\ queues \in [Locations -> Seq(Nat)]
  BY WaiterFields DEF TypeOK
<1>2. ASSUME NEW l \in Locations
      PROVE  /\ Removed(id)[l] \in Seq(Nat)
             /\ Ascending(Removed(id)[l])
             /\ ToSet(Removed(id)[l]) = ToSet(queues[l]) \ {id}
             /\ cancelled => Removed(id)[l] = <<>>
  <2>1. queues[l] \in Seq(Nat) /\ Ascending(queues[l]) /\ (cancelled => queues[l] = <<>>)
    BY <1>1 DEF Queued
  <2>2. CASE l = waiters[id].at
    <3>1. Removed(id)[l] = RemoveFirst(queues[l], id)
      BY <1>1, <2>2 DEF Removed
    <3>2. /\ RemoveFirst(queues[l], id) \in Seq(Nat) /\ Ascending(RemoveFirst(queues[l], id))
          /\ ToSet(RemoveFirst(queues[l], id)) = ToSet(queues[l]) \ {id}
      BY <2>1, RemovedQueue
    <3>3. ASSUME cancelled PROVE RemoveFirst(queues[l], id) = <<>>
      <4>1. queues[l] = <<>> /\ Len(<<>>) = 0
        BY <2>1, <3>3, EmptySeq
      <4>2. QED
        BY <4>1 DEF RemoveFirst
    <3>4. QED
      BY <3>1, <3>2, <3>3
  <2>3. CASE l # waiters[id].at
    <3>1. Removed(id)[l] = queues[l]
      BY <1>1, <2>3 DEF Removed
    <3>2. id \notin ToSet(queues[l])
      BY <2>3 DEF Queued
    <3>3. QED
      BY <2>1, <3>1, <3>2
  <2>4. QED
    BY <2>2, <2>3
<1>3. Removed(id) \in [Locations -> Seq(Nat)]
  <2>1. Removed(id) = [l \in Locations |-> Removed(id)[l]]
    BY <1>1 DEF Removed
  <2>2. QED
    BY <1>2, <2>1
<1>4. QED
  BY <1>2, <1>3

\* A blocked wait is answered by its own agent.
LEMMA WaitAnswered ==
  ASSUME IInv, NEW a \in Agents, NEW id, NEW o \in Outcomes, NEW to \in {"exit", "script"},
         pc[a] = "wait", a \notin asleep, id = intent[a],
         waiters' = [waiters EXCEPT ![id].outcome = o],
         intent' = [intent EXCEPT ![a] = None], pc' = [pc EXCEPT ![a] = to],
         queues' = Removed(id) \/ (queues' = queues /\ ~Registered(id)),
         o = "ok" => id \in notified, o = "timed-out" => id \notin notified,
         o = "unavailable" => cancelled,
         UNCHANGED <<notified, sweeps, deadlines, inFlight, cancelled, asleep, lock>>,
         UNCHANGED meetingVars, UNCHANGED pollVars
  PROVE  IInv'
<1>0. TypeOK /\ Control /\ Intents /\ Queued /\ Answered /\ Flying /\ Sleeping /\ Driving /\ Meeting
  BY DEF IInv
<1>1. /\ id \in Ids /\ waiters[id].by = a /\ ~waiters[id].async /\ waiters[id].outcome = None
  BY <1>0 DEF Intents
<1>2. waiters[id] \in Waiter /\ waiters[id].at \in Locations
  BY <1>0, <1>1, WaiterFields
<1>3. /\ waiters' \in Seq(Waiter) /\ Ids' = Ids
      /\ waiters'[id] = [waiters[id] EXCEPT !.outcome = o]
      /\ \A j \in Ids : j # id => waiters'[j] = waiters[j]
  <2>1. [waiters[id] EXCEPT !.outcome = o] \in Waiter
    BY <1>2 DEF Waiter
  <2>2. waiters' = [waiters EXCEPT ![id] = [waiters[id] EXCEPT !.outcome = o]]
    OBVIOUS
  <2>3. QED
    BY <1>0, <1>1, <2>1, <2>2, Amended
<1>4. /\ waiters'[id].by = a /\ ~waiters'[id].async /\ waiters'[id].outcome = o
      /\ waiters'[id].at = waiters[id].at /\ waiters'[id].open = waiters[id].open
      /\ o # None
  BY <1>1, <1>2, <1>3, NoneAssumption DEF Waiter
<1>5. /\ queues' \in [Locations -> Seq(Nat)]
      /\ \A l \in Locations : /\ Ascending(queues'[l])
                              /\ ToSet(queues'[l]) = ToSet(queues[l]) \ {id}
                              /\ cancelled => queues'[l] = <<>>
  <2>1. CASE queues' = Removed(id)
    BY <1>0, <1>1, <2>1, RemovedFrom
  <2>2. CASE queues' = queues /\ ~Registered(id)
    <3>1. \A l \in Locations : id \notin ToSet(queues[l])
      BY <1>0, <2>2 DEF Queued, Registered
    <3>2. QED
      BY <1>0, <2>2, <3>1 DEF Queued, TypeOK
  <2>3. QED
    BY <2>1, <2>2
<1>6. \A j \in Ids : (Registered(j)' <=> Registered(j) /\ j # id) /\ waiters'[j].at = waiters[j].at
  <2>1. ASSUME NEW j \in Ids PROVE (Registered(j)' <=> Registered(j) /\ j # id) /\ waiters'[j].at = waiters[j].at
    <3>1. waiters[j].at \in Locations
      BY <1>0, WaiterFields
    <3>2. waiters'[j].at = waiters[j].at
      BY <1>3, <1>4
    <3>3. QED
      BY <1>5, <3>1, <3>2 DEF Registered
  <2>2. QED
    BY <2>1
<1>7. Control' /\ pc'[a] = to /\ \A u \in Threads \ {a} : pc'[u] = pc[u]
  <2>1. a \in Threads /\ a # Timer /\ (a = Main => ~cancelled)
    BY <1>0, ThreadNames DEF Control
  <2>2. QED
    BY <1>0, <2>1, ControlMoved
<1>8. \A b \in Agents \ {a} : intent'[b] = intent[b] /\ DOMAIN intent' = Agents
  BY <1>0 DEF TypeOK
<1>9. TypeOK'
  <2>1. pc' \in [Threads -> States]
    BY <1>0 DEF TypeOK, States
  <2>2. DOMAIN intent' = Agents
    BY <1>0 DEF TypeOK
  <2>3. QED
    BY <1>0, <1>3, <1>5, <2>1, <2>2 DEF TypeOK, meetingVars, pollVars
<1>10. \A b \in Agents : pc[b] = "wait" /\ b # a => intent[b] \in Ids /\ intent[b] # id
  BY <1>0, <1>1 DEF Intents
<1>11. Intents'
  <2>1. ASSUME NEW b \in Agents, pc'[b] \in {"publish", "wait"}
        PROVE  pc[b] = pc'[b] /\ intent'[b] = intent[b] /\ b # a
    BY <1>7, <1>8, <2>1, ThreadNames
  <2>2. ASSUME NEW b \in Agents, pc'[b] = "wait"
        PROVE  intent[b] \in Ids' /\ waiters'[intent[b]] = waiters[intent[b]]
    BY <1>3, <1>10, <2>1, <2>2
  <2>3. QED
    BY <1>0, <2>1, <2>2 DEF Intents
<1>12. Queued'
  BY <1>0, <1>3, <1>5, <1>6 DEF Queued
<1>13. Answered'
  <2>1. Known(id)'
    <3>1. id \notin deadlines /\ ~waiters[id].open
      BY <1>0, <1>1 DEF Answered, Known
    <3>2. QED
      BY <1>1, <1>4, <1>6, <3>1 DEF Known
  <2>2. ASSUME NEW j \in Ids, j # id PROVE Known(j)'
    <3>1. Known(j) /\ waiters'[j] = waiters[j] /\ (Registered(j)' <=> Registered(j))
      BY <1>0, <1>3, <1>6, <2>2 DEF Answered
    <3>2. UnderWay(j) => UnderWay(j)'
      BY DEF UnderWay
    <3>3. \A b \in Agents : pc[b] = "wait" /\ intent[b] = j => pc'[b] = "wait" /\ intent'[b] = j
      BY <1>7, <1>8, <2>2, ThreadNames
    <3>4. QED
      BY <1>0, <3>1, <3>2, <3>3, KnownKept
  <2>3. QED
    BY <1>3, <2>1, <2>2 DEF Answered
<1>14. Flying'
  <2>1. ASSUME NEW t \in Threads, NEW i \in DOMAIN inFlight[t] PROVE Carried(inFlight[t][i])'
    <3>1. Carried(inFlight[t][i]) /\ inFlight[t][i][1] \in Ids
      BY <1>0 DEF Flying, Carried
    <3>2. Registered(inFlight[t][i][1])' => Registered(inFlight[t][i][1])
      BY <1>6, <3>1
    <3>3. CASE inFlight[t][i][1] = id
      BY <1>3, <1>4, <3>1, <3>2, <3>3 DEF Carried
    <3>4. CASE inFlight[t][i][1] # id
      BY <1>3, <3>1, <3>2, <3>4, CarriedKept
    <3>5. QED
      BY <3>3, <3>4
  <2>2. \A t \in Threads : pc'[t] # "complete" => inFlight'[t] = <<>>
    BY <1>0, <1>7, ThreadNames DEF Flying
  <2>3. QED
    BY <1>0, <2>1, <2>2 DEF Flying
<1>15. Sleeping'
  <2>1. asleep \subseteq Threads
    BY <1>0 DEF TypeOK
  <2>2. \A t \in asleep : pc'[t] = pc[t]
    BY <1>7, <2>1
  <2>3. ASSUME NEW t \in asleep, Awaits(t) PROVE Awaits(t)'
    <3>1. CASE t = Timer
      <4>1. pc'[t] = "run"
        BY <1>0, <2>2, <2>3, <3>1 DEF Sleeping
      <4>2. QED
        BY <2>3, <4>1 DEF Awaits
    <3>2. CASE t \in Agents /\ pc[t] = "wait"
      <4>1. PICK j \in Ids : j = intent[t] /\ j # id
        BY <1>10, <2>3, <3>2
      <4>2. Registered(j) /\ intent'[t] = j
        BY <1>8, <2>3, <3>2, <4>1 DEF Awaits
      <4>3. Registered(j)'
        BY <1>6, <4>1, <4>2
      <4>4. Registered(intent[t])'
        BY <4>2, <4>3 DEF Registered
      <4>5. QED
        BY <2>2, <2>3, <3>2, <4>4 DEF Awaits
    <3>3. CASE pc[t] # "wait"
      BY <2>2, <2>3, <3>3 DEF Awaits, Addressed, meetingVars
    <3>4. QED
      BY <2>1, <3>1, <3>2, <3>3, ThreadNames
  <2>4. (\E u \in Threads : pc[u] = "complete") => \E u \in Threads : pc'[u] = "complete"
    BY <1>7, ThreadNames
  <2>5. Timer \in asleep' => pc'[Timer] = "run"
    BY <1>0, <2>2 DEF Sleeping
  <2>6. \A b \in Agents : b \in asleep' => pc'[b] \in {"wait", "receive", "broadcast"}
    BY <1>0, <2>2 DEF Sleeping
  <2>7. QED
    BY <1>0, <2>3, <2>4, <2>5, <2>6 DEF Sleeping
<1>16. Driving'
  <2>1. ASSUME NEW b \in Agents PROVE Handles(b)' = Handles(b) /\ id \notin Handles(b)
    <3>1. ~waiters[id].open
      BY <1>0, <1>1 DEF Answered, Known
    <3>2. \A j \in Ids : waiters'[j].by = waiters[j].by /\ (waiters'[j].open <=> waiters[j].open)
      BY <1>1, <1>3, <1>4
    <3>3. QED
      BY <1>3, <3>1, <3>2 DEF Handles
  <2>2. \A b \in Agents : \A j \in Handles(b) : waiters'[j] = waiters[j]
    BY <1>3, <2>1 DEF Handles
  <2>3. \A b \in Agents : /\ pc'[b] # "poll" => unpolled[b] = {}
                          /\ pc'[b] \in {"poll", "park"} => pc'[b] = pc[b]
    BY <1>0, <1>7, ThreadNames DEF Driving
  <2>4. \A b \in Agents : Summoned(b)' <=> Summoned(b)
    BY DEF Summoned, pollVars
  <2>5. QED
    BY <1>0, <2>1, <2>2, <2>3, <2>4 DEF Driving, pollVars
<1>17. Meeting'
  <2>1. pc[Main] = "broadcast" => pc'[Main] = "broadcast"
    BY <1>7, ThreadNames
  <2>2. \A v \in Workers : pc'[v] \in {"unborn", "boot"} => pc[v] \in {"unborn", "boot"}
    BY <1>7, ThreadNames
  <2>3. QED
    BY <1>0, <2>1, <2>2, MeetingKept
<1>18. QED
  BY <1>7, <1>9, <1>11, <1>12, <1>13, <1>14, <1>15, <1>16, <1>17 DEF IInv

LEMMA WaitTurnStep ==
  ASSUME IInv, NEW a \in Agents, WaitTurn(a)
  PROVE  IInv'
<1>0. TypeOK /\ Control /\ Intents /\ Answered
  BY DEF IInv
<1>1. /\ pc[a] = "wait" /\ a \notin asleep
      /\ UNCHANGED <<notified, sweeps, deadlines, inFlight, cancelled, lock>>
      /\ UNCHANGED meetingVars /\ UNCHANGED pollVars
  BY DEF WaitTurn, Enters, answerVars, meetingVars, pollVars, memoryVars, registryVars, messageVars, driverVars, historyVars
<1>2. PICK id \in Ids : /\ id = intent[a] /\ waiters[id].by = a
                        /\ ~waiters[id].async /\ waiters[id].outcome = None /\ Known(id)
  BY <1>0, <1>1 DEF Intents, Answered
<1>3. CASE /\ cancelled /\ queues' = Removed(id) /\ Answer(a, id, "unavailable")
           /\ Goes(a, "exit") /\ UNCHANGED asleep
  <2>1. "unavailable" \in Outcomes /\ "exit" \in {"exit", "script"}
    BY DEF Outcomes
  <2>2. QED
    BY <1>1, <1>2, <1>3, <2>1, WaitAnswered DEF Answer, Goes
<1>4. CASE /\ ~cancelled /\ ~Registered(id) /\ Answer(a, id, "ok") /\ Goes(a, "script")
           /\ UNCHANGED <<queues, asleep>>
  <2>1. "ok" \in Outcomes /\ "script" \in {"exit", "script"}
    BY DEF Outcomes
  <2>2. id \in notified
    BY <1>2, <1>4 DEF Known
  <2>3. QED
    BY <1>1, <1>2, <1>4, <2>1, <2>2, WaitAnswered DEF Answer, Goes
<1>5. CASE /\ ~cancelled /\ Registered(id) /\ queues' = Removed(id)
           /\ Answer(a, id, "timed-out") /\ Goes(a, "script") /\ UNCHANGED asleep
  <2>1. "timed-out" \in Outcomes /\ "script" \in {"exit", "script"}
    BY DEF Outcomes
  <2>2. id \notin notified
    BY <1>2, <1>5 DEF Known
  <2>3. QED
    BY <1>1, <1>2, <1>5, <2>1, <2>2, WaitAnswered DEF Answer, Goes
<1>6. CASE /\ ~cancelled /\ Registered(id) /\ Sleeps(a)
           /\ UNCHANGED <<queues, waiters, intent, pc>>
  <2>1. Awaits(a) /\ a \in Threads /\ a # Timer
    BY <1>1, <1>2, <1>6, ThreadNames DEF Awaits
  <2>2. asleep' = asleep \cup {a} /\ UNCHANGED <<lock, pc>> /\ UNCHANGED answerVars
    BY <1>1, <1>6 DEF Sleeps, answerVars
  <2>3. QED
    BY <1>1, <2>1, <2>2, FallsAsleep
<1>7. QED
  BY <1>2, <1>3, <1>4, <1>5, <1>6 DEF WaitTurn

\* One handle of an agent's driver changes, and perhaps its waiter leaves the queue.
LEMMA HandleStep ==
  ASSUME IInv, NEW a \in Agents, NEW id \in Handles(a), NEW w \in Waiter,
         waiters' = [waiters EXCEPT ![id] = w],
         w.by = a, w.at = waiters[id].at, w.async, w.timed = waiters[id].timed,
         w.since = waiters[id].since, w.outcome = waiters[id].outcome,
         \/ /\ w.open /\ UNCHANGED <<queues, deadlines>>
         \/ /\ ~w.open /\ UNCHANGED <<queues, deadlines>> /\ waiters[id].outcome # None
         \/ /\ ~w.open /\ queues' = Removed(id) /\ deadlines' = deadlines \ {id},
         asleep' = {} \/ (asleep' = asleep /\ queues' = queues),
         UNCHANGED <<notified, sweeps, inFlight, cancelled, lock, pc, intent, signaled, waking>>,
         UNCHANGED meetingVars,
         unpolled' = unpolled \/ unpolled' = [unpolled EXCEPT ![a] = @ \ {id}], Driving'
  PROVE  IInv'
<1>0. TypeOK /\ Control /\ Intents /\ Queued /\ Answered /\ Flying /\ Sleeping /\ Meeting
  BY DEF IInv
<1>1. id \in Ids /\ waiters[id].by = a /\ waiters[id].open /\ Known(id)
  BY <1>0 DEF Handles, Answered
<1>2. waiters[id].async
  BY <1>1 DEF Known
<1>3. /\ waiters' \in Seq(Waiter) /\ Ids' = Ids
      /\ waiters'[id] = w
      /\ \A j \in Ids : j # id => waiters'[j] = waiters[j]
  BY <1>0, <1>1, Amended
<1>4. /\ queues' \in [Locations -> Seq(Nat)]
      /\ \A l \in Locations : /\ Ascending(queues'[l])
                              /\ \A j : j # id => (j \in ToSet(queues'[l]) <=> j \in ToSet(queues[l]))
                              /\ cancelled => queues'[l] = <<>>
                              /\ ToSet(queues'[l]) \subseteq ToSet(queues[l])
  <2>1. CASE queues' = queues
    BY <1>0, <2>1 DEF TypeOK, Queued
  <2>2. CASE queues' = Removed(id)
    <3>1. /\ queues' \in [Locations -> Seq(Nat)]
          /\ \A l \in Locations : /\ Ascending(queues'[l])
                                  /\ ToSet(queues'[l]) = ToSet(queues[l]) \ {id}
                                  /\ cancelled => queues'[l] = <<>>
      BY <1>0, <1>1, <2>2, RemovedFrom
    <3>2. QED
      BY <3>1
  <2>3. QED
    BY <2>1, <2>2
<1>5. \A j \in Ids : /\ waiters'[j].at = waiters[j].at
                     /\ j # id => (Registered(j)' <=> Registered(j))
                     /\ Registered(j)' => Registered(j)
  <2>1. ASSUME NEW j \in Ids
        PROVE  /\ waiters'[j].at = waiters[j].at
               /\ j # id => (Registered(j)' <=> Registered(j))
               /\ Registered(j)' => Registered(j)
    <3>1. waiters[j].at \in Locations
      BY <1>0, WaiterFields
    <3>2. waiters'[j].at = waiters[j].at
      BY <1>3
    <3>3. QED
      BY <1>4, <3>1, <3>2 DEF Registered
  <2>2. QED
    BY <2>1
<1>6. TypeOK'
  <2>0. unpolled \in [Agents -> SUBSET Nat] /\ unpolled[a] \ {id} \in SUBSET Nat
    BY <1>0 DEF TypeOK
  <2>1. unpolled' \in [Agents -> SUBSET Nat]
    BY <2>0
  <2>2. asleep' \subseteq Threads /\ deadlines' \subseteq Ids
    BY <1>0 DEF TypeOK
  <2>3. QED
    BY <1>0, <1>3, <1>4, <2>1, <2>2 DEF TypeOK, meetingVars
<1>7. Control'
  BY <1>0 DEF Control
<1>8. Intents'
  <2>1. ASSUME NEW b \in Agents, pc[b] = "wait"
        PROVE  intent[b] \in Ids' /\ waiters'[intent[b]] = waiters[intent[b]]
    BY <1>0, <1>2, <1>3, <2>1 DEF Intents
  <2>2. QED
    BY <1>0, <2>1 DEF Intents
<1>9. Queued'
  BY <1>0, <1>3, <1>4, <1>5 DEF Queued
<1>10. Answered'
  <2>1. ASSUME NEW j \in Ids PROVE UnderWay(j)' <=> UnderWay(j)
    BY DEF UnderWay
  <2>2. Known(id)'
    <3>1. CASE w.open /\ UNCHANGED <<queues, deadlines>>
      <4>1. Registered(id)' <=> Registered(id)
        BY <1>3, <3>1 DEF Registered
      <4>2. QED
        BY <1>1, <1>2, <1>3, <2>1, <3>1, <4>1 DEF Known
    <3>2. CASE ~w.open /\ UNCHANGED <<queues, deadlines>> /\ waiters[id].outcome # None
      <4>1. Registered(id)' <=> Registered(id)
        BY <1>3, <3>2 DEF Registered
      <4>2. ~Registered(id)
        BY <1>1, <3>2 DEF Known
      <4>3. QED
        BY <1>1, <1>2, <1>3, <3>2, <4>1, <4>2 DEF Known
    <3>3. CASE ~w.open /\ queues' = Removed(id) /\ deadlines' = deadlines \ {id}
      <4>1. \A l \in Locations : id \notin ToSet(queues'[l])
        BY <1>0, <1>1, <3>3, RemovedFrom, ZenonT(40)
      <4>2. ~Registered(id)'
        BY <1>0, <1>1, <1>3, <4>1, WaiterFields DEF Registered
      <4>3. QED
        BY <1>1, <1>2, <1>3, <3>3, <4>2 DEF Known
    <3>4. QED
      BY <3>1, <3>2, <3>3
  <2>3. ASSUME NEW j \in Ids, j # id PROVE Known(j)'
    <3>1. Known(j) /\ waiters'[j] = waiters[j] /\ (Registered(j)' <=> Registered(j))
      BY <1>0, <1>3, <1>5, <2>3 DEF Answered
    <3>2. j \in deadlines' <=> j \in deadlines
      BY <2>3
    <3>3. QED
      BY <1>0, <2>1, <3>1, <3>2, KnownKept
  <2>4. QED
    BY <1>3, <2>2, <2>3 DEF Answered
<1>11. Flying'
  <2>1. ASSUME NEW t \in Threads, NEW i \in DOMAIN inFlight[t] PROVE Carried(inFlight[t][i])'
    <3>1. PICK e : e = inFlight[t][i]
      OBVIOUS
    <3>2. Carried(e) /\ e[1] \in Ids
      BY <1>0, <3>1 DEF Flying, Carried
    <3>3. Registered(e[1])' => Registered(e[1])
      BY <1>5, <3>2
    <3>4. waiters'[e[1]].outcome = waiters[e[1]].outcome /\ (waiters'[e[1]].async => waiters[e[1]].async)
      BY <1>2, <1>3, <3>2
    <3>5. Carried(e)'
      BY <1>3, <3>2, <3>3, <3>4 DEF Carried
    <3>6. QED
      BY <3>1, <3>5
  <2>2. QED
    BY <1>0, <2>1 DEF Flying
<1>12. Sleeping'
  <2>1. CASE asleep' = {}
    BY <2>1, SleepingWoken
  <2>2. CASE asleep' = asleep /\ queues' = queues
    <3>1. ASSUME NEW t \in asleep, Awaits(t) PROVE Awaits(t)'
      <4>1. CASE t \in Agents /\ pc[t] = "wait"
        <5>1. PICK j \in Ids : j = intent[t]
          BY <1>0, <4>1 DEF Intents
        <5>2. Registered(j)
          BY <3>1, <4>1, <5>1 DEF Awaits
        <5>3. Registered(j)'
          BY <1>5, <2>2, <5>2 DEF Registered
        <5>4. QED
          BY <3>1, <4>1, <5>1, <5>3 DEF Awaits, Registered
      <4>2. CASE pc[t] # "wait"
        BY <3>1, <4>2 DEF Awaits, Addressed, meetingVars
      <4>3. t \in Agents \/ pc[t] # "wait"
        BY <1>0, <3>1, ThreadNames DEF TypeOK, Sleeping
      <4>4. QED
        BY <4>1, <4>2, <4>3
    <3>2. QED
      BY <1>0, <2>2, <3>1 DEF Sleeping
  <2>3. QED
    BY <2>1, <2>2
<1>13. Meeting'
  BY <1>0, MeetingKept
<1>14. QED
  BY <1>6, <1>7, <1>8, <1>9, <1>10, <1>11, <1>12, <1>13 DEF IInv

LEMMA PollStep ==
  ASSUME IInv, NEW a \in Agents, NEW id \in unpolled[a], Poll(a, id)
  PROVE  IInv'
<1>0. TypeOK /\ Driving
  BY DEF IInv
<1>1. /\ pc[a] = "poll" /\ unpolled' = [unpolled EXCEPT ![a] = @ \ {id}]
      /\ UNCHANGED <<queues, deadlines, notified, sweeps, inFlight, cancelled, lock, pc, intent, signaled, waking>>
      /\ UNCHANGED meetingVars
  BY DEF Poll, answerVars, meetingVars, pollVars, memoryVars, registryVars, messageVars, driverVars, historyVars
<1>2. id \in Handles(a)
  BY <1>0 DEF Driving
<1>3. id \in Ids /\ waiters[id].by = a /\ waiters[id].open /\ waiters[id].async /\ waiters[id] \in Waiter
  <2>1. id \in Ids /\ waiters[id].by = a /\ waiters[id].open
    BY <1>2 DEF Handles
  <2>2. waiters[id].async
    BY <2>1 DEF IInv, Answered, Known
  <2>3. QED
    BY <1>0, <2>1, <2>2, WaiterFields
<1>4. /\ unpolled'[a] = unpolled[a] \ {id} /\ \A b \in Agents \ {a} : unpolled'[b] = unpolled[b]
  BY <1>0, <1>1 DEF TypeOK
<1>5. \A b \in Agents : Summoned(b)' <=> Summoned(b)
  BY <1>1 DEF Summoned
<1>6. CASE /\ waiters[id].outcome # None /\ NotifyAll
           /\ waiters' = [waiters EXCEPT ![id].open = FALSE]
  <2> DEFINE v == [waiters[id] EXCEPT !.open = FALSE]
  <2>1. PICK w \in Waiter : w = v
    BY <1>3 DEF Waiter
  <2>2. /\ w.by = a /\ w.at = waiters[id].at /\ w.async /\ w.timed = waiters[id].timed
        /\ w.since = waiters[id].since /\ w.outcome = waiters[id].outcome /\ ~w.open
    BY <1>3, <2>1 DEF Waiter
  <2>3. waiters' = [waiters EXCEPT ![id] = w]
    BY <1>6, <2>1
  <2> HIDE DEF v
  <2>4. Ids' = Ids /\ waiters'[id] = w /\ \A j \in Ids : j # id => waiters'[j] = waiters[j]
    BY <1>0, <1>3, <2>3, Amended
  <2>5. \A b \in Agents : Handles(b)' = Handles(b) \ {id}
    BY <2>2, <2>4 DEF Handles
  <2>6. \A b \in Agents \ {a} : id \notin Handles(b)
    BY <1>3 DEF Handles
  <2>7. Driving'
    <3>1. \A b \in Agents : unpolled'[b] \subseteq Handles(b)' /\ (pc'[b] # "poll" => unpolled'[b] = {})
      BY <1>0, <1>1, <1>4, <2>5, <2>6 DEF Driving
    <3>2. \A b \in Agents : \A j \in Handles(b)' \ unpolled'[b] :
             j \in Handles(b) \ unpolled[b] /\ waiters'[j] = waiters[j]
      BY <1>4, <2>4, <2>5 DEF Handles
    <3>3. QED
      BY <1>0, <1>1, <1>5, <3>1, <3>2 DEF Driving
  <2>8. asleep' = {}
    BY <1>6 DEF NotifyAll
  <2>9. QED
    BY <1>1, <1>2, <1>6, <2>2, <2>3, <2>7, <2>8, HandleStep
<1>7. CASE /\ waiters[id].outcome = None /\ asleep' = asleep
           /\ waiters' = [waiters EXCEPT ![id].waker = TRUE]
  <2> DEFINE v == [waiters[id] EXCEPT !.waker = TRUE]
  <2>1. PICK w \in Waiter : w = v
    BY <1>3 DEF Waiter
  <2>2. /\ w.by = a /\ w.at = waiters[id].at /\ w.async /\ w.timed = waiters[id].timed
        /\ w.since = waiters[id].since /\ w.outcome = waiters[id].outcome /\ w.open /\ w.waker
    BY <1>3, <2>1 DEF Waiter
  <2>3. waiters' = [waiters EXCEPT ![id] = w]
    BY <1>7, <2>1
  <2> HIDE DEF v
  <2>4. Ids' = Ids /\ waiters'[id] = w /\ \A j \in Ids : j # id => waiters'[j] = waiters[j]
    BY <1>0, <1>3, <2>3, Amended
  <2>5. \A b \in Agents : Handles(b)' = Handles(b)
    BY <1>3, <2>2, <2>4 DEF Handles
  <2>6. Driving'
    <3>1. \A b \in Agents : unpolled'[b] \subseteq Handles(b)' /\ (pc'[b] # "poll" => unpolled'[b] = {})
      BY <1>0, <1>1, <1>4, <2>5 DEF Driving
    <3>2. \A b \in Agents : \A j \in Handles(b)' \ unpolled'[b] :
             \/ j = id
             \/ j \in Handles(b) \ unpolled[b] /\ waiters'[j] = waiters[j]
      BY <1>4, <2>4, <2>5 DEF Handles
    <3>3. waiters'[id].outcome = None /\ waiters'[id].waker
      BY <1>7, <2>2, <2>4
    <3>4. QED
      BY <1>0, <1>1, <1>5, <3>1, <3>2, <3>3 DEF Driving
  <2>7. QED
    BY <1>1, <1>2, <1>7, <2>2, <2>3, <2>6, HandleStep
<1>8. QED
  BY <1>6, <1>7 DEF Poll

LEMMA DropHandleStep ==
  ASSUME IInv, NEW a \in Agents, NEW id \in Handles(a), DropHandle(a, id)
  PROVE  IInv'
<1>0. TypeOK /\ Driving
  BY DEF IInv
<1>1. /\ pc[a] = "exit" /\ asleep' = {}
      /\ waiters' = [waiters EXCEPT ![id].open = FALSE]
      /\ queues' = Removed(id) /\ deadlines' = deadlines \ {id}
      /\ UNCHANGED <<notified, sweeps, inFlight, cancelled, lock, pc, intent, signaled, waking, unpolled>>
      /\ UNCHANGED meetingVars
  BY DEF DropHandle, NotifyAll, answerVars, meetingVars, pollVars, memoryVars, registryVars, messageVars, driverVars, historyVars
<1>2. id \in Ids /\ waiters[id].by = a /\ waiters[id].open /\ waiters[id].async /\ waiters[id] \in Waiter
  <2>1. id \in Ids /\ waiters[id].by = a /\ waiters[id].open
    BY DEF Handles
  <2>2. waiters[id].async
    BY <2>1 DEF IInv, Answered, Known
  <2>3. QED
    BY <1>0, <2>1, <2>2, WaiterFields
<1> DEFINE v == [waiters[id] EXCEPT !.open = FALSE]
<1>3. PICK w \in Waiter : w = v
  BY <1>2 DEF Waiter
<1>4. /\ w.by = a /\ w.at = waiters[id].at /\ w.async /\ w.timed = waiters[id].timed
      /\ w.since = waiters[id].since /\ w.outcome = waiters[id].outcome /\ ~w.open
  BY <1>2, <1>3 DEF Waiter
<1>5. waiters' = [waiters EXCEPT ![id] = w]
  BY <1>1, <1>3
<1> HIDE DEF v
<1>6. Ids' = Ids /\ waiters'[id] = w /\ \A j \in Ids : j # id => waiters'[j] = waiters[j]
  BY <1>0, <1>2, <1>5, Amended
<1>7. \A b \in Agents : Handles(b)' = Handles(b) \ {id}
  BY <1>4, <1>6 DEF Handles
<1>8. unpolled[a] = {} /\ \A b \in Agents \ {a} : id \notin Handles(b)
  BY <1>0, <1>1, <1>2 DEF Handles, Driving
<1>9. Driving'
  <2>1. \A b \in Agents : unpolled'[b] \subseteq Handles(b)' /\ (pc'[b] # "poll" => unpolled'[b] = {})
    BY <1>0, <1>1, <1>7, <1>8 DEF Driving
  <2>2. \A b \in Agents : \A j \in Handles(b)' \ unpolled'[b] :
           j \in Handles(b) \ unpolled[b] /\ waiters'[j] = waiters[j]
    BY <1>1, <1>6, <1>7 DEF Handles
  <2>3. \A b \in Agents : Summoned(b)' <=> Summoned(b)
    BY <1>1 DEF Summoned
  <2>4. QED
    BY <1>0, <1>1, <2>1, <2>2, <2>3 DEF Driving
<1>10. QED
  BY <1>1, <1>4, <1>5, <1>9, HandleStep

\* notify, the timer and cancel take waiters out of the queues and owe them an answer.
\* Thread t takes the waiters R and will tell the asynchronous ones, listed in q, o.
TakesOut(t, R, o, q) ==
  /\ pc[t] \notin {"complete", "wait"} /\ \A id \in R : Registered(id)
  /\ inFlight' = [inFlight EXCEPT ![t] = q]
  /\ \A i \in DOMAIN q : q[i][1] \in R /\ q[i][2] = o
  /\ \A i, j \in DOMAIN q : q[i][1] = q[j][1] => i = j
  /\ \A id \in R : waiters[id].async => \E i \in DOMAIN q : q[i][1] = id
  /\ pc'[t] = "complete" \/ (pc'[t] = pc[t] /\ q = <<>>)
  /\ \A u \in Threads \ {t} : pc'[u] = pc[u]
  /\ \A l \in Locations : /\ Ascending(queues'[l])
                          /\ ToSet(queues'[l]) = ToSet(queues[l]) \ R
                          /\ cancelled' => queues'[l] = <<>>
  /\ deadlines' = deadlines \ R /\ waiters' = waiters /\ intent' = intent
  /\ o = "ok" => notified' = notified \cup R
  /\ o # "ok" => notified' = notified
  /\ o = "unavailable" => cancelled'
  /\ cancelled => cancelled'
  /\ o # "ok" /\ ~cancelled' => \A id \in R : waiters[id].async
  /\ \A id \in Ids : Registered(id)' => sweeps'[waiters[id].at] = sweeps[waiters[id].at]

LEMMA TakenOut ==
  ASSUME IInv, NEW t \in Threads, NEW R \in SUBSET Ids, NEW o \in Outcomes,
         NEW q \in Seq(Nat \X Outcomes), TakesOut(t, R, o, q)
  PROVE  Queued' /\ Answered' /\ Flying'
<1> USE DEF TakesOut
<1>0. TypeOK /\ Queued /\ Answered /\ Flying
  BY DEF IInv
<1>1. Ids' = Ids /\ \A id \in Ids : Registered(id)' <=> Registered(id) /\ id \notin R
  <2>1. ASSUME NEW id \in Ids PROVE Registered(id)' <=> Registered(id) /\ id \notin R
    <3>1. waiters[id].at \in Locations
      BY <1>0, WaiterFields
    <3>2. QED
      BY <3>1 DEF Registered
  <2>2. QED
    BY <2>1 DEF Ids
<1>2. inFlight'[t] = q /\ inFlight[t] = <<>> /\ \A u \in Threads \ {t} : inFlight'[u] = inFlight[u]
  BY <1>0 DEF TypeOK, Flying
<1>3. ASSUME NEW id \in R
      PROVE  waiters[id].outcome = None /\ id \notin notified /\ Known(id) /\ id \in Ids
  BY <1>0, <1>3 DEF Answered, Known
<1>4. Queued'
  BY <1>0, <1>1 DEF Queued
<1>5. Answered'
  <2>1. ASSUME NEW id \in R PROVE Known(id)'
    <3>1. ~Registered(id)' /\ id \notin deadlines'
      BY <1>1, <2>1
    <3>2. waiters[id].async => UnderWay(id)'
      BY <1>2, <2>1 DEF UnderWay
    <3>3. waiters[id].outcome = None /\ Known(id)
      BY <1>3, <2>1
    <3>4. waiters[id].by \in Agents
      BY <1>0, <2>1, WaiterFields
    <3>5. ~waiters[id].async => pc'[waiters[id].by] = "wait" /\ intent[waiters[id].by] = id
      <4>1. ~waiters[id].async => pc[waiters[id].by] = "wait" /\ intent[waiters[id].by] = id
        BY <3>3 DEF Known
      <4>2. QED
        BY <3>4, <4>1, ThreadNames
    <3>6. ~waiters[id].async => id \in notified' \/ cancelled'
      BY <2>1
    <3>7. None \notin Outcomes
      BY NoneAssumption
    <3>8. QED
      BY <3>1, <3>2, <3>3, <3>5, <3>6, <3>7 DEF Known, Outcomes
  <2>2. ASSUME NEW id \in Ids, id \notin R PROVE Known(id)'
    <3>1. Known(id) /\ (Registered(id)' <=> Registered(id))
      BY <1>0, <1>1, <2>2 DEF Answered
    <3>2. UnderWay(id) => UnderWay(id)'
      <4>1. ASSUME NEW u \in Threads, NEW i \in DOMAIN inFlight[u], inFlight[u][i][1] = id
            PROVE  UnderWay(id)'
        <5>1. u # t
          BY <1>2, <4>1
        <5>2. QED
          BY <1>2, <4>1, <5>1 DEF UnderWay
      <4>2. QED
        BY <4>1 DEF UnderWay
    <3>3. (id \in notified' <=> id \in notified) /\ (id \in deadlines' <=> id \in deadlines)
      BY <2>2
    <3>4. \A a \in Agents : pc[a] = "wait" => pc'[a] = "wait"
      BY ThreadNames
    <3>5. Registered(id) => sweeps'[waiters[id].at] = sweeps[waiters[id].at]
      BY <3>1
    <3>6. QED
      BY <1>0, <3>1, <3>2, <3>3, <3>4, <3>5, KnownKept
  <2>3. QED
    BY <1>1, <2>1, <2>2 DEF Answered
<1>6. Flying'
  <2>1. \A u \in Threads : pc'[u] # "complete" => inFlight'[u] = <<>>
    BY <1>0, <1>2 DEF Flying
  <2>2. ASSUME NEW i \in DOMAIN q, NEW e, e = q[i] PROVE Carried(e)'
    <3>1. e[1] \in R /\ e[2] = o
      BY <2>2
    <3>2. e[1] \in Ids' /\ ~Registered(e[1])' /\ waiters[e[1]].outcome = None /\ e[1] \notin notified
      BY <1>1, <1>3, <3>1
    <3>3. QED
      BY <3>1, <3>2 DEF Carried
  <2>3. ASSUME NEW u \in Threads, u # t, NEW i \in DOMAIN inFlight[u], NEW e, e = inFlight[u][i]
        PROVE  Carried(e)' /\ e[1] \notin R
    <3>1. Carried(e) /\ e[1] \in Ids /\ ~Registered(e[1])
      BY <1>0, <2>3 DEF Flying, Carried
    <3>2. e[1] \notin R
      BY <3>1
    <3>3. QED
      BY <1>1, <3>1, <3>2, CarriedKept
  <2>4. ASSUME NEW u \in Threads, NEW i \in DOMAIN inFlight'[u] PROVE Carried(inFlight[u][i])'
    <3>1. PICK e : e = inFlight'[u][i]
      OBVIOUS
    <3>2. Carried(e)'
      BY <1>2, <2>2, <2>3, <2>4, <3>1
    <3>3. QED
      BY <3>1, <3>2
  <2>5. ASSUME NEW u \in Threads, NEW v \in Threads, NEW i \in DOMAIN inFlight'[u],
               NEW j \in DOMAIN inFlight'[v], inFlight'[u][i][1] = inFlight'[v][j][1]
        PROVE  u = v /\ i = j
    <3>1. CASE u = t /\ v = t
      BY <1>2, <2>5, <3>1
    <3>2. CASE u # t /\ v # t
      BY <1>0, <1>2, <2>5, <3>2 DEF Flying
    <3>0. ASSUME NEW x \in Threads, x # t, NEW k \in DOMAIN inFlight'[x]
          PROVE  inFlight'[x][k][1] \notin R
      BY <1>2, <2>3, <3>0
    <3>3. CASE u = t /\ v # t
      BY <1>2, <2>5, <3>0, <3>3
    <3>4. CASE u # t /\ v = t
      BY <1>2, <2>5, <3>0, <3>4
    <3>5. QED
      BY <3>1, <3>2, <3>3, <3>4
  <2>6. QED
    BY <2>1, <2>4, <2>5 DEF Flying
<1>7. QED
  BY <1>4, <1>5, <1>6

\* What else holds when such a thread goes on to publish the answers.
LEMMA TakerMoved ==
  ASSUME IInv, NEW t \in Threads, pc[t] \in {"script", "run", "exit"}, t \notin asleep,
         pc' = [pc EXCEPT ![t] = "complete"], UNCHANGED <<waiters, intent, asleep>>,
         UNCHANGED pollVars, lock = None \/ UNCHANGED sweeps
  PROVE  /\ Intents' /\ Sleeping' /\ Driving'
         /\ pc' \in [Threads -> States] /\ pc'[t] = "complete"
         /\ \A u \in Threads \ {t} : pc'[u] = pc[u]
<1>0. TypeOK /\ Control /\ Intents /\ Sleeping /\ Driving
  BY DEF IInv
<1>1. /\ pc' \in [Threads -> States] /\ pc'[t] = "complete"
      /\ \A u \in Threads \ {t} : pc'[u] = pc[u]
  BY <1>0 DEF TypeOK, States
<1>2. Intents'
  <2>1. \A a \in Agents : pc'[a] \in {"publish", "wait"} => pc'[a] = pc[a]
    BY <1>1, ThreadNames
  <2>2. CASE UNCHANGED sweeps
    BY <1>0, <2>1, <2>2, IntentsKept
  <2>3. CASE lock = None
    <3>1. \A a \in Agents : pc[a] # "publish"
      BY <1>0, <2>3, ThreadNames DEF Control
    <3>2. QED
      BY <1>0, <2>1, <3>1 DEF Intents, Ids
  <2>4. QED
    BY <2>2, <2>3
<1>3. Sleeping'
  <2>1. \A u \in asleep : pc'[u] = pc[u]
    BY <1>0, <1>1 DEF TypeOK
  <2>2. QED
    BY <1>0, <1>1, <2>1 DEF Sleeping
<1>4. Driving'
  <2>1. \A a \in Agents : pc'[a] # pc[a] => pc'[a] \notin {"poll", "park"} /\ pc[a] # "poll"
    BY <1>1, ThreadNames
  <2>2. QED
    BY <1>0, <2>1, DrivingKept DEF pollVars
<1>5. QED
  BY <1>1, <1>2, <1>3, <1>4

LEMMA MeetingMoved ==
  ASSUME Meeting, NEW t \in Threads, pc[t] \notin {"broadcast"},
         pc'[t] \notin {"unborn", "boot"}, \A u \in Threads \ {t} : pc'[u] = pc[u],
         UNCHANGED meetingVars
  PROVE  Meeting'
<1>1. pc[Main] = "broadcast" => pc'[Main] = "broadcast"
  BY ThreadNames
<1>2. \A v \in Workers : pc'[v] \in {"unborn", "boot"} => pc[v] \in {"unborn", "boot"}
  BY ThreadNames
<1>3. QED
  BY <1>1, <1>2, MeetingKept

LEMMA TimerTurnStep ==
  ASSUME IInv, TimerTurn
  PROVE  IInv'
<1>0. TypeOK /\ Control /\ Queued /\ Answered /\ Sleeping /\ Driving /\ Meeting
  BY DEF IInv
<1>1. /\ pc[Timer] = "run" /\ Timer \notin asleep /\ Timer \in Threads /\ lock = None
      /\ UNCHANGED <<waiters, notified, sweeps, cancelled, intent, lock>>
      /\ UNCHANGED meetingVars /\ UNCHANGED pollVars
  BY ThreadNames DEF TimerTurn, Enters, answerVars, meetingVars, pollVars, memoryVars, registryVars, messageVars, driverVars, historyVars
<1>2. CASE cancelled /\ Goes(Timer, "done") /\ UNCHANGED <<queues, deadlines, inFlight, asleep>>
  <2>1. pc' = [pc EXCEPT ![Timer] = "done"] /\ UNCHANGED answerVars
    BY <1>1, <1>2 DEF Goes, answerVars
  <2>2. Control' /\ pc'[Timer] = "done" /\ \A u \in Threads \ {Timer} : pc'[u] = pc[u]
    <3>1. UNCHANGED <<lock, cancelled>> /\ Timer # Main /\ Timer \notin Workers
      BY <1>1, ThreadNames
    <3>2. QED
      BY <1>0, <1>1, <2>1, <3>1, ControlMoved
  <2>3. TypeOK'
    <3>1. pc' \in [Threads -> States]
      BY <1>0, <2>1 DEF TypeOK, States
    <3>2. QED
      BY <1>0, <1>1, <1>2, <2>1, <3>1 DEF TypeOK, answerVars, meetingVars, pollVars, Ids
  <2>4. Intents' /\ Queued' /\ Answered' /\ Flying'
    <3>1. \A u \in Threads : pc'[u] # pc[u] =>
             pc[u] \notin {"wait", "complete"} /\ pc'[u] \notin {"publish", "wait"}
      BY <1>1, <2>2
    <3>2. QED
      BY <2>1, <3>1, AnswersKept DEF IInv
  <2>5. Sleeping'
    <3>1. asleep \subseteq Threads
      BY <1>0 DEF TypeOK
    <3>2. \A u \in asleep' : pc'[u] = pc[u]
      BY <1>1, <1>2, <2>2, <3>1
    <3>3. \A u \in Threads : pc[u] = "complete" => pc'[u] = "complete"
      BY <1>1, <2>2
    <3>4. QED
      BY <1>0, <1>1, <1>2, <3>1, <3>2, <3>3, SleepingKept DEF meetingVars
  <2>6. Driving'
    <3>1. \A a \in Agents : pc'[a] # pc[a] => pc'[a] \notin {"poll", "park"} /\ pc[a] # "poll"
      BY <1>1, <2>2, ThreadNames
    <3>2. QED
      BY <1>0, <1>1, <3>1, DrivingKept DEF pollVars
  <2>7. Meeting'
    BY <1>0, <1>1, <2>2, MeetingMoved
  <2>8. QED
    BY <2>2, <2>3, <2>4, <2>5, <2>6, <2>7 DEF IInv
<1>3. CASE ~cancelled /\ Sleeps(Timer) /\ UNCHANGED <<queues, deadlines, inFlight, pc>>
  <2>1. Awaits(Timer) /\ asleep' = asleep \cup {Timer} /\ UNCHANGED answerVars
    BY <1>1, <1>3 DEF Awaits, Sleeps, answerVars
  <2>2. UNCHANGED <<lock, pc>>
    BY <1>1, <1>3
  <2>3. QED
    BY <1>1, <2>1, <2>2, FallsAsleep
<1>4. ASSUME NEW id \in deadlines, ~cancelled, deadlines' = deadlines \ {id}, queues' = Removed(id),
             inFlight' = [inFlight EXCEPT ![Timer] =
                            IF Registered(id) THEN <<<<id, "timed-out">>>> ELSE <<>>],
             Goes(Timer, "complete"), UNCHANGED asleep
      PROVE  IInv'
  <2>1. id \in Ids /\ waiters[id].async /\ Registered(id) /\ id \in Nat
    <3>1. id \in Ids
      BY <1>0, <1>4 DEF TypeOK
    <3>2. QED
      BY <1>0, <1>4, <3>1, WaiterFields DEF Answered, Known
  <2>2. pc' = [pc EXCEPT ![Timer] = "complete"]
    BY <1>4 DEF Goes
  <2>3. Control'
    <3>1. UNCHANGED <<lock, cancelled>> /\ Timer # Main /\ Timer \notin Workers
      BY <1>1, ThreadNames
    <3>2. QED
      BY <1>0, <1>1, <2>2, <3>1, ControlMoved
  <2>4. /\ Intents' /\ Sleeping' /\ Driving'
        /\ pc' \in [Threads -> States] /\ pc'[Timer] = "complete"
        /\ \A u \in Threads \ {Timer} : pc'[u] = pc[u]
    BY <1>1, <1>4, <2>2, TakerMoved
  <2>5. /\ queues' \in [Locations -> Seq(Nat)]
        /\ \A l \in Locations : /\ Ascending(queues'[l])
                                /\ ToSet(queues'[l]) = ToSet(queues[l]) \ {id}
                                /\ cancelled => queues'[l] = <<>>
    BY <1>0, <1>4, <2>1, RemovedFrom
  <2> DEFINE q == <<<<id, "timed-out">>>>
  <2>6. /\ q \in Seq(Nat \X Outcomes) /\ DOMAIN q = {1} /\ q[1][1] = id /\ q[1][2] = "timed-out"
        /\ "timed-out" \in Outcomes
    BY <2>1 DEF Outcomes
  <2> HIDE DEF q
  <2>7. inFlight' = [inFlight EXCEPT ![Timer] = q]
    BY <1>4, <2>1 DEF q
  <2>8. Queued' /\ Answered' /\ Flying'
    <3>1. {id} \in SUBSET Ids /\ \A j \in {id} : Registered(j)
      BY <2>1
    <3>2. /\ \A i \in DOMAIN q : q[i][1] \in {id} /\ q[i][2] = "timed-out"
          /\ \A i, j \in DOMAIN q : q[i][1] = q[j][1] => i = j
          /\ \A j \in {id} : waiters[j].async /\ \E i \in DOMAIN q : q[i][1] = j
      BY <2>1, <2>6
    <3>3. \A l \in Locations : /\ Ascending(queues'[l])
                               /\ ToSet(queues'[l]) = ToSet(queues[l]) \ {id}
                               /\ cancelled' => queues'[l] = <<>>
      BY <1>1, <2>5
    <3>4. TakesOut(Timer, {id}, "timed-out", q)
      BY <1>1, <1>4, <2>4, <2>7, <3>1, <3>2, <3>3 DEF TakesOut
    <3>5. QED
      BY <1>1, <2>6, <3>1, <3>4, TakenOut
  <2>9. TypeOK'
    <3>1. inFlight' \in [Threads -> Seq(Nat \X Outcomes)]
      BY <1>0, <2>6, <2>7 DEF TypeOK
    <3>2. deadlines' \subseteq Ids
      BY <1>0, <1>4 DEF TypeOK
    <3>3. QED
      BY <1>0, <1>1, <1>4, <2>4, <2>5, <3>1, <3>2 DEF TypeOK, meetingVars, pollVars, Ids
  <2>10. Meeting'
    BY <1>0, <1>1, <2>4, MeetingMoved
  <2>11. QED
    BY <2>3, <2>4, <2>8, <2>9, <2>10 DEF IInv
<1>5. QED
  BY <1>2, <1>3, <1>4 DEF TimerTurn

LEMMA NotifyStep ==
  ASSUME IInv, NEW a \in Agents, NEW l \in Locations, NEW n \in Nat, Notify(a, l, n)
  PROVE  IInv'
<1>0. TypeOK /\ Control /\ Queued /\ Answered /\ Sleeping /\ Driving /\ Meeting
  BY DEF IInv
<1> DEFINE c == IF n > Len(queues[l]) THEN Len(queues[l]) ELSE n
           taken == SubSeq(queues[l], 1, c)
<1>1. /\ pc[a] = "script" /\ a \notin asleep /\ a \in Threads /\ lock = None
      /\ queues' = [queues EXCEPT ![l] = SubSeq(queues[l], c + 1, Len(queues[l]))]
      /\ deadlines' = deadlines \ ToSet(taken)
      /\ inFlight' = [inFlight EXCEPT ![a] = [i \in 1..c |-> <<taken[i], "ok">>]]
      /\ notified' = notified \cup ToSet(taken)
      /\ sweeps' = IF c = Len(queues[l]) THEN [sweeps EXCEPT ![l] = @ + 1] ELSE sweeps
      /\ IF c = 0 THEN pc' = pc ELSE pc' = [pc EXCEPT ![a] = "complete"]
      /\ UNCHANGED <<waiters, cancelled, intent, lock, asleep>>
      /\ UNCHANGED meetingVars /\ UNCHANGED pollVars
  BY ThreadNames DEF Notify, Calls, Enters, Goes, answerVars, meetingVars, pollVars, memoryVars, registryVars, messageVars, driverVars, historyVars
<1>2. queues[l] \in Seq(Nat) /\ Ascending(queues[l]) /\ Len(queues[l]) \in Nat
  BY <1>0, LenProperties DEF TypeOK, Queued
<1>3. c \in 0..Len(queues[l])
  BY <1>2
<1> HIDE DEF c
<1>4. /\ taken \in Seq(Nat) /\ Len(taken) = c
      /\ \A i \in 1..c : taken[i] = queues[l][i]
      /\ ToSet(taken) = {queues[l][i] : i \in 1..c}
      /\ SubSeq(queues[l], c + 1, Len(queues[l])) \in Seq(Nat)
      /\ Ascending(SubSeq(queues[l], c + 1, Len(queues[l])))
      /\ ToSet(SubSeq(queues[l], c + 1, Len(queues[l]))) = ToSet(queues[l]) \ {queues[l][i] : i \in 1..c}
      /\ {queues[l][i] : i \in 1..c} \subseteq ToSet(queues[l])
      /\ c = Len(queues[l]) => SubSeq(queues[l], c + 1, Len(queues[l])) = <<>>
  BY <1>2, <1>3, SplitQueue
<1> HIDE DEF taken
<1>5. PICK R : R = ToSet(taken)
  OBVIOUS
<1>6. /\ R \subseteq ToSet(queues[l]) /\ R \in SUBSET Ids
      /\ \A id \in R : Registered(id) /\ waiters[id].at = l
  <2>1. R \subseteq ToSet(queues[l])
    BY <1>4, <1>5
  <2>2. \A id \in ToSet(queues[l]) : id \in Ids /\ waiters[id].at = l
    BY <1>0 DEF Queued
  <2>3. QED
    BY <2>1, <2>2 DEF Registered
<1>7. /\ queues' \in [Locations -> Seq(Nat)]
      /\ queues'[l] = SubSeq(queues[l], c + 1, Len(queues[l]))
      /\ \A k \in Locations \ {l} : queues'[k] = queues[k]
  BY <1>0, <1>1, <1>4 DEF TypeOK
<1>8. \A k \in Locations : /\ Ascending(queues'[k])
                           /\ ToSet(queues'[k]) = ToSet(queues[k]) \ R
                           /\ cancelled' => queues'[k] = <<>>
  <2>1. ASSUME NEW k \in Locations
        PROVE  /\ Ascending(queues'[k])
               /\ ToSet(queues'[k]) = ToSet(queues[k]) \ R
               /\ cancelled' => queues'[k] = <<>>
    <3>1. CASE k = l
      <4>1. ASSUME cancelled PROVE queues'[k] = <<>>
        <5>1. queues[l] = <<>> /\ Len(<<>>) = 0
          BY <1>0, <4>1, EmptySeq DEF Queued
        <5>2. c = Len(queues[l])
          BY <1>3, <5>1
        <5>3. QED
          BY <1>4, <1>7, <3>1, <5>2
      <4>2. QED
        BY <1>1, <1>4, <1>5, <1>7, <3>1, <4>1
    <3>2. CASE k # l
      <4>1. queues'[k] = queues[k]
        BY <1>7, <3>2
      <4>2. \A id \in ToSet(queues[k]) : id \notin R
        BY <1>0, <1>6, <3>2 DEF Queued
      <4>3. QED
        BY <1>0, <1>1, <4>1, <4>2 DEF Queued
    <3>3. QED
      BY <3>1, <3>2
  <2>2. QED
    BY <2>1
<1>9. PICK q : q = [i \in 1..c |-> <<taken[i], "ok">>]
  OBVIOUS
<1>10. /\ DOMAIN q = 1..c /\ \A i \in 1..c : q[i][1] = taken[i] /\ q[i][2] = "ok"
       /\ q \in [1..c -> Nat \X Outcomes] /\ c \in Nat
  <2>1. \A i \in 1..c : taken[i] \in Nat
    BY <1>4, ElementOfSeq
  <2>2. QED
    BY <1>2, <1>3, <1>9, <2>1 DEF Outcomes
<1>11. q \in Seq(Nat \X Outcomes) /\ (c = 0 => q = <<>>)
  <2>1. q \in Seq(Nat \X Outcomes)
    BY <1>10, SeqDef
  <2>2. ASSUME c = 0, q # <<>> PROVE FALSE
    <3>1. Len(q) \in Nat \ {0} /\ DOMAIN q = 1..Len(q)
      BY <2>1, <2>2, EmptySeq, LenProperties
    <3>2. 1 \in 1..Len(q) /\ 1 \notin 1..0
      BY <3>1
    <3>3. QED
      BY <1>10, <2>2, <3>1, <3>2
  <2>3. QED
    BY <2>1, <2>2
<1>12. /\ Control' /\ Intents' /\ Sleeping' /\ Driving' /\ pc' \in [Threads -> States]
       /\ pc'[a] = "complete" \/ (pc'[a] = pc[a] /\ q = <<>>)
       /\ \A u \in Threads \ {a} : pc'[u] = pc[u]
       /\ pc'[a] \in {"complete", "script"}
  <2>1. CASE c # 0
    <3>1. pc' = [pc EXCEPT ![a] = "complete"]
      BY <1>1, <2>1
    <3>2. a = Main => pc[Main] # "start" /\ ~cancelled
      BY <1>0, <1>1 DEF Control
    <3>3. UNCHANGED <<lock, cancelled>> /\ a # Timer
      BY <1>1, ThreadNames
    <3>4. Control'
      BY <1>0, <1>1, <3>1, <3>2, <3>3, ControlMoved
    <3>5. /\ Intents' /\ Sleeping' /\ Driving'
          /\ pc' \in [Threads -> States] /\ pc'[a] = "complete"
          /\ \A u \in Threads \ {a} : pc'[u] = pc[u]
      BY <1>1, <3>1, TakerMoved
    <3>6. QED
      BY <3>4, <3>5
  <2>2. CASE c = 0
    <3>1. pc' = pc /\ q = <<>>
      BY <1>1, <1>11, <2>2
    <3>2. Control'
      BY <1>0, <1>1, <3>1 DEF Control
    <3>3. Intents'
      <4>1. \A b \in Agents : pc[b] # "publish"
        BY <1>0, <1>1, ThreadNames DEF Control
      <4>2. QED
        BY <1>1, <3>1, <4>1 DEF IInv, Intents, Ids
    <3>4. Driving'
      BY <1>0, <1>1, <3>1, DrivingKept DEF pollVars
    <3>5. Sleeping'
      <4>1. R = {}
        BY <1>4, <1>5, <2>2
      <4>2. ASSUME NEW t \in asleep, Awaits(t) PROVE Awaits(t)'
        <5>1. CASE pc[t] = "wait"
          <6>1. t \in Agents
            BY <1>0, <4>2, <5>1, ThreadNames DEF TypeOK, Sleeping
          <6>2. PICK id \in Ids : id = intent[t]
            BY <5>1, <6>1 DEF IInv, Intents
          <6>3. Registered(id) /\ waiters[id].at \in Locations
            BY <1>0, <4>2, <5>1, <6>2, WaiterFields DEF Awaits
          <6>4. Registered(id)'
            BY <1>1, <1>8, <4>1, <6>3 DEF Registered
          <6>5. QED
            BY <1>1, <3>1, <4>2, <5>1, <6>2, <6>4 DEF Awaits, Registered
        <5>2. CASE pc[t] # "wait"
          BY <1>1, <3>1, <4>2, <5>2 DEF Awaits, Addressed, meetingVars
        <5>3. QED
          BY <5>1, <5>2
      <4>3. QED
        BY <1>0, <1>1, <3>1, <4>2 DEF Sleeping
    <3>6. QED
      BY <1>0, <1>1, <3>1, <3>2, <3>3, <3>4, <3>5 DEF TypeOK
  <2>3. QED
    BY <2>1, <2>2
<1>13. Queued' /\ Answered' /\ Flying'
  <2>0. \A x : x \in R <=> \E i \in 1..c : taken[i] = x
    <3>1. \A x : x \in ToSet(taken) <=> \E i \in 1..Len(taken) : taken[i] = x
      BY <1>4, Members
    <3>2. Len(taken) = c
      BY <1>4
    <3>3. QED
      BY <1>5, <3>1, <3>2
  <2>1. \A i \in DOMAIN q : q[i][1] \in R /\ q[i][2] = "ok"
    <3>1. \A i \in 1..c : taken[i] \in R
      BY <2>0
    <3>2. QED
      BY <1>10, <3>1
  <2>2. \A i, j \in DOMAIN q : q[i][1] = q[j][1] => i = j
    <3>0. \A i \in 1..c : taken[i] = queues[l][i]
      BY <1>4
    <3>1. SUFFICES ASSUME NEW i \in 1..c, NEW j \in 1..c, queues[l][i] = queues[l][j], i # j PROVE FALSE
      BY <1>10, <3>0
    <3>2. i \in 1..Len(queues[l]) /\ j \in 1..Len(queues[l]) /\ DOMAIN queues[l] = 1..Len(queues[l])
      <4>1. \A m \in Nat : \A b \in 0..m : \A k \in 1..b : k \in 1..m
        OBVIOUS
      <4>2. i \in 1..Len(queues[l]) /\ j \in 1..Len(queues[l])
        BY <1>2, <1>3, <4>1
      <4>3. QED
        BY <1>2, <4>2, LenProperties
    <3>3. queues[l][i] \in Nat /\ queues[l][j] \in Nat
      BY <1>2, <3>2, ElementOfSeq
    <3>4. i < j \/ j < i
      BY <1>10, <3>1
    <3>5. queues[l][i] < queues[l][j] \/ queues[l][j] < queues[l][i]
      BY <1>2, <3>2, <3>4 DEF Ascending
    <3>6. QED
      BY <3>1, <3>3, <3>5
  <2>3. \A id \in R : \E i \in DOMAIN q : q[i][1] = id
    BY <1>10, <2>0
  <2>4. \A id \in Ids : Registered(id)' => sweeps'[waiters[id].at] = sweeps[waiters[id].at]
    <3>1. ASSUME NEW id \in Ids, Registered(id)', waiters[id].at = l PROVE c # Len(queues[l])
      <4>1. ASSUME c = Len(queues[l]) PROVE FALSE
        <5>1. queues'[l] = <<>>
          BY <1>4, <1>7, <4>1
        <5>2. id \in ToSet(<<>>)
          BY <1>1, <3>1, <5>1 DEF Registered
        <5>3. QED
          BY <5>2 DEF ToSet
      <4>2. QED
        BY <4>1
    <3>2. ASSUME NEW id \in Ids PROVE waiters[id].at \in Locations
      BY <1>0, <3>2, WaiterFields
    <3>3. QED
      BY <1>0, <1>1, <3>1, <3>2 DEF TypeOK
  <2>5. /\ inFlight' = [inFlight EXCEPT ![a] = q] /\ deadlines' = deadlines \ R
        /\ notified' = notified \cup R
    BY <1>1, <1>5, <1>9
  <2>6. TakesOut(a, R, "ok", q)
    BY <1>1, <1>6, <1>8, <1>12, <2>1, <2>2, <2>3, <2>4, <2>5 DEF TakesOut
  <2>7. QED
    BY <1>1, <1>6, <1>11, <2>6, TakenOut DEF Outcomes
<1>14. TypeOK'
  <2>1. inFlight' \in [Threads -> Seq(Nat \X Outcomes)]
    BY <1>0, <1>1, <1>9, <1>11 DEF TypeOK
  <2>2. deadlines' \subseteq Ids /\ notified' \subseteq Ids
    BY <1>0, <1>1, <1>5, <1>6 DEF TypeOK
  <2>3. sweeps' \in [Locations -> Nat]
    <3>1. sweeps \in [Locations -> Nat] /\ sweeps[l] + 1 \in Nat
      BY <1>0 DEF TypeOK
    <3>2. sweeps' = [sweeps EXCEPT ![l] = sweeps[l] + 1] \/ sweeps' = sweeps
      BY <1>1, <3>1
    <3>3. QED
      BY ONLY <3>1, <3>2
  <2>4. QED
    BY <1>0, <1>1, <1>7, <1>12, <2>1, <2>2, <2>3 DEF TypeOK, meetingVars, pollVars, Ids
<1>15. Meeting'
  BY <1>0, <1>1, <1>12, MeetingMoved
<1>16. QED
  BY <1>12, <1>13, <1>14, <1>15 DEF IInv

LEMMA CancelStep ==
  ASSUME IInv, Cancel
  PROVE  IInv'
<1>0. TypeOK /\ Control /\ Queued /\ Answered /\ Sleeping /\ Driving /\ Meeting
  BY DEF IInv
<1>1. /\ pc[Main] = "exit" /\ Main \notin asleep /\ Main \in Threads /\ lock = None
      /\ cancelled' = TRUE /\ deadlines' = {} /\ queues' = [l \in Locations |-> <<>>]
      /\ inFlight' = [inFlight EXCEPT ![Main] =
                        [i \in DOMAIN SetToSeq(Orphans) |-> <<SetToSeq(Orphans)[i], "unavailable">>]]
      /\ broadcast' = None /\ pc' = [pc EXCEPT ![Main] = "complete"]
      /\ UNCHANGED <<waiters, asleep, ready, addressed, received, intent, notified, sweeps, lock>>
      /\ UNCHANGED pollVars
  BY ThreadNames DEF Cancel, Enters, Goes, answerVars, meetingVars, pollVars, memoryVars, registryVars, messageVars, driverVars, historyVars
<1>2. /\ Intents' /\ Sleeping' /\ Driving'
      /\ pc' \in [Threads -> States] /\ pc'[Main] = "complete"
      /\ \A u \in Threads \ {Main} : pc'[u] = pc[u]
  BY <1>1, TakerMoved
<1>3. broadcast = None
  BY <1>0, <1>1 DEF Meeting
<1>4. PICK f : f = SetToSeq(Orphans)
  OBVIOUS
<1>5. Orphans \subseteq Ids /\ Ids \subseteq Nat /\ IsFiniteSet(Orphans)
  <2>1. Ids = 1..Len(waiters) /\ Len(waiters) \in Nat
    BY <1>0, LenProperties DEF TypeOK, Ids
  <2>2. Orphans \subseteq Ids
    BY DEF Orphans
  <2>3. IsFiniteSet(1..Len(waiters))
    BY <2>1, FS_Interval
  <2>4. IsFiniteSet(Orphans)
    BY <2>1, <2>2, <2>3, FS_Subset
  <2>5. QED
    BY <2>1, <2>2, <2>4
<1>6. /\ f \in Seq(Orphans)
      /\ \A i, j \in DOMAIN f : f[i] = f[j] => i = j
      /\ \A x \in Orphans : \E i \in DOMAIN f : f[i] = x
  BY <1>4, <1>5, ListedSet
<1>7. PICK q : q = [i \in DOMAIN f |-> <<f[i], "unavailable">>]
  OBVIOUS
<1>8. /\ DOMAIN q = DOMAIN f /\ \A i \in DOMAIN f : q[i][1] = f[i] /\ q[i][2] = "unavailable"
      /\ \A i \in DOMAIN f : f[i] \in Orphans
  BY <1>6, <1>7, LenProperties
<1>9. q \in Seq(Nat \X Outcomes)
  <2>1. DOMAIN f = 1..Len(f) /\ Len(f) \in Nat
    BY <1>6, LenProperties
  <2>2. q \in [1..Len(f) -> Nat \X Outcomes]
    BY <1>5, <1>7, <1>8, <2>1 DEF Outcomes
  <2>3. QED
    BY <2>1, <2>2, SeqDef
<1>10. PICK R \in SUBSET Ids : R = {id \in Ids : Registered(id)}
  OBVIOUS
<1>11. \A l \in Locations : queues'[l] = <<>>
  BY <1>1
<1>12. \A l \in Locations : /\ Ascending(queues'[l])
                            /\ ToSet(queues'[l]) = ToSet(queues[l]) \ R
                            /\ cancelled' => queues'[l] = <<>>
  <2>1. ASSUME NEW l \in Locations PROVE ToSet(queues[l]) \subseteq R
    BY <1>0, <1>10 DEF Queued, Registered
  <2>2. ToSet(<<>>) = {} /\ Ascending(<<>>)
    BY DEF ToSet, Ascending
  <2>3. QED
    BY <1>11, <2>1, <2>2
<1>13. Queued' /\ Answered' /\ Flying'
  <2>1. /\ \A i \in DOMAIN q : q[i][1] \in R /\ q[i][2] = "unavailable"
        /\ \A i, j \in DOMAIN q : q[i][1] = q[j][1] => i = j
        /\ \A id \in R : waiters[id].async => \E i \in DOMAIN q : q[i][1] = id
    BY <1>6, <1>8, <1>10 DEF Orphans
  <2>2. deadlines' = deadlines \ R
    <3>1. deadlines \subseteq R
      BY <1>0, <1>10 DEF TypeOK, Answered, Known
    <3>2. QED
      BY <1>1, <3>1
  <2>3. inFlight' = [inFlight EXCEPT ![Main] = q]
    BY <1>1, <1>4, <1>7
  <2>4. TakesOut(Main, R, "unavailable", q)
    BY <1>1, <1>2, <1>10, <1>12, <2>1, <2>2, <2>3 DEF TakesOut
  <2>5. QED
    BY <1>1, <1>9, <2>4, TakenOut DEF Outcomes
<1>14. TypeOK'
  <2>1. inFlight' \in [Threads -> Seq(Nat \X Outcomes)]
    BY <1>0, <1>1, <1>4, <1>7, <1>9 DEF TypeOK
  <2>2. queues' \in [Locations -> Seq(Nat)]
    BY <1>1
  <2>3. QED
    BY <1>0, <1>1, <1>2, <2>1, <2>2 DEF TypeOK, pollVars, Ids
<1>15. Control'
  <2>1. /\ \A u \in Agents : pc[u] # "publish" /\ lock # u
        /\ \A w \in Workers : pc[w] # "boot"
    BY <1>0, <1>1, ThreadNames DEF Control
  <2>2. /\ \A w \in Workers : pc'[w] = pc[w]
        /\ pc'[Timer] = pc[Timer]
    BY <1>2, ThreadNames
  <2>3. \A u \in Agents : pc'[u] # "publish"
    BY <1>2, <2>1, ThreadNames
  <2>4. QED
    BY <1>0, <1>1, <1>2, <2>1, <2>2, <2>3 DEF Control
<1>16. Meeting'
  BY <1>0, <1>1, <1>2, <1>3, MeetingMoved DEF meetingVars
<1>17. QED
  BY <1>2, <1>13, <1>14, <1>15, <1>16 DEF IInv

\* A completion is published.
LEMMA CompleteStep ==
  ASSUME IInv, NEW t \in Threads, Complete(t)
  PROVE  IInv'
<1>0. TypeOK /\ Control /\ Intents /\ Queued /\ Answered /\ Flying /\ Sleeping /\ Driving /\ Meeting
  BY DEF IInv
<1>1. PICK q : q = inFlight[t]
  OBVIOUS
<1>2. PICK e : e = Head(q)
  OBVIOUS
<1>3. PICK id : id = e[1]
  OBVIOUS
<1>4. /\ pc[t] = "complete" /\ waking[t] = None
      /\ q # <<>> /\ inFlight' = [inFlight EXCEPT ![t] = Tail(q)]
      /\ IF ~waiters[id].async \/ waiters[id].outcome # None
         THEN UNCHANGED <<waiters, waking>>
         ELSE /\ waiters' = [waiters EXCEPT ![id].outcome = e[2], ![id].waker = FALSE]
              /\ waking' = IF waiters[id].waker THEN [waking EXCEPT ![t] = waiters[id].by]
                                                ELSE waking
      /\ UNCHANGED <<queues, deadlines, notified, sweeps, cancelled, lock, pc, intent, unpolled,
                     signaled, asleep>>
      /\ UNCHANGED meetingVars
  BY <1>1, <1>2, <1>3 DEF Complete, meetingVars, memoryVars, registryVars, messageVars, driverVars, historyVars
<1>5. /\ q \in Seq(Nat \X Outcomes) /\ Len(q) \in Nat \ {0} /\ DOMAIN q = 1..Len(q)
      /\ e = q[1] /\ e \in Nat \X Outcomes
      /\ Tail(q) \in Seq(Nat \X Outcomes) /\ DOMAIN Tail(q) = 1..Len(q) - 1
      /\ \A i \in 1..Len(q) - 1 : Tail(q)[i] = q[i + 1]
  <2>1. q \in Seq(Nat \X Outcomes)
    BY <1>0, <1>1 DEF TypeOK
  <2>2. /\ Tail(q) \in Seq(Nat \X Outcomes) /\ Len(Tail(q)) = Len(q) - 1 /\ Head(q) \in Nat \X Outcomes
        /\ \A i \in 1..Len(Tail(q)) : Tail(q)[i] = q[i + 1]
    BY <1>4, <2>1, HeadTailProperties
  <2>3. Len(q) \in Nat \ {0} /\ DOMAIN q = 1..Len(q) /\ DOMAIN Tail(q) = 1..Len(Tail(q))
    BY <1>4, <2>1, <2>2, EmptySeq, LenProperties
  <2>4. QED
    BY <1>2, <2>1, <2>2, <2>3
<1>6. 1 \in DOMAIN q /\ \A i \in DOMAIN Tail(q) : i + 1 \in DOMAIN q /\ i + 1 # 1
  BY <1>5
<1>7. \A i \in DOMAIN q : i # 1 => i - 1 \in DOMAIN Tail(q) /\ q[i] = Tail(q)[i - 1]
  <2>1. \A n \in Nat : \A i \in 1..n : i # 1 => i - 1 \in 1..n - 1 /\ i - 1 + 1 = i
    OBVIOUS
  <2>2. QED
    BY <1>5, <2>1
<1>8. \A i \in DOMAIN Tail(q) : Tail(q)[i] = q[i + 1]
  BY <1>5
<1>9. inFlight'[t] = Tail(q) /\ \A u \in Threads \ {t} : inFlight'[u] = inFlight[u]
  BY <1>0, <1>4 DEF TypeOK
<1>10. Carried(e) /\ id \in Ids /\ ~Registered(id) /\ id \in Nat
  BY <1>0, <1>1, <1>3, <1>5, <1>6 DEF Flying, Carried
<1> DEFINE at(u, i) == IF u = t THEN i + 1 ELSE i
<1>11. \A u \in Threads : \A i \in DOMAIN inFlight'[u] :
         at(u, i) \in DOMAIN inFlight[u] /\ inFlight'[u][i] = inFlight[u][at(u, i)]
  BY <1>1, <1>6, <1>8, <1>9
<1>12. \A u \in Threads : \A i \in DOMAIN inFlight'[u] : inFlight'[u][i][1] # id
  <2>1. ASSUME NEW u \in Threads, NEW i \in DOMAIN inFlight'[u], inFlight'[u][i][1] = id PROVE FALSE
    <3>1. at(u, i) \in DOMAIN inFlight[u] /\ inFlight[u][at(u, i)][1] = inFlight[t][1][1]
      BY <1>1, <1>3, <1>5, <1>11, <2>1
    <3>2. u = t /\ at(u, i) = 1
      BY <1>0, <1>1, <1>6, <3>1 DEF Flying
    <3>3. QED
      BY <1>6, <1>9, <2>1, <3>2
  <2>2. QED
    BY <2>1
<1>13. \A j : j # id => (UnderWay(j) => UnderWay(j)')
  <2>1. ASSUME NEW j, j # id, NEW u \in Threads, NEW i \in DOMAIN inFlight[u], inFlight[u][i][1] = j
        PROVE  \E k \in DOMAIN inFlight'[u] : inFlight'[u][k][1] = j
    <3>1. CASE u # t
      BY <1>9, <2>1, <3>1
    <3>2. CASE u = t
      <4>1. i # 1
        BY <1>1, <1>3, <1>5, <2>1, <3>2
      <4>2. i - 1 \in DOMAIN inFlight'[t] /\ inFlight'[t][i - 1] = inFlight[t][i]
        BY <1>1, <1>7, <1>9, <2>1, <3>2, <4>1
      <4>3. QED
        BY <2>1, <3>2, <4>2
    <3>3. QED
      BY <3>1, <3>2
  <2>2. QED
    BY <2>1 DEF UnderWay
<1>14. /\ waiters' \in Seq(Waiter) /\ Ids' = Ids /\ waking' \in [Threads -> Agents \cup {None}]
       /\ \A j \in Ids : j # id => waiters'[j] = waiters[j]
       /\ \/ waiters' = waiters /\ waking' = waking /\ ~waiters[id].async
          \/ /\ waiters[id].async /\ waiters'[id].async /\ waiters'[id].outcome = e[2]
             /\ waiters'[id].by = waiters[id].by /\ waiters'[id].at = waiters[id].at
             /\ waiters'[id].open = waiters[id].open /\ waiters'[id].timed = waiters[id].timed
             /\ \A a \in Agents : Summoned(a) => Summoned(a)'
             /\ waiters[id].waker => Summoned(waiters[id].by)'
  <2>1. waiters[id].async => waiters[id].outcome = None
    BY <1>3, <1>10 DEF Carried
  <2>2. CASE ~waiters[id].async
    BY <1>0, <1>4, <2>2 DEF TypeOK, Ids
  <2>3. CASE waiters[id].async
    <3>1. waiters[id] \in Waiter /\ waiters[id].by \in Agents
      BY <1>0, <1>10, WaiterFields
    <3>2. PICK w : w = [waiters[id] EXCEPT !.outcome = e[2], !.waker = FALSE]
      OBVIOUS
    <3>3. waiters' = [waiters EXCEPT ![id] = w]
      BY <1>4, <2>1, <2>3, <3>2
    <3>4. /\ w \in Waiter /\ w.outcome = e[2] /\ w.async = waiters[id].async /\ w.by = waiters[id].by
          /\ w.at = waiters[id].at /\ w.open = waiters[id].open /\ w.timed = waiters[id].timed
      BY <1>5, <3>1, <3>2 DEF Waiter
    <3>5. /\ waiters' \in Seq(Waiter) /\ Ids' = Ids /\ waiters'[id] = w
          /\ \A j \in Ids : j # id => waiters'[j] = waiters[j]
      BY <1>0, <1>10, <3>3, <3>4, Amended
    <3>6. /\ waking' \in [Threads -> Agents \cup {None}]
          /\ \A u \in Threads \ {t} : waking'[u] = waking[u]
          /\ waiters[id].waker => waking'[t] = waiters[id].by
      BY <1>0, <1>4, <2>1, <2>3, <3>1 DEF TypeOK
    <3>7. \A a \in Agents : Summoned(a) => Summoned(a)'
      BY <1>4, <3>6, NoneAssumption, ThreadNames DEF Summoned
    <3>8. waiters[id].waker => Summoned(waiters[id].by)'
      BY <3>5, <3>4, <3>6 DEF Summoned
    <3>9. QED
      BY <2>3, <3>4, <3>5, <3>6, <3>7, <3>8
  <2>4. QED
    BY <2>2, <2>3
<1>15. \A j \in Ids : waiters'[j].at = waiters[j].at /\ (Registered(j)' <=> Registered(j))
  BY <1>4, <1>14 DEF Registered
<1>16. TypeOK'
  <2>1. inFlight' \in [Threads -> Seq(Nat \X Outcomes)]
    BY <1>0, <1>4, <1>5 DEF TypeOK
  <2>2. QED
    BY <1>0, <1>4, <1>14, <2>1 DEF TypeOK, meetingVars
<1>17. Control'
  BY <1>0, <1>4 DEF Control
<1>18. Intents'
  <2>1. ASSUME NEW b \in Agents, pc[b] = "wait"
        PROVE  intent[b] \in Ids' /\ waiters'[intent[b]] = waiters[intent[b]]
    BY <1>0, <1>14, <2>1 DEF Intents
  <2>2. QED
    BY <1>0, <1>4, <2>1 DEF Intents
<1>19. Queued'
  BY <1>0, <1>4, <1>14, <1>15 DEF Queued
<1>20. Answered'
  <2>1. Known(id)'
    <3>1. Known(id) /\ ~Registered(id)'
      BY <1>0, <1>10, <1>15 DEF Answered
    <3>2. CASE waiters' = waiters /\ ~waiters[id].async
      BY <1>4, <1>10, <3>1, <3>2 DEF Known
    <3>3. CASE /\ waiters[id].async /\ waiters'[id].async /\ waiters'[id].outcome = e[2]
               /\ waiters'[id].open = waiters[id].open /\ waiters'[id].timed = waiters[id].timed
      <4>1. e[2] # None
        BY <1>5, NoneAssumption
      <4>2. /\ e[2] = "ok" => id \in notified
            /\ e[2] = "timed-out" => id \notin notified
            /\ e[2] = "unavailable" => cancelled
        BY <1>3, <1>10 DEF Carried
      <4>3. QED
        BY <1>4, <1>10, <3>1, <3>3, <4>1, <4>2 DEF Known
    <3>4. QED
      BY <1>14, <3>2, <3>3
  <2>2. ASSUME NEW j \in Ids, j # id PROVE Known(j)'
    <3>1. Known(j) /\ waiters'[j] = waiters[j] /\ (Registered(j)' <=> Registered(j))
      BY <1>0, <1>14, <1>15, <2>2 DEF Answered
    <3>2. UnderWay(j) => UnderWay(j)'
      BY <1>13, <2>2
    <3>3. QED
      BY <1>0, <1>4, <3>1, <3>2, KnownKept
  <2>3. QED
    BY <1>14, <2>1, <2>2 DEF Answered
<1>21. Flying'
  <2>1. \A u \in Threads : pc'[u] # "complete" => inFlight'[u] = <<>>
    BY <1>0, <1>4, <1>9 DEF Flying
  <2>2. ASSUME NEW u \in Threads, NEW i \in DOMAIN inFlight'[u], NEW x, x = inFlight'[u][i]
        PROVE  Carried(x)'
    <3>1. Carried(x) /\ x[1] # id /\ x[1] \in Ids
      BY <1>0, <1>11, <1>12, <2>2 DEF Flying, Carried
    <3>2. QED
      BY <1>4, <1>14, <1>15, <3>1, CarriedKept
  <2>3. ASSUME NEW u \in Threads, NEW i \in DOMAIN inFlight'[u] PROVE Carried(inFlight[u][i])'
    <3>1. PICK x : x = inFlight'[u][i]
      OBVIOUS
    <3>2. Carried(x)'
      BY <2>2, <2>3, <3>1
    <3>3. QED
      BY <3>1, <3>2
  <2>4. ASSUME NEW u \in Threads, NEW v \in Threads, NEW i \in DOMAIN inFlight'[u],
               NEW j \in DOMAIN inFlight'[v], inFlight'[u][i][1] = inFlight'[v][j][1]
        PROVE  u = v /\ i = j
    <3>1. u = v /\ at(u, i) = at(v, j)
      BY <1>0, <1>11, <2>4 DEF Flying
    <3>2. CASE u # t
      BY <3>1, <3>2
    <3>3. CASE u = t
      <4>1. i \in 1..Len(q) - 1 /\ j \in 1..Len(q) - 1 /\ i + 1 = j + 1
        BY <1>5, <1>9, <2>4, <3>1, <3>3
      <4>2. QED
        BY <1>5, <3>1, <4>1
    <3>4. QED
      BY <3>2, <3>3
  <2>5. QED
    BY <2>1, <2>3, <2>4 DEF Flying
<1>22. Sleeping'
  BY <1>0, <1>4 DEF Sleeping
<1>23. Driving'
  <2>1. ASSUME NEW a \in Agents PROVE Handles(a)' = Handles(a)
    BY <1>14 DEF Handles
  <2>2. ASSUME NEW a \in Agents, pc[a] \in {"poll", "park"}, ~Summoned(a)',
               NEW j \in Handles(a) \ unpolled[a]
        PROVE  waiters'[j].outcome = None /\ waiters'[j].waker
    <3>0. waiters' = waiters /\ waking' = waking => (Summoned(a)' <=> Summoned(a))
      BY <1>4 DEF Summoned
    <3>1. ~Summoned(a) /\ (j = id => waiters' = waiters \/ ~waiters[id].waker)
      BY <1>14, <2>2, <3>0 DEF Handles
    <3>2. waiters[j].outcome = None /\ waiters[j].waker /\ j \in Ids
      BY <1>0, <2>2, <3>1 DEF Driving, Handles
    <3>3. QED
      BY <1>14, <3>1, <3>2
  <2>3. QED
    BY <1>0, <1>4, <2>1, <2>2 DEF Driving
<1>24. Meeting'
  BY <1>0, <1>4, MeetingKept
<1>25. QED
  BY <1>16, <1>17, <1>18, <1>19, <1>20, <1>21, <1>22, <1>23, <1>24 DEF IInv

\* A waiter is published.
LEMMA PublishStep ==
  ASSUME IInv, NEW a \in Agents, Publish(a)
  PROVE  IInv'
<1>0. TypeOK /\ Control /\ Intents /\ Queued /\ Answered /\ Flying /\ Sleeping /\ Driving /\ Meeting
  BY DEF IInv
<1>1. PICK i : i = intent[a]
  OBVIOUS
<1>2. PICK id : id = Len(waiters) + 1
  OBVIOUS
<1>3. PICK w : w = [by |-> a, at |-> i.at, async |-> i.async, timed |-> i.timed,
                    since |-> i.since, open |-> i.async, outcome |-> None, waker |-> FALSE]
  OBVIOUS
<1>4. PICK to : to = IF i.async THEN "script" ELSE "wait"
  OBVIOUS
<1>5. /\ pc[a] = "publish" /\ a \in Threads
      /\ waiters' = Append(waiters, w)
      /\ queues' = [queues EXCEPT ![i.at] = Append(queues[i.at], id)]
      /\ deadlines' = IF i.async /\ i.timed THEN deadlines \cup {id} ELSE deadlines
      /\ lock' = None
      /\ intent' = [intent EXCEPT ![a] = IF i.async THEN None ELSE id]
      /\ IF i.async THEN asleep' = {} ELSE asleep' = asleep \cup {a}
      /\ pc' = [pc EXCEPT ![a] = to]
      /\ UNCHANGED <<inFlight, cancelled, notified, sweeps>>
      /\ UNCHANGED meetingVars /\ UNCHANGED pollVars
  <2>1. queues' = [queues EXCEPT ![i.at] = Append(@, id)]
    BY <1>1, <1>2 DEF Publish
  <2>2. queues' = [queues EXCEPT ![i.at] = Append(queues[i.at], id)]
    BY <2>1
  <2>3. QED
    BY <1>1, <1>2, <1>3, <1>4, <2>2, ThreadNames DEF Publish, Goes, NotifyAll, Sleeps, meetingVars, pollVars, messageVars, historyVars
<1>6. /\ lock = a /\ ~cancelled /\ i \in Wait /\ i.since = sweeps[i.at]
      /\ \A b \in Agents : b # a => pc[b] # "publish"
  <2>1. lock = a
    BY <1>0, <1>5 DEF Control
  <2>2. QED
    BY <1>0, <1>1, <1>5, <2>1, ThreadNames DEF Control, Intents
<1>7. /\ i.at \in Locations /\ i.async \in BOOLEAN /\ i.timed \in BOOLEAN /\ i.since \in Nat
      /\ w \in Waiter /\ w.by = a /\ w.at = i.at /\ w.async = i.async /\ w.timed = i.timed
      /\ w.since = i.since /\ w.open = i.async /\ w.outcome = None
  BY <1>3, <1>6 DEF Wait, Waiter
<1>8. /\ waiters' \in Seq(Waiter) /\ Len(waiters) \in Nat /\ id \in Nat
      /\ Ids = 1..Len(waiters) /\ Ids' = Ids \cup {id} /\ id \notin Ids
      /\ waiters'[id] = w /\ \A j \in Ids : waiters'[j] = waiters[j]
      /\ \A j \in Ids : j < id /\ j \in Nat
  <2>1. waiters \in Seq(Waiter) /\ Len(waiters) \in Nat /\ Ids = 1..Len(waiters)
    BY <1>0, LenProperties DEF TypeOK, Ids
  <2>2. /\ waiters' \in Seq(Waiter) /\ Len(waiters') = Len(waiters) + 1
        /\ \A j \in 1..Len(waiters) : waiters'[j] = waiters[j]
        /\ waiters'[Len(waiters) + 1] = w
    BY <1>5, <1>7, <2>1, AppendProperties
  <2>3. Ids' = 1..Len(waiters')
    BY <2>2, LenProperties DEF Ids
  <2>4. \A m \in Nat : 1..m + 1 = (1..m) \cup {m + 1} /\ m + 1 \notin 1..m /\ m + 1 \in Nat
    OBVIOUS
  <2>5. \A j \in 1..Len(waiters) : j < Len(waiters) + 1 /\ j \in Nat
    BY <2>1
  <2>6. QED
    BY <1>2, <2>1, <2>2, <2>3, <2>4, <2>5
<1>9. /\ queues' \in [Locations -> Seq(Nat)]
      /\ \A l \in Locations : Ascending(queues'[l])
      /\ ToSet(queues'[i.at]) = ToSet(queues[i.at]) \cup {id}
      /\ \A l \in Locations : l # i.at => queues'[l] = queues[l]
  <2>1. /\ queues \in [Locations -> Seq(Nat)] /\ Ascending(queues[i.at]) /\ queues[i.at] \in Seq(Nat)
        /\ \A x \in ToSet(queues[i.at]) : x \in Ids
    BY <1>0, <1>7 DEF TypeOK, Queued
  <2>2. \A x \in ToSet(queues[i.at]) : x < id
    BY <1>8, <2>1
  <2>3. /\ Append(queues[i.at], id) \in Seq(Nat) /\ Ascending(Append(queues[i.at], id))
        /\ ToSet(Append(queues[i.at], id)) = ToSet(queues[i.at]) \cup {id}
    BY <1>8, <2>1, <2>2, AppendedQueue
  <2>4. /\ queues' \in [Locations -> Seq(Nat)]
        /\ queues'[i.at] = Append(queues[i.at], id)
        /\ \A l \in Locations : l # i.at => queues'[l] = queues[l]
    BY <1>5, <1>7, <2>1, <2>3
  <2>5. ASSUME NEW l \in Locations PROVE Ascending(queues'[l])
    BY <1>0, <2>3, <2>4 DEF Queued
  <2>6. QED
    BY <2>3, <2>4, <2>5
<1>10. Registered(id)' /\ \A j \in Ids : Registered(j)' <=> Registered(j)
  <2>1. Registered(id)'
    BY <1>7, <1>8, <1>9 DEF Registered
  <2>2. ASSUME NEW j \in Ids PROVE Registered(j)' <=> Registered(j)
    <3>1. waiters'[j] = waiters[j] /\ waiters[j].at \in Locations /\ j # id
      BY <1>0, <1>8, WaiterFields
    <3>2. j \in ToSet(queues'[waiters[j].at]) <=> j \in ToSet(queues[waiters[j].at])
      BY <1>9, <3>1
    <3>3. QED
      BY <3>1, <3>2 DEF Registered
  <2>3. QED
    BY <2>1, <2>2
<1>11. /\ pc' \in [Threads -> States] /\ pc'[a] = to /\ \A u \in Threads \ {a} : pc'[u] = pc[u]
       /\ to \in {"script", "wait"} /\ (i.async => to = "script") /\ (~i.async => to = "wait")
  BY <1>0, <1>4, <1>5 DEF TypeOK, States
<1>12. /\ DOMAIN intent' = Agents /\ \A b \in Agents : b # a => intent'[b] = intent[b]
       /\ ~i.async => intent'[a] = id
  BY <1>0, <1>5 DEF TypeOK
<1>13. TypeOK'
  <2>1. deadlines' \subseteq Ids' /\ notified' \subseteq Ids' /\ asleep' \subseteq Threads
    BY <1>0, <1>5, <1>8 DEF TypeOK
  <2>2. QED
    BY <1>0, <1>5, <1>8, <1>9, <1>11, <1>12, <2>1 DEF TypeOK, meetingVars, pollVars
<1>14. Control'
  <2>1. \A b \in Agents : pc'[b] # "publish" /\ lock' # b
    BY <1>5, <1>6, <1>11, ThreadNames
  <2>2. /\ \A v \in Workers : pc'[v] = pc[v] \/ (v = a /\ pc'[v] \in {"script", "wait"})
        /\ pc'[Main] = pc[Main] \/ (Main = a /\ pc'[Main] \in {"script", "wait"})
        /\ pc'[Timer] = pc[Timer]
    BY <1>11, ThreadNames
  <2>3. \A v \in Workers : pc'[v] = "boot" => pc[v] = "boot" /\ pc'[Main] = "start"
    BY <1>0, <1>5, <2>2 DEF Control
  <2>4. QED
    BY <1>0, <1>5, <1>6, <2>1, <2>2, <2>3 DEF Control
<1>15. Intents'
  <2>1. ASSUME NEW b \in Agents, b # a, pc[b] = "wait"
        PROVE  intent'[b] = intent[b] /\ intent[b] \in Ids' /\ waiters'[intent[b]] = waiters[intent[b]]
    BY <1>0, <1>8, <1>12, <2>1 DEF Intents
  <2>2. ASSUME NEW b \in Agents, pc'[b] = "wait"
        PROVE  /\ intent'[b] \in Ids' /\ waiters'[intent'[b]].by = b
               /\ ~waiters'[intent'[b]].async /\ waiters'[intent'[b]].outcome = None
    <3>1. CASE b = a
      <4>1. ~i.async
        BY <1>11, <2>2, <3>1
      <4>2. QED
        BY <1>7, <1>8, <1>12, <3>1, <4>1
    <3>2. CASE b # a
      <4>1. pc[b] = "wait"
        BY <1>11, <2>2, <3>2, ThreadNames
      <4>2. QED
        BY <1>0, <2>1, <3>2, <4>1 DEF Intents
    <3>3. QED
      BY <3>1, <3>2
  <2>3. \A b \in Agents : pc'[b] # "publish"
    BY <1>6, <1>11, ThreadNames
  <2>4. QED
    BY <2>2, <2>3 DEF Intents
<1>16. Queued'
  <2>1. ASSUME NEW l \in Locations, NEW j \in ToSet(queues'[l]) PROVE j \in Ids' /\ waiters'[j].at = l
    <3>1. CASE l = i.at /\ j = id
      BY <1>7, <1>8, <3>1
    <3>2. CASE ~(l = i.at /\ j = id)
      <4>1. j \in ToSet(queues[l])
        BY <1>9, <2>1, <3>2
      <4>2. QED
        BY <1>0, <1>8, <4>1 DEF Queued
    <3>3. QED
      BY <3>1, <3>2
  <2>2. QED
    BY <1>5, <1>6, <1>9, <2>1 DEF Queued
<1>17. Answered'
  <2>1. Known(id)'
    <3>1. id \notin notified /\ id \notin deadlines
      BY <1>0, <1>8 DEF TypeOK
    <3>2. ~i.async => pc'[a] = "wait" /\ intent'[a] = id
      BY <1>11, <1>12
    <3>3. None \notin {"ok", "timed-out", "unavailable"}
      BY NoneAssumption DEF Outcomes
    <3>4. id \in deadlines' <=> i.async /\ i.timed
      BY <1>5, <3>1
    <3>5. QED
      BY <1>5, <1>6, <1>7, <1>8, <1>10, <3>1, <3>2, <3>3, <3>4 DEF Known
  <2>2. ASSUME NEW j \in Ids PROVE Known(j)'
    <3>1. Known(j) /\ waiters'[j] = waiters[j] /\ (Registered(j)' <=> Registered(j)) /\ j # id
      BY <1>0, <1>8, <1>10 DEF Answered
    <3>2. UnderWay(j) => UnderWay(j)'
      BY <1>5 DEF UnderWay
    <3>3. j \in deadlines' <=> j \in deadlines
      BY <1>5, <3>1
    <3>4. \A b \in Agents : pc[b] = "wait" /\ intent[b] = j => pc'[b] = "wait" /\ intent'[b] = j
      BY <1>5, <1>11, <1>12, ThreadNames
    <3>5. QED
      BY <1>0, <1>5, <3>1, <3>2, <3>3, <3>4, KnownKept
  <2>3. QED
    BY <1>8, <2>1, <2>2 DEF Answered
<1>18. Flying'
  <2>1. \A u \in Threads : pc'[u] # "complete" => inFlight'[u] = <<>>
    BY <1>0, <1>5, <1>11 DEF Flying
  <2>2. ASSUME NEW u \in Threads, NEW k \in DOMAIN inFlight[u] PROVE Carried(inFlight[u][k])'
    <3>1. PICK e : e = inFlight[u][k]
      OBVIOUS
    <3>2. Carried(e) /\ e[1] \in Ids
      BY <1>0, <3>1 DEF Flying, Carried
    <3>3. Carried(e)'
      BY <1>5, <1>8, <1>10, <3>2, CarriedKept
    <3>4. QED
      BY <1>5, <3>1, <3>3
  <2>3. QED
    BY <1>0, <1>5, <2>1, <2>2 DEF Flying
<1>19. Sleeping'
  <2>1. CASE i.async
    BY <1>5, <2>1, SleepingWoken
  <2>2. CASE ~i.async
    <3>1. asleep' = asleep \cup {a} /\ pc'[a] = "wait" /\ intent'[a] = id
      BY <1>5, <1>11, <1>12, <2>2
    <3>2. a \notin asleep /\ a # Timer
      BY <1>0, <1>5, ThreadNames DEF Sleeping
    <3>3. Awaits(a)'
      BY <1>5, <1>6, <1>10, <3>1 DEF Awaits, Registered
    <3>4. ASSUME NEW u \in asleep, Awaits(u) PROVE Awaits(u)'
      <4>1. u \in Threads /\ u # a /\ pc'[u] = pc[u]
        BY <1>0, <1>11, <3>2 DEF TypeOK
      <4>2. CASE pc[u] = "wait"
        <5>1. u \in Agents
          BY <1>0, <4>1, <4>2, ThreadNames DEF Sleeping
        <5>2. PICK j \in Ids : j = intent[u]
          BY <1>0, <4>2, <5>1 DEF Intents
        <5>3. Registered(j)
          BY <3>4, <4>2, <5>2 DEF Awaits
        <5>4. Registered(j)' /\ intent'[u] = j
          BY <1>10, <1>12, <4>1, <5>1, <5>2, <5>3
        <5>5. QED
          BY <1>5, <1>6, <4>1, <4>2, <5>4 DEF Awaits, Registered
      <4>3. CASE pc[u] # "wait"
        BY <1>5, <3>4, <4>1, <4>3 DEF Awaits, Addressed, meetingVars
      <4>4. QED
        BY <4>2, <4>3
    <3>5. \A u \in asleep : pc'[u] = pc[u]
      BY <1>0, <1>11, <3>2 DEF TypeOK
    <3>6. (\E u \in Threads : pc'[u] = "complete") \/ (\A u \in asleep' : Awaits(u)')
      <4>1. CASE \E u \in Threads : pc[u] = "complete"
        BY <1>5, <1>11, <4>1
      <4>2. CASE \A u \in asleep : Awaits(u)
        BY <3>1, <3>3, <3>4, <4>2
      <4>3. QED
        BY <1>0, <4>1, <4>2 DEF Sleeping
    <3>7. QED
      BY <1>0, <3>1, <3>2, <3>5, <3>6 DEF Sleeping
  <2>3. QED
    BY <2>1, <2>2
<1>20. Driving'
  <2>1. ASSUME NEW b \in Agents, b # a PROVE Handles(b)' = Handles(b)
    BY <1>7, <1>8, <2>1 DEF Handles
  <2>2. ASSUME NEW b \in Agents, b # a, NEW j \in Handles(b) PROVE waiters'[j] = waiters[j]
    BY <1>8 DEF Handles
  <2>3. pc'[a] \notin {"poll", "park"} /\ unpolled[a] = {} /\ \A b \in Agents : b # a => pc'[b] = pc[b]
    BY <1>0, <1>5, <1>11, ThreadNames DEF Driving
  <2>4. UNCHANGED <<unpolled, signaled>> /\ \A b \in Agents : Summoned(b)' <=> Summoned(b)
    BY <1>5 DEF pollVars, Summoned
  <2>5. ASSUME NEW b \in Agents, b # a
        PROVE  /\ pc'[b] # "poll" => unpolled'[b] = {}
               /\ unpolled'[b] \subseteq Handles(b)'
               /\ pc'[b] \in {"poll", "park"} /\ ~Summoned(b)' =>
                    \A j \in Handles(b)' \ unpolled'[b] : waiters'[j].outcome = None /\ waiters'[j].waker
    BY <1>0, <2>1, <2>2, <2>3, <2>4, <2>5 DEF Driving
  <2>6. QED
    BY <2>3, <2>4, <2>5 DEF Driving
<1>21. Meeting'
  BY <1>0, <1>5, <1>11, MeetingMoved
<1>22. QED
  BY <1>13, <1>14, <1>15, <1>16, <1>17, <1>18, <1>19, <1>20, <1>21 DEF IInv

-----------------------------------------------------------------------------
(***************************************************************************)
(* The theorems.                                                           *)
(***************************************************************************)

LEMMA Initially ==
  ASSUME Init
  PROVE  IInv
<1> USE DEF Init
<1>1. waiters = <<>> /\ Ids = {} /\ DOMAIN <<>> = {} /\ ToSet(<<>>) = {}
  BY DEF Ids, ToSet
<1>2. /\ pc \in [Threads -> States] /\ pc[Main] = "script"
      /\ \A u \in Threads : u # Main => pc[u] = "unborn"
  BY ThreadNames DEF States
<1>3. TypeOK
  <2>1. <<>> \in Seq(Nat) /\ <<>> \in Seq(Nat \X Outcomes) /\ <<>> \in Seq(Waiter)
    BY EmptySeq
  <2>2. /\ queues \in [Locations -> Seq(Nat)] /\ sweeps \in [Locations -> Nat]
        /\ inFlight \in [Threads -> Seq(Nat \X Outcomes)]
    BY <2>1
  <2>3. /\ unpolled \in [Agents -> SUBSET Nat] /\ signaled \in [Agents -> BOOLEAN]
        /\ waking \in [Threads -> Agents \cup {None}] /\ DOMAIN intent = Agents
    OBVIOUS
  <2>4. QED
    BY <1>1, <1>2, <2>1, <2>2, <2>3 DEF TypeOK
<1>4. Control
  BY <1>2, ThreadNames DEF Control
<1>5. Intents
  BY <1>2, ThreadNames DEF Intents
<1>6. Queued
  BY <1>1 DEF Queued, Ascending
<1>7. Answered
  BY <1>1 DEF Answered
<1>8. Flying
  BY <1>1 DEF Flying
<1>9. Sleeping
  BY DEF Sleeping
<1>10. Driving
  BY <1>1, <1>2, ThreadNames DEF Driving, Handles
<1>11. Meeting
  BY DEF Meeting
<1>12. QED
  BY <1>3, <1>4, <1>5, <1>6, <1>7, <1>8, <1>9, <1>10, <1>11 DEF IInv

LEMMA ScriptStep ==
  ASSUME IInv, NEW a \in Agents, Script(a)
  PROVE  IInv'
<1>1. ASSUME NEW l \in Locations, NEW async \in BOOLEAN, NEW timed \in BOOLEAN, Compare(a, l, async, timed)
      PROVE  IInv'
  BY <1>1, CompareStep
<1>2. ASSUME NEW l \in Locations, NEW n \in {1, MaxWaiters}, Notify(a, l, n)
      PROVE  IInv'
  <2>1. n \in Nat
    BY BoundsAssumption
  <2>2. QED
    BY <1>2, <2>1, NotifyStep
<1>3. ASSUME NEW l \in Locations, Store(a, l) PROVE IInv'
  BY <1>3, StoreStep
<1>4. ASSUME EnsureTimer(a) \/ Receive(a) \/ Report(a) \/ Fails(a) \/ EndScript(a) PROVE IInv'
  BY <1>4, EnsureTimerStep, ReceiveStep, ReportStep, FailsStep, EndScriptStep
<1>5. ASSUME Leaving(a) PROVE IInv'
  <2>1. a \in Workers
    BY <1>5 DEF Leaving
  <2>2. QED
    BY <1>5, <2>1, LeavingStep
<1>6. ASSUME Broadcast \/ GetReport \/ \E w \in Workers : Start(w) PROVE IInv'
  BY <1>6, BroadcastStep, GetReportStep, StartStep
<1>7. QED
  BY <1>1, <1>2, <1>3, <1>4, <1>5, <1>6 DEF Script

LEMMA RunsStep ==
  ASSUME IInv, NEW t \in Threads, Runs(t)
  PROVE  IInv'
<1>1. ASSUME Complete(t) \/ Wake(t) \/ Completed(t) \/ Expire(t) PROVE IInv'
  BY <1>1, CompleteStep, WakeStep, CompletedStep, ExpireStep
<1>2. ASSUME TimerTurn \/ BroadcastTurn \/ Cancel \/ Join PROVE IInv'
  BY <1>2, TimerTurnStep, BroadcastTurnStep, CancelStep, JoinStep
<1>3. ASSUME t \in Agents, Publish(t) \/ WaitTurn(t) \/ BeginTurn(t) \/ EndTurn(t) \/ Unpark(t)
      PROVE  IInv'
  BY <1>3, PublishStep, WaitTurnStep, BeginTurnStep, EndTurnStep, UnparkStep
<1>4. ASSUME t \in Agents, NEW id \in unpolled[t], Poll(t, id) PROVE IInv'
  BY <1>4, PollStep
<1>5. ASSUME t \in Agents, NEW id \in Handles(t), DropHandle(t, id) PROVE IInv'
  BY <1>5, DropHandleStep
<1>6. ASSUME t \in Workers, Boot(t) \/ BootFails(t) \/ ReceiveTurn(t) \/ Finish(t) PROVE IInv'
  BY <1>6, BootStep, BootFailsStep, ReceiveTurnStep, FinishStep
<1>7. QED
  BY <1>1, <1>2, <1>3, <1>4, <1>5, <1>6 DEF Runs

LEMMA Preserved ==
  ASSUME IInv, [Next]_vars
  PROVE  IInv'
<1>1. CASE UNCHANGED vars
  BY <1>1, Unaffected DEF vars, answerVars, meetingVars, pollVars
<1>2. CASE Next
  <2>1. ASSUME NEW a \in Agents, Script(a) PROVE IInv'
    BY <2>1, ScriptStep
  <2>2. ASSUME NEW t \in Threads, Runs(t) PROVE IInv'
    BY <2>2, RunsStep
  <2>3. ASSUME NEW id \in Ids, Elapse(id) PROVE IInv'
    BY <2>3, ElapseStep
  <2>4. ASSUME NEW a \in Agents, GiveUp(a) PROVE IInv'
    BY <2>4, GiveUpStep
  <2>5. QED
    BY <1>2, <2>1, <2>2, <2>3, <2>4 DEF Next, Advances
<1>3. QED
  BY <1>1, <1>2

\* The invariant behind the two properties holds of every behaviour of the cluster,
\* whatever its agents call and however their threads interleave (agent.rs, tachyon.rs).
THEOREM Inductive == Spec => []IInv
<1>1. Init => IInv
  BY Initially
<1>2. IInv /\ [Next]_vars => IInv'
  BY Preserved
<1>3. QED
  BY <1>1, <1>2, PTL DEF Spec

\* The timer sleeps only when it has looked at every deadline.
LEMMA TimerHeeds ==
  ASSUME Heeded, [Next]_vars
  PROVE  Heeded'
<1> USE DEF Heeded
<1>1. CASE UNCHANGED vars
  BY <1>1 DEF vars
<1>2. ASSUME NEW a \in Agents, Script(a) PROVE Heeded'
  <2>1. ASSUME NEW l \in Locations, NEW async \in BOOLEAN, NEW timed \in BOOLEAN, Compare(a, l, async, timed)
        PROVE  Heeded'
    BY <2>1 DEF Compare, driverVars
  <2>2. ASSUME NEW l \in Locations, NEW n \in {1, MaxWaiters}, Notify(a, l, n) PROVE Heeded'
    BY <2>2 DEF Notify, driverVars
  <2>3. ASSUME NEW l \in Locations, Store(a, l) PROVE Heeded'
    BY <2>3 DEF Store, driverVars
  <2>4. ASSUME EnsureTimer(a) \/ Receive(a) \/ Fails(a) \/ EndScript(a) PROVE Heeded'
    BY <2>4 DEF EnsureTimer, Receive, Fails, EndScript, driverVars
  <2>5. ASSUME Report(a) \/ Leaving(a) PROVE Heeded'
    BY <2>5 DEF Report, Leaving, WorkerFinished, NotifyAll
  <2>6. ASSUME Broadcast \/ GetReport \/ \E w \in Workers : Start(w) PROVE Heeded'
    BY <2>6, ThreadNames DEF Broadcast, GetReport, Start, driverVars
  <2>7. QED
    BY <1>2, <2>1, <2>2, <2>3, <2>4, <2>5, <2>6 DEF Script
<1>3. ASSUME NEW t \in Threads, Runs(t) PROVE Heeded'
  <2>1. ASSUME Complete(t) \/ Wake(t) \/ Completed(t) \/ Expire(t) PROVE Heeded'
    BY <2>1 DEF Complete, Wake, Completed, AsleepAfter, Expire, driverVars
  <2>2. ASSUME TimerTurn PROVE Heeded'
    BY <2>2 DEF TimerTurn
  <2>3. ASSUME t \in Agents, Publish(t) \/ WaitTurn(t) PROVE Heeded'
    BY <2>3, ThreadNames DEF Publish, WaitTurn, NotifyAll, Sleeps, driverVars
  <2>4. ASSUME t \in Agents, BeginTurn(t) \/ EndTurn(t) \/ Unpark(t) PROVE Heeded'
    BY <2>4 DEF BeginTurn, EndTurn, Unpark, driverVars
  <2>5. ASSUME t \in Agents, NEW id \in unpolled[t], Poll(t, id) PROVE Heeded'
    BY <2>5 DEF Poll, NotifyAll
  <2>6. ASSUME t \in Agents, NEW id \in Handles(t), DropHandle(t, id) PROVE Heeded'
    BY <2>6 DEF DropHandle, NotifyAll
  <2>7. ASSUME BroadcastTurn \/ Cancel \/ Join PROVE Heeded'
    BY <2>7, ThreadNames DEF BroadcastTurn, Cancel, Join, Sleeps, driverVars
  <2>8. ASSUME t \in Workers, Boot(t) \/ BootFails(t) \/ ReceiveTurn(t) \/ Finish(t) PROVE Heeded'
    BY <2>8, ThreadNames DEF Boot, BootFails, ReceiveTurn, Finish, WorkerFinished, NotifyAll, Sleeps, driverVars
  <2>9. QED
    BY <1>3, <2>1, <2>2, <2>3, <2>4, <2>5, <2>6, <2>7, <2>8 DEF Runs
<1>4. ASSUME NEW id \in Ids, Elapse(id) PROVE Heeded'
  BY <1>4 DEF Elapse, driverVars
<1>5. ASSUME NEW a \in Agents, GiveUp(a) PROVE Heeded'
  BY <1>5 DEF GiveUp
<1>6. QED
  BY <1>1, <1>2, <1>3, <1>4, <1>5 DEF Next, Advances

\* A worker that acknowledges a broadcast, or leaves, is taken off its recipients.
LEMMA BroadcastAwaits ==
  ASSUME TypeOK, Awaited, [Next]_vars
  PROVE  Awaited'
<1>0. \A w \in Workers : Acknowledged(w) # None =>
         /\ broadcast # None /\ Acknowledged(w) = broadcast \ {w} /\ ~(broadcast \subseteq {w})
  BY DEF Acknowledged
<1>1. ASSUME UNCHANGED <<broadcast, ready>> PROVE Awaited'
  BY <1>1 DEF Awaited
<1>2. CASE UNCHANGED vars
  BY <1>1, <1>2 DEF vars
<1>3. ASSUME NEW w \in Workers, WorkerFinished(w) PROVE Awaited'
  BY <1>0, <1>3 DEF Awaited, WorkerFinished
<1>4. ASSUME NEW a \in Agents, Script(a) PROVE Awaited'
  <2>1. ASSUME NEW l \in Locations, NEW async \in BOOLEAN, NEW timed \in BOOLEAN, Compare(a, l, async, timed)
        PROVE  Awaited'
    BY <1>1, <2>1 DEF Compare, messageVars
  <2>2. ASSUME NEW l \in Locations, NEW n \in {1, MaxWaiters}, Notify(a, l, n) PROVE Awaited'
    BY <1>1, <2>2 DEF Notify, messageVars
  <2>3. ASSUME NEW l \in Locations, Store(a, l) PROVE Awaited'
    BY <1>1, <2>3 DEF Store, messageVars
  <2>4. ASSUME EnsureTimer(a) \/ Receive(a) \/ Fails(a) \/ EndScript(a) PROVE Awaited'
    BY <1>1, <2>4 DEF EnsureTimer, Receive, Fails, EndScript, messageVars
  <2>5. ASSUME Report(a) PROVE Awaited'
    BY <1>1, <2>5 DEF Report
  <2>6. ASSUME Leaving(a) PROVE Awaited'
    BY <1>3, <2>6 DEF Leaving
  <2>7. ASSUME Broadcast PROVE Awaited'
    BY <2>7 DEF Broadcast, Awaited
  <2>8. ASSUME GetReport \/ \E w \in Workers : Start(w) PROVE Awaited'
    BY <1>1, <2>8 DEF GetReport, Start, messageVars
  <2>9. QED
    BY <1>4, <2>1, <2>2, <2>3, <2>4, <2>5, <2>6, <2>7, <2>8 DEF Script
<1>5. ASSUME NEW t \in Threads, Runs(t) PROVE Awaited'
  <2>1. ASSUME Complete(t) \/ Wake(t) \/ Completed(t) \/ Expire(t) \/ TimerTurn PROVE Awaited'
    BY <1>1, <2>1 DEF Complete, Wake, Completed, Expire, TimerTurn, messageVars
  <2>2. ASSUME Publish(t) \/ WaitTurn(t) \/ BeginTurn(t) \/ EndTurn(t) \/ Unpark(t) PROVE Awaited'
    BY <1>1, <2>2 DEF Publish, WaitTurn, BeginTurn, EndTurn, Unpark, messageVars
  <2>3. ASSUME NEW id \in unpolled[t], Poll(t, id) PROVE Awaited'
    BY <1>1, <2>3 DEF Poll, messageVars
  <2>4. ASSUME NEW id \in Handles(t), DropHandle(t, id) PROVE Awaited'
    BY <1>1, <2>4 DEF DropHandle, messageVars
  <2>5. ASSUME BroadcastTurn \/ Join PROVE Awaited'
    BY <1>1, <2>5 DEF BroadcastTurn, Join, messageVars
  <2>6. ASSUME Cancel PROVE Awaited'
    BY <2>6 DEF Cancel, Awaited
  <2>7. ASSUME t \in Workers, Boot(t) PROVE Awaited'
    BY <2>7 DEF Boot, Awaited
  <2>8. ASSUME t \in Workers, BootFails(t) PROVE Awaited'
    BY <1>1, <2>8 DEF BootFails, messageVars
  <2>9. ASSUME t \in Workers, ReceiveTurn(t) PROVE Awaited'
    <3>1. ready' = ready /\ (broadcast' = broadcast \/ broadcast' = Acknowledged(t))
      BY <2>9 DEF ReceiveTurn
    <3>2. QED
      BY <1>0, <2>9, <3>1 DEF Awaited
  <2>10. ASSUME t \in Workers, Finish(t) PROVE Awaited'
    <3>1. UNCHANGED <<broadcast, ready>> \/ WorkerFinished(t)
      BY <2>10 DEF Finish
    <3>2. QED
      BY <1>1, <1>3, <2>10, <3>1
  <2>11. QED
    BY <1>5, <2>1, <2>2, <2>3, <2>4, <2>5, <2>6, <2>7, <2>8, <2>9, <2>10 DEF Runs
<1>6. ASSUME NEW id \in Ids, Elapse(id) PROVE Awaited'
  BY <1>1, <1>6 DEF Elapse, messageVars
<1>7. ASSUME NEW a \in Agents, GiveUp(a) PROVE Awaited'
  BY <1>1, <1>7 DEF GiveUp, messageVars
<1>8. QED
  BY <1>2, <1>4, <1>5, <1>6, <1>7 DEF Next, Advances

\* Every waiter of Atomics.wait and waitAsync is answered once, by whoever took it out of
\* its queue: notify, the timer, its own timeout or cancel (notify, run_timer_worker,
\* wait_loop and cancel in agent.rs).
THEOREM AnsweredOnce == Spec => []WaitersAnswered
<1>1. ASSUME IInv PROVE WaitersAnswered
  <2>0. TypeOK /\ Queued /\ Answered /\ Flying
    BY <1>1 DEF IInv
  <2>1. ASSUME NEW id \in Ids, UnderWay(id)
        PROVE  ~Registered(id) /\ (waiters[id].async => waiters[id].outcome = None)
    BY <2>0, <2>1 DEF UnderWay, Flying, Carried
  <2>2. ASSUME NEW id \in Ids
        PROVE  LET w == waiters[id]
                   underWay == w.async /\ \E t \in Threads : \E i \in DOMAIN inFlight[t] :
                                            inFlight[t][i][1] = id IN
               /\ w.outcome = "ok" => id \in notified
               /\ w.outcome = "timed-out" => id \notin notified
               /\ w.outcome = "unavailable" => cancelled
               /\ id \in notified => ~Registered(id)
               /\ w.async /\ w.open /\ w.outcome = None => Registered(id) \/ underWay
               /\ underWay => w.outcome = None /\ ~Registered(id)
               /\ id \in deadlines <=> w.async /\ w.timed /\ Registered(id)
               /\ Registered(id) => w.since = sweeps[w.at]
    <3>1. Known(id)
      BY <2>0 DEF Answered
    <3>2. UnderWay(id) <=> \E t \in Threads : \E i \in DOMAIN inFlight[t] : inFlight[t][i][1] = id
      BY DEF UnderWay
    <3> HIDE DEF Registered
    <3>3. QED
      BY <2>1, <3>1, <3>2 DEF Known
  <2>3. \A l \in Locations : \A i, j \in DOMAIN queues[l] : i < j => queues[l][i] < queues[l][j]
    BY <2>0 DEF Queued, Ascending
  <2>4. QED
    BY <2>2, <2>3 DEF WaitersAnswered
<1>2. QED
  BY <1>1, Inductive, PTL

\* No wake-up is lost: a thread sleeps on the condition variable, and an agent parks in its
\* driver, only while what it waits for has not happened or its waker is still on the way;
\* the timer sleeps until the first of all deadlines, and a broadcast waits for workers
\* that are still there (wait_loop, broadcast, receive, worker_finished and
\* run_timer_worker in agent.rs, DriverWake in tachyon.rs).
THEOREM NoneLost == Spec => []NoLostWakeup
<1>1. ASSUME IInv, Heeded, Awaited PROVE NoLostWakeup
  <2>0. TypeOK /\ Sleeping /\ Driving /\ Meeting
    BY <1>1 DEF IInv
  <2>1. ASSUME NEW t \in asleep
        PROVE  \/ \E u \in Threads : pc[u] = "complete"
               \/ ~cancelled /\ CASE t = Timer -> deadlines \cap unseen = {}
                                   [] pc[t] = "wait" -> Registered(intent[t])
                                   [] pc[t] = "receive" -> ~Addressed(t)
                                   [] pc[t] = "broadcast" -> broadcast # None
    <3>1. SUFFICES ASSUME ~\E u \in Threads : pc[u] = "complete"
                   PROVE  ~cancelled /\ CASE t = Timer -> deadlines \cap unseen = {}
                                           [] pc[t] = "wait" -> Registered(intent[t])
                                           [] pc[t] = "receive" -> ~Addressed(t)
                                           [] pc[t] = "broadcast" -> broadcast # None
      OBVIOUS
    <3>2. Awaits(t)
      BY <2>0, <3>1 DEF Sleeping
    <3>3. t \in Agents \/ t = Timer
      BY <2>0, ThreadNames DEF TypeOK
    <3>4. t = Timer => pc[t] = "run" /\ deadlines \cap unseen = {}
      BY <1>1, <2>0 DEF Sleeping, Heeded
    <3>5. t \in Agents => pc[t] \in {"wait", "receive", "broadcast"} /\ t # Timer
      BY <2>0, ThreadNames DEF Sleeping
    <3>6. QED
      BY <3>2, <3>3, <3>4, <3>5 DEF Awaits
  <2>2. ASSUME NEW a \in Agents, pc[a] = "park", ~signaled[a]
        PROVE  \/ \E t \in Threads : waking[t] = a
               \/ \A id \in Handles(a) : waiters[id].outcome = None
    BY <2>0, <2>2 DEF Driving, Summoned
  <2>3. IF broadcast = None THEN addressed \cap ready \subseteq received
                            ELSE broadcast # {} /\ broadcast \subseteq ready
    BY <1>1, <2>0 DEF Meeting, Awaited
  <2>4. QED
    BY <2>1, <2>2, <2>3 DEF NoLostWakeup
<1>2. Init => Heeded /\ Awaited
  BY DEF Init, Heeded, Awaited
<1>3. IInv /\ Heeded /\ Awaited /\ [Next]_vars => Heeded' /\ Awaited'
  BY TimerHeeds, BroadcastAwaits DEF IInv
<1>4. QED
  BY <1>1, <1>2, <1>3, Inductive, PTL DEF Spec

=============================================================================
