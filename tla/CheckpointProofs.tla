---------------------------- MODULE CheckpointProofs ----------------------------
(***************************************************************************)
(* Proofs about Checkpoint, for any number of scripts, jobs, waits and     *)
(* cleanup records and for every host: jobs and cleanups keep their order, *)
(* what runs is on the stack or was stranded by an error, and the step    *)
(* that ends a checkpoint leaves only what it enqueued itself.             *)
(***************************************************************************)
EXTENDS Checkpoint, SequenceTheorems, TLAPS

Modes == {"idle", "run", "throw", "checkpoint", "step"}
JobKinds == {"reaction", "thenable", "capability", "resolution", "nested"}

Flags ==
  /\ running \in BOOLEAN /\ suppress \in BOOLEAN
  /\ driverWork \in BOOLEAN /\ regular \in BOOLEAN

TypeOK ==
  /\ jobs \in Seq(Nat) /\ begun \in Seq(Nat)
  /\ collected \in Seq(Nat) /\ cleanups \in Seq(Nat) /\ cleaned \in Seq(Nat)
  /\ active \in Nat \cup {None} /\ result \in Nat \cup {None, Undefined}
  /\ frames \in Seq(Frame) /\ mode \in Modes
  /\ waits \in Nat /\ waitCount \in Nat /\ scripts \in Nat
  /\ jobCount \in Nat /\ cleanupCount \in Nat
  /\ ended \subseteq 1..scripts

\* The queues, element by element: what was begun and what waits are numbered through.
Numbered ==
  /\ jobCount = Len(begun) + Len(jobs)
  /\ \A k \in 1..Len(begun) : begun[k] = k
  /\ \A k \in 1..Len(jobs) : jobs[k] = Len(begun) + k

Recorded ==
  /\ cleanupCount = Len(cleaned) + Len(cleanups) + Len(collected)
  /\ \A k \in 1..Len(cleaned) : cleaned[k] = k
  /\ \A k \in 1..Len(cleanups) : cleanups[k] = Len(cleaned) + k
  /\ \A k \in 1..Len(collected) : collected[k] = Len(cleaned) + Len(cleanups) + k

\* The entry frame is at the bottom and nowhere else; there is at most one cleanup, for
\* the record at the front; before the first script there is nothing to do.
Stack ==
  /\ \A i \in DOMAIN frames : frames[i].kind = "entry" <=> i = 1
  /\ \A i, j \in DOMAIN frames :
       frames[i].kind = "cleanup" /\ frames[j].kind = "cleanup" => i = j
  /\ \A i \in DOMAIN frames : frames[i].kind = "cleanup" =>
       running /\ cleanups # <<>> /\ Head(cleanups) = frames[i].job
  /\ frames # <<>> => frames[1].job \in 1..scripts
  /\ frames = <<>> =>
       mode = "idle" /\ jobs = <<>> /\ active = None /\ result = None /\ waits = 0 /\ ~driverWork

\* A host that only calls execute: one callback at a time runs above the entry frame, which
\* it will resume at its return; between callbacks the slot is empty or an error left it full.
RegularStack ==
  /\ ~suppress /\ ~driverWork /\ mode # "step"
  /\ Len(frames) <= 2
  /\ mode \in {"idle", "checkpoint"} => Len(frames) <= 1
  /\ Len(frames) <= 1 => (active = None \/ active \in stranded) /\ ~running
  /\ Len(frames) = 2 =>
       /\ frames[1].pc # "body" /\ frames[2].pc # "past" /\ frames[2].site = "return"
       /\ IF frames[2].kind \in JobKinds THEN active = frames[2].job ELSE active = None
       /\ running => frames[2].kind = "cleanup"
  /\ mode = "checkpoint" => frames[1].pc # "body"
  /\ Len(frames) = 1 /\ frames[1].pc = "body" => frames[1].job \notin ended

IInv == Flags /\ TypeOK /\ Numbered /\ Recorded /\ Stack /\ (regular => RegularStack)

-----------------------------------------------------------------------------
(***************************************************************************)
(* Operations on a stack of frames.                                        *)
(***************************************************************************)
\* Two stacks differ at most in where their top frames continue.
SameButTop(fs, gs) ==
  /\ gs \in Seq(Frame) /\ Len(gs) = Len(fs)
  /\ \A i \in 1..Len(fs) :
       /\ gs[i].kind = fs[i].kind /\ gs[i].job = fs[i].job /\ gs[i].site = fs[i].site
       /\ i < Len(fs) => gs[i].pc = fs[i].pc

\* The top frame is moved on.
LEMMA MovedTop ==
  ASSUME NEW fs \in Seq(Frame), fs # <<>>, NEW p \in {"body", "return", "past"}
  PROVE  /\ SameButTop(fs, [fs EXCEPT ![Len(fs)].pc = p])
         /\ [fs EXCEPT ![Len(fs)].pc = p][Len(fs)].pc = p
<1>1. Len(fs) \in 1..Len(fs) /\ fs[Len(fs)] \in Frame
  OBVIOUS
<1>2. [fs[Len(fs)] EXCEPT !.pc = p] \in Frame
  BY <1>1 DEF Frame
<1>3. QED
  BY <1>1, <1>2 DEF SameButTop, Frame

\* The frame below a finished one continues at the site.
LEMMA ResitedTop ==
  ASSUME NEW fs \in Seq(Frame), NEW p \in {"body", "return"}
  PROVE  /\ SameButTop(fs, Resited(fs, p))
         /\ fs # <<>> => Resited(fs, p)[Len(fs)].pc = p
<1>1. CASE fs = <<>>
  BY <1>1 DEF Resited, SameButTop
<1>2. CASE fs # <<>>
  BY <1>2, MovedTop DEF Resited
<1>3. QED
  BY <1>1, <1>2

\* The top frame is popped.
LEMMA Popped ==
  ASSUME NEW fs \in Seq(Frame), fs # <<>>
  PROVE  /\ Front(fs) \in Seq(Frame) /\ Len(Front(fs)) = Len(fs) - 1
         /\ \A i \in 1..Len(fs) - 1 : Front(fs)[i] = fs[i]
<1>1. Len(fs) \in Nat /\ Len(fs) >= 1 /\ \A i \in 1..Len(fs) - 1 : fs[i] \in Frame
  BY EmptySeq
<1> DEFINE n == Len(fs) - 1
<1>2. n \in Int /\ \A i \in 1..n : fs[i] \in Frame
  BY <1>1
<1> HIDE DEF n
<1>3. /\ SubSeq(fs, 1, n) \in Seq(Frame)
      /\ Len(SubSeq(fs, 1, n)) = IF 1 <= n THEN n - 1 + 1 ELSE 0
      /\ \A i \in 1..n - 1 + 1 : SubSeq(fs, 1, n)[i] = fs[1 + i - 1]
  BY <1>2, SubSeqProperties
<1>4. /\ SubSeq(fs, 1, n) \in Seq(Frame) /\ Len(SubSeq(fs, 1, n)) = n
      /\ \A i \in 1..n : SubSeq(fs, 1, n)[i] = fs[i]
  <2>1. n \in Nat
    BY <1>1 DEF n
  <2>2. QED
    BY <1>3, <2>1
<1>5. QED
  BY <1>4 DEF n, Front

\* A frame is published.
LEMMA Published ==
  ASSUME NEW fs \in Seq(Frame), NEW f \in Frame
  PROVE  /\ Append(fs, f) \in Seq(Frame) /\ Len(Append(fs, f)) = Len(fs) + 1
         /\ \A i \in 1..Len(fs) : Append(fs, f)[i] = fs[i]
         /\ Append(fs, f)[Len(fs) + 1] = f /\ Append(fs, f) # <<>>
BY AppendProperties

-----------------------------------------------------------------------------
(***************************************************************************)
(* Operations on the queues.                                               *)
(***************************************************************************)
\* Sequences that are numbered through, one behind the other.
LEMMA NumberedConcat ==
  ASSUME NEW a \in Seq(Nat), NEW b \in Seq(Nat), \A k \in 1..Len(a) : a[k] = k,
         \A k \in 1..Len(b) : b[k] = Len(a) + k
  PROVE  /\ a \o b \in Seq(Nat) /\ Len(a \o b) = Len(a) + Len(b)
         /\ \A k \in 1..Len(a) + Len(b) : (a \o b)[k] = k
         /\ a \o b = [k \in 1..Len(a) + Len(b) |-> k]
<1>1. Len(a) \in Nat /\ Len(b) \in Nat
  OBVIOUS
<1>2. /\ a \o b \in Seq(Nat) /\ Len(a \o b) = Len(a) + Len(b)
      /\ \A k \in 1..Len(a) + Len(b) :
           (a \o b)[k] = IF k <= Len(a) THEN a[k] ELSE b[k - Len(a)]
  BY ConcatProperties
<1>3. \A k \in 1..Len(a) + Len(b) : (a \o b)[k] = k
  <2> SUFFICES ASSUME NEW k \in 1..Len(a) + Len(b) PROVE (a \o b)[k] = k
    OBVIOUS
  <2>1. CASE k <= Len(a)
    BY <1>1, <1>2, <2>1
  <2>2. CASE ~(k <= Len(a))
    <3>1. k - Len(a) \in 1..Len(b) /\ (a \o b)[k] = b[k - Len(a)]
      BY <1>1, <1>2, <2>2
    <3>2. QED
      BY <1>1, <3>1
  <2>3. QED
    BY <2>1, <2>2
<1>4. DOMAIN (a \o b) = 1..Len(a) + Len(b)
  BY <1>2, LenProperties
<1>5. QED
  <2> DEFINE c == a \o b
             n == Len(a) + Len(b)
  <2>1. c \in [1..n -> Nat] /\ \A k \in 1..n : c[k] = k
    BY <1>2, <1>3, LenProperties
  <2> HIDE DEF c, n
  <2>2. c = [k \in 1..n |-> k]
    BY <2>1
  <2>3. QED
    BY <1>2, <1>3, <2>2 DEF c, n

\* Element by element is the order that is meant.
LEMMA NumberedInOrder ==
  ASSUME TypeOK, Numbered, Recorded
  PROVE  QueuesInOrder
<1>1. begun \o jobs = [k \in 1..jobCount |-> k]
  <2>1. begun \o jobs = [k \in 1..Len(begun) + Len(jobs) |-> k]
    BY NumberedConcat DEF TypeOK, Numbered
  <2>2. QED
    BY <2>1 DEF Numbered
<1>2. cleaned \o cleanups \o collected = [k \in 1..cleanupCount |-> k]
  <2>1. /\ cleaned \o cleanups \in Seq(Nat) /\ Len(cleaned \o cleanups) = Len(cleaned) + Len(cleanups)
        /\ \A k \in 1..Len(cleaned) + Len(cleanups) : (cleaned \o cleanups)[k] = k
    BY NumberedConcat DEF TypeOK, Recorded
  <2> DEFINE done == cleaned \o cleanups
  <2>2. /\ done \in Seq(Nat) /\ collected \in Seq(Nat)
        /\ cleanupCount = Len(done) + Len(collected)
        /\ \A k \in 1..Len(done) : done[k] = k
        /\ \A k \in 1..Len(collected) : collected[k] = Len(done) + k
    BY <2>1 DEF TypeOK, Recorded
  <2> HIDE DEF done
  <2>3. done \o collected = [k \in 1..Len(done) + Len(collected) |-> k]
    BY ONLY <2>2, NumberedConcat
  <2>4. QED
    BY <2>2, <2>3 DEF done
<1>3. QED
  BY <1>1, <1>2 DEF QueuesInOrder

\* New jobs go to the end of the queue.
LEMMA PushedNumbered ==
  ASSUME TypeOK, Numbered, NEW n \in Nat
  PROVE  /\ Pushed(n) \in Seq(Nat) /\ Len(Pushed(n)) = Len(jobs) + n
         /\ \A k \in 1..Len(jobs) + n : Pushed(n)[k] = Len(begun) + k
<1> DEFINE new == [k \in 1..n |-> jobCount + k]
<1>1. new \in Seq(Nat) /\ Len(new) = n /\ \A k \in 1..n : new[k] = jobCount + k
  <2>1. new \in [1..n -> Nat] /\ \A k \in 1..n : new[k] = jobCount + k
    BY DEF TypeOK
  <2>2. QED
    BY <2>1
<1> HIDE DEF new
<1>2. jobs \in Seq(Nat) /\ jobCount = Len(begun) + Len(jobs) /\ begun \in Seq(Nat)
  BY DEF TypeOK, Numbered
<1>3. /\ jobs \o new \in Seq(Nat) /\ Len(jobs \o new) = Len(jobs) + n
      /\ \A k \in 1..Len(jobs) + n :
           (jobs \o new)[k] = IF k <= Len(jobs) THEN jobs[k] ELSE new[k - Len(jobs)]
  BY <1>1, <1>2, ConcatProperties
<1>4. ASSUME NEW k \in 1..Len(jobs) + n PROVE (jobs \o new)[k] = Len(begun) + k
  <2>1. CASE k \in 1..Len(jobs)
    BY <1>1, <1>2, <1>3, <2>1 DEF Numbered
  <2>2. CASE k \notin 1..Len(jobs)
    <3>1. (jobs \o new)[k] = new[k - Len(jobs)] /\ k - Len(jobs) \in 1..n
      BY <1>1, <1>2, <1>3, <1>4, <2>2
    <3>2. QED
      BY <1>1, <1>2, <3>1
  <2>3. QED
    BY <2>1, <2>2
<1>5. QED
  BY <1>3, <1>4 DEF Pushed, new

LEMMA EnqueueNumbered ==
  ASSUME TypeOK, Numbered, NEW n \in Nat, Enqueue(n), UNCHANGED begun
  PROVE  Numbered' /\ jobs' \in Seq(Nat) /\ jobCount' \in Nat
<1>1. /\ Pushed(n) \in Seq(Nat) /\ Len(Pushed(n)) = Len(jobs) + n
      /\ \A k \in 1..Len(jobs) + n : Pushed(n)[k] = Len(begun) + k
  BY PushedNumbered
<1>2. jobs' = Pushed(n) /\ jobCount' = jobCount + n /\ begun' = begun
  BY DEF Enqueue
<1>3. jobCount \in Nat /\ Len(begun) \in Nat /\ Len(jobs) \in Nat /\ jobCount = Len(begun) + Len(jobs)
  BY DEF TypeOK, Numbered
<1>4. jobCount' = Len(begun') + Len(jobs') /\ jobCount' \in Nat
  <2>1. Len(jobs') = Len(jobs) + n /\ begun' = begun /\ jobCount' = jobCount + n
    BY <1>1, <1>2
  <2>2. QED
    BY ONLY <1>3, <2>1, n \in Nat
<1>5. QED
  BY <1>1, <1>2, <1>4 DEF Numbered

\* begin_next takes the front.
LEMMA TakeNumbered ==
  ASSUME TypeOK, Numbered, NEW n \in Nat, TakeJob(n)
  PROVE  /\ Numbered' /\ jobs' \in Seq(Nat) /\ begun' \in Seq(Nat) /\ jobCount' \in Nat
         /\ Head(jobs) \in Nat
<1>1. /\ Pushed(n) \in Seq(Nat) /\ Len(Pushed(n)) = Len(jobs) + n
      /\ \A k \in 1..Len(jobs) + n : Pushed(n)[k] = Len(begun) + k
  BY PushedNumbered
<1>2. /\ jobs # <<>> /\ jobs' = Tail(Pushed(n)) /\ jobCount' = jobCount + n
      /\ begun' = Append(begun, Head(jobs))
  BY DEF TakeJob
<1>3. Len(jobs) \in Nat /\ Len(jobs) > 0 /\ jobs \in Seq(Nat) /\ begun \in Seq(Nat) /\ jobCount \in Nat
  BY <1>2 DEF TypeOK
<1>4. Head(jobs) = Len(begun) + 1 /\ Head(jobs) \in Nat
  BY <1>3 DEF Numbered
<1>5. begun' \in Seq(Nat) /\ Len(begun') = Len(begun) + 1 /\ \A k \in 1..Len(begun') : begun'[k] = k
  BY <1>2, <1>3, <1>4 DEF Numbered
<1>6. /\ jobs' \in Seq(Nat) /\ Len(jobs') = Len(jobs) + n - 1
      /\ \A k \in 1..Len(jobs') : jobs'[k] = Pushed(n)[k + 1]
  <2>1. Pushed(n) # <<>> /\ Len(jobs) + n \in Nat
    BY <1>1, <1>3
  <2>2. QED
    BY <1>1, <1>2, <2>1, HeadTailProperties
<1>7. \A k \in 1..Len(jobs') : jobs'[k] = Len(begun') + k
  BY <1>1, <1>3, <1>5, <1>6
<1>8. jobCount' = Len(begun') + Len(jobs') /\ jobCount' \in Nat
  <2>1. jobCount = Len(begun) + Len(jobs) /\ Len(begun) \in Nat
    BY DEF Numbered, TypeOK
  <2>2. Len(begun') = Len(begun) + 1 /\ Len(jobs') = Len(jobs) + n - 1 /\ jobCount' = jobCount + n
    BY <1>2, <1>5, <1>6
  <2>3. QED
    BY ONLY <1>3, <2>1, <2>2, n \in Nat
<1>9. QED
  BY <1>4, <1>5, <1>6, <1>7, <1>8 DEF Numbered

\* A snapshot moves the collected records behind an empty queue.
LEMMA ScheduledRecorded ==
  ASSUME TypeOK, Recorded
  PROVE  /\ Scheduled \in Seq(Nat) /\ Uncollected \in Seq(Nat)
         /\ Len(Scheduled) + Len(Uncollected) = Len(cleanups) + Len(collected)
         /\ \A k \in 1..Len(Scheduled) : Scheduled[k] = Len(cleaned) + k
         /\ \A k \in 1..Len(Uncollected) : Uncollected[k] = Len(cleaned) + Len(Scheduled) + k
<1>1. CASE cleanups = <<>>
  BY <1>1 DEF TypeOK, Recorded, Scheduled, Uncollected
<1>2. CASE cleanups # <<>>
  BY <1>2 DEF TypeOK, Recorded, Scheduled, Uncollected
<1>3. QED
  BY <1>1, <1>2

LEMMA SnapshotRecorded ==
  ASSUME TypeOK, Recorded, cleanups' = Scheduled, collected' = Uncollected,
         UNCHANGED <<cleaned, cleanupCount>>
  PROVE  Recorded' /\ cleanups' \in Seq(Nat) /\ collected' \in Seq(Nat)
<1>1. /\ Scheduled \in Seq(Nat) /\ Uncollected \in Seq(Nat)
      /\ Len(Scheduled) + Len(Uncollected) = Len(cleanups) + Len(collected)
      /\ \A k \in 1..Len(Scheduled) : Scheduled[k] = Len(cleaned) + k
      /\ \A k \in 1..Len(Uncollected) : Uncollected[k] = Len(cleaned) + Len(Scheduled) + k
  BY ScheduledRecorded
<1>2. /\ cleanupCount = Len(cleaned) + Len(cleanups) + Len(collected)
      /\ Len(cleaned) \in Nat /\ Len(cleanups) \in Nat /\ Len(collected) \in Nat
      /\ Len(Scheduled) \in Nat /\ Len(Uncollected) \in Nat
  BY <1>1 DEF TypeOK, Recorded
<1>3. cleanupCount' = Len(cleaned') + Len(cleanups') + Len(collected')
  <2>1. cleanupCount = Len(cleaned) + Len(Scheduled) + Len(Uncollected)
    <3>1. Len(Scheduled) + Len(Uncollected) = Len(cleanups) + Len(collected)
      BY <1>1
    <3>2. QED
      BY ONLY <1>2, <3>1
  <2>2. QED
    BY <2>1
<1>4. QED
  BY <1>1, <1>3 DEF Recorded

\* The record at the front is consumed.
LEMMA ConsumedRecorded ==
  ASSUME TypeOK, Recorded, NEW q \in Seq(Nat), NEW r \in Seq(Nat), q # <<>>,
         Len(q) + Len(r) = Len(cleanups) + Len(collected),
         \A k \in 1..Len(q) : q[k] = Len(cleaned) + k,
         \A k \in 1..Len(r) : r[k] = Len(cleaned) + Len(q) + k,
         cleanups' = Tail(q), collected' = r, cleaned' = Append(cleaned, Head(q)),
         UNCHANGED cleanupCount
  PROVE  /\ Recorded' /\ cleanups' \in Seq(Nat) /\ collected' \in Seq(Nat) /\ cleaned' \in Seq(Nat)
<1>1. /\ Len(q) \in Nat /\ Len(q) > 0 /\ cleaned \in Seq(Nat) /\ cleanupCount \in Nat
      /\ cleanups \in Seq(Nat) /\ collected \in Seq(Nat)
  BY DEF TypeOK
<1>2. Head(q) = Len(cleaned) + 1 /\ Head(q) \in Nat
  BY <1>1
<1>3. /\ cleaned' \in Seq(Nat) /\ Len(cleaned') = Len(cleaned) + 1
      /\ \A k \in 1..Len(cleaned') : cleaned'[k] = k
  BY <1>1, <1>2, AppendProperties, SMTT(30) DEF Recorded
<1>4. /\ cleanups' \in Seq(Nat) /\ Len(cleanups') = Len(q) - 1
      /\ \A k \in 1..Len(cleanups') : cleanups'[k] = q[k + 1]
  BY <1>1, HeadTailProperties
<1>5. \A k \in 1..Len(cleanups') : cleanups'[k] = Len(cleaned') + k
  BY <1>1, <1>3, <1>4
<1>6. /\ collected' \in Seq(Nat)
      /\ \A k \in 1..Len(collected') : collected'[k] = Len(cleaned') + Len(cleanups') + k
  BY <1>1, <1>3, <1>4
<1>7. cleanupCount' = Len(cleaned') + Len(cleanups') + Len(collected')
  <2>1. /\ cleanupCount = Len(cleaned) + Len(cleanups) + Len(collected)
        /\ Len(cleaned) \in Nat /\ Len(cleanups) \in Nat /\ Len(collected) \in Nat /\ Len(r) \in Nat
    BY <1>1 DEF Recorded
  <2>2. QED
    BY <1>1, <1>3, <1>4, <2>1
<1>8. QED
  BY <1>3, <1>4, <1>5, <1>6, <1>7 DEF Recorded

-----------------------------------------------------------------------------
(***************************************************************************)
(* Steps.                                                                  *)
(***************************************************************************)
\* The top frame of a stack that is not empty.
LEMMA TopFrame ==
  ASSUME IInv, frames # <<>>
  PROVE  /\ Len(frames) \in Nat /\ Len(frames) >= 1 /\ DOMAIN frames = 1..Len(frames)
         /\ frames \in Seq(Frame) /\ Top = frames[Len(frames)] /\ Top \in Frame
         /\ Top.kind = "entry" <=> Len(frames) = 1
         /\ frames[1].kind = "entry" /\ frames[1].job \in 1..scripts
<1>1. frames \in Seq(Frame)
  BY DEF IInv, TypeOK
<1>2. Len(frames) \in Nat /\ Len(frames) >= 1 /\ DOMAIN frames = 1..Len(frames)
  BY <1>1, EmptySeq, LenProperties
<1>3. Top = frames[Len(frames)]
  BY DEF Top, Last
<1>4. Len(frames) \in DOMAIN frames /\ Top \in Frame
  BY <1>1, <1>2, <1>3
<1>5. frames[Len(frames)].kind = "entry" <=> Len(frames) = 1
  BY <1>4 DEF IInv, Stack
<1>6. frames[1].kind = "entry" /\ frames[1].job \in 1..scripts
  BY <1>2 DEF IInv, Stack
<1>7. QED
  BY <1>1, <1>2, <1>3, <1>4, <1>5, <1>6

\* A step that keeps the kinds and jobs of the frames.
LEMMA SameStack ==
  ASSUME IInv, frames # <<>>, SameButTop(frames, frames'), UNCHANGED <<running, cleanups, scripts>>
  PROVE  /\ Stack' /\ frames' # <<>> /\ frames' \in Seq(Frame) /\ Len(frames') = Len(frames)
         /\ frames'[1].kind = frames[1].kind /\ frames'[1].job = frames[1].job
         /\ Len(frames) = 2 =>
              /\ frames'[1].pc = frames[1].pc /\ frames'[2].kind = frames[2].kind
              /\ frames'[2].job = frames[2].job /\ frames'[2].site = frames[2].site
<1>1. Len(frames) \in Nat /\ Len(frames) >= 1 /\ DOMAIN frames = 1..Len(frames)
  BY TopFrame
<1>2. frames' \in Seq(Frame) /\ Len(frames') = Len(frames)
  BY DEF SameButTop
<1>3. DOMAIN frames' = 1..Len(frames) /\ frames' # <<>>
  BY <1>1, <1>2, LenProperties, EmptySeq
<1>4. \A i \in 1..Len(frames) : frames'[i].kind = frames[i].kind /\ frames'[i].job = frames[i].job
  BY DEF SameButTop
<1>5. Stack'
  BY <1>1, <1>3, <1>4 DEF IInv, Stack
<1>6. QED
  BY <1>1, <1>2, <1>3, <1>4, <1>5 DEF SameButTop

\* Something runs: there is a frame.
LEMMA Busy == IInv /\ mode # "idle" => frames # <<>>
BY DEF IInv, Stack

\* The host executes a script: the stack is a new one.
LEMMA ExecuteIInv ==
  ASSUME IInv, NEW suppressed \in BOOLEAN, Execute(suppressed), regular' => ~suppressed,
         regular' \in BOOLEAN, regular' => regular
  PROVE  IInv'
<1> DEFINE entry == [kind |-> "entry", job |-> scripts + 1, pc |-> "body", site |-> "body"]
<1>1. /\ mode = "idle" /\ ~driverWork /\ scripts' = scripts + 1 /\ mode' = "run"
      /\ suppress' = suppressed /\ frames' = <<entry>>
      /\ UNCHANGED <<jobs, active, result, collected, cleanups, running, driverWork, waits, jobCount,
                     waitCount, cleanupCount, ended, begun, cleaned, stranded>>
  BY DEF Execute, queueVars, cleanupVars, historyVars
<1>2. /\ entry \in Frame /\ entry.kind = "entry" /\ entry.job = scripts + 1
      /\ frames' \in Seq(Frame) /\ Len(frames') = 1 /\ frames'[1] = entry /\ frames' # <<>>
      /\ DOMAIN frames' = {1}
  BY <1>1 DEF Frame, Kinds, IInv, TypeOK
<1>3. scripts + 1 \notin ended /\ ended \subseteq 1..scripts'
  BY <1>1 DEF IInv, TypeOK
<1> HIDE DEF entry
<1>4. regular' => regular /\ Len(frames) <= 1
  BY <1>1 DEF IInv, RegularStack
<1>5. Flags'
  BY <1>1, <1>2, <1>3, <1>4 DEF IInv, Flags
<1>6. TypeOK'
  BY <1>1, <1>2, <1>3, <1>4 DEF IInv, TypeOK, Modes
<1>7. Numbered'
  BY <1>1, <1>2, <1>3, <1>4 DEF IInv, Numbered
<1>8. Recorded'
  BY <1>1, <1>2, <1>3, <1>4 DEF IInv, Recorded
<1>9. Stack'
  BY <1>1, <1>2, <1>3, <1>4 DEF IInv, Stack, TypeOK
<1>10. regular' => RegularStack'
  BY <1>1, <1>2, <1>3, <1>4 DEF IInv, Stack, RegularStack, TypeOK, JobKinds
<1>11. QED
  BY <1>5, <1>6, <1>7, <1>8, <1>9, <1>10 DEF IInv

\* Steps that only change who is in control.
LEMMA ControlIInv ==
  ASSUME IInv, Drive \/ Yield \/ Stray \/ Throw \/ ThrowEntry \/ UNCHANGED <<vars>>,
         regular' => Stray \/ Throw \/ ThrowEntry \/ UNCHANGED <<vars>>,
         regular' \in BOOLEAN, regular' => regular
  PROVE  IInv'
<1>1. /\ UNCHANGED <<jobs, active, result, collected, cleanups, running, frames, waits, scripts,
                     jobCount, waitCount, cleanupCount, ended, begun, cleaned, stranded>>
      /\ mode' \in Modes
  BY DEF Drive, Yield, Stray, Throw, ThrowEntry, Terminal, vars, queueVars, cleanupVars, countVars,
         historyVars, Modes, IInv, TypeOK
<1>2. frames = <<>> => mode' = mode /\ driverWork' = driverWork
  BY DEF IInv, Stack, Drive, Yield, Stray, Throw, ThrowEntry, Terminal, vars
<1>3. regular' =>
        \/ mode' = mode
        \/ mode = "run" /\ mode' = "throw"
        \/ mode' = "idle" /\ Len(frames) <= 1
  <2>1. CASE Stray /\ regular'
    <3>1. /\ mode = "run" /\ mode' = "idle" /\ Top.pc = "past"
          /\ Len(frames) \in Nat /\ Len(frames) >= 1 /\ Top = frames[Len(frames)]
      BY <2>1, TopFrame, Busy DEF Stray
    <3>2. Len(frames) <= 2
      BY <2>1 DEF IInv, RegularStack
    <3>3. Len(frames) # 2
      BY <2>1, <3>1 DEF IInv, RegularStack
    <3>4. \A k \in Nat : k <= 2 /\ k # 2 => k <= 1
      OBVIOUS
    <3>5. QED
      BY <3>1, <3>2, <3>3, <3>4
  <2>2. CASE Throw \/ ThrowEntry \/ UNCHANGED <<vars>>
    BY <2>2, TopFrame, Busy DEF Throw, ThrowEntry, Terminal, vars
  <2>3. QED
    BY <2>1, <2>2
<1>4. /\ ~suppress => ~suppress'
      /\ ~driverWork => ~driverWork'
  BY DEF Drive, Yield, Stray, Throw, ThrowEntry, Terminal, vars
<1>5. driverWork' \in BOOLEAN /\ suppress' \in BOOLEAN
  BY DEF Drive, Yield, Stray, Throw, ThrowEntry, Terminal, vars, IInv, Flags
<1>6. Flags'
  BY <1>1, <1>2, <1>3, <1>4, <1>5 DEF IInv, Flags
<1>7. TypeOK'
  BY <1>1, <1>2, <1>3, <1>4, <1>5 DEF IInv, TypeOK
<1>8. Numbered'
  BY <1>1, <1>2, <1>3, <1>4, <1>5 DEF IInv, Numbered
<1>9. Recorded'
  BY <1>1, <1>2, <1>3, <1>4, <1>5 DEF IInv, Recorded
<1>10. Stack'
  BY <1>1, <1>2, <1>3, <1>4, <1>5 DEF IInv, Stack, TypeOK
<1>11. regular' => RegularStack'
  <2> SUFFICES ASSUME regular' PROVE RegularStack'
    OBVIOUS
  <2>1. RegularStack
    BY DEF IInv
  <2>2. ~suppress' /\ ~driverWork'
    BY <1>4, <2>1 DEF RegularStack
  <2>3. mode' # "step" /\ (mode' \in {"idle", "checkpoint"} => Len(frames) <= 1)
    BY <1>3, <2>1 DEF RegularStack
  <2>4. mode' = "checkpoint" => frames[1].pc # "body"
    BY <1>3, <2>1 DEF RegularStack
  <2>5. /\ frames' = frames /\ active' = active /\ stranded' = stranded
        /\ running' = running /\ ended' = ended
    BY <1>1
  <2>6. QED
    BY <2>1, <2>2, <2>3, <2>4, <2>5 DEF RegularStack
<1>12. QED
  BY <1>6, <1>7, <1>8, <1>9, <1>10, <1>11 DEF IInv

\* The driver settles the promise of a waiter.
LEMMA DriveWaitIInv ==
  ASSUME IInv, DriveWait,
         regular' = FALSE
  PROVE  IInv'
<1>1. /\ UNCHANGED <<active, result, collected, cleanups, running, frames, suppress, driverWork, mode,
                     scripts, waitCount, cleanupCount, ended, begun, cleaned>>
      /\ waits > 0 /\ waits' = waits - 1 /\ Enqueue(1)
  BY DEF DriveWait, cleanupVars, historyVars
<1>2. Numbered' /\ jobs' \in Seq(Nat) /\ jobCount' \in Nat
  BY <1>1, EnqueueNumbered DEF IInv
<1>3. frames # <<>>
  BY <1>1 DEF IInv, Stack
<1>4. Flags'
  BY <1>1, <1>2, <1>3 DEF IInv, Flags
<1>5. TypeOK'
  BY <1>1, <1>2, <1>3 DEF IInv, TypeOK
<1>6. Numbered'
  BY <1>1, <1>2, <1>3 DEF IInv, Numbered
<1>7. Recorded'
  BY <1>1, <1>2, <1>3 DEF IInv, Recorded
<1>8. Stack'
  BY <1>1, <1>2, <1>3 DEF IInv, Stack, TypeOK
<1>9. regular' => RegularStack'
  OBVIOUS
<1>10. QED
  BY <1>4, <1>5, <1>6, <1>7, <1>8, <1>9 DEF IInv

\* A body runs to its return.
LEMMA RunBodyIInv ==
  ASSUME IInv, NEW n \in Nat, NEW w \in 0..1, RunBody(n, w),
         regular' \in BOOLEAN, regular' => regular
  PROVE  IInv'
<1>1. /\ UNCHANGED <<active, result, collected, cleanups, running, suppress, driverWork, mode, scripts,
                     cleanupCount, begun, cleaned, stranded>>
      /\ mode = "run" /\ Top.pc = "body" /\ Enqueue(n)
      /\ waits' = waits + w /\ waitCount' = waitCount + w
      /\ frames' = [frames EXCEPT ![Len(frames)].pc = "return"]
      /\ ended' = IF Top.kind = "entry" THEN ended \cup {Top.job} ELSE ended
  BY DEF RunBody, cleanupVars
<1>2. Numbered' /\ jobs' \in Seq(Nat) /\ jobCount' \in Nat
  BY <1>1, EnqueueNumbered DEF IInv
<1>3. /\ Len(frames) \in Nat /\ Len(frames) >= 1 /\ DOMAIN frames = 1..Len(frames)
      /\ frames # <<>> /\ frames \in Seq(Frame) /\ Top = frames[Len(frames)] /\ Top \in Frame
      /\ Top.kind = "entry" <=> Len(frames) = 1
      /\ frames[1].kind = "entry" /\ frames[1].job \in 1..scripts
  BY <1>1, TopFrame, Busy
<1>4. SameButTop(frames, frames') /\ frames'[Len(frames)].pc = "return"
  BY <1>1, <1>3, MovedTop
<1>5. /\ Stack' /\ frames' # <<>> /\ frames' \in Seq(Frame) /\ Len(frames') = Len(frames)
      /\ frames'[1].kind = frames[1].kind /\ frames'[1].job = frames[1].job
      /\ Len(frames) = 2 =>
           /\ frames'[1].pc = frames[1].pc /\ frames'[2].kind = frames[2].kind
           /\ frames'[2].job = frames[2].job /\ frames'[2].site = frames[2].site
  BY <1>1, <1>3, <1>4, SameStack
<1>6. ended' \subseteq 1..scripts' /\ waits' \in Nat /\ waitCount' \in Nat
  <2>1. waits' \in Nat /\ waitCount' \in Nat
    BY <1>1 DEF IInv, TypeOK
  <2>2. ended' \subseteq 1..scripts
    BY <1>1, <1>3 DEF IInv, TypeOK
  <2>3. QED
    BY <1>1, <2>1, <2>2
<1>7. Len(frames) = 1 => frames'[1].pc = "return"
  BY <1>4
<1>8. Flags'
  BY <1>1, <1>2, <1>3, <1>4, <1>5, <1>6, <1>7 DEF IInv, Flags
<1>9. TypeOK'
  BY <1>1, <1>2, <1>5, <1>6 DEF IInv, TypeOK
<1>10. Numbered'
  BY <1>2 DEF IInv, Numbered
<1>11. Recorded'
  BY <1>1, <1>2, <1>3, <1>4, <1>5, <1>6, <1>7 DEF IInv, Recorded
<1>12. Stack'
  BY <1>5 DEF IInv, Stack, TypeOK
<1>13. regular' => RegularStack'
  BY <1>1, <1>3, <1>4, <1>5, <1>7 DEF IInv, RegularStack
<1>14. QED
  BY <1>8, <1>9, <1>10, <1>11, <1>12, <1>13 DEF IInv

\* A collection finds a dead registration.
LEMMA CollectIInv ==
  ASSUME IInv, Collect,
         regular' \in BOOLEAN, regular' => regular
  PROVE  IInv'
<1>1. /\ UNCHANGED <<jobs, active, result, cleanups, running, frames, suppress, driverWork, waits, mode,
                     scripts, jobCount, waitCount, ended, begun, cleaned, stranded>>
      /\ cleanupCount' = cleanupCount + 1 /\ collected' = Append(collected, cleanupCount + 1)
  BY DEF Collect, queueVars, historyVars
<1>2. /\ cleanupCount' \in Nat /\ collected' \in Seq(Nat) /\ Len(collected') = Len(collected) + 1
      /\ \A k \in 1..Len(collected) : collected'[k] = collected[k]
      /\ collected'[Len(collected) + 1] = cleanupCount + 1
  BY <1>1, AppendProperties DEF IInv, TypeOK
<1>3. Flags'
  BY <1>1, <1>2 DEF IInv, Flags
<1>4. TypeOK'
  BY <1>1, <1>2 DEF IInv, TypeOK
<1>5. Numbered'
  BY <1>1, <1>2 DEF IInv, Numbered
<1>6. Recorded'
  <2>1. /\ cleanupCount = Len(cleaned) + Len(cleanups) + Len(collected)
        /\ Len(cleaned) \in Nat /\ Len(cleanups) \in Nat /\ Len(collected) \in Nat
    BY DEF IInv, TypeOK, Recorded
  <2>2. \A k \in 1..Len(collected') : collected'[k] = Len(cleaned) + Len(cleanups) + k
    BY <1>2, <2>1, SMTT(30) DEF IInv, Recorded
  <2>3. QED
    BY <1>1, <1>2, <2>1, <2>2 DEF IInv, Recorded
<1>7. Stack'
  BY <1>1 DEF IInv, Stack, TypeOK
<1>8. regular' => RegularStack'
  BY <1>1 DEF IInv, RegularStack
<1>9. QED
  BY <1>3, <1>4, <1>5, <1>6, <1>7, <1>8 DEF IInv

\* The entry script returns.
LEMMA ReturnEntryIInv ==
  ASSUME IInv, ReturnEntry,
         regular' \in BOOLEAN, regular' => regular
  PROVE  IInv'
<1>1. /\ UNCHANGED <<jobs, active, result, collected, cleanups, running, waits, scripts, jobCount,
                     waitCount, cleanupCount, ended, begun, cleaned, stranded>>
      /\ mode = "run" /\ Top.kind = "entry"
      /\ frames' = [frames EXCEPT ![Len(frames)].pc = "past"]
      /\ mode' \in {"idle", "checkpoint"}
  BY DEF ReturnEntry, Terminal, queueVars, cleanupVars, countVars, historyVars
<1>2. /\ Len(frames) \in Nat /\ Len(frames) >= 1 /\ DOMAIN frames = 1..Len(frames)
      /\ frames # <<>> /\ frames \in Seq(Frame) /\ Top = frames[Len(frames)] /\ Top \in Frame
      /\ Top.kind = "entry" <=> Len(frames) = 1
  BY <1>1, TopFrame, Busy
<1>3. SameButTop(frames, frames') /\ frames'[Len(frames)].pc = "past"
  BY <1>1, <1>2, MovedTop
<1>4. /\ Stack' /\ frames' # <<>> /\ frames' \in Seq(Frame) /\ Len(frames') = Len(frames)
      /\ frames'[1].kind = frames[1].kind /\ frames'[1].job = frames[1].job
      /\ Len(frames) = 2 =>
           /\ frames'[1].pc = frames[1].pc /\ frames'[2].kind = frames[2].kind
           /\ frames'[2].job = frames[2].job /\ frames'[2].site = frames[2].site
  BY <1>1, <1>2, <1>3, SameStack
<1>5. driverWork' \in BOOLEAN /\ suppress' \in BOOLEAN
  BY DEF ReturnEntry, Terminal, IInv, Flags
<1>6. Len(frames) = 1 /\ frames'[1].pc = "past"
  BY <1>1, <1>2, <1>3
<1>7. (~driverWork => ~driverWork') /\ (~suppress => ~suppress')
  BY DEF ReturnEntry, Terminal
<1>8. Flags'
  BY <1>1, <1>5 DEF IInv, Flags
<1>9. TypeOK'
  BY <1>1, <1>4 DEF IInv, TypeOK, Modes
<1>10. Numbered'
  BY <1>1, <1>2, <1>3, <1>4, <1>5, <1>6, <1>7 DEF IInv, Numbered
<1>11. Recorded'
  BY <1>1, <1>2, <1>3, <1>4, <1>5, <1>6, <1>7 DEF IInv, Recorded
<1>12. Stack'
  BY <1>4 DEF IInv, Stack, TypeOK
<1>13. regular' => RegularStack'
  <2> SUFFICES ASSUME regular' PROVE RegularStack'
    OBVIOUS
  <2>1. RegularStack
    BY DEF IInv
  <2>2. ~suppress' /\ ~driverWork'
    BY <1>7, <2>1 DEF RegularStack
  <2>3. (active' = None \/ active' \in stranded') /\ ~running'
    BY <1>1, <1>6, <2>1 DEF RegularStack
  <2>4. Len(frames') = 1 /\ mode' # "step" /\ frames'[1].pc # "body"
    BY <1>1, <1>4, <1>6
  <2>5. QED
    BY <2>2, <2>3, <2>4 DEF RegularStack
<1>14. QED
  BY <1>8, <1>9, <1>10, <1>11, <1>12, <1>13 DEF IInv

\* A step that pops the top frame.
LEMMA PoppedStack ==
  ASSUME IInv, frames # <<>>, Top.kind # "entry", SameButTop(Front(frames), frames'),
         UNCHANGED scripts, Top.kind = "cleanup" \/ UNCHANGED <<running, cleanups>>
  PROVE  /\ Stack' /\ frames' # <<>> /\ frames' \in Seq(Frame) /\ Len(frames') = Len(frames) - 1
         /\ Len(frames) \in Nat /\ Len(frames) >= 2
         /\ frames'[1].kind = "entry" /\ frames'[1].job = frames[1].job
<1>1. /\ Len(frames) \in Nat /\ Len(frames) >= 2 /\ DOMAIN frames = 1..Len(frames)
      /\ frames \in Seq(Frame) /\ Top = frames[Len(frames)]
      /\ frames[1].kind = "entry" /\ frames[1].job \in 1..scripts
  BY TopFrame
<1>2. /\ Front(frames) \in Seq(Frame) /\ Len(Front(frames)) = Len(frames) - 1
      /\ \A i \in 1..Len(frames) - 1 : Front(frames)[i] = frames[i]
  BY <1>1, Popped
<1>3. frames' \in Seq(Frame) /\ Len(frames') = Len(frames) - 1
  BY <1>2 DEF SameButTop
<1>4. DOMAIN frames' = 1..Len(frames) - 1 /\ frames' # <<>>
  BY <1>1, <1>3, LenProperties, EmptySeq
<1>5. \A i \in 1..Len(frames) - 1 :
        frames'[i].kind = frames[i].kind /\ frames'[i].job = frames[i].job
  BY <1>2 DEF SameButTop
<1>6. ASSUME NEW i \in DOMAIN frames', frames'[i].kind = "cleanup"
      PROVE  running' /\ cleanups' # <<>> /\ Head(cleanups') = frames'[i].job
  <2>1. i \in DOMAIN frames /\ i # Len(frames) /\ frames[i].kind = "cleanup" /\ frames[i].job = frames'[i].job
    BY <1>1, <1>4, <1>5, <1>6
  <2>2. Top.kind # "cleanup"
    BY <1>1, <2>1 DEF IInv, Stack
  <2>3. running /\ cleanups # <<>> /\ Head(cleanups) = frames[i].job
    BY <2>1 DEF IInv, Stack
  <2>4. running' = running /\ cleanups' = cleanups
    BY <2>2
  <2>5. QED
    BY <2>1, <2>3, <2>4
<1>7. \A i \in 1..Len(frames) - 1 : i \in DOMAIN frames
  BY <1>1
<1>8. /\ \A i \in DOMAIN frames' : frames'[i].kind = "entry" <=> i = 1
      /\ \A i, j \in DOMAIN frames' :
           frames'[i].kind = "cleanup" /\ frames'[j].kind = "cleanup" => i = j
  BY <1>4, <1>5, <1>7 DEF IInv, Stack
<1>9. frames'[1].kind = "entry" /\ frames'[1].job = frames[1].job
  BY <1>1, <1>5
<1>10. QED
  BY <1>1, <1>3, <1>4, <1>6, <1>8, <1>9 DEF Stack

\* A step that publishes a frame.
LEMMA PublishedStack ==
  ASSUME IInv, frames # <<>>, NEW fs, SameButTop(frames, fs), NEW f \in Frame,
         frames' = Append(fs, f), f.kind # "entry", UNCHANGED scripts,
         \/ f.kind # "cleanup" /\ UNCHANGED <<running, cleanups>>
         \/ ~running /\ running' /\ cleanups' # <<>> /\ Head(cleanups') = f.job
  PROVE  /\ Stack' /\ frames' # <<>> /\ frames' \in Seq(Frame) /\ Len(frames') = Len(frames) + 1
         /\ frames'[1].kind = "entry" /\ frames'[1].job = frames[1].job /\ frames'[1].pc = fs[1].pc
         /\ frames'[Len(frames) + 1] = f
<1>1. /\ Len(frames) \in Nat /\ Len(frames) >= 1 /\ DOMAIN frames = 1..Len(frames)
      /\ frames[1].kind = "entry" /\ frames[1].job \in 1..scripts
  BY TopFrame
<1>2. /\ fs \in Seq(Frame) /\ Len(fs) = Len(frames)
      /\ \A i \in 1..Len(frames) : fs[i].kind = frames[i].kind /\ fs[i].job = frames[i].job
  BY DEF SameButTop
<1>3. /\ frames' \in Seq(Frame) /\ Len(frames') = Len(frames) + 1 /\ frames' # <<>>
      /\ \A i \in 1..Len(frames) : frames'[i] = fs[i]
      /\ frames'[Len(frames) + 1] = f
  BY <1>2, Published
<1>4. DOMAIN frames' = 1..Len(frames) + 1
  BY <1>1, <1>3, LenProperties
<1>5. \A i \in DOMAIN frames' : i \in DOMAIN frames \/ i = Len(frames) + 1
  BY <1>1, <1>4
<1>6. \A i \in DOMAIN frames : frames'[i].kind = frames[i].kind /\ frames'[i].job = frames[i].job
  BY <1>1, <1>2, <1>3
<1>7. \A i \in DOMAIN frames' : frames'[i].kind = "entry" <=> i = 1
  BY <1>1, <1>3, <1>5, <1>6 DEF IInv, Stack
<1>8. frames'[1].kind = "entry" /\ frames'[1].job = frames[1].job /\ frames'[1].pc = fs[1].pc
  BY <1>1, <1>3, <1>6
<1>9. CASE f.kind # "cleanup" /\ UNCHANGED <<running, cleanups>>
  BY <1>1, <1>3, <1>5, <1>6, <1>7, <1>8, <1>9 DEF IInv, Stack
<1>10. CASE ~running /\ running' /\ cleanups' # <<>> /\ Head(cleanups') = f.job
  <2>1. \A i \in DOMAIN frames : frames'[i].kind # "cleanup"
    BY <1>6, <1>10 DEF IInv, Stack
  <2>2. QED
    BY <1>1, <1>3, <1>5, <1>7, <1>8, <1>10, <2>1 DEF Stack
<1>11. QED
  BY <1>9, <1>10

\* A job is finished and its caller resumes at the site.
LEMMA FinishJobIInv ==
  ASSUME IInv, NEW n \in Nat, FinishJob(n), mode # "idle", Top.kind \in JobKinds,
         regular' \in BOOLEAN, regular' => regular
  PROVE  IInv'
<1>1. /\ UNCHANGED <<result, collected, cleanups, running, suppress, driverWork, waits, scripts,
                     waitCount, cleanupCount, ended, begun, cleaned>>
      /\ mode # "idle" /\ Enqueue(n) /\ active' = None /\ mode' = "run" /\ Top.kind \in JobKinds
      /\ frames' = Resited(Front(frames), Top.site)
  BY DEF FinishJob, Released, cleanupVars, historyVars
<1>2. /\ Len(frames) \in Nat /\ Len(frames) >= 1 /\ DOMAIN frames = 1..Len(frames)
      /\ frames # <<>> /\ frames \in Seq(Frame) /\ Top = frames[Len(frames)] /\ Top \in Frame
      /\ Top.kind = "entry" <=> Len(frames) = 1
  BY <1>1, TopFrame, Busy
<1>3. Top.kind # "entry" /\ Top.kind # "cleanup" /\ Top.site \in {"body", "return"}
  BY <1>1, <1>2 DEF JobKinds, Frame
<1>4. /\ Front(frames) \in Seq(Frame) /\ Len(Front(frames)) = Len(frames) - 1
      /\ \A i \in 1..Len(frames) - 1 : Front(frames)[i] = frames[i]
  BY <1>2, Popped
<1>5. /\ SameButTop(Front(frames), frames')
      /\ Front(frames) # <<>> => frames'[Len(Front(frames))].pc = Top.site
  BY <1>1, <1>3, <1>4, ResitedTop
<1>6. /\ Stack' /\ frames' # <<>> /\ frames' \in Seq(Frame) /\ Len(frames') = Len(frames) - 1
      /\ Len(frames) \in Nat /\ Len(frames) >= 2
      /\ frames'[1].kind = "entry" /\ frames'[1].job = frames[1].job
  BY <1>1, <1>2, <1>3, <1>5, PoppedStack
<1>7. Numbered' /\ jobs' \in Seq(Nat) /\ jobCount' \in Nat
  BY <1>1, EnqueueNumbered DEF IInv
<1>8. Flags'
  BY <1>1 DEF IInv, Flags
<1>9. TypeOK'
  BY <1>1, <1>6, <1>7 DEF IInv, TypeOK, Modes
<1>10. Numbered'
  BY <1>7 DEF IInv, Numbered
<1>11. Recorded'
  BY <1>1 DEF IInv, Recorded
<1>12. Stack'
  BY <1>6 DEF IInv, Stack, TypeOK
<1>13. regular' => RegularStack'
  <2> SUFFICES ASSUME regular' PROVE RegularStack'
    OBVIOUS
  <2>1. RegularStack
    BY DEF IInv
  <2>2. Len(frames) = 2 /\ frames[2] = Top
    BY <1>2, <1>6, <2>1 DEF RegularStack
  <2>3. Top.site = "return" /\ ~running
    BY <1>3, <2>1, <2>2 DEF RegularStack
  <2>4. Front(frames) # <<>> /\ Len(Front(frames)) = 1
    BY <1>4, <2>2, EmptySeq
  <2>5. Len(frames') = 1 /\ frames'[1].pc = "return"
    BY <1>5, <1>6, <2>2, <2>3, <2>4
  <2>6. ~suppress' /\ ~driverWork' /\ ~running' /\ mode' = "run" /\ active' = None
    BY <1>1, <2>1, <2>3 DEF RegularStack
  <2>7. QED
    BY <2>5, <2>6 DEF RegularStack
<1>14. QED
  BY <1>8, <1>9, <1>10, <1>11, <1>12, <1>13 DEF IInv

\* A reaction calls what settles its derived promise.
LEMMA CallToSettleIInv ==
  ASSUME IInv, NEW kind \in {"capability", "resolution", "nested"}, NEW n \in Nat,
         CallToSettle(kind, n), mode # "idle", Top.kind \in {"reaction", "nested"},
         regular' \in BOOLEAN, regular' => regular
  PROVE  IInv'
<1> DEFINE call == [Top EXCEPT !.kind = kind, !.pc = "body"]
<1>1. /\ UNCHANGED <<active, result, collected, cleanups, running, suppress, driverWork, waits,
                     scripts, waitCount, cleanupCount, ended, begun, cleaned>>
      /\ mode # "idle" /\ mode' = "run" /\ Top.kind \in {"reaction", "nested"} /\ Enqueue(n)
      /\ frames' = Append(Front(frames), call)
  BY DEF CallToSettle, cleanupVars, historyVars
<1>0. Numbered' /\ jobs' \in Seq(Nat) /\ jobCount' \in Nat
  BY <1>1, EnqueueNumbered DEF IInv
<1>2. /\ Len(frames) \in Nat /\ Len(frames) >= 1 /\ DOMAIN frames = 1..Len(frames)
      /\ frames # <<>> /\ frames \in Seq(Frame) /\ Top = frames[Len(frames)] /\ Top \in Frame
      /\ Top.kind = "entry" <=> Len(frames) = 1
  BY <1>1, TopFrame, Busy
<1>3. /\ call \in Frame /\ call.kind \in {"capability", "resolution", "nested"}
      /\ call.pc = "body" /\ call.job = Top.job /\ call.site = Top.site
  BY <1>2 DEF Frame, Kinds
<1>4. /\ Front(frames) \in Seq(Frame) /\ Len(Front(frames)) = Len(frames) - 1
      /\ \A i \in 1..Len(frames) - 1 : Front(frames)[i] = frames[i]
  BY <1>2, Popped
<1> HIDE DEF call
<1>5. /\ frames' \in Seq(Frame) /\ Len(frames') = Len(frames) /\ frames' # <<>>
      /\ \A i \in 1..Len(frames) - 1 : frames'[i] = Front(frames)[i]
      /\ frames'[Len(frames)] = call
  <2>1. /\ frames' \in Seq(Frame) /\ Len(frames') = Len(frames) - 1 + 1 /\ frames' # <<>>
        /\ \A i \in 1..Len(frames) - 1 : frames'[i] = Front(frames)[i]
        /\ frames'[Len(frames) - 1 + 1] = call
    BY <1>1, <1>3, <1>4, Published
  <2>2. QED
    BY <1>2, <2>1
<1>6. /\ DOMAIN frames' = 1..Len(frames)
      /\ \A i \in DOMAIN frames : i # Len(frames) => frames'[i] = frames[i]
  BY <1>2, <1>4, <1>5, LenProperties
<1>7. Flags'
  BY <1>1 DEF IInv, Flags
<1>8. TypeOK'
  BY <1>0, <1>1, <1>5 DEF IInv, TypeOK, Modes
<1>9. Numbered'
  BY <1>0
<1>10. Recorded'
  BY <1>1 DEF IInv, Recorded
<1>11. Stack'
  <2>1. \A i \in DOMAIN frames : frames'[i].kind = "entry" <=> frames[i].kind = "entry"
    BY <1>1, <1>2, <1>3, <1>5, <1>6
  <2>2. \A i \in DOMAIN frames : frames'[i].kind = "cleanup" => frames[i].kind = "cleanup"
    BY <1>1, <1>2, <1>3, <1>5, <1>6
  <2>3. \A i \in DOMAIN frames : frames'[i].job = frames[i].job
    BY <1>2, <1>3, <1>5, <1>6
  <2>4. 1 \in DOMAIN frames
    BY <1>2
  <2>5. /\ \A i \in DOMAIN frames' : frames'[i].kind = "entry" <=> i = 1
        /\ \A i, j \in DOMAIN frames' :
             frames'[i].kind = "cleanup" /\ frames'[j].kind = "cleanup" => i = j
    BY <1>2, <1>6, <2>1, <2>2 DEF IInv, Stack
  <2>6. ASSUME NEW i \in DOMAIN frames', frames'[i].kind = "cleanup"
        PROVE  running' /\ cleanups' # <<>> /\ Head(cleanups') = frames'[i].job
    <3>1. i \in DOMAIN frames /\ frames[i].kind = "cleanup" /\ frames'[i].job = frames[i].job
      BY <1>2, <1>6, <2>2, <2>3, <2>6
    <3>2. running /\ cleanups # <<>> /\ Head(cleanups) = frames[i].job
      BY <3>1 DEF IInv, Stack
    <3>3. QED
      BY <1>1, <3>1, <3>2
  <2>7. frames'[1].job \in 1..scripts'
    BY <1>1, <1>2, <2>3, <2>4 DEF IInv, Stack
  <2>8. QED
    BY <1>5, <2>5, <2>6, <2>7 DEF Stack
<1>12. regular' => RegularStack'
  <2> SUFFICES ASSUME regular' PROVE RegularStack'
    OBVIOUS
  <2>1. RegularStack
    BY DEF IInv
  <2>2. Len(frames) = 2 /\ frames[2] = Top /\ frames'[2] = call /\ frames'[1] = frames[1]
    <3>1. Len(frames) = 2
      BY <1>1, <1>2, <2>1 DEF RegularStack
    <3>2. QED
      BY <1>2, <1>5, <1>6, <3>1
  <2>3. active = Top.job /\ Top.site = "return" /\ ~running /\ frames[1].pc # "body"
    BY <1>1, <2>1, <2>2 DEF RegularStack, JobKinds
  <2>4. ~suppress' /\ ~driverWork' /\ ~running' /\ mode' = "run" /\ active' = Top.job
    BY <1>1, <2>1, <2>3 DEF RegularStack
  <2>5. /\ Len(frames') = 2 /\ frames'[1].pc # "body" /\ frames'[2].kind \in JobKinds
        /\ frames'[2].job = Top.job /\ frames'[2].site = "return" /\ frames'[2].pc # "past"
    BY <1>3, <1>5, <2>2, <2>3 DEF JobKinds
  <2>6. QED
    BY <2>4, <2>5 DEF RegularStack
<1>13. QED
  BY <1>7, <1>8, <1>9, <1>10, <1>11, <1>12 DEF IInv

\* A frame ends without resuming its caller anywhere else.
LEMMA PopIInv ==
  ASSUME IInv, NEW n \in Nat,
         \/ ReturnResume(n) \/ ThrowResume(n) \/ ThrowNested(n)
         \/ ThrowCapability \/ ReturnRefused \/ ThrowRefused,
         regular' \in BOOLEAN, regular' => regular
  PROVE  IInv'
<1>1. /\ UNCHANGED <<result, collected, cleanups, running, waits, scripts, waitCount,
                     cleanupCount, ended, begun, cleaned>>
      /\ mode # "idle" /\ frames' = Front(frames) /\ mode' \in {"run", "throw", "idle"}
      /\ \/ Top.kind = "resume" /\ active' = active
         \/ Top.kind \in JobKinds /\ active' = None
         \/ Top.kind = "nested" /\ active' = active /\ stranded' = stranded \cup {Top.job}
      /\ Enqueue(n) \/ UNCHANGED <<jobs, jobCount>>
  BY DEF ReturnResume, ThrowResume, LeaveResume, ThrowNested, ThrowCapability, ReturnRefused,
         ThrowRefused, Terminal, Released, JobKinds, queueVars, cleanupVars, countVars, historyVars
<1>0. Numbered' /\ jobs' \in Seq(Nat) /\ jobCount' \in Nat
  <2>1. CASE Enqueue(n)
    BY <1>1, <2>1, EnqueueNumbered DEF IInv
  <2>2. CASE UNCHANGED <<jobs, jobCount>>
    BY <1>1, <2>2 DEF IInv, Numbered, TypeOK
  <2>3. QED
    BY <1>1, <2>1, <2>2
<1>2. /\ Len(frames) \in Nat /\ Len(frames) >= 1 /\ DOMAIN frames = 1..Len(frames)
      /\ frames # <<>> /\ frames \in Seq(Frame) /\ Top = frames[Len(frames)] /\ Top \in Frame
      /\ Top.kind = "entry" <=> Len(frames) = 1
  BY <1>1, TopFrame, Busy
<1>3. /\ Front(frames) \in Seq(Frame) /\ Len(Front(frames)) = Len(frames) - 1
      /\ \A i \in 1..Len(frames) - 1 : Front(frames)[i] = frames[i]
  BY <1>2, Popped
<1>4. SameButTop(Front(frames), frames')
  BY <1>1, <1>3 DEF SameButTop
<1>5. /\ Stack' /\ frames' # <<>> /\ frames' \in Seq(Frame) /\ Len(frames') = Len(frames) - 1
      /\ Len(frames) \in Nat /\ Len(frames) >= 2
      /\ frames'[1].kind = "entry" /\ frames'[1].job = frames[1].job
  BY <1>1, <1>2, <1>4, PoppedStack DEF JobKinds
<1>6. /\ ~suppress => ~suppress'
      /\ ~driverWork => ~driverWork'
  BY DEF ReturnResume, ThrowResume, LeaveResume, ThrowNested, ThrowCapability, ReturnRefused,
         ThrowRefused, Terminal
<1>7. driverWork' \in BOOLEAN /\ suppress' \in BOOLEAN
  BY DEF ReturnResume, ThrowResume, LeaveResume, ThrowNested, ThrowCapability, ReturnRefused,
         ThrowRefused, Terminal, IInv, Flags
<1>8. Flags'
  BY <1>1, <1>7 DEF IInv, Flags
<1>9. TypeOK'
  <2>1. active' \in Nat \cup {None}
    BY <1>1 DEF IInv, TypeOK
  <2>2. QED
    BY <1>0, <1>1, <1>5, <2>1 DEF IInv, TypeOK, Modes
<1>10. Numbered'
  BY <1>0
<1>11. Recorded'
  BY <1>1 DEF IInv, Recorded
<1>12. Stack'
  BY <1>5 DEF IInv, Stack, TypeOK
<1>13. regular' => RegularStack'
  <2> SUFFICES ASSUME regular' PROVE RegularStack'
    OBVIOUS
  <2>1. RegularStack
    BY DEF IInv
  <2>2. Len(frames) = 2 /\ frames[2] = Top /\ frames'[1] = frames[1]
    BY <1>1, <1>2, <1>3, <1>5, <2>1 DEF RegularStack
  <2>3. (active' = None \/ active' \in stranded') /\ ~running /\ frames[1].pc # "body"
    BY <1>1, <2>1, <2>2 DEF RegularStack, JobKinds
  <2>4. ~suppress' /\ ~driverWork' /\ mode' # "step" /\ mode' # "checkpoint"
    BY <1>1, <1>6, <2>1 DEF RegularStack
  <2>5. Len(frames') = 1 /\ frames'[1].pc # "body" /\ ~running'
    BY <1>1, <1>5, <2>2, <2>3
  <2>6. QED
    BY <2>3, <2>4, <2>5 DEF RegularStack
<1>14. QED
  BY <1>8, <1>9, <1>10, <1>11, <1>12, <1>13 DEF IInv

\* A cleanup callback ends: the record at the front is consumed.
LEMMA EndCleanupIInv ==
  ASSUME IInv, ReturnCleanup \/ ThrowCleanup,
         regular' \in BOOLEAN, regular' => regular
  PROVE  IInv'
<1>1. /\ UNCHANGED <<jobs, active, result, collected, suppress, driverWork, waits, mode, scripts, jobCount,
                     waitCount, cleanupCount, ended, begun>>
      /\ mode \in {"run", "throw"} /\ Top.kind = "cleanup" /\ running' = FALSE
      /\ cleanups' = Tail(cleanups) /\ cleaned' = Append(cleaned, Head(cleanups))
      /\ frames' = Front(frames) \/ frames' = Resited(Front(frames), Top.site)
      /\ mode = "run" => frames' = Resited(Front(frames), Top.site)
  BY DEF ReturnCleanup, ThrowCleanup, CompleteCleanup, RunningAfter, FrontCompleted, queueVars, countVars
<1>2. /\ Len(frames) \in Nat /\ Len(frames) >= 1 /\ DOMAIN frames = 1..Len(frames)
      /\ frames # <<>> /\ frames \in Seq(Frame) /\ Top = frames[Len(frames)] /\ Top \in Frame
      /\ Top.kind = "entry" <=> Len(frames) = 1
  BY <1>1, TopFrame, Busy
<1>3. cleanups # <<>>
  BY <1>1, <1>2 DEF IInv, Stack
<1>4. /\ Recorded' /\ cleanups' \in Seq(Nat) /\ collected' \in Seq(Nat) /\ cleaned' \in Seq(Nat)
  BY <1>1, <1>3, ConsumedRecorded DEF IInv, Recorded, TypeOK
<1>5. /\ Front(frames) \in Seq(Frame) /\ Len(Front(frames)) = Len(frames) - 1
      /\ \A i \in 1..Len(frames) - 1 : Front(frames)[i] = frames[i]
  BY <1>2, Popped
<1>6. /\ SameButTop(Front(frames), frames')
      /\ frames' = Resited(Front(frames), Top.site) /\ Front(frames) # <<>> =>
           frames'[Len(Front(frames))].pc = Top.site
  <2>1. Top.site \in {"body", "return"}
    BY <1>2 DEF Frame
  <2>2. SameButTop(Front(frames), Front(frames))
    BY <1>5 DEF SameButTop
  <2>3. QED
    BY <1>1, <1>5, <2>1, <2>2, ResitedTop
<1>7. /\ Stack' /\ frames' # <<>> /\ frames' \in Seq(Frame) /\ Len(frames') = Len(frames) - 1
      /\ Len(frames) \in Nat /\ Len(frames) >= 2
      /\ frames'[1].kind = "entry" /\ frames'[1].job = frames[1].job
  BY <1>1, <1>2, <1>6, PoppedStack
<1>8. Flags'
  BY <1>1 DEF IInv, Flags
<1>9. TypeOK'
  BY <1>1, <1>4, <1>7 DEF IInv, TypeOK, Modes
<1>10. Numbered'
  BY <1>1 DEF IInv, Numbered
<1>11. Recorded'
  BY <1>4 DEF IInv, Recorded
<1>12. Stack'
  BY <1>7 DEF IInv, Stack, TypeOK
<1>13. regular' => RegularStack'
  <2> SUFFICES ASSUME regular' PROVE RegularStack'
    OBVIOUS
  <2>1. RegularStack
    BY DEF IInv
  <2>2. Len(frames) = 2 /\ frames[2] = Top /\ Front(frames)[1] = frames[1]
    BY <1>2, <1>5, <1>7, <2>1 DEF RegularStack
  <2>3. active = None /\ Top.site = "return" /\ frames[1].pc # "body"
    BY <1>1, <2>1, <2>2 DEF RegularStack, JobKinds
  <2>4. Front(frames) # <<>> /\ Len(Front(frames)) = 1
    BY <1>5, <2>2, EmptySeq
  <2>5. Len(frames') = 1 /\ frames'[1].pc # "body"
    BY <1>1, <1>6, <1>7, <2>2, <2>3, <2>4
  <2>6. ~suppress' /\ ~driverWork' /\ ~running' /\ mode' \in {"run", "throw"} /\ active' = None
    BY <1>1, <2>1, <2>3 DEF RegularStack
  <2>7. QED
    BY <2>5, <2>6 DEF RegularStack
<1>14. QED
  BY <1>8, <1>9, <1>10, <1>11, <1>12, <1>13 DEF IInv

\* The value that a checkpoint keeps.
LEMMA ResultType ==
  ASSUME IInv, mode # "idle"
  PROVE  CheckpointResult \in Nat \cup {None, Undefined}
<1>1. Top \in Frame
  BY TopFrame, Busy
<1>2. QED
  BY <1>1 DEF CheckpointResult, StepValue, Frame, IInv, TypeOK

\* A job begins: its frame is published.
LEMMA BeginJobIInv ==
  ASSUME IInv, NEW kind \in {"reaction", "thenable", "capability", "resolution", "nested", "resume"},
         NEW n \in Nat, BeginJob(kind, n),
         regular' \in BOOLEAN, regular' => regular
  PROVE  IInv'
<1> DEFINE job == [kind |-> kind, job |-> Head(jobs), pc |-> "body", site |-> ReturnSite]
           below == IF kind = "resume" THEN Resited(frames, ReturnSite) ELSE frames
<1>1. /\ mode \in {"checkpoint", "step"} /\ mode # "idle" /\ TakeJob(n) /\ frames' = Append(below, job)
      /\ active' = IF kind = "resume" THEN None ELSE Head(jobs)
      /\ mode' \in {"idle", "run"} /\ (mode = "checkpoint" => mode' = "run")
  BY DEF BeginJob, TakeJob, InStep, Suspended, Released
<1>2. /\ Len(frames) \in Nat /\ Len(frames) >= 1 /\ DOMAIN frames = 1..Len(frames)
      /\ frames # <<>> /\ frames \in Seq(Frame) /\ Top = frames[Len(frames)] /\ Top \in Frame
      /\ Top.kind = "entry" <=> Len(frames) = 1
  BY <1>1, TopFrame, Busy
<1>3. /\ Numbered' /\ jobs' \in Seq(Nat) /\ begun' \in Seq(Nat) /\ jobCount' \in Nat
      /\ Head(jobs) \in Nat
  BY <1>1, TakeNumbered DEF IInv
<1>4. /\ UNCHANGED <<collected, cleanups, running, waits, scripts, waitCount, cleanupCount, ended, cleaned>>
      /\ result' \in Nat \cup {None, Undefined}
  BY <1>1, ResultType DEF TakeJob, cleanupVars
<1>5. job \in Frame /\ job.kind = kind /\ job.job = Head(jobs) /\ job.site = ReturnSite /\ job.pc = "body"
  BY <1>3 DEF Frame, Kinds, ReturnSite
<1>6. ReturnSite \in {"body", "return"} /\ (mode = "checkpoint" => ReturnSite = "return")
  BY DEF ReturnSite
<1>7. /\ SameButTop(frames, below)
      /\ Len(frames) = 1 => below = frames \/ below[1].pc = ReturnSite
  <2>1. SameButTop(frames, frames)
    BY <1>2 DEF SameButTop
  <2>2. /\ SameButTop(frames, Resited(frames, ReturnSite))
        /\ Resited(frames, ReturnSite)[Len(frames)].pc = ReturnSite
    BY <1>2, <1>6, ResitedTop
  <2>3. QED
    BY <2>1, <2>2
<1> HIDE DEF job, below
<1>8. /\ Stack' /\ frames' # <<>> /\ frames' \in Seq(Frame) /\ Len(frames') = Len(frames) + 1
      /\ frames'[1].kind = "entry" /\ frames'[1].job = frames[1].job /\ frames'[1].pc = below[1].pc
      /\ frames'[Len(frames) + 1] = job
  BY <1>1, <1>2, <1>4, <1>5, <1>7, PublishedStack
<1>9. /\ suppress' = suppress /\ driverWork' \in BOOLEAN
      /\ mode = "checkpoint" /\ ~driverWork => ~driverWork'
  BY DEF BeginJob, Suspended, IInv, Flags
<1>10. Flags'
  BY <1>4, <1>9 DEF IInv, Flags
<1>11. TypeOK'
  <2>1. active' \in Nat \cup {None}
    BY <1>1, <1>3
  <2>2. mode' \in Modes
    BY <1>1 DEF Modes
  <2>3. QED
    BY <1>3, <1>4, <1>8, <2>1, <2>2 DEF IInv, TypeOK
<1>12. Numbered'
  BY <1>3 DEF IInv, Numbered
<1>13. Recorded'
  BY <1>4 DEF IInv, Recorded
<1>14. Stack'
  BY <1>8 DEF IInv, Stack, TypeOK
<1>15. regular' => RegularStack'
  <2> SUFFICES ASSUME regular' PROVE RegularStack'
    OBVIOUS
  <2>1. RegularStack
    BY DEF IInv
  <2>2. mode = "checkpoint" /\ Len(frames) = 1 /\ frames[1].pc # "body" /\ ~running
    BY <1>1, <1>2, <2>1 DEF RegularStack
  <2>3. ~suppress' /\ ~driverWork' /\ mode' = "run" /\ ~running'
    BY <1>1, <1>4, <1>9, <2>1, <2>2 DEF RegularStack
  <2>4. /\ Len(frames') = 2 /\ frames'[1].pc # "body" /\ frames'[2].kind = kind
        /\ frames'[2].job = Head(jobs) /\ frames'[2].site = "return" /\ frames'[2].pc = "body"
    BY <1>5, <1>6, <1>7, <1>8, <2>2
  <2>5. IF kind \in JobKinds THEN active' = Head(jobs) ELSE active' = None
    BY <1>1 DEF JobKinds
  <2>6. QED
    BY <2>3, <2>4, <2>5 DEF RegularStack
<1>16. QED
  BY <1>10, <1>11, <1>12, <1>13, <1>14, <1>15 DEF IInv

\* A job is done within the step, or fails.
LEMMA TakeIInv ==
  ASSUME IInv, NEW n \in Nat,
         \/ PassThrough(n) \/ CallNativeThenable(n) \/ CallNative(n) \/ AnswerImport(n)
         \/ n = 0 /\ \E r \in BOOLEAN : JobThrows(r) \/ JobFails(r),
         regular' => \/ PassThrough(n) \/ CallNativeThenable(n) \/ CallNative(n)
                     \/ n = 0 /\ \E r \in BOOLEAN : JobThrows(r),
         regular' \in BOOLEAN, regular' => regular
  PROVE  IInv'
<1> USE DEF PassThrough, CallNativeThenable, CallNative, AnswerImport, JobThrows, JobFails, Leave,
            Thrown, Suspended, Progressed, Released
<1>1. /\ mode \in {"checkpoint", "step"} /\ mode # "idle" /\ TakeJob(n)
      /\ frames' = frames \/ frames' = Resited(frames, ReturnSite)
      /\ active' \in {None, Head(jobs)} /\ mode' \in {"idle", "run", "checkpoint", "throw"}
  BY DEF TakeJob, InStep
<1>0. mode = "checkpoint" /\ regular' =>
        mode' # "idle" /\ (active' = None \/ active' \in stranded')
  BY DEF TakeJob, InStep
<1>2. /\ Len(frames) \in Nat /\ Len(frames) >= 1 /\ DOMAIN frames = 1..Len(frames)
      /\ frames # <<>> /\ frames \in Seq(Frame) /\ Top = frames[Len(frames)] /\ Top \in Frame
      /\ Top.kind = "entry" <=> Len(frames) = 1
  BY <1>1, TopFrame, Busy
<1>3. /\ Numbered' /\ jobs' \in Seq(Nat) /\ begun' \in Seq(Nat) /\ jobCount' \in Nat
      /\ Head(jobs) \in Nat
  BY <1>1, TakeNumbered DEF IInv
<1>4. /\ UNCHANGED <<collected, cleanups, running, waits, scripts, waitCount, cleanupCount, ended, cleaned>>
      /\ result' \in Nat \cup {None, Undefined}
  BY <1>1, ResultType DEF TakeJob, cleanupVars
<1>5. ReturnSite \in {"body", "return"} /\ (mode = "checkpoint" => ReturnSite = "return")
  BY DEF ReturnSite
<1>6. SameButTop(frames, frames') /\ (frames' = frames \/ frames'[Len(frames)].pc = ReturnSite)
  <2>1. SameButTop(frames, frames)
    BY <1>2 DEF SameButTop
  <2>2. /\ SameButTop(frames, Resited(frames, ReturnSite))
        /\ Resited(frames, ReturnSite)[Len(frames)].pc = ReturnSite
    BY <1>2, <1>5, ResitedTop
  <2>3. QED
    BY <1>1, <2>1, <2>2
<1>7. /\ Stack' /\ frames' # <<>> /\ frames' \in Seq(Frame) /\ Len(frames') = Len(frames)
      /\ frames'[1].kind = frames[1].kind /\ frames'[1].job = frames[1].job
      /\ Len(frames) = 2 =>
           /\ frames'[1].pc = frames[1].pc /\ frames'[2].kind = frames[2].kind
           /\ frames'[2].job = frames[2].job /\ frames'[2].site = frames[2].site
  BY <1>2, <1>4, <1>6, SameStack
<1>8. suppress' \in BOOLEAN /\ driverWork' \in BOOLEAN
  BY DEF IInv, Flags
<1>9. /\ ~suppress => ~suppress'
      /\ mode = "checkpoint" /\ ~driverWork => ~driverWork'
  OBVIOUS
<1>10. Flags'
  BY <1>4, <1>8 DEF IInv, Flags
<1>11. TypeOK'
  <2>1. active' \in Nat \cup {None}
    BY <1>1, <1>3
  <2>2. mode' \in Modes
    BY <1>1 DEF Modes
  <2>3. QED
    BY <1>3, <1>4, <1>7, <2>1, <2>2 DEF IInv, TypeOK
<1>12. Numbered'
  BY <1>3 DEF IInv, Numbered
<1>13. Recorded'
  BY <1>4 DEF IInv, Recorded
<1>14. Stack'
  BY <1>7 DEF IInv, Stack, TypeOK
<1>15. regular' => RegularStack'
  <2> SUFFICES ASSUME regular' PROVE RegularStack'
    OBVIOUS
  <2>1. RegularStack
    BY DEF IInv
  <2>2. mode = "checkpoint" /\ Len(frames) = 1 /\ frames[1].pc # "body" /\ ~running
    BY <1>1, <1>2, <2>1 DEF RegularStack
  <2>3. /\ ~suppress' /\ ~driverWork' /\ ~running'
        /\ (active' = None \/ active' \in stranded') /\ mode' \in {"run", "checkpoint", "throw"}
    BY <1>0, <1>1, <1>4, <1>9, <2>1, <2>2 DEF RegularStack
  <2>4. Len(frames') = 1 /\ frames'[1].pc # "body"
    BY <1>5, <1>6, <1>7, <2>2
  <2>5. QED
    BY <2>3, <2>4 DEF RegularStack
<1>16. QED
  BY <1>10, <1>11, <1>12, <1>13, <1>14, <1>15 DEF IInv

\* There is no job: a cleanup is done within the step or fails, or the checkpoint ends.
LEMMA NoJobIInv ==
  ASSUME IInv, NEW n \in Nat,
         \/ CallNativeCleanup(n) \/ Complete(n)
         \/ n = 0 /\ (CleanupThrows \/ CleanupRefused \/ \E c \in BOOLEAN : CleanupFails(c)),
         regular' \in BOOLEAN, regular' => regular
  PROVE  IInv'
<1>1. /\ mode \in {"checkpoint", "step"} /\ mode # "idle" /\ NoJob(n) /\ frames' = frames
      /\ result' \in {None, CheckpointResult} /\ mode' \in {"idle", "checkpoint", "throw"} /\ running' = running
  BY DEF CallNativeCleanup, Complete, CleanupThrows, Thrown, CleanupRefused, CleanupFails, NoJob, InStep, Progressed, Terminal,
         ConsumeFront, cleanupVars
<1>2. /\ Len(frames) \in Nat /\ Len(frames) >= 1 /\ DOMAIN frames = 1..Len(frames)
      /\ frames # <<>> /\ frames \in Seq(Frame) /\ Top = frames[Len(frames)] /\ Top \in Frame
      /\ Top.kind = "entry" <=> Len(frames) = 1
  BY <1>1, TopFrame, Busy
<1>3. Numbered' /\ jobs' \in Seq(Nat) /\ jobCount' \in Nat
  BY <1>1, EnqueueNumbered DEF IInv, NoJob
<1>4. /\ UNCHANGED <<waits, scripts, waitCount, cleanupCount, ended, begun>> /\ active' = None
      /\ result' \in Nat \cup {None, Undefined}
  BY <1>1, ResultType DEF NoJob
<1>5. \/ UNCHANGED <<collected, cleanups, cleaned>>
      \/ ~running /\ cleanups' = Scheduled /\ collected' = Uncollected /\ cleaned' = cleaned
      \/ /\ ~running /\ Scheduled # <<>>
         /\ cleanups' = Tail(Scheduled) /\ collected' = Uncollected
         /\ cleaned' = Append(cleaned, Head(Scheduled))
  BY DEF CallNativeCleanup, Complete, CleanupThrows, Thrown, CleanupRefused, CleanupFails, ConsumeFront, cleanupVars, MayClean
<1>6. /\ Recorded' /\ cleanups' \in Seq(Nat) /\ collected' \in Seq(Nat) /\ cleaned' \in Seq(Nat)
  <2>1. TypeOK /\ Recorded /\ cleanupCount' = cleanupCount
    BY <1>4 DEF IInv
  <2>2. CASE UNCHANGED <<collected, cleanups, cleaned>>
    BY <2>1, <2>2 DEF TypeOK, Recorded
  <2>3. CASE cleanups' = Scheduled /\ collected' = Uncollected /\ cleaned' = cleaned
    BY <2>1, <2>3, SnapshotRecorded DEF TypeOK
  <2>4. CASE /\ Scheduled # <<>> /\ cleanups' = Tail(Scheduled) /\ collected' = Uncollected
             /\ cleaned' = Append(cleaned, Head(Scheduled))
    BY <2>1, <2>4, ScheduledRecorded, ConsumedRecorded
  <2>5. QED
    BY <1>5, <2>2, <2>3, <2>4
<1>7. suppress' \in BOOLEAN /\ driverWork' \in BOOLEAN
  BY DEF CallNativeCleanup, Complete, CleanupThrows, Thrown, CleanupRefused, CleanupFails, Progressed, Terminal, IInv, Flags
<1>8. /\ ~suppress => ~suppress'
      /\ ~driverWork => ~driverWork'
  BY DEF CallNativeCleanup, Complete, CleanupThrows, Thrown, CleanupRefused, CleanupFails, Progressed, Terminal
<1>9. running \/ \A i \in DOMAIN frames : frames[i].kind # "cleanup"
  BY DEF IInv, Stack
<1>10. Flags'
  BY <1>1, <1>7 DEF IInv, Flags
<1>11. TypeOK'
  <2>1. mode' \in Modes
    BY <1>1 DEF Modes
  <2>2. QED
    BY <1>1, <1>3, <1>4, <1>6, <2>1 DEF IInv, TypeOK
<1>12. Numbered'
  BY <1>3 DEF IInv, Numbered
<1>13. Recorded'
  BY <1>6 DEF IInv, Recorded
<1>14. Stack'
  <2>1. CASE UNCHANGED <<cleanups>>
    BY <1>1, <1>2, <1>4, <2>1 DEF IInv, Stack
  <2>2. CASE ~running
    BY <1>1, <1>2, <1>4, <1>9, <2>2 DEF IInv, Stack
  <2>3. QED
    BY <1>5, <2>1, <2>2
<1>15. regular' => RegularStack'
  <2> SUFFICES ASSUME regular' PROVE RegularStack'
    OBVIOUS
  <2>1. RegularStack
    BY DEF IInv
  <2>2. mode = "checkpoint" /\ Len(frames) = 1 /\ frames[1].pc # "body" /\ ~running
    BY <1>1, <1>2, <2>1 DEF RegularStack
  <2>3. ~suppress' /\ ~driverWork' /\ ~running' /\ active' = None /\ mode' # "step"
    BY <1>1, <1>4, <1>8, <2>1, <2>2 DEF RegularStack
  <2>4. Len(frames') = 1 /\ frames'[1].pc # "body"
    BY <1>1, <2>2
  <2>5. QED
    BY <2>3, <2>4 DEF RegularStack
<1>16. QED
  BY <1>10, <1>11, <1>12, <1>13, <1>14, <1>15 DEF IInv

\* A cleanup begins: its frame is published.
LEMMA BeginCleanupIInv ==
  ASSUME IInv, BeginCleanup,
         regular' \in BOOLEAN, regular' => regular
  PROVE  IInv'
<1> DEFINE call == [kind |-> "cleanup", job |-> Head(Scheduled), pc |-> "body", site |-> ReturnSite]
           n == 0
<1>1. /\ mode \in {"checkpoint", "step"} /\ mode # "idle" /\ NoJob(n) /\ ~running /\ running' = TRUE
      /\ Scheduled # <<>> /\ cleanups' = Scheduled /\ collected' = Uncollected /\ cleaned' = cleaned
      /\ frames' = Append(frames, call) /\ suppress' = suppress
      /\ result' = CheckpointResult
      /\ mode' \in {"idle", "run"} /\ (mode = "checkpoint" => mode' = "run")
  BY DEF BeginCleanup, NoJob, InStep, Suspended, MayClean
<1>2. /\ Len(frames) \in Nat /\ Len(frames) >= 1 /\ DOMAIN frames = 1..Len(frames)
      /\ frames # <<>> /\ frames \in Seq(Frame) /\ Top = frames[Len(frames)] /\ Top \in Frame
      /\ Top.kind = "entry" <=> Len(frames) = 1
  BY <1>1, TopFrame, Busy
<1>3. Numbered' /\ jobs' \in Seq(Nat) /\ jobCount' \in Nat
  BY <1>1, EnqueueNumbered DEF IInv, NoJob
<1>4. /\ UNCHANGED <<waits, scripts, waitCount, cleanupCount, ended, begun>> /\ active' = None
      /\ result' \in Nat \cup {None, Undefined}
  BY <1>1, ResultType DEF NoJob
<1>5. /\ Recorded' /\ cleanups' \in Seq(Nat) /\ collected' \in Seq(Nat)
  BY <1>1, <1>4, SnapshotRecorded DEF IInv
<1>6. /\ call \in Frame /\ call.kind = "cleanup" /\ call.job = Head(cleanups')
      /\ call.site = ReturnSite /\ call.pc = "body"
      /\ mode = "checkpoint" => ReturnSite = "return"
  <2>1. Head(Scheduled) \in Nat
    BY <1>1, <1>5, HeadTailProperties
  <2>2. QED
    BY <1>1, <2>1 DEF Frame, Kinds, ReturnSite
<1> HIDE DEF call
<1>7. SameButTop(frames, frames)
  BY <1>2 DEF SameButTop
<1>8. /\ Stack' /\ frames' # <<>> /\ frames' \in Seq(Frame) /\ Len(frames') = Len(frames) + 1
      /\ frames'[1].kind = "entry" /\ frames'[1].job = frames[1].job /\ frames'[1].pc = frames[1].pc
      /\ frames'[Len(frames) + 1] = call
  BY <1>1, <1>2, <1>4, <1>6, <1>7, PublishedStack
<1>9. /\ driverWork' \in BOOLEAN
      /\ mode = "checkpoint" /\ ~driverWork => ~driverWork'
  BY DEF BeginCleanup, Suspended, IInv, Flags
<1>10. Flags'
  BY <1>1, <1>9 DEF IInv, Flags
<1>11. TypeOK'
  <2>1. mode' \in Modes
    BY <1>1 DEF Modes
  <2>2. cleaned' \in Seq(Nat)
    BY <1>1 DEF IInv, TypeOK
  <2>3. QED
    BY <1>3, <1>4, <1>5, <1>8, <2>1, <2>2 DEF IInv, TypeOK
<1>12. Numbered'
  BY <1>3 DEF IInv, Numbered
<1>13. Recorded'
  BY <1>5 DEF IInv, Recorded
<1>14. Stack'
  BY <1>8 DEF IInv, Stack, TypeOK
<1>15. regular' => RegularStack'
  <2> SUFFICES ASSUME regular' PROVE RegularStack'
    OBVIOUS
  <2>1. RegularStack
    BY DEF IInv
  <2>2. mode = "checkpoint" /\ Len(frames) = 1 /\ frames[1].pc # "body"
    BY <1>1, <1>2, <2>1 DEF RegularStack
  <2>3. ~suppress' /\ ~driverWork' /\ mode' = "run" /\ active' = None
    BY <1>1, <1>4, <1>9, <2>1, <2>2 DEF RegularStack
  <2>4. /\ Len(frames') = 2 /\ frames'[1].pc # "body" /\ frames'[2].kind = "cleanup"
        /\ frames'[2].site = "return" /\ frames'[2].pc = "body"
    BY <1>6, <1>8, <2>2
  <2>5. QED
    BY <2>3, <2>4 DEF RegularStack, JobKinds
<1>16. QED
  BY <1>10, <1>11, <1>12, <1>13, <1>14, <1>15 DEF IInv

-----------------------------------------------------------------------------
\* The first state satisfies the invariant.
LEMMA InitIInv == Init => IInv
<1> SUFFICES ASSUME Init PROVE IInv
  OBVIOUS
<1>1. frames \in Seq(Frame) /\ Len(frames) = 0 /\ DOMAIN frames = {}
  BY EmptySeq DEF Init
<1>2. Flags
  BY DEF Init, Flags
<1>3. TypeOK
  BY <1>1 DEF Init, TypeOK, Modes
<1>4. Numbered /\ Recorded
  BY DEF Init, Numbered, Recorded
<1>5. Stack
  BY <1>1 DEF Init, Stack
<1>6. RegularStack
  <2>1. ~suppress /\ ~driverWork /\ mode = "idle" /\ active = None /\ ~running
    BY DEF Init
  <2>2. QED
    BY <1>1, <2>1 DEF RegularStack
<1>7. QED
  BY <1>2, <1>3, <1>4, <1>5, <1>6 DEF IInv

\* Any number of jobs that an operation enqueues is a natural number.
LEMMA SettledNat == \A n \in Settled : n \in Nat
BY DEF Settled

\* Every step keeps the invariant.
LEMMA NextIInv == IInv /\ [Next]_vars => IInv'
<1> SUFFICES ASSUME IInv, [Next]_vars PROVE IInv'
  OBVIOUS
<1>1. CASE Regular /\ UNCHANGED regular
  <2>1. regular' \in BOOLEAN /\ (regular' => regular)
    BY <1>1 DEF IInv, Flags
  <2>2. CASE Execute(FALSE)
    BY <2>1, <2>2, ExecuteIInv
  <2>3. ASSUME NEW n \in Nat, ReturnJob(n) \/ ThrowJob(n) PROVE IInv'
    <3>1. FinishJob(n) /\ mode # "idle" /\ Top.kind \in JobKinds
      BY <2>3 DEF ReturnJob, ThrowJob, JobKinds
    <3>2. QED
      BY <2>1, <3>1, FinishJobIInv
  <2>4. ASSUME NEW kind \in {"capability", "resolution", "nested"}, NEW n \in Nat,
               ReturnToSettle(kind, n)
        PROVE  IInv'
    <3>1. CallToSettle(kind, n) /\ mode # "idle" /\ Top.kind \in {"reaction", "nested"}
      BY <2>4 DEF ReturnToSettle
    <3>2. QED
      BY <2>1, <3>1, CallToSettleIInv
  <2>5. CASE ThrowToCapability
    <3>1. CallToSettle("capability", 0) /\ mode # "idle" /\ Top.kind = "reaction"
      BY <2>5 DEF ThrowToCapability
    <3>2. QED
      BY <2>1, <3>1, CallToSettleIInv
  <2>6. CASE Stray \/ Throw \/ ThrowEntry
    BY <2>1, <2>6, ControlIInv
  <2>7. ASSUME NEW n \in Nat, ReturnResume(n) \/ ThrowResume(n) \/ ThrowNested(n) PROVE IInv'
    BY <2>1, <2>7, PopIInv
  <2>8. CASE ThrowCapability \/ ReturnRefused \/ ThrowRefused
    <3>1. 0 \in Nat
      OBVIOUS
    <3>2. QED
      BY <2>1, <2>8, <3>1, PopIInv
  <2>9. CASE Run
    BY <2>1, <2>3, <2>4, <2>7, <2>8, <2>9, SettledNat, RunBodyIInv, CollectIInv, ReturnEntryIInv,
       EndCleanupIInv
       DEF Run
  <2>10. CASE Unwind
    BY <2>1, <2>3, <2>5, <2>6, <2>7, <2>8, <2>10, SettledNat, EndCleanupIInv DEF Unwind
  <2>11. CASE Step
    <3>1. ASSUME NEW n \in Nat, PassThrough(n) \/ CallNativeThenable(n) \/ CallNative(n) PROVE IInv'
      BY <2>1, <3>1, TakeIInv
    <3>2. ASSUME NEW r \in BOOLEAN, JobThrows(r) PROVE IInv'
      <4>1. 0 \in Nat
        OBVIOUS
      <4>2. QED
        BY <2>1, <3>2, <4>1, TakeIInv
    <3>3. ASSUME NEW n \in Nat, CallNativeCleanup(n) \/ Complete(n) PROVE IInv'
      BY <2>1, <3>3, NoJobIInv
    <3>4. CASE CleanupThrows
      <4>1. 0 \in Nat
        OBVIOUS
      <4>2. QED
        BY <2>1, <3>4, <4>1, NoJobIInv
    <3>5. QED
      BY <2>1, <2>11, <3>1, <3>2, <3>3, <3>4, SettledNat, BeginJobIInv, BeginCleanupIInv DEF Step
  <2>12. QED
    BY <1>1, <2>2, <2>6, <2>9, <2>10, <2>11 DEF Regular, Vm
<1>2. CASE Irregular /\ regular' = FALSE
  <2>1. regular' \in BOOLEAN /\ ~regular'
    BY <1>2
  <2>2. CASE Execute(TRUE)
    BY <2>1, <2>2, ExecuteIInv
  <2>3. CASE DriveWait
    BY <1>2, <2>3, DriveWaitIInv
  <2>4. CASE Drive \/ Yield
    BY <2>1, <2>4, ControlIInv
  <2>5. ASSUME NEW r \in BOOLEAN, JobFails(r) PROVE IInv'
    <3>1. 0 \in Nat
      OBVIOUS
    <3>2. QED
      BY <2>1, <2>5, <3>1, TakeIInv
  <2>6. CASE CleanupRefused \/ \E c \in BOOLEAN : CleanupFails(c)
    <3>1. 0 \in Nat
      OBVIOUS
    <3>2. QED
      BY <2>1, <2>6, <3>1, NoJobIInv
  <2>7. ASSUME NEW n \in Nat, AnswerImport(n) PROVE IInv'
    BY <2>1, <2>7, TakeIInv
  <2>8. QED
    BY <1>2, <2>2, <2>3, <2>4, <2>5, <2>6, <2>7, SettledNat DEF Irregular
<1>3. CASE UNCHANGED vars
  <2>1. regular' \in BOOLEAN /\ (regular' => regular)
    BY <1>3 DEF IInv, Flags, vars
  <2>2. QED
    BY <1>3, <2>1, ControlIInv
<1>4. QED
  BY <1>1, <1>2, <1>3 DEF Next

\* The inductive invariant holds for every host.
THEOREM Inductive == Spec => []IInv
BY InitIInv, NextIInv, PTL DEF Spec

-----------------------------------------------------------------------------
\* Jobs begin and cleanups complete in the order in which they came, none twice and none
\* forgotten (PromiseJobQueue, FinalizationJobs).
THEOREM InOrder == Spec => []QueuesInOrder
<1>1. IInv => QueuesInOrder
  BY NumberedInOrder DEF IInv
<1>2. QED
  BY <1>1, Inductive, PTL

\* A cleanup callback on the stack runs for the front record (complete_front).  For a host
\* that only calls execute, with budgets and memory that suffice: the active job's callback is
\* on the stack, or one of the errors that CallbacksOnStack names stranded the job; the cleanup
\* flag belongs to a callback on the stack; a finished job never sends the entry script back to
\* its start (begin_next, finish_entry_execution).
THEOREM OnStack == Spec => []CallbacksOnStack
<1>1. IInv => CallbacksOnStack
  <2> SUFFICES ASSUME IInv PROVE CallbacksOnStack
    OBVIOUS
  <2>1. ASSUME regular, active # None, active \notin stranded
        PROVE  /\ mode \notin {"checkpoint", "step"}
               /\ \E i \in DOMAIN frames :
                    /\ frames[i].kind \in {"reaction", "thenable", "capability", "resolution",
                                          "nested"}
                    /\ frames[i].job = active
    <3>1. RegularStack /\ frames \in Seq(Frame)
      BY <2>1 DEF IInv, TypeOK
    <3>2. Len(frames) \in Nat /\ DOMAIN frames = 1..Len(frames)
      BY <3>1, LenProperties
    <3>3. Len(frames) = 2
      BY <2>1, <3>1, <3>2 DEF RegularStack
    <3>4. frames[2].kind \in JobKinds /\ active = frames[2].job /\ 2 \in DOMAIN frames
      BY <2>1, <3>1, <3>2, <3>3 DEF RegularStack
    <3>5. mode \notin {"checkpoint", "step"}
      BY <3>1, <3>3 DEF RegularStack
    <3>6. QED
      BY <3>4, <3>5 DEF JobKinds
  <2>2. ASSUME regular, running PROVE \E i \in DOMAIN frames : frames[i].kind = "cleanup"
    <3>1. RegularStack /\ frames \in Seq(Frame)
      BY <2>2 DEF IInv, TypeOK
    <3>2. Len(frames) \in Nat /\ DOMAIN frames = 1..Len(frames)
      BY <3>1, LenProperties
    <3>3. ~(Len(frames) <= 1) /\ Len(frames) <= 2
      BY <2>2, <3>1 DEF RegularStack
    <3>4. Len(frames) = 2 /\ 2 \in DOMAIN frames
      BY <3>2, <3>3
    <3>5. frames[2].kind = "cleanup"
      BY <2>2, <3>1, <3>4 DEF RegularStack
    <3>6. QED
      BY <3>4, <3>5
  <2>3. ASSUME regular, mode = "run", Top.kind = "entry", Top.pc = "body" PROVE Top.job \notin ended
    <3>1. RegularStack
      BY <2>3 DEF IInv
    <3>2. Len(frames) = 1 /\ Top = frames[1]
      BY <2>3, TopFrame, Busy
    <3>3. QED
      BY <2>3, <3>1, <3>2 DEF RegularStack
  <2>4. \A i \in DOMAIN frames : frames[i].kind = "cleanup" =>
          running /\ cleanups # <<>> /\ Head(cleanups) = frames[i].job
    BY DEF IInv, Stack
  <2>5. QED
    BY <2>1, <2>2, <2>3, <2>4 DEF CallbacksOnStack
<1>2. QED
  BY <1>1, Inductive, PTL

\* The step that ends a checkpoint, of execute or of the driver, leaves no active job, no
\* record and no job that was queued before; a job may be left when a native cleanup callback
\* was called in that step and enqueued it (finish_checkpoint).
THEOREM Drains == Spec => CompletedDrained
<1> DEFINE Ends == InStep /\ result' = None
           Idle == /\ active' = None /\ cleanups' = <<>> /\ collected' = <<>>
                   /\ Len(jobs') = jobCount' - jobCount
                   /\ jobs' # <<>> => Len(cleaned') = Len(cleaned) + 1
<1>1. ASSUME IInv, Next, Ends PROVE Idle
  <2>0. CheckpointResult # None /\ mode \in {"checkpoint", "step"}
    <3>1. Top \in Frame /\ mode \in {"checkpoint", "step"}
      BY <1>1, TopFrame, Busy DEF InStep
    <3>2. Top.job \in Nat
      BY <3>1 DEF Frame
    <3>3. QED
      BY <3>1, <3>2, ValuesAssumption DEF CheckpointResult, StepValue
  <2>1. PICK n \in Nat : Complete(n)
    <3>1. ASSUME result' = CheckpointResult PROVE FALSE
      BY <1>1, <2>0, <3>1
    <3>2. \A n : ~TakeJob(n)
      BY <3>1 DEF TakeJob
    <3>3. CASE Step
      BY <3>1, <3>2, <3>3, SettledNat
         DEF Step, BeginJob, PassThrough, CallNativeThenable, CallNative, JobThrows, Leave,
             BeginCleanup, CallNativeCleanup, CleanupThrows
    <3>4. ~Run /\ ~Unwind /\ ~Stray /\ ~Execute(FALSE)
      BY <2>0 DEF Run, Unwind, RunBody, Collect, ReturnEntry, ReturnJob, ReturnToSettle,
                  ReturnRefused, ReturnResume, ReturnCleanup, Throw, ThrowEntry, ThrowJob,
                  ThrowToCapability, ThrowRefused, ThrowNested, ThrowResume, ThrowCapability,
                  ThrowCleanup, Stray, Execute
    <3>5. ~Irregular
      BY <2>0, <3>1, <3>2
         DEF Irregular, Execute, DriveWait, Drive, Yield, CleanupRefused, JobFails, Leave,
             CleanupFails, AnswerImport
    <3>6. QED
      BY <1>1, <3>3, <3>4, <3>5 DEF Next, Regular, Vm
  <2>2. /\ NoJob(n) /\ Drained
        /\ IF Scheduled = <<>> THEN UNCHANGED cleanupVars
           ELSE cleanups' = Tail(Scheduled) /\ collected' = Uncollected
    BY <2>1 DEF Complete, ConsumeFront
  <2>3. /\ Scheduled \in Seq(Nat) /\ Uncollected \in Seq(Nat)
    BY <1>1, ScheduledRecorded DEF IInv
  <2>4. Len(Scheduled) + Len(Uncollected) <= 1 /\ Len(Scheduled) \in Nat /\ Len(Uncollected) \in Nat
    BY <2>2, <2>3, ConcatProperties DEF Drained
  <2>5. cleanups' = <<>> /\ collected' = <<>>
    <3>1. CASE Scheduled = <<>>
      <4>1. cleanups = <<>> /\ collected = <<>>
        BY <3>1 DEF Scheduled
      <4>2. QED
        BY <2>2, <3>1, <4>1 DEF cleanupVars
    <3>2. CASE Scheduled # <<>>
      <4>0. Len(Scheduled) # 0
        BY <2>3, <3>2, EmptySeq
      <4>1. Len(Scheduled) = 1 /\ Len(Uncollected) = 0
        <5>1. \A a, b \in Nat : a + b <= 1 /\ a # 0 => a = 1 /\ b = 0
          OBVIOUS
        <5>2. QED
          BY ONLY <2>4, <4>0, <5>1
      <4>2. Tail(Scheduled) \in Seq(Nat) /\ Len(Tail(Scheduled)) = 0
        BY <2>3, <3>2, <4>1, HeadTailProperties
      <4>3. Tail(Scheduled) = <<>> /\ Uncollected = <<>>
        BY <2>3, <4>1, <4>2, EmptySeq
      <4>4. QED
        BY <2>2, <3>2, <4>3
    <3>3. QED
      BY <3>1, <3>2
  <2>6. Len(jobs') = jobCount' - jobCount
    <3>1. Len(Pushed(n)) = Len(jobs) + n /\ jobs = <<>> /\ jobCount \in Nat
      BY <1>1, <2>2, PushedNumbered DEF IInv, TypeOK, NoJob
    <3>2. jobs' = Pushed(n) /\ jobCount' = jobCount + n
      BY <2>2 DEF NoJob, Enqueue
    <3>3. QED
      BY <3>1, <3>2
  <2>7. jobs' # <<>> => Len(cleaned') = Len(cleaned) + 1
    <3>1. CASE Scheduled = <<>>
      <4>1. n = 0 /\ jobs = <<>> /\ jobs' = Pushed(0)
        BY <2>1, <2>2, <3>1 DEF Complete, NoJob, Enqueue
      <4>2. Len(Pushed(0)) = Len(jobs) + 0 /\ Pushed(0) \in Seq(Nat)
        BY <1>1, PushedNumbered DEF IInv
      <4>3. QED
        BY <4>1, <4>2, EmptySeq
    <3>2. CASE Scheduled # <<>>
      BY <1>1, <2>1, <3>2, AppendProperties DEF Complete, ConsumeFront, IInv, TypeOK
    <3>3. QED
      BY <3>1, <3>2
  <2>8. QED
    BY <2>2, <2>5, <2>6, <2>7 DEF NoJob
<1>2. IInv /\ [Next]_vars => [Ends => Idle]_vars
  BY <1>1
<1>3. QED
  BY <1>2, Inductive, PTL DEF Spec, CompletedDrained

=============================================================================
