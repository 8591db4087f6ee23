---------------------------- MODULE PromiseOutcome ----------------------------
(***************************************************************************)
(* What a program may observe of promises, whatever jobs, cells and frames *)
(* bring it about.  The fate of a promise is decided once: the first       *)
(* resolution that reaches it decides, a promise locked to another adopts  *)
(* that one's outcome and no other, and an outcome is for ever.            *)
(***************************************************************************)
CONSTANTS
  Promises,   \* identities of promises
  Objects,    \* objects that are no promise: their then property is the program's
  Plain,      \* values without a then property
  Reasons     \* values that a program throws or rejects with

VARIABLE fate

Values == Promises \cup Objects \cup Plain

Absent == [is |-> "absent"]
Open == [is |-> "open"]
Resolving(x) == [is |-> "resolving", of |-> x]  \* the then property of x is being read
Locked(x) == [is |-> "locked", of |-> x]        \* the outcome is up to x
Fulfilled(x) == [is |-> "fulfilled", of |-> x]
Rejected(x) == [is |-> "rejected", of |-> x]

Fates ==
  {Absent, Open}
    \cup {Resolving(x) : x \in Objects} \cup {Locked(x) : x \in Objects \cup Promises}
    \cup {Fulfilled(x) : x \in Objects \cup Plain} \cup {Rejected(x) : x \in Reasons}

AnyRejection == {Rejected(e) : e \in Reasons}

\* What becomes of p when it is resolved with x.
Resolved(p, x) ==
  CASE x = p -> AnyRejection
    [] x \in Plain -> {Fulfilled(x)}
    [] x \in Promises \ {p} -> {Locked(x)}
    [] x \in Objects -> {Resolving(x), Locked(x), Fulfilled(x)} \cup AnyRejection

ByProgram(p) == AnyRejection \cup UNION {Resolved(p, x) : x \in Values}

\* What becomes of p next.
Successors(p) ==
  LET f == fate[p] IN
  CASE f.is = "absent" -> {Open} \cup ByProgram(p)
    [] f.is = "open" -> ByProgram(p)
    [] f.is = "resolving" -> Resolved(p, f.of) \ {f}
    [] f.is = "locked" /\ f.of \in Objects -> ByProgram(p)
    [] f.is = "locked" /\ f.of \in Promises ->
         CASE fate[f.of].is = "fulfilled" -> Resolved(p, fate[f.of].of)
           [] fate[f.of].is = "rejected" -> {fate[f.of]}
           [] OTHER -> {}
    [] OTHER -> {}

Init == fate = [p \in Promises |-> Absent]

Next ==
  /\ fate' \in [Promises -> Fates]
  /\ \A p \in Promises : fate'[p] # fate[p] => fate'[p] \in Successors(p)

Spec == Init /\ [][Next]_fate

=============================================================================
