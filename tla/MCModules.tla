----------------------------- MODULE MCModules -----------------------------
EXTENDS Modules

CONSTANTS A, B, C, D

Requesting(w, x, y, z) ==
  [m \in Modules |-> CASE m = A -> w [] m = B -> x [] m = C -> y [] m = D -> z]

\* A chain whose middle requests itself too; a leaf requested along two ways; a
\* cycle of three above a leaf, entered at A or, through an import, at D; and two
\* roots above the leaf D: a B that throws leaves D queued, the call for C queues it
\* again, and an import runs it again once its record was reset.  C, whose start may
\* meet a host error, is in no cycle.
MCGraphs == {
  Requesting(<<D>>, <<>>, <<>>, <<D, C>>),
  Requesting(<<C, D>>, <<>>, <<>>, <<C>>),
  Requesting(<<C, D>>, <<A, C>>, <<>>, <<B>>),
  Requesting(<<B, D>>, <<>>, <<D>>, <<>>)}
=============================================================================
