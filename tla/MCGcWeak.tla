------------------------------ MODULE MCGcWeak ------------------------------
(***************************************************************************)
(* Three heaps: two tables and two plain objects, for chains of            *)
(* ephemerons; a registry, two cells and two plain objects, for cleanups;  *)
(* a WeakRef, a table and a plain object, for kept objects.                *)
(***************************************************************************)
EXTENDS GcWeak, TLC

CONSTANTS m, n, r, c, d, x, y, w, t, plain

Chains ==
  [objects |-> {m, n, x, y}, tables |-> {m, n}, weakRefs |-> {}, registries |-> {},
   cells |-> {}, holders |-> {x, y}, cohorts |-> {{m, n, x, y}}, kinds |-> {"major"}]
Cleanups ==
  [objects |-> {r, c, d, x, y}, tables |-> {}, weakRefs |-> {}, registries |-> {r},
   cells |-> {c, d}, holders |-> {}, cohorts |-> {{r, c, d, x, y}},
   kinds |-> {"minor", "major"}]
KeptTargets ==
  [objects |-> {w, t, plain}, tables |-> {t}, weakRefs |-> {w}, registries |-> {},
   cells |-> {}, holders |-> {}, cohorts |-> {{w}, {t}, {plain}},
   kinds |-> {"minor", "major"}]
MCInstances == {Chains, Cleanups, KeptTargets}

\* Two tables, two cells and two plain objects are interchangeable.
Symmetry == Permutations({m, n}) \cup Permutations({c, d}) \cup Permutations({x, y})

=============================================================================
