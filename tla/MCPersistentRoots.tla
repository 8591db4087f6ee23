-------------------------- MODULE MCPersistentRoots --------------------------
(***************************************************************************)
(* PersistentRoots with two references of different types.                  *)
(***************************************************************************)
EXTENDS PersistentRoots, TLC

CONSTANTS r1, r2

MCRefs == {r1, r2}
MCTypes == {"A", "B"}
MCTypeOf == (r1 :> "A") @@ (r2 :> "B")

=============================================================================
