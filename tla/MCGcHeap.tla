------------------------------ MODULE MCGcHeap ------------------------------
(***************************************************************************)
(* Three slots in two spans: a1 and a2 share span A; b1 is alone in span   *)
(* B, so B is dense as soon as b1 is live.  MCCardOf gives each slot its   *)
(* card; MCSharedCardOf puts a1 and a2 on one card.                        *)
(***************************************************************************)
EXTENDS GcHeap, TLC

CONSTANTS a1, a2, b1, A, B

MCRefs == {a1, a2, b1}
MCSpans == {A, B}
MCSpanOf == (a1 :> A) @@ (a2 :> A) @@ (b1 :> B)
MCCards == {1, 2, 3}
MCCardOf == (a1 :> 1) @@ (a2 :> 2) @@ (b1 :> 3)
MCSharedCardOf == (a1 :> 1) @@ (a2 :> 1) @@ (b1 :> 3)

\* The two slots of the run with weak slots.
MCTwoRefs == {a1, b1}
MCTwoSpanOf == (a1 :> A) @@ (b1 :> B)
MCTwoCardOf == (a1 :> 1) @@ (b1 :> 3)

=============================================================================
