-------------------------- MODULE MCPromiseCombinator --------------------------
(***************************************************************************)
(* Every combinator over an iterator of a few values.                      *)
(***************************************************************************)
EXTENDS PromiseCombinator

MCKinds == {"all", "allSettled", "any", "race"}

================================================================================
