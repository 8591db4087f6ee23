----------------------------- MODULE MCCheckpoint -----------------------------
(***************************************************************************)
(* Two scripts, a few jobs and cleanup records, one waiter.                *)
(***************************************************************************)
EXTENDS Checkpoint

=============================================================================
