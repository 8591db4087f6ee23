--------------------------- MODULE MCAgentCluster ---------------------------
(***************************************************************************)
(* A main agent and one worker that share one location.                    *)
(***************************************************************************)
EXTENDS AgentCluster

CONSTANTS main, w1

=============================================================================
