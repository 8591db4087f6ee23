------------------------------ MODULE MCPromises ------------------------------
(***************************************************************************)
(* Small programs over Promises.                                           *)
(***************************************************************************)
EXTENDS Promises

CONSTANTS thenable, reason, undef

MCObjects == {thenable}
MCPlain == {undef}
MCReasons == {reason}

=============================================================================
