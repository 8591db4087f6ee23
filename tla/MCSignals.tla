------------------------------ MODULE MCSignals ------------------------------
(* Signals with the argument lists of watch and unwatch for TLC.             *)
EXTENDS Signals

CONSTANTS s1, c2

MCArguments == {<<c2>>, <<c2, s1>>}
=============================================================================
