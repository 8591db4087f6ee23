---------------------------- MODULE MCGcSpanTable ----------------------------
(***************************************************************************)
(* Four logical identifiers, one size class, large objects of two          *)
(* spans.                                                                  *)
(***************************************************************************)
EXTENDS GcSpanTable

=============================================================================
