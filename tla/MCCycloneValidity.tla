------------------------- MODULE MCCycloneValidity -------------------------
(* Small instances of CycloneValidity. *)
EXTENDS CycloneValidity
=============================================================================
