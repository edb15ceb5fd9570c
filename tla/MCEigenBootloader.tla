------------------------- MODULE MCEigenBootloader -------------------------
(* Instances of EigenBootloader for TLC. *)
EXTENDS EigenBootloader

(* Bound: behaviours in which an operation is raced are followed further in *)
(* the first operation only; of them the properties say nothing but their  *)
(* types, which TypesHold proves.                                          *)
UntilRaced == raced => started = 1
=============================================================================
