-------------------------- MODULE MCEigenVectorMap --------------------------
(***************************************************************************)
(* Bytes of four values, three addresses, two objects for one of them: a   *)
(* module that was aged out and its successor.                             *)
(***************************************************************************)
EXTENDS EigenModuleReader, TLC

CONSTANTS m0, m1, m1b, m2

MCAddress == m0 :> 0 @@ m1 :> 1 @@ m1b :> 1 @@ m2 :> 2
=============================================================================
