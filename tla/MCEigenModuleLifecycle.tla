----------------------- MODULE MCEigenModuleLifecycle -----------------------
(* Instances of EigenModuleLifecycle for TLC. *)
EXTENDS EigenModuleLifecycle

CONSTANT a1

\* One or two parameters, and no mailbox.
OneParam == [a \in Addresses |-> [k \in Kinds |-> IF k = "param" THEN {2} ELSE {1}]]
TwoParams == [a \in Addresses |-> [k \in Kinds |-> IF k = "param" THEN {3} ELSE {1}]]
=============================================================================
