----------------------- MODULE MCEigenTopologyTracker -----------------------
(* Instances of EigenTopologyTracker for TLC. *)
EXTENDS EigenTopologyTracker
=============================================================================
