--------------------------- MODULE MCEigenReceiver ---------------------------
(***************************************************************************)
(* An instance of EigenReceiver: two addresses at the port, one response   *)
(* of another kind and one packet that no response is registered for.      *)
(***************************************************************************)
EXTENDS EigenReceiver

MCOthers == {<<"|", "(">>, <<"x", "0">>}
=============================================================================
