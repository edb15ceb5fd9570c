-------------------------- MODULE EigenModuleReader --------------------------
(***************************************************************************)
(* The list of published modules, module_list_pub_, and the application    *)
(* that reads it (eigen_comms.cpp).  The service inserts a module and then *)
(* raises list_update; the application asks list_updated(), which reads    *)
(* and clears that flag, and reads the modules one after the other with    *)
(* get_module_by_index until it gets none.  Flag and list have no common   *)
(* lock: each call on the list holds the lock of the container, and the    *)
(* flag is not locked at all.                                              *)
(*                                                                         *)
(* The published list is used through insert and clear_old only.  The      *)
(* other removals of the container are kept: what is shown holds with them *)
(* as well.  One thread of the application reads the list.                 *)
(***************************************************************************)
EXTENDS EigenVectorMap

VARIABLES
  list_update,    \* the flag
  service,        \* "flag" between the insertion and the flag, else "run"
  reader,         \* the application: "idle", "clear" in list_updated, "read"
  index,          \* the index it asks for next (0 when it does not read)
  seen,           \* the modules it got since list_updated said TRUE
  shifted         \* history: a module it had passed left the list meanwhile

readerVars == <<list_update, service, reader, index, seen, shifted>>
allVars == <<vars, readerVars>>

ReaderTypeOK ==
  /\ list_update \in BOOLEAN
  /\ service \in {"run", "flag"}
  /\ reader \in {"idle", "clear", "read"}
  /\ index \in Nat
  /\ seen \subseteq Modules
  /\ shifted \in BOOLEAN

ReaderInit ==
  /\ Init
  /\ list_update = TRUE
  /\ service = "run"
  /\ reader = "idle" /\ index = 0 /\ seen = {}
  /\ shifted = FALSE
-----------------------------------------------------------------------------
(***************************************************************************)
(* The thread of the service.                                              *)
(***************************************************************************)

\* The sweep publishes a module; insert changes nothing when there is one at
\* the address.
Publish(m) ==
  /\ service = "run" /\ pc = "idle"
  /\ Insert(m) \/ (Address[m] \in DOMAIN map_ /\ UNCHANGED vars)
  /\ service' = "flag"
  /\ UNCHANGED <<list_update, reader, index, seen, shifted>>

\* Deliberate fault: the flag is not raised.
RaiseFlagNot ==
  /\ service = "flag"
  /\ service' = "run"
  /\ UNCHANGED <<vars, list_update, reader, index, seen, shifted>>

RaiseFlag ==
  /\ service = "flag"
  /\ list_update' = TRUE
  /\ service' = "run"
  /\ UNCHANGED <<vars, reader, index, seen, shifted>>

\* What a removal does to a reader: the modules behind move to lower indices.
Passed(i) == reader = "read" /\ i \in 1 .. index /\ i \in DOMAIN vector_

Other ==
  /\ service = "run"
  /\ \/ \E m \in Modules : Hear(m)
     \/ \E k \in Addresses : RemoveKey(k)
     \/ Clear
     \/ ClearOld
     \/ SweepStep
  /\ shifted' = (shifted \/ \E i \in DOMAIN vector_ :
                              Passed(i) /\ Address[vector_[i]] \notin DOMAIN map_')
  /\ UNCHANGED <<list_update, service, reader, index, seen>>
-----------------------------------------------------------------------------
(***************************************************************************)
(* The thread of the application.                                          *)
(***************************************************************************)

\* list_updated() reads the flag ...
ReadFlag ==
  /\ reader = "idle" /\ list_update
  /\ reader' = "clear"
  /\ UNCHANGED <<vars, list_update, service, index, seen, shifted>>

\* ... and clears it.
ClearFlag ==
  /\ reader = "clear"
  /\ list_update' = FALSE
  /\ reader' = "read" /\ index' = 0 /\ seen' = {} /\ shifted' = FALSE
  /\ UNCHANGED <<vars, service>>

\* get_module_by_index waits for the lock, which clear_old holds all along.
ReadModule ==
  /\ reader = "read" /\ pc = "idle"
  /\ LET m == GetSharedByInd(index) IN
       IF m = NoModule
       THEN reader' = "idle" /\ index' = 0 /\ UNCHANGED seen
       ELSE reader' = "read" /\ index' = index + 1 /\ seen' = seen \cup {m}
  /\ UNCHANGED <<vars, list_update, service, shifted>>

ReaderNext ==
  \/ \E m \in Modules : Publish(m)
  \/ RaiseFlag \/ Other
  \/ ReadFlag \/ ClearFlag \/ ReadModule

ReaderSpec == ReaderInit /\ [][ReaderNext]_allVars

\* clear_old that was entered is executed to its end.
FairReaderSpec == ReaderSpec /\ WF_allVars(SweepStep /\ Other)
-----------------------------------------------------------------------------
(***************************************************************************)
(* Properties.                                                             *)
(***************************************************************************)
Published == {vector_[i] : i \in DOMAIN vector_}

(* When list_updated() would return false, the application has got every    *)
(* module of the list, although an insertion, its flag, the reading of the  *)
(* flag and each reading of a module are steps with no common lock.  The    *)
(* one way to miss a module is that a module already passed was removed     *)
(* during the reading (eigen_comms.cpp:402-404, 513-515, 534-541).          *)
NoMissedAddition ==
  ~list_update /\ service = "run" /\ reader = "idle" /\ ~shifted => Published \subseteq seen
=============================================================================
