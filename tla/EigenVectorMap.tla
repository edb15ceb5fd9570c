--------------------------- MODULE EigenVectorMap ---------------------------
(***************************************************************************)
(* EigenVectorMap (eigen_vector_map.cpp): the modules of the host in a map *)
(* by address and, once more, in a vector sorted by address.  Every member *)
(* function holds the lock of the object, so that a call is one step; only *)
(* clear_old, a loop that erases from the vector it walks, is taken one    *)
(* iteration at a time, with the lock held between them.                   *)
(*                                                                         *)
(* The loop counter and the result of size() are bytes.  The object of the *)
(* module does not change its address.  Whether a module was heard in the  *)
(* last t_stale milliseconds is a set, aged: the time is a parameter of    *)
(* clear_old, and only the thread that calls it writes t_last_update.      *)
(***************************************************************************)
EXTENDS Integers, Sequences, FiniteSets, SequencesExt

CONSTANTS
  Modules,        \* module objects
  NoModule,       \* nullptr
  Bytes,          \* the number of values of eigen_addr_t
  Address         \* Address[m]: the address of module m

\* No module is at the highest address, 0xFF, which means every module:
\* EigenModule::valid() is false for it.
ASSUME BytesAssumption == Bytes \in Nat \ {0}
ASSUME AddressAssumption == Address \in [Modules -> 0 .. Bytes - 2]
ASSUME NoModuleAssumption == NoModule \notin Modules

VARIABLES
  map_,           \* the module at each address that has one
  vector_,        \* the modules, by ascending address
  aged,           \* t_now - t_last_update > t_stale
  pc,             \* "idle", "sweep" in clear_old, "mismatch" after a throw
  ind,            \* the loop counter of clear_old, counted from 0
  retval          \* the addresses in the updates of the last clear_old

vars == <<map_, vector_, aged, pc, ind, retval>>

Addresses == {Address[m] : m \in Modules}

TypeOK ==
  /\ DOMAIN map_ \subseteq Addresses
  /\ map_ \in [DOMAIN map_ -> Modules]
  /\ vector_ \in Seq(Modules)
  /\ aged \subseteq Modules
  /\ pc \in {"idle", "sweep", "mismatch"}
  /\ ind \in 0 .. Bytes - 1
  /\ retval \in Seq(Addresses)

Init ==
  /\ map_ = [a \in {} |-> {}]
  /\ vector_ = <<>>
  /\ aged = {}
  /\ pc = "idle"
  /\ ind = 0
  /\ retval = <<>>
-----------------------------------------------------------------------------
(***************************************************************************)
(* The look-ups.                                                           *)
(***************************************************************************)
GetShared(k) == IF k \in DOMAIN map_ THEN map_[k] ELSE NoModule

GetSharedByInd(i) == IF i < Len(vector_) THEN vector_[i + 1] ELSE NoModule

Keys == {Address[vector_[i]] : i \in DOMAIN vector_}

Size == Len(vector_) % Bytes

\* Deliberate fault: std::upper_bound.
LowerBoundNot(k) ==
  CHOOSE p \in 1 .. Len(vector_) + 1 :
    /\ p \in DOMAIN vector_ => Address[vector_[p]] > k
    /\ \A i \in 1 .. p - 1 : Address[vector_[i]] <= k

\* std::lower_bound: the first position whose address is not below k, or the
\* one after the last.
LowerBound(k) ==
  CHOOSE p \in 1 .. Len(vector_) + 1 :
    /\ p \in DOMAIN vector_ => Address[vector_[p]] >= k
    /\ \A i \in 1 .. p - 1 : Address[vector_[i]] < k
-----------------------------------------------------------------------------
(***************************************************************************)
(* The operations.                                                         *)
(***************************************************************************)
Without(k) == [a \in DOMAIN map_ \ {k} |-> map_[a]]

Insert(m) ==
  /\ pc = "idle"
  /\ Address[m] \notin DOMAIN map_
  /\ map_' = [a \in DOMAIN map_ \cup {Address[m]} |->
                IF a = Address[m] THEN m ELSE map_[a]]
  /\ vector_' = InsertAt(vector_, LowerBound(Address[m]), m)
  /\ UNCHANGED <<aged, pc, ind, retval>>

RemoveKey(k) ==
  /\ pc = "idle"
  /\ k \in DOMAIN map_
  /\ map_' = Without(k)
  /\ LET where == LowerBound(k)
         found == where \in DOMAIN vector_ /\ Address[vector_[where]] = k
     IN  /\ vector_' = IF found THEN RemoveAt(vector_, where) ELSE vector_
         /\ pc' = IF found THEN "idle" ELSE "mismatch"
  /\ UNCHANGED <<aged, ind, retval>>

Clear ==
  /\ pc = "idle"
  /\ map_' = [a \in {} |-> {}]
  /\ vector_' = <<>>
  /\ UNCHANGED <<aged, pc, ind, retval>>

\* The module sends a packet, or is silent for too long.
Hear(m) ==
  /\ pc = "idle"
  /\ aged' \in {aged \ {m}, aged \cup {m}}
  /\ UNCHANGED <<map_, vector_, pc, ind, retval>>

ClearOld ==
  /\ pc = "idle"
  /\ pc' = "sweep"
  /\ ind' = 0
  /\ retval' = <<>>
  /\ UNCHANGED <<map_, vector_, aged>>

\* Deliberate fault: a counter that moves on after the erasure.
RemoveOldNot ==
  /\ pc = "sweep"
  /\ ind < Len(vector_)
  /\ vector_[ind + 1] \in aged
  /\ map_' = Without(Address[vector_[ind + 1]])
  /\ vector_' = RemoveAt(vector_, ind + 1)
  /\ retval' = Append(retval, Address[vector_[ind + 1]])
  /\ ind' = ind + 1
  /\ UNCHANGED <<aged, pc>>

\* remove_ind_no_lock; its early return for an index past the end is the
\* condition of the loop once more.
RemoveOld ==
  /\ pc = "sweep"
  /\ ind < Len(vector_)
  /\ vector_[ind + 1] \in aged
  /\ LET k == Address[vector_[ind + 1]] IN
       IF k \in DOMAIN map_
       THEN /\ map_' = Without(k)
            /\ vector_' = RemoveAt(vector_, ind + 1)
            /\ retval' = Append(retval, k)
            /\ pc' = pc
       ELSE /\ pc' = "mismatch"
            /\ UNCHANGED <<map_, vector_, retval>>
  /\ UNCHANGED <<aged, ind>>

\* Deliberate fault: a counter that is too narrow for the list.
KeepFreshNot ==
  /\ pc = "sweep"
  /\ ind < Len(vector_)
  /\ vector_[ind + 1] \notin aged
  /\ ind' = (ind + 1) % (Bytes - 1)
  /\ UNCHANGED <<map_, vector_, aged, pc, retval>>

KeepFresh ==
  /\ pc = "sweep"
  /\ ind < Len(vector_)
  /\ vector_[ind + 1] \notin aged
  /\ ind' = (ind + 1) % Bytes
  /\ UNCHANGED <<map_, vector_, aged, pc, retval>>

ClearOldReturns ==
  /\ pc = "sweep"
  /\ ind >= Len(vector_)
  /\ pc' = "idle"
  /\ UNCHANGED <<map_, vector_, aged, ind, retval>>

SweepStep == RemoveOld \/ KeepFresh \/ ClearOldReturns

Next ==
  \/ \E m \in Modules : Insert(m) \/ Hear(m)
  \/ \E k \in Addresses : RemoveKey(k)
  \/ Clear
  \/ ClearOld
  \/ SweepStep

Spec == Init /\ [][Next]_vars

\* A function that was entered is executed to its end.
FairSpec == Spec /\ WF_vars(SweepStep)
-----------------------------------------------------------------------------
(***************************************************************************)
(* Properties.                                                             *)
(***************************************************************************)

\* The map and the vector hold the same modules, each under its own address,
\* the vector in ascending order; "Vector and Map mismatch" is never thrown.
MapAndVectorAgree ==
  /\ pc # "mismatch"
  /\ \A i, j \in DOMAIN vector_ :
       i < j => Address[vector_[i]] < Address[vector_[j]]
  /\ \A i \in DOMAIN vector_ :
       /\ Address[vector_[i]] \in DOMAIN map_
       /\ map_[Address[vector_[i]]] = vector_[i]
  /\ \A k \in DOMAIN map_ :
       /\ Address[map_[k]] = k
       /\ \E i \in DOMAIN vector_ : vector_[i] = map_[k]

\* A user who counts from 0 to size() and asks by index meets each module
\* once, and the same that it gets by address: what num_modules,
\* get_module_by_index and get_module say agrees.
IndexMeetsAll ==
  /\ Keys = DOMAIN map_
  /\ Size = Cardinality(Keys)
  /\ \A k \in Keys :
       \E i \in 0 .. Size - 1 :
         GetSharedByInd(i) = GetShared(k) /\ Address[GetShared(k)] = k

\* The modules that clear_old has passed are fresh: none is left behind when
\* the erased one lets the next move to its place.
SweptAreFresh ==
  pc = "sweep" => \A i \in 1 .. ind : i \in DOMAIN vector_ /\ vector_[i] \notin aged

\* clear_old returns, although its counter is a byte.
ClearOldEnds == pc = "sweep" ~> pc = "idle"

Promise == INSTANCE EigenModuleSet WITH
  members <- map_, sweeping <- pc = "sweep", removed <- retval

\* The container is the set of modules that its users think it is.
KeepsSetPromise == Promise!Spec
=============================================================================
