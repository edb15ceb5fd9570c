--------------------------- MODULE EigenModuleSet ---------------------------
(***************************************************************************)
(* What a list of modules promises its users (eigen_vector_map.h): at most *)
(* one module for each address, and a sweep that takes out every module    *)
(* that has not been heard for too long, and no other, and reports the     *)
(* addresses in ascending order.                                           *)
(***************************************************************************)
EXTENDS Integers, Sequences

CONSTANTS
  Modules,        \* module objects
  Address         \* Address[m]: the address of module m

VARIABLES
  members,        \* the module at each address that has one
  aged,           \* the modules that were not heard for longer than t_stale
  sweeping,       \* a sweep holds the lock
  removed         \* the addresses taken out by the last sweep, in order

vars == <<members, aged, sweeping, removed>>

Stale == {a \in DOMAIN members : members[a] \in aged}

Init ==
  /\ members = [a \in {} |-> {}]
  /\ aged = {}
  /\ sweeping = FALSE
  /\ removed = <<>>

Insert(m) ==
  /\ ~sweeping
  /\ Address[m] \notin DOMAIN members
  /\ members' = [a \in DOMAIN members \cup {Address[m]} |->
                   IF a = Address[m] THEN m ELSE members[a]]
  /\ UNCHANGED <<aged, sweeping, removed>>

Remove(k) ==
  /\ ~sweeping
  /\ members' = [a \in DOMAIN members \ {k} |-> members[a]]
  /\ UNCHANGED <<aged, sweeping, removed>>

Clear ==
  /\ ~sweeping
  /\ members' = [a \in {} |-> {}]
  /\ UNCHANGED <<aged, sweeping, removed>>

Hear(m) ==
  /\ ~sweeping
  /\ aged' \in {aged \ {m}, aged \cup {m}}
  /\ UNCHANGED <<members, sweeping, removed>>

BeginSweep ==
  /\ ~sweeping
  /\ sweeping' = TRUE
  /\ removed' = <<>>
  /\ UNCHANGED <<members, aged>>

\* The stale module with the lowest address goes first.
Expire(k) ==
  /\ sweeping
  /\ k \in Stale
  /\ \A a \in Stale : k <= a
  /\ members' = [a \in DOMAIN members \ {k} |-> members[a]]
  /\ removed' = Append(removed, k)
  /\ UNCHANGED <<aged, sweeping>>

EndSweep ==
  /\ sweeping
  /\ Stale = {}
  /\ sweeping' = FALSE
  /\ UNCHANGED <<members, aged, removed>>

Next ==
  \/ \E m \in Modules : Insert(m) \/ Hear(m)
  \/ \E k \in {Address[m] : m \in Modules} : Remove(k) \/ Expire(k)
  \/ Clear \/ BeginSweep \/ EndSweep

Spec == Init /\ [][Next]_vars
=============================================================================
