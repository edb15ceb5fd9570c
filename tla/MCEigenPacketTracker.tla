------------------------ MODULE MCEigenPacketTracker ------------------------
(* Instances of EigenPacketTracker for TLC. *)
EXTENDS EigenPacketTracker

CONSTANTS m1, m2, none, list, item, uid, topo, name, up

MCTexts == {list, item, uid, topo, name, up}

\* Each filter is found in the response it was made for.
ExactContains == {<<t, t>> : t \in MCTexts}

\* "S", the filter of the broadcast topology poll, is also found in the answer
\* to a name query when the module's name has an S in it.
LooseContains == ExactContains \cup {<<name, topo>>}

MCUIDPoll == [addr |-> Broadcast, filter |-> uid, reply |-> uid]

MCCommands ==
  { [addr |-> m1, filter |-> list, reply |-> list],
    [addr |-> m1, filter |-> none, reply |-> none],
    MCUIDPoll }

PairCommands ==
  { [addr |-> m1, filter |-> name, reply |-> name],
    [addr |-> Broadcast, filter |-> topo, reply |-> topo] }

\* A list response announces one item.
MCAdditional == [t \in MCTexts |-> IF t = list THEN <<item>> ELSE <<>>]

NoAdditional == [t \in MCTexts |-> <<>>]
=============================================================================
