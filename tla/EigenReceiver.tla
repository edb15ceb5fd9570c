---------------------------- MODULE EigenReceiver ----------------------------
(***************************************************************************)
(* The way of a packet from the bus to the application (eigen_comms.cpp,   *)
(* eigen_packet_parser.cpp, EigenModule::update_downstream): parse_packets *)
(* cuts what read_data returns into lines, process_packet checks and       *)
(* parses a line and changes the module, and the update that comes of it   *)
(* is given to the application and to the topology tracker.                *)
(*                                                                         *)
(* A packet is sent as two parts and a newline.  The bus may lose or spoil *)
(* a part, or put a zero into the stream; a call of read_data may end      *)
(* anywhere.  The checksum is exact: a line is accepted if and only if it  *)
(* is the two parts of one packet.                                         *)
(***************************************************************************)
EXTENDS Integers, Sequences, FiniteSets

CONSTANTS
  Ports,          \* what a module may report at its port: addresses and NoNode
  NoNode,         \* 0xFF, nothing is connected
  Others,         \* the first two characters of its other packets
  IN_BUFFER_SIZE,
  TOPOLOGY_CONSISTENCY_COUNT,
  MaxLines,       \* bound: lines sent
  MaxFaults       \* bound: faults of the bus

ASSUME ReceiverAssumption ==
  /\ NoNode \in Ports
  /\ <<"", "">> \notin Others
  /\ IN_BUFFER_SIZE \in Nat /\ IN_BUFFER_SIZE >= 2
  /\ TOPOLOGY_CONSISTENCY_COUNT \in Nat \ {0}
  /\ MaxLines \in Nat /\ MaxFaults \in Nat

VARIABLES
  wire,           \* what is left of the line that is being sent
  sent,           \* the packet of this line, and whether it arrived well so far
  packet_buffer,  \* the line that is being received, up to ptr
  packet_queue,   \* the lines received
  phase,          \* where service_eigen_comms is
  valid,          \* the local variable of parse_packets
  port,           \* the port of the module
  reports,        \* the reports of the port that were accepted
  asked,          \* commands that were queued to ask for the topology again
  update_list_,   \* the updates for the application
  updates_,       \* the updates for the topology tracker
  deleted,        \* the updates that the application has deleted
  made,           \* updates made so far
  lines,          \* lines sent so far
  faults          \* faults so far

bus == <<wire, sent, lines, faults>>
module == <<port, reports, asked>>
updates == <<update_list_, updates_, deleted, made>>
vars == <<bus, packet_buffer, packet_queue, phase, valid, module, updates>>

\* A packet: its first two characters after the address, and what it reports.
Packet == ({<<"S", "0">>} \X Ports) \cup (Others \X {NoNode})

NoPacket == <<<<"", "">>, NoNode>>

\* The symbols of the stream.
Part(p, i) == <<p, i>>
Newline == <<NoPacket, 0>>
Zero == <<NoPacket, 1>>
Spoilt == <<NoPacket, 2>>

Symbols == (Packet \X {1, 2}) \cup {Newline, Zero, Spoilt}

Text(p) == <<Part(p, 1), Part(p, 2)>>

TypeOK ==
  /\ wire \in Seq(Symbols)
  /\ sent \in [packet : Packet \cup {NoPacket}, well : BOOLEAN]
  /\ packet_buffer \in Seq(Symbols) /\ Len(packet_buffer) <= IN_BUFFER_SIZE
  /\ packet_queue \in Seq(Seq(Symbols))
  /\ phase \in {"idle", "read", "process", "updates"}
  /\ valid \in BOOLEAN
  /\ port \in [addr_current : Ports, addr_diff : Ports, consistency_count : 0 .. 255]
  /\ reports \in Seq(Ports) /\ asked \in Nat
  /\ update_list_ \in Seq(1 .. made) /\ updates_ \in Seq(1 .. made)
  /\ deleted \subseteq 1 .. made /\ made \in Nat
  /\ lines \in 0 .. MaxLines /\ faults \in 0 .. MaxFaults

Init ==
  /\ wire = <<>> /\ sent = [packet |-> NoPacket, well |-> TRUE]
  /\ packet_buffer = <<>> /\ packet_queue = <<>>
  /\ phase = "idle" /\ valid = TRUE
  /\ port = [addr_current |-> NoNode, addr_diff |-> NoNode, consistency_count |-> 0]
  /\ reports = <<>> /\ asked = 0
  /\ update_list_ = <<>> /\ updates_ = <<>> /\ deleted = {} /\ made = 0
  /\ lines = 0 /\ faults = 0
-----------------------------------------------------------------------------
(***************************************************************************)
(* The bus.                                                                *)
(***************************************************************************)

\* A line is begun; it can arrive well if the one before did end.
SendLine(p) ==
  /\ wire = <<>>
  /\ lines < MaxLines
  /\ wire' = <<Part(p, 1), Part(p, 2), Newline>>
  /\ sent' = [packet |-> p, well |-> sent.packet = NoPacket]
  /\ lines' = lines + 1
  /\ UNCHANGED <<faults, packet_buffer, packet_queue, phase, valid, module, updates>>

Fault(w) ==
  /\ wire # <<>>
  /\ faults < MaxFaults
  /\ wire' = w
  /\ sent' = [sent EXCEPT !.well = FALSE]
  /\ faults' = faults + 1
  /\ UNCHANGED <<lines, packet_buffer, packet_queue, phase, valid, module, updates>>

Lose == Fault(Tail(wire))

Spoil == Fault(<<Spoilt>> \o Tail(wire))

InsertZero == Fault(<<Zero>> \o wire)

BusStep == (\E p \in Packet : SendLine(p)) \/ Lose \/ Spoil \/ InsertZero
-----------------------------------------------------------------------------
(***************************************************************************)
(* parse_packets, one character after the other.                           *)
(***************************************************************************)
BeginRead ==
  /\ phase = "idle"
  /\ phase' = "read"
  /\ valid' = TRUE
  /\ UNCHANGED <<bus, packet_buffer, packet_queue, module, updates>>

Consume ==
  /\ phase = "read"
  /\ wire # <<>>
  /\ wire' = Tail(wire)

\* The call returns, and what the same read brought besides is lost.
ReadZero ==
  /\ phase = "read"
  /\ wire # <<>>
  /\ Head(wire) = Zero
  /\ \E n \in 1 .. Len(wire) : wire' = SubSeq(wire, n + 1, Len(wire))
  /\ phase' = "process"
  /\ UNCHANGED <<sent, lines, faults, packet_buffer, packet_queue, valid, module, updates>>

\* Deliberate fault: after a line that did not fit, valid is not set again.
ReadNewlineNot ==
  /\ Consume
  /\ Head(wire) = Newline
  /\ packet_queue' = IF valid THEN Append(packet_queue, packet_buffer) ELSE packet_queue
  /\ packet_buffer' = <<>>
  /\ sent' = [packet |-> NoPacket, well |-> TRUE]
  /\ UNCHANGED <<lines, faults, phase, valid, module, updates>>

ReadNewline ==
  /\ Consume
  /\ Head(wire) = Newline
  /\ packet_queue' = IF valid THEN Append(packet_queue, packet_buffer) ELSE packet_queue
  /\ packet_buffer' = <<>>
  /\ valid' = TRUE
  /\ sent' = [packet |-> NoPacket, well |-> TRUE]
  /\ UNCHANGED <<lines, faults, phase, module, updates>>

\* Deliberate fault: one character too many is stored.
ReadCharacterNot ==
  /\ Consume
  /\ Head(wire) \notin {Zero, Newline}
  /\ IF Len(packet_buffer) <= IN_BUFFER_SIZE
     THEN packet_buffer' = Append(packet_buffer, Head(wire)) /\ UNCHANGED valid
     ELSE valid' = FALSE /\ UNCHANGED packet_buffer
  /\ UNCHANGED <<sent, lines, faults, packet_queue, phase, module, updates>>

ReadCharacter ==
  /\ Consume
  /\ Head(wire) \notin {Zero, Newline}
  /\ IF Len(packet_buffer) < IN_BUFFER_SIZE
     THEN packet_buffer' = Append(packet_buffer, Head(wire)) /\ UNCHANGED valid
     ELSE valid' = FALSE /\ UNCHANGED packet_buffer
  /\ UNCHANGED <<sent, lines, faults, packet_queue, phase, module, updates>>

\* The characters that were read are used up.
EndRead ==
  /\ phase = "read"
  /\ phase' = "process"
  /\ UNCHANGED <<bus, packet_buffer, packet_queue, valid, module, updates>>

Reading == BeginRead \/ ReadZero \/ ReadNewline \/ ReadCharacter \/ EndRead
-----------------------------------------------------------------------------
(***************************************************************************)
(* process_packet.                                                         *)
(***************************************************************************)

\* The keys that the constructor of EigenPacketParser registers.
response_map ==
  {<<"U">>, <<"S">>, <<"L">>, <<"V">>, <<"I">>, <<"|", "(">>, <<"|", ")">>,
   <<"~">>, <<"|", "[">>, <<"|", "]">>, <<"T">>, <<"N">>}

xdigit == {"0", "1", "2", "3", "4", "5", "6", "7", "8", "9", "A", "B", "C", "D", "E", "F"}

\* parse_packet: the key whose response is made, or the empty one for none.
parse_packet(text) ==
  LET two == text[2] \notin xdigit
  IN  CASE text[1] \in xdigit -> <<>>
        [] text[1] \notin xdigit /\ two /\ text \in response_map -> text
        [] text[1] \notin xdigit /\ (two => text \notin response_map)
             /\ <<text[1]>> \in response_map -> <<text[1]>>
        [] OTHER -> <<>>

\* update_downstream, for the one port: the port after a report, and whether
\* it is believed, and whether the module is asked again.
\* Deliberate fault: another address does not begin the count anew.
ReportedNot(addr) ==
  IF addr = port.addr_current
  THEN [port |-> port, believed |-> FALSE, ask |-> FALSE]
  ELSE LET n == (port.consistency_count + 1) % 256 IN
       IF n = TOPOLOGY_CONSISTENCY_COUNT
       THEN [port |-> [addr_current |-> addr, addr_diff |-> addr, consistency_count |-> 0],
             believed |-> TRUE, ask |-> FALSE]
       ELSE [port |-> [port EXCEPT !.addr_diff = addr, !.consistency_count = n],
             believed |-> FALSE, ask |-> TRUE]

Reported(addr) ==
  IF addr = port.addr_current
  THEN [port |-> port, believed |-> FALSE, ask |-> FALSE]
  ELSE IF addr # port.addr_diff
  THEN [port |-> [port EXCEPT !.addr_diff = addr, !.consistency_count = 0],
        believed |-> FALSE, ask |-> FALSE]
  ELSE LET n == (port.consistency_count + 1) % 256 IN
       IF n = TOPOLOGY_CONSISTENCY_COUNT
       THEN [port |-> [addr_current |-> addr, addr_diff |-> addr, consistency_count |-> n],
             believed |-> TRUE, ask |-> FALSE]
       ELSE [port |-> [port EXCEPT !.consistency_count = n], believed |-> FALSE, ask |-> TRUE]

\* add_module_update: the same update goes into both queues.
add_module_update ==
  /\ made' = made + 1
  /\ update_list_' = Append(update_list_, made + 1)
  /\ updates_' = Append(updates_, made + 1)
  /\ UNCHANGED deleted

ProcessTopology(addr) ==
  LET r == Reported(addr) IN
    /\ port' = r.port
    /\ reports' = Append(reports, addr)
    /\ asked' = IF r.ask THEN asked + 1 ELSE asked
    /\ IF r.believed THEN add_module_update ELSE UNCHANGED updates

\* The other responses that are known make an update each.
ProcessOther ==
  /\ add_module_update
  /\ UNCHANGED module

ProcessPacket ==
  /\ phase = "process"
  /\ packet_queue # <<>>
  /\ packet_queue' = Tail(packet_queue)
  /\ LET line == Head(packet_queue) IN
       IF \E p \in Packet : line = Text(p)
       THEN LET p == CHOOSE q \in Packet : line = Text(q)
                key == parse_packet(p[1])
            IN  \/ key = <<"S">> /\ ProcessTopology(p[2])
                \/ key \notin {<<"S">>, <<>>} /\ ProcessOther
                \/ key = <<>> /\ UNCHANGED <<module, updates>>
       ELSE UNCHANGED <<module, updates>>
  /\ UNCHANGED <<bus, packet_buffer, phase, valid>>

ProcessDone ==
  /\ phase = "process"
  /\ packet_queue = <<>>
  /\ phase' = "updates"
  /\ UNCHANGED <<bus, packet_buffer, packet_queue, valid, module, updates>>

\* Deliberate fault: the service returns and leaves the updates for its next call.
process_updates_not ==
  /\ phase = "updates"
  /\ phase' = "idle"
  /\ UNCHANGED <<bus, packet_buffer, packet_queue, valid, module, updates>>

\* The tracker reads all its updates and the service returns.
process_updates ==
  /\ phase = "updates"
  /\ updates_' = <<>>
  /\ phase' = "idle"
  /\ UNCHANGED <<bus, packet_buffer, packet_queue, valid, module, update_list_, deleted, made>>

\* The application takes an update and deletes it, in a thread of its own or
\* between two calls of the service.
TakeUpdate ==
  /\ update_list_ # <<>>
  /\ deleted' = deleted \cup {Head(update_list_)}
  /\ update_list_' = Tail(update_list_)
  /\ UNCHANGED <<bus, packet_buffer, packet_queue, phase, valid, module, updates_, made>>

Processing == ProcessPacket \/ ProcessDone \/ process_updates

Next == BusStep \/ Reading \/ Processing \/ TakeUpdate

Spec == Init /\ [][Next]_vars
-----------------------------------------------------------------------------
(***************************************************************************)
(* Properties.                                                             *)
(***************************************************************************)

\* Whatever garbage came before, a line that follows a newline and arrives
\* well is handed over complete, however the reads cut it.
GoodLinesArrive ==
  [][ wire = <<Newline>> /\ wire' = <<>> /\ sent.well /\ faults' = faults =>
        packet_queue' = Append(packet_queue, Text(sent.packet)) ]_vars

\* Of the last reports in s, n at least say new, and the others say old.
Confirms(s, old, new, n) ==
  \E j \in 1 .. Len(s) :
    /\ \A i \in j .. Len(s) : s[i] \in {old, new}
    /\ Cardinality({i \in j .. Len(s) : s[i] = new}) >= n

\* A port is believed to have changed only when the new address was reported
\* one more time than TOPOLOGY_CONSISTENCY_COUNT, and nothing but the old one
\* was reported in between: one spoilt or mistaken report changes nothing.
BelievedWasConfirmed ==
  [][ port'.addr_current # port.addr_current =>
        Confirms(reports', port.addr_current, port'.addr_current, TOPOLOGY_CONSISTENCY_COUNT + 1) ]_vars

\* When the service has returned, and until it processes packets again, the
\* tracker has read every update: "otherwise the interface might delete the
\* updates first" (eigen_comms.cpp:440-442).
TrackerReadsFirst == phase \in {"idle", "read"} => updates_ = <<>>

\* Not so during a call: an application with a thread of its own may delete an
\* update that the tracker is still to read (receive_threads.cfg shows it).
UpdatesAreAlive == \A i \in DOMAIN updates_ : updates_[i] \notin deleted
=============================================================================
