------------------------- MODULE EigenReceiverProofs -------------------------
(***************************************************************************)
(* Proofs about EigenReceiver, for any packets, any buffer of at least two *)
(* symbols, any number of lines and any faults of the bus:                 *)
(*   - a line that follows a newline and arrives well is handed over;      *)
(*   - between two calls of the service the tracker has read all updates;  *)
(*   - a port is believed to have changed when that was reported often     *)
(*     enough.                                                             *)
(*                                                                         *)
(* The first is not inductive.  LineInv says what has arrived of a line    *)
(* that is well so far, and that the receiver is clean after a newline.    *)
(***************************************************************************)
EXTENDS EigenReceiver, SequenceTheorems, FiniteSetTheorems, TLAPS

\* Only the end of a line is a newline.
NewlineEnds == \A i \in 1 .. Len(wire) : wire[i] = Newline => i = Len(wire)

\* After a newline nothing is left of what came before.
CleanAfterNewline ==
  sent.packet = NoPacket => wire = <<>> /\ packet_buffer = <<>> /\ valid

\* What a line that is well so far has left on the wire, and in the buffer.
Arrived(p) ==
  \/ wire = <<Part(p, 1), Part(p, 2), Newline>> /\ packet_buffer = <<>>
  \/ wire = <<Part(p, 2), Newline>> /\ packet_buffer = <<Part(p, 1)>>
  \/ wire = <<Newline>> /\ packet_buffer = Text(p)

WellSoFar == sent.well /\ sent.packet # NoPacket => valid /\ Arrived(sent.packet)

LineInv == NewlineEnds /\ CleanAfterNewline /\ WellSoFar

IInv == TypeOK /\ LineInv
-----------------------------------------------------------------------------
LEMMA Bounds ==
  /\ IN_BUFFER_SIZE \in Nat /\ IN_BUFFER_SIZE >= 2
  /\ MaxLines \in Nat /\ MaxFaults \in Nat /\ NoNode \in Ports
<1> QED  BY ReceiverAssumption DEF ReceiverAssumption

LEMMA PacketFacts ==
  /\ NoPacket \notin Packet
  /\ \A p \in Packet, i \in {1, 2} : Part(p, i) \in Symbols /\ Part(p, i) \notin {Newline, Zero}
  /\ Newline \in Symbols /\ Zero \in Symbols /\ Spoilt \in Symbols
  /\ Zero # Newline /\ Spoilt # Newline
<1>1. NoPacket \notin Packet
  BY ReceiverAssumption DEF ReceiverAssumption, NoPacket, Packet
<1>2. \A p \in Packet, i \in {1, 2} : Part(p, i) \in Symbols /\ Part(p, i) \notin {Newline, Zero}
  BY <1>1 DEF Part, Newline, Zero, Symbols
<1>3. Newline \in Symbols /\ Zero \in Symbols /\ Spoilt \in Symbols
  BY DEF Symbols
<1>4. Zero # Newline /\ Spoilt # Newline
  BY DEF Zero, Newline, Spoilt
<1> QED  BY <1>1, <1>2, <1>3, <1>4

\* A report leaves the port with its type.
LEMMA ReportedType ==
  ASSUME port \in [addr_current : Ports, addr_diff : Ports, consistency_count : 0 .. 255],
         NEW a \in Ports
  PROVE  Reported(a).port \in [addr_current : Ports, addr_diff : Ports, consistency_count : 0 .. 255]
<1> DEFINE n == (port.consistency_count + 1) % 256
<1>1. n \in 0 .. 255
  OBVIOUS
<1> HIDE DEF n
<1>2. CASE a = port.addr_current
  <2>1. Reported(a) = [port |-> port, believed |-> FALSE, ask |-> FALSE]
    BY <1>2 DEF Reported
  <2> QED  BY <2>1
<1>3. CASE a # port.addr_current /\ a # port.addr_diff
  <2>1. Reported(a) = [port |-> [port EXCEPT !.addr_diff = a, !.consistency_count = 0],
                       believed |-> FALSE, ask |-> FALSE]
    BY <1>3 DEF Reported
  <2>2. Reported(a).port = [port EXCEPT !.addr_diff = a, !.consistency_count = 0]
    BY <2>1
  <2> DEFINE q == [port EXCEPT !.addr_diff = a]
  <2>3. q \in [addr_current : Ports, addr_diff : Ports, consistency_count : 0 .. 255]
    OBVIOUS
  <2>4. Reported(a).port = [q EXCEPT !.consistency_count = 0]
    BY <2>2
  <2> HIDE DEF q
  <2> QED  BY <2>3, <2>4
<1>4. CASE a # port.addr_current /\ a = port.addr_diff
  <2>1. Reported(a) =
          IF n = TOPOLOGY_CONSISTENCY_COUNT
          THEN [port |-> [addr_current |-> a, addr_diff |-> a, consistency_count |-> n],
                believed |-> TRUE, ask |-> FALSE]
          ELSE [port |-> [port EXCEPT !.consistency_count = n], believed |-> FALSE, ask |-> TRUE]
    BY <1>4 DEF Reported, n
  <2> QED  BY <2>1, <1>1
<1> QED  BY <1>2, <1>3, <1>4

-----------------------------------------------------------------------------
LEMMA TypeInit == Init => TypeOK
<1> SUFFICES ASSUME Init PROVE TypeOK  OBVIOUS
<1>1. /\ <<>> \in Seq(Symbols) /\ <<>> \in Seq(Seq(Symbols)) /\ Len(<<>>) = 0
      /\ <<>> \in Seq(Ports) /\ <<>> \in Seq(1 .. 0)
  OBVIOUS
<1> QED  BY <1>1, Bounds DEF Init, TypeOK

\* The steps of the bus.
LEMMA TypeBus == TypeOK /\ BusStep => TypeOK'
<1> SUFFICES ASSUME TypeOK, BusStep PROVE TypeOK'  OBVIOUS
<1> USE DEF bus, module, updates
<1>1. ASSUME NEW p \in Packet, SendLine(p) PROVE TypeOK'
  <2>1. <<Part(p, 1), Part(p, 2), Newline>> \in Seq(Symbols)
    BY PacketFacts
  <2>2. lines' \in 0 .. MaxLines
    BY <1>1, Bounds DEF SendLine, TypeOK
  <2> QED  BY <1>1, <2>1, <2>2 DEF SendLine, TypeOK
<1>2. ASSUME NEW w \in Seq(Symbols), Fault(w) PROVE TypeOK'
  <2>1. faults' \in 0 .. MaxFaults
    BY <1>2, Bounds DEF Fault, TypeOK
  <2> QED  BY <1>2, <2>1 DEF Fault, TypeOK
<1>3. CASE Lose
  <2>1. Tail(wire) \in Seq(Symbols)
    BY <1>3 DEF Lose, Fault, TypeOK
  <2> QED  BY <1>3, <1>2, <2>1 DEF Lose
<1>4. CASE Spoil
  <2>1. Tail(wire) \in Seq(Symbols)
    BY <1>4 DEF Spoil, Fault, TypeOK
  <2>2. <<Spoilt>> \o Tail(wire) \in Seq(Symbols)
    BY <2>1, PacketFacts
  <2> QED  BY <1>4, <1>2, <2>2 DEF Spoil
<1>5. CASE InsertZero
  <2>1. <<Zero>> \o wire \in Seq(Symbols)
    BY PacketFacts DEF TypeOK
  <2> QED  BY <1>5, <1>2, <2>1 DEF InsertZero
<1> QED  BY <1>1, <1>3, <1>4, <1>5 DEF BusStep

\* The steps of parse_packets.
LEMMA TypeReading == TypeOK /\ Reading => TypeOK'
<1> SUFFICES ASSUME TypeOK, Reading PROVE TypeOK'  OBVIOUS
<1> USE DEF bus, module, updates
<1>1. CASE BeginRead
  BY <1>1 DEF BeginRead, TypeOK
<1>2. CASE ReadZero
  <2>1. PICK n \in 1 .. Len(wire) : wire' = SubSeq(wire, n + 1, Len(wire))
    BY <1>2 DEF ReadZero
  <2>2. wire' \in Seq(Symbols)
    BY <2>1 DEF TypeOK
  <2> QED  BY <1>2, <2>2 DEF ReadZero, TypeOK
<1>3. CASE ReadNewline
  <2>1. wire' \in Seq(Symbols)
    BY <1>3 DEF ReadNewline, Consume, TypeOK
  <2>2. packet_queue' \in Seq(Seq(Symbols))
    BY <1>3 DEF ReadNewline, TypeOK
  <2>3. packet_buffer' \in Seq(Symbols) /\ Len(packet_buffer') <= IN_BUFFER_SIZE
    BY <1>3, Bounds DEF ReadNewline
  <2> QED  BY <1>3, <2>1, <2>2, <2>3 DEF ReadNewline, Consume, TypeOK
<1>4. CASE ReadCharacter
  <2>1. wire' \in Seq(Symbols) /\ Head(wire) \in Symbols
    BY <1>4 DEF ReadCharacter, Consume, TypeOK
  <2>2. packet_buffer' \in Seq(Symbols) /\ Len(packet_buffer') <= IN_BUFFER_SIZE /\ valid' \in BOOLEAN
    <3>1. CASE Len(packet_buffer) < IN_BUFFER_SIZE
      <4>1. packet_buffer' = Append(packet_buffer, Head(wire)) /\ valid' = valid
        BY <1>4, <3>1 DEF ReadCharacter
      <4>2. Append(packet_buffer, Head(wire)) \in Seq(Symbols)
        BY <2>1 DEF TypeOK
      <4>3. Len(Append(packet_buffer, Head(wire))) = Len(packet_buffer) + 1 /\ Len(packet_buffer) \in Nat
        BY <2>1 DEF TypeOK
      <4> QED  BY <4>1, <4>2, <4>3, <3>1, Bounds DEF TypeOK
    <3>2. CASE ~ (Len(packet_buffer) < IN_BUFFER_SIZE)
      BY <1>4, <3>2 DEF ReadCharacter, TypeOK
    <3> QED  BY <3>1, <3>2
  <2> QED  BY <1>4, <2>1, <2>2 DEF ReadCharacter, Consume, TypeOK
<1>5. CASE EndRead
  BY <1>5 DEF EndRead, TypeOK
<1> QED  BY <1>1, <1>2, <1>3, <1>4, <1>5 DEF Reading

\* A sequence over a set is one over a larger set.
LEMMA LargerSet ==
  ASSUME NEW S, NEW T, S \subseteq T, NEW s \in Seq(S)
  PROVE  s \in Seq(T)
<1>1. Len(s) \in Nat /\ \A i \in 1 .. Len(s) : s[i] \in T
  OBVIOUS
<1>2. SubSeq(s, 1, Len(s)) \in Seq(T)
  BY <1>1, SubSeqProperties
<1> QED  BY <1>2, SubSeqFull

\* The queues after an update was made.
LEMMA TypeAdd ==
  ASSUME TypeOK, add_module_update
  PROVE  /\ made' = made + 1 /\ made' \in Nat /\ deleted' = deleted
         /\ update_list_' \in Seq(1 .. made') /\ updates_' \in Seq(1 .. made')
         /\ deleted' \subseteq 1 .. made'
<1>1. made' = made + 1 /\ made \in Nat /\ deleted' = deleted
  BY DEF add_module_update, TypeOK
<1>2. \A s \in Seq(1 .. made) : Append(s, made + 1) \in Seq(1 .. made')
  <2> TAKE s \in Seq(1 .. made)
  <2>2. s \in Seq(1 .. made + 1)
    <3>1. 1 .. made \subseteq 1 .. made + 1
      BY <1>1
    <3> QED  BY <3>1, LargerSet
  <2>3. made + 1 \in 1 .. made + 1
    BY <1>1
  <2> QED  BY <1>1, <2>2, <2>3, AppendProperties
<1> QED  BY <1>1, <1>2 DEF add_module_update, TypeOK

\* The steps of process_packet, of the tracker and of the application.
LEMMA TypeProcessing == TypeOK /\ (Processing \/ TakeUpdate) => TypeOK'
<1> SUFFICES ASSUME TypeOK, Processing \/ TakeUpdate PROVE TypeOK'  OBVIOUS
<1> USE DEF bus, module, updates
<1>1. CASE ProcessPacket
  <2>1. packet_queue' \in Seq(Seq(Symbols))
    BY <1>1 DEF ProcessPacket, TypeOK
  <2>2. /\ wire' = wire /\ sent' = sent /\ lines' = lines /\ faults' = faults
        /\ packet_buffer' = packet_buffer /\ phase' = phase /\ valid' = valid
    BY <1>1 DEF ProcessPacket
  <2> DEFINE Module == /\ port' \in [addr_current : Ports, addr_diff : Ports, consistency_count : 0 .. 255]
                       /\ reports' \in Seq(Ports) /\ asked' \in Nat
             Queues == /\ made' \in Nat /\ deleted' \subseteq 1 .. made'
                       /\ update_list_' \in Seq(1 .. made') /\ updates_' \in Seq(1 .. made')
  <2>3. ASSUME UNCHANGED updates PROVE Queues
    BY <2>3 DEF TypeOK
  <2>4. ASSUME UNCHANGED module PROVE Module
    BY <2>4 DEF TypeOK
  <2>5. ASSUME NEW a \in Ports, ProcessTopology(a) PROVE Module /\ Queues
    <3>1. port' = Reported(a).port /\ reports' = Append(reports, a) /\ asked' \in {asked, asked + 1}
      BY <2>5 DEF ProcessTopology
    <3>2. Module
      BY <3>1, ReportedType DEF TypeOK
    <3>3. Queues
      BY <2>3, <2>5, TypeAdd DEF ProcessTopology
    <3> QED  BY <3>2, <3>3
  <2>6. ASSUME ProcessOther PROVE Module /\ Queues
    BY <2>4, <2>6, TypeAdd DEF ProcessOther
  <2>7. Module /\ Queues
    <3> DEFINE line == Head(packet_queue)
    <3>1. CASE \E p \in Packet : line = Text(p)
      <4> DEFINE p == CHOOSE q \in Packet : line = Text(q)
                 key == parse_packet(p[1])
      <4>1. p \in Packet
        BY <3>1
      <4>2. p[2] \in Ports
        BY <4>1, Bounds DEF Packet
      <4>3. \/ ProcessTopology(p[2]) \/ ProcessOther \/ UNCHANGED <<module, updates>>
        BY <1>1, <3>1 DEF ProcessPacket
      <4> HIDE DEF p
      <4> QED  BY <4>2, <4>3, <2>3, <2>4, <2>5, <2>6
    <3>2. CASE ~ \E p \in Packet : line = Text(p)
      BY <1>1, <3>2, <2>3, <2>4 DEF ProcessPacket
    <3> QED  BY <3>1, <3>2
  <2> QED  BY <2>1, <2>2, <2>7 DEF TypeOK
<1>2. CASE ProcessDone
  BY <1>2 DEF ProcessDone, TypeOK
<1>3. CASE process_updates
  BY <1>3 DEF process_updates, TypeOK
<1>4. CASE TakeUpdate
  <2>1. Head(update_list_) \in 1 .. made /\ Tail(update_list_) \in Seq(1 .. made)
    BY <1>4 DEF TakeUpdate, TypeOK
  <2> QED  BY <1>4, <2>1 DEF TakeUpdate, TypeOK
<1> QED  BY <1>1, <1>2, <1>3, <1>4 DEF Processing

LEMMA TypeStep == TypeOK /\ [Next]_vars => TypeOK'
<1>1. TypeOK /\ UNCHANGED vars => TypeOK'
  BY DEF vars, bus, module, updates, TypeOK
<1> QED  BY <1>1, TypeBus, TypeReading, TypeProcessing DEF Next

\* The variables of the receiver keep their types; the port counter is a byte
\* and the line buffer is never longer than IN_BUFFER_SIZE.
THEOREM TypeCorrect == Spec => []TypeOK
<1> QED  BY TypeInit, TypeStep, PTL DEF Spec

-----------------------------------------------------------------------------
(***************************************************************************)
(* A line that is well so far.                                             *)
(***************************************************************************)
LEMMA LineInit == Init => LineInv
<1> SUFFICES ASSUME Init PROVE LineInv  OBVIOUS
<1>1. NewlineEnds
  BY DEF Init, NewlineEnds
<1>2. CleanAfterNewline /\ WellSoFar
  BY DEF Init, CleanAfterNewline, WellSoFar
<1> QED  BY <1>1, <1>2 DEF LineInv

\* A fault leaves no other newline, and no line that is well.
LEMMA LineFault ==
  ASSUME TypeOK, LineInv, NEW w \in Seq(Symbols), Fault(w),
         \A i \in 1 .. Len(w) : w[i] = Newline => i = Len(w)
  PROVE  LineInv'
<1>1. NewlineEnds'
  BY DEF Fault, NewlineEnds
<1>2. sent.packet # NoPacket /\ sent'.packet = sent.packet /\ sent'.well = FALSE
  BY DEF Fault, LineInv, CleanAfterNewline, TypeOK
<1> QED  BY <1>1, <1>2 DEF LineInv, CleanAfterNewline, WellSoFar

LEMMA LineBus == TypeOK /\ LineInv /\ BusStep => LineInv'
<1> SUFFICES ASSUME TypeOK, LineInv, BusStep PROVE LineInv'  OBVIOUS
<1>1. ASSUME NEW p \in Packet, SendLine(p) PROVE LineInv'
  <2>1. wire' = <<Part(p, 1), Part(p, 2), Newline>>
    BY <1>1 DEF SendLine
  <2>2. NewlineEnds'
    BY <2>1, PacketFacts DEF NewlineEnds
  <2>3. sent' = [packet |-> p, well |-> sent.packet = NoPacket] /\ p # NoPacket
        /\ packet_buffer' = packet_buffer /\ valid' = valid
    BY <1>1, PacketFacts DEF SendLine
  <2>4. CleanAfterNewline'
    BY <2>3 DEF CleanAfterNewline
  <2>5. WellSoFar'
    BY <2>1, <2>3 DEF WellSoFar, LineInv, CleanAfterNewline, Arrived
  <2> QED  BY <2>2, <2>4, <2>5 DEF LineInv
<1>2. CASE Lose \/ Spoil \/ InsertZero
  <2>1. wire \in Seq(Symbols) /\ wire # <<>> /\ NewlineEnds
    BY <1>2 DEF Lose, Spoil, InsertZero, Fault, TypeOK, LineInv
  <2>2. /\ Tail(wire) \in Seq(Symbols) /\ Len(Tail(wire)) = Len(wire) - 1
        /\ \A i \in 1 .. Len(Tail(wire)) : Tail(wire)[i] = wire[i + 1]
    BY <2>1, HeadTailProperties
  <2>3. \A i \in 1 .. Len(Tail(wire)) : Tail(wire)[i] = Newline => i = Len(Tail(wire))
    <3> TAKE i \in 1 .. Len(Tail(wire))
    <3> HAVE Tail(wire)[i] = Newline
    <3>1. i + 1 \in 1 .. Len(wire) /\ wire[i + 1] = Newline
      BY <2>1, <2>2
    <3>2. i + 1 = Len(wire)
      BY <3>1, <2>1 DEF NewlineEnds
    <3> QED  BY <3>2, <2>1, <2>2
  <2>4. ASSUME NEW x \in Symbols, x # Newline, NEW s \in Seq(Symbols),
               \A i \in 1 .. Len(s) : s[i] = Newline => i = Len(s)
        PROVE  /\ <<x>> \o s \in Seq(Symbols)
               /\ \A i \in 1 .. Len(<<x>> \o s) : (<<x>> \o s)[i] = Newline => i = Len(<<x>> \o s)
    <3>1. /\ <<x>> \o s \in Seq(Symbols) /\ Len(<<x>> \o s) = Len(s) + 1 /\ Len(s) \in Nat
          /\ \A i \in 1 .. Len(s) + 1 : (<<x>> \o s)[i] = IF i = 1 THEN x ELSE s[i - 1]
      OBVIOUS
    <3>2. ASSUME NEW i \in 1 .. Len(s) + 1, (<<x>> \o s)[i] = Newline PROVE i = Len(s) + 1
      <4>1. i # 1 /\ s[i - 1] = Newline
        BY <3>1, <3>2, <2>4
      <4>2. i - 1 \in 1 .. Len(s)
        BY <3>1, <4>1
      <4>3. i - 1 = Len(s)
        BY <4>1, <4>2, <2>4
      <4> QED  BY <4>3, <3>1
    <3> QED  BY <3>1, <3>2
  <2>5. CASE Lose
    BY <2>5, <2>2, <2>3, LineFault DEF Lose
  <2>6. CASE Spoil
    <3>1. /\ <<Spoilt>> \o Tail(wire) \in Seq(Symbols)
          /\ \A i \in 1 .. Len(<<Spoilt>> \o Tail(wire)) :
               (<<Spoilt>> \o Tail(wire))[i] = Newline => i = Len(<<Spoilt>> \o Tail(wire))
      BY <2>2, <2>3, <2>4, PacketFacts
    <3> QED  BY <2>6, <3>1, LineFault DEF Spoil
  <2>7. CASE InsertZero
    <3>1. /\ <<Zero>> \o wire \in Seq(Symbols)
          /\ \A i \in 1 .. Len(<<Zero>> \o wire) :
               (<<Zero>> \o wire)[i] = Newline => i = Len(<<Zero>> \o wire)
      BY <2>1, <2>4, PacketFacts DEF NewlineEnds
    <3> QED  BY <2>7, <3>1, LineFault DEF InsertZero
  <2> QED  BY <1>2, <2>5, <2>6, <2>7
<1> QED  BY <1>1, <1>2 DEF BusStep

\* What has arrived when a character of a line that is well is read.
LEMMA ReadPart ==
  ASSUME TypeOK, NEW p \in Packet, Arrived(p), ReadCharacter
  PROVE  Arrived(p)' /\ valid' = valid
<1>1. CASE wire = <<Part(p, 1), Part(p, 2), Newline>> /\ packet_buffer = <<>>
  <2>1. wire' = <<Part(p, 2), Newline>> /\ Head(wire) = Part(p, 1)
    BY <1>1 DEF ReadCharacter, Consume
  <2>2. Len(packet_buffer) < IN_BUFFER_SIZE
    BY <1>1, Bounds
  <2>3. packet_buffer' = <<Part(p, 1)>> /\ valid' = valid
    BY <1>1, <2>1, <2>2 DEF ReadCharacter
  <2> QED  BY <2>1, <2>3 DEF Arrived
<1>2. CASE wire = <<Part(p, 2), Newline>> /\ packet_buffer = <<Part(p, 1)>>
  <2>1. wire' = <<Newline>> /\ Head(wire) = Part(p, 2)
    BY <1>2 DEF ReadCharacter, Consume
  <2>2. Len(packet_buffer) < IN_BUFFER_SIZE
    BY <1>2, Bounds
  <2>3. packet_buffer' = <<Part(p, 1), Part(p, 2)>> /\ valid' = valid
    BY <1>2, <2>1, <2>2 DEF ReadCharacter
  <2> QED  BY <2>1, <2>3 DEF Arrived, Text
<1>3. wire # <<Newline>>
  BY DEF ReadCharacter
<1> QED  BY <1>1, <1>2, <1>3 DEF Arrived

LEMMA LineReading == TypeOK /\ LineInv /\ Reading => LineInv'
<1> SUFFICES ASSUME TypeOK, LineInv, Reading PROVE LineInv'  OBVIOUS
<1>1. ASSUME UNCHANGED <<wire, sent, packet_buffer>>, valid' \in {valid, TRUE} PROVE LineInv'
  BY <1>1 DEF LineInv, NewlineEnds, CleanAfterNewline, WellSoFar, Arrived
<1>2. CASE BeginRead \/ EndRead
  BY <1>1, <1>2 DEF BeginRead, EndRead, bus
<1>3. ASSUME Consume PROVE NewlineEnds'
  <2>1. /\ wire' = Tail(wire) /\ wire # <<>> /\ wire \in Seq(Symbols)
    BY <1>3 DEF Consume, TypeOK
  <2>2. /\ Len(wire') = Len(wire) - 1 /\ Len(wire) \in Nat
        /\ \A i \in 1 .. Len(wire') : wire'[i] = wire[i + 1]
    BY <2>1, HeadTailProperties
  <2>3. ASSUME NEW i \in 1 .. Len(wire'), wire'[i] = Newline PROVE i = Len(wire')
    <3>1. i + 1 \in 1 .. Len(wire) /\ wire[i + 1] = Newline
      BY <2>2, <2>3
    <3>2. i + 1 = Len(wire)
      BY <3>1 DEF LineInv, NewlineEnds
    <3> QED  BY <3>2, <2>2
  <2> QED  BY <2>3 DEF NewlineEnds
<1>4. CASE ReadZero
  <2>1. PICK n \in 1 .. Len(wire) : wire' = SubSeq(wire, n + 1, Len(wire))
    BY <1>4 DEF ReadZero
  <2>2. /\ Len(wire') = Len(wire) - n /\ Len(wire) \in Nat
        /\ \A i \in 1 .. Len(wire') : wire'[i] = wire[i + n]
    BY <2>1 DEF TypeOK
  <2>3. ASSUME NEW i \in 1 .. Len(wire'), wire'[i] = Newline PROVE i = Len(wire')
    <3>1. i + n \in 1 .. Len(wire) /\ wire[i + n] = Newline
      BY <2>2, <2>3
    <3>2. i + n = Len(wire)
      BY <3>1 DEF LineInv, NewlineEnds
    <3> QED  BY <3>2, <2>2
  <2>4. NewlineEnds'
    BY <2>3 DEF NewlineEnds
  <2>5. wire # <<>> /\ Head(wire) = Zero /\ sent' = sent
    BY <1>4 DEF ReadZero
  <2>6. sent.packet # NoPacket /\ sent.packet \in Packet
    BY <2>5 DEF LineInv, CleanAfterNewline, TypeOK
  <2>7. ~ sent.well
    <3> SUFFICES ASSUME sent.well PROVE FALSE
      BY DEF TypeOK
    <3>1. Arrived(sent.packet)
      BY <2>6 DEF LineInv, WellSoFar
    <3>2. Head(wire) \in {Part(sent.packet, 1), Part(sent.packet, 2), Newline}
      BY <3>1 DEF Arrived
    <3> QED  BY <3>2, <2>5, <2>6, PacketFacts
  <2> QED  BY <2>4, <2>5, <2>6, <2>7 DEF LineInv, CleanAfterNewline, WellSoFar
<1>5. CASE ReadNewline
  <2>1. wire # <<>> /\ Head(wire) = Newline /\ wire' = Tail(wire) /\ wire \in Seq(Symbols)
    BY <1>5 DEF ReadNewline, Consume, TypeOK
  <2>2. wire[1] = Newline /\ 1 \in 1 .. Len(wire) /\ Len(wire) \in Nat
    BY <2>1
  <2>3. Len(wire) = 1
    BY <2>2 DEF LineInv, NewlineEnds
  <2>4. wire' = <<>>
    BY <2>1, <2>3
  <2>5. sent' = [packet |-> NoPacket, well |-> TRUE] /\ packet_buffer' = <<>> /\ valid'
    BY <1>5 DEF ReadNewline
  <2>6. NewlineEnds'
    BY <1>3, <1>5 DEF ReadNewline
  <2> QED  BY <2>4, <2>5, <2>6 DEF LineInv, CleanAfterNewline, WellSoFar
<1>6. CASE ReadCharacter
  <2>1. wire # <<>> /\ sent' = sent
    BY <1>6 DEF ReadCharacter, Consume
  <2>2. sent.packet # NoPacket /\ sent.packet \in Packet
    BY <2>1 DEF LineInv, CleanAfterNewline, TypeOK
  <2>3. CleanAfterNewline'
    BY <2>1, <2>2 DEF CleanAfterNewline
  <2>4. WellSoFar'
    <3> SUFFICES ASSUME sent.well PROVE valid' /\ Arrived(sent.packet)'
      BY <2>1 DEF WellSoFar
    <3>1. valid /\ Arrived(sent.packet)
      BY <2>2 DEF LineInv, WellSoFar
    <3>2. PICK p \in Packet : p = sent.packet
      BY <2>2
    <3>3. Arrived(p)' /\ valid'
      BY <3>1, <3>2, <1>6, ReadPart
    <3> QED  BY <3>2, <3>3, <2>1 DEF Arrived
  <2>5. NewlineEnds'
    BY <1>3, <1>6 DEF ReadCharacter
  <2> QED  BY <2>3, <2>4, <2>5 DEF LineInv
<1> QED  BY <1>2, <1>4, <1>5, <1>6 DEF Reading

LEMMA LineStep == TypeOK /\ LineInv /\ [Next]_vars => LineInv'
<1> SUFFICES ASSUME TypeOK, LineInv, [Next]_vars PROVE LineInv'  OBVIOUS
<1>1. CASE UNCHANGED vars \/ Processing \/ TakeUpdate
  <2>1. UNCHANGED <<wire, sent, packet_buffer, valid>>
    BY <1>1 DEF vars, bus, Processing, ProcessPacket, ProcessDone, process_updates, TakeUpdate
  <2> QED  BY <2>1 DEF LineInv, NewlineEnds, CleanAfterNewline, WellSoFar, Arrived
<1> QED  BY <1>1, LineBus, LineReading DEF Next

LEMMA Invariance == Spec => []IInv
<1>1. Init => IInv
  BY TypeInit, LineInit DEF IInv
<1>2. IInv /\ [Next]_vars => IInv'
  BY TypeStep, LineStep DEF IInv
<1> QED  BY <1>1, <1>2, PTL DEF Spec

\* Whatever garbage came before, a line that follows a newline and arrives
\* well is handed over complete by parse_packets, however the reads cut it.
THEOREM GoodLines == Spec => GoodLinesArrive
<1> DEFINE Handed == wire = <<Newline>> /\ wire' = <<>> /\ sent.well /\ faults' = faults =>
                       packet_queue' = Append(packet_queue, Text(sent.packet))
<1>1. IInv /\ [Next]_vars => [Handed]_vars
  <2> SUFFICES ASSUME IInv, Next, wire = <<Newline>>, wire' = <<>>, sent.well, faults' = faults
               PROVE  packet_queue' = Append(packet_queue, Text(sent.packet))
    OBVIOUS
  <2>1. wire # wire'
    OBVIOUS
  <2>2. ~ BusStep
    <3>1. \A p \in Packet : ~ SendLine(p)
      BY DEF SendLine
    <3>2. \A w : ~ Fault(w)
      BY DEF Fault, IInv, TypeOK
    <3> QED  BY <3>1, <3>2 DEF BusStep, Lose, Spoil, InsertZero
  <2>3. ~ (Processing \/ TakeUpdate \/ BeginRead \/ EndRead)
    BY <2>1 DEF Processing, ProcessPacket, ProcessDone, process_updates, TakeUpdate, BeginRead,
                EndRead, bus
  <2>4. ~ ReadZero /\ ~ ReadCharacter
    BY PacketFacts DEF ReadZero, ReadCharacter
  <2>5. ReadNewline
    BY <2>2, <2>3, <2>4 DEF Next, Reading
  <2>6. sent.packet # NoPacket
    BY DEF IInv, LineInv, CleanAfterNewline
  <2>7. valid /\ Arrived(sent.packet)
    BY <2>6 DEF IInv, LineInv, WellSoFar
  <2>8. packet_buffer = Text(sent.packet)
    BY <2>7 DEF Arrived
  <2> QED  BY <2>5, <2>7, <2>8 DEF ReadNewline
<1> QED  BY <1>1, Invariance, PTL DEF Spec, GoodLinesArrive

-----------------------------------------------------------------------------
(***************************************************************************)
(* The updates.                                                            *)
(***************************************************************************)
LEMMA ReadFirstStep == TypeOK /\ TrackerReadsFirst /\ [Next]_vars => TrackerReadsFirst'
<1> SUFFICES ASSUME TypeOK, TrackerReadsFirst, [Next]_vars PROVE TrackerReadsFirst'  OBVIOUS
<1>1. CASE BusStep \/ TakeUpdate \/ UNCHANGED vars
  BY <1>1 DEF TrackerReadsFirst, BusStep, SendLine, Lose, Spoil, InsertZero, Fault, TakeUpdate,
              vars, updates
<1>2. CASE Reading
  BY <1>2 DEF TrackerReadsFirst, Reading, BeginRead, ReadZero, ReadNewline, ReadCharacter,
              EndRead, Consume, updates
<1>3. CASE ProcessPacket \/ ProcessDone
  <2>1. phase' \in {"process", "updates"}
    BY <1>3 DEF ProcessPacket, ProcessDone
  <2> QED  BY <2>1 DEF TrackerReadsFirst
<1>4. CASE process_updates
  BY <1>4 DEF process_updates, TrackerReadsFirst
<1> QED  BY <1>1, <1>2, <1>3, <1>4 DEF Next, Processing

\* When the service has returned the tracker has read every update, so that an
\* application that takes them between calls deletes none first; whichever
\* thread the application takes them in (eigen_comms.cpp:440-442).
THEOREM UpdatesAreRead == Spec => []TrackerReadsFirst
<1>1. Init => TrackerReadsFirst
  BY DEF Init, TrackerReadsFirst
<1>2. TypeOK /\ TrackerReadsFirst /\ [Next]_vars => TrackerReadsFirst'
  BY ReadFirstStep
<1> QED  BY <1>1, <1>2, TypeCorrect, PTL DEF Spec
-----------------------------------------------------------------------------
(***************************************************************************)
(* The port.                                                               *)
(***************************************************************************)

\* The address that was reported last instead of the current one was reported
\* once more than it was counted, since anything but the current one was.
Confirming ==
  port.addr_diff # port.addr_current =>
    Confirms(reports, port.addr_current, port.addr_diff, port.consistency_count + 1)

LEMMA AppendIs ==
  ASSUME NEW s \in Seq(Ports), NEW a \in Ports
  PROVE  /\ Len(Append(s, a)) = Len(s) + 1 /\ Len(s) \in Nat
         /\ \A i \in 1 .. Len(s) : Append(s, a)[i] = s[i]
         /\ Append(s, a)[Len(s) + 1] = a
OBVIOUS

\* A first report of an address.
LEMMA FirstReport ==
  ASSUME NEW s \in Seq(Ports), NEW old, NEW a \in Ports
  PROVE  Confirms(Append(s, a), old, a, 1)
<1> DEFINE m == Len(s) + 1
           t == Append(s, a)
<1>1. m \in Nat /\ m \in 1 .. m /\ Len(t) = m /\ t[m] = a
  BY AppendIs
<1> HIDE DEF m, t
<1>2. \A i \in m .. m : i = m
  BY <1>1
<1> DEFINE A == {i \in m .. m : t[i] = a}
<1>3. A = {m}
  BY <1>1, <1>2
<1>4. Cardinality(A) >= 1
  <2> HIDE DEF A
  <2>1. Cardinality({m}) = 1
    BY FS_Singleton
  <2> QED  BY <1>3, <2>1
<1>5. Confirms(t, old, a, 1)
  BY <1>1, <1>2, <1>4 DEF Confirms
<1> QED  BY <1>5 DEF t

\* One report more, of the old address or the new.
LEMMA NextReport ==
  ASSUME NEW s \in Seq(Ports), NEW old, NEW new, NEW n \in Nat, Confirms(s, old, new, n),
         NEW a \in Ports, a \in {old, new}
  PROVE  Confirms(Append(s, a), old, new, IF a = new THEN n + 1 ELSE n)
<1> DEFINE l == Len(s)
           t == Append(s, a)
<1>1. l \in Nat /\ Len(t) = l + 1 /\ t[l + 1] = a /\ \A i \in 1 .. l : t[i] = s[i]
  BY AppendIs
<1>2. PICK j \in 1 .. l : /\ \A i \in j .. l : s[i] \in {old, new}
                          /\ Cardinality({i \in j .. l : s[i] = new}) >= n
  BY DEF Confirms
<1> HIDE DEF l, t
<1> DEFINE A == {i \in j .. l : s[i] = new}
           B == {i \in j .. l + 1 : t[i] = new}
<1>3. j \in 1 .. l + 1 /\ l + 1 \in j .. l + 1 /\ l + 1 \notin A
      /\ (\A i \in j .. l + 1 : i = l + 1 \/ i \in j .. l)
      /\ \A i \in j .. l : i \in j .. l + 1 /\ i \in 1 .. l
  BY <1>1
<1>4. \A i \in j .. l + 1 : t[i] \in {old, new}
  BY <1>1, <1>2, <1>3
<1>5. IsFiniteSet(A)
  <2>1. IsFiniteSet(j .. l)
    BY <1>1, FS_Interval
  <2> QED  BY <2>1, FS_Subset
<1>6. Cardinality(A) \in Nat /\ Cardinality(A) >= n
  BY <1>2, <1>5, FS_CardinalityType
<1>7. Cardinality(B) >= IF a = new THEN n + 1 ELSE n
  <2>1. CASE a = new
    <3>1. B = A \cup {l + 1}
      BY <1>1, <1>3, <2>1
    <3>2. Cardinality(A \cup {l + 1}) = Cardinality(A) + 1
      BY <1>3, <1>5, FS_AddElement
    <3> HIDE DEF A, B
    <3> QED  BY <1>6, <2>1, <3>1, <3>2
  <2>2. CASE a # new
    <3>1. B = A
      BY <1>1, <1>3, <2>2
    <3> HIDE DEF A, B
    <3> QED  BY <1>6, <2>2, <3>1
  <2> QED  BY <2>1, <2>2
<1>8. Confirms(t, old, new, IF a = new THEN n + 1 ELSE n)
  BY <1>1, <1>3, <1>4, <1>7 DEF Confirms
<1> QED  BY <1>8 DEF t

\* A report that is accepted keeps Confirming, and what is believed was confirmed.
LEMMA PortReport ==
  ASSUME TypeOK, Confirming, NEW a \in Ports, ProcessTopology(a)
  PROVE  /\ Confirming'
         /\ port'.addr_current # port.addr_current =>
              Confirms(reports', port.addr_current, port'.addr_current, TOPOLOGY_CONSISTENCY_COUNT + 1)
<1> DEFINE cur == port.addr_current
           n == (port.consistency_count + 1) % 256
<1>1. /\ port \in [addr_current : Ports, addr_diff : Ports, consistency_count : 0 .. 255]
      /\ reports \in Seq(Ports) /\ reports' = Append(reports, a) /\ port' = Reported(a).port
  BY DEF TypeOK, ProcessTopology
<1>2. n \in Nat /\ n <= port.consistency_count + 1 /\ port.consistency_count + 1 \in Nat
  <2>1. PICK c \in 0 .. 255 : c = port.consistency_count
    BY <1>1
  <2>2. (c + 1) % 256 \in Nat /\ (c + 1) % 256 <= c + 1
    OBVIOUS
  <2> QED  BY <2>1, <2>2
<1> HIDE DEF n
<1>3. CASE a = port.addr_current
  <2>1. port' = port
    BY <1>1, <1>3 DEF Reported
  <2>2. CASE port.addr_diff = port.addr_current
    BY <2>1, <2>2 DEF Confirming
  <2>3. CASE port.addr_diff # port.addr_current
    <3>1. Confirms(reports, cur, port.addr_diff, port.consistency_count + 1)
      BY <2>3 DEF Confirming
    <3>2. Confirms(reports', cur, port.addr_diff, IF a = port.addr_diff THEN port.consistency_count + 1 + 1
                                                  ELSE port.consistency_count + 1)
      BY <1>1, <1>2, <1>3, <3>1, NextReport
    <3> QED  BY <1>3, <2>1, <2>3, <3>2 DEF Confirming
  <2> QED  BY <2>1, <2>2, <2>3
<1>4. CASE a # port.addr_current /\ a # port.addr_diff
  <2>1. port' = [port EXCEPT !.addr_diff = a, !.consistency_count = 0]
    BY <1>1, <1>4 DEF Reported
  <2>2. port'.addr_current = cur /\ port'.addr_diff = a /\ port'.consistency_count = 0
    BY <1>1, <2>1
  <2>3. Confirms(reports', cur, a, 1)
    BY <1>1, FirstReport
  <2>4. port'.consistency_count + 1 = 1
    BY <2>2
  <2> QED  BY <2>2, <2>3, <2>4 DEF Confirming
<1>5. CASE a # port.addr_current /\ a = port.addr_diff
  <2>1. Confirms(reports, cur, a, port.consistency_count + 1)
    BY <1>5 DEF Confirming
  <2>2. PICK c : c = port.consistency_count + 1
    OBVIOUS
  <2>3. Confirms(reports', cur, a, c + 1)
    <3>1. Confirms(Append(reports, a), cur, a, IF a = a THEN c + 1 ELSE c)
      BY <1>1, <1>2, <2>1, <2>2, NextReport
    <3> QED  BY <1>1, <3>1
  <2>4. Confirms(reports', cur, a, n + 1)
    <3>1. PICK j \in 1 .. Len(reports') :
            /\ \A i \in j .. Len(reports') : reports'[i] \in {cur, a}
            /\ Cardinality({i \in j .. Len(reports') : reports'[i] = a}) >= c + 1
      BY <2>3 DEF Confirms
    <3>2. Cardinality({i \in j .. Len(reports') : reports'[i] = a}) \in Nat
      <4>1. Len(reports') \in Nat
        BY <1>1, AppendIs
      <4>2. IsFiniteSet(j .. Len(reports'))
        BY <4>1, FS_Interval
      <4> QED  BY <4>2, FS_Subset, FS_CardinalityType
    <3>3. PICK q : q = Cardinality({i \in j .. Len(reports') : reports'[i] = a})
      OBVIOUS
    <3>4. q >= n + 1
      BY <1>2, <2>2, <3>1, <3>2, <3>3
    <3> QED  BY <3>1, <3>3, <3>4 DEF Confirms
  <2>5. CASE n = TOPOLOGY_CONSISTENCY_COUNT
    <3>1. port' = [addr_current |-> a, addr_diff |-> a, consistency_count |-> n]
      BY <1>1, <1>5, <2>5 DEF Reported, n
    <3> QED  BY <2>4, <2>5, <3>1 DEF Confirming
  <2>6. CASE n # TOPOLOGY_CONSISTENCY_COUNT
    <3>1. port' = [port EXCEPT !.consistency_count = n]
      BY <1>1, <1>5, <2>6 DEF Reported, n
    <3>2. port'.addr_current = cur /\ port'.addr_diff = a /\ port'.consistency_count = n
      BY <1>1, <1>5, <3>1
    <3> QED  BY <2>4, <3>2 DEF Confirming
  <2> QED  BY <2>5, <2>6
<1> QED  BY <1>3, <1>4, <1>5

\* update_downstream believes that a port changed only when the new address was
\* reported more than TOPOLOGY_CONSISTENCY_COUNT times with nothing but the old one
\* in between, for any addresses, any such count, and although the counter is a byte.
THEOREM Confirmed == Spec => BelievedWasConfirmed
<1> DEFINE Believed == port'.addr_current # port.addr_current =>
                         Confirms(reports', port.addr_current, port'.addr_current, TOPOLOGY_CONSISTENCY_COUNT + 1)
<1>1. Init => Confirming
  BY DEF Init, Confirming
<1>2. TypeOK /\ Confirming /\ [Next]_vars => Confirming' /\ Believed
  <2> SUFFICES ASSUME TypeOK, Confirming, [Next]_vars PROVE Confirming' /\ Believed  OBVIOUS
  <2>1. CASE UNCHANGED module
    BY <2>1 DEF module, Confirming
  <2>2. CASE \E a \in Ports : ProcessTopology(a)
    BY <2>2, PortReport
  <2>3. UNCHANGED module \/ \E a \in Ports : ProcessTopology(a)
    <3>1. ASSUME ProcessPacket
          PROVE  UNCHANGED module \/ \E a \in Ports : ProcessTopology(a)
      <4>1. \A p \in Packet : p[2] \in Ports
        BY ReceiverAssumption DEF Packet, ReceiverAssumption
      <4>2. PICK line : line = Head(packet_queue)
        OBVIOUS
      <4>3. CASE \E p \in Packet : line = Text(p)
        <5>1. PICK p : p = CHOOSE q \in Packet : line = Text(q)
          OBVIOUS
        <5>2. p \in Packet
          BY <4>3, <5>1
        <5>3. \/ ProcessTopology(p[2])
              \/ ProcessOther
              \/ UNCHANGED <<module, updates>>
          BY <3>1, <4>2, <4>3, <5>1 DEF ProcessPacket
        <5> QED  BY <4>1, <5>2, <5>3 DEF ProcessOther
      <4>4. CASE ~ \E p \in Packet : line = Text(p)
        BY <3>1, <4>2, <4>4 DEF ProcessPacket
      <4> QED  BY <4>3, <4>4
    <3>2. ASSUME BusStep PROVE UNCHANGED module
      BY <3>2 DEF BusStep, SendLine, Lose, Spoil, InsertZero, Fault
    <3>3. ASSUME Reading PROVE UNCHANGED module
      BY <3>3 DEF Reading, BeginRead, ReadZero, ReadNewline, ReadCharacter, EndRead
    <3>4. ASSUME ProcessDone \/ process_updates \/ TakeUpdate PROVE UNCHANGED module
      BY <3>4 DEF ProcessDone, process_updates, TakeUpdate
    <3>5. ASSUME UNCHANGED vars PROVE UNCHANGED module
      BY <3>5 DEF vars
    <3> QED  BY <3>1, <3>2, <3>3, <3>4, <3>5 DEF Next, Processing
  <2> QED  BY <2>1, <2>2, <2>3
<1>3. TypeOK /\ Confirming /\ [Next]_vars => [Believed]_vars
  BY <1>2
<1> QED  BY <1>1, <1>2, <1>3, TypeCorrect, PTL DEF Spec, BelievedWasConfirmed
=============================================================================
