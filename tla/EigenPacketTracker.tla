------------------------- MODULE EigenPacketTracker -------------------------
(***************************************************************************)
(* The packet tracker of the Eigenbus host (eigen_packet_filter.cpp) and   *)
(* the part of the service loop (eigen_comms.cpp) that drives it.          *)
(*                                                                         *)
(* Every command written to the bus leaves a filter in a queue.  A         *)
(* response credits the first filter it matches; a filter whose wait       *)
(* exceeds PACKET_TIMEOUT is resent, dropped or counted as a success; a    *)
(* sweep at the end of the service cycle removes the satisfied filters.    *)
(* One call of service_eigen_comms is a run through the phases             *)
(* timeout -> resend -> send -> receive -> success -> idle; the clock and  *)
(* the application thread (set_eigen_config, set_poll_enabled) interleave  *)
(* with every step of it.                                                  *)
(*                                                                         *)
(* Abstractions.  A packet is an id, a string is a model value, and        *)
(* substring search is the relation Contains.  The clock counts units in   *)
(* which PacketTimeout is measured.  Raw packet logging, latencies and     *)
(* rates are left out.                                                     *)
(***************************************************************************)
EXTENDS Naturals, Sequences

CONSTANTS
  Modules,        \* addresses of the modules on the bus
  Broadcast,      \* the address 0xFF
  NoText,         \* the empty string
  Texts,          \* filters and responses that are not the empty string
  Contains,       \* {<<response, filter>>: the response contains the filter}
  Commands,       \* commands: [addr, filter, reply], reply is what a module says
  UIDPoll,        \* the broadcast UID poll queued for an unrequested response
  Additional,     \* Additional[t]: the responses that follow a response t
  Spontaneous,    \* responses a module sends on its own
  RetrySettings,  \* values the application gives config.max_retries
  PacketTimeout,  \* PACKET_TIMEOUT, in clock units
  ClockStepsBack, \* TRUE: system_clock may be set back while the host runs
  MaxSent,        \* bound: packets tracked in a behaviour
  MaxStray        \* bound: responses nobody asked for in a behaviour

Addresses == Modules \cup {Broadcast}
Command == [addr: Addresses, filter: Texts \cup {NoText},
            reply: Texts \cup {NoText}]

ASSUME BusAssumption ==
  /\ Broadcast \notin Modules
  /\ NoText \notin Texts
  /\ Contains \subseteq Texts \X Texts
  /\ Commands \subseteq Command
  /\ UIDPoll \in Command
  /\ Additional \in [Texts -> Seq(Texts)]
  /\ Spontaneous \subseteq Texts

ASSUME BoundAssumption ==
  /\ RetrySettings \subseteq Nat /\ RetrySettings # {}
  /\ PacketTimeout \in Nat
  /\ ClockStepsBack \in BOOLEAN
  /\ MaxSent \in Nat
  /\ MaxStray \in Nat

Ids == 1..MaxSent

VARIABLES
  filters,      \* packet_filter_list
  packetsOut,   \* packets_out: ids of the packets to write again
  phase,        \* where service_eigen_comms is
  limit,        \* max_retries, read once by handle_timeout_packets (0 outside)
  cursor,       \* it, in handle_successful_packets (1 outside)
  uidPolls,     \* UID polls waiting in cmd_list_
  maxRetries,   \* communication_config.max_retries, shared with the application
  enabled,      \* the enabled flag, shared with the application
  now,          \* current_time_ms()
  counters,     \* the EigenCounters of the tracker
  asked,        \* bus: the command behind each packet id
  owed,         \* bus: answers each module may still give to each packet
  writes,       \* bus: how often each packet was written
  stray,        \* bus: responses nobody asked for so far
  fate,         \* history: what became of each packet
  credited      \* history: modules whose response was credited to each packet

trackerVars == <<filters, packetsOut, counters>>
loopVars == <<phase, limit, cursor, uidPolls>>
appVars == <<maxRetries, enabled>>
busVars == <<asked, owed, writes, stray>>
historyVars == <<fate, credited>>
vars == <<filters, packetsOut, counters, phase, limit, cursor, uidPolls,
          maxRetries, enabled, now, asked, owed, writes, stray, fate, credited>>

Phases == {"idle", "timeout", "resend", "send", "receive", "success"}
Fates == {"unsent", "live", "success", "dropped", "forgotten"}
Filter == [id: Ids, addr: Addresses, filter: Texts \cup {NoText},
           packet: BOOLEAN, tsent: Nat, retries: Nat, from: SUBSET Modules]
Counters == [sent: Nat, success: Nat, dropped: Nat, retried: Nat,
             unrequested: Nat, spontaneous: Nat, forgotten: Nat]

TypeOK ==
  /\ filters \in Seq(Filter)
  /\ packetsOut \in Seq(Ids)
  /\ phase \in Phases
  /\ limit \in RetrySettings \cup {0}
  /\ cursor \in Nat \ {0}
  /\ uidPolls \in Nat
  /\ maxRetries \in RetrySettings
  /\ enabled \in BOOLEAN
  /\ now \in Nat
  /\ counters \in Counters
  /\ counters.sent <= MaxSent
  /\ asked \in [Ids -> Command]
  /\ owed \in [Ids -> [Modules -> Nat]]
  /\ writes \in [Ids -> Nat]
  /\ stray \in Nat
  /\ fate \in [Ids -> Fates]
  /\ credited \in [Ids -> SUBSET Modules]
-----------------------------------------------------------------------------
(***************************************************************************)
(* EigenPacketFilter.                                                      *)
(***************************************************************************)
IsBroadcast(f) == f.addr = Broadcast

ExpectsResponse(f) == f.filter # NoText

\* num_responses() > 0: a filter takes one response per address, so the set of
\* matched addresses stands for the list of matched responses.
Answered(f) == f.from # {}

\* The difference is taken in uint64_t: a clock set back behind t_sent_ makes
\* it wrap to a huge value.
IsPacketTimeout(f) == now < f.tsent \/ now - f.tsent > PacketTimeout

\* The empty filter is found in every packet.
MatchesFilter(f, m, t) ==
  /\ IsBroadcast(f) \/ f.addr = m
  /\ m \notin f.from
  /\ f.filter = NoText \/ <<t, f.filter>> \in Contains

NewFilter(n, cmd, hasPacket) ==
  [id |-> n, addr |-> cmd.addr, filter |-> cmd.filter, packet |-> hasPacket,
   tsent |-> now, retries |-> 0, from |-> {}]

IncrementRetryCount(f) == [f EXCEPT !.retries = @ + 1]

ResetTimeout(f) == [f EXCEPT !.tsent = now]

-----------------------------------------------------------------------------
(***************************************************************************)
(* The bus.  Writing a packet makes every module it addresses owe an       *)
(* answer; an answer may come at any later time, or never.                 *)
(***************************************************************************)
Owes(cmd, o) ==
  [m \in Modules |-> IF cmd.reply # NoText /\ cmd.addr \in {m, Broadcast}
                     THEN o[m] + 1 ELSE o[m]]

NoAnswers == [m \in Modules |-> 0]

Init ==
  /\ filters = <<>> /\ packetsOut = <<>>
  /\ phase = "idle" /\ cursor = 1 /\ uidPolls = 0
  /\ maxRetries \in RetrySettings /\ limit = 0
  /\ enabled = FALSE
  /\ now = 0
  /\ counters = [sent |-> 0, success |-> 0, dropped |-> 0, retried |-> 0,
                 unrequested |-> 0, spontaneous |-> 0, forgotten |-> 0]
  /\ asked = [i \in Ids |-> UIDPoll]
  /\ owed = [i \in Ids |-> NoAnswers]
  /\ writes = [i \in Ids |-> 0]
  /\ stray = 0
  /\ fate = [i \in Ids |-> "unsent"]
  /\ credited = [i \in Ids |-> {}]

-----------------------------------------------------------------------------
(***************************************************************************)
(* handle_timeout_packets: the call begins by reading max_retries, then    *)
(* treats the front of the queue while it has timed out.                   *)
(***************************************************************************)
\* Deliberate fault: the service forgets to look at timeouts.
BeginServiceNoTimeouts ==
  /\ phase = "idle"
  /\ enabled
  /\ phase' = "resend"
  /\ UNCHANGED <<trackerVars, limit, cursor, uidPolls, appVars, now, busVars, historyVars>>

BeginService ==
  /\ phase = "idle"
  /\ enabled
  /\ phase' = "timeout"
  /\ limit' = maxRetries
  /\ UNCHANGED <<trackerVars, cursor, uidPolls, appVars, now, busVars, historyVars>>

FrontTimedOut ==
  /\ phase = "timeout"
  /\ filters # <<>>
  /\ IsPacketTimeout(Head(filters))

\* The loop erases the front with the given fate.
PopFront(outcome) ==
  /\ filters' = Tail(filters)
  /\ fate' = [fate EXCEPT ![Head(filters).id] = outcome]
  /\ UNCHANGED <<packetsOut, loopVars, appVars, now, busVars, credited>>

FrontSucceeds == IsBroadcast(Head(filters)) /\ Answered(Head(filters))

\* Deliberate fault: one retry too many.
RetriesSpentLate == Head(filters).retries > limit

RetriesSpent == Head(filters).retries >= limit

TimeoutSuccess ==
  /\ FrontTimedOut
  /\ FrontSucceeds
  /\ counters' = [counters EXCEPT !.success = @ + 1]
  /\ PopFront("success")

TimeoutDrop ==
  /\ FrontTimedOut
  /\ ~FrontSucceeds
  /\ RetriesSpent
  /\ counters' = [counters EXCEPT !.dropped = @ + 1]
  /\ PopFront("dropped")

\* Deliberate fault: the copy keeps the time of the first write.
RequeuedStaleTime == Append(Tail(filters), IncrementRetryCount(Head(filters)))

\* Deliberate fault: the original stays in the queue.
RequeuedNoPop == Append(filters, ResetTimeout(IncrementRetryCount(Head(filters))))

\* The front is popped and a copy with a fresh time goes to the back.
Requeued == Append(Tail(filters), ResetTimeout(IncrementRetryCount(Head(filters))))

TimeoutResend ==
  /\ FrontTimedOut
  /\ ~FrontSucceeds
  /\ ~RetriesSpent
  /\ Head(filters).packet
  /\ filters' = Requeued
  /\ packetsOut' = Append(packetsOut, Head(filters).id)
  /\ counters' = [counters EXCEPT !.retried = @ + 1]
  /\ UNCHANGED <<loopVars, appVars, now, busVars, historyVars>>

\* A filter without a packet string is popped and no counter is touched.
\* counters.forgotten has no counterpart in the code.
TimeoutForget ==
  /\ FrontTimedOut
  /\ ~FrontSucceeds
  /\ ~RetriesSpent
  /\ ~Head(filters).packet
  /\ counters' = [counters EXCEPT !.forgotten = @ + 1]
  /\ PopFront("forgotten")

TimeoutDone ==
  /\ phase = "timeout"
  /\ ~FrontTimedOut
  /\ phase' = "resend"
  /\ limit' = 0
  /\ UNCHANGED <<trackerVars, cursor, uidPolls, appVars, now, busVars, historyVars>>

-----------------------------------------------------------------------------
(***************************************************************************)
(* service_eigen_comms writes the packets to repeat, then takes commands   *)
(* until the lists are empty; while the bootloader is active the lists are *)
(* left alone.                                                             *)
(***************************************************************************)
WriteRetry ==
  /\ phase = "resend"
  /\ packetsOut # <<>>
  /\ LET i == Head(packetsOut) IN
       /\ writes' = [writes EXCEPT ![i] = @ + 1]
       /\ owed' = [owed EXCEPT ![i] = Owes(asked[i], @)]
  /\ packetsOut' = Tail(packetsOut)
  /\ UNCHANGED <<filters, counters, loopVars, appVars, now, asked, stray, historyVars>>

RetriesWritten ==
  /\ phase = "resend"
  /\ packetsOut = <<>>
  /\ phase' = "send"
  /\ UNCHANGED <<trackerVars, limit, cursor, uidPolls, appVars, now, busVars, historyVars>>

\* write_packet, then add_packet.
Track(cmd) ==
  LET i == counters.sent + 1 IN
    /\ i <= MaxSent
    /\ filters' = Append(filters, NewFilter(i, cmd, TRUE))
    /\ counters' = [counters EXCEPT !.sent = @ + 1]
    /\ asked' = [asked EXCEPT ![i] = cmd]
    /\ owed' = [owed EXCEPT ![i] = Owes(cmd, NoAnswers)]
    /\ writes' = [writes EXCEPT ![i] = 1]
    /\ fate' = [fate EXCEPT ![i] = "live"]
    /\ UNCHANGED <<packetsOut, phase, limit, cursor, appVars, now, stray, credited>>

SendCommand(cmd) ==
  /\ phase = "send"
  /\ Track(cmd)
  /\ UNCHANGED uidPolls

\* Deliberate fault: a UID poll is taken from an empty list.
SendUIDPollUnchecked ==
  /\ phase = "send"
  /\ Track(UIDPoll)
  /\ uidPolls' = uidPolls - 1

SendUIDPoll ==
  /\ phase = "send"
  /\ uidPolls > 0
  /\ Track(UIDPoll)
  /\ uidPolls' = uidPolls - 1

CommandsDone ==
  /\ phase = "send"
  /\ uidPolls = 0
  /\ phase' = "receive"
  /\ UNCHANGED <<trackerVars, limit, cursor, uidPolls, appVars, now, busVars, historyVars>>

\* The bootloader is active.  (Also taken when MaxSent is used up.)
SkipCommands ==
  /\ phase = "send"
  /\ uidPolls > 0
  /\ phase' = "receive"
  /\ UNCHANGED <<trackerVars, limit, cursor, uidPolls, appVars, now, busVars, historyVars>>

-----------------------------------------------------------------------------
(***************************************************************************)
(* process_packet and match_response.                                      *)
(***************************************************************************)
Matched(m, t) == \E k \in 1..Len(filters) : MatchesFilter(filters[k], m, t)

\* Deliberate fault: the search does not stop.
FirstMatchAny(k, m, t) == MatchesFilter(filters[k], m, t)

\* The search starts at the front and stops at the first match.
FirstMatch(k, m, t) ==
  /\ MatchesFilter(filters[k], m, t)
  /\ \A j \in 1..k - 1 : ~MatchesFilter(filters[j], m, t)

AddResponse(f, m) == [f EXCEPT !.from = @ \cup {m}]

\* The queue once the first filter that matches has taken the response.
Credit(m, t) ==
  [k \in 1..Len(filters) |-> IF FirstMatch(k, m, t)
                             THEN AddResponse(filters[k], m) ELSE filters[k]]

\* add_packet(address, response, "") for each response that is to follow.
Expectations(m, t) ==
  [k \in 1..Len(Additional[t]) |->
     NewFilter(counters.sent + k,
               [addr |-> m, filter |-> Additional[t][k], reply |-> Additional[t][k]],
               FALSE)]

Announced(t) == counters.sent + 1 .. counters.sent + Len(Additional[t])

\* A response that matches nothing is unrequested unless modules send it on
\* their own.
Classify(m, t, c) ==
  IF Matched(m, t) THEN c
  ELSE IF t \in Spontaneous THEN [c EXCEPT !.spontaneous = @ + 1]
  ELSE [c EXCEPT !.unrequested = @ + 1]

\* What a module's response t does, whatever made the module send it.
\* o is what the modules owe once this response has left the bus.
ProcessResponse(m, t, o) ==
  /\ counters.sent + Len(Additional[t]) <= MaxSent
  /\ filters' = Credit(m, t) \o Expectations(m, t)
  /\ credited' =
       [i \in Ids |-> IF \E k \in 1..Len(filters) : FirstMatch(k, m, t) /\ filters[k].id = i
                     THEN credited[i] \cup {m} ELSE credited[i]]
  /\ counters' = Classify(m, t, [counters EXCEPT !.sent = @ + Len(Additional[t])])
  /\ uidPolls' = IF ~Matched(m, t) /\ t \notin Spontaneous
                 THEN uidPolls + 1 ELSE uidPolls
  /\ asked' = [i \in Ids |->
                 IF i \in Announced(t)
                 THEN LET e == Additional[t][i - counters.sent]
                      IN [addr |-> m, filter |-> e, reply |-> e]
                 ELSE asked[i]]
  /\ owed' = [i \in Ids |->
                IF i \in Announced(t) THEN [NoAnswers EXCEPT ![m] = 1] ELSE o[i]]
  /\ fate' = [i \in Ids |-> IF i \in Announced(t) THEN "live" ELSE fate[i]]
  /\ UNCHANGED <<packetsOut, phase, limit, cursor, appVars, now, writes>>

\* A module answers packet i, written some time ago.
Receive(m, i) ==
  /\ phase = "receive"
  /\ owed[i][m] > 0
  /\ ProcessResponse(m, asked[i].reply, [owed EXCEPT ![i][m] = @ - 1])
  /\ UNCHANGED stray

\* A module sends something on its own, or a packet is delivered twice.
ReceiveStray(m, t) ==
  /\ phase = "receive"
  /\ stray < MaxStray
  /\ stray' = stray + 1
  /\ ProcessResponse(m, t, owed)

\* The parser does not know the packet: response is nullptr.
ReceiveUnparsed ==
  /\ phase = "receive"
  /\ stray < MaxStray
  /\ stray' = stray + 1
  /\ counters' = [counters EXCEPT !.unrequested = @ + 1]
  /\ uidPolls' = uidPolls + 1
  /\ UNCHANGED <<filters, packetsOut, phase, limit, cursor, appVars, now,
                 asked, owed, writes, historyVars>>

\* Deliberate fault: the cycle ends without the sweep.
ReceiveDoneNoSweep ==
  /\ phase = "receive"
  /\ phase' = "idle"
  /\ UNCHANGED <<trackerVars, limit, cursor, uidPolls, appVars, now, busVars, historyVars>>

ReceiveDone ==
  /\ phase = "receive"
  /\ phase' = "success"
  /\ UNCHANGED <<trackerVars, limit, cursor, uidPolls, appVars, now, busVars, historyVars>>

-----------------------------------------------------------------------------
(***************************************************************************)
(* handle_successful_packets.                                              *)
(***************************************************************************)
EraseAt(q, k) == [j \in 1..Len(q) - 1 |-> IF j < k THEN q[j] ELSE q[j + 1]]

Satisfied(f) == ExpectsResponse(f) => (~IsBroadcast(f) /\ Answered(f))

\* Deliberate fault: the iterator moves on after an erase as well.
AfterEraseSkips == cursor + 1

AfterErase == cursor

AfterKeep == cursor + 1

SweepErase ==
  /\ phase = "success"
  /\ cursor <= Len(filters)
  /\ Satisfied(filters[cursor])
  /\ filters' = EraseAt(filters, cursor)
  /\ cursor' = AfterErase
  /\ counters' = [counters EXCEPT !.success = @ + 1]
  /\ fate' = [fate EXCEPT ![filters[cursor].id] = "success"]
  /\ UNCHANGED <<packetsOut, phase, limit, uidPolls, appVars, now, busVars, credited>>

SweepKeep ==
  /\ phase = "success"
  /\ cursor <= Len(filters)
  /\ ~Satisfied(filters[cursor])
  /\ cursor' = AfterKeep
  /\ UNCHANGED <<trackerVars, phase, limit, uidPolls, appVars, now, busVars, historyVars>>

SweepDone ==
  /\ phase = "success"
  /\ cursor > Len(filters)
  /\ phase' = "idle"
  /\ cursor' = 1
  /\ UNCHANGED <<trackerVars, limit, uidPolls, appVars, now, busVars, historyVars>>

-----------------------------------------------------------------------------
(***************************************************************************)
(* The application thread and the clock.                                   *)
(***************************************************************************)
SetEigenConfig(r) ==
  /\ maxRetries' = r
  /\ UNCHANGED <<trackerVars, loopVars, enabled, now, busVars, historyVars>>

SetPollEnabled(state) ==
  /\ enabled' = state
  /\ UNCHANGED <<trackerVars, loopVars, maxRetries, now, busVars, historyVars>>

\* Time matters only while some filter has not timed out.
Tick ==
  /\ \E k \in 1..Len(filters) : ~IsPacketTimeout(filters[k])
  /\ now' = now + 1
  /\ UNCHANGED <<trackerVars, loopVars, appVars, busVars, historyVars>>

\* The system clock is set back (std::chrono::system_clock is not monotonic).
StepBack ==
  /\ ClockStepsBack
  /\ now > 0
  /\ now' = now - 1
  /\ UNCHANGED <<trackerVars, loopVars, appVars, busVars, historyVars>>

Service ==
  \/ BeginService
  \/ TimeoutSuccess \/ TimeoutDrop \/ TimeoutResend \/ TimeoutForget \/ TimeoutDone
  \/ WriteRetry \/ RetriesWritten
  \/ \E cmd \in Commands : SendCommand(cmd)
  \/ SendUIDPoll \/ CommandsDone \/ SkipCommands
  \/ \E m \in Modules : \E i \in Ids : Receive(m, i)
  \/ \E m \in Modules : \E t \in Texts : ReceiveStray(m, t)
  \/ ReceiveUnparsed \/ ReceiveDone
  \/ SweepErase \/ SweepKeep \/ SweepDone

Application ==
  \/ \E r \in RetrySettings : SetEigenConfig(r)
  \/ \E state \in BOOLEAN : SetPollEnabled(state)

Next == Service \/ Application \/ Tick \/ StepBack

Spec == Init /\ [][Next]_vars

FairSpec == Spec /\ WF_vars(Service) /\ WF_vars(Tick)
-----------------------------------------------------------------------------
(***************************************************************************)
(* Properties.                                                             *)
(***************************************************************************)

(* The filter queue is sorted by the time its packets were last sent, which *)
(* is what lets handle_timeout_packets look at the front only              *)
(* (eigen_packet_filter.h:19).                                             *)
SortedByTime ==
  \A j, k \in 1..Len(filters) : j < k => filters[j].tsent <= filters[k].tsent

(* Every packet ever tracked is counted exactly once as a success, as      *)
(* dropped or as forgotten, or is still in the queue, at every step of the  *)
(* pop/push loop and of the erasing sweep.                                 *)
Conservation ==
  counters.sent = counters.success + counters.dropped + counters.forgotten
                  + Len(filters)

(* A packet has at most one filter in the queue, and it has one exactly    *)
(* while nothing has been decided about it: copying a filter to the back   *)
(* for a retry neither doubles nor loses it.                               *)
TrackedOnce ==
  /\ \A j, k \in 1..Len(filters) : filters[j].id = filters[k].id => j = k
  /\ \A i \in Ids : fate[i] = "live" <=> \E k \in 1..Len(filters) : filters[k].id = i

(* What the statistics say of a packet agrees with the responses credited   *)
(* to it: a dropped or forgotten packet had none, a success had one if it   *)
(* expected one.  It rests on the order of the phases: an answer received   *)
(* in one cycle is swept before the next cycle looks at timeouts.          *)
FatesAgreeWithAnswers ==
  \A i \in Ids :
    /\ fate[i] \in {"dropped", "forgotten"} => credited[i] = {}
    /\ fate[i] = "success" /\ asked[i].filter # NoText => credited[i] # {}

(* When service_eigen_comms returns, no retry is left unwritten and the    *)
(* queue holds only filters that still wait: they expect a response, and    *)
(* those for one module have none.                                         *)
IdleQueueWaits ==
  phase = "idle" =>
    /\ packetsOut = <<>>
    /\ \A k \in 1..Len(filters) :
         ExpectsResponse(filters[k]) /\ (Answered(filters[k]) => IsBroadcast(filters[k]))

(* A packet is written at most max_retries times after the first, and one   *)
(* that was dropped had its whole budget, whatever values the application   *)
(* gives max_retries meanwhile.  The retries queued in packets_out count    *)
(* only once they are written, so the lower bound is about its empty states.*)
WriteBudget ==
  \A i \in Ids :
    /\ \E r \in RetrySettings : writes[i] <= r + 1
    /\ packetsOut = <<>> /\ fate[i] = "dropped" /\ writes[i] > 0
         => \E r \in RetrySettings : writes[i] >= r + 1

(* Once a packet is counted as success, dropped or forgotten, no late       *)
(* response and no retry changes the verdict or credits another module.     *)
VerdictsAreFinal ==
  [][\A i \in Ids :
       fate[i] \in {"success", "dropped", "forgotten"} =>
         fate'[i] = fate[i] /\ credited'[i] = credited[i]]_vars

(* Every packet tracked is decided in the end, if the application leaves    *)
(* the service enabled: lost answers and retries only delay it.            *)
EventuallyDecided ==
  (<>[]enabled) => \A i \in Ids : [](fate[i] = "live" => <>(fate[i] # "live"))

(* The answer of a module to a command addressed to it that is still        *)
(* waiting is credited to that command, or to an earlier one that is the    *)
(* same: matching must not let one filter suck up the answers to others     *)
(* (eigen_packet_filter.cpp:269-270).                                      *)
AnswersReachTheirCommand ==
  [][\A i \in Ids : \A m \in Modules :
       /\ fate[i] = "live" /\ credited[i] = {}
       /\ asked[i].addr = m /\ owed'[i][m] < owed[i][m]
       => \E j \in Ids : asked[j] = asked[i] /\ m \in credited'[j] \ credited[j]]_vars

(* The packets in a queue, whatever their order, texts and times.          *)
Entry(f) ==
  [id |-> f.id, repeatable |-> f.packet, expects |-> ExpectsResponse(f),
   retries |-> f.retries, from |-> f.from]

Entries(q) == {Entry(q[k]) : k \in 1..Len(q)}

Ledger == INSTANCE EigenPacketLedger WITH
  waiting <- Entries(filters),
  sent <- counters.sent, success <- counters.success, dropped <- counters.dropped,
  forgotten <- counters.forgotten, retried <- counters.retried,
  unmatched <- counters.unrequested + counters.spontaneous

(* What the queue and the counters say of the packets is what the service   *)
(* may believe: a queue that is rotated, erased from and searched loses,    *)
(* doubles and misattributes nothing, at any step.                         *)
KeepsLedger == Ledger!Spec

-----------------------------------------------------------------------------
(***************************************************************************)
(* The inductive invariant behind the safety properties.                   *)
(***************************************************************************)
\* Only modules that were asked something owe an answer.
SilentCommands ==
  \A i \in Ids : \A m \in Modules : owed[i][m] > 0 => asked[i].reply # NoText

\* Ids are given out in order, and nothing happens to one before it is used.
Numbering ==
  \A i \in Ids : /\ fate[i] = "unsent" <=> i > counters.sent
                 /\ fate[i] = "unsent" => credited[i] = {}

\* A filter, copied or not, still says what was asked and who answered.
QueueMirrorsHistory ==
  \A k \in 1..Len(filters) :
    LET f == filters[k]
    IN  f.from = credited[f.id] /\ f.addr = asked[f.id].addr /\ f.filter = asked[f.id].filter

\* What the queue may hold in each phase of the service cycle.
PhaseDiscipline ==
  /\ phase \notin {"timeout", "resend"} => packetsOut = <<>>
  /\ phase # "success" => cursor = 1
  /\ cursor <= Len(filters) + 1
  /\ \A k \in 1..Len(filters) :
       /\ phase \in {"idle", "timeout", "resend"} => ExpectsResponse(filters[k])
       /\ phase \in {"idle", "timeout", "resend", "send"} /\ Answered(filters[k])
            => IsBroadcast(filters[k])
       /\ k < cursor => ~Satisfied(filters[k])

(* The properties above hold together with what they rest on: each step of  *)
(* the cycle re-establishes all of it from all of it.                      *)
IInv ==
  /\ TypeOK /\ SilentCommands
  /\ Conservation /\ TrackedOnce /\ FatesAgreeWithAnswers
  /\ Numbering /\ QueueMirrorsHistory /\ PhaseDiscipline
=============================================================================
