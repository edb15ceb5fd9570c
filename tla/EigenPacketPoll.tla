--------------------------- MODULE EigenPacketPoll ---------------------------
(***************************************************************************)
(* The polling manager (eigen_packet_poll.cpp), the queue of commands and  *)
(* the part of service_eigen_comms that drives them.                       *)
(*                                                                         *)
(* A poll is kept under the text of its packet, its key.  A service call   *)
(* first writes every queued command to the bus, then lets the manager put *)
(* a clone of each poll that is due into commands_, and at last moves      *)
(* these to the queue, to be written by the next call.  While the          *)
(* bootloader is active it only does the last.  Each member function holds *)
(* the lock of its object, and the calls of the application come between   *)
(* any two of these steps.                                                 *)
(*                                                                         *)
(* The clock is kept as the time since each poll was last cloned, up to    *)
(* MaxPeriod.  The difference is unsigned: when the system clock steps     *)
(* back past that moment the poll is due at once.                          *)
(*                                                                         *)
(* A command may carry a value on the heap, which its copies share and     *)
(* every one of them deletes (EigenCommandParamWrite).                     *)
(***************************************************************************)
EXTENDS Integers, Sequences, FiniteSets, SequencesExt

CONSTANTS
  Keys,           \* the texts of packets
  SetupPolls,     \* the two polls that start_eigen_comms makes
  MaxPeriod       \* bound: periods, and the time that is kept

ASSUME PollAssumption ==
  IsFiniteSet(Keys) /\ SetupPolls \subseteq Keys /\ MaxPeriod \in Nat

VARIABLES
  poll_map_,      \* the polls: period, enabled, time since the last clone
  commands_,      \* clones made by this service call
  cmd_list_,      \* commands to be written: key, polled or not, their value
  step,           \* where service_eigen_comms is
  enabled,        \* set_poll_enabled
  active,         \* the bootloader has the bus
  freed           \* the values that were deleted

pollVars == <<poll_map_, commands_, cmd_list_, step, enabled, active, freed>>

\* The value of a command that has none.
NoValue == 0

Poll == [period : 0 .. MaxPeriod, elapsed : 0 .. MaxPeriod, enabled : BOOLEAN]

Command == [key : Keys, polled : BOOLEAN, value : Nat]

PollTypeOK ==
  /\ DOMAIN poll_map_ \subseteq Keys
  /\ \A k \in DOMAIN poll_map_ : poll_map_[k] \in Poll
  /\ commands_ \in Seq(Command) /\ cmd_list_ \in Seq(Command)
  /\ step \in {"idle", "send", "poll", "transfer"}
  /\ enabled \in BOOLEAN /\ active \in BOOLEAN
  /\ freed \subseteq Nat

PollInit ==
  /\ poll_map_ = [k \in SetupPolls |->
                    [period |-> MaxPeriod, elapsed |-> 0, enabled |-> TRUE]]
  /\ commands_ = <<>> /\ cmd_list_ = <<>>
  /\ step = "idle"
  /\ enabled = FALSE
  /\ active = FALSE
  /\ freed = {}
-----------------------------------------------------------------------------
(***************************************************************************)
(* One call of service_eigen_comms.                                        *)
(***************************************************************************)
BeginService ==
  /\ step = "idle"
  /\ enabled
  /\ step' = IF active THEN "transfer" ELSE "send"
  /\ UNCHANGED <<poll_map_, commands_, cmd_list_, enabled, active, freed>>

\* The command is deleted when it was written, its value with it.
WriteCommand ==
  /\ step = "send"
  /\ cmd_list_ # <<>>
  /\ freed' = freed \cup ({Head(cmd_list_).value} \ {NoValue})
  /\ cmd_list_' = Tail(cmd_list_)
  /\ UNCHANGED <<poll_map_, commands_, step, enabled, active>>

Due(k) == poll_map_[k].enabled /\ poll_map_[k].elapsed >= poll_map_[k].period

DuePolls == {k \in DOMAIN poll_map_ : Due(k)}

Clone(k) == [key |-> k, polled |-> TRUE, value |-> NoValue]

\* Deliberate fault: one command is written in each call.
SendDoneNot ==
  /\ step = "send"
  /\ step' = "poll"
  /\ UNCHANGED <<poll_map_, commands_, cmd_list_, enabled, active, freed>>

\* The queue was empty.
SendDone ==
  /\ step = "send"
  /\ cmd_list_ = <<>>
  /\ step' = "poll"
  /\ UNCHANGED <<poll_map_, commands_, cmd_list_, enabled, active, freed>>

service_poll ==
  /\ step = "poll"
  /\ poll_map_' = [k \in DOMAIN poll_map_ |->
                     IF Due(k) THEN [poll_map_[k] EXCEPT !.elapsed = 0] ELSE poll_map_[k]]
  /\ \E s \in SetToSeqs(DuePolls) :
       commands_' = commands_ \o [i \in DOMAIN s |-> Clone(s[i])]
  /\ step' = "transfer"
  /\ UNCHANGED <<cmd_list_, enabled, active, freed>>

\* Deliberate fault: the clones are cleared and never reach the queue.
TransferPollsNot ==
  /\ step = "transfer"
  /\ commands_' = <<>>
  /\ step' = "idle"
  /\ UNCHANGED <<poll_map_, cmd_list_, enabled, active, freed>>

TransferPolls ==
  /\ step = "transfer"
  /\ cmd_list_' = cmd_list_ \o commands_
  /\ commands_' = <<>>
  /\ step' = "idle"
  /\ UNCHANGED <<poll_map_, enabled, active, freed>>

Service == BeginService \/ WriteCommand \/ SendDone \/ service_poll \/ TransferPolls
-----------------------------------------------------------------------------
(***************************************************************************)
(* Time and the bootloader.                                                *)
(***************************************************************************)
Least(a, b) == IF a < b THEN a ELSE b

Tick ==
  /\ poll_map_' = [k \in DOMAIN poll_map_ |->
       [poll_map_[k] EXCEPT !.elapsed = Least(@ + 1, MaxPeriod)]]
  /\ poll_map_' # poll_map_
  /\ UNCHANGED <<commands_, cmd_list_, step, enabled, active, freed>>

\* The clock goes back by d; below zero the difference is huge.
ClockStepsBack(d) ==
  /\ poll_map_' = [k \in DOMAIN poll_map_ |->
       [poll_map_[k] EXCEPT !.elapsed = IF @ < d THEN MaxPeriod ELSE @ - d]]
  /\ UNCHANGED <<commands_, cmd_list_, step, enabled, active, freed>>

\* An operation of the bootloader begins or ends.
SetActive(b) ==
  /\ active' = b
  /\ UNCHANGED <<poll_map_, commands_, cmd_list_, step, enabled, freed>>
-----------------------------------------------------------------------------
(***************************************************************************)
(* The calls of the application: what each does to the polls and the queue *)
(* alone.                                                                  *)
(***************************************************************************)
set_poll_enabled(b) ==
  /\ enabled' = b
  /\ UNCHANGED <<poll_map_, commands_, cmd_list_, step, active, freed>>

\* A poll that is there is replaced, and its period begins again.
add_poll_command(k, p, b) ==
  /\ poll_map_' = [j \in DOMAIN poll_map_ \cup {k} |->
       IF j = k THEN [period |-> p, elapsed |-> 0, enabled |-> b] ELSE poll_map_[j]]
  /\ UNCHANGED <<commands_, cmd_list_, step, enabled, active, freed>>

set_poll_enable(k, b) ==
  /\ poll_map_' = [j \in DOMAIN poll_map_ |->
       IF j = k THEN [poll_map_[j] EXCEPT !.enabled = b] ELSE poll_map_[j]]
  /\ UNCHANGED <<commands_, cmd_list_, step, enabled, active, freed>>

remove_poll_command(k) ==
  /\ poll_map_' = [j \in DOMAIN poll_map_ \ {k} |-> poll_map_[j]]
  /\ UNCHANGED <<commands_, cmd_list_, step, enabled, active, freed>>

add_command(k, value) ==
  /\ cmd_list_' = Append(cmd_list_, [key |-> k, polled |-> FALSE, value |-> value])
  /\ UNCHANGED <<poll_map_, commands_, step, enabled, active, freed>>

clear_commands ==
  /\ cmd_list_' = <<>>
  /\ freed' = freed \cup ({cmd_list_[i].value : i \in DOMAIN cmd_list_} \ {NoValue})
  /\ UNCHANGED <<poll_map_, commands_, step, enabled, active>>

\* The destructor of a command that never was in the queue.
delete_command(value) ==
  /\ freed' = freed \cup ({value} \ {NoValue})
  /\ UNCHANGED <<poll_map_, commands_, cmd_list_, step, enabled, active>>
-----------------------------------------------------------------------------
(***************************************************************************)
(* Properties.                                                             *)
(***************************************************************************)
Pending == commands_ \o cmd_list_

\* A poll waits in the queue at most once, however long the bootloader keeps
\* the bus, and however often it is removed, added and enabled meanwhile: the
\* service call empties the queue before it lets the manager fill it.
PollsDoNotPile ==
  \A k \in Keys :
    Cardinality({i \in DOMAIN Pending : Pending[i].polled /\ Pending[i].key = k}) <= 1

Written(k) == WriteCommand /\ Head(cmd_list_).key = k

\* Its time is set back: the clock was, or the poll is made anew.
SetBack(k) ==
  /\ k \in DOMAIN poll_map_ /\ k \in DOMAIN poll_map_'
  /\ poll_map_'[k].elapsed < poll_map_[k].elapsed /\ UNCHANGED commands_

Cleared(k) == clear_commands /\ \E i \in DOMAIN cmd_list_ : cmd_list_[i].key = k

\* There is more to write before the manager may let a poll be written.
Fed == step = "send" /\ \E k \in Keys, v \in {NoValue} : add_command(k, v)

\* While the host polls, the bootloader leaves it the bus and a poll stays
\* enabled, its packet is written again and again, whatever else is polled,
\* unless one of three things goes on without end: its time is set back, it
\* is cleared from the queue, or the queue is fed while the call empties it.
\* Nothing else keeps it from being written.
EnabledPollsAreSent ==
  \A k \in Keys :
    <>[](enabled /\ ~active /\ k \in DOMAIN poll_map_ /\ poll_map_[k].enabled)
      => []<><<Written(k) \/ SetBack(k) \/ Cleared(k) \/ Fed>>_pollVars

\* The value of every command that waits is there to be written.
ValuesAreLive ==
  \A i \in DOMAIN Pending : Pending[i].value \notin freed
=============================================================================
