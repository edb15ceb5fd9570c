--------------------------- MODULE EigenBootloader ---------------------------
(***************************************************************************)
(* The bootloader of the Eigenbus host (eigen_bootloader.cpp): two threads *)
(* that share flags and queues.                                            *)
(*                                                                         *)
(* The service thread writes the START command of the application, writes  *)
(* the commands the bootloader queues, and applies what modules say.  The  *)
(* first hello of the target module makes it start a thread, which runs    *)
(* the operation: the Cypress library opens the connection, writes         *)
(* requests, reads an answer to each, and closes the connection.  Nothing  *)
(* but cmd_list_ and update_list_ is locked.                               *)
(*                                                                         *)
(* Abstractions.  A packet of data is [to, seq, op, n]: the n-th request   *)
(* of operation op and its sequence byte, 0 standing for the request to    *)
(* leave the bootloader, which is not answered.  The Cypress library is    *)
(* the order in which it calls back.  The serial bus is a queue in each    *)
(* direction, which loses packets and spoils data.  Progress, the text of  *)
(* errors, and what else is on the bus are left out.                       *)
(***************************************************************************)
EXTENDS Naturals, Sequences

CONSTANTS
  Modules,        \* addresses of the modules
  NoTarget,       \* 0xFF
  MaxOperations,  \* bound: STARTs in a behaviour
  MaxRequests,    \* bound: answered requests of an operation
  MaxFaults       \* bound: packets lost, spoilt or refused, and timeouts before an answer

ASSUME BootloaderAssumption ==
  /\ NoTarget \notin Modules
  /\ MaxOperations \in Nat /\ MaxRequests \in Nat \ {0} /\ MaxFaults \in Nat

VARIABLES
  active, ack, target, finished,  \* bootloader_active, _ack, _target_addr, _finished
  data,       \* bootloader_data: answers received and not read
  seqNum,     \* bootloader_seq_num
  last,       \* bootloader_last: the request written last
  cmds,       \* cmd_list_
  service,    \* where the service thread is in a handler, and for which module
  threads,    \* the operation threads started so far
  started,    \* application: STARTs so far
  raced,      \* history: a START or a hello has been handled during a close
  overtook,   \* history: a START has been written before what was in cmd_list_
  mistaken,   \* history: an operation has taken an answer that was not to it
  faults,     \* bus: packets lost, spoilt or refused, and early timeouts, so far
  toBus,      \* bus: packets on their way to the modules
  fromBus,    \* bus: packets on their way to the host
  modules     \* bus: the bootloader of each module, and its last answer

flagVars == <<active, ack, target, finished>>
dataVars == <<data, seqNum, last>>
appVars == <<started, raced, overtook, mistaken>>
busVars == <<faults, toBus, fromBus, modules>>
vars == <<active, ack, target, finished, data, seqNum, last, cmds, service, threads,
          started, raced, overtook, mistaken, faults, toBus, fromBus, modules>>

Targets == Modules \cup {NoTarget}
Request == [to : Targets, seq : 0..255, op : Nat, n : Nat]
NoRequest == [to |-> NoTarget, seq |-> 0, op |-> 0, n |-> 0]
Spoilt == 256    \* the sequence number of an answer that does not parse

Packet(type, a) == [type |-> type, to |-> a, body |-> NoRequest]
DataPacket(r) == [type |-> "data", to |-> r.to, body |-> r]
Reply(type, a, r) == [type |-> type, from |-> a, body |-> r]

ThreadSteps == {"begin", "library", "ready", "read", "close", "closeTarget", "closeAck",
                "end", "done"}
ServiceSteps == {"idle", "start", "startActive", "sent", "hello", "spawn"}

Answers == [to : Targets, seq : 0..256, op : Nat, n : Nat]
Commands == [type : {"ack", "data", "again"}, to : Targets, body : Request]
OnBus == [type : {"start", "ack", "data", "again"}, to : Targets, body : Request]
FromModules == [type : {"hello", "read", "resend"}, from : Modules, body : Request]
Module == [at : {"app", "waiting", "ready"}, answer : Request]
Thread == [at : ThreadSteps, target : Targets, n : 0..MaxRequests, ok : BOOLEAN,
           answer : Request]

TypeOK ==
  /\ active \in BOOLEAN /\ ack \in BOOLEAN /\ target \in Targets /\ finished \in BOOLEAN
  /\ data \in Seq(Answers) /\ seqNum \in 0..255 /\ last \in Request
  /\ cmds \in Seq(Commands)
  /\ service \in [at : ServiceSteps, module : Targets]
  /\ threads \in Seq(Thread)
  /\ started \in 0..MaxOperations /\ faults \in 0..MaxFaults
  /\ raced \in BOOLEAN /\ overtook \in BOOLEAN /\ mistaken \in BOOLEAN
  /\ toBus \in Seq(OnBus) /\ fromBus \in Seq(FromModules)
  /\ modules \in [Modules -> Module]

\* The constructor leaves target, seqNum and finished uninitialized; only finished may
\* be read before it is written.
Init ==
  /\ active = FALSE /\ ack = FALSE /\ target = NoTarget /\ finished \in BOOLEAN
  /\ data = <<>> /\ seqNum = 0 /\ last = NoRequest /\ cmds = <<>>
  /\ service = [at |-> "idle", module |-> NoTarget]
  /\ threads = <<>>
  /\ started = 0 /\ raced = FALSE /\ overtook = FALSE /\ mistaken = FALSE /\ faults = 0
  /\ toBus = <<>> /\ fromBus = <<>>
  /\ modules = [a \in Modules |-> [at |-> "app", answer |-> NoRequest]]

-----------------------------------------------------------------------------
(***************************************************************************)
(* The service thread: process_command and service_bootloader.             *)
(***************************************************************************)
Idle == service.at = "idle"

ServiceAt(step) == service' = [service EXCEPT !.at = step]

\* An operation has reset some of the flags, and goes on to reset the others.
Resetting == \E j \in 1..Len(threads) : threads[j].at \in {"closeTarget", "closeAck"}

\* The command lists are left alone while an operation is active; but active is looked
\* at once, and then the commands are taken until there are none.
SendStart(a) ==
  /\ (Idle /\ ~active) \/ service.at = "sent"
  /\ started < MaxOperations
  /\ started' = started + 1
  /\ raced' = (raced \/ Resetting)
  /\ overtook' = (overtook \/ cmds # <<>>)
  /\ toBus' = Append(toBus, Packet("start", a))
  /\ ack' = FALSE
  /\ service' = [at |-> "start", module |-> a]
  /\ UNCHANGED <<active, target, finished, dataVars, cmds, threads, mistaken, faults, fromBus,
                 modules>>

StartTarget ==
  /\ service.at = "start"
  /\ target' = service.module
  /\ ServiceAt("startActive")
  /\ UNCHANGED <<active, ack, finished, dataVars, cmds, threads, appVars, busVars>>

StartActive ==
  /\ service.at = "startActive"
  /\ active' = TRUE
  /\ ServiceAt("sent")
  /\ UNCHANGED <<ack, target, finished, dataVars, cmds, threads, appVars, busVars>>

\* There are no more commands.
CommandsEnd ==
  /\ service.at = "sent"
  /\ ServiceAt("idle")
  /\ UNCHANGED <<flagVars, dataVars, cmds, threads, appVars, busVars>>

WriteCommand ==
  /\ Idle /\ cmds # <<>>
  /\ toBus' = Append(toBus, Head(cmds))
  /\ cmds' = Tail(cmds)
  /\ UNCHANGED <<flagVars, dataVars, service, threads, appVars, faults, fromBus, modules>>

-----------------------------------------------------------------------------
(***************************************************************************)
(* The service thread: process_packet.                                     *)
(***************************************************************************)
\* Something goes wrong on the bus.
Fault == faults < MaxFaults /\ faults' = faults + 1

Arrives(type) == Idle /\ fromBus # <<>> /\ Head(fromBus).type = type

ForTarget(a) == active /\ target = a

ReceiveHello ==
  /\ Arrives("hello")
  /\ fromBus' = Tail(fromBus)
  /\ ServiceAt(IF ForTarget(Head(fromBus).from) THEN "hello" ELSE "idle")
  /\ UNCHANGED <<flagVars, dataVars, cmds, threads, appVars, faults, toBus, modules>>

\* Deliberate fault: every hello starts a thread.
HelloIsFirstNot == TRUE

HelloIsFirst == ~ack

HelloFirst ==
  /\ service.at = "hello" /\ HelloIsFirst
  /\ ack' = TRUE
  /\ ServiceAt("spawn")
  /\ UNCHANGED <<active, target, finished, dataVars, cmds, threads, appVars, busVars>>

HelloAgain ==
  /\ service.at = "hello" /\ ~HelloIsFirst
  /\ cmds' = Append(cmds, Packet("ack", target))
  /\ ServiceAt("idle")
  /\ UNCHANGED <<flagVars, dataVars, threads, appVars, busVars>>

Spawn ==
  /\ service.at = "spawn"
  /\ threads' = Append(threads, [at |-> "begin", target |-> target, n |-> 0, ok |-> FALSE,
                                 answer |-> NoRequest])
  /\ ServiceAt("idle")
  /\ UNCHANGED <<flagVars, dataVars, cmds, appVars, busVars>>

\* Data is taken from any module, at any time.
Receive(answer) ==
  /\ Arrives("read")
  /\ fromBus' = Tail(fromBus)
  /\ data' = Append(data, answer)
  /\ UNCHANGED <<flagVars, seqNum, last, cmds, service, threads, appVars, toBus, modules>>

ReceiveRead == Receive(Head(fromBus).body) /\ UNCHANGED faults

\* The answer has been changed on its way.
ReceiveSpoilt == Receive([NoRequest EXCEPT !.seq = Spoilt]) /\ Fault

ReceiveResend ==
  /\ Arrives("resend")
  /\ fromBus' = Tail(fromBus)
  /\ cmds' = Append(cmds, DataPacket(last))
  /\ UNCHANGED <<flagVars, dataVars, service, threads, appVars, faults, toBus, modules>>

-----------------------------------------------------------------------------
(***************************************************************************)
(* An operation thread: run_operation, and the callbacks in the order in   *)
(* which the Cypress library makes them.                                   *)
(***************************************************************************)
Goes(j, from, to) ==
  /\ threads[j].at = from
  /\ threads' = [threads EXCEPT ![j].at = to]

Fails(j, from) ==
  /\ threads[j].at = from
  /\ threads' = [threads EXCEPT ![j].at = "end", ![j].ok = FALSE]

Begin(j) ==
  /\ Goes(j, "begin", "library")
  /\ cmds' = Append(cmds, Packet("ack", threads[j].target))
  /\ UNCHANGED <<flagVars, dataVars, service, appVars, busVars>>

\* The file cannot be read: the library returns before it opens.
FileFails(j) ==
  /\ Fails(j, "library")
  /\ UNCHANGED <<flagVars, dataVars, cmds, service, appVars, busVars>>

\* No operation has this mode: retval stays 0.
UnknownMode(j) ==
  /\ threads[j].at = "library"
  /\ threads' = [threads EXCEPT ![j].at = "end", ![j].ok = TRUE]
  /\ UNCHANGED <<flagVars, dataVars, cmds, service, appVars, busVars>>

\* bootloader_open, with and without the hello of the module.
Open(j) ==
  /\ Goes(j, "library", IF ack THEN "ready" ELSE "end")
  /\ finished' = FALSE
  /\ seqNum' = 0
  /\ UNCHANGED <<active, ack, target, data, last, cmds, service, appVars, busVars>>

\* bootloader_write_data: 52 bytes and their frame are one packet.
Write(j, n) ==
  LET r == [to |-> target, seq |-> seqNum, op |-> j, n |-> n] IN
    /\ last' = r
    /\ cmds' = Append(cmds, DataPacket(r))
    /\ seqNum' = (seqNum + 1) % 256
    /\ UNCHANGED data

WriteRequest(j) ==
  /\ threads[j].at = "ready" /\ threads[j].n < MaxRequests
  /\ threads' = [threads EXCEPT ![j].at = "read", ![j].n = @ + 1]
  /\ Write(j, threads[j].n + 1)
  /\ UNCHANGED <<flagVars, service, appVars, busVars>>

Reading(j) == threads[j].at = "read" /\ data # <<>>

\* Deliberate fault: the sequence number is not compared.
ExpectedNot(answer) == answer.seq # Spoilt

\* Deliberate fault: whether the answer parses is not looked at.
ExpectedUnparsed(answer) == answer.seq \in {seqNum, Spoilt}

Expected(answer) == answer.seq = seqNum

ReadAnswer(j) ==
  /\ Reading(j) /\ Expected(Head(data))
  /\ data' = Tail(data)
  /\ threads' = [threads EXCEPT ![j].at = "ready", ![j].answer = Head(data)]
  /\ mistaken' = (mistaken \/ Head(data).op # j)
  /\ UNCHANGED <<flagVars, seqNum, last, cmds, service, started, raced, overtook, busVars>>

\* What is asked for when an answer is spoilt, or is not the next one.
AskAgain(answer) ==
  IF answer.seq = Spoilt THEN Packet("again", target) ELSE DataPacket(last)

ReadOther(j) ==
  /\ Reading(j) /\ ~Expected(Head(data))
  /\ data' = Tail(data)
  /\ cmds' = Append(cmds, AskAgain(Head(data)))
  /\ UNCHANGED <<flagVars, seqNum, last, service, threads, appVars, busVars>>

\* Nothing is on its way that the read would see.
Quiet ==
  /\ cmds = <<>> /\ toBus = <<>>
  /\ \A k \in 1..Len(fromBus) : fromBus[k].type = "hello"

\* Deliberate fault: the read only waits.
ReadTimeoutWaits(j) == FALSE /\ UNCHANGED vars

\* 250 ms without data, more than a packet and its answer take unless they are held up.
ReadTimeout(j) ==
  /\ threads[j].at = "read" /\ data = <<>>
  /\ \/ Quiet /\ UNCHANGED faults
     \/ ~Quiet /\ Fault
  /\ cmds' = Append(cmds, Packet("again", target))
  /\ UNCHANGED <<flagVars, dataVars, service, threads, appVars, toBus, fromBus, modules>>

\* 500 s without the answer: a communications error, without CloseConnection.
GiveUp(j) ==
  /\ Fails(j, "read")
  /\ UNCHANGED <<flagVars, dataVars, cmds, service, appVars, busVars>>

\* EndBootloadOperation: the exit request and CloseConnection, after the last row
\* or an error that is not of communications.
ExitBootloader(j, ok) ==
  /\ threads[j].at = "ready" /\ threads[j].n > 0
  /\ threads' = [threads EXCEPT ![j].at = "close", ![j].ok = ok]
  /\ Write(j, 0)
  /\ UNCHANGED <<flagVars, service, appVars, busVars>>

CloseActive(j) ==
  /\ Goes(j, "close", "closeTarget")
  /\ active' = FALSE
  /\ raced' = (raced \/ service.at = "hello")
  /\ UNCHANGED <<ack, target, finished, dataVars, cmds, service, started, overtook, mistaken,
                 busVars>>

CloseTarget(j) ==
  /\ Goes(j, "closeTarget", "closeAck")
  /\ target' = NoTarget
  /\ UNCHANGED <<active, ack, finished, dataVars, cmds, service, appVars, busVars>>

CloseAck(j) ==
  /\ Goes(j, "closeAck", "end")
  /\ ack' = FALSE
  /\ UNCHANGED <<active, target, finished, dataVars, cmds, service, appVars, busVars>>

\* The flag, then the MODULE_BTLDR_END update.
End(j) ==
  /\ Goes(j, "end", "done")
  /\ finished' = (finished \/ threads[j].ok)
  /\ UNCHANGED <<active, ack, target, dataVars, cmds, service, appVars, busVars>>

\* finished(), called by the application.
ReadFinished ==
  /\ finished
  /\ finished' = FALSE
  /\ UNCHANGED <<active, ack, target, dataVars, cmds, service, threads, appVars, busVars>>

-----------------------------------------------------------------------------
(***************************************************************************)
(* The bus and the bootloader of the modules.                              *)
(***************************************************************************)
Addressed == Head(toBus).to

AtModule(type, states) ==
  /\ toBus # <<>> /\ Head(toBus).type = type
  /\ Addressed \in Modules /\ modules[Addressed].at \in states

\* The module the first packet is for takes it, and may say something.
Taken(next, replies) ==
  /\ toBus' = Tail(toBus)
  /\ modules' = [modules EXCEPT ![Addressed] = next]
  /\ fromBus' = fromBus \o replies
  /\ UNCHANGED <<flagVars, dataVars, cmds, service, threads, appVars>>

ModuleStarts ==
  /\ AtModule("start", {"app", "waiting", "ready"})
  /\ Taken([at |-> "waiting", answer |-> NoRequest], <<>>)
  /\ UNCHANGED faults

ModuleAcked ==
  /\ AtModule("ack", {"waiting"})
  /\ Taken([at |-> "ready", answer |-> NoRequest], <<>>)
  /\ UNCHANGED faults

ModuleAnswers ==
  /\ AtModule("data", {"ready"}) /\ Head(toBus).body.n > 0
  /\ LET answer == [Head(toBus).body EXCEPT !.seq = (@ + 1) % 256]
     IN  Taken([at |-> "ready", answer |-> answer], <<Reply("read", Addressed, answer)>>)
  /\ UNCHANGED faults

ModuleLeaves ==
  /\ AtModule("data", {"ready"}) /\ Head(toBus).body.n = 0
  /\ Taken([at |-> "app", answer |-> NoRequest], <<>>)
  /\ UNCHANGED faults

\* The data did not come well.
ModuleRefuses ==
  /\ AtModule("data", {"ready"})
  /\ Taken(modules[Addressed], <<Reply("resend", Addressed, NoRequest)>>)
  /\ Fault

\* The last answer once more; a module that has none asks for the request.
ModuleRepeats ==
  /\ AtModule("again", {"ready"})
  /\ LET answer == modules[Addressed].answer
     IN  Taken(modules[Addressed],
           IF answer = NoRequest THEN <<Reply("resend", Addressed, NoRequest)>>
           ELSE <<Reply("read", Addressed, answer)>>)
  /\ UNCHANGED faults

\* A module that is not ready ignores data, one that is not waiting an ACK.
ModuleIgnores ==
  /\ \/ AtModule("ack", {"app", "ready"})
     \/ AtModule("data", {"app", "waiting"})
     \/ AtModule("again", {"app", "waiting"})
  /\ Taken(modules[Addressed], <<>>)
  /\ UNCHANGED faults

\* What is written to 0xFF is for nobody.
NobodyTakes ==
  /\ toBus # <<>> /\ Addressed = NoTarget
  /\ toBus' = Tail(toBus)
  /\ UNCHANGED <<flagVars, dataVars, cmds, service, threads, appVars, faults, fromBus, modules>>

AckOnItsWay(a) ==
  \E queue \in {cmds, toBus} : \E k \in 1..Len(queue) : queue[k] = Packet("ack", a)

\* A module in its bootloader says hello until it is acknowledged, at intervals
\* in which an ACK that has been queued comes unless it is held up.
Hello(a) ==
  /\ modules[a].at = "waiting"
  /\ \A k \in 1..Len(fromBus) : fromBus[k] # Reply("hello", a, NoRequest)
  /\ IF AckOnItsWay(a) THEN Fault ELSE UNCHANGED faults
  /\ fromBus' = Append(fromBus, Reply("hello", a, NoRequest))
  /\ UNCHANGED <<flagVars, dataVars, cmds, service, threads, appVars, toBus, modules>>

\* A module without a valid application enters its bootloader on its own, when it
\* is plugged in or has left.
PowerUp(a) ==
  /\ modules[a].at = "app"
  /\ modules' = [modules EXCEPT ![a].at = "waiting"]
  /\ UNCHANGED <<flagVars, dataVars, cmds, service, threads, appVars, faults, toBus, fromBus>>

LoseToModule ==
  /\ toBus # <<>> /\ Fault
  /\ toBus' = Tail(toBus)
  /\ UNCHANGED <<flagVars, dataVars, cmds, service, threads, appVars, fromBus, modules>>

LoseToHost ==
  /\ fromBus # <<>> /\ Fault
  /\ fromBus' = Tail(fromBus)
  /\ UNCHANGED <<flagVars, dataVars, cmds, service, threads, appVars, toBus, modules>>

Finish == StartTarget \/ StartActive \/ CommandsEnd \/ HelloFirst \/ HelloAgain \/ Spawn

ReceivePacket == ReceiveHello \/ ReceiveRead \/ ReceiveResend

Proceed(j) ==
  \/ Begin(j) \/ Open(j) \/ WriteRequest(j)
  \/ ReadAnswer(j) \/ ReadOther(j) \/ ReadTimeout(j)
  \/ \E ok \in BOOLEAN : ExitBootloader(j, ok)
  \/ CloseActive(j) \/ CloseTarget(j) \/ CloseAck(j) \/ End(j)

ModuleTakes ==
  \/ ModuleStarts \/ ModuleAcked \/ ModuleAnswers \/ ModuleLeaves
  \/ ModuleRepeats \/ ModuleIgnores \/ NobodyTakes

Next ==
  \/ Finish \/ WriteCommand \/ ReceivePacket \/ ReceiveSpoilt
  \/ \E a \in Modules : SendStart(a) \/ Hello(a) \/ PowerUp(a)
  \/ \E j \in 1..Len(threads) : Proceed(j) \/ FileFails(j) \/ UnknownMode(j) \/ GiveUp(j)
  \/ ReadFinished
  \/ ModuleTakes \/ ModuleRefuses \/ LoseToModule \/ LoseToHost

Spec == Init /\ [][Next]_vars

(* Both threads go on; a call of the service thread writes what is queued  *)
(* and reads what has come; the bus carries packets and modules take them. *)
FairSpec ==
  /\ Spec
  /\ WF_vars(Finish) /\ SF_vars(WriteCommand) /\ SF_vars(ReceivePacket)
  /\ \A j \in 1..MaxOperations : WF_vars(j \in 1..Len(threads) /\ Proceed(j))
  /\ WF_vars(ModuleTakes)
  /\ \A a \in Modules : WF_vars(Hello(a))

-----------------------------------------------------------------------------
(***************************************************************************)
(* Properties.                                                             *)
(***************************************************************************)

(* The host has one set of flags, and closing resets them in three steps    *)
(* (eigen_bootloader.cpp:210-212).  What follows is said of a host where no *)
(* START and no hello has been handled within such a reset: this is the     *)
(* only way for it to go wrong.  (bootloader_close.cfg shows that it does.) *)

(* What an operation reads is the answer to the request it wrote last, not  *)
(* to an earlier one of its own, however answers are repeated, delayed and  *)
(* asked for again; only what an earlier operation left in bootloader_data  *)
(* can be mistaken for it.                                                  *)
AnswerIsToRequest ==
  \A j \in 1..Len(threads) :
    threads[j].at = "ready" /\ threads[j].answer.op = j
      => raced \/ threads[j].answer.n = threads[j].n

(* Every START is acted upon at most once, although a module says hello     *)
(* until it is acknowledged and the flags are tested and set without lock.  *)
OneOperationPerStart ==
  raced \/ Len(threads) <= started

(* Between begin and close an operation is the only one, and the flags and  *)
(* the target that its callbacks read are its own: a START that has waited  *)
(* in the queue, or is in it twice, leaves them alone.                      *)
Running(j) == threads[j].at \in {"begin", "library", "ready", "read", "close"}

FlagsAreOf(j) ==
  /\ active /\ ack /\ target = threads[j].target
  /\ \A i \in 1..Len(threads) : Running(i) => i = j

OperationOwnsTheFlags ==
  raced \/ \A j \in 1..Len(threads) : Running(j) => FlagsAreOf(j)

(* The same of every host; false, when a START waits for the end of an      *)
(* operation.                                                               *)
FlagsAreAlwaysOwned ==
  \A j \in 1..Len(threads) : Running(j) => FlagsAreOf(j)

(* A read ends with an answer although packets and answers are lost: who    *)
(* has not got what it waits for asks for it again.  (Nor may a START have  *)
(* overtaken what the last operation had to write: its ACK and its exit     *)
(* request, written after the START, make the module leave.)                *)
ReadEnds ==
  \A j \in 1..MaxOperations :
    (j \in 1..Len(threads) /\ threads[j].at = "read")
      ~> (raced \/ overtook \/ (j \in 1..Len(threads) /\ threads[j].at # "read"))

(* Once every operation has ended the host goes on with its commands: it    *)
(* "will take care of all the messy error handling" (README.md:28).         *)
HostResumes ==
  Idle /\ started = Len(threads) /\ (\A j \in 1..Len(threads) : threads[j].at = "done")
    => ~active
=============================================================================
