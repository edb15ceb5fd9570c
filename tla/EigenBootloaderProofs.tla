------------------------ MODULE EigenBootloaderProofs ------------------------
(***************************************************************************)
(* Proofs about EigenBootloader, for any modules, and any number of        *)
(* operations, requests and faults of the bus:                             *)
(*   - types, of every host;                                               *)
(*   - until a START or a hello is handled within the three steps of a     *)
(*     close, a START begins one operation at most, the flags and the      *)
(*     target are those of the operation that runs, and what an operation  *)
(*     waits for agrees with what is on the bus;                           *)
(*   - an operation that has taken no answer of another one takes only     *)
(*     that to the request it wrote last, also when the sequence byte has  *)
(*     gone round, because nothing on the way overtakes anything.          *)
(*                                                                         *)
(* The flags are read and written without a lock, so the inductive         *)
(* invariant says who may write them when: FlagsInv ties active and ack to *)
(* the START that is owed, to the place of the service thread, and to the  *)
(* only thread that has not ended.                                         *)
(***************************************************************************)
EXTENDS EigenBootloader, SequenceTheorems, TLAPS

LEMMA Bounds ==
  /\ MaxRequests \in Nat \ {0} /\ MaxOperations \in Nat /\ MaxFaults \in Nat
  /\ NoTarget \notin Modules /\ NoTarget \in Targets /\ Modules \subseteq Targets
  /\ NoRequest \in Request /\ Request \subseteq Answers
<1>1. /\ MaxRequests \in Nat \ {0} /\ MaxOperations \in Nat /\ MaxFaults \in Nat
      /\ NoTarget \notin Modules /\ NoTarget \in Targets /\ Modules \subseteq Targets
  BY BootloaderAssumption DEF BootloaderAssumption, Targets
<1>2. NoRequest \in Request /\ Request \subseteq Answers
  BY <1>1 DEF NoRequest, Request, Answers
<1> QED  BY <1>1, <1>2
-----------------------------------------------------------------------------
(***************************************************************************)
(* Threads.                                                                *)
(***************************************************************************)
Threads == threads \in Seq(Thread)

\* The thread j is now at step at; the others are as they were.
Moved(j, at, n, answer) ==
  /\ threads' \in Seq(Thread) /\ Len(threads') = Len(threads)
  /\ threads'[j].at = at /\ threads'[j].n = n /\ threads'[j].answer = answer
  /\ threads'[j].target = threads[j].target
  /\ \A i \in 1..Len(threads) : i # j => threads'[i] = threads[i]

LEMMA ThreadMoved ==
  ASSUME Threads, NEW j \in 1..Len(threads), NEW t \in Thread,
         threads' = [threads EXCEPT ![j] = t], t.target = threads[j].target
  PROVE  Moved(j, t.at, t.n, t.answer)
BY DEF Threads, Moved

LEMMA ThreadTyped ==
  ASSUME Threads, NEW j \in 1..Len(threads)
  PROVE  threads[j] \in Thread
BY DEF Threads

LEMMA GoesMoves ==
  ASSUME Threads, NEW j \in 1..Len(threads), NEW from, NEW to \in ThreadSteps,
         Goes(j, from, to)
  PROVE  Moved(j, to, threads[j].n, threads[j].answer) /\ threads[j].at = from
<1>0. threads[j] \in Thread
  BY ThreadTyped
<1> DEFINE t == [threads[j] EXCEPT !.at = to]
<1>1. /\ t \in Thread /\ t.target = threads[j].target
      /\ t.at = to /\ t.n = threads[j].n /\ t.answer = threads[j].answer
  BY <1>0 DEF Thread
<1>2. threads' = [threads EXCEPT ![j] = t]
  BY DEF Goes
<1> HIDE DEF t
<1> QED  BY <1>1, <1>2, ThreadMoved DEF Goes

\* An operation has ended, or goes on to its end.
LEMMA EndsMoves ==
  ASSUME Threads, NEW j \in 1..Len(threads), NEW to \in ThreadSteps, NEW ok \in BOOLEAN,
         threads' = [threads EXCEPT ![j].at = to, ![j].ok = ok]
  PROVE  Moved(j, to, threads[j].n, threads[j].answer)
<1>0. threads[j] \in Thread
  BY ThreadTyped
<1> DEFINE t == [threads[j] EXCEPT !.at = to, !.ok = ok]
<1>1. /\ t \in Thread /\ t.target = threads[j].target
      /\ t.at = to /\ t.n = threads[j].n /\ t.answer = threads[j].answer
  BY <1>0 DEF Thread
<1>2. threads' = [threads EXCEPT ![j] = t]
  BY <1>0 DEF Threads, Thread
<1> HIDE DEF t
<1> QED  BY <1>1, <1>2, ThreadMoved

LEMMA WriteMoves ==
  ASSUME Threads, NEW j \in 1..Len(threads), threads[j].n < MaxRequests,
         threads' = [threads EXCEPT ![j].at = "read", ![j].n = @ + 1]
  PROVE  Moved(j, "read", threads[j].n + 1, threads[j].answer)
<1>0. threads[j] \in Thread
  BY ThreadTyped
<1> DEFINE t == [threads[j] EXCEPT !.at = "read", !.n = @ + 1]
<1>1. /\ t \in Thread /\ t.target = threads[j].target
      /\ t.at = "read" /\ t.n = threads[j].n + 1 /\ t.answer = threads[j].answer
  BY <1>0, Bounds DEF Thread, ThreadSteps
<1>2. threads' = [threads EXCEPT ![j] = t]
  BY <1>0 DEF Threads, Thread
<1> HIDE DEF t
<1> QED  BY <1>1, <1>2, ThreadMoved

LEMMA AnswerMoves ==
  ASSUME Threads, NEW j \in 1..Len(threads),
         NEW answer \in Request,
         threads' = [threads EXCEPT ![j].at = "ready", ![j].answer = answer]
  PROVE  Moved(j, "ready", threads[j].n, answer)
<1>0. threads[j] \in Thread
  BY ThreadTyped
<1> DEFINE t == [threads[j] EXCEPT !.at = "ready", !.answer = answer]
<1>1. /\ t \in Thread /\ t.target = threads[j].target
      /\ t.at = "ready" /\ t.n = threads[j].n /\ t.answer = answer
  BY <1>0 DEF Thread, ThreadSteps
<1>2. threads' = [threads EXCEPT ![j] = t]
  BY <1>0 DEF Threads, Thread
<1> HIDE DEF t
<1>3. Moved(j, t.at, t.n, t.answer)
  BY ONLY <1>1, <1>2, ThreadMoved, Threads
<1> QED  BY <1>1, <1>3 DEF Moved
-----------------------------------------------------------------------------
(***************************************************************************)
(* What is on its way: requests of a set P, and answers of a set A, stay   *)
(* so as long as the requests that are written are of P.                   *)
(***************************************************************************)
Corrupted == [NoRequest EXCEPT !.seq = Spoilt]
AnswerTo(r) == [r EXCEPT !.seq = (@ + 1) % 256]

CommandsOf(P) == {c \in Commands : c.body \in P}
OnBusOf(P) == {c \in OnBus : c.body \in P}
FromModulesOf(A) == {c \in FromModules : c.body \in A}
ModuleOf(A) == {m \in Module : m.answer \in A}

Holding(P, A) ==
  /\ data \in Seq(A) /\ last \in P
  /\ cmds \in Seq(CommandsOf(P)) /\ toBus \in Seq(OnBusOf(P))
  /\ fromBus \in Seq(FromModulesOf(A)) /\ modules \in [Modules -> ModuleOf(A)]

\* Nothing comes into A but NoRequest, what does not parse, and the answers to P.
Closed(P, A) ==
  /\ P \subseteq Request /\ A \subseteq Answers
  /\ NoRequest \in P /\ NoRequest \in A /\ Corrupted \in A
  /\ \A r \in P : r.n > 0 => AnswerTo(r) \in A

LEMMA CorruptedTyped == Corrupted \in Answers /\ Corrupted.op = 0
BY Bounds DEF Corrupted, NoRequest, Spoilt, Answers

LEMMA AnswerTyped ==
  ASSUME NEW r \in Request
  PROVE  AnswerTo(r) \in Request /\ AnswerTo(r).op = r.op /\ AnswerTo(r).n = r.n
         /\ AnswerTo(r).seq = (r.seq + 1) % 256 /\ AnswerTo(r).to = r.to
BY DEF AnswerTo, Request

LEMMA PacketsHeld ==
  ASSUME NEW P, NEW A, Closed(P, A)
  PROVE  /\ \A a \in Targets : Packet("ack", a) \in CommandsOf(P)
                               /\ Packet("again", a) \in CommandsOf(P)
                               /\ Packet("start", a) \in OnBusOf(P)
         /\ \A r \in P : DataPacket(r) \in CommandsOf(P)
         /\ \A a \in Modules : /\ Reply("hello", a, NoRequest) \in FromModulesOf(A)
                               /\ Reply("resend", a, NoRequest) \in FromModulesOf(A)
         /\ \A a \in Modules, r \in Request \cap A : Reply("read", a, r) \in FromModulesOf(A)
         /\ CommandsOf(P) \subseteq OnBusOf(P)
<1>1. NoRequest \in P /\ NoRequest \in A /\ NoRequest \in Request /\ P \subseteq Request
  BY Bounds DEF Closed
<1>2. \A a \in Targets : Packet("ack", a) \in CommandsOf(P) /\ Packet("again", a) \in CommandsOf(P)
                         /\ Packet("start", a) \in OnBusOf(P)
  BY <1>1 DEF Packet, CommandsOf, Commands, OnBusOf, OnBus
<1>3. \A r \in P : DataPacket(r) \in CommandsOf(P)
  BY <1>1 DEF DataPacket, CommandsOf, Commands, Request
<1>4. \A a \in Modules : /\ Reply("hello", a, NoRequest) \in FromModulesOf(A)
                         /\ Reply("resend", a, NoRequest) \in FromModulesOf(A)
  BY <1>1 DEF Reply, FromModulesOf, FromModules
<1>5. \A a \in Modules, r \in Request \cap A : Reply("read", a, r) \in FromModulesOf(A)
  BY DEF Reply, FromModulesOf, FromModules
<1>6. CommandsOf(P) \subseteq OnBusOf(P)
  BY DEF CommandsOf, Commands, OnBusOf, OnBus
<1> QED  BY <1>2, <1>3, <1>4, <1>5, <1>6

LEMMA HoldingParts ==
  ASSUME NEW P, NEW A, Holding(P, A)
  PROVE  /\ data \in Seq(A) /\ last \in P
         /\ cmds \in Seq(CommandsOf(P)) /\ toBus \in Seq(OnBusOf(P))
         /\ fromBus \in Seq(FromModulesOf(A)) /\ modules \in [Modules -> ModuleOf(A)]
BY DEF Holding

LEMMA HoldingNext ==
  ASSUME NEW P, NEW A, data' \in Seq(A), last' \in P,
         cmds' \in Seq(CommandsOf(P)), toBus' \in Seq(OnBusOf(P)),
         fromBus' \in Seq(FromModulesOf(A)), modules' \in [Modules -> ModuleOf(A)]
  PROVE  Holding(P, A)'
<1>1. /\ CommandsOf(P)' = CommandsOf(P) /\ OnBusOf(P)' = OnBusOf(P)
      /\ FromModulesOf(A)' = FromModulesOf(A) /\ ModuleOf(A)' = ModuleOf(A)
  BY DEF CommandsOf, OnBusOf, FromModulesOf, ModuleOf, Commands, OnBus, FromModules, Module
<1> QED  BY <1>1 DEF Holding

\* The service thread with the queues of commands and data.
LEMMA ServiceHolds ==
  ASSUME NEW P, NEW A, Closed(P, A), Holding(P, A), target \in Targets,
         \/ \E a \in Modules : SendStart(a)
         \/ WriteCommand \/ HelloAgain \/ ReceivePacket \/ ReceiveSpoilt
  PROVE  Holding(P, A)'
<1>1. /\ last' = last /\ modules' = modules
      /\ data \in Seq(A) /\ cmds \in Seq(CommandsOf(P)) /\ toBus \in Seq(OnBusOf(P))
      /\ fromBus \in Seq(FromModulesOf(A)) /\ last \in P /\ modules \in [Modules -> ModuleOf(A)]
  BY HoldingParts DEF SendStart, WriteCommand, HelloAgain, ReceivePacket, ReceiveHello,
     ReceiveRead, ReceiveResend, ReceiveSpoilt, Receive, dataVars, busVars
<1>3. ASSUME data' \in Seq(A), cmds' \in Seq(CommandsOf(P)), toBus' \in Seq(OnBusOf(P)),
             fromBus' \in Seq(FromModulesOf(A))
      PROVE  Holding(P, A)'
  BY <1>1, <1>3, HoldingNext
<1>4. ASSUME NEW a \in Modules, SendStart(a)
      PROVE  Holding(P, A)'
  <2>1. UNCHANGED <<data, cmds, fromBus>> /\ toBus' = Append(toBus, Packet("start", a))
    BY <1>4 DEF SendStart, dataVars
  <2>2. toBus' \in Seq(OnBusOf(P))
    BY <1>1, <2>1, PacketsHeld, Bounds
  <2> QED  BY <1>1, <1>3, <2>1, <2>2
<1>5. CASE WriteCommand
  <2>1. /\ UNCHANGED <<data, fromBus>> /\ cmds # <<>>
        /\ toBus' = Append(toBus, Head(cmds)) /\ cmds' = Tail(cmds)
    BY <1>5 DEF WriteCommand, dataVars
  <2>2. Head(cmds) \in CommandsOf(P) /\ Tail(cmds) \in Seq(CommandsOf(P))
    BY <1>1, <2>1, HeadTailProperties
  <2>3. toBus' \in Seq(OnBusOf(P))
    BY <1>1, <2>1, <2>2, PacketsHeld
  <2> QED  BY <1>1, <1>3, <2>1, <2>2, <2>3
<1>6. CASE HelloAgain
  <2>1. /\ UNCHANGED <<data, fromBus, toBus>> /\ cmds' = Append(cmds, Packet("ack", target))
    BY <1>6 DEF HelloAgain, dataVars, busVars
  <2>2. cmds' \in Seq(CommandsOf(P))
    BY <1>1, <2>1, PacketsHeld
  <2> QED  BY <1>1, <1>3, <2>1, <2>2
<1>7. ASSUME fromBus # <<>>
      PROVE  Head(fromBus) \in FromModulesOf(A) /\ Tail(fromBus) \in Seq(FromModulesOf(A))
  BY <1>1, <1>7, HeadTailProperties
<1>8. CASE ReceiveHello
  BY <1>1, <1>3, <1>7, <1>8 DEF ReceiveHello, Arrives, dataVars
<1>9. ASSUME NEW answer \in A, Receive(answer)
      PROVE  Holding(P, A)'
  <2>1. /\ UNCHANGED <<cmds, toBus>> /\ fromBus # <<>> /\ fromBus' = Tail(fromBus)
        /\ data' = Append(data, answer)
    BY <1>9 DEF Receive, Arrives
  <2>2. data' \in Seq(A)
    BY <1>1, <2>1
  <2> QED  BY <1>1, <1>3, <1>7, <2>1, <2>2
<1>10. CASE ReceiveRead
  <2>1. Head(fromBus) \in FromModulesOf(A) /\ Receive(Head(fromBus).body)
    BY <1>7, <1>10 DEF ReceiveRead, Receive, Arrives
  <2>2. Head(fromBus).body \in A
    BY <2>1 DEF FromModulesOf
  <2> QED  BY <1>9, <2>1, <2>2
<1>11. CASE ReceiveSpoilt
  BY <1>9, <1>11 DEF ReceiveSpoilt, Closed, Corrupted
<1>12. CASE ReceiveResend
  <2>1. /\ UNCHANGED <<data, toBus>> /\ fromBus # <<>> /\ fromBus' = Tail(fromBus)
        /\ cmds' = Append(cmds, DataPacket(last))
    BY <1>12 DEF ReceiveResend, Arrives, dataVars
  <2>2. cmds' \in Seq(CommandsOf(P))
    BY <1>1, <2>1, PacketsHeld
  <2> QED  BY <1>1, <1>3, <1>7, <2>1, <2>2
<1> QED  BY <1>4, <1>5, <1>6, <1>8, <1>10, <1>11, <1>12 DEF ReceivePacket

LEMMA WriteHolds ==
  ASSUME NEW P, NEW A, Closed(P, A), Holding(P, A), last' \in P, NEW j, NEW n, Write(j, n),
         UNCHANGED <<toBus, fromBus, modules>>
  PROVE  Holding(P, A)'
<1>1. cmds' = Append(cmds, DataPacket(last')) /\ data' = data
  BY DEF Write
<1>2. cmds' \in Seq(CommandsOf(P))
  BY <1>1, HoldingParts, PacketsHeld
<1> QED  BY <1>1, <1>2, HoldingParts, HoldingNext

LEMMA OperationHolds ==
  ASSUME NEW P, NEW A, Closed(P, A), Holding(P, A), target \in Targets, Threads,
         NEW j \in 1..Len(threads), Proceed(j), last' \in P
  PROVE  Holding(P, A)'
<1>1. threads[j].target \in Targets
  BY ThreadTyped DEF Thread
<1>2. /\ data \in Seq(A) /\ last \in P
      /\ cmds \in Seq(CommandsOf(P)) /\ toBus \in Seq(OnBusOf(P))
      /\ fromBus \in Seq(FromModulesOf(A)) /\ modules \in [Modules -> ModuleOf(A)]
  BY HoldingParts
<1>3. CASE Begin(j)
  <2>1. /\ cmds' = Append(cmds, Packet("ack", threads[j].target))
        /\ UNCHANGED <<data, toBus, fromBus, modules>>
    BY <1>3 DEF Begin, dataVars, busVars
  <2>2. cmds' \in Seq(CommandsOf(P))
    BY <1>1, <1>2, <2>1, PacketsHeld
  <2> QED  BY <1>2, <2>1, <2>2, HoldingNext
<1>4. CASE Open(j)
  <2>1. UNCHANGED <<data, cmds, toBus, fromBus, modules>>
    BY <1>4 DEF Open, busVars
  <2> QED  BY <1>2, <2>1, HoldingNext
<1>5. CASE WriteRequest(j) \/ \E ok \in BOOLEAN : ExitBootloader(j, ok)
  <2>1. (\E n : Write(j, n)) /\ UNCHANGED <<toBus, fromBus, modules>>
    BY <1>5 DEF WriteRequest, ExitBootloader, busVars
  <2> QED  BY <2>1, WriteHolds
<1>6. CASE ReadAnswer(j)
  <2>1. data # <<>> /\ data' = Tail(data) /\ UNCHANGED <<cmds, toBus, fromBus, modules>>
    BY <1>6 DEF ReadAnswer, Reading, busVars
  <2>2. data' \in Seq(A)
    BY <1>2, <2>1, HeadTailProperties
  <2> QED  BY <1>2, <2>1, <2>2, HoldingNext
<1>7. CASE ReadOther(j)
  <2>1. /\ data # <<>> /\ data' = Tail(data) /\ cmds' = Append(cmds, AskAgain(Head(data)))
        /\ UNCHANGED <<toBus, fromBus, modules>>
    BY <1>7 DEF ReadOther, Reading, busVars
  <2>2. data' \in Seq(A)
    BY <1>2, <2>1, HeadTailProperties
  <2>3. AskAgain(Head(data)) \in CommandsOf(P)
    BY <1>2, PacketsHeld DEF AskAgain
  <2>4. cmds' \in Seq(CommandsOf(P))
    BY <1>2, <2>1, <2>3
  <2> QED  BY <1>2, <2>1, <2>2, <2>4, HoldingNext
<1>8. CASE ReadTimeout(j)
  <2>1. cmds' = Append(cmds, Packet("again", target)) /\ UNCHANGED <<data, toBus, fromBus, modules>>
    BY <1>8 DEF ReadTimeout, dataVars
  <2>2. cmds' \in Seq(CommandsOf(P))
    BY <1>2, <2>1, PacketsHeld
  <2> QED  BY <1>2, <2>1, <2>2, HoldingNext
<1>9. CASE CloseActive(j) \/ CloseTarget(j) \/ CloseAck(j) \/ End(j)
  <2>1. UNCHANGED <<data, cmds, toBus, fromBus, modules>>
    BY <1>9 DEF CloseActive, CloseTarget, CloseAck, End, dataVars, busVars
  <2> QED  BY <1>2, <2>1, HoldingNext
<1> QED  BY <1>3, <1>4, <1>5, <1>6, <1>7, <1>8, <1>9 DEF Proceed

\* A module takes the packet at the head of the bus.
LEMMA TakenHolds ==
  ASSUME NEW P, NEW A, Holding(P, A), toBus # <<>>, NEW next \in ModuleOf(A),
         NEW replies \in Seq(FromModulesOf(A)), Taken(next, replies)
  PROVE  Holding(P, A)'
<1>1. /\ data \in Seq(A) /\ last \in P
      /\ cmds \in Seq(CommandsOf(P)) /\ toBus \in Seq(OnBusOf(P))
      /\ fromBus \in Seq(FromModulesOf(A)) /\ modules \in [Modules -> ModuleOf(A)]
  BY HoldingParts
<1>2. /\ toBus' = Tail(toBus) /\ modules' = [modules EXCEPT ![Addressed] = next]
      /\ fromBus' = fromBus \o replies /\ UNCHANGED <<data, last, cmds>>
  BY DEF Taken, dataVars
<1>3. toBus' \in Seq(OnBusOf(P))
  BY <1>1, <1>2, HeadTailProperties
<1>4. fromBus' \in Seq(FromModulesOf(A))
  BY <1>1, <1>2, ConcatProperties
<1>5. modules' \in [Modules -> ModuleOf(A)]
  BY <1>1, <1>2
<1> QED  BY <1>1, <1>2, <1>3, <1>4, <1>5, HoldingNext

LEMMA ModuleHolds ==
  ASSUME NEW P, NEW A, Closed(P, A), Holding(P, A), ModuleTakes \/ ModuleRefuses
  PROVE  Holding(P, A)'
<1>1. CASE NobodyTakes
  <2>1. toBus # <<>> /\ toBus' = Tail(toBus) /\ UNCHANGED <<data, last, cmds, fromBus, modules>>
    BY <1>1 DEF NobodyTakes, dataVars
  <2>2. toBus' \in Seq(OnBusOf(P))
    BY <2>1, HoldingParts, HeadTailProperties
  <2> QED  BY <2>1, <2>2, HoldingParts, HoldingNext
<1>2. ASSUME ModuleStarts \/ ModuleAcked \/ ModuleAnswers \/ ModuleLeaves
             \/ ModuleRepeats \/ ModuleIgnores \/ ModuleRefuses
      PROVE  /\ toBus # <<>> /\ Head(toBus) \in OnBusOf(P) /\ Addressed \in Modules
             /\ modules[Addressed] \in ModuleOf(A)
  <2>1. toBus # <<>> /\ Addressed \in Modules
    BY <1>2 DEF ModuleStarts, ModuleAcked, ModuleAnswers, ModuleLeaves, ModuleRepeats,
       ModuleIgnores, ModuleRefuses, AtModule
  <2> QED  BY <2>1, HoldingParts, HeadTailProperties
<1>3. <<>> \in Seq(FromModulesOf(A))
  OBVIOUS
<1>4. ASSUME NEW at \in {"app", "waiting", "ready"}
      PROVE  [at |-> at, answer |-> NoRequest] \in ModuleOf(A)
  BY Bounds DEF ModuleOf, Module, Closed
<1>5. CASE ModuleStarts \/ ModuleAcked \/ ModuleLeaves
  BY <1>2, <1>3, <1>4, <1>5, TakenHolds DEF ModuleStarts, ModuleAcked, ModuleLeaves
<1>6. CASE ModuleIgnores
  BY <1>2, <1>3, <1>6, TakenHolds DEF ModuleIgnores
<1>7. CASE ModuleAnswers
  <2> DEFINE answer == AnswerTo(Head(toBus).body)
  <2>1. Head(toBus).body \in P /\ Head(toBus).body.n > 0
    BY <1>2, <1>7 DEF ModuleAnswers, OnBusOf
  <2>2. answer \in A /\ answer \in Request
    BY <2>1, AnswerTyped DEF Closed
  <2>3. Taken([at |-> "ready", answer |-> answer], <<Reply("read", Addressed, answer)>>)
    BY <1>7 DEF ModuleAnswers, AnswerTo
  <2> HIDE DEF answer
  <2>4. [at |-> "ready", answer |-> answer] \in ModuleOf(A)
    BY <2>2 DEF ModuleOf, Module
  <2>5. <<Reply("read", Addressed, answer)>> \in Seq(FromModulesOf(A))
    BY <1>2, <1>7, <2>2, PacketsHeld
  <2> QED  BY <1>2, <1>7, <2>3, <2>4, <2>5, TakenHolds
<1>8. ASSUME Addressed \in Modules  PROVE  <<Reply("resend", Addressed, NoRequest)>> \in Seq(FromModulesOf(A))
  BY <1>8, PacketsHeld
<1>9. CASE ModuleRefuses
  BY <1>2, <1>8, <1>9, TakenHolds DEF ModuleRefuses
<1>10. CASE ModuleRepeats
  <2>1. modules[Addressed].answer \in Request \cap A
    BY <1>2, <1>10 DEF ModuleOf, Module
  <2>2. <<Reply("read", Addressed, modules[Addressed].answer)>> \in Seq(FromModulesOf(A))
    BY <1>2, <1>10, <2>1, PacketsHeld
  <2> QED  BY <1>2, <1>8, <1>10, <2>2, TakenHolds DEF ModuleRepeats
<1> QED  BY <1>1, <1>5, <1>6, <1>7, <1>9, <1>10 DEF ModuleTakes

LEMMA BusHolds ==
  ASSUME NEW P, NEW A, Closed(P, A), Holding(P, A),
         LoseToModule \/ LoseToHost \/ \E a \in Modules : Hello(a) \/ PowerUp(a)
  PROVE  Holding(P, A)'
<1>1. /\ data \in Seq(A) /\ last \in P
      /\ cmds \in Seq(CommandsOf(P)) /\ toBus \in Seq(OnBusOf(P))
      /\ fromBus \in Seq(FromModulesOf(A)) /\ modules \in [Modules -> ModuleOf(A)]
  BY HoldingParts
<1>2. CASE LoseToModule
  <2>1. toBus # <<>> /\ toBus' = Tail(toBus) /\ UNCHANGED <<data, last, cmds, fromBus, modules>>
    BY <1>2 DEF LoseToModule, dataVars
  <2>2. toBus' \in Seq(OnBusOf(P))
    BY <1>1, <2>1, HeadTailProperties
  <2> QED  BY <1>1, <2>1, <2>2, HoldingNext
<1>3. CASE LoseToHost
  <2>1. fromBus # <<>> /\ fromBus' = Tail(fromBus) /\ UNCHANGED <<data, last, cmds, toBus, modules>>
    BY <1>3 DEF LoseToHost, dataVars
  <2>2. fromBus' \in Seq(FromModulesOf(A))
    BY <1>1, <2>1, HeadTailProperties
  <2> QED  BY <1>1, <2>1, <2>2, HoldingNext
<1>4. ASSUME NEW a \in Modules, Hello(a)
      PROVE  Holding(P, A)'
  <2>1. /\ fromBus' = Append(fromBus, Reply("hello", a, NoRequest))
        /\ UNCHANGED <<data, last, cmds, toBus, modules>>
    BY <1>4 DEF Hello, dataVars
  <2>2. fromBus' \in Seq(FromModulesOf(A))
    BY <1>1, <2>1, PacketsHeld
  <2> QED  BY <1>1, <2>1, <2>2, HoldingNext
<1>5. ASSUME NEW a \in Modules, PowerUp(a)
      PROVE  Holding(P, A)'
  <2>1. /\ modules' = [modules EXCEPT ![a].at = "waiting"]
        /\ UNCHANGED <<data, last, cmds, toBus, fromBus>>
    BY <1>5 DEF PowerUp, dataVars
  <2>2. [modules[a] EXCEPT !.at = "waiting"] \in ModuleOf(A)
    BY <1>1 DEF ModuleOf, Module
  <2>3. modules' \in [Modules -> ModuleOf(A)]
    BY <1>1, <2>1, <2>2
  <2> QED  BY <1>1, <2>1, <2>3, HoldingNext
<1> QED  BY <1>2, <1>3, <1>4, <1>5

\* Every step keeps what is on its way within P and A, if the request it writes is in P.
LEMMA HoldingStep ==
  ASSUME NEW P, NEW A, Closed(P, A), Holding(P, A), target \in Targets, Threads,
         [Next]_vars, last' \in P
  PROVE  Holding(P, A)'
<1>1. ASSUME UNCHANGED <<data, last, cmds, toBus, fromBus, modules>>
      PROVE  Holding(P, A)'
  BY <1>1, HoldingParts, HoldingNext
<1>2. CASE \/ StartTarget \/ StartActive \/ CommandsEnd \/ HelloFirst \/ Spawn \/ ReadFinished
           \/ UNCHANGED vars
  <2>1. UNCHANGED <<data, last, cmds, toBus, fromBus, modules>>
    BY <1>2 DEF StartTarget, StartActive, CommandsEnd, HelloFirst, Spawn, ReadFinished, vars,
       dataVars, busVars
  <2> QED  BY <1>1, <2>1
<1>3. ASSUME NEW j \in 1..Len(threads), FileFails(j) \/ UnknownMode(j) \/ GiveUp(j)
      PROVE  Holding(P, A)'
  <2>1. UNCHANGED <<data, last, cmds, toBus, fromBus, modules>>
    BY <1>3 DEF FileFails, UnknownMode, GiveUp, dataVars, busVars
  <2> QED  BY <1>1, <2>1
<1>4. ASSUME NEW j \in 1..Len(threads), Proceed(j)
      PROVE  Holding(P, A)'
  BY <1>4, OperationHolds
<1>5. CASE \/ \E a \in Modules : SendStart(a)
           \/ WriteCommand \/ HelloAgain \/ ReceivePacket \/ ReceiveSpoilt
  BY <1>5, ServiceHolds
<1>6. CASE ModuleTakes \/ ModuleRefuses
  BY <1>6, ModuleHolds
<1>7. CASE LoseToModule \/ LoseToHost \/ \E a \in Modules : Hello(a) \/ PowerUp(a)
  BY <1>7, BusHolds
<1> QED  BY <1>2, <1>3, <1>4, <1>5, <1>6, <1>7 DEF Next, Finish
-----------------------------------------------------------------------------
(***************************************************************************)
(* Types.                                                                  *)
(***************************************************************************)
Flags ==
  /\ active \in BOOLEAN /\ ack \in BOOLEAN /\ target \in Targets /\ finished \in BOOLEAN
  /\ service \in [at : ServiceSteps, module : Targets]
  /\ started \in 0..MaxOperations /\ faults \in 0..MaxFaults
  /\ raced \in BOOLEAN /\ overtook \in BOOLEAN /\ mistaken \in BOOLEAN

LEMMA ClosedTypes == Closed(Request, Answers)
BY Bounds, CorruptedTyped, AnswerTyped DEF Closed

LEMMA TypesParts ==
  /\ TypeOK <=> Flags /\ Threads /\ seqNum \in 0..255 /\ Holding(Request, Answers)
  /\ TypeOK' <=> Flags' /\ Threads' /\ (seqNum \in 0..255)' /\ Holding(Request, Answers)'
<1>1. /\ CommandsOf(Request) = Commands /\ OnBusOf(Request) = OnBus
      /\ FromModulesOf(Answers) = FromModules /\ ModuleOf(Answers) = Module
  BY Bounds DEF CommandsOf, Commands, OnBusOf, OnBus, FromModulesOf, FromModules, ModuleOf, Module
<1>2. TypeOK <=> Flags /\ Threads /\ seqNum \in 0..255 /\ Holding(Request, Answers)
  BY <1>1 DEF TypeOK, Flags, Threads, Holding
<1>3. TypeOK' <=> Flags' /\ Threads' /\ (seqNum \in 0..255)' /\ Holding(Request, Answers)'
  BY <1>1 DEF TypeOK, Flags, Threads, Holding
<1> QED  BY <1>2, <1>3

\* How an operation thread moves.
ClosingSteps == {"closeTarget", "closeAck", "end", "done"}

LEMMA CloseMoves ==
  ASSUME Threads, NEW j \in 1..Len(threads),
         CloseActive(j) \/ CloseTarget(j) \/ CloseAck(j) \/ End(j)
  PROVE  \E at \in ClosingSteps : Moved(j, at, threads[j].n, threads[j].answer)
BY GoesMoves DEF CloseActive, CloseTarget, CloseAck, End, ThreadSteps, ClosingSteps

GoingOnSteps == {"library", "ready", "read", "close", "end"}

\* In the steps that are not those of its close.
GoesOn(j) ==
  \/ Begin(j) \/ FileFails(j) \/ UnknownMode(j) \/ Open(j) \/ WriteRequest(j)
  \/ ReadAnswer(j) \/ GiveUp(j) \/ \E ok \in BOOLEAN : ExitBootloader(j, ok)

LEMMA GoesOnMoves ==
  ASSUME TypeOK, NEW j \in 1..Len(threads), GoesOn(j)
  PROVE  \E at \in GoingOnSteps : \E n, answer : Moved(j, at, n, answer)
<1> USE DEF ThreadSteps, GoingOnSteps
<1>1. Threads /\ Holding(Request, Answers) /\ seqNum \in 0..255
  BY TypesParts
<1>2. CASE Begin(j)
  BY <1>1, <1>2, GoesMoves DEF Begin
<1>3. CASE FileFails(j) \/ GiveUp(j)
  BY <1>1, <1>3, EndsMoves DEF FileFails, GiveUp, Fails
<1>4. CASE UnknownMode(j)
  BY <1>1, <1>4, EndsMoves DEF UnknownMode
<1>5. CASE Open(j)
  BY <1>1, <1>5, GoesMoves DEF Open
<1>6. CASE WriteRequest(j)
  BY <1>1, <1>6, WriteMoves DEF WriteRequest
<1>7. CASE ReadAnswer(j)
  <2>1. Head(data) \in Answers
    BY <1>1, <1>7, HoldingParts, HeadTailProperties DEF ReadAnswer, Reading
  <2>2. Head(data) \in Request
    BY <1>1, <1>7, <2>1 DEF ReadAnswer, Expected, Answers, Request
  <2> QED  BY <1>1, <1>7, <2>2, AnswerMoves DEF ReadAnswer
<1>8. ASSUME NEW ok \in BOOLEAN, ExitBootloader(j, ok)
      PROVE  Moved(j, "close", threads[j].n, threads[j].answer)
  BY <1>1, <1>8, EndsMoves DEF ExitBootloader
<1> QED  BY <1>2, <1>3, <1>4, <1>5, <1>6, <1>7, <1>8 DEF GoesOn

LEMMA SpawnThreads ==
  ASSUME TypeOK, Spawn
  PROVE  /\ threads' \in Seq(Thread) /\ Len(threads') = Len(threads) + 1
         /\ \A j \in 1..Len(threads) : threads'[j] = threads[j]
         /\ threads'[Len(threads) + 1]
              = [at |-> "begin", target |-> target, n |-> 0, ok |-> FALSE, answer |-> NoRequest]
<1> DEFINE t == [at |-> "begin", target |-> target, n |-> 0, ok |-> FALSE, answer |-> NoRequest]
<1>1. threads' = Append(threads, t) /\ threads \in Seq(Thread)
  BY DEF Spawn, TypeOK
<1>2. t \in Thread
  BY Bounds DEF Thread, ThreadSteps, TypeOK
<1> HIDE DEF t
<1>3. /\ threads' \in Seq(Thread) /\ Len(threads') = Len(threads) + 1
      /\ \A j \in 1..Len(threads) : threads'[j] = threads[j]
      /\ threads'[Len(threads) + 1] = t
  BY <1>1, <1>2, AppendProperties
<1> QED  BY <1>3 DEF t

\* The threads stay as they are, or one moves, or one is spawned.
LEMMA ThreadsStep ==
  ASSUME TypeOK, [Next]_vars
  PROVE  Threads'
<1>1. threads \in Seq(Thread) /\ Threads
  BY DEF TypeOK, Threads
<1>2. CASE Spawn
  BY <1>2, SpawnThreads DEF Threads
<1>3. ASSUME NEW j \in 1..Len(threads), GoesOn(j)
      PROVE  Threads'
  BY <1>3, GoesOnMoves DEF Moved, Threads
<1>4. ASSUME NEW j \in 1..Len(threads), CloseActive(j) \/ CloseTarget(j) \/ CloseAck(j) \/ End(j)
      PROVE  Threads'
  BY <1>1, <1>4, CloseMoves DEF Moved, Threads
<1>5. ASSUME NEW j \in 1..Len(threads), ReadOther(j) \/ ReadTimeout(j)
      PROVE  Threads'
  BY <1>1, <1>5 DEF ReadOther, ReadTimeout, Threads
<1>6. ASSUME NEW a \in Modules, SendStart(a) \/ Hello(a) \/ PowerUp(a)
      PROVE  Threads'
  BY <1>1, <1>6 DEF SendStart, Hello, PowerUp, Threads
<1>7. CASE \/ WriteCommand \/ ReceivePacket \/ ReceiveSpoilt \/ ReadFinished
           \/ LoseToModule \/ LoseToHost \/ UNCHANGED vars
           \/ StartTarget \/ StartActive \/ CommandsEnd \/ HelloFirst \/ HelloAgain
  BY <1>1, <1>7
  DEF WriteCommand, ReceivePacket, ReceiveHello, ReceiveRead, ReceiveResend, ReceiveSpoilt,
      Receive, ReadFinished, LoseToModule, LoseToHost, vars, StartTarget, StartActive,
      CommandsEnd, HelloFirst, HelloAgain, Threads
<1>8. CASE ModuleTakes \/ ModuleRefuses
  BY <1>1, <1>8
  DEF ModuleTakes, ModuleStarts, ModuleAcked, ModuleAnswers, ModuleLeaves, ModuleRepeats,
      ModuleIgnores, NobodyTakes, ModuleRefuses, Taken, Threads
<1> QED
  BY <1>2, <1>3, <1>4, <1>5, <1>6, <1>7, <1>8 DEF Next, Finish, Proceed, GoesOn

LEMMA FlagsTyped ==
  ASSUME TypeOK, [Next]_vars
  PROVE  Flags'
<1> USE Bounds DEF flagVars, appVars, dataVars, busVars
<1>0. /\ Flags /\ Threads
      /\ Fault => faults' \in 0..MaxFaults
  BY TypesParts DEF Flags, Fault
\* The bus and the data.
<1>1. ASSUME UNCHANGED <<active, ack, target, finished, service, appVars>>,
             UNCHANGED faults \/ Fault
      PROVE  Flags'
  BY <1>0, <1>1 DEF Flags
<1>2. ASSUME NEW a \in Modules, SendStart(a)
      PROVE  Flags'
  <2>1. a \in Targets /\ started' \in 0..MaxOperations
    BY <1>0, <1>2 DEF SendStart, Flags
  <2>2. service' \in [at : ServiceSteps, module : Targets]
    BY <1>2, <2>1 DEF SendStart, ServiceSteps
  <2>3. raced' \in BOOLEAN /\ overtook' \in BOOLEAN /\ ack' \in BOOLEAN
    BY <1>2 DEF SendStart
  <2>4. UNCHANGED <<active, target, finished, mistaken, faults>>
    BY <1>2 DEF SendStart
  <2> QED  BY <1>0, <2>1, <2>2, <2>3, <2>4 DEF Flags
<1>3. ASSUME NEW a \in Modules, Hello(a) \/ PowerUp(a)
      PROVE  Flags'
  <2>1. UNCHANGED faults \/ Fault
    BY <1>3 DEF Hello, PowerUp
  <2> QED  BY <1>1, <1>3, <2>1 DEF Hello, PowerUp
<1>4. CASE StartTarget \/ StartActive \/ CommandsEnd \/ HelloFirst \/ HelloAgain \/ Spawn
           \/ ReceiveHello
  <2>1. service' \in [at : ServiceSteps, module : Targets]
    BY <1>0, <1>4 DEF Flags, StartTarget, StartActive, CommandsEnd, HelloFirst, HelloAgain,
       Spawn, ReceiveHello, ServiceAt, ServiceSteps
  <2>2. /\ active' \in BOOLEAN /\ ack' \in BOOLEAN /\ target' \in Targets
        /\ UNCHANGED <<finished, appVars, faults>>
    BY <1>0, <1>4 DEF Flags, StartTarget, StartActive, CommandsEnd, HelloFirst, HelloAgain,
       Spawn, ReceiveHello
  <2> QED  BY <1>0, <2>1, <2>2 DEF Flags
<1>5. CASE \/ WriteCommand \/ ReceiveRead \/ ReceiveResend \/ ReceiveSpoilt
           \/ LoseToModule \/ LoseToHost \/ UNCHANGED vars
  <2>1. UNCHANGED faults \/ Fault
    BY <1>5 DEF WriteCommand, ReceiveRead, ReceiveResend, ReceiveSpoilt, LoseToModule,
       LoseToHost, vars
  <2>2. UNCHANGED <<active, ack, target, finished, service, appVars>>
    BY <1>5 DEF WriteCommand, ReceiveRead, ReceiveResend, ReceiveSpoilt, LoseToModule,
       LoseToHost, vars, Receive
  <2> QED  BY <1>1, <2>1, <2>2
<1>6. CASE ReadFinished
  BY <1>0, <1>6 DEF ReadFinished, Flags
<1>7. CASE ModuleTakes \/ ModuleRefuses
  <2>1. UNCHANGED faults \/ Fault
    BY <1>7 DEF ModuleTakes, ModuleStarts, ModuleAcked, ModuleAnswers, ModuleLeaves,
       ModuleRepeats, ModuleIgnores, NobodyTakes, ModuleRefuses
  <2>2. UNCHANGED <<active, ack, target, finished, service, appVars>>
    BY <1>7 DEF ModuleTakes, ModuleStarts, ModuleAcked, ModuleAnswers, ModuleLeaves,
       ModuleRepeats, ModuleIgnores, NobodyTakes, ModuleRefuses, Taken
  <2> QED  BY <1>1, <2>1, <2>2
<1>8. ASSUME NEW j \in 1..Len(threads),
             Begin(j) \/ FileFails(j) \/ UnknownMode(j) \/ GiveUp(j)
             \/ WriteRequest(j) \/ \E ok \in BOOLEAN : ExitBootloader(j, ok)
      PROVE  Flags'
  <2>1. UNCHANGED <<active, ack, target, finished, service, appVars, faults>>
    BY <1>8 DEF Begin, FileFails, UnknownMode, GiveUp, WriteRequest, ExitBootloader
  <2> QED  BY <1>1, <2>1
<1>9. ASSUME NEW j \in 1..Len(threads), ReadOther(j) \/ ReadTimeout(j)
      PROVE  Flags'
  <2>1. UNCHANGED faults \/ Fault
    BY <1>9 DEF ReadOther, ReadTimeout
  <2>2. UNCHANGED <<active, ack, target, finished, service, appVars>>
    BY <1>9 DEF ReadOther, ReadTimeout
  <2> QED  BY <1>1, <2>1, <2>2
<1>10. ASSUME NEW j \in 1..Len(threads), Open(j) \/ CloseTarget(j) \/ CloseAck(j)
       PROVE  Flags'
  BY <1>0, <1>10 DEF Flags, Open, CloseTarget, CloseAck
<1>11. ASSUME NEW j \in 1..Len(threads), CloseActive(j) \/ ReadAnswer(j)
       PROVE  Flags'
  <2>1. /\ active' \in BOOLEAN /\ raced' \in BOOLEAN /\ mistaken' \in BOOLEAN
        /\ UNCHANGED <<ack, target, finished, service, started, overtook, faults>>
    BY <1>0, <1>11 DEF Flags, CloseActive, ReadAnswer
  <2> QED  BY <1>0, <2>1 DEF Flags
<1>12. ASSUME NEW j \in 1..Len(threads), End(j)
       PROVE  Flags'
  <2>1. threads[j].ok \in BOOLEAN
    BY <1>0, ThreadTyped DEF Thread
  <2> QED  BY <1>0, <1>12, <2>1 DEF Flags, End
<1> QED
  BY <1>2, <1>3, <1>4, <1>5, <1>6, <1>7, <1>8, <1>9, <1>10, <1>11, <1>12
  DEF Next, Finish, ReceivePacket, Proceed

\* What a step writes: the last request, and its number, which is counted.
LEMMA WritesStep ==
  ASSUME TypeOK, [Next]_vars
  PROVE  \/ UNCHANGED <<last, seqNum>>
         \/ \E j \in 1..Len(threads) : Open(j) /\ last' = last /\ seqNum' = 0
         \/ \E j \in 1..Len(threads) :
              /\ WriteRequest(j) /\ seqNum' = (seqNum + 1) % 256
              /\ last' = [to |-> target, seq |-> seqNum, op |-> j, n |-> threads[j].n + 1]
         \/ \E j \in 1..Len(threads) :
              /\ \E ok \in BOOLEAN : ExitBootloader(j, ok)
              /\ seqNum' = (seqNum + 1) % 256
              /\ last' = [to |-> target, seq |-> seqNum, op |-> j, n |-> 0]
<1> USE DEF dataVars
<1>1. ASSUME NEW j \in 1..Len(threads), WriteRequest(j)
      PROVE  /\ seqNum' = (seqNum + 1) % 256
             /\ last' = [to |-> target, seq |-> seqNum, op |-> j, n |-> threads[j].n + 1]
  BY <1>1 DEF WriteRequest, Write
<1>2. ASSUME NEW j \in 1..Len(threads), NEW ok \in BOOLEAN, ExitBootloader(j, ok)
      PROVE  /\ seqNum' = (seqNum + 1) % 256
             /\ last' = [to |-> target, seq |-> seqNum, op |-> j, n |-> 0]
  BY <1>2 DEF ExitBootloader, Write
<1>3. ASSUME NEW j \in 1..Len(threads), Open(j)
      PROVE  last' = last /\ seqNum' = 0
  BY <1>3 DEF Open
<1>4. ASSUME NEW j \in 1..Len(threads),
             \/ Begin(j) \/ FileFails(j) \/ UnknownMode(j) \/ ReadAnswer(j) \/ ReadOther(j)
             \/ ReadTimeout(j) \/ GiveUp(j)
             \/ CloseActive(j) \/ CloseTarget(j) \/ CloseAck(j) \/ End(j)
      PROVE  UNCHANGED <<last, seqNum>>
  BY <1>4 DEF Begin, FileFails, UnknownMode, ReadAnswer, ReadOther, ReadTimeout, GiveUp,
     CloseActive, CloseTarget, CloseAck, End
<1>5. ASSUME NEW a \in Modules, SendStart(a) \/ Hello(a) \/ PowerUp(a)
      PROVE  UNCHANGED <<last, seqNum>>
  BY <1>5 DEF SendStart, Hello, PowerUp
<1>6. CASE \/ WriteCommand \/ ReceivePacket \/ ReceiveSpoilt \/ ReadFinished
           \/ LoseToModule \/ LoseToHost \/ UNCHANGED vars
           \/ StartTarget \/ StartActive \/ CommandsEnd \/ HelloFirst \/ HelloAgain \/ Spawn
  BY <1>6
  DEF WriteCommand, ReceivePacket, ReceiveHello, ReceiveRead, ReceiveResend, ReceiveSpoilt,
      Receive, ReadFinished, LoseToModule, LoseToHost, vars, StartTarget, StartActive,
      CommandsEnd, HelloFirst, HelloAgain, Spawn
<1>7. CASE ModuleTakes \/ ModuleRefuses
  BY <1>7
  DEF ModuleTakes, ModuleStarts, ModuleAcked, ModuleAnswers, ModuleLeaves, ModuleRepeats,
      ModuleIgnores, NobodyTakes, ModuleRefuses, Taken
<1> QED
  BY <1>1, <1>2, <1>3, <1>4, <1>5, <1>6, <1>7 DEF Next, Finish, Proceed

LEMMA TypesStep ==
  ASSUME TypeOK, [Next]_vars
  PROVE  TypeOK'
<1>1. Threads' /\ Flags'
  BY ThreadsStep, FlagsTyped
<1>2. last' \in Request /\ seqNum' \in 0..255
  <2>1. \A j \in 1..Len(threads) : threads[j].n + 1 \in Nat
    <3>1. \A j \in 1..Len(threads) : threads[j] \in Thread
      BY TypesParts, ThreadTyped
    <3> QED  BY <3>1, Bounds DEF Thread
  <2>2. last \in Request /\ seqNum \in 0..255 /\ target \in Targets /\ (seqNum + 1) % 256 \in 0..255
    BY DEF TypeOK
  <2>3. \A j \in 1..Len(threads) : j \in Nat
    BY DEF TypeOK
  <2>4. \A j, n \in Nat : [to |-> target, seq |-> seqNum, op |-> j, n |-> n] \in Request
    BY <2>2 DEF Request
  <2>5. ASSUME last' = last, seqNum' \in {seqNum, 0}
        PROVE  last' \in Request /\ seqNum' \in 0..255
    BY <2>2, <2>5
  <2>6. ASSUME NEW j \in 1..Len(threads), NEW n \in Nat, seqNum' = (seqNum + 1) % 256,
               last' = [to |-> target, seq |-> seqNum, op |-> j, n |-> n]
        PROVE  last' \in Request /\ seqNum' \in 0..255
    BY <2>2, <2>3, <2>4, <2>6
  <2> HIDE DEF TypeOK
  <2> QED  BY <2>1, <2>5, <2>6, WritesStep
<1>3. Holding(Request, Answers)'
  BY <1>2, ClosedTypes, TypesParts, HoldingStep DEF Flags
<1> QED  BY <1>1, <1>2, <1>3, TypesParts

LEMMA InitTypes ==
  ASSUME Init
  PROVE  TypeOK
<1> USE DEF Init
<1>1. service \in [at : ServiceSteps, module : Targets]
  BY Bounds DEF ServiceSteps
<1>2. modules \in [Modules -> Module]
  BY Bounds DEF Module
<1>3. /\ started \in 0..MaxOperations /\ faults \in 0..MaxFaults /\ target \in Targets
      /\ last \in Request
  BY Bounds
<1>4. active \in BOOLEAN /\ ack \in BOOLEAN /\ finished \in BOOLEAN
      /\ raced \in BOOLEAN /\ overtook \in BOOLEAN /\ mistaken \in BOOLEAN
  OBVIOUS
<1>5. /\ data \in Seq(Answers) /\ seqNum \in 0..255 /\ cmds \in Seq(Commands)
      /\ threads \in Seq(Thread) /\ toBus \in Seq(OnBus) /\ fromBus \in Seq(FromModules)
  OBVIOUS
<1> HIDE DEF Init
<1> QED  BY <1>1, <1>2, <1>3, <1>4, <1>5 DEF TypeOK

\* Types, of every host: the numbers that are compared are bytes, and nothing is read
\* that does not parse, also when operations race (eigen_bootloader.cpp).
THEOREM TypesHold == Spec => []TypeOK
<1>1. Init => TypeOK
  BY InitTypes
<1>2. TypeOK /\ [Next]_vars => TypeOK'
  BY TypesStep
<1> QED  BY <1>1, <1>2, PTL DEF Spec
-----------------------------------------------------------------------------
(***************************************************************************)
(* The flags, until an operation is raced.                                 *)
(***************************************************************************)
\* A START has been written that no operation has answered.
Starting == service.at \in {"start", "startActive"}
Owed == Starting \/ service.at = "spawn" \/ (active /\ ~ack)

Ended(j) == threads[j].at \in {"end", "done"}

OnlyTheLastRuns == \A j \in 1..Len(threads) : Ended(j) \/ j = Len(threads)

StartIsOwed ==
  IF Owed THEN started >= Len(threads) + 1 /\ \A j \in 1..Len(threads) : Ended(j)
  ELSE started >= Len(threads)

ServiceInStep ==
  /\ Starting => ~ack /\ service.module \in Modules
  /\ service.at = "startActive" => target = service.module
  /\ service.at = "sent" => active /\ ~ack
  /\ service.at = "hello" => active
  /\ service.at = "spawn" => active /\ ack
  /\ active => target \in Modules

ThreadsInStep ==
  \A j \in 1..Len(threads) :
    /\ Running(j) => active /\ ack /\ target = threads[j].target
    /\ threads[j].at \in {"closeTarget", "closeAck"} => ~active

FlagsInv == OnlyTheLastRuns /\ StartIsOwed /\ ServiceInStep /\ ThreadsInStep

RunningSteps == {"begin", "library", "ready", "read", "close"}

LEMMA LengthTyped == ASSUME TypeOK PROVE Len(threads) \in Nat /\ started \in Nat
BY Bounds DEF TypeOK

LEMMA ThreadAt ==
  ASSUME TypeOK, NEW j \in 1..Len(threads)
  PROVE  Running(j) \/ threads[j].at \in {"closeTarget", "closeAck"} \/ Ended(j)
<1>1. threads[j] \in Thread
  BY TypesParts, ThreadTyped
<1> QED  BY <1>1 DEF Thread, ThreadSteps, Running, Ended

\* A thread that has not ended is the last one, and no START is owed.
LEMMA OnlyOneRuns ==
  ASSUME FlagsInv, NEW j \in 1..Len(threads), ~Ended(j)
  PROVE  ~Owed /\ started >= Len(threads) /\ j = Len(threads)
BY DEF FlagsInv, OnlyTheLastRuns, StartIsOwed

\* The flags are left alone by an operation that goes on or fails.
LEMMA RunningKeepsFlags ==
  ASSUME TypeOK, FlagsInv, NEW j \in 1..Len(threads), NEW at \in GoingOnSteps,
         NEW n, NEW answer, Moved(j, at, n, answer), Running(j),
         UNCHANGED <<active, ack, target, service, started>>
  PROVE  FlagsInv'
<1>1. ~Owed /\ started >= Len(threads) /\ j = Len(threads) /\ active /\ ack
      /\ target = threads[j].target
  BY OnlyOneRuns DEF Running, Ended, FlagsInv, ThreadsInStep
<1>2. OnlyTheLastRuns'
  BY <1>1 DEF FlagsInv, OnlyTheLastRuns, Ended, Moved
<1>3. StartIsOwed'
  BY <1>1 DEF StartIsOwed, Owed, Starting, Moved
<1>4. ServiceInStep'
  BY DEF FlagsInv, ServiceInStep, Starting
<1>5. ThreadsInStep'
  BY <1>1 DEF FlagsInv, ThreadsInStep, Running, GoingOnSteps, Moved
<1> QED  BY <1>2, <1>3, <1>4, <1>5 DEF FlagsInv

LEMMA CloseKeepsFlags ==
  ASSUME TypeOK, FlagsInv, ~raced', NEW j \in 1..Len(threads),
         CloseActive(j) \/ CloseTarget(j) \/ CloseAck(j) \/ End(j)
  PROVE  FlagsInv'
<1>1. PICK at \in ClosingSteps :
        /\ Moved(j, at, threads[j].n, threads[j].answer)
        /\ at \in {"closeTarget", "closeAck"} => ~active'
  <2>1. Threads
    BY TypesParts
  <2> QED  BY <2>1, GoesMoves DEF ThreadSteps, ClosingSteps, CloseActive, CloseTarget, CloseAck,
           End, FlagsInv, ThreadsInStep, Goes
<1>2. UNCHANGED <<service, started>> /\ active' \in {active, FALSE}
  BY DEF CloseActive, CloseTarget, CloseAck, End, appVars
<1>3. CASE End(j)
  <2>1. threads[j].at = "end" /\ Moved(j, "done", threads[j].n, threads[j].answer)
    BY <1>3, TypesParts, GoesMoves DEF End, ThreadSteps
  <2>2. UNCHANGED <<active, ack, target>>
    BY <1>3 DEF End
  <2>3. \A i \in 1..Len(threads) : (Ended(i))' = Ended(i) /\ Running(i)' = Running(i)
    BY <2>1 DEF Ended, Running, Moved
  <2>4. Len(threads') = Len(threads) /\ Owed' = Owed
    BY <1>2, <2>1, <2>2 DEF Moved, Owed, Starting
  <2>5. OnlyTheLastRuns' /\ StartIsOwed'
    BY <1>2, <2>3, <2>4 DEF FlagsInv, OnlyTheLastRuns, StartIsOwed
  <2>6. ServiceInStep'
    BY <1>2, <2>2 DEF FlagsInv, ServiceInStep, Starting
  <2>7. ThreadsInStep'
    BY <2>1, <2>2, <2>3, <2>4 DEF FlagsInv, ThreadsInStep, Moved
  <2> QED  BY <2>5, <2>6, <2>7 DEF FlagsInv
<1>4. CASE CloseActive(j) \/ CloseTarget(j) \/ CloseAck(j)
  <2>1. ~Ended(j)
    BY <1>4 DEF CloseActive, CloseTarget, CloseAck, Goes, Ended
  <2>2. ~Owed /\ started >= Len(threads) /\ j = Len(threads)
    BY <2>1, OnlyOneRuns
  <2>3. active' /\ ~ack' => active /\ ~ack
    BY <1>4 DEF CloseActive, CloseTarget, CloseAck, FlagsInv, ThreadsInStep, Goes
  <2>4. OnlyTheLastRuns'
    BY <1>1, <2>2 DEF FlagsInv, OnlyTheLastRuns, Ended, Moved
  <2>5. StartIsOwed'
    BY <1>1, <1>2, <2>2, <2>3 DEF StartIsOwed, Owed, Starting, Moved
  <2>6. ServiceInStep'
    <3>1. ~Starting /\ service.at # "spawn" /\ service.at # "sent"
      BY <2>2 DEF Owed, FlagsInv, ServiceInStep
    <3>2. service.at = "hello" => active'
      BY <1>4 DEF FlagsInv, ServiceInStep, ThreadsInStep, CloseActive, CloseTarget, CloseAck
    <3>3. active' => active /\ target' = target
      BY <1>4 DEF CloseActive, CloseTarget, CloseAck, Goes, FlagsInv, ThreadsInStep
    <3> QED  BY <1>2, <3>1, <3>2, <3>3 DEF FlagsInv, ServiceInStep, Starting
  <2>7. ThreadsInStep'
    BY <1>1, <2>2 DEF FlagsInv, OnlyTheLastRuns, Ended, ThreadsInStep, Running, Moved, ClosingSteps
  <2> QED  BY <2>4, <2>5, <2>6, <2>7 DEF FlagsInv
<1> QED  BY <1>3, <1>4

\* A START is handled when all operations have ended: one that is closing would be raced.
LEMMA SendStartFlags ==
  ASSUME TypeOK, FlagsInv, ~raced', NEW a \in Modules, SendStart(a)
  PROVE  FlagsInv'
<1>1. \A j \in 1..Len(threads) : Ended(j)
  <2>1. CASE service.at = "sent"
    BY <2>1 DEF FlagsInv, ServiceInStep, StartIsOwed, Owed
  <2>2. CASE ~active
    <3>1. ASSUME NEW j \in 1..Len(threads)
          PROVE  threads[j].at \notin {"closeTarget", "closeAck"}
      BY <3>1 DEF SendStart, Resetting
    <3>2. \A j \in 1..Len(threads) : ~Running(j)
      BY <2>2 DEF FlagsInv, ThreadsInStep
    <3> QED  BY <3>1, <3>2, ThreadAt
  <2> QED  BY <2>1, <2>2 DEF SendStart
<1>2. /\ started' = started + 1 /\ threads' = threads
      /\ ~ack' /\ service' = [at |-> "start", module |-> a] /\ active' = active
      /\ target' = target
  BY DEF SendStart
<1>0. started >= Len(threads)
  BY LengthTyped DEF FlagsInv, StartIsOwed
<1>3. OnlyTheLastRuns'
  BY <1>1, <1>2 DEF OnlyTheLastRuns, Ended
<1>4. StartIsOwed'
  BY <1>0, <1>1, <1>2, LengthTyped DEF StartIsOwed, Owed, Starting, Ended
<1>5. ServiceInStep'
  BY <1>2 DEF FlagsInv, ServiceInStep, Starting
<1>6. ThreadsInStep'
  BY <1>1, <1>2 DEF ThreadsInStep, Running, Ended
<1> QED  BY <1>3, <1>4, <1>5, <1>6 DEF FlagsInv

\* What the service thread does in a handler, but for its last step.
HandlerStep ==
  StartTarget \/ StartActive \/ CommandsEnd \/ HelloFirst \/ HelloAgain \/ ReceiveHello

LEMMA ServiceStepFlags ==
  ASSUME TypeOK, FlagsInv, HandlerStep
  PROVE  FlagsInv'
<1> USE DEF HandlerStep
<1>0. service \in [at : ServiceSteps, module : Targets] /\ active \in BOOLEAN /\ ack \in BOOLEAN
  BY DEF TypeOK
<1>1. threads' = threads /\ started' = started
  BY DEF StartTarget, StartActive, CommandsEnd, HelloFirst, HelloAgain, ReceiveHello, appVars
<1>2. service'.module = service.module
  BY <1>0 DEF StartTarget, StartActive, CommandsEnd, HelloFirst, HelloAgain, ReceiveHello, ServiceAt
<1>3. Owed' = Owed
  <2>1. CASE StartTarget
    BY <1>0, <2>1 DEF StartTarget, ServiceAt, Owed, Starting
  <2>2. CASE StartActive
    BY <1>0, <2>2 DEF StartActive, ServiceAt, Owed, Starting, FlagsInv, ServiceInStep
  <2>3. CASE HelloFirst
    BY <1>0, <2>3 DEF HelloFirst, HelloIsFirst, ServiceAt, Owed, Starting, FlagsInv, ServiceInStep
  <2>4. CASE HelloAgain
    BY <1>0, <2>4 DEF HelloAgain, HelloIsFirst, ServiceAt, Owed, Starting, flagVars
  <2>5. CASE ReceiveHello
    BY <1>0, <2>5 DEF ReceiveHello, Arrives, Idle, ServiceAt, Owed, Starting, flagVars
  <2>6. CASE CommandsEnd
    BY <1>0, <2>6 DEF CommandsEnd, ServiceAt, Owed, Starting, flagVars
  <2> QED  BY <2>1, <2>2, <2>3, <2>4, <2>5, <2>6
<1>4. OnlyTheLastRuns' /\ StartIsOwed'
  BY <1>1, <1>3 DEF FlagsInv, OnlyTheLastRuns, StartIsOwed, Ended
<1>5. ServiceInStep'
  <2>1. CASE StartTarget
    BY <1>0, <2>1 DEF StartTarget, ServiceAt, Starting, FlagsInv, ServiceInStep
  <2>2. CASE StartActive
    BY <1>0, <2>2 DEF StartActive, ServiceAt, Starting, FlagsInv, ServiceInStep
  <2>3. CASE HelloFirst
    BY <1>0, <2>3 DEF HelloFirst, ServiceAt, Starting, FlagsInv, ServiceInStep
  <2>4. CASE HelloAgain
    BY <1>0, <2>4 DEF HelloAgain, ServiceAt, Starting, FlagsInv, ServiceInStep, flagVars
  <2>5. CASE ReceiveHello
    BY <1>0, <2>5 DEF ReceiveHello, ForTarget, ServiceAt, Starting, FlagsInv, ServiceInStep, flagVars
  <2>6. CASE CommandsEnd
    BY <1>0, <2>6 DEF CommandsEnd, ServiceAt, Starting, FlagsInv, ServiceInStep, flagVars
  <2> QED  BY <2>1, <2>2, <2>3, <2>4, <2>5, <2>6
<1>6. ThreadsInStep'
  <2>1. ASSUME NEW j \in 1..Len(threads), Running(j) \/ threads[j].at \in {"closeTarget", "closeAck"}
        PROVE  ~Owed /\ service.at \notin {"start", "startActive", "spawn"}
    BY <2>1, OnlyOneRuns DEF Ended, Running, Owed, Starting
  <2>2. active' = active \/ StartActive
    BY DEF StartTarget, StartActive, CommandsEnd, HelloFirst, HelloAgain, ReceiveHello, flagVars
  <2>3. ack' = ack \/ ack'
    BY DEF StartTarget, StartActive, CommandsEnd, HelloFirst, HelloAgain, ReceiveHello, flagVars
  <2>4. target' = target \/ StartTarget
    BY DEF StartTarget, StartActive, CommandsEnd, HelloFirst, HelloAgain, ReceiveHello, flagVars
  <2> QED
    BY <1>1, <2>1, <2>2, <2>3, <2>4
    DEF FlagsInv, ThreadsInStep, Running, StartTarget, StartActive
<1> QED  BY <1>4, <1>5, <1>6 DEF FlagsInv

LEMMA SpawnFlags ==
  ASSUME TypeOK, FlagsInv, Spawn
  PROVE  FlagsInv'
<1>1. Owed /\ active /\ ack /\ target \in Modules
  BY DEF Spawn, Owed, FlagsInv, ServiceInStep
<1>2. /\ Len(threads') = Len(threads) + 1
      /\ \A j \in 1..Len(threads) : threads'[j] = threads[j]
      /\ threads'[Len(threads) + 1].at = "begin" /\ threads'[Len(threads) + 1].target = target
  BY SpawnThreads
<1>3. started >= Len(threads) + 1 /\ \A j \in 1..Len(threads) : Ended(j)
  BY <1>1 DEF FlagsInv, StartIsOwed
<1>4. UNCHANGED <<active, ack, target, started>> /\ service'.at = "idle"
  BY DEF Spawn, ServiceAt, flagVars, appVars, TypeOK
<1>5. Len(threads) \in Nat /\ started \in Nat
  BY LengthTyped
<1>6. OnlyTheLastRuns'
  BY <1>2, <1>3, <1>5 DEF OnlyTheLastRuns, Ended
<1>7. StartIsOwed'
  BY <1>1, <1>2, <1>3, <1>4, <1>5 DEF StartIsOwed, Owed, Starting
<1>8. ServiceInStep'
  BY <1>1, <1>4 DEF ServiceInStep, Starting
<1>9. ThreadsInStep'
  BY <1>1, <1>2, <1>3, <1>4, <1>5 DEF ThreadsInStep, Running, Ended
<1> QED  BY <1>6, <1>7, <1>8, <1>9 DEF FlagsInv

\* The steps that leave the flags, the threads and the service thread alone.
LEMMA OtherStepsKeepFlags ==
  ASSUME FlagsInv, UNCHANGED <<active, ack, target, service, started, threads>>
  PROVE  FlagsInv'
BY DEF FlagsInv, OnlyTheLastRuns, Ended, StartIsOwed, Owed, Starting, ServiceInStep,
   ThreadsInStep, Running

LEMMA GoesOnRunning ==
  ASSUME NEW j \in 1..Len(threads), GoesOn(j)
  PROVE  Running(j) /\ UNCHANGED <<active, ack, target, service, started>>
BY DEF GoesOn, Begin, FileFails, UnknownMode, Open, WriteRequest, ReadAnswer, GiveUp,
   ExitBootloader, Goes, Fails, Reading, Running, flagVars, appVars

LEMMA FlagsStep ==
  ASSUME TypeOK, FlagsInv, [Next]_vars, ~raced'
  PROVE  FlagsInv'
<1>1. ASSUME NEW a \in Modules, SendStart(a)  PROVE FlagsInv'
  BY <1>1, SendStartFlags
<1>2. CASE HandlerStep
  BY <1>2, ServiceStepFlags
<1>3. CASE Spawn
  BY <1>3, SpawnFlags
<1>4. ASSUME NEW j \in 1..Len(threads), GoesOn(j)
      PROVE  FlagsInv'
  BY <1>4, GoesOnRunning, GoesOnMoves, RunningKeepsFlags
<1>5. ASSUME NEW j \in 1..Len(threads), CloseActive(j) \/ CloseTarget(j) \/ CloseAck(j) \/ End(j)
      PROVE  FlagsInv'
  BY <1>5, CloseKeepsFlags
<1>6. ASSUME NEW j \in 1..Len(threads), ReadOther(j) \/ ReadTimeout(j)
      PROVE  FlagsInv'
  BY <1>6, OtherStepsKeepFlags DEF ReadOther, ReadTimeout, flagVars, appVars
<1>7. ASSUME NEW a \in Modules, Hello(a) \/ PowerUp(a)
      PROVE  FlagsInv'
  BY <1>7, OtherStepsKeepFlags DEF Hello, PowerUp, flagVars, appVars
<1>8. CASE \/ WriteCommand \/ ReceiveRead \/ ReceiveResend \/ ReceiveSpoilt \/ ReadFinished
           \/ LoseToModule \/ LoseToHost \/ UNCHANGED vars
  BY <1>8, OtherStepsKeepFlags
  DEF WriteCommand, ReceiveRead, ReceiveResend, ReceiveSpoilt, Receive, ReadFinished,
      LoseToModule, LoseToHost, vars, flagVars, appVars
<1>9. CASE ModuleTakes \/ ModuleRefuses
  <2>1. UNCHANGED <<active, ack, target, service, started, threads>>
    BY <1>9 DEF ModuleTakes, ModuleStarts, ModuleAcked, ModuleAnswers, ModuleLeaves,
       ModuleRepeats, ModuleIgnores, NobodyTakes, ModuleRefuses, Taken, flagVars, appVars
  <2> QED  BY <2>1, OtherStepsKeepFlags
<1> QED
  BY <1>1, <1>2, <1>3, <1>4, <1>5, <1>6, <1>7, <1>8, <1>9
  DEF Next, Finish, ReceivePacket, Proceed, GoesOn, HandlerStep

\* What has raced stays so.
LEMMA RacedStays ==
  ASSUME [Next]_vars, raced
  PROVE  raced'
<1> USE DEF appVars
<1>1. ASSUME NEW a \in Modules, SendStart(a) \/ Hello(a) \/ PowerUp(a)  PROVE raced'
  BY <1>1 DEF SendStart, Hello, PowerUp
<1>2. ASSUME NEW j \in 1..Len(threads), GoesOn(j)  PROVE raced'
  BY <1>2 DEF GoesOn, Begin, FileFails, UnknownMode, Open, WriteRequest, ReadAnswer, GiveUp,
     ExitBootloader
<1>3. ASSUME NEW j \in 1..Len(threads), \/ CloseActive(j) \/ CloseTarget(j) \/ CloseAck(j)
                                        \/ End(j) \/ ReadOther(j) \/ ReadTimeout(j)
      PROVE  raced'
  BY <1>3 DEF CloseActive, CloseTarget, CloseAck, End, ReadOther, ReadTimeout
<1>4. CASE HandlerStep \/ Spawn
  BY <1>4 DEF HandlerStep, StartTarget, StartActive, CommandsEnd, HelloFirst, HelloAgain,
     ReceiveHello, Spawn
<1>5. CASE \/ WriteCommand \/ ReceiveRead \/ ReceiveResend \/ ReceiveSpoilt \/ ReadFinished
           \/ LoseToModule \/ LoseToHost \/ UNCHANGED vars
  BY <1>5
  DEF WriteCommand, ReceiveRead, ReceiveResend, ReceiveSpoilt, Receive, ReadFinished,
      LoseToModule, LoseToHost, vars
<1>6. CASE ModuleTakes \/ ModuleRefuses
  BY <1>6 DEF ModuleTakes, ModuleStarts, ModuleAcked, ModuleAnswers, ModuleLeaves,
     ModuleRepeats, ModuleIgnores, NobodyTakes, ModuleRefuses, Taken
<1> QED
  BY <1>1, <1>2, <1>3, <1>4, <1>5, <1>6
  DEF Next, Finish, ReceivePacket, Proceed, GoesOn, HandlerStep

\* The flags are in step until an operation is raced.
LEMMA FlagsInvariant == Spec => [](TypeOK /\ (raced \/ FlagsInv))
<1>1. Init => TypeOK /\ FlagsInv
  <2>1. ASSUME Init  PROVE FlagsInv
    <3>1. Len(threads) = 0 /\ ~Owed /\ ~active /\ service.at = "idle" /\ started = 0
      BY <2>1 DEF Init, Owed, Starting
    <3> QED  BY <3>1 DEF FlagsInv, OnlyTheLastRuns, StartIsOwed, ServiceInStep, Starting,
              ThreadsInStep
  <2> QED  BY <2>1, InitTypes
<1>2. TypeOK /\ (raced \/ FlagsInv) /\ [Next]_vars => TypeOK' /\ (raced' \/ FlagsInv')
  BY TypesStep, FlagsStep, RacedStays
<1> QED  BY <1>1, <1>2, PTL DEF Spec

\* Every START begins one operation at most, although the first hello is told by a flag
\* that the other thread resets, until it is reset under a START or a hello.
THEOREM StartsBeginOnce == Spec => []OneOperationPerStart
<1>1. TypeOK /\ (raced \/ FlagsInv) => OneOperationPerStart
  BY LengthTyped DEF FlagsInv, StartIsOwed, OneOperationPerStart
<1> QED  BY <1>1, FlagsInvariant, PTL

\* An operation is the only one, and its callbacks read its own flags and target: what
\* waits in the queues, a START given twice, and the hellos of any module leave them
\* alone, unless one of them is handled within the three steps of a close.
THEOREM FlagsAreOwned == Spec => []OperationOwnsTheFlags
<1>1. TypeOK /\ (raced \/ FlagsInv) => OperationOwnsTheFlags
  BY DEF FlagsInv, OnlyTheLastRuns, ThreadsInStep, Ended, Running, OperationOwnsTheFlags, FlagsAreOf
<1> QED  BY <1>1, FlagsInvariant, PTL
-----------------------------------------------------------------------------
(***************************************************************************)
(* The sequence byte.                                                      *)
(***************************************************************************)
\* The n-th request has the number n - 1, its answer the next one.
Numbered == {r \in Request : r.n > 0 => r.seq = (r.n - 1) % 256}
Matching == {r \in Answers : r.op = 0 \/ (r.n > 0 /\ r.seq = r.n % 256)}

LEMMA ClosedNumbers == Closed(Numbered, Matching)
<1>1. Numbered \subseteq Request /\ Matching \subseteq Answers
  BY DEF Numbered, Matching
<1>2. NoRequest \in Numbered /\ NoRequest \in Matching /\ Corrupted \in Matching
  <2>1. NoRequest.op = 0 /\ NoRequest.n = 0
    BY DEF NoRequest
  <2> QED  BY <2>1, Bounds, CorruptedTyped DEF Numbered, Matching
<1>3. ASSUME NEW r \in Numbered, r.n > 0
      PROVE  AnswerTo(r) \in Matching
  <2>1. r \in Request /\ r.seq = (r.n - 1) % 256 /\ r.n \in Nat
    BY <1>3 DEF Numbered, Request
  <2>2. (r.seq + 1) % 256 = r.n % 256
    BY <1>3, <2>1
  <2>3. AnswerTo(r) \in Answers /\ AnswerTo(r).n = r.n /\ AnswerTo(r).seq = (r.seq + 1) % 256
    BY <2>1, AnswerTyped, Bounds
  <2> QED  BY <1>3, <2>2, <2>3 DEF Matching
<1> QED  BY <1>1, <1>2, <1>3 DEF Closed

\* A thread, and what counts: its requests, and the answer it has taken.
InCount(t, seq) ==
  /\ t.at \in {"begin", "library"} => t.n = 0 /\ t.answer.op = 0
  /\ t.at \in {"ready", "read"} => seq = t.n % 256
  /\ t.at = "ready" /\ t.answer.op # 0 => t.answer.n % 256 = t.n % 256

Counting == \A j \in 1..Len(threads) : InCount(threads[j], seqNum)

Numbers == Holding(Numbered, Matching) /\ Counting

SInv == TypeOK /\ (raced \/ (FlagsInv /\ Numbers))

\* The other threads have ended: they do not count.
LEMMA MoveCounts ==
  ASSUME TypeOK, FlagsInv, NEW j \in 1..Len(threads), ~Ended(j),
         NEW at, NEW n, NEW answer, Moved(j, at, n, answer),
         InCount([at |-> at, n |-> n, answer |-> answer], seqNum')
  PROVE  Counting'
<1>1. \A i \in 1..Len(threads) : i # j => threads[i].at \in {"end", "done"}
  BY DEF Ended, FlagsInv, OnlyTheLastRuns
<1>2. Len(threads') = Len(threads)
      /\ \A i \in 1..Len(threads) : i # j => threads'[i].at \in {"end", "done"}
  BY <1>1 DEF Moved
<1>3. threads'[j].at = at /\ threads'[j].n = n /\ threads'[j].answer = answer
  BY DEF Moved
<1>4. InCount(threads'[j], seqNum')
  BY <1>3 DEF InCount
<1>5. \A i \in 1..Len(threads') : InCount(threads'[i], seqNum')
  BY <1>2, <1>4 DEF InCount
<1> QED  BY <1>5 DEF Counting

LEMMA SameCounts ==
  ASSUME Counting, UNCHANGED <<threads, seqNum>>
  PROVE  Counting'
BY DEF Counting

LEMMA ThreadParts ==
  ASSUME TypeOK, NEW j \in 1..Len(threads)
  PROVE  /\ Threads /\ threads[j] \in Thread /\ threads[j].n \in Nat
         /\ threads[j].n \in 0..MaxRequests /\ threads[j].answer \in Request
         /\ seqNum \in 0..255
<1>1. Threads /\ threads[j] \in Thread /\ seqNum \in 0..255
  BY TypesParts, ThreadTyped
<1> QED  BY <1>1, Bounds DEF Thread

LEMMA OperationCounts ==
  ASSUME TypeOK, FlagsInv, Numbers, NEW j \in 1..Len(threads),
         Proceed(j) \/ FileFails(j) \/ UnknownMode(j) \/ GiveUp(j)
  PROVE  Counting'
<1> DEFINE t == threads[j]
<1>1. /\ Threads /\ InCount(t, seqNum) /\ seqNum \in 0..255
      /\ t \in Thread /\ t.n \in Nat
      /\ Running(j) => ack
  BY ThreadParts DEF Numbers, Counting, FlagsInv, ThreadsInStep
<1>2. CASE Begin(j)
  <2>1. Moved(j, "library", t.n, t.answer) /\ t.at = "begin" /\ seqNum' = seqNum
    BY <1>1, <1>2, GoesMoves DEF Begin, ThreadSteps, dataVars
  <2>2. InCount([at |-> "library", n |-> t.n, answer |-> t.answer], seqNum')
    BY <1>1, <2>1 DEF InCount
  <2> QED  BY <1>1, <2>1, <2>2, MoveCounts DEF Ended
<1>3. ASSUME NEW at \in {"end", "close", "closeTarget", "closeAck", "done"},
             Moved(j, at, t.n, t.answer), ~Ended(j)
      PROVE  Counting'
  <2>1. InCount([at |-> at, n |-> t.n, answer |-> t.answer], seqNum')
    BY DEF InCount
  <2> QED  BY <1>3, <2>1, MoveCounts
<1>4. CASE FileFails(j) \/ GiveUp(j) \/ UnknownMode(j)
  <2>1. Moved(j, "end", t.n, t.answer) /\ ~Ended(j)
    BY <1>1, <1>4, EndsMoves DEF FileFails, GiveUp, UnknownMode, Fails, ThreadSteps, Ended
  <2> QED  BY <1>3, <2>1
<1>5. CASE \E ok \in BOOLEAN : ExitBootloader(j, ok)
  <2>1. Moved(j, "close", t.n, t.answer) /\ ~Ended(j)
    BY <1>1, <1>5, EndsMoves DEF ExitBootloader, ThreadSteps, Ended
  <2> QED  BY <1>3, <2>1
<1>6. CASE CloseActive(j) \/ CloseTarget(j) \/ CloseAck(j)
  <2>1. /\ \E at \in {"closeTarget", "closeAck", "end", "done"} : Moved(j, at, t.n, t.answer)
        /\ ~Ended(j)
    BY <1>1, <1>6, GoesMoves DEF CloseActive, CloseTarget, CloseAck, ThreadSteps, Ended
  <2> QED  BY <1>3, <2>1
<1>7. CASE End(j)
  <2>1. Moved(j, "done", t.n, t.answer) /\ seqNum' = seqNum
    BY <1>1, <1>7, GoesMoves DEF End, ThreadSteps, dataVars
  <2>2. \A i \in 1..Len(threads) : InCount(threads'[i], seqNum')
    BY <2>1 DEF Moved, Numbers, Counting, InCount
  <2> QED  BY <2>1, <2>2 DEF Counting, Moved
<1>8. CASE Open(j)
  <2>1. Goes(j, "library", "ready") /\ seqNum' = 0
    BY <1>1, <1>8 DEF Open, Goes, Running
  <2>2. Moved(j, "ready", t.n, t.answer) /\ t.at = "library"
    BY <1>1, <2>1, GoesMoves DEF ThreadSteps
  <2>3. t.n = 0 /\ t.answer.op = 0
    BY <1>1, <2>2 DEF InCount
  <2>4. InCount([at |-> "ready", n |-> t.n, answer |-> t.answer], seqNum')
    BY <2>1, <2>3 DEF InCount
  <2> QED  BY <1>1, <2>2, <2>4, MoveCounts DEF Ended
<1>9. CASE WriteRequest(j)
  <2> DEFINE n == t.n + 1
  <2>1. Moved(j, "read", n, t.answer) /\ t.at = "ready" /\ seqNum' = (seqNum + 1) % 256
    BY <1>1, <1>9, WriteMoves DEF WriteRequest, Write
  <2>2. seqNum = t.n % 256
    BY <1>1, <2>1 DEF InCount
  <2>3. seqNum' = n % 256
    BY <1>1, <2>1, <2>2
  <2>4. InCount([at |-> "read", n |-> n, answer |-> t.answer], seqNum')
    BY <2>3 DEF InCount
  <2> HIDE DEF n
  <2> QED  BY <1>1, <2>1, <2>4, MoveCounts DEF Ended
<1>10. CASE ReadAnswer(j)
  <2> DEFINE answer == Head(data)
  <2>1. answer \in Matching /\ answer.seq = seqNum /\ t.at = "read" /\ seqNum' = seqNum
    BY <1>10, HoldingParts, HeadTailProperties DEF ReadAnswer, Reading, Expected, Numbers
  <2>2. answer \in Request
    BY <1>1, <2>1 DEF Matching, Answers, Request
  <2>3. Moved(j, "ready", t.n, answer)
    BY <1>1, <1>10, <2>2, AnswerMoves DEF ReadAnswer
  <2>4. seqNum = t.n % 256
    BY <1>1, <2>1 DEF InCount
  <2>5. answer.op # 0 => answer.n % 256 = t.n % 256
    BY <2>1, <2>4 DEF Matching
  <2>6. InCount([at |-> "ready", n |-> t.n, answer |-> answer], seqNum')
    BY <2>1, <2>4, <2>5 DEF InCount
  <2> HIDE DEF answer
  <2> QED  BY <1>1, <2>1, <2>3, <2>6, MoveCounts DEF Ended
<1>11. CASE ReadOther(j) \/ ReadTimeout(j)
  BY <1>11, SameCounts DEF ReadOther, ReadTimeout, dataVars, Numbers
<1> QED  BY <1>2, <1>4, <1>5, <1>6, <1>7, <1>8, <1>9, <1>10, <1>11 DEF Proceed

LEMMA SpawnCounts ==
  ASSUME TypeOK, Counting, Spawn
  PROVE  Counting'
<1> DEFINE t == [at |-> "begin", target |-> target, n |-> 0, ok |-> FALSE, answer |-> NoRequest]
<1>1. InCount(t, seqNum) /\ seqNum' = seqNum
  BY DEF InCount, NoRequest, Spawn, dataVars
<1> HIDE DEF t
<1>2. /\ Len(threads') = Len(threads) + 1 /\ Len(threads) \in Nat
      /\ \A j \in 1..Len(threads) : threads'[j] = threads[j]
      /\ threads'[Len(threads) + 1] = t
  BY SpawnThreads, LengthTyped DEF t
<1>3. \A j \in 1..Len(threads') : j \in 1..Len(threads) \/ j = Len(threads) + 1
  BY <1>2
<1>4. \A j \in 1..Len(threads) : InCount(threads[j], seqNum)
  BY DEF Counting
<1>5. \A j \in 1..Len(threads') : InCount(threads'[j], seqNum')
  BY <1>1, <1>2, <1>3, <1>4
<1> QED  BY <1>5 DEF Counting

LEMMA CountingStep ==
  ASSUME TypeOK, FlagsInv, Numbers, [Next]_vars
  PROVE  Counting'
<1>1. CASE UNCHANGED <<threads, seqNum>>
  BY <1>1, SameCounts DEF Numbers
<1>2. CASE Spawn
  BY <1>2, SpawnCounts DEF Numbers
<1>3. ASSUME NEW j \in 1..Len(threads),
             Proceed(j) \/ FileFails(j) \/ UnknownMode(j) \/ GiveUp(j)
      PROVE  Counting'
  BY <1>3, OperationCounts
<1>4. ASSUME NEW a \in Modules, SendStart(a) \/ Hello(a) \/ PowerUp(a)
      PROVE  UNCHANGED <<threads, seqNum>>
  BY <1>4 DEF SendStart, Hello, PowerUp, dataVars
<1>5. CASE \/ StartTarget \/ StartActive \/ CommandsEnd \/ HelloFirst \/ HelloAgain
           \/ WriteCommand \/ ReceivePacket \/ ReceiveSpoilt \/ ReadFinished
           \/ LoseToModule \/ LoseToHost \/ UNCHANGED vars
  <2>1. UNCHANGED <<threads, seqNum>>
    BY <1>5 DEF StartTarget, StartActive, CommandsEnd, HelloFirst, HelloAgain, WriteCommand,
       ReceivePacket, ReceiveHello, ReceiveRead, ReceiveResend, ReceiveSpoilt, Receive,
       ReadFinished, LoseToModule, LoseToHost, vars, dataVars
  <2> QED  BY <1>1, <2>1
<1>6. CASE ModuleTakes \/ ModuleRefuses
  <2>1. UNCHANGED <<threads, seqNum>>
    BY <1>6 DEF ModuleTakes, ModuleStarts, ModuleAcked, ModuleAnswers, ModuleLeaves,
       ModuleRepeats, ModuleIgnores, NobodyTakes, ModuleRefuses, Taken, dataVars
  <2> QED  BY <1>1, <2>1
<1> QED  BY <1>1, <1>2, <1>3, <1>4, <1>5, <1>6 DEF Next, Finish

\* What is written is numbered, as the byte counts.
LEMMA WritesNumbered ==
  ASSUME TypeOK, Numbers, [Next]_vars
  PROVE  last' \in Numbered
<1>1. last \in Numbered /\ target \in Targets /\ seqNum \in 0..255
  BY HoldingParts DEF Numbers, TypeOK
<1>2. ASSUME NEW j \in 1..Len(threads), WriteRequest(j),
             last' = [to |-> target, seq |-> seqNum, op |-> j, n |-> threads[j].n + 1]
      PROVE  last' \in Numbered
  <2>1. threads[j].n \in Nat /\ seqNum = threads[j].n % 256 /\ j \in Nat
    BY <1>2, ThreadParts, LengthTyped DEF Numbers, Counting, InCount, WriteRequest
  <2>2. PICK n \in Nat : n = threads[j].n + 1
    BY <2>1
  <2>3. n > 0 /\ seqNum = (n - 1) % 256
    BY <2>1, <2>2
  <2> QED  BY <1>1, <1>2, <2>1, <2>2, <2>3 DEF Numbered, Request
<1>3. ASSUME NEW j \in 1..Len(threads),
             last' = [to |-> target, seq |-> seqNum, op |-> j, n |-> 0]
      PROVE  last' \in Numbered
  BY <1>1, <1>3, LengthTyped DEF Numbered, Request
<1> QED  BY <1>1, <1>2, <1>3, WritesStep

LEMMA NumbersStep ==
  ASSUME TypeOK, FlagsInv, Numbers, [Next]_vars
  PROVE  Numbers'
<1>1. Counting'
  BY CountingStep
<1>2. last' \in Numbered /\ Threads /\ target \in Targets
  BY WritesNumbered, TypesParts DEF TypeOK
<1>3. Holding(Numbered, Matching)'
  BY <1>2, ClosedNumbers, HoldingStep DEF Numbers
<1> QED  BY <1>1, <1>3 DEF Numbers

LEMMA InitFlags ==
  ASSUME Init
  PROVE  FlagsInv
<1>1. Len(threads) = 0 /\ ~Owed /\ ~active /\ service.at = "idle" /\ started = 0
  BY DEF Init, Owed, Starting
<1> QED  BY <1>1 DEF FlagsInv, OnlyTheLastRuns, StartIsOwed, ServiceInStep, Starting, ThreadsInStep

LEMMA InitHolds ==
  ASSUME Init, NEW P, NEW A, Closed(P, A)
  PROVE  Holding(P, A)
<1>1. NoRequest \in P /\ NoRequest \in A /\ NoRequest \in Request
  BY Bounds DEF Closed
<1>2. [at |-> "app", answer |-> NoRequest] \in ModuleOf(A)
  BY <1>1 DEF ModuleOf, Module
<1> QED  BY <1>1, <1>2 DEF Init, Holding

LEMMA InitNumbers ==
  ASSUME Init
  PROVE  Numbers
<1>1. Counting
  BY DEF Init, Counting
<1> QED  BY <1>1, InitHolds, ClosedNumbers DEF Numbers

LEMMA NumbersInvariant == Spec => []SInv
<1>1. Init => SInv
  BY InitTypes, InitFlags, InitNumbers DEF SInv
<1>2. SInv /\ [Next]_vars => SInv'
  BY TypesStep, FlagsStep, RacedStays, NumbersStep DEF SInv
<1> QED  BY <1>1, <1>2, PTL DEF Spec

\* The answer an operation has taken is to its last request, or to one that the sequence
\* byte does not tell from it, unless it has been raced.
SequenceAgrees ==
  \A j \in 1..Len(threads) :
    threads[j].at = "ready" /\ threads[j].answer.op = j
      => raced \/ threads[j].answer.n % 256 = threads[j].n % 256

\* bootloader_read_data compares a byte (eigen_bootloader.cpp): what it tells apart is never
\* mixed up, whatever is lost, repeated, delayed or asked for again, and whatever an earlier
\* operation has left.
THEOREM AnswersAgree == Spec => []SequenceAgrees
<1>1. SInv => SequenceAgrees
  BY LengthTyped DEF SInv, Numbers, Counting, InCount, SequenceAgrees
<1> QED  BY <1>1, NumbersInvariant, PTL
-----------------------------------------------------------------------------
(***************************************************************************)
(* Order: what an operation says, and what is answered, goes from cmd_list_ *)
(* over the bus to the module, and from there back to bootloader_data; on  *)
(* this way a later request overtakes no earlier one.                      *)
(***************************************************************************)
Le(j, x, y) == x.op = j /\ y.op = j => x.n <= y.n

InOrder(j, f) == \A k, l \in 1..Len(f) : k < l => Le(j, f[k], f[l])
UpTo(j, f, g) == \A k \in 1..Len(f), l \in 1..Len(g) : Le(j, f[k], g[l])
UpToModules(j, f, M) == \A k \in 1..Len(f), a \in Modules : Le(j, f[k], M[a])
FromModulesUpTo(j, M, g) == \A a \in Modules, l \in 1..Len(g) : Le(j, M[a], g[l])

\* The way, from the end: data D, the bus to the host F, the modules M, the bus to them T,
\* and commands C.
Ordered(j, D, F, M, T, C) ==
  /\ InOrder(j, D) /\ InOrder(j, F) /\ InOrder(j, T) /\ InOrder(j, C)
  /\ UpTo(j, D, F) /\ UpToModules(j, D, M) /\ UpTo(j, D, T) /\ UpTo(j, D, C)
  /\ UpToModules(j, F, M) /\ UpTo(j, F, T) /\ UpTo(j, F, C)
  /\ FromModulesUpTo(j, M, T) /\ FromModulesUpTo(j, M, C)
  /\ UpTo(j, T, C)

Items == Seq(Answers)

LEMMA TailItems ==
  ASSUME NEW f \in Items, f # <<>>
  PROVE  /\ Head(f) = f[1] /\ 1 \in 1..Len(f) /\ Tail(f) \in Items
         /\ \A k \in 1..Len(Tail(f)) : k + 1 \in 1..Len(f) /\ Tail(f)[k] = f[k + 1] /\ 1 < k + 1
         /\ \A k, l \in 1..Len(Tail(f)) : k < l => k + 1 < l + 1
<1>1. f \in Seq(Answers) /\ Len(f) \in Nat /\ Len(f) > 0
  BY EmptySeq DEF Items
<1>2. Tail(f) \in Seq(Answers) /\ Len(Tail(f)) = Len(f) - 1
      /\ \A k \in 1..Len(Tail(f)) : Tail(f)[k] = f[k + 1]
  BY <1>1, HeadTailProperties
<1> QED  BY <1>1, <1>2 DEF Items

LEMMA AppendItems ==
  ASSUME NEW f \in Items, NEW x \in Answers
  PROVE  /\ Append(f, x) \in Items
         /\ \A k \in 1..Len(Append(f, x)) :
              \/ k \in 1..Len(f) /\ Append(f, x)[k] = f[k]
              \/ k = Len(f) + 1 /\ Append(f, x)[k] = x
         /\ \A k, l \in 1..Len(Append(f, x)) : k < l => k \in 1..Len(f) /\ Append(f, x)[k] = f[k]
<1>1. f \in Seq(Answers) /\ Len(f) \in Nat
  BY DEF Items
<1> QED  BY <1>1, AppendProperties DEF Items

LEMMA TailOrder ==
  ASSUME NEW j, NEW f \in Items, f # <<>>
  PROVE  /\ InOrder(j, f) => InOrder(j, Tail(f))
         /\ InOrder(j, f) => \A k \in 1..Len(Tail(f)) : Le(j, Head(f), Tail(f)[k])
         /\ \A g : UpTo(j, f, g) => UpTo(j, Tail(f), g)
         /\ \A g : UpTo(j, g, f) => UpTo(j, g, Tail(f))
         /\ \A M : UpToModules(j, f, M) => UpToModules(j, Tail(f), M)
         /\ \A M : FromModulesUpTo(j, M, f) => FromModulesUpTo(j, M, Tail(f))
<1>1. InOrder(j, f) => InOrder(j, Tail(f))
  BY TailItems DEF InOrder
<1>2. InOrder(j, f) => \A k \in 1..Len(Tail(f)) : Le(j, Head(f), Tail(f)[k])
  BY TailItems DEF InOrder
<1>3. \A g : UpTo(j, f, g) => UpTo(j, Tail(f), g)
  BY TailItems DEF UpTo
<1>4. \A g : UpTo(j, g, f) => UpTo(j, g, Tail(f))
  BY TailItems DEF UpTo
<1>5. \A M : UpToModules(j, f, M) => UpToModules(j, Tail(f), M)
  BY TailItems DEF UpToModules
<1>6. \A M : FromModulesUpTo(j, M, f) => FromModulesUpTo(j, M, Tail(f))
  BY TailItems DEF FromModulesUpTo
<1> QED  BY <1>1, <1>2, <1>3, <1>4, <1>5, <1>6

LEMMA AppendOrder ==
  ASSUME NEW j, NEW f \in Items, NEW x \in Answers
  PROVE  /\ InOrder(j, f) /\ (\A k \in 1..Len(f) : Le(j, f[k], x)) => InOrder(j, Append(f, x))
         /\ \A g : UpTo(j, f, g) /\ (\A l \in 1..Len(g) : Le(j, x, g[l])) => UpTo(j, Append(f, x), g)
         /\ \A g : UpTo(j, g, f) /\ (\A l \in 1..Len(g) : Le(j, g[l], x)) => UpTo(j, g, Append(f, x))
         /\ \A M : UpToModules(j, f, M) /\ (\A a \in Modules : Le(j, x, M[a]))
                     => UpToModules(j, Append(f, x), M)
         /\ \A M : FromModulesUpTo(j, M, f) /\ (\A a \in Modules : Le(j, M[a], x))
                     => FromModulesUpTo(j, M, Append(f, x))
<1>0. \A k \in 1..Len(Append(f, x)) : (k \in 1..Len(f) /\ Append(f, x)[k] = f[k]) \/ Append(f, x)[k] = x
  BY AppendItems
<1>1. ASSUME InOrder(j, f), \A k \in 1..Len(f) : Le(j, f[k], x)  PROVE InOrder(j, Append(f, x))
  <2>1. \A k, l \in 1..Len(Append(f, x)) : k < l => k \in 1..Len(f) /\ Append(f, x)[k] = f[k]
    BY AppendItems
  <2> QED  BY <1>0, <1>1, <2>1 DEF InOrder
<1>2. \A g : UpTo(j, f, g) /\ (\A l \in 1..Len(g) : Le(j, x, g[l])) => UpTo(j, Append(f, x), g)
  BY <1>0 DEF UpTo
<1>3. \A g : UpTo(j, g, f) /\ (\A l \in 1..Len(g) : Le(j, g[l], x)) => UpTo(j, g, Append(f, x))
  BY <1>0 DEF UpTo
<1>4. \A M : UpToModules(j, f, M) /\ (\A a \in Modules : Le(j, x, M[a]))
               => UpToModules(j, Append(f, x), M)
  BY <1>0 DEF UpToModules
<1>5. \A M : FromModulesUpTo(j, M, f) /\ (\A a \in Modules : Le(j, M[a], x))
               => FromModulesUpTo(j, M, Append(f, x))
  BY <1>0 DEF FromModulesUpTo
<1> QED  BY <1>1, <1>2, <1>3, <1>4, <1>5

LEMMA OrderedTails ==
  ASSUME NEW j, NEW D \in Items, NEW F \in Items, NEW T \in Items, NEW C \in Items, NEW M,
         Ordered(j, D, F, M, T, C)
  PROVE  /\ D # <<>> => Ordered(j, Tail(D), F, M, T, C)
         /\ F # <<>> => Ordered(j, D, Tail(F), M, T, C)
         /\ T # <<>> => Ordered(j, D, F, M, Tail(T), C)
<1>1. ASSUME D # <<>>  PROVE Ordered(j, Tail(D), F, M, T, C)
  BY <1>1, TailOrder DEF Ordered
<1>2. ASSUME F # <<>>  PROVE Ordered(j, D, Tail(F), M, T, C)
  BY <1>2, TailOrder DEF Ordered
<1>3. ASSUME T # <<>>  PROVE Ordered(j, D, F, M, Tail(T), C)
  BY <1>3, TailOrder DEF Ordered
<1> QED  BY <1>1, <1>2, <1>3

\* What is not of operation j, and what is not earlier than anything.
Late(j, x, D, F, M, T, C) ==
  /\ \A k \in 1..Len(D) : Le(j, D[k], x)
  /\ \A k \in 1..Len(F) : Le(j, F[k], x)
  /\ \A a \in Modules : Le(j, M[a], x)
  /\ \A k \in 1..Len(T) : Le(j, T[k], x)
  /\ \A k \in 1..Len(C) : Le(j, C[k], x)

LEMMA OtherLe == ASSUME NEW j, NEW x, NEW y, x.op # j \/ y.op # j PROVE Le(j, x, y)
BY DEF Le

LEMMA OrderedCommand ==
  ASSUME NEW j, NEW D, NEW F, NEW T, NEW C \in Items, NEW M,
         NEW x \in Answers, Ordered(j, D, F, M, T, C), Late(j, x, D, F, M, T, C)
  PROVE  Ordered(j, D, F, M, T, Append(C, x))
BY AppendOrder DEF Ordered, Late

LEMMA OrderedOthers ==
  ASSUME NEW j, NEW D \in Items, NEW F \in Items, NEW T \in Items, NEW C \in Items, NEW M,
         NEW x \in Answers, x.op # j, Ordered(j, D, F, M, T, C)
  PROVE  /\ Ordered(j, Append(D, x), F, M, T, C)
         /\ Ordered(j, D, Append(F, x), M, T, C)
         /\ Ordered(j, D, F, M, Append(T, x), C)
         /\ Ordered(j, D, F, M, T, Append(C, x))
<1>1. \A y : Le(j, x, y) /\ Le(j, y, x)
  BY OtherLe
<1>2. Ordered(j, Append(D, x), F, M, T, C)
  BY <1>1, AppendOrder DEF Ordered
<1>3. Ordered(j, D, Append(F, x), M, T, C)
  BY <1>1, AppendOrder DEF Ordered
<1>4. Ordered(j, D, F, M, Append(T, x), C)
  BY <1>1, AppendOrder DEF Ordered
<1>5. Ordered(j, D, F, M, T, Append(C, x))
  BY <1>1, AppendOrder DEF Ordered
<1> QED  BY <1>2, <1>3, <1>4, <1>5

\* A command is written.
LEMMA OrderedWritten ==
  ASSUME NEW j, NEW D \in Items, NEW F \in Items, NEW T \in Items, NEW C \in Items, NEW M,
         Ordered(j, D, F, M, T, C), C # <<>>
  PROVE  Ordered(j, D, F, M, Append(T, Head(C)), Tail(C))
<1> DEFINE x == Head(C)
<1>1. x = C[1] /\ 1 \in 1..Len(C) /\ x \in Answers
  BY TailItems DEF Items
<1>2. /\ \A k \in 1..Len(D) : Le(j, D[k], x)
      /\ \A k \in 1..Len(F) : Le(j, F[k], x)
      /\ \A a \in Modules : Le(j, M[a], x)
      /\ \A k \in 1..Len(T) : Le(j, T[k], x)
  BY <1>1 DEF Ordered, UpTo, FromModulesUpTo
<1>3. /\ InOrder(j, Tail(C)) /\ UpTo(j, D, Tail(C)) /\ UpTo(j, F, Tail(C))
      /\ FromModulesUpTo(j, M, Tail(C)) /\ UpTo(j, T, Tail(C))
      /\ \A k \in 1..Len(Tail(C)) : Le(j, x, Tail(C)[k])
  BY TailOrder DEF Ordered
<1> HIDE DEF x
<1>4. /\ InOrder(j, Append(T, x)) /\ UpTo(j, D, Append(T, x)) /\ UpTo(j, F, Append(T, x))
      /\ FromModulesUpTo(j, M, Append(T, x)) /\ UpTo(j, Append(T, x), Tail(C))
  BY <1>1, <1>2, <1>3, AppendOrder DEF Ordered
<1> QED  BY <1>3, <1>4 DEF Ordered, x

\* An answer is received.
LEMMA OrderedReceived ==
  ASSUME NEW j, NEW D \in Items, NEW F \in Items, NEW T \in Items, NEW C \in Items, NEW M,
         Ordered(j, D, F, M, T, C), F # <<>>
  PROVE  Ordered(j, Append(D, Head(F)), Tail(F), M, T, C)
<1> DEFINE x == Head(F)
<1>1. x = F[1] /\ 1 \in 1..Len(F) /\ x \in Answers
  BY TailItems DEF Items
<1>2. /\ \A k \in 1..Len(D) : Le(j, D[k], x)
      /\ \A a \in Modules : Le(j, x, M[a])
      /\ \A k \in 1..Len(T) : Le(j, x, T[k])
      /\ \A k \in 1..Len(C) : Le(j, x, C[k])
  BY <1>1 DEF Ordered, UpTo, UpToModules
<1>3. /\ InOrder(j, Tail(F)) /\ UpTo(j, D, Tail(F)) /\ UpTo(j, Tail(F), T)
      /\ UpToModules(j, Tail(F), M) /\ UpTo(j, Tail(F), C)
      /\ \A k \in 1..Len(Tail(F)) : Le(j, x, Tail(F)[k])
  BY TailOrder DEF Ordered
<1> HIDE DEF x
<1>4. /\ InOrder(j, Append(D, x)) /\ UpTo(j, Append(D, x), Tail(F)) /\ UpTo(j, Append(D, x), T)
      /\ UpToModules(j, Append(D, x), M) /\ UpTo(j, Append(D, x), C)
  BY <1>1, <1>2, <1>3, AppendOrder DEF Ordered
<1> QED  BY <1>3, <1>4 DEF Ordered, x

\* A module has one answer of operation j at most.
Sole(j, M) == \A a, b \in Modules : M[a].op = j /\ M[b].op = j => a = b

LEMMA OrderedModule ==
  ASSUME NEW j, NEW D, NEW F, NEW T, NEW C, NEW M, NEW a \in Modules, NEW N,
         \A b \in Modules : b # a => N[b] = M[b],
         Ordered(j, D, F, M, T, C),
         \A k \in 1..Len(D) : Le(j, D[k], N[a]), \A k \in 1..Len(F) : Le(j, F[k], N[a]),
         \A k \in 1..Len(T) : Le(j, N[a], T[k]), \A k \in 1..Len(C) : Le(j, N[a], C[k])
  PROVE  Ordered(j, D, F, N, T, C)
<1>1. UpToModules(j, D, N) /\ UpToModules(j, F, N)
  BY DEF Ordered, UpToModules
<1>2. FromModulesUpTo(j, N, T) /\ FromModulesUpTo(j, N, C)
  BY DEF Ordered, FromModulesUpTo
<1> QED  BY <1>1, <1>2 DEF Ordered

\* A module forgets its answer.
LEMMA OrderedForgotten ==
  ASSUME NEW j, NEW D, NEW F, NEW T, NEW C, NEW M, NEW a \in Modules, NEW N,
         \A b \in Modules : b # a => N[b] = M[b], N[a].op # j,
         Ordered(j, D, F, M, T, C)
  PROVE  Ordered(j, D, F, N, T, C)
<1>1. \A y : Le(j, N[a], y) /\ Le(j, y, N[a])
  BY OtherLe
<1> QED  BY <1>1, OrderedModule

\* A module repeats its answer.
LEMMA OrderedRepeated ==
  ASSUME NEW j, NEW D \in Items, NEW F \in Items, NEW T \in Items, NEW C \in Items, NEW M,
         NEW a \in Modules, M[a] \in Answers, Sole(j, M), Ordered(j, D, F, M, T, C)
  PROVE  Ordered(j, D, Append(F, M[a]), M, T, C)
<1> DEFINE x == M[a]
<1>1. /\ \A k \in 1..Len(D) : Le(j, D[k], x)
      /\ \A k \in 1..Len(F) : Le(j, F[k], x)
      /\ \A k \in 1..Len(T) : Le(j, x, T[k])
      /\ \A k \in 1..Len(C) : Le(j, x, C[k])
  BY DEF Ordered, UpToModules, FromModulesUpTo
<1>2. x.n <= x.n
  BY DEF Answers
<1>3. \A b \in Modules : Le(j, x, M[b])
  BY <1>2 DEF Le, Sole
<1> HIDE DEF x
<1>4. /\ InOrder(j, Append(F, x)) /\ UpTo(j, D, Append(F, x)) /\ UpToModules(j, Append(F, x), M)
      /\ UpTo(j, Append(F, x), T) /\ UpTo(j, Append(F, x), C)
  <2>1. x \in Answers
    BY DEF x
  <2> QED  BY <1>1, <1>3, <2>1, AppendOrder DEF Ordered
<1> QED  BY <1>4 DEF Ordered, x

\* A module answers the request x, with an answer of the same operation and number.
LEMMA OrderedAnswered ==
  ASSUME NEW j, NEW D \in Items, NEW F \in Items, NEW T \in Items, NEW C \in Items, NEW M,
         NEW a \in Modules, NEW N, NEW y \in Answers,
         T # <<>>, y.op = Head(T).op, y.n = Head(T).n,
         N[a] = y, \A b \in Modules : b # a => N[b] = M[b], Sole(j, N),
         Ordered(j, D, F, M, T, C)
  PROVE  Ordered(j, D, Append(F, y), N, Tail(T), C)
<1>0. \A z : Le(j, z, y) = Le(j, z, Head(T)) /\ Le(j, y, z) = Le(j, Head(T), z)
  BY DEF Le
<1>1. Head(T) = T[1] /\ 1 \in 1..Len(T) /\ Tail(T) \in Items
  BY TailItems
<1>2. /\ \A k \in 1..Len(D) : Le(j, D[k], y)
      /\ \A k \in 1..Len(F) : Le(j, F[k], y)
      /\ \A k \in 1..Len(C) : Le(j, y, C[k])
      /\ \A k \in 1..Len(Tail(T)) : Le(j, y, Tail(T)[k])
  BY <1>0, <1>1, TailOrder DEF Ordered, UpTo
<1>3. Ordered(j, D, F, M, Tail(T), C)
  BY OrderedTails
<1>4. Ordered(j, D, F, N, Tail(T), C)
  BY <1>2, <1>3, OrderedModule
<1> QED  BY <1>1, <1>4, OrderedRepeated
-----------------------------------------------------------------------------
(***************************************************************************)
(* The requests of the operation that runs, and their answers.             *)
(***************************************************************************)
Bodies(q) == [k \in 1..Len(q) |-> q[k].body]
AnswersOf(m) == [a \in Modules |-> m[a].answer]

Order(j) ==
  Ordered(j, data, Bodies(fromBus), AnswersOf(modules), Bodies(toBus), Bodies(cmds))

NotEarlier(j, x) ==
  Late(j, x, data, Bodies(fromBus), AnswersOf(modules), Bodies(toBus), Bodies(cmds))

\* What operation j says is for module a, and numbered from lo to hi.
Within(S, j, a, lo, hi) ==
  {r \in S : r.op = j => r.to = a /\ r.n > 0 /\ lo <= r.n /\ r.n <= hi}

Window(j, a, lo, hi) == Holding(Within(Request, j, a, lo, hi), Within(Answers, j, a, lo, hi))

\* No operation speaks before it has begun.
Until(S, l) == {r \in S : r.op <= l}
Young == Holding(Until(Request, Len(threads)), Until(Answers, Len(threads)))

\* A packet goes to the module that its request is for.
Posted(c) == c.body.op # 0 => c.to = c.body.to
Kept(m, a) == m[a].answer.op # 0 => m[a].answer.to = a

PostedRight ==
  /\ \A k \in 1..Len(cmds) : Posted(cmds[k])
  /\ \A k \in 1..Len(toBus) : Posted(toBus[k])
  /\ \A a \in Modules : Kept(modules, a)

Talking(j) == threads[j].at \in {"begin", "library", "ready", "read"}

\* Before it reads, an operation may hear the answer to the request before.
Oldest(t) == IF t.at = "read" THEN t.n - 1 ELSE t.n

Own(j) ==
  /\ Window(j, threads[j].target, Oldest(threads[j]), threads[j].n)
  /\ last.op = j => last.n = threads[j].n
  /\ Order(j)
  /\ threads[j].at = "ready" /\ threads[j].answer.op = j => threads[j].answer.n = threads[j].n

Owns == \A j \in 1..Len(threads) : Talking(j) => Own(j)

OInv ==
  /\ TypeOK /\ Young /\ PostedRight
  /\ raced \/ (FlagsInv /\ Numbers /\ (mistaken \/ Owns))

\* The bodies of a queue are a queue, like it.
LEMMA BodiesItems ==
  ASSUME NEW S, \A c \in S : c.body \in Answers, NEW q \in Seq(S)
  PROVE  /\ Bodies(q) \in Items /\ Len(Bodies(q)) = Len(q)
         /\ \A k \in 1..Len(q) : Bodies(q)[k] = q[k].body
<1>1. \A k \in 1..Len(q) : q[k].body \in Answers
  BY ElementOfSeq
<1>2. Len(q) \in Nat
  OBVIOUS
<1>3. Bodies(q) \in Seq(Answers) /\ Len(Bodies(q)) = Len(q)
  BY <1>1, <1>2 DEF Bodies
<1> QED  BY <1>3 DEF Bodies, Items

LEMMA BodiesTail ==
  ASSUME NEW S, \A c \in S : c.body \in Answers, NEW q \in Seq(S), q # <<>>
  PROVE  /\ Bodies(q) # <<>> /\ Head(Bodies(q)) = Head(q).body /\ Head(q) \in S
         /\ Bodies(Tail(q)) = Tail(Bodies(q))
<1>1. /\ Head(q) \in S /\ Head(q) = q[1] /\ Tail(q) \in Seq(S) /\ Len(Tail(q)) = Len(q) - 1
      /\ \A k \in 1..Len(Tail(q)) : Tail(q)[k] = q[k + 1]
      /\ Len(q) \in Nat /\ Len(q) > 0
  BY HeadTailProperties, EmptySeq
<1>2. /\ Bodies(q) \in Seq(Answers) /\ Len(Bodies(q)) = Len(q)
      /\ \A k \in 1..Len(q) : Bodies(q)[k] = q[k].body
  BY BodiesItems DEF Items
<1>3. /\ Bodies(q) # <<>> /\ Head(Bodies(q)) = Bodies(q)[1]
      /\ Tail(Bodies(q)) \in Seq(Answers) /\ Len(Tail(Bodies(q))) = Len(q) - 1
      /\ \A k \in 1..Len(Tail(Bodies(q))) : Tail(Bodies(q))[k] = Bodies(q)[k + 1]
  BY <1>1, <1>2, HeadTailProperties, EmptySeq
<1>4. /\ Bodies(Tail(q)) \in Seq(Answers) /\ Len(Bodies(Tail(q))) = Len(Tail(q))
      /\ \A k \in 1..Len(Tail(q)) : Bodies(Tail(q))[k] = Tail(q)[k].body
  BY <1>1, BodiesItems DEF Items
<1>5. \A k \in 1..Len(Tail(q)) : Bodies(Tail(q))[k] = Tail(Bodies(q))[k]
  BY <1>1, <1>2, <1>3, <1>4
<1>6. Bodies(Tail(q)) = Tail(Bodies(q))
  BY <1>1, <1>3, <1>4, <1>5, SeqEqual
<1> QED  BY <1>1, <1>2, <1>3, <1>6

LEMMA BodiesAppend ==
  ASSUME NEW S, \A c \in S : c.body \in Answers, NEW q \in Seq(S), NEW c \in S
  PROVE  Bodies(Append(q, c)) = Append(Bodies(q), c.body)
<1>1. /\ Append(q, c) \in Seq(S) /\ Len(Append(q, c)) = Len(q) + 1 /\ Len(q) \in Nat
      /\ \A k \in 1..Len(q) : Append(q, c)[k] = q[k]
      /\ Append(q, c)[Len(q) + 1] = c
  BY AppendProperties
<1>2. /\ Bodies(q) \in Seq(Answers) /\ Len(Bodies(q)) = Len(q)
      /\ \A k \in 1..Len(q) : Bodies(q)[k] = q[k].body
  BY BodiesItems DEF Items
<1>3. /\ Append(Bodies(q), c.body) \in Seq(Answers) /\ Len(Append(Bodies(q), c.body)) = Len(q) + 1
      /\ \A k \in 1..Len(q) : Append(Bodies(q), c.body)[k] = Bodies(q)[k]
      /\ Append(Bodies(q), c.body)[Len(q) + 1] = c.body
  BY <1>2, AppendProperties
<1>4. /\ Bodies(Append(q, c)) \in Seq(Answers) /\ Len(Bodies(Append(q, c))) = Len(q) + 1
      /\ \A k \in 1..Len(q) + 1 : Bodies(Append(q, c))[k] = Append(q, c)[k].body
  BY <1>1, BodiesItems DEF Items
<1>5. \A k \in 1..Len(q) + 1 : k \in 1..Len(q) \/ k = Len(q) + 1
  BY <1>1
<1>6. \A k \in 1..Len(q) + 1 : Bodies(Append(q, c))[k] = Append(Bodies(q), c.body)[k]
  BY <1>1, <1>2, <1>3, <1>4, <1>5
<1> QED  BY <1>1, <1>3, <1>4, <1>6, SeqEqual

LEMMA BodiesTyped ==
  /\ \A c \in Commands : c.body \in Answers
  /\ \A c \in OnBus : c.body \in Answers
  /\ \A c \in FromModules : c.body \in Answers
  /\ Commands \subseteq OnBus
BY Bounds DEF Commands, OnBus, FromModules

LEMMA WindowClosed ==
  ASSUME NEW j \in Nat \ {0}, NEW a, NEW lo, NEW hi
  PROVE  Closed(Within(Request, j, a, lo, hi), Within(Answers, j, a, lo, hi))
<1>1. NoRequest.op = 0 /\ Corrupted.op = 0 /\ Corrupted \in Answers
  BY CorruptedTyped DEF NoRequest
<1>2. \A r \in Request : AnswerTo(r) \in Answers /\ AnswerTo(r).op = r.op
                         /\ AnswerTo(r).n = r.n /\ AnswerTo(r).to = r.to
  BY AnswerTyped, Bounds
<1>3. /\ Within(Request, j, a, lo, hi) \subseteq Request
      /\ Within(Answers, j, a, lo, hi) \subseteq Answers
      /\ NoRequest \in Within(Request, j, a, lo, hi)
      /\ NoRequest \in Within(Answers, j, a, lo, hi)
      /\ Corrupted \in Within(Answers, j, a, lo, hi)
  BY <1>1, Bounds DEF Within
<1>4. \A r \in Within(Request, j, a, lo, hi) : AnswerTo(r) \in Within(Answers, j, a, lo, hi)
  BY <1>2 DEF Within
<1> QED  BY <1>3, <1>4 DEF Closed

LEMMA UntilClosed ==
  ASSUME NEW l \in Nat
  PROVE  Closed(Until(Request, l), Until(Answers, l))
<1>1. NoRequest.op = 0 /\ Corrupted.op = 0 /\ Corrupted \in Answers
  BY CorruptedTyped DEF NoRequest
<1>2. \A r \in Request : AnswerTo(r) \in Answers /\ AnswerTo(r).op = r.op
  BY AnswerTyped, Bounds
<1> QED  BY <1>1, <1>2, Bounds DEF Closed, Until

LEMMA HoldingMono ==
  ASSUME NEW P, NEW Q, NEW A, NEW B, P \subseteq Q, A \subseteq B, Holding(P, A)
  PROVE  Holding(Q, B)
<1>1. /\ CommandsOf(P) \subseteq CommandsOf(Q) /\ OnBusOf(P) \subseteq OnBusOf(Q)
      /\ FromModulesOf(A) \subseteq FromModulesOf(B) /\ ModuleOf(A) \subseteq ModuleOf(B)
  BY DEF CommandsOf, OnBusOf, FromModulesOf, ModuleOf
<1> QED  BY <1>1 DEF Holding

LEMMA HoldingNextMono ==
  ASSUME NEW P, NEW Q, NEW A, NEW B, P \subseteq Q, A \subseteq B, Holding(P, A)'
  PROVE  Holding(Q, B)'
<1>1. /\ CommandsOf(P)' \subseteq CommandsOf(Q) /\ OnBusOf(P)' \subseteq OnBusOf(Q)
      /\ FromModulesOf(A)' \subseteq FromModulesOf(B) /\ ModuleOf(A)' \subseteq ModuleOf(B)
  BY DEF CommandsOf, OnBusOf, FromModulesOf, ModuleOf, Commands, OnBus, FromModules, Module
<1>2. /\ data' \in Seq(A) /\ last' \in P
      /\ cmds' \in Seq(CommandsOf(P)') /\ toBus' \in Seq(OnBusOf(P)')
      /\ fromBus' \in Seq(FromModulesOf(A)') /\ modules' \in [Modules -> ModuleOf(A)']
  BY DEF Holding
<1>3. /\ data' \in Seq(B) /\ last' \in Q
      /\ cmds' \in Seq(CommandsOf(Q)) /\ toBus' \in Seq(OnBusOf(Q))
      /\ fromBus' \in Seq(FromModulesOf(B)) /\ modules' \in [Modules -> ModuleOf(B)]
  BY <1>1, <1>2
<1> QED  BY <1>3, HoldingNext

\* Whatever is on the way, is of the sets.
LEMMA HeldEverywhere ==
  ASSUME NEW P, NEW A, Holding(P, A)
  PROVE  /\ \A k \in 1..Len(data) : data[k] \in A
         /\ \A k \in 1..Len(Bodies(fromBus)) : Bodies(fromBus)[k] \in A
         /\ \A a \in Modules : AnswersOf(modules)[a] \in A
         /\ \A k \in 1..Len(Bodies(toBus)) : Bodies(toBus)[k] \in P
         /\ \A k \in 1..Len(Bodies(cmds)) : Bodies(cmds)[k] \in P
         /\ last \in P
<1>1. /\ data \in Seq(A) /\ last \in P
      /\ cmds \in Seq(CommandsOf(P)) /\ toBus \in Seq(OnBusOf(P))
      /\ fromBus \in Seq(FromModulesOf(A)) /\ modules \in [Modules -> ModuleOf(A)]
  BY HoldingParts
<1>2. /\ \A k \in 1..Len(data) : data[k] \in A
      /\ \A k \in 1..Len(fromBus) : fromBus[k].body \in A
      /\ \A a \in Modules : modules[a].answer \in A
      /\ \A k \in 1..Len(toBus) : toBus[k].body \in P
      /\ \A k \in 1..Len(cmds) : cmds[k].body \in P
  BY <1>1, ElementOfSeq DEF CommandsOf, OnBusOf, FromModulesOf, ModuleOf
<1>3. \A q : Len(q) \in Nat => /\ Len(Bodies(q)) = Len(q)
                               /\ \A k \in 1..Len(q) : Bodies(q)[k] = q[k].body
  BY DEF Bodies
<1>4. Len(fromBus) \in Nat /\ Len(toBus) \in Nat /\ Len(cmds) \in Nat
  BY <1>1
<1> QED  BY <1>1, <1>2, <1>3, <1>4 DEF AnswersOf

LEMMA QueueItems ==
  ASSUME TypeOK
  PROVE  /\ data \in Items /\ Bodies(fromBus) \in Items
         /\ Bodies(toBus) \in Items /\ Bodies(cmds) \in Items
         /\ \A a \in Modules : AnswersOf(modules)[a] \in Answers
BY BodiesTyped, BodiesItems, Bounds DEF TypeOK, Items, AnswersOf, Module

\* What is not earlier than the window, is not earlier than what it holds.
LEMMA NotEarlierThanWindow ==
  ASSUME NEW j, NEW a, NEW lo, NEW hi \in Nat, Window(j, a, lo, hi),
         NEW x, x.op = j => x.n \in Nat /\ x.n >= hi
  PROVE  NotEarlier(j, x)
<1>1. \A r \in Within(Request, j, a, lo, hi) : Le(j, r, x)
  BY DEF Within, Request, Le
<1>2. \A r \in Within(Answers, j, a, lo, hi) : Le(j, r, x)
  BY DEF Within, Answers, Le
<1> QED  BY <1>1, <1>2, HeldEverywhere DEF Window, NotEarlier, Late

\* Of an operation that has not said anything, everything is in order.
LEMMA OrderedNone ==
  ASSUME NEW j, NEW P, NEW A, Holding(P, A), \A r \in P \cup A : r.op # j
  PROVE  Order(j)
<1>1. \A r, s \in P \cup A : Le(j, r, s)
  BY DEF Le
<1>2. /\ \A k \in 1..Len(data) : data[k] \in P \cup A
      /\ \A k \in 1..Len(Bodies(fromBus)) : Bodies(fromBus)[k] \in P \cup A
      /\ \A a \in Modules : AnswersOf(modules)[a] \in P \cup A
      /\ \A k \in 1..Len(Bodies(toBus)) : Bodies(toBus)[k] \in P \cup A
      /\ \A k \in 1..Len(Bodies(cmds)) : Bodies(cmds)[k] \in P \cup A
  BY HeldEverywhere
<1>3. \A f, g : (\A k \in 1..Len(f) : f[k] \in P \cup A) /\ (\A k \in 1..Len(g) : g[k] \in P \cup A)
                  => InOrder(j, f) /\ UpTo(j, f, g)
  BY <1>1 DEF InOrder, UpTo
<1>4. \A f, M : (\A k \in 1..Len(f) : f[k] \in P \cup A) /\ (\A a \in Modules : M[a] \in P \cup A)
                  => UpToModules(j, f, M) /\ FromModulesUpTo(j, M, f)
  BY <1>1 DEF UpToModules, FromModulesUpTo
<1> QED  BY <1>2, <1>3, <1>4 DEF Order, Ordered

\* The answers of the operation are with the module it is for.
LEMMA OneModuleAnswers ==
  ASSUME NEW j \in Nat \ {0}, NEW a, NEW lo, NEW hi, Window(j, a, lo, hi), PostedRight
  PROVE  Sole(j, AnswersOf(modules))
<1>1. \A b \in Modules : AnswersOf(modules)[b].op = j => AnswersOf(modules)[b].to = a
  BY HeldEverywhere DEF Window, Within
<1>2. \A b \in Modules : AnswersOf(modules)[b].op = j => AnswersOf(modules)[b].to = b
  BY DEF PostedRight, Kept, AnswersOf
<1> QED  BY <1>1, <1>2 DEF Sole

LEMMA OrderNext ==
  ASSUME NEW j,
         Ordered(j, data', Bodies(fromBus'), AnswersOf(modules'), Bodies(toBus'), Bodies(cmds'))
  PROVE  Order(j)'
BY DEF Order, Ordered, InOrder, UpTo, UpToModules, FromModulesUpTo, Le, Bodies, AnswersOf

LEMMA ReplyAppended ==
  ASSUME TypeOK, NEW c \in FromModules
  PROVE  /\ Bodies(fromBus \o <<c>>) = Append(Bodies(fromBus), c.body)
         /\ fromBus \o <<>> = fromBus
<1>1. fromBus \in Seq(FromModules)
  BY DEF TypeOK
<1>2. fromBus \o <<c>> = Append(fromBus, c) /\ fromBus \o <<>> = fromBus
  BY <1>1
<1> QED  BY <1>1, <1>2, BodiesAppend, BodiesTyped

\* The service thread keeps the order.
LEMMA ServiceOrders ==
  ASSUME TypeOK, NEW j \in Nat \ {0}, Order(j), NotEarlier(j, last),
         \/ \E a \in Modules : SendStart(a)
         \/ WriteCommand \/ HelloAgain \/ ReceivePacket \/ ReceiveSpoilt
  PROVE  Order(j)'
<1> DEFINE F == Bodies(fromBus)
           M == AnswersOf(modules)
           T == Bodies(toBus)
           C == Bodies(cmds)
<1>1. /\ data \in Items /\ F \in Items /\ T \in Items /\ C \in Items
      /\ Ordered(j, data, F, M, T, C)
  BY QueueItems DEF Order
<1>2. /\ cmds \in Seq(Commands) /\ toBus \in Seq(OnBus) /\ fromBus \in Seq(FromModules)
      /\ last \in Answers /\ target \in Targets
  BY Bounds DEF TypeOK
<1>3. NoRequest \in Answers /\ NoRequest.op # j /\ Corrupted \in Answers /\ Corrupted.op # j
  BY Bounds, CorruptedTyped DEF NoRequest
<1>4. AnswersOf(modules') = M
  <2>1. modules' = modules
    BY DEF SendStart, WriteCommand, HelloAgain, ReceivePacket, ReceiveHello, ReceiveRead,
       ReceiveResend, ReceiveSpoilt, Receive, busVars
  <2> QED  BY <2>1
<1>5. ASSUME fromBus # <<>>
      PROVE  /\ F # <<>> /\ Head(F) = Head(fromBus).body /\ Bodies(Tail(fromBus)) = Tail(F)
             /\ Ordered(j, data, Tail(F), M, T, C) /\ Tail(F) \in Items
             /\ Ordered(j, Append(data, Head(F)), Tail(F), M, T, C)
  <2>1. F # <<>> /\ Head(F) = Head(fromBus).body /\ Bodies(Tail(fromBus)) = Tail(F)
    BY <1>2, <1>5, BodiesTail, BodiesTyped
  <2> HIDE DEF F, M, T, C
  <2> QED  BY <1>1, <2>1, OrderedTails, OrderedReceived, TailItems
<1>6. ASSUME NEW a \in Modules, SendStart(a)
      PROVE  Order(j)'
  <2>1. UNCHANGED <<data, cmds, fromBus>> /\ toBus' = Append(toBus, Packet("start", a))
    BY <1>6 DEF SendStart, dataVars
  <2>2. Packet("start", a) \in OnBus /\ Packet("start", a).body = NoRequest
    BY Bounds DEF Packet, OnBus
  <2>3. Bodies(toBus') = Append(T, NoRequest)
    BY <1>2, <2>1, <2>2, BodiesAppend, BodiesTyped
  <2>4. Ordered(j, data, F, M, Append(T, NoRequest), C)
    BY <1>1, <1>3, OrderedOthers
  <2> QED  BY <1>4, <2>1, <2>3, <2>4, OrderNext
<1>7. CASE WriteCommand
  <2>1. /\ UNCHANGED <<data, fromBus>> /\ cmds # <<>>
        /\ toBus' = Append(toBus, Head(cmds)) /\ cmds' = Tail(cmds)
    BY <1>7 DEF WriteCommand, dataVars
  <2>2. /\ C # <<>> /\ Head(C) = Head(cmds).body /\ Head(cmds) \in Commands
        /\ Bodies(cmds') = Tail(C)
    BY <1>2, <2>1, BodiesTail, BodiesTyped
  <2>3. Bodies(toBus') = Append(T, Head(C))
    BY <1>2, <2>1, <2>2, BodiesAppend, BodiesTyped
  <2>4. Ordered(j, data, F, M, Append(T, Head(C)), Tail(C))
    BY <1>1, <2>2, OrderedWritten
  <2> QED  BY <1>4, <2>1, <2>2, <2>3, <2>4, OrderNext
<1>8. CASE HelloAgain
  <2>1. /\ UNCHANGED <<data, fromBus, toBus>> /\ cmds' = Append(cmds, Packet("ack", target))
    BY <1>8 DEF HelloAgain, dataVars, busVars
  <2>2. Packet("ack", target) \in Commands /\ Packet("ack", target).body = NoRequest
    BY <1>2, Bounds DEF Packet, Commands
  <2>3. Bodies(cmds') = Append(C, NoRequest)
    BY <1>2, <2>1, <2>2, BodiesAppend, BodiesTyped
  <2>4. Ordered(j, data, F, M, T, Append(C, NoRequest))
    BY <1>1, <1>3, OrderedOthers
  <2> QED  BY <1>4, <2>1, <2>3, <2>4, OrderNext
<1>9. CASE ReceiveHello
  <2>1. UNCHANGED <<data, cmds, toBus>> /\ fromBus # <<>> /\ fromBus' = Tail(fromBus)
    BY <1>9 DEF ReceiveHello, Arrives, dataVars
  <2> QED  BY <1>4, <1>5, <2>1, OrderNext
<1>10. CASE ReceiveRead
  <2>1. /\ UNCHANGED <<cmds, toBus>> /\ fromBus # <<>> /\ fromBus' = Tail(fromBus)
        /\ data' = Append(data, Head(fromBus).body)
    BY <1>10 DEF ReceiveRead, Receive, Arrives
  <2> QED  BY <1>4, <1>5, <2>1, OrderNext
<1>11. CASE ReceiveSpoilt
  <2>1. /\ UNCHANGED <<cmds, toBus>> /\ fromBus # <<>> /\ fromBus' = Tail(fromBus)
        /\ data' = Append(data, Corrupted)
    BY <1>11 DEF ReceiveSpoilt, Receive, Arrives, Corrupted
  <2>2. Ordered(j, Append(data, Corrupted), Tail(F), M, T, C)
    BY <1>1, <1>3, <1>5, <2>1, OrderedOthers
  <2> QED  BY <1>4, <1>5, <2>1, <2>2, OrderNext
<1>12. CASE ReceiveResend
  <2>1. /\ UNCHANGED <<data, toBus>> /\ fromBus # <<>> /\ fromBus' = Tail(fromBus)
        /\ cmds' = Append(cmds, DataPacket(last))
    BY <1>12 DEF ReceiveResend, Arrives, dataVars
  <2>2. DataPacket(last) \in Commands /\ DataPacket(last).body = last
    BY DEF DataPacket, Commands, Request, TypeOK
  <2>3. Bodies(cmds') = Append(C, last)
    BY <1>2, <2>1, <2>2, BodiesAppend, BodiesTyped
  <2>4. Ordered(j, data, F, M, T, Append(C, last)) /\ Append(C, last) \in Items
    BY <1>1, <1>2, OrderedCommand, AppendItems DEF NotEarlier
  <2>5. Ordered(j, data, Tail(F), M, T, Append(C, last))
    BY <1>1, <1>5, <2>1, <2>4, OrderedTails
  <2> QED  BY <1>4, <1>5, <2>1, <2>3, <2>5, OrderNext
<1> QED  BY <1>6, <1>7, <1>8, <1>9, <1>10, <1>11, <1>12 DEF ReceivePacket

\* An operation keeps the order of each.
LEMMA OperationOrders ==
  ASSUME TypeOK, NEW j \in Nat \ {0}, Order(j), NotEarlier(j, last), NotEarlier(j, last'),
         last' \in Request, NEW i \in 1..Len(threads), Proceed(i)
  PROVE  Order(j)'
<1> DEFINE F == Bodies(fromBus)
           M == AnswersOf(modules)
           T == Bodies(toBus)
           C == Bodies(cmds)
<1>1. /\ data \in Items /\ F \in Items /\ T \in Items /\ C \in Items
      /\ Ordered(j, data, F, M, T, C)
  BY QueueItems DEF Order
<1>2. /\ cmds \in Seq(Commands) /\ last \in Request /\ target \in Targets
      /\ threads[i].target \in Targets
  BY TypesParts, ThreadTyped DEF TypeOK, Thread
<1>3. /\ NoRequest \in Answers /\ NoRequest.op # j /\ last \in Answers /\ last' \in Answers
  BY <1>2, Bounds DEF NoRequest
<1>4. UNCHANGED <<fromBus, modules, toBus>>
  BY DEF Proceed, Begin, Open, WriteRequest, ReadAnswer, ReadOther, ReadTimeout,
     ExitBootloader, CloseActive, CloseTarget, CloseAck, End, busVars
<1>5. ASSUME NEW a \in Targets, NEW type \in {"ack", "again"},
             cmds' = Append(cmds, Packet(type, a)), data' = data
      PROVE  Order(j)'
  <2>1. Packet(type, a) \in Commands /\ Packet(type, a).body = NoRequest
    BY Bounds DEF Packet, Commands
  <2>2. Bodies(cmds') = Append(C, NoRequest)
    BY <1>2, <1>5, <2>1, BodiesAppend, BodiesTyped
  <2>3. Ordered(j, data, F, M, T, Append(C, NoRequest))
    BY <1>1, <1>3, OrderedOthers
  <2> QED  BY <1>4, <1>5, <2>2, <2>3, OrderNext
<1>6. ASSUME NEW r \in Request, cmds' = Append(cmds, DataPacket(r)), NotEarlier(j, r)
      PROVE  /\ Bodies(cmds') = Append(C, r) /\ Append(C, r) \in Items
             /\ Ordered(j, data, F, M, T, Append(C, r))
  <2>1. DataPacket(r) \in Commands /\ DataPacket(r).body = r /\ r \in Answers
    BY Bounds DEF DataPacket, Commands, Request
  <2>2. Bodies(cmds') = Append(C, r)
    BY <1>2, <1>6, <2>1, BodiesAppend, BodiesTyped
  <2> QED  BY <1>1, <1>6, <2>1, <2>2, OrderedCommand, AppendItems DEF NotEarlier
<1>7. CASE Begin(i)
  BY <1>2, <1>5, <1>7 DEF Begin, dataVars
<1>8. CASE ReadTimeout(i)
  BY <1>2, <1>5, <1>8 DEF ReadTimeout, dataVars
<1>9. CASE WriteRequest(i) \/ \E ok \in BOOLEAN : ExitBootloader(i, ok)
  <2>1. cmds' = Append(cmds, DataPacket(last')) /\ data' = data
    BY <1>9 DEF WriteRequest, ExitBootloader, Write
  <2>2. Bodies(cmds') = Append(C, last') /\ Ordered(j, data, F, M, T, Append(C, last'))
    BY <1>6, <2>1
  <2> QED  BY <1>4, <2>1, <2>2, OrderNext
<1>10. CASE ReadAnswer(i)
  <2>1. data # <<>> /\ data' = Tail(data) /\ cmds' = cmds
    BY <1>10 DEF ReadAnswer, Reading
  <2>2. Ordered(j, Tail(data), F, M, T, C)
    BY <1>1, <2>1, OrderedTails
  <2> QED  BY <1>4, <2>1, <2>2, OrderNext
<1>11. CASE ReadOther(i)
  <2>1. data # <<>> /\ data' = Tail(data) /\ cmds' = Append(cmds, AskAgain(Head(data)))
    BY <1>11 DEF ReadOther, Reading
  <2>2. Ordered(j, Tail(data), F, M, T, C) /\ Tail(data) \in Items
    BY <1>1, <2>1, OrderedTails, TailItems
  <2>3. CASE AskAgain(Head(data)) = Packet("again", target)
    <3>1. Packet("again", target) \in Commands /\ Packet("again", target).body = NoRequest
      BY <1>2, Bounds DEF Packet, Commands
    <3>2. Bodies(cmds') = Append(C, NoRequest)
      BY <1>2, <2>1, <2>3, <3>1, BodiesAppend, BodiesTyped
    <3>3. Ordered(j, Tail(data), F, M, T, Append(C, NoRequest))
      BY <1>1, <1>3, <2>2, OrderedOthers
    <3> QED  BY <1>4, <2>1, <3>2, <3>3, OrderNext
  <2>4. CASE AskAgain(Head(data)) = DataPacket(last)
    <3>1. /\ Bodies(cmds') = Append(C, last) /\ Append(C, last) \in Items
          /\ Ordered(j, data, F, M, T, Append(C, last))
      BY <1>2, <1>6, <2>1, <2>4
    <3>2. Ordered(j, Tail(data), F, M, T, Append(C, last))
      BY <1>1, <2>1, <3>1, OrderedTails
    <3> QED  BY <1>4, <2>1, <3>1, <3>2, OrderNext
  <2> QED  BY <2>3, <2>4 DEF AskAgain
<1>12. CASE Open(i) \/ CloseActive(i) \/ CloseTarget(i) \/ CloseAck(i) \/ End(i)
  <2>1. UNCHANGED <<data, cmds>>
    BY <1>12 DEF Open, CloseActive, CloseTarget, CloseAck, End, dataVars
  <2> QED  BY <1>1, <1>4, <2>1, OrderNext
<1> QED  BY <1>7, <1>8, <1>9, <1>10, <1>11, <1>12 DEF Proceed

\* A module takes the first packet, and keeps the order.
LEMMA TakenOrders ==
  ASSUME TypeOK, TypeOK', NEW j \in Nat \ {0}, Order(j),
         Sole(j, AnswersOf(modules)), Sole(j, AnswersOf(modules))',
         ModuleTakes \/ ModuleRefuses
  PROVE  Order(j)'
<1> DEFINE F == Bodies(fromBus)
           M == AnswersOf(modules)
           N == AnswersOf(modules')
           T == Bodies(toBus)
           C == Bodies(cmds)
           a == Addressed
<1>1. /\ data \in Items /\ F \in Items /\ T \in Items /\ C \in Items
      /\ Ordered(j, data, F, M, T, C)
  BY QueueItems DEF Order
<1>2. /\ toBus \in Seq(OnBus) /\ fromBus \in Seq(FromModules)
      /\ modules \in [Modules -> Module] /\ modules' \in [Modules -> Module]
  BY DEF TypeOK
<1>3. NoRequest \in Request /\ NoRequest \in Answers /\ NoRequest.op # j /\ Request \subseteq Answers
  BY Bounds DEF NoRequest
<1>4. /\ toBus # <<>> /\ toBus' = Tail(toBus) /\ UNCHANGED <<data, cmds>>
  BY DEF ModuleTakes, ModuleStarts, ModuleAcked, ModuleAnswers, ModuleLeaves, ModuleRepeats,
     ModuleIgnores, NobodyTakes, ModuleRefuses, AtModule, Taken, dataVars
<1>5. /\ T # <<>> /\ Head(T) = Head(toBus).body /\ Head(toBus) \in OnBus
      /\ Bodies(toBus') = Tail(T) /\ Tail(T) \in Items
      /\ Ordered(j, data, F, M, Tail(T), C)
  <2>1. /\ T # <<>> /\ Head(T) = Head(toBus).body /\ Head(toBus) \in OnBus
        /\ Bodies(toBus') = Tail(T)
    BY <1>2, <1>4, BodiesTail, BodiesTyped
  <2> HIDE DEF F, M, T, C
  <2> QED  BY <1>1, <2>1, OrderedTails, TailItems
<1>6. CASE NobodyTakes
  <2>1. UNCHANGED <<fromBus, modules>>
    BY <1>6 DEF NobodyTakes
  <2> QED  BY <1>4, <1>5, <2>1, OrderNext
<1>7. ASSUME NEW next, NEW replies, Taken(next, replies)
      PROVE  modules' = [modules EXCEPT ![a] = next] /\ fromBus' = fromBus \o replies
  BY <1>7 DEF Taken
<1>8. ASSUME a \in Modules, NEW next, modules' = [modules EXCEPT ![a] = next]
      PROVE  /\ N[a] = next.answer /\ \A b \in Modules : b # a => N[b] = M[b]
             /\ next.answer = M[a] => N = M
  <2>1. \A b \in Modules : modules'[b] = IF b = a THEN next ELSE modules[b]
    BY <1>2, <1>8
  <2> QED  BY <1>8, <2>1 DEF AnswersOf
<1>9. (a \in Modules /\ modules[a] \in Module) \/ NobodyTakes
  BY <1>2 DEF ModuleTakes, ModuleStarts, ModuleAcked, ModuleAnswers, ModuleLeaves,
     ModuleRepeats, ModuleIgnores, ModuleRefuses, AtModule
<1>10. ASSUME a \in Modules, Taken(modules[a], <<Reply("resend", a, NoRequest)>>)
       PROVE  Order(j)'
  <2>1. N = M
    BY <1>7, <1>8, <1>10 DEF AnswersOf
  <2>2. Reply("resend", a, NoRequest) \in FromModules
        /\ Reply("resend", a, NoRequest).body = NoRequest
    BY <1>3, <1>10 DEF Reply, FromModules
  <2>3. Bodies(fromBus') = Append(F, NoRequest)
    BY <1>7, <1>10, <2>2, ReplyAppended
  <2>4. Ordered(j, data, Append(F, NoRequest), M, Tail(T), C)
    BY <1>1, <1>3, <1>5, OrderedOthers
  <2> QED  BY <1>4, <1>5, <2>1, <2>3, <2>4, OrderNext
<1>11. CASE ModuleRefuses
  BY <1>3, <1>9, <1>10, <1>11 DEF ModuleRefuses, AtModule
<1>12. ASSUME a \in Modules, NEW at, Taken([at |-> at, answer |-> NoRequest], <<>>)
       PROVE  Order(j)'
  <2>1. N[a] = NoRequest /\ \A b \in Modules : b # a => N[b] = M[b]
    BY <1>7, <1>8, <1>12
  <2>2. fromBus' = fromBus
    BY <1>2, <1>7, <1>12
  <2>3. Ordered(j, data, F, N, Tail(T), C)
    BY <1>3, <1>5, <1>12, <2>1, OrderedForgotten
  <2> QED  BY <1>4, <1>5, <2>2, <2>3, OrderNext
<1>13. CASE ModuleStarts \/ ModuleAcked \/ ModuleLeaves
  BY <1>12, <1>13 DEF ModuleStarts, ModuleAcked, ModuleLeaves, AtModule
<1>14. CASE ModuleIgnores
  <2>1. a \in Modules /\ Taken(modules[a], <<>>)
    BY <1>14 DEF ModuleIgnores, AtModule
  <2>2. N = M
    BY <1>7, <1>8, <2>1 DEF AnswersOf
  <2>3. fromBus' = fromBus
    BY <1>2, <1>7, <2>1
  <2> QED  BY <1>4, <1>5, <2>2, <2>3, OrderNext
<1>15. CASE ModuleAnswers
  <2> DEFINE y == AnswerTo(Head(toBus).body)
  <2>1. /\ a \in Modules /\ Taken([at |-> "ready", answer |-> y], <<Reply("read", a, y)>>)
    BY <1>15 DEF ModuleAnswers, AtModule, AnswerTo
  <2>2. y \in Request /\ y.op = Head(T).op /\ y.n = Head(T).n
    BY <1>5, AnswerTyped DEF OnBus
  <2> HIDE DEF y
  <2>3. Reply("read", a, y) \in FromModules /\ Reply("read", a, y).body = y
    BY <2>1, <2>2 DEF Reply, FromModules
  <2>4. N[a] = y /\ \A b \in Modules : b # a => N[b] = M[b]
    BY <1>7, <1>8, <2>1
  <2>5. Bodies(fromBus') = Append(F, y)
    BY <1>7, <2>1, <2>3, ReplyAppended
  <2>6. Sole(j, N)
    BY DEF Sole, AnswersOf
  <2>7. Ordered(j, data, Append(F, y), N, Tail(T), C)
    BY <1>1, <1>3, <1>5, <2>1, <2>2, <2>4, <2>6, OrderedAnswered
  <2> QED  BY <1>4, <1>5, <2>5, <2>7, OrderNext
<1>16. CASE ModuleRepeats
  <2>1. a \in Modules /\ modules[a].answer = M[a] /\ M[a] \in Request
    BY <1>2, <1>16 DEF ModuleRepeats, AtModule, AnswersOf, Module
  <2>2. CASE Taken(modules[a], <<Reply("resend", a, NoRequest)>>)
    BY <1>3, <1>10, <2>1, <2>2
  <2>3. CASE Taken(modules[a], <<Reply("read", a, M[a])>>)
    <3>1. Reply("read", a, M[a]) \in FromModules /\ Reply("read", a, M[a]).body = M[a]
      BY <2>1 DEF Reply, FromModules
    <3>2. N = M
      BY <1>7, <1>8, <2>1, <2>3
    <3>3. Bodies(fromBus') = Append(F, M[a])
      BY <1>7, <2>3, <3>1, ReplyAppended
    <3>4. M[a] \in Answers
      BY <1>3, <2>1
    <3>5. Ordered(j, data, Append(F, M[a]), M, Tail(T), C)
      BY <1>1, <1>5, <2>1, <3>4, OrderedRepeated
    <3> QED  BY <1>4, <1>5, <3>2, <3>3, <3>5, OrderNext
  <2> QED  BY <1>16, <2>1, <2>2, <2>3 DEF ModuleRepeats
<1> QED  BY <1>6, <1>11, <1>13, <1>14, <1>15, <1>16 DEF ModuleTakes

\* The bus keeps the order.
LEMMA BusOrders ==
  ASSUME TypeOK, NEW j \in Nat \ {0}, Order(j),
         LoseToModule \/ LoseToHost \/ \E a \in Modules : Hello(a) \/ PowerUp(a)
  PROVE  Order(j)'
<1> DEFINE F == Bodies(fromBus)
           M == AnswersOf(modules)
           T == Bodies(toBus)
           C == Bodies(cmds)
<1>1. /\ data \in Items /\ F \in Items /\ T \in Items /\ C \in Items
      /\ Ordered(j, data, F, M, T, C)
  BY QueueItems DEF Order
<1>2. toBus \in Seq(OnBus) /\ fromBus \in Seq(FromModules) /\ modules \in [Modules -> Module]
  BY DEF TypeOK
<1>3. CASE LoseToModule
  <2>1. toBus # <<>> /\ toBus' = Tail(toBus) /\ UNCHANGED <<data, cmds, fromBus, modules>>
    BY <1>3 DEF LoseToModule, dataVars
  <2>2. T # <<>> /\ Bodies(toBus') = Tail(T)
    BY <1>2, <2>1, BodiesTail, BodiesTyped
  <2>3. Ordered(j, data, F, M, Tail(T), C)
    BY <1>1, <2>2, OrderedTails
  <2> QED  BY <2>1, <2>2, <2>3, OrderNext
<1>4. CASE LoseToHost
  <2>1. fromBus # <<>> /\ fromBus' = Tail(fromBus) /\ UNCHANGED <<data, cmds, toBus, modules>>
    BY <1>4 DEF LoseToHost, dataVars
  <2>2. F # <<>> /\ Bodies(fromBus') = Tail(F)
    BY <1>2, <2>1, BodiesTail, BodiesTyped
  <2>3. Ordered(j, data, Tail(F), M, T, C)
    BY <1>1, <2>2, OrderedTails
  <2> QED  BY <2>1, <2>2, <2>3, OrderNext
<1>5. ASSUME NEW a \in Modules, Hello(a)
      PROVE  Order(j)'
  <2>1. /\ fromBus' = Append(fromBus, Reply("hello", a, NoRequest))
        /\ UNCHANGED <<data, cmds, toBus, modules>>
    BY <1>5 DEF Hello, dataVars
  <2>2. Reply("hello", a, NoRequest) \in FromModules /\ Reply("hello", a, NoRequest).body = NoRequest
    BY Bounds DEF Reply, FromModules
  <2>3. Bodies(fromBus') = Append(F, NoRequest)
    BY <1>2, <2>1, <2>2, BodiesAppend, BodiesTyped
  <2>4. NoRequest \in Answers /\ NoRequest.op # j
    BY Bounds DEF NoRequest
  <2>5. Ordered(j, data, Append(F, NoRequest), M, T, C)
    BY <1>1, <2>4, OrderedOthers
  <2> QED  BY <2>1, <2>3, <2>5, OrderNext
<1>6. ASSUME NEW a \in Modules, PowerUp(a)
      PROVE  Order(j)'
  <2>1. /\ modules' = [modules EXCEPT ![a].at = "waiting"]
        /\ UNCHANGED <<data, cmds, toBus, fromBus>>
    BY <1>6 DEF PowerUp, dataVars
  <2>2. \A b \in Modules : modules'[b].answer = modules[b].answer
    BY <1>2, <2>1 DEF Module
  <2>3. AnswersOf(modules') = M
    BY <2>2 DEF AnswersOf
  <2> QED  BY <1>1, <2>1, <2>3, OrderNext
<1> QED  BY <1>3, <1>4, <1>5, <1>6

\* Every step keeps the order, if what it says again, or first, is not earlier.
LEMMA OrderStep ==
  ASSUME TypeOK, TypeOK', [Next]_vars, NEW j \in Nat \ {0}, Order(j),
         NotEarlier(j, last), NotEarlier(j, last'),
         Sole(j, AnswersOf(modules)), Sole(j, AnswersOf(modules))'
  PROVE  Order(j)'
<1>1. CASE UNCHANGED <<data, cmds, toBus, fromBus, modules>>
  BY <1>1, OrderNext DEF Order
<1>2. CASE \/ StartTarget \/ StartActive \/ CommandsEnd \/ HelloFirst \/ Spawn \/ ReadFinished
           \/ UNCHANGED vars
  <2>1. UNCHANGED <<data, cmds, toBus, fromBus, modules>>
    BY <1>2 DEF StartTarget, StartActive, CommandsEnd, HelloFirst, Spawn, ReadFinished, vars,
       dataVars, busVars
  <2> QED  BY <1>1, <2>1
<1>3. ASSUME NEW i \in 1..Len(threads), FileFails(i) \/ UnknownMode(i) \/ GiveUp(i)
      PROVE  Order(j)'
  <2>1. UNCHANGED <<data, cmds, toBus, fromBus, modules>>
    BY <1>3 DEF FileFails, UnknownMode, GiveUp, dataVars, busVars
  <2> QED  BY <1>1, <2>1
<1>4. last' \in Request
  BY DEF TypeOK
<1>5. ASSUME NEW i \in 1..Len(threads), Proceed(i)
      PROVE  Order(j)'
  BY <1>4, <1>5, OperationOrders
<1>6. CASE \/ \E a \in Modules : SendStart(a)
           \/ WriteCommand \/ HelloAgain \/ ReceivePacket \/ ReceiveSpoilt
  BY <1>6, ServiceOrders
<1>7. CASE ModuleTakes \/ ModuleRefuses
  BY <1>7, TakenOrders
<1>8. CASE LoseToModule \/ LoseToHost \/ \E a \in Modules : Hello(a) \/ PowerUp(a)
  BY <1>8, BusOrders
<1> QED  BY <1>2, <1>3, <1>5, <1>6, <1>7, <1>8 DEF Next, Finish

\* The threads stay as they are, or one moves, or one is spawned.
LEMMA ThreadsChange ==
  ASSUME [Next]_vars
  PROVE  \/ UNCHANGED threads \/ Spawn
         \/ \E j \in 1..Len(threads) :
              \/ GoesOn(j) \/ CloseActive(j) \/ CloseTarget(j) \/ CloseAck(j) \/ End(j)
<1>1. ASSUME NEW j \in 1..Len(threads), ReadOther(j) \/ ReadTimeout(j)
      PROVE  UNCHANGED threads
  BY <1>1 DEF ReadOther, ReadTimeout
<1>2. ASSUME NEW a \in Modules, SendStart(a) \/ Hello(a) \/ PowerUp(a)
      PROVE  UNCHANGED threads
  BY <1>2 DEF SendStart, Hello, PowerUp
<1>3. CASE \/ WriteCommand \/ ReceivePacket \/ ReceiveSpoilt \/ ReadFinished
           \/ LoseToModule \/ LoseToHost \/ UNCHANGED vars
           \/ StartTarget \/ StartActive \/ CommandsEnd \/ HelloFirst \/ HelloAgain
  BY <1>3
  DEF WriteCommand, ReceivePacket, ReceiveHello, ReceiveRead, ReceiveResend, ReceiveSpoilt,
      Receive, ReadFinished, LoseToModule, LoseToHost, vars, StartTarget, StartActive,
      CommandsEnd, HelloFirst, HelloAgain
<1>4. CASE ModuleTakes \/ ModuleRefuses
  BY <1>4
  DEF ModuleTakes, ModuleStarts, ModuleAcked, ModuleAnswers, ModuleLeaves, ModuleRepeats,
      ModuleIgnores, NobodyTakes, ModuleRefuses, Taken
<1> QED
  BY <1>1, <1>2, <1>3, <1>4 DEF Next, Finish, Proceed, GoesOn

AllPosted(q) == \A k \in 1..Len(q) : Posted(q[k])

LEMMA PostedQueue ==
  ASSUME NEW S, NEW q \in Seq(S), AllPosted(q)
  PROVE  /\ q # <<>> => Posted(Head(q)) /\ AllPosted(Tail(q))
         /\ \A c \in S : Posted(c) => AllPosted(Append(q, c))
<1>1. ASSUME q # <<>>  PROVE Posted(Head(q)) /\ AllPosted(Tail(q))
  <2>1. /\ Head(q) = q[1] /\ Len(Tail(q)) = Len(q) - 1 /\ Len(q) \in Nat /\ Len(q) > 0
        /\ \A k \in 1..Len(Tail(q)) : Tail(q)[k] = q[k + 1]
    BY <1>1, HeadTailProperties, EmptySeq
  <2>2. \A k \in 1..Len(Tail(q)) : k + 1 \in 1..Len(q)
    BY <2>1
  <2>3. 1 \in 1..Len(q)
    BY <2>1
  <2> HIDE DEF AllPosted
  <2>4. \A k \in 1..Len(q) : Posted(q[k])
    BY DEF AllPosted
  <2>5. \A k \in 1..Len(Tail(q)) : Posted(Tail(q)[k])
    BY <2>1, <2>2, <2>4
  <2> QED  BY <2>1, <2>3, <2>4, <2>5 DEF AllPosted
<1>2. ASSUME NEW c \in S, Posted(c)  PROVE AllPosted(Append(q, c))
  <2>1. /\ Len(Append(q, c)) = Len(q) + 1 /\ Len(q) \in Nat
        /\ \A k \in 1..Len(q) : Append(q, c)[k] = q[k]
        /\ Append(q, c)[Len(q) + 1] = c
    BY AppendProperties
  <2>2. \A k \in 1..Len(q) + 1 : k \in 1..Len(q) \/ k = Len(q) + 1
    BY <2>1
  <2> QED  BY <1>2, <2>1, <2>2 DEF AllPosted
<1> QED  BY <1>1, <1>2

LEMMA PostedNext ==
  ASSUME AllPosted(cmds'), AllPosted(toBus'), \A a \in Modules : Kept(modules', a)
  PROVE  PostedRight'
BY DEF PostedRight, AllPosted, Posted, Kept

\* What is posted is for the module it goes to.
LEMMA PackagesPosted ==
  /\ \A type, a : Posted(Packet(type, a)) /\ Packet(type, a).body = NoRequest
  /\ \A r : Posted(DataPacket(r))
  /\ \A a \in Targets : \A type \in {"ack", "again"} : Packet(type, a) \in Commands
  /\ \A a \in Targets : Packet("start", a) \in OnBus
  /\ \A r \in Request : DataPacket(r) \in Commands
<1>1. NoRequest.op = 0 /\ NoRequest \in Request
  BY Bounds DEF NoRequest
<1>2. \A type, a : Posted(Packet(type, a)) /\ Packet(type, a).body = NoRequest
  BY <1>1 DEF Posted, Packet
<1>3. \A r : Posted(DataPacket(r))
  BY DEF Posted, DataPacket
<1>4. /\ \A a \in Targets : \A type \in {"ack", "again"} : Packet(type, a) \in Commands
      /\ \A a \in Targets : Packet("start", a) \in OnBus
  BY <1>1 DEF Packet, Commands, OnBus
<1>5. \A r \in Request : DataPacket(r) \in Commands
  BY DEF DataPacket, Commands, Request
<1> QED  BY <1>2, <1>3, <1>4, <1>5

\* A module answers what is for it.
LEMMA TakenPosted ==
  ASSUME TypeOK, PostedRight, ModuleTakes \/ ModuleRefuses
  PROVE  PostedRight'
<1>1. /\ AllPosted(cmds) /\ AllPosted(toBus) /\ \A a \in Modules : Kept(modules, a)
      /\ toBus \in Seq(OnBus) /\ modules \in [Modules -> Module]
  BY DEF PostedRight, AllPosted, TypeOK
<1>2. toBus # <<>> /\ toBus' = Tail(toBus) /\ cmds' = cmds
  BY DEF ModuleTakes, ModuleStarts, ModuleAcked, ModuleAnswers, ModuleLeaves, ModuleRepeats,
     ModuleIgnores, NobodyTakes, ModuleRefuses, AtModule, Taken
<1>3. AllPosted(toBus') /\ Posted(Head(toBus)) /\ Head(toBus) \in OnBus
  BY <1>1, <1>2, PostedQueue, HeadTailProperties
<1>4. ASSUME NEW next, NEW replies, Taken(next, replies), Addressed \in Modules,
             next.answer.op # 0 => next.answer.to = Addressed
      PROVE  PostedRight'
  <2>1. \A a \in Modules : modules'[a] = IF a = Addressed THEN next ELSE modules[a]
    BY <1>1, <1>4 DEF Taken
  <2>2. \A a \in Modules : Kept(modules', a)
    BY <1>1, <1>4, <2>1 DEF Kept
  <2> QED  BY <1>1, <1>2, <1>3, <2>2, PostedNext
<1>5. NoRequest.op = 0
  BY DEF NoRequest
<1>6. CASE NobodyTakes
  BY <1>1, <1>2, <1>3, <1>6, PostedNext DEF NobodyTakes
<1>7. CASE ModuleStarts \/ ModuleAcked \/ ModuleLeaves
  BY <1>4, <1>5, <1>7 DEF ModuleStarts, ModuleAcked, ModuleLeaves, AtModule
<1>8. CASE ModuleRepeats \/ ModuleIgnores \/ ModuleRefuses
  <2>1. Addressed \in Modules /\ \E replies : Taken(modules[Addressed], replies)
    BY <1>8 DEF ModuleRepeats, ModuleIgnores, ModuleRefuses, AtModule
  <2>2. Kept(modules, Addressed)
    BY <1>1, <2>1
  <2> QED  BY <1>4, <2>1, <2>2 DEF Kept
<1>9. CASE ModuleAnswers
  <2> DEFINE y == AnswerTo(Head(toBus).body)
  <2>1. /\ Addressed \in Modules
        /\ Taken([at |-> "ready", answer |-> y], <<Reply("read", Addressed, y)>>)
    BY <1>9 DEF ModuleAnswers, AtModule, AnswerTo
  <2>2. y.op = Head(toBus).body.op /\ y.to = Head(toBus).body.to
    BY <1>3, AnswerTyped DEF OnBus
  <2>3. y.op # 0 => y.to = Addressed
    BY <1>3, <2>2 DEF Posted, Addressed
  <2> HIDE DEF y
  <2> QED  BY <1>4, <2>1, <2>3
<1> QED  BY <1>6, <1>7, <1>8, <1>9 DEF ModuleTakes

LEMMA PostedStep ==
  ASSUME TypeOK, PostedRight, [Next]_vars
  PROVE  PostedRight'
<1>1. /\ AllPosted(cmds) /\ AllPosted(toBus) /\ \A a \in Modules : Kept(modules, a)
      /\ cmds \in Seq(Commands) /\ toBus \in Seq(OnBus) /\ modules \in [Modules -> Module]
      /\ target \in Targets /\ last \in Request
  BY DEF PostedRight, AllPosted, TypeOK
<1>2. ASSUME UNCHANGED <<cmds, toBus, modules>>  PROVE PostedRight'
  BY <1>1, <1>2, PostedNext
<1>3. ASSUME NEW c \in Commands, Posted(c), cmds' = Append(cmds, c), UNCHANGED <<toBus, modules>>
      PROVE  PostedRight'
  BY <1>1, <1>3, PostedQueue, PostedNext
<1>4. CASE \/ StartTarget \/ StartActive \/ CommandsEnd \/ HelloFirst \/ Spawn \/ ReadFinished
           \/ ReceiveHello \/ ReceiveRead \/ ReceiveSpoilt \/ LoseToHost \/ UNCHANGED vars
           \/ \E a \in Modules : Hello(a)
  <2>1. UNCHANGED <<cmds, toBus, modules>>
    BY <1>4 DEF StartTarget, StartActive, CommandsEnd, HelloFirst, Spawn, ReadFinished,
       ReceiveHello, ReceiveRead, ReceiveSpoilt, Receive, LoseToHost, Hello, vars, busVars
  <2> QED  BY <1>2, <2>1
<1>5. ASSUME NEW i \in 1..Len(threads),
             \/ FileFails(i) \/ UnknownMode(i) \/ GiveUp(i) \/ Open(i) \/ ReadAnswer(i)
             \/ CloseActive(i) \/ CloseTarget(i) \/ CloseAck(i) \/ End(i)
      PROVE  PostedRight'
  <2>1. UNCHANGED <<cmds, toBus, modules>>
    BY <1>5 DEF FileFails, UnknownMode, GiveUp, Open, ReadAnswer, CloseActive, CloseTarget,
       CloseAck, End, dataVars, busVars
  <2> QED  BY <1>2, <2>1
<1>6. ASSUME NEW i \in 1..Len(threads), Begin(i) \/ ReadTimeout(i) \/ ReadOther(i)
      PROVE  PostedRight'
  <2>1. UNCHANGED <<toBus, modules>>
    BY <1>6 DEF Begin, ReadTimeout, ReadOther, busVars
  <2>2. threads[i].target \in Targets
    BY TypesParts, ThreadTyped DEF Thread
  <2>3. \E c \in Commands : Posted(c) /\ cmds' = Append(cmds, c)
    BY <1>1, <1>6, <2>2, PackagesPosted DEF Begin, ReadTimeout, ReadOther, AskAgain
  <2> QED  BY <1>3, <2>1, <2>3
<1>7. ASSUME NEW i \in 1..Len(threads), WriteRequest(i) \/ \E ok \in BOOLEAN : ExitBootloader(i, ok)
      PROVE  PostedRight'
  <2>1. UNCHANGED <<toBus, modules>> /\ cmds' = Append(cmds, DataPacket(last'))
    BY <1>7 DEF WriteRequest, ExitBootloader, Write, busVars
  <2>2. last' \in Request
    BY TypesStep DEF TypeOK
  <2> QED  BY <1>3, <2>1, <2>2, PackagesPosted
<1>8. CASE HelloAgain \/ ReceiveResend
  <2>1. UNCHANGED <<toBus, modules>> /\ \E c \in Commands : Posted(c) /\ cmds' = Append(cmds, c)
    BY <1>1, <1>8, PackagesPosted DEF HelloAgain, ReceiveResend, busVars
  <2> QED  BY <1>3, <2>1
<1>9. ASSUME NEW a \in Modules, SendStart(a)
      PROVE  PostedRight'
  <2>1. UNCHANGED <<cmds, modules>> /\ toBus' = Append(toBus, Packet("start", a))
    BY <1>9 DEF SendStart
  <2>2. AllPosted(toBus')
    BY <1>1, <2>1, PostedQueue, PackagesPosted, Bounds
  <2> QED  BY <1>1, <2>1, <2>2, PostedNext
<1>10. CASE WriteCommand
  <2>1. /\ modules' = modules /\ cmds # <<>>
        /\ toBus' = Append(toBus, Head(cmds)) /\ cmds' = Tail(cmds)
    BY <1>10 DEF WriteCommand
  <2>2. Posted(Head(cmds)) /\ AllPosted(Tail(cmds)) /\ Head(cmds) \in OnBus
    BY <1>1, <2>1, PostedQueue, HeadTailProperties, BodiesTyped
  <2>3. AllPosted(toBus')
    BY <1>1, <2>1, <2>2, PostedQueue
  <2> QED  BY <1>1, <2>1, <2>2, <2>3, PostedNext
<1>11. CASE LoseToModule
  <2>1. UNCHANGED <<cmds, modules>> /\ toBus # <<>> /\ toBus' = Tail(toBus)
    BY <1>11 DEF LoseToModule
  <2> QED  BY <1>1, <2>1, PostedQueue, PostedNext
<1>12. ASSUME NEW a \in Modules, PowerUp(a)
       PROVE  PostedRight'
  <2>1. UNCHANGED <<cmds, toBus>> /\ \A b \in Modules : modules'[b].answer = modules[b].answer
    BY <1>1, <1>12 DEF PowerUp, Module
  <2>2. \A b \in Modules : Kept(modules', b)
    BY <1>1, <2>1 DEF Kept
  <2> QED  BY <1>1, <2>1, <2>2, PostedNext
<1>13. CASE ModuleTakes \/ ModuleRefuses
  BY <1>13, TakenPosted
<1> QED
  BY <1>4, <1>5, <1>6, <1>7, <1>8, <1>9, <1>10, <1>11, <1>12, <1>13
  DEF Next, Finish, ReceivePacket, Proceed

\* An operation speaks under its own number only.
LEMMA YoungStep ==
  ASSUME TypeOK, Young, [Next]_vars
  PROVE  Young'
<1> PICK l \in Nat : l = Len(threads)
  BY LengthTyped
<1>1. Holding(Until(Request, l), Until(Answers, l)) /\ Threads /\ target \in Targets
  BY TypesParts DEF Young, TypeOK
<1>2. last' \in Until(Request, l)
  <2>1. last \in Until(Request, l)
    BY <1>1, HoldingParts
  <2>2. last' \in Request
    BY TypesStep DEF TypeOK
  <2>3. last' = last \/ \E j \in 1..l : last'.op = j
    BY WritesStep
  <2> QED  BY <2>1, <2>2, <2>3 DEF Until
<1>3. Holding(Until(Request, l), Until(Answers, l))'
  BY <1>1, <1>2, UntilClosed, HoldingStep
<1>4. l <= Len(threads') /\ Len(threads') \in Nat
  <2>1. TypeOK'
    BY TypesStep
  <2>2. Len(threads') \in Nat
    BY <2>1 DEF TypeOK
  <2>3. \/ UNCHANGED threads \/ Spawn
        \/ \E j \in 1..Len(threads) :
             \/ GoesOn(j) \/ CloseActive(j) \/ CloseTarget(j) \/ CloseAck(j) \/ End(j)
    BY ThreadsChange
  <2> QED  BY <1>1, <2>2, <2>3, SpawnThreads, GoesOnMoves, CloseMoves DEF Moved
<1>5. PICK m \in Nat : m = Len(threads')
  BY <1>4
<1>6. Until(Request, l) \subseteq Until(Request, m) /\ Until(Answers, l) \subseteq Until(Answers, m)
  <2>1. l <= m
    BY <1>4, <1>5
  <2>2. \A r \in Request \cup Answers : r.op \in Nat
    BY DEF Request, Answers
  <2>3. \A r \in Request \cup Answers : r.op <= l => r.op <= m
    BY <2>1, <2>2
  <2> QED  BY <2>3 DEF Until
<1>7. Holding(Until(Request, m), Until(Answers, m))'
  BY <1>3, <1>6, HoldingNextMono
<1> QED  BY <1>5, <1>7 DEF Young

\* The answers of the operation are with the module it is for, also after the step.
LEMMA OneModuleAnswersNext ==
  ASSUME NEW j \in Nat \ {0}, NEW a, NEW lo, NEW hi, PostedRight',
         Holding(Within(Request, j, a, lo, hi), Within(Answers, j, a, lo, hi))'
  PROVE  Sole(j, AnswersOf(modules))'
<1> PICK A : A = Within(Answers, j, a, lo, hi)
  OBVIOUS
<1>1. modules' \in [Modules -> ModuleOf(A)] /\ \A b \in Modules : Kept(modules', b)
  BY DEF Holding, PostedRight, ModuleOf, Kept, Within
<1>2. \A b \in Modules : AnswersOf(modules')[b] = modules'[b].answer
  BY DEF AnswersOf
<1>3. \A b \in Modules : modules'[b].answer \in A
  BY <1>1 DEF ModuleOf
<1>4. \A b \in Modules : AnswersOf(modules')[b].op = j => a = b
  BY <1>1, <1>2, <1>3 DEF Kept, Within
<1>5. Sole(j, AnswersOf(modules'))
  BY <1>4 DEF Sole
<1> QED  BY <1>5 DEF Sole, AnswersOf

\* The window may be opened to later requests, and then holds what is said.
LEMMA OwnHolds ==
  ASSUME TypeOK, PostedRight, [Next]_vars, NEW j \in 1..Len(threads),
         NEW a, NEW lo \in Int, NEW hi \in Nat, NEW k \in Nat, hi <= k, Window(j, a, lo, hi),
         last.op = j => last.n = hi, Order(j),
         \/ last' = last
         \/ last'.op # j
         \/ last'.to = a /\ last'.n = k /\ lo <= k /\ k > 0
  PROVE  Holding(Within(Request, j, a, lo, k), Within(Answers, j, a, lo, k))' /\ Order(j)'
<1>1. TypeOK' /\ PostedRight' /\ j \in Nat \ {0} /\ last \in Request /\ last' \in Request
  <2>1. TypeOK' /\ PostedRight'
    BY TypesStep, PostedStep
  <2> QED  BY <2>1, LengthTyped DEF TypeOK
<1>2. NotEarlier(j, last) /\ NotEarlier(j, last')
  <2>1. last.op = j => last.n \in Nat /\ last.n >= hi
    OBVIOUS
  <2>2. last'.op = j => last'.n \in Nat /\ last'.n >= hi
    OBVIOUS
  <2> QED  BY <2>1, <2>2, NotEarlierThanWindow
<1> DEFINE P == Within(Request, j, a, lo, k)
           A == Within(Answers, j, a, lo, k)
<1>3. Within(Request, j, a, lo, hi) \subseteq P /\ Within(Answers, j, a, lo, hi) \subseteq A
  <2>1. \A r \in Request \cup Answers : r.n \in Nat
    BY DEF Request, Answers
  <2>2. \A r \in Request \cup Answers : r.n <= hi => r.n <= k
    BY <2>1
  <2> QED  BY <2>2 DEF Within
<1>4. Holding(P, A)
  BY <1>3, HoldingMono DEF Window
<1>5. last' \in P
  <2>1. last \in P
    BY <1>4, HoldingParts
  <2> QED  BY <1>1, <2>1 DEF Within
<1>6. Threads /\ target \in Targets
  BY TypesParts DEF TypeOK
<1>7. Holding(P, A)'
  BY <1>1, <1>4, <1>5, <1>6, WindowClosed, HoldingStep
<1>8. Sole(j, AnswersOf(modules)) /\ Sole(j, AnswersOf(modules))'
  BY <1>1, <1>7, OneModuleAnswers, OneModuleAnswersNext
<1>9. Order(j)'
  BY <1>1, <1>2, <1>8, OrderStep
<1> QED  BY <1>7, <1>9

LEMMA OwnNext ==
  ASSUME NEW j, NEW a, NEW lo, NEW hi, Order(j)',
         Holding(Within(Request, j, a, lo, hi), Within(Answers, j, a, lo, hi))',
         threads'[j].target = a, Oldest(threads'[j]) = lo, threads'[j].n = hi,
         last'.op = j => last'.n = hi,
         threads'[j].at = "ready" /\ threads'[j].answer.op = j => threads'[j].answer.n = hi
  PROVE  Own(j)'
<1>1. Window(j, threads[j].target, Oldest(threads[j]), threads[j].n)'
  BY DEF Window, Within, Oldest, Holding, CommandsOf, OnBusOf, FromModulesOf, ModuleOf
<1> QED  BY <1>1 DEF Own

\* A thread that has not moved, or not from a read.
SameRequest(j) ==
  /\ threads'[j].target = threads[j].target /\ threads'[j].n = threads[j].n
  /\ Oldest(threads'[j]) = Oldest(threads[j]) /\ threads'[j].answer = threads[j].answer
  /\ threads'[j].at = "ready" => threads[j].at = "ready" \/ threads[j].at = "library"

LEMMA TalkingStep ==
  ASSUME TypeOK, [Next]_vars, NEW j \in 1..Len(threads'), Talking(j)'
  PROVE  \/ Spawn /\ j = Len(threads) + 1
         \/ /\ j \in 1..Len(threads) /\ Talking(j)
            /\ \/ WriteRequest(j) \/ ReadAnswer(j)
               \/ SameRequest(j) /\ (last' = last \/ last'.op # j)
<1>1. Threads /\ Len(threads) \in Nat
  BY TypesParts, LengthTyped
<1>2. threads'[j].at \in {"begin", "library", "ready", "read"}
  BY DEF Talking
<1>3. ASSUME j \in 1..Len(threads), ~WriteRequest(j)
      PROVE  last' = last \/ last'.op # j
  <2>1. ASSUME \E ok \in BOOLEAN : ExitBootloader(j, ok)  PROVE FALSE
    <3>1. Moved(j, "close", threads[j].n, threads[j].answer)
      BY <1>1, <1>3, <2>1, EndsMoves DEF ExitBootloader, ThreadSteps
    <3> QED  BY <1>2, <3>1 DEF Moved
  <2> QED  BY <1>3, <2>1, WritesStep
<1>4. ASSUME j \in 1..Len(threads), threads'[j] = threads[j]
      PROVE  SameRequest(j) /\ Talking(j)
  BY <1>2, <1>4 DEF SameRequest, Talking
<1>5. ASSUME NEW i \in 1..Len(threads), NEW at, NEW n, NEW answer, Moved(i, at, n, answer), i # j
      PROVE  j \in 1..Len(threads) /\ SameRequest(j) /\ Talking(j)
  BY <1>4, <1>5 DEF Moved
<1>6. CASE UNCHANGED threads
  BY <1>3, <1>4, <1>6
<1>7. CASE Spawn
  <2>1. Len(threads') = Len(threads) + 1 /\ \A i \in 1..Len(threads) : threads'[i] = threads[i]
    BY <1>7, SpawnThreads
  <2> QED  BY <1>1, <1>3, <1>4, <1>7, <2>1
<1>8. ASSUME NEW i \in 1..Len(threads), i # j,
             \/ GoesOn(i) \/ CloseActive(i) \/ CloseTarget(i) \/ CloseAck(i) \/ End(i)
      PROVE  j \in 1..Len(threads) /\ SameRequest(j) /\ Talking(j)
  BY <1>1, <1>5, <1>8, GoesOnMoves, CloseMoves
<1>9. ASSUME j \in 1..Len(threads), NEW at \in ClosingSteps \cup {"close", "end"}, NEW n, NEW answer,
             Moved(j, at, n, answer)
      PROVE  FALSE
  BY <1>2, <1>9 DEF Moved, ClosingSteps
<1>10. ASSUME j \in 1..Len(threads), CloseActive(j) \/ CloseTarget(j) \/ CloseAck(j) \/ End(j)
       PROVE  FALSE
  BY <1>1, <1>9, <1>10, CloseMoves
<1>11. ASSUME j \in 1..Len(threads), GoesOn(j), ~WriteRequest(j), ~ReadAnswer(j)
       PROVE  SameRequest(j) /\ Talking(j)
  <2>1. CASE Begin(j)
    <3>1. Moved(j, "library", threads[j].n, threads[j].answer) /\ threads[j].at = "begin"
      BY <1>1, <1>11, <2>1, GoesMoves DEF Begin, ThreadSteps
    <3> QED  BY <3>1 DEF Moved, SameRequest, Talking, Oldest
  <2>2. CASE Open(j)
    <3>1. /\ threads[j].at = "library"
          /\ \/ Moved(j, "ready", threads[j].n, threads[j].answer)
             \/ Moved(j, "end", threads[j].n, threads[j].answer)
      BY <1>1, <1>11, <2>2, GoesMoves DEF Open, ThreadSteps
    <3>2. Moved(j, "ready", threads[j].n, threads[j].answer)
      BY <1>9, <1>11, <3>1
    <3> QED  BY <3>1, <3>2 DEF Moved, SameRequest, Talking, Oldest
  <2>3. CASE FileFails(j) \/ UnknownMode(j) \/ GiveUp(j)
    <3>1. Moved(j, "end", threads[j].n, threads[j].answer)
      BY <1>1, <1>11, <2>3, EndsMoves DEF FileFails, UnknownMode, GiveUp, Fails, ThreadSteps
    <3> QED  BY <1>9, <1>11, <3>1
  <2>4. CASE \E ok \in BOOLEAN : ExitBootloader(j, ok)
    <3>1. Moved(j, "close", threads[j].n, threads[j].answer)
      BY <1>1, <1>11, <2>4, EndsMoves DEF ExitBootloader, ThreadSteps
    <3> QED  BY <1>9, <1>11, <3>1
  <2> QED  BY <1>11, <2>1, <2>2, <2>3, <2>4 DEF GoesOn
<1>12. ASSUME WriteRequest(j) \/ ReadAnswer(j)  PROVE Talking(j)
  BY <1>12 DEF WriteRequest, ReadAnswer, Reading, Talking
<1>13. ASSUME NEW i \in 1..Len(threads),
              GoesOn(i) \/ CloseActive(i) \/ CloseTarget(i) \/ CloseAck(i) \/ End(i)
       PROVE  /\ j \in 1..Len(threads) /\ Talking(j)
              /\ WriteRequest(j) \/ ReadAnswer(j) \/ SameRequest(j)
  BY <1>8, <1>10, <1>11, <1>12, <1>13
<1> QED  BY <1>3, <1>6, <1>7, <1>13, ThreadsChange

\* An operation that begins has not said anything.
LEMMA SpawnOwns ==
  ASSUME TypeOK, Young, Spawn, NEW j, j = Len(threads) + 1
  PROVE  Own(j)'
<1> PICK l \in Nat : l = Len(threads)
  BY LengthTyped
<1>1. Holding(Until(Request, l), Until(Answers, l))
  BY DEF Young
<1>2. \A r \in Until(Request, l) \cup Until(Answers, l) : r.op # j
  BY DEF Until, Request, Answers
<1>3. UNCHANGED <<data, last, cmds, toBus, fromBus, modules>>
  BY DEF Spawn, dataVars, busVars
<1>4. Order(j)
  BY <1>1, <1>2, OrderedNone
<1>5. Order(j)'
  BY <1>3, <1>4, OrderNext DEF Order
<1>6. Holding(Until(Request, l), Until(Answers, l))'
  BY <1>1, <1>3, HoldingParts, HoldingNext
<1>7. /\ threads'[j].at = "begin" /\ threads'[j].n = 0 /\ Oldest(threads'[j]) = 0
  BY SpawnThreads DEF Oldest
<1> PICK a : a = threads'[j].target
  OBVIOUS
<1>8. /\ Until(Request, l) \subseteq Within(Request, j, a, 0, 0)
      /\ Until(Answers, l) \subseteq Within(Answers, j, a, 0, 0)
  BY <1>2 DEF Until, Within
<1>9. Holding(Within(Request, j, a, 0, 0), Within(Answers, j, a, 0, 0))'
  BY <1>6, <1>8, HoldingNextMono
<1>10. last'.op # j
  BY <1>1, <1>2, <1>3, HoldingParts
<1> QED  BY <1>5, <1>7, <1>9, <1>10, OwnNext

\* What is known of an operation that talks.
LEMMA OwnParts ==
  ASSUME TypeOK, NEW j \in 1..Len(threads), Own(j)
  PROVE  /\ threads[j].n \in Nat /\ Oldest(threads[j]) \in Int
         /\ Window(j, threads[j].target, Oldest(threads[j]), threads[j].n)
         /\ last.op = j => last.n = threads[j].n
         /\ Order(j)
         /\ threads[j].at = "ready" /\ threads[j].answer.op = j
              => threads[j].answer.n = threads[j].n
BY ThreadParts DEF Own, Oldest

LEMMA SameOwns ==
  ASSUME TypeOK, PostedRight, FlagsInv, Counting, [Next]_vars, NEW j \in 1..Len(threads),
         Own(j), SameRequest(j), last' = last \/ last'.op # j
  PROVE  Own(j)'
<1> PICK a, lo, hi, answer :
      /\ a = threads[j].target /\ lo = Oldest(threads[j]) /\ hi = threads[j].n
      /\ answer = threads[j].answer
  OBVIOUS
<1>1. /\ hi \in Nat /\ lo \in Int /\ hi <= hi /\ Window(j, a, lo, hi) /\ Order(j)
      /\ last.op = j => last.n = hi
      /\ threads[j].at = "ready" /\ answer.op = j => answer.n = hi
  BY OwnParts
<1>2. Holding(Within(Request, j, a, lo, hi), Within(Answers, j, a, lo, hi))' /\ Order(j)'
  BY <1>1, OwnHolds
<1>3. /\ threads'[j].target = a /\ threads'[j].n = hi /\ threads'[j].answer = answer
      /\ Oldest(threads'[j]) = lo
      /\ threads'[j].at = "ready" => threads[j].at = "ready" \/ threads[j].at = "library"
  BY DEF SameRequest
<1>4. threads[j].at = "library" => answer.op # j
  BY LengthTyped DEF Counting, InCount
<1> QED  BY <1>1, <1>2, <1>3, <1>4, OwnNext

LEMMA WriteOwns ==
  ASSUME TypeOK, PostedRight, FlagsInv, [Next]_vars, NEW j \in 1..Len(threads),
         Own(j), WriteRequest(j)
  PROVE  Own(j)'
<1>0. Threads
  BY TypesParts
<1>1. Moved(j, "read", threads[j].n + 1, threads[j].answer)
      /\ threads[j].at = "ready" /\ threads[j].n \in Nat
  BY <1>0, WriteMoves, OwnParts DEF WriteRequest
<1> PICK a, n, k :
      /\ a = threads[j].target /\ n = threads[j].n /\ k = threads[j].n + 1
  OBVIOUS
<1>2. n \in Nat /\ k \in Nat /\ k = n + 1 /\ n <= k /\ k > 0
  BY <1>1
<1>3. Window(j, a, n, n) /\ Order(j) /\ (last.op = j => last.n = n)
  BY <1>1, OwnParts DEF Oldest
<1>4. last'.to = a /\ last'.n = k
  BY <1>1 DEF WriteRequest, Write, FlagsInv, ThreadsInStep, Running
<1>5. Holding(Within(Request, j, a, n, k), Within(Answers, j, a, n, k))' /\ Order(j)'
  BY <1>2, <1>3, <1>4, OwnHolds
<1>6. /\ threads'[j].target = a /\ threads'[j].n = k /\ threads'[j].at = "read"
      /\ Oldest(threads'[j]) = n
  BY <1>1, <1>2 DEF Moved, Oldest
<1> QED  BY <1>4, <1>5, <1>6, OwnNext

\* The answer that is taken is the oldest thing of the operation on the way.
LEMMA NoneIsOlder ==
  ASSUME TypeOK, NEW j, Order(j), data # <<>>, Head(data).op = j
  PROVE  /\ \A k \in 1..Len(Tail(data)) : Le(j, Head(data), Tail(data)[k])
         /\ \A k \in 1..Len(fromBus) : Le(j, Head(data), fromBus[k].body)
         /\ \A a \in Modules : Le(j, Head(data), modules[a].answer)
         /\ \A k \in 1..Len(toBus) : Le(j, Head(data), toBus[k].body)
         /\ \A k \in 1..Len(cmds) : Le(j, Head(data), cmds[k].body)
<1>1. data \in Items /\ Ordered(j, data, Bodies(fromBus), AnswersOf(modules), Bodies(toBus), Bodies(cmds))
  BY QueueItems DEF Order
<1>2. Head(data) = data[1] /\ 1 \in 1..Len(data)
  BY <1>1, TailItems
<1>3. \A k \in 1..Len(Tail(data)) : Le(j, Head(data), Tail(data)[k])
  BY <1>1, TailOrder DEF Ordered
<1>4. /\ \A k \in 1..Len(Bodies(fromBus)) : Le(j, Head(data), Bodies(fromBus)[k])
      /\ \A a \in Modules : Le(j, Head(data), AnswersOf(modules)[a])
      /\ \A k \in 1..Len(Bodies(toBus)) : Le(j, Head(data), Bodies(toBus)[k])
      /\ \A k \in 1..Len(Bodies(cmds)) : Le(j, Head(data), Bodies(cmds)[k])
  BY <1>1, <1>2 DEF Ordered, UpTo, UpToModules
<1>5. \A q : Len(q) \in Nat => /\ Len(Bodies(q)) = Len(q)
                               /\ \A k \in 1..Len(q) : Bodies(q)[k] = q[k].body
  BY DEF Bodies
<1>6. Len(fromBus) \in Nat /\ Len(toBus) \in Nat /\ Len(cmds) \in Nat
  BY DEF TypeOK
<1> QED  BY <1>3, <1>4, <1>5, <1>6 DEF AnswersOf

LEMMA SeqNarrow ==
  ASSUME NEW S, NEW U, NEW q \in Seq(S), \A k \in 1..Len(q) : q[k] \in U
  PROVE  q \in Seq(U)
OBVIOUS

LEMMA AnswerOwns ==
  ASSUME TypeOK, PostedRight, Numbers, [Next]_vars, NEW j \in 1..Len(threads),
         Own(j), ReadAnswer(j), ~mistaken'
  PROVE  Own(j)'
<1> PICK a, n, x : a = threads[j].target /\ n = threads[j].n /\ x = Head(data)
  OBVIOUS
<1>1. /\ data # <<>> /\ data' = Tail(data) /\ x.seq = seqNum /\ x.op = j
      /\ threads[j].at = "read"
      /\ UNCHANGED <<last, cmds, toBus, fromBus, modules>>
  BY DEF ReadAnswer, Reading, Expected, busVars
<1>2. /\ n \in Nat /\ Window(j, a, n - 1, n) /\ Order(j) /\ (last.op = j => last.n = n)
  BY <1>1, OwnParts DEF Oldest
<1>3. /\ data \in Seq(Within(Answers, j, a, n - 1, n)) /\ last \in Within(Request, j, a, n - 1, n)
      /\ data \in Seq(Matching) /\ seqNum = n % 256 /\ j \in Nat \ {0}
  BY <1>1, <1>2, HoldingParts, LengthTyped DEF Window, Numbers, Counting, InCount
<1>4. x.n = n /\ x \in Answers /\ n > 0
  <2>1. x \in Within(Answers, j, a, n - 1, n) /\ x \in Matching
    BY <1>1, <1>3, HeadTailProperties
  <2>2. x.n \in Nat /\ x.n > 0 /\ x.n >= n - 1 /\ x.n <= n /\ x.n % 256 = n % 256
    BY <1>1, <1>3, <2>1 DEF Within, Answers, Matching
  <2>3. x.n = n \/ x.n = n - 1
    BY <1>2, <2>2
  <2>4. x.n # n - 1
    BY <1>2, <2>2
  <2> QED  BY <2>1, <2>2, <2>3, <2>4 DEF Within
<1> DEFINE P == Within(Request, j, a, n, n)
           A == Within(Answers, j, a, n, n)
<1>5. /\ \A r \in Within(Request, j, a, n - 1, n) : Le(j, x, r) => r \in P
      /\ \A r \in Within(Answers, j, a, n - 1, n) : Le(j, x, r) => r \in A
  BY <1>1, <1>2, <1>4 DEF Within, Le
<1>6. /\ \A k \in 1..Len(Tail(data)) : Le(j, x, Tail(data)[k])
      /\ \A k \in 1..Len(fromBus) : Le(j, x, fromBus[k].body)
      /\ \A b \in Modules : Le(j, x, modules[b].answer)
      /\ \A k \in 1..Len(toBus) : Le(j, x, toBus[k].body)
      /\ \A k \in 1..Len(cmds) : Le(j, x, cmds[k].body)
  BY <1>1, <1>2, NoneIsOlder
<1>7. last \in P
  BY <1>2, <1>3 DEF Within
<1> HIDE DEF P, A
<1> PICK P0, A0 : P0 = Within(Request, j, a, n - 1, n) /\ A0 = Within(Answers, j, a, n - 1, n)
  OBVIOUS
<1>8. /\ data \in Seq(A0) /\ cmds \in Seq(CommandsOf(P0)) /\ toBus \in Seq(OnBusOf(P0))
      /\ fromBus \in Seq(FromModulesOf(A0)) /\ modules \in [Modules -> ModuleOf(A0)]
  BY <1>2, HoldingParts DEF Window
<1>9. data' \in Seq(A)
  <2>1. Tail(data) \in Seq(A0)
    BY <1>1, <1>8, HeadTailProperties
  <2>2. \A k \in 1..Len(Tail(data)) : Tail(data)[k] \in A
    BY <1>5, <1>6, <2>1, ElementOfSeq
  <2> QED  BY <1>1, <2>1, <2>2, SeqNarrow
<1>10. cmds' \in Seq(CommandsOf(P))
  <2>1. \A k \in 1..Len(cmds) : cmds[k] \in CommandsOf(P0)
    BY <1>8, ElementOfSeq
  <2>2. \A k \in 1..Len(cmds) : cmds[k] \in CommandsOf(P)
    BY <1>5, <1>6, <2>1 DEF CommandsOf
  <2> QED  BY <1>1, <1>8, <2>2, SeqNarrow
<1>11. toBus' \in Seq(OnBusOf(P))
  <2>1. \A k \in 1..Len(toBus) : toBus[k] \in OnBusOf(P0)
    BY <1>8, ElementOfSeq
  <2>2. \A k \in 1..Len(toBus) : toBus[k] \in OnBusOf(P)
    BY <1>5, <1>6, <2>1 DEF OnBusOf
  <2> QED  BY <1>1, <1>8, <2>2, SeqNarrow
<1>12. fromBus' \in Seq(FromModulesOf(A))
  <2>1. \A k \in 1..Len(fromBus) : fromBus[k] \in FromModulesOf(A0)
    BY <1>8, ElementOfSeq
  <2>2. \A k \in 1..Len(fromBus) : fromBus[k] \in FromModulesOf(A)
    BY <1>5, <1>6, <2>1 DEF FromModulesOf
  <2> QED  BY <1>1, <1>8, <2>2, SeqNarrow
<1>13. modules' \in [Modules -> ModuleOf(A)]
  <2>1. \A b \in Modules : modules[b] \in ModuleOf(A)
    BY <1>5, <1>6, <1>8 DEF ModuleOf
  <2> QED  BY <1>1, <1>8, <2>1
<1>14. Holding(P, A)'
  BY <1>1, <1>7, <1>9, <1>10, <1>11, <1>12, <1>13, HoldingNext
<1>15. Order(j)'
  BY <1>1, <1>2, OwnHolds
<1>16. /\ threads'[j].target = a /\ threads'[j].n = n /\ threads'[j].at = "ready"
       /\ threads'[j].answer = x
  <2>1. x \in Request
    BY <1>1, <1>4 DEF TypeOK, Answers, Request
  <2>2. Threads
    BY TypesParts
  <2>3. Moved(j, "ready", n, x)
    BY <2>1, <2>2, AnswerMoves DEF ReadAnswer
  <2> QED  BY <2>3 DEF Moved
<1>17. Oldest(threads'[j]) = n
  BY <1>16 DEF Oldest
<1> QED  BY <1>1, <1>2, <1>4, <1>14, <1>15, <1>16, <1>17, OwnNext DEF P, A

\* What has been mistaken stays so.
LEMMA MistakenStays ==
  ASSUME [Next]_vars, mistaken
  PROVE  mistaken'
<1> USE DEF appVars
<1>1. ASSUME NEW a \in Modules, SendStart(a) \/ Hello(a) \/ PowerUp(a)  PROVE mistaken'
  BY <1>1 DEF SendStart, Hello, PowerUp
<1>2. ASSUME NEW j \in 1..Len(threads), GoesOn(j)  PROVE mistaken'
  BY <1>2 DEF GoesOn, Begin, FileFails, UnknownMode, Open, WriteRequest, ReadAnswer, GiveUp,
     ExitBootloader
<1>3. ASSUME NEW j \in 1..Len(threads), \/ CloseActive(j) \/ CloseTarget(j) \/ CloseAck(j)
                                        \/ End(j) \/ ReadOther(j) \/ ReadTimeout(j)
      PROVE  mistaken'
  BY <1>3 DEF CloseActive, CloseTarget, CloseAck, End, ReadOther, ReadTimeout
<1>4. CASE HandlerStep \/ Spawn
  BY <1>4 DEF HandlerStep, StartTarget, StartActive, CommandsEnd, HelloFirst, HelloAgain,
     ReceiveHello, Spawn
<1>5. CASE \/ WriteCommand \/ ReceiveRead \/ ReceiveResend \/ ReceiveSpoilt \/ ReadFinished
           \/ LoseToModule \/ LoseToHost \/ UNCHANGED vars
  BY <1>5
  DEF WriteCommand, ReceiveRead, ReceiveResend, ReceiveSpoilt, Receive, ReadFinished,
      LoseToModule, LoseToHost, vars
<1>6. CASE ModuleTakes \/ ModuleRefuses
  BY <1>6 DEF ModuleTakes, ModuleStarts, ModuleAcked, ModuleAnswers, ModuleLeaves,
     ModuleRepeats, ModuleIgnores, NobodyTakes, ModuleRefuses, Taken
<1> QED
  BY <1>1, <1>2, <1>3, <1>4, <1>5, <1>6
  DEF Next, Finish, ReceivePacket, Proceed, GoesOn, HandlerStep

LEMMA OwnsStep ==
  ASSUME TypeOK, Young, PostedRight, FlagsInv, Numbers, Owns, [Next]_vars, ~mistaken'
  PROVE  Owns'
<1>1. ASSUME NEW j \in 1..Len(threads'), Talking(j)'
      PROVE  Own(j)'
  <2>1. CASE Spawn /\ j = Len(threads) + 1
    BY <2>1, SpawnOwns
  <2>2. ASSUME j \in 1..Len(threads), Talking(j),
               \/ WriteRequest(j) \/ ReadAnswer(j)
               \/ SameRequest(j) /\ (last' = last \/ last'.op # j)
        PROVE  Own(j)'
    BY <2>2, WriteOwns, AnswerOwns, SameOwns DEF Owns, Numbers
  <2> QED  BY <1>1, <2>1, <2>2, TalkingStep
<1> QED  BY <1>1 DEF Owns

LEMMA OwnInvariant == Spec => []OInv
<1>1. ASSUME Init  PROVE OInv
  <2>1. TypeOK /\ FlagsInv /\ Numbers /\ Len(threads) = 0
    BY <1>1, InitTypes, InitFlags, InitNumbers DEF Init
  <2>2. Young
    BY <1>1, <2>1, UntilClosed, InitHolds DEF Young
  <2>3. PostedRight
    BY <1>1 DEF Init, PostedRight, Kept, NoRequest
  <2>4. Owns
    BY <2>1 DEF Owns
  <2> QED  BY <2>1, <2>2, <2>3, <2>4 DEF OInv
<1>2. ASSUME OInv, [Next]_vars  PROVE OInv'
  <2>1. TypeOK' /\ Young' /\ PostedRight'
    BY <1>2, TypesStep, YoungStep, PostedStep DEF OInv
  <2>2. CASE raced \/ raced'
    BY <1>2, <2>1, <2>2, RacedStays DEF OInv
  <2>3. CASE ~raced /\ ~raced'
    <3>1. FlagsInv /\ Numbers /\ (mistaken \/ Owns)
      BY <1>2, <2>3 DEF OInv
    <3>2. FlagsInv' /\ Numbers'
      BY <1>2, <2>3, <3>1, FlagsStep, NumbersStep DEF OInv
    <3>3. mistaken' \/ Owns'
      BY <1>2, <3>1, MistakenStays, OwnsStep DEF OInv
    <3> QED  BY <2>1, <3>2, <3>3 DEF OInv
  <2> QED  BY <2>2, <2>3
<1> QED  BY <1>1, <1>2, PTL DEF Spec

\* What an operation has taken is the answer to its last request, whatever is lost, repeated,
\* delayed, or asked for again, and although the byte that is compared (eigen_bootloader.cpp)
\* goes round: unless a START or a hello has come into a close, or an answer that an earlier
\* operation left in bootloader_data has been taken for its own.
THEOREM AnswersAreToRequests == Spec => [](mistaken \/ AnswerIsToRequest)
<1>1. OInv => mistaken \/ AnswerIsToRequest
  BY DEF OInv, Owns, Own, Talking, AnswerIsToRequest
<1> QED  BY <1>1, OwnInvariant, PTL
=============================================================================
