------------------------ MODULE EigenModuleGroupProofs ------------------------
(***************************************************************************)
(* Proofs about EigenPacketPoll and EigenModuleGroup, for any groups,      *)
(* modules, commands, periods and number of calls:                         *)
(*   - no poll waits in the queue twice;                                   *)
(*   - no poll is left behind by the groups;                               *)
(* and about EigenVariable: what a group says its modules agree on, they   *)
(* agree on.                                                               *)
(*                                                                         *)
(* The first needs Once: a queue that holds clones is emptied before the   *)
(* manager makes others.  The second needs StillToStop: while a group      *)
(* removes its polls, those it has not reached are in the list it works    *)
(* through.                                                                *)
(***************************************************************************)
EXTENDS EigenModuleGroup, EigenVariable, SequenceTheorems, FunctionTheorems,
        FiniteSetTheorems, TLAPS

\* Any step of the polls and the queue.
PollStep ==
  \/ Service \/ Tick \/ clear_commands
  \/ \E b \in BOOLEAN : SetActive(b) \/ set_poll_enabled(b)
  \/ \E d \in 1 .. MaxPeriod : ClockStepsBack(d)
  \/ \E k \in Keys, p \in 0 .. MaxPeriod, b \in BOOLEAN : add_poll_command(k, p, b)
  \/ \E k \in Keys, b \in BOOLEAN : set_poll_enable(k, b)
  \/ \E k \in Keys : remove_poll_command(k)
  \/ \E k \in Keys, v \in Nat : add_command(k, v)
  \/ \E v \in Nat : delete_command(v)

\* A queue that holds each poll at most once.
OnceIn(q) ==
  \A i, j \in 1 .. Len(q) : q[i].polled /\ q[j].polled /\ q[i].key = q[j].key => i = j

NoPolls(q) == \A i \in 1 .. Len(q) : ~ q[i].polled

Once ==
  /\ OnceIn(cmd_list_) /\ OnceIn(commands_)
  /\ step # "transfer" => commands_ = <<>>
  /\ step = "poll" \/ commands_ # <<>> => NoPolls(cmd_list_)

Stopping(e) ==
  app.op = "destroy" \/ (app.op = "remove" /\ e[1] = app.main)

\* What a group is about to forget is no poll any more, or will be stopped.
StillToStop ==
  app.op \in {"remove", "destroy"} =>
    \A e \in groups[app.group].poll_keys :
      Stopping(e) /\ e[2] \in DOMAIN poll_map_ => \E i \in 1 .. Len(app.todo) : app.todo[i] = e[2]

OrphanInv == NoOrphanPoll /\ StillToStop

IInv == TypeOK /\ Once /\ OrphanInv
-----------------------------------------------------------------------------
(***************************************************************************)
(* SetToSeqs: the sequences of the elements of a finite set.               *)
(***************************************************************************)
LEMMA Sequenced ==
  ASSUME NEW S, IsFiniteSet(S), NEW s \in SetToSeqs(S)
  PROVE  /\ s \in Seq(S) /\ Len(s) \in Nat
         /\ \A i, j \in 1 .. Len(s) : s[i] = s[j] => i = j
         /\ \A x \in S : \E i \in 1 .. Len(s) : s[i] = x
<1> DEFINE n == Cardinality(S)
<1>1. n \in Nat
  BY FS_CardinalityType
<1>2. s \in [1 .. n -> S] /\ \A i, j \in 1 .. n : i # j => s[i] # s[j]
  BY DEF SetToSeqs
<1>3. s \in Seq(S) /\ Len(s) = n
  BY <1>1, <1>2
<1>4. s \in Injection(1 .. n, S)
  BY <1>2, Fun_IsInj
<1>5. IsFiniteSet(1 .. n) /\ Cardinality(1 .. n) = n
  BY <1>1, FS_Interval
<1>6. s \in Surjection(1 .. n, S)
  BY <1>4, <1>5, FS_Injection
<1>7. \A x \in S : \E i \in 1 .. n : s[i] = x
  BY <1>6 DEF Surjection
<1> HIDE DEF n
<1> QED  BY <1>1, <1>2, <1>3, <1>7

\* A sequence over a set is one over a larger set.
LEMMA LargerSet ==
  ASSUME NEW S, NEW T, S \subseteq T, NEW s \in Seq(S)
  PROVE  s \in Seq(T)
<1>1. Len(s) \in Nat /\ \A i \in 1 .. Len(s) : s[i] \in T
  OBVIOUS
<1>2. SubSeq(s, 1, Len(s)) \in Seq(T)
  BY <1>1, SubSeqProperties
<1> QED  BY <1>2, SubSeqFull

LEMMA Constants ==
  /\ MaxPeriod \in Nat /\ MaxCalls \in Nat /\ SetupPolls \subseteq Keys
  /\ \A S \in SUBSET Keys : IsFiniteSet(S)
  /\ Periods \subseteq 0 .. MaxPeriod /\ Lists \subseteq Seq(Modules)
  /\ \A kind \in Kinds \cup Commanded \cup Writes, m \in Modules : Key(kind, m) \in Keys
<1>1. \A S \in SUBSET Keys : IsFiniteSet(S)
  BY PollAssumption, FS_Subset DEF PollAssumption
<1>2. \A kind \in Kinds \cup Commanded \cup Writes, m \in Modules : Key(kind, m) \in Keys
  BY GroupAssumption DEF GroupAssumption, Key
<1> QED  BY <1>1, <1>2, PollAssumption, GroupAssumption DEF PollAssumption, GroupAssumption

-----------------------------------------------------------------------------
(***************************************************************************)
(* Types.                                                                  *)
(***************************************************************************)

\* The clones that the manager makes.
LEMMA Clones ==
  ASSUME PollTypeOK, service_poll
  PROVE  \E s \in SetToSeqs(DuePolls) :
           /\ s \in Seq(Keys) /\ \A i, j \in 1 .. Len(s) : s[i] = s[j] => i = j
           /\ LET c == [i \in 1 .. Len(s) |-> Clone(s[i])] IN
                /\ c \in Seq(Command) /\ Len(c) = Len(s)
                /\ commands_' = commands_ \o c
<1>1. PICK s \in SetToSeqs(DuePolls) : commands_' = commands_ \o [i \in DOMAIN s |-> Clone(s[i])]
  BY DEF service_poll
<1>2. DuePolls \subseteq Keys /\ IsFiniteSet(DuePolls)
  BY Constants DEF DuePolls, PollTypeOK
<1>3. s \in Seq(DuePolls) /\ Len(s) \in Nat /\ \A i, j \in 1 .. Len(s) : s[i] = s[j] => i = j
  BY <1>2, Sequenced
<1>4. s \in Seq(Keys) /\ DOMAIN s = 1 .. Len(s)
  BY <1>2, <1>3, LargerSet
<1> DEFINE c == [i \in 1 .. Len(s) |-> Clone(s[i])]
<1>5. c \in [1 .. Len(s) -> Command]
  BY <1>4 DEF Clone, Command, NoValue
<1>6. c \in Seq(Command) /\ Len(c) = Len(s)
  BY <1>3, <1>5
<1> QED  BY <1>1, <1>3, <1>4, <1>6

LEMMA PollTyped == PollTypeOK /\ PollStep => PollTypeOK'
<1> SUFFICES ASSUME PollTypeOK, PollStep PROVE PollTypeOK'  OBVIOUS
<1>1. ASSUME UNCHANGED poll_map_, commands_' \in Seq(Command), cmd_list_' \in Seq(Command),
             step' \in {"idle", "send", "poll", "transfer"}, enabled' \in BOOLEAN,
             active' \in BOOLEAN, freed' \subseteq Nat
      PROVE  PollTypeOK'
  BY <1>1 DEF PollTypeOK
<1>2. ASSUME DOMAIN poll_map_' \subseteq Keys, \A k \in DOMAIN poll_map_' : poll_map_'[k] \in Poll,
             UNCHANGED <<commands_, cmd_list_, step, enabled, active, freed>>
      PROVE  PollTypeOK'
  BY <1>2 DEF PollTypeOK
<1>3. CASE BeginService \/ SendDone
  BY <1>1, <1>3 DEF BeginService, SendDone, PollTypeOK
<1>4. CASE WriteCommand
  <2>1. Head(cmd_list_) \in Command /\ Tail(cmd_list_) \in Seq(Command)
    BY <1>4 DEF WriteCommand, PollTypeOK
  <2>2. freed' \subseteq Nat
    BY <1>4, <2>1 DEF WriteCommand, PollTypeOK, Command
  <2> QED  BY <1>1, <1>4, <2>1, <2>2 DEF WriteCommand, PollTypeOK
<1>5. CASE service_poll
  <2>1. commands_' \in Seq(Command)
    <3>1. PICK c \in Seq(Command) : commands_' = commands_ \o c
      BY <1>5, Clones
    <3> QED  BY <3>1 DEF PollTypeOK
  <2>2. DOMAIN poll_map_' = DOMAIN poll_map_
        /\ \A k \in DOMAIN poll_map_ :
             poll_map_'[k] = IF Due(k) THEN [poll_map_[k] EXCEPT !.elapsed = 0] ELSE poll_map_[k]
    BY <1>5 DEF service_poll
  <2>3. \A k \in DOMAIN poll_map_' : poll_map_'[k] \in Poll
    BY <2>2, Constants DEF PollTypeOK, Poll
  <2> QED  BY <1>5, <2>1, <2>2, <2>3 DEF service_poll, PollTypeOK
<1>6. CASE TransferPolls
  BY <1>1, <1>6 DEF TransferPolls, PollTypeOK
<1>7. CASE Tick
  <2>1. \A e \in 0 .. MaxPeriod : Least(e + 1, MaxPeriod) \in 0 .. MaxPeriod
    BY Constants DEF Least
  <2> QED  BY <1>2, <1>7, <2>1 DEF Tick, PollTypeOK, Poll
<1>8. ASSUME NEW d \in 1 .. MaxPeriod, ClockStepsBack(d) PROVE PollTypeOK'
  <2>1. \A e \in 0 .. MaxPeriod : (IF e < d THEN MaxPeriod ELSE e - d) \in 0 .. MaxPeriod
    BY Constants
  <2> QED  BY <1>2, <1>8, <2>1 DEF ClockStepsBack, PollTypeOK, Poll
<1>9. ASSUME NEW k \in Keys, NEW p \in 0 .. MaxPeriod, NEW b \in BOOLEAN, add_poll_command(k, p, b)
      PROVE  PollTypeOK'
  <2>1. [period |-> p, elapsed |-> 0, enabled |-> b] \in Poll
    BY Constants DEF Poll
  <2> QED  BY <1>2, <1>9, <2>1 DEF add_poll_command, PollTypeOK
<1>10. ASSUME NEW k \in Keys, NEW b \in BOOLEAN, set_poll_enable(k, b) PROVE PollTypeOK'
  BY <1>2, <1>10 DEF set_poll_enable, PollTypeOK, Poll
<1>11. ASSUME NEW k \in Keys, remove_poll_command(k) PROVE PollTypeOK'
  BY <1>2, <1>11 DEF remove_poll_command, PollTypeOK
<1>12. ASSUME NEW k \in Keys, NEW v \in Nat, add_command(k, v) PROVE PollTypeOK'
  <2>1. [key |-> k, polled |-> FALSE, value |-> v] \in Command
    BY DEF Command
  <2> QED  BY <1>1, <1>12, <2>1 DEF add_command, PollTypeOK
<1>13. CASE clear_commands
  <2>1. \A i \in DOMAIN cmd_list_ : cmd_list_[i] \in Command
    BY DEF PollTypeOK
  <2>2. \A i \in DOMAIN cmd_list_ : cmd_list_[i].value \in Nat
    BY <2>1 DEF Command
  <2>3. freed' \subseteq Nat
    BY <1>13, <2>2 DEF clear_commands, PollTypeOK
  <2> QED  BY <1>1, <1>13, <2>3 DEF clear_commands, PollTypeOK
<1>14. ASSUME NEW v \in Nat, delete_command(v) PROVE PollTypeOK'
  BY <1>1, <1>14 DEF delete_command, PollTypeOK
<1>15. ASSUME NEW b \in BOOLEAN, SetActive(b) \/ set_poll_enabled(b) PROVE PollTypeOK'
  BY <1>1, <1>15 DEF SetActive, set_poll_enabled, PollTypeOK
<1> QED  BY <1>3, <1>4, <1>5, <1>6, <1>7, <1>8, <1>9, <1>10, <1>11, <1>12, <1>13, <1>14, <1>15
         DEF PollStep, Service

-----------------------------------------------------------------------------
(***************************************************************************)
(* A poll waits once.                                                      *)
(***************************************************************************)
LEMMA OnceTail ==
  ASSUME NEW q \in Seq(Command), q # <<>>
  PROVE  (OnceIn(q) => OnceIn(Tail(q))) /\ (NoPolls(q) => NoPolls(Tail(q)))
<1>1. /\ Len(Tail(q)) = Len(q) - 1 /\ Len(q) \in Nat
      /\ \A i \in 1 .. Len(Tail(q)) : Tail(q)[i] = q[i + 1] /\ i + 1 \in 1 .. Len(q)
  BY HeadTailProperties
<1>2. ASSUME OnceIn(q), NEW i \in 1 .. Len(Tail(q)), NEW j \in 1 .. Len(Tail(q)),
             Tail(q)[i].polled, Tail(q)[j].polled, Tail(q)[i].key = Tail(q)[j].key
      PROVE  i = j
  <2>1. i + 1 = j + 1
    BY <1>1, <1>2 DEF OnceIn
  <2> QED  BY <2>1, <1>1
<1> QED  BY <1>1, <1>2 DEF OnceIn, NoPolls

LEMMA OnceAppend ==
  ASSUME NEW q \in Seq(Command), NEW c \in Command, ~ c.polled
  PROVE  (OnceIn(q) => OnceIn(Append(q, c))) /\ (NoPolls(q) => NoPolls(Append(q, c)))
<1>1. /\ Len(Append(q, c)) = Len(q) + 1 /\ Len(q) \in Nat
      /\ \A i \in 1 .. Len(q) : Append(q, c)[i] = q[i]
      /\ Append(q, c)[Len(q) + 1] = c
  BY AppendProperties
<1>2. \A i \in 1 .. Len(q) + 1 : Append(q, c)[i].polled => i \in 1 .. Len(q)
  BY <1>1
<1> QED  BY <1>1, <1>2 DEF OnceIn, NoPolls

\* The elements of a concatenation.
LEMMA InConcat ==
  ASSUME NEW q \in Seq(Command), NEW r \in Seq(Command), NEW i \in 1 .. Len(q \o r)
  PROVE  \/ i \in 1 .. Len(q) /\ (q \o r)[i] = q[i]
         \/ i - Len(q) \in 1 .. Len(r) /\ (q \o r)[i] = r[i - Len(q)]
<1>1. /\ Len(q \o r) = Len(q) + Len(r) /\ Len(q) \in Nat /\ Len(r) \in Nat
      /\ (q \o r)[i] = IF i <= Len(q) THEN q[i] ELSE r[i - Len(q)]
  BY ConcatProperties
<1> QED  BY <1>1

\* Two queues of which at most one holds polls.
LEMMA OnceConcat ==
  ASSUME NEW q \in Seq(Command), NEW r \in Seq(Command), OnceIn(q), OnceIn(r),
         NoPolls(q) \/ NoPolls(r)
  PROVE  OnceIn(q \o r)
<1> SUFFICES ASSUME NEW i \in 1 .. Len(q \o r), NEW j \in 1 .. Len(q \o r),
                    (q \o r)[i].polled, (q \o r)[j].polled, (q \o r)[i].key = (q \o r)[j].key
             PROVE  i = j
  BY DEF OnceIn
<1>1. CASE NoPolls(q)
  <2>1. /\ i - Len(q) \in 1 .. Len(r) /\ (q \o r)[i] = r[i - Len(q)]
        /\ j - Len(q) \in 1 .. Len(r) /\ (q \o r)[j] = r[j - Len(q)]
    BY <1>1, InConcat DEF NoPolls
  <2>2. i - Len(q) = j - Len(q)
    BY <2>1 DEF OnceIn
  <2>3. i \in Int /\ j \in Int /\ Len(q) \in Int
    BY LenProperties
  <2> QED  BY <2>2, <2>3
<1>2. CASE NoPolls(r)
  <2>1. /\ i \in 1 .. Len(q) /\ (q \o r)[i] = q[i]
        /\ j \in 1 .. Len(q) /\ (q \o r)[j] = q[j]
    BY <1>2, InConcat DEF NoPolls
  <2> QED  BY <2>1 DEF OnceIn
<1> QED  BY <1>1, <1>2

LEMMA OnceStep == PollTypeOK /\ Once /\ PollStep => Once'
<1> SUFFICES ASSUME PollTypeOK, Once, PollStep PROVE Once'  OBVIOUS
<1>1. ASSUME UNCHANGED <<cmd_list_, commands_, step>> PROVE Once'
  BY <1>1 DEF Once
<1>2. CASE BeginService
  BY <1>2 DEF BeginService, Once
<1>3. CASE WriteCommand
  BY <1>3, OnceTail DEF WriteCommand, Once, PollTypeOK
<1>4. CASE SendDone
  BY <1>4 DEF SendDone, Once, NoPolls
<1>5. CASE service_poll
  <2>1. PICK s \in SetToSeqs(DuePolls), c \in Seq(Command) :
          /\ s \in Seq(Keys) /\ \A i, j \in 1 .. Len(s) : s[i] = s[j] => i = j
          /\ Len(c) = Len(s) /\ c = [i \in 1 .. Len(s) |-> Clone(s[i])]
          /\ commands_' = commands_ \o c
    BY <1>5, Clones
  <2>2. \A i \in 1 .. Len(s) : c[i].key = s[i]
    BY <2>1 DEF Clone
  <2>3. OnceIn(c)
    BY <2>1, <2>2 DEF OnceIn
  <2>4. commands_ = <<>> /\ NoPolls(cmd_list_)
    BY <1>5 DEF service_poll, Once
  <2>5. commands_' = c
    BY <2>1, <2>4, ConcatEmptySeq
  <2> QED  BY <1>5, <2>3, <2>4, <2>5 DEF service_poll, Once
<1>6. CASE TransferPolls
  <2>1. NoPolls(cmd_list_) \/ NoPolls(commands_)
    BY DEF Once, NoPolls
  <2>2. OnceIn(cmd_list_ \o commands_)
    BY <2>1, OnceConcat DEF Once, PollTypeOK
  <2> QED  BY <1>6, <2>2 DEF TransferPolls, Once, OnceIn
<1>7. ASSUME NEW k \in Keys, NEW v \in Nat, add_command(k, v) PROVE Once'
  <2> DEFINE c == [key |-> k, polled |-> FALSE, value |-> v]
  <2>1. c \in Command /\ ~ c.polled
    BY DEF Command
  <2>2. cmd_list_' = Append(cmd_list_, c) /\ UNCHANGED <<commands_, step>>
    BY <1>7 DEF add_command
  <2> HIDE DEF c
  <2> QED  BY <2>1, <2>2, OnceAppend DEF Once, PollTypeOK
<1>8. CASE clear_commands
  BY <1>8 DEF clear_commands, Once, OnceIn, NoPolls
<1> QED
  BY <1>1, <1>2, <1>3, <1>4, <1>5, <1>6, <1>7, <1>8
  DEF PollStep, Service, Tick, ClockStepsBack, SetActive, set_poll_enabled, add_poll_command,
      set_poll_enable, remove_poll_command, delete_command

\* What Once says of the two queues together.
LEMMA OnceMeans == PollTypeOK /\ Once => PollsDoNotPile
<1> SUFFICES ASSUME PollTypeOK, Once, NEW k \in Keys
             PROVE  Cardinality({i \in DOMAIN Pending : Pending[i].polled /\ Pending[i].key = k}) <= 1
  BY DEF PollsDoNotPile
<1> DEFINE W == {i \in DOMAIN Pending : Pending[i].polled /\ Pending[i].key = k}
<1>1. commands_ \in Seq(Command) /\ cmd_list_ \in Seq(Command)
  BY DEF PollTypeOK
<1>2. NoPolls(commands_) \/ NoPolls(cmd_list_)
  BY DEF Once, NoPolls
<1>3. OnceIn(Pending)
  BY <1>1, <1>2, OnceConcat DEF Once, Pending
<1>4. Pending \in Seq(Command)
  BY <1>1 DEF Pending
<1>5. \A i, j \in W : i = j
  BY <1>3, <1>4, LenProperties DEF OnceIn
<1>6. CASE W = {}
  BY <1>6, FS_EmptySet
<1>7. ASSUME NEW i \in W PROVE Cardinality(W) <= 1
  <2>1. W = {i}
    BY <1>5
  <2>2. Cardinality({i}) = 1
    BY FS_Singleton
  <2> HIDE DEF W
  <2> QED  BY <2>1, <2>2
<1> QED  BY <1>6, <1>7

-----------------------------------------------------------------------------
(***************************************************************************)
(* The groups.                                                             *)
(***************************************************************************)

\* A group, or the application, that goes on.
GroupCall == \E g \in Groups : GroupCalls(g)

\* What a call that goes through keys begins with.
LEMMA Begins ==
  ASSUME TypeOK, NEW g \in Groups, NEW op, NEW main, NEW todo, NEW period, NEW b, NEW value,
         op \in {"command", "poll", "enable", "remove", "destroy"},
         main \in {MainKey(k) : k \in Kinds \cup Commanded} \cup {NoKey},
         op = "poll" => main \in Mains,
         todo \in Seq(Keys), period \in 0 .. MaxPeriod, b \in BOOLEAN, value \in Nat,
         Begin(op, g, main, todo, period, b, value)
  PROVE  /\ TypeOK' /\ UNCHANGED <<pollVars, groups, asked>>
         /\ app'.op = op /\ app'.group = g /\ app'.main = main /\ app'.todo = todo
<1>1. /\ UNCHANGED <<pollVars, groups, asked>> /\ calls' \in 0 .. MaxCalls
      /\ app' = [op |-> op, group |-> g, main |-> main, todo |-> todo,
                 period |-> period, enabled |-> b, value |-> value]
  BY Constants DEF Begin, Called, Counted, TypeOK
<1>2. PollTypeOK'
  BY <1>1 DEF TypeOK, PollTypeOK, pollVars
<1> QED  BY <1>1, <1>2 DEF TypeOK

\* The keys of the modules of a group.
LEMMA KeysForTyped ==
  ASSUME TypeOK, NEW g \in Groups, NEW kind \in Kinds \cup Commanded
  PROVE  KeysFor(g, kind) \in Seq(Keys)
<1>1. groups[g].modules \in Seq(Modules)
  BY DEF TypeOK
<1> DEFINE ms == groups[g].modules
<1>2. Len(ms) \in Nat /\ DOMAIN ms = 1 .. Len(ms) /\ \A n \in 1 .. Len(ms) : ms[n] \in Modules
  BY <1>1
<1>3. KeysFor(g, kind) \in [1 .. Len(ms) -> Keys]
  BY <1>2, Constants DEF KeysFor
<1> QED  BY <1>2, <1>3

\* The keys of a group are keys, and finitely many.
LEMMA HeldTyped ==
  ASSUME TypeOK, NEW g \in Groups, NEW main
  PROVE  /\ HeldUnder(g, main) \subseteq Keys /\ Held(g) \subseteq Keys
         /\ IsFiniteSet(HeldUnder(g, main)) /\ IsFiniteSet(Held(g))
         /\ \A e \in groups[g].poll_keys : e[1] \in Mains /\ e[2] \in Keys /\ e = <<e[1], e[2]>>
<1>1. \A e \in groups[g].poll_keys : e[1] \in Mains /\ e[2] \in Keys /\ e = <<e[1], e[2]>>
  BY DEF TypeOK
<1>2. HeldUnder(g, main) \subseteq Keys /\ Held(g) \subseteq Keys
  BY <1>1 DEF HeldUnder, Held
<1> QED  BY <1>1, <1>2, Constants

\* The calls that only begin: they keep the types and the polls, and one that
\* is going to stop polls has all of them before it.
LEMMA GroupBegins ==
  ASSUME TypeOK, NEW g \in Groups, GroupCalls(g),
         ~ \E ms \in Lists : MakeGroup(g, ms)
  PROVE  TypeOK' /\ StillToStop' /\ UNCHANGED <<pollVars, groups, asked>>
<1>1. ASSUME NEW kind \in Commanded, group_command(g, kind)
      PROVE  TypeOK' /\ StillToStop' /\ UNCHANGED <<pollVars, groups, asked>>
  <2>1. NewValue(kind) \in Nat
    BY DEF NewValue, NoValue, TypeOK
  <2>2. 0 \in 0 .. MaxPeriod
    BY Constants
  <2>3. TypeOK' /\ UNCHANGED <<pollVars, groups, asked>> /\ app'.op = "command"
    <3>1. PICK b \in BOOLEAN :
            Begin("command", g, MainKey(kind), KeysFor(g, kind), 0, b, NewValue(kind))
      BY <1>1 DEF group_command
    <3>2. MainKey(kind) \in {MainKey(k) : k \in Kinds \cup Commanded} \cup {NoKey}
      OBVIOUS
    <3>3. KeysFor(g, kind) \in Seq(Keys)
      BY KeysForTyped
    <3> QED  BY <2>1, <2>2, <3>1, <3>2, <3>3, Begins
  <2> QED  BY <2>3 DEF StillToStop
<1>2. ASSUME NEW kind \in Kinds, NEW p \in Periods, NEW b \in BOOLEAN, group_poll(g, kind, p, b)
      PROVE  TypeOK' /\ StillToStop' /\ UNCHANGED <<pollVars, groups, asked>>
  <2>1. p \in 0 .. MaxPeriod /\ NoValue \in Nat
    BY Constants DEF NoValue
  <2>2. TypeOK' /\ UNCHANGED <<pollVars, groups, asked>> /\ app'.op = "poll"
    BY <1>2, <2>1, Begins, KeysForTyped DEF group_poll, Mains
  <2> QED  BY <2>2 DEF StillToStop
<1>3. ASSUME NEW main \in Returned(g), NEW b \in BOOLEAN, group_poll_set_enabled(g, main, b)
      PROVE  TypeOK' /\ StillToStop' /\ UNCHANGED <<pollVars, groups, asked>>
  <2>1. PICK s \in SetToSeqs(HeldUnder(g, main)) : Begin("enable", g, main, s, 0, b, NoValue)
    BY <1>3 DEF group_poll_set_enabled
  <2>2. s \in Seq(Keys) /\ main \in Mains
    <3>1. s \in Seq(HeldUnder(g, main))
      BY HeldTyped, Sequenced
    <3> QED  BY <3>1, HeldTyped, LargerSet DEF Returned
  <2>3. 0 \in 0 .. MaxPeriod /\ NoValue \in Nat
    BY Constants DEF NoValue
  <2>4. TypeOK' /\ UNCHANGED <<pollVars, groups, asked>> /\ app'.op = "enable"
    BY <2>1, <2>2, <2>3, Begins DEF Mains
  <2> QED  BY <2>4 DEF StillToStop
<1>4. ASSUME NEW main \in Returned(g), group_poll_remove(g, main)
      PROVE  TypeOK' /\ StillToStop' /\ UNCHANGED <<pollVars, groups, asked>>
  <2>1. PICK s \in SetToSeqs(HeldUnder(g, main)) : Begin("remove", g, main, s, 0, FALSE, NoValue)
    BY <1>4 DEF group_poll_remove
  <2>2. s \in Seq(HeldUnder(g, main)) /\ \A x \in HeldUnder(g, main) : \E i \in 1 .. Len(s) : s[i] = x
    BY HeldTyped, Sequenced
  <2>3. s \in Seq(Keys) /\ main \in Mains
    BY <2>2, HeldTyped, LargerSet DEF Returned
  <2>4. 0 \in 0 .. MaxPeriod /\ NoValue \in Nat
    BY Constants DEF NoValue
  <2>5. /\ TypeOK' /\ UNCHANGED <<pollVars, groups, asked>>
        /\ app'.op = "remove" /\ app'.group = g /\ app'.main = main /\ app'.todo = s
    <3>1. main \in {MainKey(k) : k \in Kinds \cup Commanded} \cup {NoKey}
      BY <2>3 DEF Mains
    <3>2. PICK b \in BOOLEAN : Begin("remove", g, main, s, 0, b, NoValue)
      BY <2>1
    <3> QED  BY <2>3, <2>4, <3>1, <3>2, Begins
  <2>6. \A e \in groups[g].poll_keys : e[1] = main => e[2] \in HeldUnder(g, main)
    BY HeldTyped DEF HeldUnder
  <2>7. StillToStop'
    BY <2>2, <2>5, <2>6 DEF StillToStop, Stopping
  <2> QED  BY <2>5, <2>7
<1>5. ASSUME DestroyGroup(g)
      PROVE  TypeOK' /\ StillToStop' /\ UNCHANGED <<pollVars, groups, asked>>
  <2>1. PICK s \in SetToSeqs(Held(g)) : Begin("destroy", g, NoKey, s, 0, FALSE, NoValue)
    BY <1>5 DEF DestroyGroup
  <2>2. s \in Seq(Held(g)) /\ \A x \in Held(g) : \E i \in 1 .. Len(s) : s[i] = x
    BY HeldTyped, Sequenced
  <2>3. s \in Seq(Keys)
    BY <2>2, HeldTyped, LargerSet
  <2>4. 0 \in 0 .. MaxPeriod /\ NoValue \in Nat
    BY Constants DEF NoValue
  <2>5. /\ TypeOK' /\ UNCHANGED <<pollVars, groups, asked>>
        /\ app'.op = "destroy" /\ app'.group = g /\ app'.todo = s
    <3>1. NoKey \in {MainKey(k) : k \in Kinds \cup Commanded} \cup {NoKey}
      OBVIOUS
    <3>2. PICK b \in BOOLEAN : Begin("destroy", g, NoKey, s, 0, b, NoValue)
      BY <2>1
    <3> QED  BY <2>3, <2>4, <3>1, <3>2, Begins
  <2>6. StillToStop'
    BY <2>2, <2>5 DEF StillToStop, Stopping, Held
  <2> QED  BY <2>5, <2>6
<1> QED  BY <1>1, <1>2, <1>3, <1>4, <1>5 DEF GroupCalls

\* A step that leaves the groups and the application where they are, and adds
\* no poll.
LEMMA Frame ==
  ASSUME TypeOK, OrphanInv, PollStep, UNCHANGED <<groups, app, asked>>, calls' \in 0 .. MaxCalls,
         DOMAIN poll_map_' \subseteq DOMAIN poll_map_
  PROVE  TypeOK' /\ OrphanInv'
<1>1. TypeOK'
  BY PollTyped DEF TypeOK
<1>2. NoOrphanPoll'
  BY DEF OrphanInv, NoOrphanPoll, Held
<1>3. StillToStop'
  BY DEF OrphanInv, StillToStop, Stopping
<1> QED  BY <1>1, <1>2, <1>3 DEF OrphanInv

\* The polls of a call that works through its keys.
LEMMA AppStepInv ==
  ASSUME TypeOK, OrphanInv, AppStep
  PROVE  TypeOK' /\ OrphanInv' /\ PollStep
<1> DEFINE k == Head(app.todo)
<1>1. /\ k \in Keys /\ app.todo \in Seq(Keys) /\ app.todo # <<>> /\ Tail(app.todo) \in Seq(Keys)
      /\ app.period \in 0 .. MaxPeriod /\ app.value \in Nat /\ app.enabled \in BOOLEAN
  BY DEF AppStep, TypeOK
<1>2. /\ app' = [app EXCEPT !.todo = Tail(@)] /\ UNCHANGED <<asked, calls>>
  BY DEF AppStep
<1>3. /\ app'.op = app.op /\ app'.group = app.group /\ app'.main = app.main
      /\ app'.todo = Tail(app.todo)
      /\ app' \in [op : {"idle", "command", "poll", "enable", "remove", "destroy"},
                   group : Groups \cup {"none"},
                   main : {MainKey(kind) : kind \in Kinds \cup Commanded} \cup {NoKey},
                   todo : Seq(Keys), period : 0 .. MaxPeriod, enabled : BOOLEAN, value : Nat]
  BY <1>1, <1>2 DEF TypeOK
<1>4. CASE app.op = "poll"
  <2>1. add_poll_command(k, app.period, app.enabled)
    BY <1>4 DEF AppStep
  <2>2. PollStep
    BY <1>1, <2>1 DEF PollStep
  <2>3. app.group \in Groups /\ app.main \in Mains
    BY <1>4 DEF TypeOK
  <2> DEFINE e == <<app.main, k>>
  <2>4. groups' = [groups EXCEPT ![app.group].poll_keys = @ \cup {e}] /\ e \in Mains \X Keys
    BY <1>1, <1>4, <2>3 DEF AppStep, Remembered
  <2> HIDE DEF e
  <2>5. groups' \in [Groups -> [modules : Seq(Modules), poll_keys : SUBSET (Mains \X Keys)]]
    <3> DEFINE r == [groups[app.group] EXCEPT !.poll_keys = @ \cup {e}]
    <3>1. groups[app.group] \in [modules : Seq(Modules), poll_keys : SUBSET (Mains \X Keys)]
      BY <2>3 DEF TypeOK
    <3>2. r \in [modules : Seq(Modules), poll_keys : SUBSET (Mains \X Keys)]
      BY <3>1, <2>4
    <3>3. groups' = [groups EXCEPT ![app.group] = r]
      BY <2>4
    <3> HIDE DEF r
    <3> QED  BY <2>3, <3>2, <3>3 DEF TypeOK
  <2>6. TypeOK'
    BY <1>2, <1>3, <1>4, <2>2, <2>3, <2>5, PollTyped DEF TypeOK
  <2>7. /\ \A g \in Groups : Held(g) \subseteq Held(g)'
        /\ k \in Held(app.group)'
    <3>1. \A g \in Groups : groups[g].poll_keys \subseteq groups'[g].poll_keys
      BY <2>3, <2>4 DEF TypeOK
    <3>2. e \in groups'[app.group].poll_keys /\ e[2] = k
      BY <2>3, <2>4 DEF TypeOK, e
    <3>3. k \in Held(app.group)'
      <4>1. k \in {x[2] : x \in groups'[app.group].poll_keys}
        BY <3>2
      <4>2. app'.group = app.group
        BY <1>3
      <4> QED  BY <4>1, <4>2 DEF Held
    <3>4. ASSUME NEW g \in Groups, NEW x \in Held(g) PROVE x \in Held(g)'
      <4>1. PICK y \in groups[g].poll_keys : x = y[2]
        BY <3>4 DEF Held
      <4>2. y \in groups'[g].poll_keys
        BY <3>1
      <4> QED  BY <4>1, <4>2 DEF Held
    <3> QED  BY <3>3, <3>4
  <2>8. DOMAIN poll_map_' = DOMAIN poll_map_ \cup {k}
    BY <2>1 DEF add_poll_command
  <2>9. NoOrphanPoll'
    BY <1>2, <2>3, <2>7, <2>8 DEF OrphanInv, NoOrphanPoll
  <2>10. StillToStop'
    BY <1>3, <1>4 DEF StillToStop
  <2> QED  BY <2>2, <2>6, <2>9, <2>10 DEF OrphanInv
<1>5. CASE app.op # "poll"
  <2>1. UNCHANGED groups
    BY <1>5 DEF AppStep
  <2>2. \/ /\ add_command(k, app.value) \/ set_poll_enable(k, app.enabled)
           /\ app.op \in {"command", "enable"}
        \/ remove_poll_command(k)
    BY <1>5 DEF AppStep
  <2>3. PollStep
    BY <1>1, <2>2 DEF PollStep
  <2>4. TypeOK'
    BY <1>2, <1>3, <1>5, <2>1, <2>3, PollTyped DEF TypeOK
  <2>5. DOMAIN poll_map_' \subseteq DOMAIN poll_map_
    BY <2>2 DEF add_command, set_poll_enable, remove_poll_command
  <2>6. NoOrphanPoll'
    BY <1>2, <2>1, <2>5 DEF OrphanInv, NoOrphanPoll, Held
  <2>7. StillToStop'
    <3> SUFFICES ASSUME app'.op \in {"remove", "destroy"}, NEW e \in groups[app.group].poll_keys,
                        Stopping(e), e[2] \in DOMAIN poll_map_'
                 PROVE  \E i \in 1 .. Len(app'.todo) : app'.todo[i] = e[2]
      BY <1>3, <2>1 DEF StillToStop, Stopping
    <3>1. remove_poll_command(k)
      BY <1>3, <2>2
    <3>2. e[2] # k
      BY <3>1 DEF remove_poll_command
    <3>3. PICK i \in 1 .. Len(app.todo) : app.todo[i] = e[2]
      BY <1>3, <2>5 DEF OrphanInv, StillToStop
    <3>4. i # 1
      BY <1>1, <3>2, <3>3
    <3>5. /\ Len(app.todo) \in Nat /\ Len(Tail(app.todo)) = Len(app.todo) - 1
          /\ \A j \in 1 .. Len(Tail(app.todo)) : Tail(app.todo)[j] = app.todo[j + 1]
      BY <1>1, HeadTailProperties
    <3>6. i - 1 \in 1 .. Len(Tail(app.todo)) /\ Tail(app.todo)[i - 1] = app.todo[i]
      BY <3>4, <3>5
    <3> QED  BY <1>3, <3>3, <3>6
  <2> QED  BY <2>3, <2>4, <2>6, <2>7 DEF OrphanInv
<1> QED  BY <1>4, <1>5

\* What a group forgets is no poll any more.
LEMMA AppReturnInv ==
  ASSUME TypeOK, OrphanInv, AppReturn
  PROVE  TypeOK' /\ OrphanInv' /\ PollStep
<1>1. /\ app.op # "idle" /\ app.todo = <<>> /\ groups' = GroupsAfter(app)
      /\ delete_command(app.value) /\ app' = Idle /\ UNCHANGED <<asked, calls>>
  BY DEF AppReturn
<1>2. app.group \in Groups /\ app.value \in Nat
  BY <1>1 DEF TypeOK
<1>3. PollStep /\ UNCHANGED poll_map_
  BY <1>1, <1>2 DEF PollStep, delete_command
<1>4. groups' \in [Groups -> [modules : Seq(Modules), poll_keys : SUBSET (Mains \X Keys)]]
  <2>1. NoGroup \in [modules : Seq(Modules), poll_keys : SUBSET (Mains \X Keys)]
    BY DEF NoGroup
  <2> QED  BY <1>1, <1>2, <2>1 DEF GroupsAfter, TypeOK
<1>5. Idle \in [op : {"idle", "command", "poll", "enable", "remove", "destroy"},
                group : Groups \cup {"none"},
                main : {MainKey(k) : k \in Kinds \cup Commanded} \cup {NoKey},
                todo : Seq(Keys), period : 0 .. MaxPeriod, enabled : BOOLEAN, value : Nat]
      /\ Idle.op = "idle"
  BY Constants DEF Idle, NoValue
<1>6. TypeOK'
  BY <1>1, <1>3, <1>4, <1>5, PollTyped DEF TypeOK
<1>7. ASSUME NEW g \in Groups, NEW e \in groups[g].poll_keys, e[2] \in DOMAIN poll_map_
      PROVE  e \in groups'[g].poll_keys
  <2>1. ~ (g = app.group /\ app.op \in {"remove", "destroy"} /\ Stopping(e))
    <3>1. ~ \E i \in 1 .. Len(app.todo) : app.todo[i] = e[2]
      BY <1>1
    <3> QED  BY <1>7, <3>1 DEF OrphanInv, StillToStop
  <2>2. CASE app.op = "remove"
    <3>1. groups' = [groups EXCEPT ![app.group].poll_keys = {x \in @ : x[1] # app.main}]
      BY <1>1, <2>2 DEF GroupsAfter
    <3>2. CASE g = app.group
      <4>1. e[1] # app.main
        BY <2>1, <2>2, <3>2 DEF Stopping
      <4>2. groups'[g].poll_keys = {x \in groups[g].poll_keys : x[1] # app.main}
        BY <3>1, <3>2 DEF TypeOK
      <4> QED  BY <4>1, <4>2
    <3>3. CASE g # app.group
      BY <3>1, <3>3 DEF TypeOK
    <3> QED  BY <3>2, <3>3
  <2>3. CASE app.op = "destroy"
    <3>1. g # app.group
      BY <2>1, <2>3 DEF Stopping
    <3> QED  BY <1>1, <2>3, <3>1 DEF GroupsAfter, TypeOK
  <2>4. CASE app.op \notin {"remove", "destroy"}
    BY <1>1, <2>4 DEF GroupsAfter
  <2> QED  BY <2>2, <2>3, <2>4
<1>8. NoOrphanPoll'
  <2> SUFFICES ASSUME NEW k \in DOMAIN poll_map_, k \notin SetupPolls \cup asked
               PROVE  \E g \in Groups : k \in Held(g)'
    BY <1>1, <1>3 DEF NoOrphanPoll
  <2>1. PICK g \in Groups : k \in Held(g)
    BY DEF OrphanInv, NoOrphanPoll
  <2>2. PICK e \in groups[g].poll_keys : e[2] = k
    BY <2>1 DEF Held
  <2>3. e \in groups'[g].poll_keys
    BY <1>7, <2>2
  <2> QED  BY <2>2, <2>3 DEF Held
<1>9. StillToStop'
  BY <1>1, <1>5 DEF StillToStop
<1> QED  BY <1>3, <1>6, <1>8, <1>9 DEF OrphanInv

LEMMA Step == TypeOK /\ OrphanInv /\ [Next]_vars =>
                TypeOK' /\ OrphanInv' /\ (PollStep \/ UNCHANGED pollVars)
<1> SUFFICES ASSUME TypeOK, OrphanInv, [Next]_vars
             PROVE  TypeOK' /\ OrphanInv' /\ (PollStep \/ UNCHANGED pollVars)
  OBVIOUS
<1>1. CASE UNCHANGED vars
  BY <1>1 DEF vars, pollVars, groupVars, TypeOK, PollTypeOK, OrphanInv, NoOrphanPoll, Held,
              StillToStop, Stopping
<1>2. calls \in 0 .. MaxCalls /\ (Counted => calls' \in 0 .. MaxCalls)
  BY Constants DEF TypeOK, Counted
<1>3. CASE ServiceStep \/ TimePasses
  <2>1. PollStep /\ UNCHANGED groupVars
    BY <1>3 DEF ServiceStep, TimePasses, PollStep
  <2>2. DOMAIN poll_map_' \subseteq DOMAIN poll_map_
    BY <1>3 DEF ServiceStep, TimePasses, Service, BeginService, WriteCommand, SendDone, service_poll,
                TransferPolls, Tick
  <2> QED  BY <1>2, <2>1, <2>2, Frame DEF groupVars
<1>4. CASE BootloaderMoves \/ ClockIsSet
  <2>1. PollStep /\ UNCHANGED <<groups, app, asked>> /\ calls' \in 0 .. MaxCalls
    BY <1>2, <1>4 DEF BootloaderMoves, ClockIsSet, PollStep, groupVars
  <2>2. DOMAIN poll_map_' \subseteq DOMAIN poll_map_
    BY <1>4 DEF BootloaderMoves, ClockIsSet, SetActive, ClockStepsBack
  <2> QED  BY <2>1, <2>2, Frame
<1>5. ASSUME NEW g \in Groups, GroupCalls(g)
      PROVE  TypeOK' /\ OrphanInv' /\ (PollStep \/ UNCHANGED pollVars)
  <2>1. ASSUME NEW ms \in Lists, MakeGroup(g, ms)
        PROVE  TypeOK' /\ OrphanInv' /\ UNCHANGED pollVars
    <3>1. /\ groups' = [groups EXCEPT ![g].modules = ms] /\ calls' \in 0 .. MaxCalls
          /\ app.op = "idle" /\ UNCHANGED <<pollVars, app, asked>>
      BY <1>2, <2>1 DEF MakeGroup, Called
    <3>2. groups' \in [Groups -> [modules : Seq(Modules), poll_keys : SUBSET (Mains \X Keys)]]
          /\ \A h \in Groups : groups'[h].poll_keys = groups[h].poll_keys
      BY <3>1, Constants DEF TypeOK
    <3>3. PollTypeOK' /\ UNCHANGED poll_map_
      BY <3>1 DEF TypeOK, PollTypeOK, pollVars
    <3>4. TypeOK'
      BY <3>1, <3>2, <3>3 DEF TypeOK
    <3>5. NoOrphanPoll'
      BY <3>1, <3>2, <3>3 DEF OrphanInv, NoOrphanPoll, Held
    <3>6. StillToStop'
      BY <3>1 DEF StillToStop
    <3> QED  BY <3>1, <3>4, <3>5, <3>6 DEF OrphanInv
  <2>2. ASSUME ~ \E ms \in Lists : MakeGroup(g, ms)
        PROVE  TypeOK' /\ OrphanInv' /\ UNCHANGED pollVars
    <3>1. TypeOK' /\ StillToStop' /\ UNCHANGED <<pollVars, groups, asked>>
      BY <1>5, <2>2, GroupBegins
    <3>2. NoOrphanPoll'
      BY <3>1 DEF OrphanInv, NoOrphanPoll, Held, pollVars
    <3> QED  BY <3>1, <3>2 DEF OrphanInv
  <2> QED  BY <2>1, <2>2
<1>6. ASSUME NEW kind \in Kinds, NEW m \in Modules, NEW p \in Periods, PollAlone(Key(kind, m), p)
      PROVE  TypeOK' /\ OrphanInv' /\ PollStep
  <2> DEFINE k == Key(kind, m)
  <2>1. k \in Keys /\ p \in 0 .. MaxPeriod
    BY Constants
  <2> HIDE DEF k
  <2>2. /\ add_poll_command(k, p, TRUE) /\ asked' = asked \cup {k} /\ UNCHANGED <<groups, app>>
        /\ app.op = "idle" /\ calls' \in 0 .. MaxCalls
    BY <1>2, <1>6 DEF PollAlone, Alone, k
  <2>3. \E b \in BOOLEAN : add_poll_command(k, p, b)
    BY <2>2
  <2>4. PollStep
    BY <2>1, <2>3 DEF PollStep
  <2>5. TypeOK'
    BY <2>1, <2>2, <2>4, PollTyped DEF TypeOK
  <2>6. NoOrphanPoll'
    BY <2>2 DEF OrphanInv, NoOrphanPoll, Held, add_poll_command
  <2>7. StillToStop'
    BY <2>2 DEF StillToStop
  <2> QED  BY <2>4, <2>5, <2>6, <2>7 DEF OrphanInv
<1>7. ASSUME NEW k \in Keys, StopAlone(k) PROVE TypeOK' /\ OrphanInv' /\ PollStep
  <2>1. /\ remove_poll_command(k) /\ asked' = asked \ {k} /\ UNCHANGED <<groups, app>>
        /\ app.op = "idle" /\ calls' \in 0 .. MaxCalls
    BY <1>2, <1>7 DEF StopAlone, Alone
  <2>2. PollStep
    BY <2>1 DEF PollStep
  <2>3. TypeOK'
    BY <2>1, <2>2, PollTyped DEF TypeOK
  <2>4. NoOrphanPoll'
    BY <2>1 DEF OrphanInv, NoOrphanPoll, Held, remove_poll_command
  <2>5. StillToStop'
    BY <2>1 DEF StillToStop
  <2> QED  BY <2>2, <2>3, <2>4, <2>5 DEF OrphanInv
<1>8. ASSUME NEW k \in Keys, NEW b \in BOOLEAN, EnableAlone(k, b)
      PROVE  TypeOK' /\ OrphanInv' /\ PollStep
  <2>1. set_poll_enable(k, b) /\ UNCHANGED <<groups, app, asked>> /\ calls' \in 0 .. MaxCalls
    BY <1>2, <1>8 DEF EnableAlone, Alone
  <2>2. PollStep /\ DOMAIN poll_map_' \subseteq DOMAIN poll_map_
    BY <2>1 DEF PollStep, set_poll_enable
  <2> QED  BY <2>1, <2>2, Frame
<1>9. ASSUME NEW kind \in Kinds \cup Writes, NEW m \in Modules, SendAlone(kind, m)
      PROVE  TypeOK' /\ OrphanInv' /\ PollStep
  <2>1. add_command(Key(kind, m), NewValue(kind)) /\ UNCHANGED <<groups, app, asked>>
        /\ calls' \in 0 .. MaxCalls
    BY <1>2, <1>9 DEF SendAlone
  <2>2. Key(kind, m) \in Keys /\ NewValue(kind) \in Nat
    BY Constants DEF NewValue, NoValue, TypeOK
  <2>3. PollStep
    BY <2>1, <2>2 DEF PollStep
  <2>4. UNCHANGED poll_map_
    BY <2>1 DEF add_command
  <2> QED  BY <2>1, <2>3, <2>4, Frame
<1>10. CASE ClearCommands
  BY <1>2, <1>10, Frame DEF ClearCommands, Alone, clear_commands, PollStep
<1>11. CASE Switch
  <2>1. PollStep /\ UNCHANGED groupVars
    BY <1>11 DEF Switch, PollStep
  <2>2. UNCHANGED poll_map_
    BY <1>11 DEF Switch, set_poll_enabled
  <2> QED  BY <1>2, <2>1, <2>2, Frame DEF groupVars
<1> QED
  BY <1>1, <1>3, <1>4, <1>5, <1>6, <1>7, <1>8, <1>9, <1>10, <1>11, AppStepInv, AppReturnInv
  DEF Next, Course, SingleCalls

LEMMA Start == Init => IInv
<1> SUFFICES ASSUME Init PROVE IInv  OBVIOUS
<1>1. PollTypeOK
  <2>1. [period |-> MaxPeriod, elapsed |-> 0, enabled |-> TRUE] \in Poll
    BY Constants DEF Poll
  <2>2. DOMAIN poll_map_ = SetupPolls /\ \A k \in SetupPolls : poll_map_[k] \in Poll
    BY <2>1 DEF Init, PollInit
  <2>3. commands_ = <<>> /\ cmd_list_ = <<>> /\ step = "idle" /\ enabled = FALSE /\ active = FALSE
        /\ freed = {}
    BY DEF Init, PollInit
  <2>4. commands_ \in Seq(Command) /\ cmd_list_ \in Seq(Command)
    BY <2>3
  <2>5. enabled \in BOOLEAN /\ active \in BOOLEAN
    BY <2>3, Zenon
  <2>6. DOMAIN poll_map_ \subseteq Keys /\ \A k \in DOMAIN poll_map_ : poll_map_[k] \in Poll
    BY <2>2, Constants
  <2>7. step \in {"idle", "send", "poll", "transfer"} /\ freed \subseteq Nat
    BY <2>3
  <2> QED  BY <2>4, <2>5, <2>6, <2>7 DEF PollTypeOK
<1>2. /\ NoGroup \in [modules : Seq(Modules), poll_keys : SUBSET (Mains \X Keys)]
      /\ Idle \in [op : {"idle", "command", "poll", "enable", "remove", "destroy"},
                   group : Groups \cup {"none"},
                   main : {MainKey(k) : k \in Kinds \cup Commanded} \cup {NoKey},
                   todo : Seq(Keys), period : 0 .. MaxPeriod, enabled : BOOLEAN, value : Nat]
      /\ Idle.op = "idle"
  BY Constants DEF NoGroup, Idle, NoValue
<1>3. TypeOK
  BY <1>1, <1>2, Constants DEF Init, TypeOK
<1>4. Once
  BY DEF Init, PollInit, Once, OnceIn, NoPolls
<1>5. OrphanInv
  BY <1>2 DEF Init, PollInit, OrphanInv, NoOrphanPoll, StillToStop
<1> QED  BY <1>3, <1>4, <1>5 DEF IInv

LEMMA Invariance == Spec => []IInv
<1>1. IInv /\ [Next]_vars => IInv'
  <2> SUFFICES ASSUME IInv, [Next]_vars PROVE IInv'  OBVIOUS
  <2>1. TypeOK' /\ OrphanInv' /\ (PollStep \/ UNCHANGED pollVars)
    BY Step DEF IInv
  <2>2. Once'
    <3>1. CASE PollStep
      BY <3>1, OnceStep DEF IInv, TypeOK
    <3>2. CASE UNCHANGED pollVars
      BY <3>2 DEF IInv, Once, pollVars
    <3> QED  BY <2>1, <3>1, <3>2
  <2> QED  BY <2>1, <2>2 DEF IInv
<1> QED  BY <1>1, Start, PTL DEF Spec

\* The polls, the queue and the calls of the application keep their types.
THEOREM TypeCorrect == Spec => []TypeOK
<1> QED  BY Invariance, PTL DEF IInv

\* service_eigen_comms empties the queue before EigenPacketPoll::service_poll
\* fills it, so that a poll waits once, whatever else the application does.
THEOREM PollsOnce == Spec => []PollsDoNotPile
<1>1. IInv => PollsDoNotPile
  BY OnceMeans DEF IInv, TypeOK
<1> QED  BY <1>1, Invariance, PTL

\* EigenModuleGroup stops what it polled: any number of groups, that share
\* modules, commands and keys, leave no poll behind when they remove their
\* polls or are destroyed.
THEOREM NoOrphans == Spec => []NoOrphanPoll
<1>1. IInv => NoOrphanPoll
  BY DEF IInv, OrphanInv
<1> QED  BY <1>1, Invariance, PTL
-----------------------------------------------------------------------------
(***************************************************************************)
(* What a group shows: for any names, types, texts and number of modules,  *)
(* and whatever the texts mean.                                            *)
(***************************************************************************)
Values == Texts \cup {0} \cup {Hex[t] : t \in Texts} \cup {Dec[t] : t \in Texts}

VariableType == [name : Names, type : Types, value : Values]

\* What is shown are variables that modules have, of which there are finitely many.
VariableInv ==
  /\ held \in [1 .. MaxModules -> Seq(VariableType)]
  /\ shown.variable_map_ \subseteq References(MaxModules)

LEMMA RangeIsFinite ==
  ASSUME NEW n \in Nat, NEW f, DOMAIN f = 1 .. n, f = [i \in 1 .. n |-> f[i]]
  PROVE  IsFiniteSet({f[i] : i \in 1 .. n})
<1> DEFINE T == {f[i] : i \in 1 .. n}
<1>1. f \in Surjection(1 .. n, T)
  BY DEF Surjection
<1>2. IsFiniteSet(1 .. n)
  BY FS_Interval
<1> QED  BY <1>1, <1>2, FS_Surjection

LEMMA ReferencesAre ==
  ASSUME held \in [1 .. MaxModules -> Seq(VariableType)], NEW n \in 0 .. MaxModules
  PROVE  /\ IsFiniteSet(References(n))
         /\ References(n) \subseteq References(MaxModules)
         /\ \A ref \in References(n) :
              /\ ref[1] \in 1 .. MaxModules /\ ref[2] \in 1 .. Len(held[ref[1]])
              /\ ref = <<ref[1], ref[2]>>
<1> DEFINE Of(m) == {<<m, i>> : i \in DOMAIN held[m]}
<1>1. MaxModules \in Nat /\ n \in Nat /\ 1 .. n \subseteq 1 .. MaxModules
  BY VariableAssumption DEF VariableAssumption
<1>2. \A m \in 1 .. n : DOMAIN held[m] = 1 .. Len(held[m]) /\ Len(held[m]) \in Nat
  BY <1>1
<1>3. ASSUME NEW m \in 1 .. n
      PROVE  IsFiniteSet(Of(m))
  <2> DEFINE f == [i \in 1 .. Len(held[m]) |-> <<m, i>>]
  <2>1. DOMAIN f = 1 .. Len(held[m]) /\ f = [i \in 1 .. Len(held[m]) |-> f[i]]
        /\ {f[i] : i \in 1 .. Len(held[m])} = Of(m)
    BY <1>2
  <2> HIDE DEF f, Of
  <2> QED  BY <1>2, <2>1, RangeIsFinite
<1>4. IsFiniteSet({Of(m) : m \in 1 .. n})
  <2> DEFINE f == [m \in 1 .. n |-> Of(m)]
  <2>1. DOMAIN f = 1 .. n /\ f = [m \in 1 .. n |-> f[m]] /\ {f[m] : m \in 1 .. n} = {Of(m) : m \in 1 .. n}
    OBVIOUS
  <2> HIDE DEF f, Of
  <2> QED  BY <1>1, <2>1, RangeIsFinite
<1>5. IsFiniteSet(References(n))
  <2>1. \A T \in {Of(m) : m \in 1 .. n} : IsFiniteSet(T)
    BY <1>3
  <2> HIDE DEF Of
  <2>2. IsFiniteSet(UNION {Of(m) : m \in 1 .. n})
    BY <1>4, <2>1, FS_UNION
  <2> QED  BY <2>2 DEF References, Of
<1>6. References(n) \subseteq References(MaxModules)
  BY <1>1 DEF References
<1>7. \A ref \in References(n) :
        /\ ref[1] \in 1 .. MaxModules /\ ref[2] \in 1 .. Len(held[ref[1]])
        /\ ref = <<ref[1], ref[2]>>
  BY <1>1, <1>2 DEF References
<1> QED  BY <1>5, <1>6, <1>7

\* A value that replaces another leaves the references as they are.
LEMMA ValueChanges ==
  ASSUME VariableInv, NEW ref \in References(MaxModules), NEW v \in Values,
         held' = [held EXCEPT ![ref[1]][ref[2]].value = v],
         shown'.variable_map_ = shown.variable_map_
  PROVE  VariableInv'
<1> DEFINE s == held[ref[1]]
           t == [s EXCEPT ![ref[2]].value = v]
<1>1. MaxModules \in 0 .. MaxModules
  BY VariableAssumption DEF VariableAssumption
<1>2. ref[1] \in 1 .. MaxModules /\ ref[2] \in 1 .. Len(s) /\ held \in [1 .. MaxModules -> Seq(VariableType)]
  BY <1>1, ReferencesAre DEF VariableInv
<1>3. s \in Seq(VariableType)
  BY <1>2
<1>4. t \in Seq(VariableType) /\ DOMAIN t = DOMAIN s
  <2>1. s[ref[2]] \in VariableType
    BY <1>2, <1>3
  <2>2. [s[ref[2]] EXCEPT !.value = v] \in VariableType
    BY <2>1 DEF VariableType
  <2> QED  BY <1>2, <1>3, <2>2
<1>5. held' = [held EXCEPT ![ref[1]] = t]
  OBVIOUS
<1> HIDE DEF s, t
<1>6. held' \in [1 .. MaxModules -> Seq(VariableType)]
  BY <1>2, <1>4, <1>5
<1>7. \A m \in 1 .. MaxModules : DOMAIN held'[m] = DOMAIN held[m]
  BY <1>2, <1>4, <1>5 DEF s
<1>8. References(MaxModules)' = References(MaxModules)
  BY <1>7 DEF References
<1> QED  BY <1>6, <1>8 DEF VariableInv

LEMMA ParsedIsValue ==
  ASSUME NEW type \in Types, NEW t \in Texts, parse_value(type, t) # None
  PROVE  parse_value(type, t) \in Values
BY DEF parse_value, parse_integer, Values

LEMMA VariableInvariance == VariableSpec => []VariableInv
<1>1. VariableInit => VariableInv
  BY DEF VariableInit, VariableInv, NotShown
<1>2. VariableInv /\ [VariableNext]_variableVars => VariableInv'
  <2> SUFFICES ASSUME VariableInv, [VariableNext]_variableVars PROVE VariableInv'  OBVIOUS
  <2>1. MaxModules \in Nat /\ MaxModules \in 0 .. MaxModules
    BY VariableAssumption DEF VariableAssumption
  <2>2. ASSUME NEW m \in 1 .. MaxModules, NEW name \in Names, NEW type \in Types,
               ListEntry(m, name, type)
        PROVE  VariableInv'
    <3> DEFINE v == [name |-> name, type |-> type, value |-> Initial(type)]
    <3>1. v \in VariableType
      BY VariableAssumption DEF VariableType, Initial, Values, VariableAssumption
    <3>2. held' = [held EXCEPT ![m] = Append(@, v)] /\ shown' = shown /\ shown.variable_map_ = {}
      BY <2>2 DEF ListEntry, NotShown
    <3> HIDE DEF v
    <3>3. held' \in [1 .. MaxModules -> Seq(VariableType)]
      BY <3>1, <3>2 DEF VariableInv
    <3> QED  BY <3>2, <3>3 DEF VariableInv
  <2>3. ASSUME NEW ref \in References(MaxModules)
        PROVE  Variable(ref) \in VariableType
    BY <2>1, ReferencesAre DEF Variable, VariableInv
  <2>4. ASSUME NEW ref \in References(MaxModules), ListEntryAgain(ref)
        PROVE  VariableInv'
    <3>1. Initial(Variable(ref).type) \in Values
      BY VariableAssumption DEF Initial, Values, VariableAssumption
    <3>2. shown'.variable_map_ = shown.variable_map_
      BY <2>4 DEF ListEntryAgain
    <3> QED  BY <2>4, <3>1, <3>2, ValueChanges DEF ListEntryAgain
  <2>5. ASSUME NEW ref \in References(MaxModules), NEW t \in Texts, Answer(ref, t)
        PROVE  VariableInv'
    <3>1. Variable(ref).type \in Types
      BY <2>3 DEF VariableType
    <3>2. PICK v : v = parse_value(Variable(ref).type, t)
      OBVIOUS
    <3>3. v \in Values
      BY <2>5, <3>1, <3>2, ParsedIsValue DEF Answer
    <3>4. held' = [held EXCEPT ![ref[1]][ref[2]].value = v] /\ shown' = shown
      BY <2>5, <3>2 DEF Answer
    <3> QED  BY <3>3, <3>4, ValueChanges
  <2>6. ASSUME NEW n \in 1 .. MaxModules, Show(n)
        PROVE  VariableInv'
    <3>1. shown'.variable_map_ = References(n) /\ held' = held
      BY <2>6 DEF Show
    <3>2. n \in 0 .. MaxModules
      BY <2>1
    <3>3. References(n) \subseteq References(MaxModules)
      BY <3>2, ReferencesAre DEF VariableInv
    <3> QED  BY <3>1, <3>3 DEF VariableInv, References
  <2>7. CASE UNCHANGED variableVars
    BY <2>7 DEF variableVars, VariableInv, References
  <2> QED  BY <2>2, <2>4, <2>5, <2>6, <2>7 DEF VariableNext
<1> QED  BY <1>1, <1>2, PTL DEF VariableSpec

\* values_match of the variables under a name, in an order that a multimap may have.
LEMMA MatchOfOrder ==
  ASSUME NEW S, IsFiniteSet(S), NEW s \in SetToSeqs(S), NEW name,
         \A ref \in S : Variable(ref).name = name /\ Variable(ref).type # "uint32"
  PROVE  values_match([n \in DOMAIN s |-> Variable(s[n])]) <=>
           S # {} /\ \A a, b \in S : SameValue(Variable(a), Variable(b))
<1> DEFINE vs == [n \in DOMAIN s |-> Variable(s[n])]
<1>1. /\ s \in Seq(S) /\ Len(s) \in Nat
      /\ \A x \in S : \E i \in 1 .. Len(s) : s[i] = x
  BY Sequenced
<1>2. /\ DOMAIN s = 1 .. Len(s) /\ \A i \in 1 .. Len(s) : s[i] \in S
  BY <1>1
<1>3. vs \in Seq({Variable(ref) : ref \in S}) /\ Len(vs) = Len(s)
      /\ \A i \in 1 .. Len(s) : vs[i] = Variable(s[i])
  BY <1>1, <1>2
<1> HIDE DEF vs
<1>4. vs # <<>> <=> S # {}
  BY <1>1, <1>2, <1>3
<1>5. \A i, j \in 1 .. Len(s) :
        strong_match(vs[i], vs[j]) <=> SameValue(Variable(s[i]), Variable(s[j]))
  BY <1>2, <1>3 DEF strong_match, weak_match, SameValue
<1>6. ASSUME S # {}
      PROVE  (\A i \in 2 .. Len(s) : SameValue(Variable(s[1]), Variable(s[i])))
               <=> \A a, b \in S : SameValue(Variable(a), Variable(b))
  <2>1. 1 \in 1 .. Len(s) /\ \A i \in 1 .. Len(s) : i = 1 \/ i \in 2 .. Len(s)
    BY <1>1, <1>6
  <2>2. ASSUME \A i \in 2 .. Len(s) : SameValue(Variable(s[1]), Variable(s[i])),
               NEW a \in S, NEW b \in S
        PROVE  SameValue(Variable(a), Variable(b))
    <3>1. PICK i \in 1 .. Len(s), j \in 1 .. Len(s) : a = s[i] /\ b = s[j]
      BY <1>1
    <3>2. SameValue(Variable(s[1]), Variable(s[i])) /\ SameValue(Variable(s[1]), Variable(s[j]))
      BY <2>1, <2>2 DEF SameValue
    <3> QED  BY <3>1, <3>2 DEF SameValue
  <2>3. \A i \in 2 .. Len(s) : i \in 1 .. Len(s)
    BY <1>1
  <2> QED  BY <1>2, <2>1, <2>2, <2>3
<1>7. \A i \in 2 .. Len(s) : i \in 1 .. Len(s) /\ 1 \in 1 .. Len(s)
  BY <1>1
<1>8. values_match(vs) <=>
        S # {} /\ \A i \in 2 .. Len(s) : SameValue(Variable(s[1]), Variable(s[i]))
  BY <1>3, <1>4, <1>5, <1>7 DEF values_match
<1> QED  BY <1>6, <1>8 DEF vs

\* values_match finds out whether all modules of a group have the same value of
\* a type, although it compares each variable with the first only: for any
\* modules, any order of the multimap, and any texts that were parsed before.
THEOREM MatchesAreEqualities == VariableSpec => []MatchIsEquality
<1>1. VariableInv => MatchIsEquality
  <2> SUFFICES ASSUME VariableInv, NEW name \in Names,
                      \A ref \in Under(name) : Variable(ref).type # "uint32",
                      NEW vs \in Orders(name)
               PROVE  values_match(vs) <=> Under(name) # {} /\ Agree(name)
    BY DEF MatchIsEquality, Matches
  <2>1. IsFiniteSet(Under(name))
    <3>1. MaxModules \in 0 .. MaxModules
      BY VariableAssumption DEF VariableAssumption
    <3>2. IsFiniteSet(References(MaxModules))
      BY <3>1, ReferencesAre DEF VariableInv
    <3>3. Under(name) \subseteq References(MaxModules)
      BY DEF Under, VariableInv
    <3> QED  BY <3>2, <3>3, FS_Subset
  <2>2. \A ref \in Under(name) : Variable(ref).name = name
    BY DEF Under
  <2>3. PICK s \in SetToSeqs(Under(name)) : vs = [n \in DOMAIN s |-> Variable(s[n])]
    BY DEF Orders
  <2> QED  BY <2>1, <2>2, <2>3, MatchOfOrder DEF Agree
<1> QED  BY <1>1, VariableInvariance, PTL
-----------------------------------------------------------------------------
(***************************************************************************)
(* The names that a group lists.                                           *)
(***************************************************************************)
NamesDiffer ==
  \A m \in 1 .. MaxModules : \A i, j \in DOMAIN held[m] : held[m][i].name = held[m][j].name => i = j

\* The references to the variables of modules with their order.
Reference(ref) == ref[1] \in Nat /\ ref[2] \in Nat /\ ref = <<ref[1], ref[2]>>

\* The positions of the elements of a finite set are the numbers from 1 on.
LEMMA Positions ==
  ASSUME NEW L, IsFiniteSet(L), \A ref \in L : Reference(ref)
  PROVE  [ref \in L |-> Position(L, ref)] \in Bijection(L, 1 .. Cardinality(L))
<1> DEFINE c == Cardinality(L)
           Until(ref) == {r \in L : Upto(r, ref)}
           f == [ref \in L |-> Position(L, ref)]
<1>1. c \in Nat
  BY FS_CardinalityType
<1>2. \A ref \in L : Upto(ref, ref)
  BY DEF Upto, Reference
<1>3. ASSUME NEW ref \in L
      PROVE  Position(L, ref) \in 1 .. c
  <2>1. IsFiniteSet(Until(ref)) /\ Cardinality(Until(ref)) <= c
    BY FS_Subset
  <2>2. Until(ref) # {}
    BY <1>2
  <2>3. Cardinality(Until(ref)) \in Nat /\ Cardinality(Until(ref)) # 0
    BY <2>1, <2>2, FS_CardinalityType, FS_EmptySet
  <2> QED  BY <1>1, <2>1, <2>3 DEF Position
<1>4. ASSUME NEW a \in L, NEW b \in L, Upto(a, b), Position(L, a) = Position(L, b)
      PROVE  a = b
  <2>1. Until(a) \subseteq Until(b)
    BY <1>4 DEF Upto, Reference
  <2>2. IsFiniteSet(Until(b))
    BY FS_Subset
  <2>3. Cardinality(Until(a)) = Cardinality(Until(b))
    BY <1>4 DEF Position
  <2>4. Until(a) = Until(b)
    <3> HIDE DEF Until
    <3> QED  BY <2>1, <2>2, <2>3, FS_Subset
  <2>5. Upto(b, a)
    BY <1>2, <2>4
  <2> QED  BY <1>4, <2>5 DEF Upto, Reference
<1>5. \A a, b \in L : Upto(a, b) \/ Upto(b, a)
  BY DEF Upto, Reference
<1>6. f \in [L -> 1 .. c]
  BY <1>3
<1>7. f \in Injection(L, 1 .. c)
  <2>1. ASSUME NEW a \in L, NEW b \in L, f[a] = f[b]
        PROVE  a = b
    <3>1. Position(L, a) = Position(L, b)
      BY <2>1
    <3> QED  BY <1>4, <1>5, <3>1
  <2> QED  BY <1>6, <2>1 DEF Injection, IsInjective
<1>8. IsFiniteSet(1 .. c) /\ Cardinality(1 .. c) = c
  BY <1>1, FS_Interval
<1> HIDE DEF f
<1>9. f \in Surjection(L, 1 .. c)
  BY <1>7, <1>8, FS_Injection DEF c
<1> QED  BY <1>7, <1>9 DEF f, c, Bijection

\* The names of what is in L, each once.
ListsEach(keys, L) ==
  /\ ToSet(keys) = {Variable(ref).name : ref \in L}
  /\ Len(keys) = Cardinality(ToSet(keys))

NamesAtMostOnce(L) == \A a, b \in L : Variable(a).name = Variable(b).name => a = b

InTheOrder(keys, c, R) ==
  /\ DOMAIN keys = 1 .. c /\ keys = [k \in DOMAIN keys |-> keys[k]]
  /\ \A k \in 1 .. c : keys[k] = Variable(R[k]).name

\* Listing names that differ, in some order.
LEMMA InAnyOrder ==
  ASSUME NEW c \in Nat, NEW L, NEW R \in Bijection(1 .. c, L),
         NamesAtMostOnce(L), NEW keys, InTheOrder(keys, c, R)
  PROVE  ListsEach(keys, L)
<1>0. /\ DOMAIN keys = 1 .. c /\ keys = [k \in DOMAIN keys |-> keys[k]]
      /\ \A k \in 1 .. c : keys[k] = Variable(R[k]).name
  BY DEF InTheOrder
<1>1. /\ R \in [1 .. c -> L]
      /\ \A x \in L : \E k \in 1 .. c : R[k] = x
      /\ \A a, b \in 1 .. c : R[a] = R[b] => a = b
  BY DEF Bijection, Injection, Surjection, IsInjective
<1>2. ToSet(keys) = {Variable(ref).name : ref \in L}
  BY <1>0, <1>1 DEF ToSet
<1>3. keys \in [1 .. c -> ToSet(keys)]
  BY <1>0 DEF ToSet
<1>4. Len(keys) = c
  <2>1. keys \in Seq(ToSet(keys))
    BY <1>3
  <2> QED  BY <1>0, <2>1
<1>5. ASSUME NEW a \in 1 .. c, NEW b \in 1 .. c, keys[a] = keys[b]
      PROVE  a = b
  <2>1. R[a] \in L /\ R[b] \in L
    BY <1>1
  <2>2. R[a] = R[b]
    BY <1>0, <1>5, <2>1 DEF NamesAtMostOnce
  <2> QED  BY <1>1, <2>2
<1>6. keys \in Bijection(1 .. c, ToSet(keys))
  <2>1. \A x \in ToSet(keys) : \E k \in 1 .. c : keys[k] = x
    BY <1>0 DEF ToSet
  <2>2. IsInjective(keys)
    BY <1>0, <1>5 DEF IsInjective
  <2> QED  BY <1>3, <2>1, <2>2 DEF Bijection, Injection, Surjection
<1>7. Cardinality(ToSet(keys)) = c
  <2>1. IsFiniteSet(1 .. c) /\ Cardinality(1 .. c) = c
    BY FS_Interval
  <2>2. ExistsBijection(1 .. c, ToSet(keys))
    BY <1>6 DEF ExistsBijection
  <2> QED  BY <2>1, <2>2, FS_Bijection
<1> QED  BY <1>2, <1>4, <1>7 DEF ListsEach

\* Listing a finite set of references in their order.
LEMMA InOrder ==
  ASSUME NEW L, IsFiniteSet(L), \A ref \in L : Reference(ref),
         NamesAtMostOnce(L), NEW keys,
         keys = [k \in 1 .. Cardinality(L) |-> Variable(CHOOSE ref \in L : Position(L, ref) = k).name]
  PROVE  ListsEach(keys, L)
<1> DEFINE c == Cardinality(L)
           At(k) == CHOOSE ref \in L : Position(L, ref) = k
           R == [k \in 1 .. c |-> At(k)]
           f == [ref \in L |-> Position(L, ref)]
<1>1. c \in Nat
  BY FS_CardinalityType
<1>2. f \in Bijection(L, 1 .. c)
  BY Positions
<1>3. \A k \in 1 .. c : \E ref \in L : Position(L, ref) = k
  BY <1>2 DEF Bijection, Surjection
<1>4. \A ref \in L : Position(L, ref) \in 1 .. c
  BY <1>2 DEF Bijection, Surjection
<1>5. \A a, b \in L : Position(L, a) = Position(L, b) => a = b
  BY <1>2 DEF Bijection, Injection, IsInjective
<1>6. \A k \in 1 .. c : At(k) \in L /\ Position(L, At(k)) = k
  BY <1>3
<1> HIDE DEF c, At, f
<1>7. \A ref \in L : At(Position(L, ref)) = ref
  BY <1>4, <1>5, <1>6
<1>8. R \in Bijection(1 .. c, L)
  <2>1. R \in [1 .. c -> L]
    BY <1>6
  <2>2. \A x \in L : \E k \in 1 .. c : R[k] = x
    BY <1>4, <1>7
  <2>3. \A a, b \in 1 .. c : R[a] = R[b] => a = b
    BY <1>6
  <2> QED  BY <2>1, <2>2, <2>3 DEF Bijection, Injection, Surjection, IsInjective
<1>9. InTheOrder(keys, c, R)
  BY DEF c, At, InTheOrder
<1> HIDE DEF R
<1> QED  BY <1>1, <1>8, <1>9, InAnyOrder

\* What is under a name by then is from different modules: when there are as many
\* as modules, each has one.
LEMMA SeenOfEach ==
  ASSUME held \in [1 .. MaxModules -> Seq(VariableType)], NamesDiffer,
         NEW n \in 1 .. MaxModules, NEW ref \in References(n)
  PROVE  ref \in Listing(n, n) <=> \A m \in 1 .. n : \E r \in Seen(n, ref) : r[1] = m
<1> DEFINE S == Seen(n, ref)
           f == [r \in S |-> r[1]]
<1>1. n \in Nat /\ n \in 0 .. MaxModules /\ 1 .. n \subseteq 1 .. MaxModules
  BY VariableAssumption DEF VariableAssumption
<1>2. /\ IsFiniteSet(References(n))
      /\ \A r \in References(n) : r[1] \in 1 .. MaxModules /\ r[2] \in 1 .. Len(held[r[1]])
                                  /\ r = <<r[1], r[2]>>
  BY <1>1, ReferencesAre
<1>3. \A r \in References(n) : r[1] \in 1 .. n
  BY DEF References
<1>4. S \in SUBSET References(n)
  BY DEF Seen
<1>5. IsFiniteSet(S) /\ Cardinality(S) \in Nat
  BY <1>2, <1>4, FS_Subset, FS_CardinalityType
<1>6. ASSUME NEW a \in S, NEW b \in S, a[1] = b[1]
      PROVE  a = b
  <2>1. Variable(a).name = Variable(b).name
    BY DEF Seen
  <2>2. held[a[1]][a[2]].name = held[a[1]][b[2]].name
    BY <1>6, <2>1 DEF Variable
  <2>3. a \in References(n) /\ b \in References(n)
    BY <1>4
  <2>4. DOMAIN held[a[1]] = 1 .. Len(held[a[1]])
    BY <1>2, <2>3
  <2>5. a[2] = b[2]
    BY <1>2, <1>6, <2>2, <2>3, <2>4 DEF NamesDiffer
  <2> QED  BY <1>2, <1>6, <2>3, <2>5
<1>7. f \in [S -> 1 .. n]
  BY <1>3, <1>4
<1>8. f \in Injection(S, 1 .. n)
  BY <1>6, <1>7 DEF Injection, IsInjective
<1>9. IsFiniteSet(1 .. n) /\ Cardinality(1 .. n) = n
  BY <1>1, FS_Interval
<1>10. f \in Surjection(S, 1 .. n) <=> \A m \in 1 .. n : \E r \in S : r[1] = m
  BY <1>7 DEF Surjection
<1> HIDE DEF f
<1>11. Cardinality(S) <= n /\ (Cardinality(S) = n <=> f \in Surjection(S, 1 .. n))
  BY <1>8, <1>9, FS_Injection
<1>12. ref \in Listing(n, n) <=> Cardinality(S) >= n
  BY DEF Listing, enough
<1> QED  BY <1>1, <1>5, <1>10, <1>11, <1>12

\* What lists its name is of the last module, and every module has the name.
LEMMA ListingIs ==
  ASSUME held \in [1 .. MaxModules -> Seq(VariableType)], NamesDiffer,
         NEW n \in 1 .. MaxModules
  PROVE  /\ \A ref \in Listing(n, n) : ref \in References(n) /\ ref[1] = n
         /\ {Variable(ref).name : ref \in Listing(n, n)} =
              {name \in Names : \A m \in 1 .. n : name \in ToSet(NamesOf(m))}
<1>1. n \in Nat /\ n \in 0 .. MaxModules /\ 1 .. n \subseteq 1 .. MaxModules /\ n \in 1 .. n
  <2>1. MaxModules \in Nat
    BY VariableAssumption DEF VariableAssumption
  <2>2. n \in Nat /\ n >= 1 /\ n <= MaxModules
    BY <2>1
  <2> QED  BY <2>1, <2>2
<1>2. \A r \in References(n) : /\ r[1] \in 1 .. MaxModules /\ r[2] \in 1 .. Len(held[r[1]])
                               /\ r = <<r[1], r[2]>>
  BY <1>1, ReferencesAre
<1>3. \A r \in References(n) : r[1] \in 1 .. n
  BY DEF References
<1>4. \A m \in 1 .. n : \A i \in DOMAIN held[m] : <<m, i>> \in References(n)
  BY DEF References
<1>5. \A m \in 1 .. n : DOMAIN held[m] = 1 .. Len(held[m]) /\ Len(held[m]) \in Nat
                        /\ \A i \in DOMAIN held[m] : held[m][i] \in VariableType
  BY <1>1
<1>6. \A m \in 1 .. n : \A name :
        name \in ToSet(NamesOf(m)) <=> \E i \in DOMAIN held[m] : held[m][i].name = name
  BY DEF ToSet, NamesOf
<1>7. ASSUME NEW ref \in Listing(n, n)
      PROVE  /\ ref \in References(n) /\ ref[1] = n
             /\ Variable(ref).name \in Names
             /\ \A m \in 1 .. n : Variable(ref).name \in ToSet(NamesOf(m))
  <2>1. ref \in References(n)
    BY DEF Listing
  <2>2. \A m \in 1 .. n : \E r \in Seen(n, ref) : r[1] = m
    BY <1>7, <2>1, SeenOfEach
  <2>3. PICK r \in Seen(n, ref) : r[1] = n
    BY <1>1, <2>2
  <2>4. ref[1] \in 1 .. n
    BY <1>3, <2>1
  <2>5. ref[1] = n
    BY <1>1, <2>3, <2>4 DEF Seen, Upto
  <2>6. Variable(ref).name \in Names
    BY <1>1, <1>2, <1>5, <2>1, <2>5 DEF Variable, VariableType
  <2>7. ASSUME NEW m \in 1 .. n
        PROVE  Variable(ref).name \in ToSet(NamesOf(m))
    <3>1. PICK o \in Seen(n, ref) : o[1] = m
      BY <2>2
    <3>2. o \in References(n) /\ Variable(o).name = Variable(ref).name
      BY DEF Seen
    <3>3. o[2] \in DOMAIN held[m] /\ held[m][o[2]].name = Variable(ref).name
      BY <1>2, <1>5, <3>1, <3>2 DEF Variable
    <3> QED  BY <1>6, <3>3
  <2> QED  BY <2>1, <2>5, <2>6, <2>7
<1>8. ASSUME NEW name \in Names, \A m \in 1 .. n : name \in ToSet(NamesOf(m))
      PROVE  \E ref \in Listing(n, n) : Variable(ref).name = name
  <2>1. PICK i \in DOMAIN held[n] : held[n][i].name = name
    BY <1>1, <1>6, <1>8
  <2>2. PICK ref : ref = <<n, i>>
    OBVIOUS
  <2>3. ref \in References(n) /\ Variable(ref).name = name /\ ref[1] = n /\ ref[2] = i /\ i \in Nat
    BY <1>1, <1>4, <1>5, <2>1, <2>2 DEF Variable
  <2>4. ASSUME NEW m \in 1 .. n
        PROVE  \E r \in Seen(n, ref) : r[1] = m
    <3>1. CASE m = n
      <4>1. ref \in Seen(n, ref)
        BY <1>1, <2>3 DEF Seen, Upto
      <4> QED  BY <2>3, <3>1, <4>1
    <3>2. CASE m # n
      <4>1. PICK j \in DOMAIN held[m] : held[m][j].name = name
        BY <1>6, <1>8
      <4>2. PICK r : r = <<m, j>>
        OBVIOUS
      <4>3. r \in References(n) /\ Variable(r).name = name /\ r[1] = m
        BY <1>4, <4>1, <4>2 DEF Variable
      <4>4. Upto(r, ref)
        BY <1>1, <2>3, <3>2, <4>3 DEF Upto
      <4>5. r \in Seen(n, ref)
        BY <2>3, <4>3, <4>4 DEF Seen
      <4> QED  BY <4>3, <4>5
    <3> QED  BY <3>1, <3>2
  <2>5. ref \in Listing(n, n)
    BY <2>3, <2>4, SeenOfEach
  <2> QED  BY <2>3, <2>5
<1>9. {Variable(ref).name : ref \in Listing(n, n)} =
        {name \in Names : \A m \in 1 .. n : name \in ToSet(NamesOf(m))}
  BY <1>7, <1>8
<1> QED  BY <1>7, <1>9

\* A group of the first n modules lists the names they have in common.
LEMMA KeysOfGroup ==
  ASSUME held \in [1 .. MaxModules -> Seq(VariableType)], NamesDiffer,
         NEW n \in 1 .. MaxModules, NEW keys, keys = common_keys(n, n)
  PROVE  /\ ToSet(keys) = {name \in Names : \A m \in 1 .. n : name \in ToSet(NamesOf(m))}
         /\ Len(keys) = Cardinality(ToSet(keys))
<1> DEFINE L == Listing(n, n)
<1>1. n \in 0 .. MaxModules /\ n \in Nat
  BY VariableAssumption DEF VariableAssumption
<1>2. /\ IsFiniteSet(References(n))
      /\ \A r \in References(n) : /\ r[1] \in 1 .. MaxModules /\ r[2] \in 1 .. Len(held[r[1]])
                                  /\ r = <<r[1], r[2]>>
  BY <1>1, ReferencesAre
<1>3. \A ref \in L : ref \in References(n) /\ ref[1] = n
  BY ListingIs
<1>4. {Variable(ref).name : ref \in L} =
        {name \in Names : \A m \in 1 .. n : name \in ToSet(NamesOf(m))}
  BY ListingIs
<1>5. keys = [k \in 1 .. Cardinality(L) |-> Variable(CHOOSE ref \in L : Position(L, ref) = k).name]
  BY DEF common_keys
<1> HIDE DEF L
<1>6. IsFiniteSet(L)
  BY <1>2, <1>3, FS_Subset
<1>7. \A ref \in L : Reference(ref)
  <2>1. Len(held[n]) \in Nat
    OBVIOUS
  <2> QED  BY <1>1, <1>2, <1>3, <2>1 DEF Reference
<1>8. ASSUME NEW a \in L, NEW b \in L, Variable(a).name = Variable(b).name
      PROVE  a = b
  <2>1. a = <<n, a[2]>> /\ b = <<n, b[2]>> /\ a[2] \in 1 .. Len(held[n]) /\ b[2] \in 1 .. Len(held[n])
    BY <1>2, <1>3
  <2>2. held[n][a[2]].name = held[n][b[2]].name
    BY <1>3, <1>8 DEF Variable
  <2>3. DOMAIN held[n] = 1 .. Len(held[n])
    OBVIOUS
  <2>4. a[2] = b[2]
    BY <2>1, <2>2, <2>3 DEF NamesDiffer
  <2> QED  BY <2>1, <2>4
<1>9. NamesAtMostOnce(L)
  BY <1>8 DEF NamesAtMostOnce
<1>10. ListsEach(keys, L)
  BY <1>5, <1>6, <1>7, <1>9, InOrder
<1> QED  BY <1>4, <1>10 DEF ListsEach

KeysInv == NamesDiffer /\ shown.count \in 0 .. MaxModules /\ CommonKeysAreCommon

\* Names that stay are as different and as common as before.
LEMMA NamesStay ==
  ASSUME KeysInv, shown'.count = shown.count, shown'.common_keys_ = shown.common_keys_,
         \A m \in 1 .. MaxModules :
           /\ DOMAIN held'[m] = DOMAIN held[m]
           /\ \A i \in DOMAIN held[m] : held'[m][i].name = held[m][i].name
  PROVE  KeysInv'
<1>1. NamesDiffer'
  BY DEF KeysInv, NamesDiffer
<1>2. shown.count \in 0 .. MaxModules /\ MaxModules \in Nat
  BY VariableAssumption DEF KeysInv, VariableAssumption
<1>3. \A m \in 1 .. shown.count : m \in 1 .. MaxModules
  BY <1>2
<1>4. \A m \in 1 .. shown.count : NamesOf(m)' = NamesOf(m)
  BY <1>3 DEF NamesOf
<1>5. {name \in Names : \A m \in 1 .. shown.count : name \in ToSet(NamesOf(m))}' =
        {name \in Names : \A m \in 1 .. shown.count : name \in ToSet(NamesOf(m))}
  BY <1>4
<1>6. CommonKeysAreCommon'
  BY <1>5 DEF KeysInv, CommonKeysAreCommon
<1> QED  BY <1>1, <1>2, <1>6 DEF KeysInv

\* A value that replaces another leaves the names as they are.
LEMMA ValuesHaveNoNames ==
  ASSUME VariableInv, KeysInv, NEW ref \in References(MaxModules), NEW v,
         held' = [held EXCEPT ![ref[1]][ref[2]].value = v],
         shown'.count = shown.count, shown'.common_keys_ = shown.common_keys_
  PROVE  KeysInv'
<1> DEFINE s == held[ref[1]]
           t == [s EXCEPT ![ref[2]].value = v]
<1>1. MaxModules \in 0 .. MaxModules
  BY VariableAssumption DEF VariableAssumption
<1>2. ref[1] \in 1 .. MaxModules /\ ref[2] \in 1 .. Len(s) /\ held \in [1 .. MaxModules -> Seq(VariableType)]
  BY <1>1, ReferencesAre DEF VariableInv
<1>3. s \in Seq(VariableType) /\ s[ref[2]] \in VariableType
  BY <1>2
<1>4. DOMAIN t = DOMAIN s /\ \A i \in DOMAIN s : t[i].name = s[i].name
  <2>1. [s[ref[2]] EXCEPT !.value = v].name = s[ref[2]].name
    BY <1>3 DEF VariableType
  <2> QED  BY <2>1
<1>5. held' = [held EXCEPT ![ref[1]] = t]
  OBVIOUS
<1> HIDE DEF t
<1>6. \A m \in 1 .. MaxModules :
        /\ DOMAIN held'[m] = DOMAIN held[m]
        /\ \A i \in DOMAIN held[m] : held'[m][i].name = held[m][i].name
  BY <1>2, <1>4, <1>5
<1> QED  BY <1>6, NamesStay

\* add_variable counts what is under a name when a variable comes; as the names of one
\* module differ, the keys of a group are the names that all its modules have, each
\* once, for any modules, however long their lists and whatever their order.
THEOREM CommonKeys == VariableSpec => []CommonKeysAreCommon
<1>1. VariableInit => KeysInv
  <2> SUFFICES ASSUME VariableInit PROVE KeysInv  OBVIOUS
  <2>1. NamesDiffer
    BY DEF VariableInit, NamesDiffer
  <2>2. shown.count = 0 /\ 0 \in 0 .. MaxModules
    BY VariableAssumption DEF VariableInit, NotShown, VariableAssumption
  <2> QED  BY <2>1, <2>2 DEF KeysInv, CommonKeysAreCommon
<1>2. VariableInv /\ KeysInv /\ [VariableNext]_variableVars => KeysInv'
  <2> SUFFICES ASSUME VariableInv, KeysInv, [VariableNext]_variableVars PROVE KeysInv'  OBVIOUS
  <2>1. MaxModules \in Nat /\ held \in [1 .. MaxModules -> Seq(VariableType)] /\ NamesDiffer
    BY VariableAssumption DEF VariableAssumption, VariableInv, KeysInv
  <2>2. ASSUME NEW m \in 1 .. MaxModules, NEW name \in Names, NEW type \in Types,
               ListEntry(m, name, type)
        PROVE  KeysInv'
    <3>1. PICK v : v = [name |-> name, type |-> type, value |-> Initial(type)]
      OBVIOUS
    <3>2. held' = [held EXCEPT ![m] = Append(@, v)] /\ v.name = name
      BY <2>2, <3>1 DEF ListEntry
    <3>3. \A i \in DOMAIN held[m] : held[m][i].name # name
      BY <2>2 DEF ListEntry
    <3>4. shown' = shown /\ shown.count = 0
      BY <2>2 DEF ListEntry, NotShown
    <3>5. PICK s : s = Append(held[m], v)
      OBVIOUS
    <3>6. ASSUME NEW i \in DOMAIN s, NEW j \in DOMAIN s, s[i].name = s[j].name
          PROVE  i = j
      <4>1. held[m] \in Seq(VariableType) /\ Len(held[m]) \in Nat
            /\ DOMAIN held[m] = 1 .. Len(held[m])
        BY <2>1
      <4>2. /\ DOMAIN s = 1 .. Len(held[m]) + 1
            /\ \A k \in 1 .. Len(held[m]) : s[k] = held[m][k]
            /\ s[Len(held[m]) + 1] = v
        BY <3>5, <4>1
      <4>3. \A k \in DOMAIN s : k \in DOMAIN held[m] \/ k = Len(held[m]) + 1
        BY <4>1, <4>2
      <4>4. CASE i \in DOMAIN held[m] /\ j \in DOMAIN held[m]
        BY <2>1, <3>6, <4>1, <4>2, <4>4 DEF NamesDiffer
      <4> QED  BY <3>2, <3>3, <3>6, <4>1, <4>2, <4>3, <4>4
    <3>7. held'[m] = s /\ \A o \in 1 .. MaxModules : o # m => held'[o] = held[o]
      BY <2>1, <3>2, <3>5
    <3>8. NamesDiffer'
      BY <2>1, <3>6, <3>7 DEF NamesDiffer
    <3> QED  BY <3>4, <3>8 DEF KeysInv, CommonKeysAreCommon
  <2>3. ASSUME NEW ref \in References(MaxModules), ListEntryAgain(ref)
        PROVE  KeysInv'
    <3>1. shown'.count = shown.count /\ shown'.common_keys_ = shown.common_keys_
      BY <2>3 DEF ListEntryAgain
    <3> QED  BY <2>3, <3>1, ValuesHaveNoNames DEF ListEntryAgain
  <2>4. ASSUME NEW ref \in References(MaxModules), NEW t \in Texts, Answer(ref, t)
        PROVE  KeysInv'
    <3>1. PICK v : v = parse_value(Variable(ref).type, t)
      OBVIOUS
    <3>2. held' = [held EXCEPT ![ref[1]][ref[2]].value = v] /\ shown' = shown
      BY <2>4, <3>1 DEF Answer
    <3> QED  BY <3>2, ValuesHaveNoNames
  <2>5. ASSUME NEW n \in 1 .. MaxModules, Show(n)
        PROVE  KeysInv'
    <3>1. held' = held /\ shown'.count = n /\ shown'.common_keys_ = common_keys(n, n)
      BY <2>5 DEF Show
    <3>2. NamesDiffer' /\ n \in 0 .. MaxModules
      BY <2>1, <3>1 DEF NamesDiffer
    <3>3. \A m : NamesOf(m)' = NamesOf(m)
      BY <3>1 DEF NamesOf
    <3>4. PICK keys : keys = common_keys(n, n)
      OBVIOUS
    <3>5. /\ ToSet(keys) = {name \in Names : \A m \in 1 .. n : name \in ToSet(NamesOf(m))}
          /\ Len(keys) = Cardinality(ToSet(keys))
      BY <2>1, <3>4, KeysOfGroup
    <3>6. CommonKeysAreCommon'
      BY <3>1, <3>3, <3>4, <3>5 DEF CommonKeysAreCommon
    <3> QED  BY <3>1, <3>2, <3>6 DEF KeysInv
  <2>6. CASE UNCHANGED variableVars
    BY <2>6, NamesStay DEF variableVars
  <2> QED  BY <2>2, <2>3, <2>4, <2>5, <2>6 DEF VariableNext
<1>3. KeysInv => CommonKeysAreCommon
  BY DEF KeysInv
<1> QED  BY <1>1, <1>2, <1>3, VariableInvariance, PTL DEF VariableSpec
=============================================================================
