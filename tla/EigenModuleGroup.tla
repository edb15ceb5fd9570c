--------------------------- MODULE EigenModuleGroup ---------------------------
(***************************************************************************)
(* The groups of modules of an application (EigenModuleGroup in            *)
(* eigen_groups.cpp), which poll and command their modules together        *)
(* through EigenPacketPoll.  What a group shows of its modules is in       *)
(* EigenVariableGroup.                                                     *)
(*                                                                         *)
(* The application is one thread: a call that works through the modules of *)
(* a group is a sequence of steps, between which the service thread writes *)
(* commands and polls.                                                     *)
(***************************************************************************)
EXTENDS EigenPacketPoll

CONSTANTS
  Modules,        \* the modules on the bus
  Groups,         \* the groups of the application
  Lists,          \* the lists of modules a group is made for
  Kinds,          \* commands that can be polled, without their address
  Commanded,      \* the commands that are sent to a group
  Writes,         \* those among them that carry a value
  Periods,        \* the periods the application asks for
  MaxCalls,       \* bound: calls for groups, and commands that carry a value
  MaxQueue        \* bound: commands in the queue when the application sends one

ASSUME GroupAssumption ==
  /\ Lists \subseteq Seq(Modules) /\ Periods \subseteq 0 .. MaxPeriod
  /\ (Kinds \cup Commanded \cup Writes) \X Modules \subseteq Keys
  /\ MaxCalls \in Nat /\ MaxQueue \in Nat

VARIABLES
  groups,         \* what each group holds
  app,            \* the call the application is in
  asked,          \* the keys that the application polls without a group
  calls           \* how many of those there were

groupVars == <<groups, app, asked, calls>>
vars == <<pollVars, groupVars>>

\* The text of a packet is known by its command and its address.
Key(kind, m) == <<kind, m>>

\* The command that is cloned for each module has an address of its own.
MainKey(kind) == Key(kind, "FF")

NoKey == Key("none", "none")

NoGroup == [modules |-> <<>>, poll_keys |-> {}]

Idle == [op |-> "idle", group |-> "none", main |-> NoKey, todo |-> <<>>,
         period |-> 0, enabled |-> FALSE, value |-> NoValue]

\* The keys that group_poll returns.
Mains == {MainKey(k) : k \in Kinds}

TypeOK ==
  /\ PollTypeOK
  /\ groups \in [Groups -> [modules : Seq(Modules), poll_keys : SUBSET (Mains \X Keys)]]
  /\ app \in [op : {"idle", "command", "poll", "enable", "remove", "destroy"},
              group : Groups \cup {"none"},
              main : {MainKey(k) : k \in Kinds \cup Commanded} \cup {NoKey},
              todo : Seq(Keys), period : 0 .. MaxPeriod, enabled : BOOLEAN, value : Nat]
  /\ app.op # "idle" => app.group \in Groups
  /\ app.op = "poll" => app.main \in Mains
  /\ asked \subseteq Keys
  /\ calls \in 0 .. MaxCalls

Init ==
  /\ PollInit
  /\ groups = [g \in Groups |-> NoGroup]
  /\ app = Idle
  /\ asked = {}
  /\ calls = 0
-----------------------------------------------------------------------------
(***************************************************************************)
(* The calls of the application.                                           *)
(***************************************************************************)
Counted == calls < MaxCalls /\ calls' = calls + 1

Called == app.op = "idle" /\ Counted

\* A call that is one step, and may be made without end.
Alone == app.op = "idle" /\ UNCHANGED calls

\* The constructor.
MakeGroup(g, ms) ==
  /\ Called
  /\ groups[g] = NoGroup
  /\ groups' = [groups EXCEPT ![g].modules = ms]
  /\ UNCHANGED <<pollVars, app, asked>>

\* A call that goes through keys begins.
Begin(op, g, main, todo, period, b, value) ==
  /\ Called
  /\ groups[g] # NoGroup
  /\ app' = [op |-> op, group |-> g, main |-> main, todo |-> todo,
             period |-> period, enabled |-> b, value |-> value]
  /\ UNCHANGED <<pollVars, groups, asked>>

KeysFor(g, kind) == [n \in DOMAIN groups[g].modules |-> Key(kind, groups[g].modules[n])]

HeldUnder(g, main) == {k \in Keys : <<main, k>> \in groups[g].poll_keys}

Held(g) == {e[2] : e \in groups[g].poll_keys}

\* The value of a command is made for the call.
NewValue(kind) == IF kind \in Writes THEN calls + 1 ELSE NoValue

group_command(g, kind) ==
  Begin("command", g, MainKey(kind), KeysFor(g, kind), 0, FALSE, NewValue(kind))

group_poll(g, kind, period, b) ==
  Begin("poll", g, MainKey(kind), KeysFor(g, kind), period, b, NoValue)

group_poll_set_enabled(g, main, b) ==
  \E s \in SetToSeqs(HeldUnder(g, main)) : Begin("enable", g, main, s, 0, b, NoValue)

group_poll_remove(g, main) ==
  \E s \in SetToSeqs(HeldUnder(g, main)) : Begin("remove", g, main, s, 0, FALSE, NoValue)

\* Deliberate fault: the destructor forgets the keys before it stops the polls.
DestroyGroupNot(g) == Begin("destroy", g, NoKey, <<>>, 0, FALSE, NoValue)

\* The destructor.
DestroyGroup(g) ==
  \E s \in SetToSeqs(Held(g)) : Begin("destroy", g, NoKey, s, 0, FALSE, NoValue)

\* Deliberate fault: key and value of the multimap are exchanged.
RememberedSwapped(a) == <<Head(a.todo), a.main>>

\* What poll_keys_ gets for a poll.
Remembered(a) == <<a.main, Head(a.todo)>>

\* The next module, or key, of the call.
AppStep ==
  /\ app.todo # <<>>
  /\ LET k == Head(app.todo) IN
       CASE app.op = "command" -> add_command(k, app.value)
         [] app.op = "poll" -> add_poll_command(k, app.period, app.enabled)
         [] app.op = "enable" -> set_poll_enable(k, app.enabled)
         [] OTHER -> remove_poll_command(k)
  /\ groups' = IF app.op = "poll"
               THEN [groups EXCEPT ![app.group].poll_keys =
                       @ \cup {Remembered(app)}]
               ELSE groups
  /\ app' = [app EXCEPT !.todo = Tail(@)]
  /\ UNCHANGED <<asked, calls>>

\* What is left of the groups when the call returns.
GroupsAfter(a) ==
  CASE a.op = "remove" ->
         [groups EXCEPT ![a.group].poll_keys = {e \in @ : e[1] # a.main}]
    [] a.op = "destroy" -> [groups EXCEPT ![a.group] = NoGroup]
    [] OTHER -> groups

\* The call returns.  group_command deletes the command it cloned.
AppReturn ==
  /\ app.op # "idle"
  /\ app.todo = <<>>
  /\ groups' = GroupsAfter(app)
  /\ delete_command(app.value)
  /\ app' = Idle
  /\ UNCHANGED <<asked, calls>>

\* Polls and commands without a group.
PollAlone(k, p) ==
  /\ Alone
  /\ add_poll_command(k, p, TRUE)
  /\ asked' = asked \cup {k}
  /\ UNCHANGED <<groups, app>>

EnableAlone(k, b) ==
  /\ Alone
  /\ k \in asked
  /\ set_poll_enable(k, b)
  /\ UNCHANGED <<groups, app, asked>>

StopAlone(k) ==
  /\ Alone
  /\ k \in asked
  /\ remove_poll_command(k)
  /\ asked' = asked \ {k}
  /\ UNCHANGED <<groups, app>>

SendAlone(kind, m) ==
  /\ app.op = "idle" /\ Len(cmd_list_) < MaxQueue
  /\ IF kind \in Writes THEN Counted ELSE UNCHANGED calls
  /\ add_command(Key(kind, m), NewValue(kind))
  /\ UNCHANGED <<groups, app, asked>>

ClearCommands ==
  /\ Alone
  /\ clear_commands
  /\ UNCHANGED <<groups, app, asked>>

Switch ==
  /\ app.op = "idle"
  /\ \E b \in BOOLEAN : set_poll_enabled(b)
  /\ UNCHANGED groupVars
-----------------------------------------------------------------------------
ServiceStep == Service /\ UNCHANGED groupVars

TimePasses == Tick /\ UNCHANGED groupVars

BootloaderMoves == \E b \in BOOLEAN : SetActive(b) /\ UNCHANGED groupVars

ClockIsSet == \E d \in 1 .. MaxPeriod : ClockStepsBack(d) /\ UNCHANGED groupVars

\* Those that it returned for the polls of a group.
Returned(g) == {e[1] : e \in groups[g].poll_keys}

GroupCalls(g) ==
  \/ \E ms \in Lists : MakeGroup(g, ms)
  \/ \E kind \in Commanded : group_command(g, kind)
  \/ \E kind \in Kinds, p \in Periods, b \in BOOLEAN : group_poll(g, kind, p, b)
  \/ \E main \in Returned(g), b \in BOOLEAN : group_poll_set_enabled(g, main, b)
  \/ \E main \in Returned(g) : group_poll_remove(g, main)
  \/ DestroyGroup(g)

SingleCalls ==
  \/ \E kind \in Kinds, m \in Modules, p \in Periods : PollAlone(Key(kind, m), p)
  \/ \E k \in Keys, b \in BOOLEAN : EnableAlone(k, b)
  \/ \E k \in Keys : StopAlone(k)
  \/ \E kind \in Kinds \cup Writes, m \in Modules : SendAlone(kind, m)
  \/ ClearCommands

\* What goes on whatever the application asks for.
Course == ServiceStep \/ TimePasses \/ BootloaderMoves \/ Switch

Next ==
  \/ Course \/ ClockIsSet
  \/ (\E g \in Groups : GroupCalls(g)) \/ SingleCalls \/ AppStep \/ AppReturn

Spec == Init /\ [][Next]_vars

\* The application calls service_eigen_comms in a loop, and time passes.
FairSpec == Spec /\ WF_vars(ServiceStep) /\ WF_vars(TimePasses)
-----------------------------------------------------------------------------
(***************************************************************************)
(* Properties.                                                             *)
(***************************************************************************)

\* Whatever is polled is polled for somebody: no poll is left behind by a
\* group that removed it or is gone, whatever the application did to the
\* polls of its other groups and to its own meanwhile.
NoOrphanPoll ==
  DOMAIN poll_map_ \subseteq SetupPolls \cup asked \cup UNION {Held(g) : g \in Groups}
=============================================================================
