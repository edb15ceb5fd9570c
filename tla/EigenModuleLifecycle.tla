------------------------ MODULE EigenModuleLifecycle ------------------------
(***************************************************************************)
(* How a module of the bus becomes known to the application, and is        *)
(* forgotten (eigen_comms.cpp, eigen_vector_map.cpp, eigen_parameters.h,   *)
(* the param and mailbox commands and responses).                          *)
(*                                                                         *)
(* The first packet from an address makes an EigenModule object, puts it   *)
(* in module_list_ and module_init_list_, and queues a request for its     *)
(* list of parameters and its list of mailboxes.  The answers fill two     *)
(* EigenParameterSets.  A sweep over module_init_list_ publishes the       *)
(* objects whose sets are complete in module_list_pub_ and asks again for  *)
(* those that are not.  A module that was not heard for a while is cleared *)
(* from both lists.  The application learns of it through the updates      *)
(* MODULE_ADDED and MODULE_REMOVED (how it reads the published list, and   *)
(* the flag list_update, are in EigenModuleReader).                        *)
(*                                                                         *)
(* Abstractions.  An object is a number, the order in which it was made.   *)
(* Times are kept as what the code compares: aged holds the objects not    *)
(* heard for 2*UPDATE_TOPOLOGY_PERIOD, quiet the sets not updated for      *)
(* PACKET_TIMEOUT, sweepDue whether 50 ms have passed; each may change     *)
(* only where the code will look at it before it is reset.  The retries of *)
(* the packet tracker are answers that arrive more than once.  The clock   *)
(* does not step back.  The address 0xFF, the utility commands and the     *)
(* other update types are left out.                                        *)
(***************************************************************************)
EXTENDS Naturals, Sequences, FiniteSets, SequencesExt

CONSTANTS
  Addresses,      \* addresses of modules
  Lists,          \* Lists[a][k]: list lengths, plus one, reported at address a
  Lossy,          \* the kinds of list whose answers the bus may lose
  MaxObjects,     \* bound: EigenModule objects made in a behaviour
  MaxSlow         \* bound: requests that wait while a timeout expires

Kinds == {"param", "mailbox"}

Unknown == 255    \* expected_num_params == 0xFF

ASSUME LifecycleAssumption ==
  /\ Lists \in [Addresses -> [Kinds -> SUBSET (0..255)]]
  /\ Lossy \subseteq Kinds
  /\ MaxObjects \in Nat
  /\ MaxSlow \in Nat

None == 0         \* nullptr, for an address nobody has

\* An answer to a list request: item 0 is the length, item i the i-th entry.
\* The length byte is one more than the number of entries.
Answers(a, k) ==
  UNION {[addr : {a}, kind : {k}, aux : {n}, item : {i \in 0..n : i = 0 \/ i < n}] :
           n \in Lists[a][k]}

AllAnswers == UNION {Answers(a, k) : a \in Addresses, k \in Kinds}

VARIABLES
  objects,     \* the EigenModules made so far: address and parameter sets
  aged,        \* objects whose t_last_update is too long ago
  list,        \* module_list_
  pub,         \* module_list_pub_
  initList,    \* module_init_list_
  slow,        \* cmd_list_slow_: the list requests to send
  phase,       \* where service_eigen_comms is
  cursor,      \* it, in the sweep over module_init_list_ (1 outside)
  sweepDue,    \* 50 ms have passed since the last sweep
  updates,     \* update_list_, the MODULE_ADDED and MODULE_REMOVED of it
  inflight,    \* bus: answers that may still arrive
  mirror       \* application: addresses it knows from the updates it took

objectVars == <<objects, aged>>
listVars == <<list, pub, initList>>
loopVars == <<phase, cursor, sweepDue>>
appVars == <<updates, mirror>>
vars == <<objects, aged, list, pub, initList, slow, phase, cursor, sweepDue,
          updates, inflight, mirror>>

Phases == {"idle", "send", "poll", "sweep", "announce", "receive",
           "clearPub", "clearList"}
ParameterSet == [expected : 0..255, got : SUBSET (1..255), busy : BOOLEAN, quiet : BOOLEAN]
Module == [addr : Addresses, sets : [Kinds -> ParameterSet]]
Object == 1..MaxObjects

TypeOK ==
  /\ objects \in Seq(Module) /\ Len(objects) <= MaxObjects
  /\ aged \subseteq Object
  /\ list \in [Addresses -> Object \cup {None}]
  /\ pub \in [Addresses -> Object \cup {None}]
  /\ initList \in Seq(Object)
  /\ slow \in Seq(Addresses \X Kinds)
  /\ phase \in Phases
  /\ cursor \in 1..Len(initList) + 1
  /\ sweepDue \in BOOLEAN
  /\ updates \in Seq([type : {"added", "removed"}, addr : Addresses])
  /\ inflight \subseteq AllAnswers
  /\ mirror \subseteq Addresses

Init ==
  /\ objects = <<>> /\ aged = {}
  /\ list = [a \in Addresses |-> None]
  /\ pub = [a \in Addresses |-> None]
  /\ initList = <<>> /\ slow = <<>>
  /\ phase = "idle" /\ cursor = 1 /\ sweepDue = FALSE
  /\ updates = <<>>
  /\ inflight = {}
  /\ mirror = {}

-----------------------------------------------------------------------------
(***************************************************************************)
(* EigenParameterSet.                                                      *)
(***************************************************************************)
\* A set counts the entries it received, whatever their ids.
ParametersLeft(set) ==
  IF set.expected = Unknown \/ Cardinality(set.got) > set.expected
  THEN 0 ELSE set.expected - Cardinality(set.got)

SetValid(set) == set.expected # Unknown /\ ParametersLeft(set) = 0

UpdateRequired(set) ==
  /\ set.expected = Unknown \/ ParametersLeft(set) > 0
  /\ set.quiet
  /\ ~set.busy

\* EigenModule::valid().
Valid(o) == \A k \in Kinds : SetValid(objects[o].sets[k])

\* param_aux - 1 in a uint8_t.
ExpectedFrom(aux) == (aux + 255) % 256

\* Deliberate fault: the length counts as an entry.
AppliedCounting(set, x) ==
  IF x.item = 0
  THEN [set EXCEPT !.expected = ExpectedFrom(x.aux), !.got = @ \cup {0},
                   !.busy = FALSE, !.quiet = FALSE]
  ELSE [set EXCEPT !.got = @ \cup {x.item}, !.quiet = FALSE]

\* An answer applied to its set: the length, or one entry.
Applied(set, x) ==
  IF x.item = 0
  THEN [set EXCEPT !.expected = ExpectedFrom(x.aux), !.busy = FALSE, !.quiet = FALSE]
  ELSE [set EXCEPT !.got = @ \cup {x.item}, !.quiet = FALSE]

\* set_request_in_progress and set_last_update, when a list is asked for.
AskedFor(set) == [set EXCEPT !.busy = TRUE, !.quiet = FALSE]

NewObject(a) ==
  [addr |-> a,
   sets |-> [k \in Kinds |->
     [expected |-> Unknown, got |-> {}, busy |-> TRUE, quiet |-> FALSE]]]

-----------------------------------------------------------------------------
(***************************************************************************)
(* service_eigen_comms up to the sweep.  While the bootloader is active    *)
(* the list requests are not sent and the sweep is not made.               *)
(***************************************************************************)
Go(from, to) == phase = from /\ phase' = to

BeginService ==
  /\ Go("idle", "send")
  /\ UNCHANGED <<objectVars, listVars, slow, cursor, sweepDue, inflight, appVars>>

BeginServiceBootloading ==
  /\ Go("idle", "receive")
  /\ UNCHANGED <<objectVars, listVars, slow, cursor, sweepDue, inflight, appVars>>

\* Deliberate fault: sending a request leaves it in progress.
AfterSendingStays(a, k) == objects

\* EigenCommandParamRead::update_module; EigenCommandMailboxRead has none.
AfterSending(a, k) ==
  IF k = "param" /\ list[a] # None
  THEN [objects EXCEPT ![list[a]].sets[k].busy = FALSE] ELSE objects

\* At most one command of the slow list per call.
SendSlow ==
  /\ Go("send", "poll")
  /\ slow # <<>>
  /\ slow' = Tail(slow)
  /\ objects' = AfterSending(Head(slow)[1], Head(slow)[2])
  /\ inflight' = inflight \cup Answers(Head(slow)[1], Head(slow)[2])
  /\ UNCHANGED <<aged, listVars, cursor, sweepDue, appVars>>

\* SLOW_CMD_PERIOD has not passed, or the slow list is empty.
SendNoSlow ==
  /\ Go("send", "poll")
  /\ UNCHANGED <<objectVars, listVars, slow, cursor, sweepDue, inflight, appVars>>

BeginSweep ==
  /\ Go("poll", "sweep")
  /\ sweepDue
  /\ sweepDue' = FALSE
  /\ UNCHANGED <<objectVars, listVars, slow, cursor, inflight, appVars>>

SkipSweep ==
  /\ Go("poll", "receive")
  /\ ~sweepDue
  /\ UNCHANGED <<objectVars, listVars, slow, cursor, sweepDue, inflight, appVars>>

-----------------------------------------------------------------------------
(***************************************************************************)
(* The sweep over module_init_list_.                                       *)
(***************************************************************************)
AtValid == cursor <= Len(initList) /\ Valid(initList[cursor])

\* EigenVectorMap::insert: the object that is at the address stays.
Inserted(map, o) ==
  IF map[objects[o].addr] = None THEN [map EXCEPT ![objects[o].addr] = o] ELSE map

\* The flag list_update is raised in between: see EigenModuleReader.
PublishInsert ==
  /\ Go("sweep", "announce")
  /\ AtValid
  /\ pub' = Inserted(pub, initList[cursor])
  /\ UNCHANGED <<objectVars, list, initList, slow, cursor, sweepDue, inflight, appVars>>

\* Deliberate fault: the iterator moves on after the erase as well.
PublishAnnounceSkips ==
  /\ Go("announce", "sweep")
  /\ updates' = Append(updates, [type |-> "added", addr |-> objects[initList[cursor]].addr])
  /\ initList' = RemoveAt(initList, cursor)
  /\ cursor' = cursor + 1
  /\ UNCHANGED <<objectVars, list, pub, slow, sweepDue, inflight, mirror>>

PublishAnnounce ==
  /\ Go("announce", "sweep")
  /\ updates' = Append(updates, [type |-> "added", addr |-> objects[initList[cursor]].addr])
  /\ initList' = RemoveAt(initList, cursor)
  /\ UNCHANGED <<objectVars, list, pub, slow, cursor, sweepDue, inflight, mirror>>

\* The commands that ask for lists, parameters first.
Requests(a, kinds) ==
  (IF "param" \in kinds THEN <<<<a, "param">>>> ELSE <<>>)
    \o (IF "mailbox" \in kinds THEN <<<<a, "mailbox">>>> ELSE <<>>)

\* read_module_params and read_module_mailboxes, for the sets that need it.
SweepRefresh ==
  /\ phase = "sweep"
  /\ cursor <= Len(initList)
  /\ LET o == initList[cursor]
         asking == {k \in Kinds : UpdateRequired(objects[o].sets[k])}
     IN  /\ ~Valid(o)
         /\ slow' = slow \o Requests(objects[o].addr, asking)
         /\ objects' = [objects EXCEPT ![o].sets =
              [k \in Kinds |-> IF k \in asking THEN AskedFor(@[k]) ELSE @[k]]]
  /\ cursor' = cursor + 1
  /\ UNCHANGED <<aged, listVars, phase, sweepDue, inflight, appVars>>

SweepDone ==
  /\ Go("sweep", "receive")
  /\ cursor > Len(initList)
  /\ cursor' = 1
  /\ UNCHANGED <<objectVars, listVars, slow, sweepDue, inflight, appVars>>

-----------------------------------------------------------------------------
(***************************************************************************)
(* process_packet: add_module, then update_module of the response.         *)
(***************************************************************************)
\* The object at the address, and all objects, once add_module is done.
Known(a) == IF list[a] = None THEN Len(objects) + 1 ELSE list[a]

ObjectsWith(a) == IF list[a] = None THEN Append(objects, NewObject(a)) ELSE objects

\* A packet that needs a new object waits at the bound MaxObjects.
AddModule(a) ==
  /\ Known(a) <= MaxObjects
  /\ aged' = aged \ {Known(a)}
  /\ IF list[a] = None
     THEN /\ list' = [list EXCEPT ![a] = Known(a)]
          /\ initList' = Append(initList, Known(a))
          /\ slow' = slow \o Requests(a, Kinds)
     ELSE UNCHANGED <<list, initList, slow>>

\* A packet that is no answer to a list request, such as that of a status poll.
Hear(a) ==
  /\ phase = "receive"
  /\ AddModule(a)
  /\ objects' = ObjectsWith(a)
  /\ UNCHANGED <<pub, loopVars, inflight, appVars>>

\* An answer arrives, and may arrive again if the tracker repeated the request.
Arrive(x, again) ==
  /\ phase = "receive"
  /\ x \in inflight
  /\ AddModule(x.addr)
  /\ objects' = [ObjectsWith(x.addr) EXCEPT ![Known(x.addr)].sets[x.kind] = Applied(@, x)]
  /\ inflight' = IF again THEN inflight ELSE inflight \ {x}
  /\ UNCHANGED <<pub, loopVars, appVars>>

ReceiveDone ==
  /\ Go("receive", "clearPub")
  /\ UNCHANGED <<objectVars, listVars, slow, cursor, sweepDue, inflight, appVars>>

-----------------------------------------------------------------------------
(***************************************************************************)
(* EigenVectorMap::clear_old, once for each list and each with the time of *)
(* its call.  Only the published list reports what it removes, in order of *)
(* the addresses (which no property tells from any other order).           *)
(***************************************************************************)
Cleared(map) == [a \in Addresses |-> IF map[a] \in aged THEN None ELSE map[a]]

Removals(map) == {[type |-> "removed", addr |-> a] : a \in {b \in Addresses : map[b] \in aged}}

\* Deliberate fault: the removals are not reported.
ClearPubSilently ==
  /\ Go("clearPub", "clearList")
  /\ pub' = Cleared(pub)
  /\ UNCHANGED <<objectVars, list, initList, slow, cursor, sweepDue, inflight, appVars>>

ClearPub ==
  /\ Go("clearPub", "clearList")
  /\ pub' = Cleared(pub)
  /\ updates' = updates \o SetToSeq(Removals(pub))
  /\ UNCHANGED <<objectVars, list, initList, slow, cursor, sweepDue, inflight, mirror>>

\* Deliberate fault: the list of all modules is not cleared.
ClearListNot ==
  /\ Go("clearList", "idle")
  /\ UNCHANGED <<objectVars, listVars, slow, cursor, sweepDue, inflight, appVars>>

\* Deliberate fault: the list of all modules is cleared with a shorter limit.
ClearListEarly ==
  /\ Go("clearList", "idle")
  /\ list' \in [Addresses -> Object \cup {None}]
  /\ \A a \in Addresses : list'[a] \in {list[a], None}
  /\ UNCHANGED <<objectVars, pub, initList, slow, cursor, sweepDue, inflight, appVars>>

ClearList ==
  /\ Go("clearList", "idle")
  /\ list' = Cleared(list)
  /\ UNCHANGED <<objectVars, pub, initList, slow, cursor, sweepDue, inflight, appVars>>

-----------------------------------------------------------------------------
(***************************************************************************)
(* Time, the bus and the application.                                      *)
(***************************************************************************)
Unpublished(o) == \E j \in 1..Len(initList) : initList[j] = o

\* An object in a list was not heard for 2*UPDATE_TOPOLOGY_PERIOD.  Answers take
\* milliseconds, and the last retry of a request is written before that time: none
\* of the module's is on the bus.  A sweep has published the object or is due.
Age(o) ==
  /\ phase \in {"clearPub", "clearList"}
  /\ \E a \in Addresses : o \in {list[a], pub[a]} \ aged
  /\ \A x \in inflight : x.addr # objects[o].addr
  /\ aged' = aged \cup {o}
  /\ sweepDue' = (sweepDue \/ (Unpublished(o) /\ Valid(o)))
  /\ UNCHANGED <<objects, listVars, slow, phase, cursor, inflight, appVars>>

SweepTimer ==
  /\ phase = "poll" /\ ~sweepDue
  /\ sweepDue' = TRUE
  /\ UNCHANGED <<objectVars, listVars, slow, phase, cursor, inflight, appVars>>

\* PACKET_TIMEOUT is 13 times SLOW_CMD_PERIOD, so that the slow list is sent but
\* for MaxSlow requests when a set falls quiet.
FallQuiet(o, k) ==
  /\ phase = "poll" /\ Unpublished(o)
  /\ Len(slow) <= MaxSlow
  /\ ~objects[o].sets[k].quiet /\ ~objects[o].sets[k].busy /\ ~SetValid(objects[o].sets[k])
  /\ objects' = [objects EXCEPT ![o].sets[k].quiet = TRUE]
  /\ UNCHANGED <<aged, listVars, slow, loopVars, inflight, appVars>>

\* The answer, and the answers to all repetitions of the request, are lost.
Lose(x) ==
  /\ phase = "receive"
  /\ x \in inflight /\ x.kind \in Lossy
  /\ inflight' = inflight \ {x}
  /\ UNCHANGED <<objectVars, listVars, slow, loopVars, appVars>>

Published == {a \in Addresses : pub[a] # None}

\* The application takes the oldest update.
GetModuleUpdate ==
  /\ updates # <<>>
  /\ mirror' = IF Head(updates).type = "added" THEN mirror \cup {Head(updates).addr}
               ELSE mirror \ {Head(updates).addr}
  /\ updates' = Tail(updates)
  /\ UNCHANGED <<objectVars, listVars, slow, loopVars, inflight>>

Service ==
  \/ BeginService \/ SendSlow \/ SendNoSlow \/ BeginSweep \/ SkipSweep
  \/ PublishInsert \/ PublishAnnounce \/ SweepRefresh \/ SweepDone
  \/ \E a \in Addresses : Hear(a)
  \/ \E x \in inflight : \E again \in BOOLEAN : Arrive(x, again)
  \/ ReceiveDone \/ ClearPub \/ ClearList

Environment ==
  \/ \E o \in 1..Len(objects) : Age(o)
  \/ SweepTimer
  \/ \E o \in 1..Len(objects) : \E k \in Kinds : FallQuiet(o, k)
  \/ \E x \in inflight : Lose(x)

Next == Service \/ BeginServiceBootloading \/ Environment \/ GetModuleUpdate

Spec == Init /\ [][Next]_vars

\* The service is called for ever, its timers expire, bootloading ends, and an
\* answer that is asked for again and again is not lost every time.
FairSpec ==
  /\ Spec
  /\ WF_vars(Service) /\ WF_vars(ReceiveDone)
  /\ SF_vars(BeginService) /\ SF_vars(SendSlow) /\ SF_vars(SweepTimer)
  /\ \A a \in Addresses : SF_vars(list[a] # None /\ \E k \in Kinds : FallQuiet(list[a], k))
  /\ \A x \in AllAnswers : SF_vars(Arrive(x, FALSE))

-----------------------------------------------------------------------------
(***************************************************************************)
(* Properties.                                                             *)
(***************************************************************************)

(* Every module the service knows is either still being initialised or     *)
(* published (or about to be forgotten): no interleaving of the sweep, the *)
(* two clear_old calls and a re-appearance under the same address makes    *)
(* one that is alive and that the application can never see.               *)
NoModuleLost ==
  \A a \in Addresses :
    list[a] # None => pub[a] = list[a] \/ Unpublished(list[a]) \/ list[a] \in aged

(* What the application believes of an address after the first n updates.  *)
Believed(a, n) ==
  \/ \E j \in 1..n : /\ updates[j] = [type |-> "added", addr |-> a]
                     /\ \A i \in j + 1..n : updates[i].addr # a
  \/ a \in mirror /\ \A j \in 1..n : updates[j].addr # a

(* The updates tell a consistent story: a module is added only when it is   *)
(* unknown and removed only when it is known, and whoever replays them all  *)
(* ends with the published list.                                           *)
UpdatesTellTheList ==
  /\ \A j \in 1..Len(updates) :
       updates[j].type = "added" <=> ~Believed(updates[j].addr, j - 1)
  /\ phase # "announce"
       => \A a \in Addresses : Believed(a, Len(updates)) <=> a \in Published

(* The application is never handed an object that the service has stopped   *)
(* updating, except one that is about to be removed as too old.            *)
PublishedIsLive ==
  \A a \in Addresses : pub[a] # None => pub[a] = list[a] \/ pub[a] \in aged

(* A module that keeps talking is published in the end: a list that is not *)
(* complete is asked for again (eigen_parameters.h:43, 147-154).  The code *)
(* does not do it: a lost answer to a request for mailboxes is the last.   *)
EventuallyPublished ==
  \A a \in Addresses :
    <>[](list[a] # None /\ list[a] \notin aged) => <>(pub[a] # None)

MailboxesComplete(a) == list[a] # None /\ SetValid(objects[list[a]].sets["mailbox"])

(* What it does do: whatever answers to requests for parameters are lost,  *)
(* they are asked for again until the module is published, if the list of  *)
(* mailboxes came through.                                                 *)
ParametersAreAskedAgain ==
  \A a \in Addresses :
    <>[](MailboxesComplete(a) /\ list[a] \notin aged) => <>(pub[a] # None)

(* A set that says it is valid has read every one of the parameters it      *)
(* expects (eigen_parameters.h:192-196).                                   *)
ValidMeansComplete ==
  \A o \in 1..Len(objects) : \A k \in Kinds :
    SetValid(objects[o].sets[k]) => 1..objects[o].sets[k].expected \subseteq objects[o].sets[k].got
=============================================================================
