# A TLA+ verification of the Eigenbus host library

Eigenbus is a serial protocol that runs "between a strict tree (no loops!) of modules"
(`src/README.md`). The library in `src/` is its host side: the application calls
`service_eigen_comms()` again and again from one thread, and from the same or from another
thread sends commands and reads the modules, the statistics and the updates. This directory
holds TLA+ models of the library, translated from its code, the TLC configurations that check
them on small instances, and proofs that TLAPS checks for every value of the constants.

Contents: [1 the system](#1-the-system), [2 what is hard](#2-what-is-hard-about-it),
[3 modules and plan](#3-modules-and-plan), [4 packet tracker](#4-packet-tracker),
[5 module lifecycle](#5-module-lifecycle), [6 topology tracker](#6-topology-tracker),
[7 bootloader](#7-bootloader), [8 Cypress library](#8-cypress-library),
[9 module container](#9-module-container), [10 polls, groups, variables](#10-polls-groups-variables),
[11 receiver](#11-receiver), [12 proofs](#12-what-is-proved),
[13 findings and further configurations](#13-where-code-and-comments-disagree),
[14 not modelled](#14-what-is-not-modelled), [15 how to run](#15-how-to-run-it).

## 1. The system

One call of `service_eigen_comms` (`eigen_comms.cpp:341-445`) does, in this order:

1. reset or time out the filters of the packets written earlier, and write again those to retry;
2. unless the bootloader is active: write all queued commands, at most one of the slow ones, the
   polls that are due, and sweep over the modules that are being initialised (every 50 ms);
3. read bytes, cut them into packets, and process each response: make or refresh its module,
   apply the response, credit it to a filter;
4. sweep the satisfied filters out of the queue;
5. forget modules that have been silent, collect the updates, and let the topology tracker
   process its copy of them.

| component | state it keeps | operations | interacts with | correct when |
|---|---|---|---|---|
| **Packet tracker** `eigen_packet_filter.*` | `packet_filter_list` (deque), `packets_out`, six counters | `add_packet`, `match_response`, `handle_timeout_packets`, `handle_successful_packets` | service loop writes what is in `packets_out`, passes responses in | every packet is decided exactly once, within its retry budget, from the answers it really got |
| **Service loop** `eigen_comms.*` | `enabled`, `communication_config`, `cmd_list_`, `cmd_list_slow_`, the module lists, timers | `service_eigen_comms`, `process_packet`, `add_module`, setters, `list_updated`, `get_module_update` | drives all other components; shares flags with the application | each call returns; nothing is lost between its steps |
| **Module lifecycle** `eigen_comms.cpp`, `eigen_parameters.h` | `module_list_`, `module_list_pub_`, `module_init_list_`, `list_update`, two `EigenParameterSet`s per module | `add_module`, the initialisation sweep, `clear_old`, refresh of incomplete sets | parameter and mailbox commands and responses; the application | a live module becomes and stays visible, exactly once, complete |
| **Topology tracker** `eigen_topology_tracker.*` | `node_map_`, parents, children, depths, `depth_list_`, `updates_` | `process_updates`, `add_node`, `remove_node`, `update_depth` | updates from the service loop; `EigenModule::update_downstream` decides what it hears | edges, depths and lists agree; the graph shows what modules report |
| **Module object** `eigen_module.*` | ports with their consistency counters, parameter sets, measured values | `update_downstream`, `valid`, `set_*` | written by responses, read by the application | a port change is believed only after enough equal reports |
| **Polling** `eigen_packet_poll.*` | map of polls with period and time | `add_command`, `set_enable`, `remove_command`, `service_poll`, `get_commands` | service loop takes the commands that are due | each poll keeps its period and is never sent twice |
| **Update queue** `eigen_update.*` | an `EigenUpdate` in two queues at once | `push`, `pop` | service loop, application, topology tracker | an update lives until its last reader is done |
| **Bootloader** `eigen_bootloader.*` | `active`, `finished`, target, ack flag, data deque, progress, thread | `process_command`, `run_operation`, `open/close/read/write` | service loop (reroutes packets while active), Cypress library on its own thread | one operation at a time, each ends, the data read answers the request |
| **Cypress library** `cybootloaderutils/` | packet buffers of one request | program, verify, erase | calls back `open/close/read/write` | rows arrive whole, success is not reported falsely, the device leaves its bootloader |
| **Containers** `eigen_vector_map.*`, `EigenQueue` | a map and a sorted vector of the same modules | `insert`, `get`, `clear_old`, iteration | both module lists | map and vector agree |
| **Framing, parser** `eigen_comms.cpp:266-318`, `eigen_packet_parser.*` | line buffer and position | `parse_packets`, `parse_packet` | bytes in, responses out | no byte outside the buffer, each line is one packet |
| **Commands, responses** `eigen_commands/`, `eigen_responses/` | the text and fields of one packet | `update_module` | write to modules | a response changes only its module |
| **Groups, variables** `eigen_groups.*`, `eigen_variable.*` | a list of modules, the keys of their polls, a multimap of their variables | command and poll all modules, compare, parse | polling and the command queue; application | no poll without a holder; modules said to agree do |

`PROJECT.json` lists them with their source files and what is modelled of each.

## 2. What is hard about it

The full list, with the line each hazard bites at and the properties that watch it, is under
`hazards` in `PROJECT.json`. By subject:

* **Time.** Filters, retries, the two silences that forget a module (`clear_old` is called twice
  with two readings of the clock), the 50 ms sweep and the request timeouts all use
  `std::chrono::system_clock`, which may step back, and unsigned differences, which then wrap.
* **Late and lost answers.** An answer may come before its filter is retried, while the copy is
  in `packets_out`, after the retry, after the drop. Matching is by substring over all filters.
* **Containers changed while they are walked.** The timeout loop appends to the deque it empties;
  the success sweep and the initialisation sweep erase at their iterator; removing a node moves its
  children.
* **The application thread.** `max_retries`, `enabled`, `list_update` and both lists are read and
  written between any two steps of the service, each under a lock of its own at most.
* **Long sequences of legal calls.** A module goes silent and returns under the same address while
  its old object is still in one of three lists; modules are replugged until edges form a cycle.
* **Two threads without locks.** The bootloader tests and sets its flags on the service thread and
  on the thread of an operation, and a module repeats what was not acknowledged.
* **Things that must happen in the end.** A packet is decided; a call of the service returns; a
  module that talks is published although answers are lost.

## 3. Modules and plan

| module | models | status |
|---|---|---|
| `EigenPacketTracker` | packet tracker, and the phases of the service that drive it | checked, safety proved |
| `EigenPacketLedger` | what the tracker promises | implemented by `EigenPacketTracker` (checked and proved) |
| `EigenPacketTrackerProofs` | theorems about `EigenPacketTracker` | proved |
| `EigenModuleLifecycle` | lists, parameter sets, sweep, `clear_old`, added/removed updates | checked, safety proved |
| `EigenTopologyTracker` | `process_updates` and all node, edge and depth operations | checked, safety proved |
| `EigenBootloader` | service thread and operation thread of the bootloader, calls of the Cypress library, bus | checked, safety proved |
| `CyBtldr` | the Cypress library: file, rows, requests, errors, abort, with the device | checked, proved |
| `CyBtldrPromise` | what an operation of it promises | implemented by `CyBtldr` (checked and proved) |
| `EigenVectorMap` | the container of modules, map and sorted vector | checked, proved |
| `EigenModuleSet` | what the container promises | implemented by `EigenVectorMap` (checked and proved) |
| `EigenModuleReader` | composes `EigenVectorMap` with the service that publishes and the application that reads the list, `list_updated` | checked, proved in `EigenVectorMapProofs` |
| `EigenPacketPoll` | polling manager, command queue, the part of the loop between them | through `EigenModuleGroup` |
| `EigenModuleGroup` | composes `EigenPacketPoll` with groups and the calls of the application | checked, proved |
| `EigenVariable` | typed values, matches, and what a group shows of them | a state machine of its own, checked, proved |
| `EigenReceiver` | bytes to lines, lines to port changes, changes to updates | checked, proved |
| `EigenVectorMapProofs`, `EigenModuleGroupProofs`, `EigenReceiverProofs` | theorems about these three; the second has those about `EigenVariable` too | proved |
| `EigenModuleLifecycleProofs`, `EigenTopologyTrackerProofs`, `EigenBootloaderProofs`, `CyBtldrProofs` | theorems about these four | proved |
| `MC...` | instances: constants of the modules above for TLC | |

The components meet in the service loop and nowhere else, and pass each other only updates,
commands and responses; each module therefore models the part of the loop that drives its
component, with the rest of the loop as nondeterminism (any command, any response, any update the
loop can produce). Each is parameterised by `CONSTANTS` with named assumptions, has one action per
step of the code between two points at which another actor can see or change state, and its
invariants are conjunctions of named parts. None declares a `RECURSIVE` operator, so that all can
be proved about. Operators whose comment begins with *Deliberate fault* model no code: each is a
definition with a plausible bug in it (a lost `else`, a stale time, an iterator advanced twice),
kept beside the definition it corrupts so that a reader can see that each property is violated when
the code is wrong in that way (`mutants` in `PROJECT.json`).

What would come next: the composition of the packet tracker with the lifecycle (its retried list
requests are the answers that `EigenModuleLifecycle` lets arrive more than once); the composition
of `CyBtldr` with `EigenBootloader`, which has the order of its calls only.

## 4. Packet tracker

`EigenPacketTracker` models `EigenPacketTracker`, `EigenPacketFilter` and the phases of
`service_eigen_comms` that call them: `timeout` (the loop of `handle_timeout_packets`), `resend`
(writing `packets_out`), `send` (the command lists), `receive` (`process_packet`), `success` (the
sweep) and `idle`. Every iteration of a loop is an action of its own, so that the clock and the
application thread (`set_eigen_config`, `set_poll_enabled`) interleave with it.

*State.* `filters` is `packet_filter_list`, in order, each filter with the fields the code
compares; `packetsOut` is `packets_out`; `limit` is the copy of `max_retries` that
`handle_timeout_packets` takes when it begins; `cursor` is the iterator of the sweep; `uidPolls`
counts the UID polls that unrequested responses put in `cmd_list_`. `now` is the clock. Packets
have an id that the code does not have, so that the history variables `fate` and `credited` can say
what became of each; no guard reads these. `counters.forgotten` is also history: it counts filters
that the code pops without any counter (a filter that has no packet to resend). The bus is
external: writing a packet makes every module it addresses *owe* an answer, and an answer may be
received at any later time, once per write, or never.

*Abstractions.* Texts are model values and `packet.find(filter)` is the relation `Contains`. One
address can match a filter only once (`eigen_packet_filter.cpp:266-272`), so that the list of
matched responses is a set of addresses. Latencies, rates and the raw packet log are left out.

*Runs.*

| run | what it asks | result |
|---|---|---|
| `tracker` | two modules, two tracked packets (addressed, broadcast, without response, announced items), answers lost and late, `max_retries` changed and the clock set back at any time: all safety properties but `SortedByTime` | holds |
| `tracker_liveness` | one module, stray and unparsable responses, a clock that only goes forward: the queue is sorted, the ledger is kept, every packet is decided | holds |

*Properties.* `FatesAgreeWithAnswers`: a packet counted as dropped had no answer credited, one counted as success
had one if it expected one; this rests on the order of the phases, since the timeout loop does not
look at answers to addressed filters. `IdleQueueWaits`: nothing satisfied and nothing unwritten
survives a call. `WriteBudget`: a packet is written at most `max_retries + 1` times and is not
dropped before, for a `max_retries` that was configured at some time. `SortedByTime`: what the timeout
loop relies on. `VerdictsAreFinal`: late answers and retries change no verdict.
`EventuallyDecided`: liveness; it needs each call of the service to return.
`KeepsLedger`: the tracker implements `EigenPacketLedger`, a set of packets without order, time or
texts. Each is decided once; a response is credited to exactly one that waits, or counted as one
nobody asked for; only a packet that misses its response is repeated, dropped or forgotten, and the
first two only as a retry setting allows. This is what the service may believe of the statistics.
Two consequences are proved only: `Conservation` (sent = success + dropped + forgotten + still queued) and
`TrackedOnce` (a popped filter's copy neither doubles nor replaces another packet's).

*Bounds.* `MaxSent` packets are tracked: two are the least for order and for one filter taking the
answer of another, and the queue has no behaviour that needs a third (the loops look at one filter
at a time). `MaxStray` unsolicited responses: one suffices to ask for UIDs. `PacketTimeout` is 1 or
0 units and time stops when all filters have timed out, since nothing else depends on it.
`RetrySettings` are 0 and 1: no retry, one retry, and a change between them in either direction.

*Fairness.* `WF(Service)`: the library does nothing unless the application calls `service_eigen_comms`
in a loop, so it is taken to do so for ever; `WF(Tick)`: the clock goes on. `EventuallyDecided` assumes that the
application leaves the service enabled in the end. No answer is assumed ever to arrive.

## 5. Module lifecycle

`EigenModuleLifecycle` models `add_module`, the slow command list, the sweep over
`module_init_list_`, `EigenParameterSet`, the list responses of parameters and mailboxes, both
`clear_old` calls and `get_module_update`.

*State.* An `EigenModule` object is a number; `objects` holds the address and two parameter sets of
each. `list`, `pub` and `initList` are `module_list_`, `module_list_pub_` and `module_init_list_`;
the same object may be in any of them, and two objects may have one address, one in `initList` only.
The insert into the published list and its update (`eigen_comms.cpp:401-412`) are two steps, between which
the application comes. The flag between them, and how the application reads the list, are in
`EigenModuleReader` (section 9).

*Abstractions.* Times are what the code compares: `aged` (silent for twice the topology period),
`quiet` (a set not updated for `PACKET_TIMEOUT`), `sweepDue`. Each may become true only while the code
can see it before it is reset, which loses no behaviour and keeps the instance small. By the time a
module is aged (silent for 2018 ms) none of its answers is taken to be on the bus: an answer takes
milliseconds, and the last of the two default retries of a request is written 1.2 s after it. Without this
assumption `NoModuleLost` fails: if all answers of the new object arrive between two sweeps, both
objects are valid in one sweep and `insert` keeps the old one. By then a sweep was made or is due. The retries of the packet tracker are answers that arrive
more than once.

*Runs.*

| run | what it asks | result |
|---|---|---|
| `lifecycle` | one parameter, two objects for one address (forgotten and returned), any answer lost or repeated, bootloading at any call: all safety properties, and that parameters are asked for again | holds |
| `lifecycle_mailbox` | one object with a mailbox, any of whose answers may be lost: is a module that talks published? | violated |

*Properties.* `NoModuleLost`: a known module is published, being initialised, or about to be
forgotten. `PublishedIsLive`: what the application can get is what the service updates.
`UpdatesTellTheList`: MODULE_ADDED and MODULE_REMOVED alternate for each address, and replaying them
gives the published list. `ValidMeansComplete`: a set that counts its entries
and says it is complete has all of them. `ParametersAreAskedAgain`, liveness: a module that talks and whose
mailboxes are complete is published, however many answers to requests for parameters are lost. Without the
condition on mailboxes this is `EventuallyPublished`, which is what `eigen_parameters.h:43` says, and which `lifecycle_mailbox`
refutes: the request for the mailbox list is marked in progress, and nothing takes that mark away when its
answer is lost.

*Bounds.* `MaxObjects` 2: one address can have two objects alive at once only because the first was
forgotten, and a third repeats the second. `MaxSlow` (requests that wait in the slow list when a
timeout expires) is 0 or 1: the list is drained thirteen times per `PACKET_TIMEOUT`, so that with few modules
it is (nearly) empty by then. One address suffices, since no code path relates two addresses except the
walk over `initList`, which the second object lengthens. A list of one parameter has two entries, its length and the
parameter, and so an incomplete set that is not empty. In `lifecycle` modules have no mailbox; the
set of mailboxes is a second instance of the same operators, and the theorems hold for both.
`lifecycle_liveness.cfg` repeats the liveness property with a slow list that is not drained at once (section 13).

*Fairness.* `WF(Service)` and `WF(ReceiveDone)`: calls return and are repeated. `SF(BeginService)`:
bootloading ends in the end, so that calls without it recur. `SF(SendSlow)`, `SF(SweepTimer)`,
`SF(FallQuiet)`: the three timers expire however often the loop passes them by.
`SF(Arrive(x, FALSE))`: an answer asked for again and again is not lost each time. Both liveness properties assume
a module that is known and not silent from some time on.

## 6. Topology tracker

`EigenTopologyTracker` models `process_updates`, `add_node`, `remove_node`, `add_child`,
`set_parent`, `update_depth`, `add_depth`, `remove_depth`, and the loop that feeds them: publishing,
hearing and forgetting modules and believing changes of their ports. `graph` holds the fields of all
nodes as functions of the address and the depth lists as a sequence of sets; each operation on it is
an operator from graph to graph, and the walk of `update_depth` is the sequence of nodes that
`Visit` gives, depth first, children in the order of the map.

The two calls of `clear_old` (`eigen_comms.cpp:437-438`) are two steps (`ClearPublished`, `ClearKnown`), since
each reads the clock: a module may become too old between them. It then stays in the published list until the
next call, after its address may have returned as a new object; and an object that was not yet
published when it left the list of all modules is published all the same (`PublishLeft`). `current` says
whose published object is the one in the list of all modules, `left` for which addresses an object that
left it waits to be published. That an object which was too old for one call is too old for the next takes the
clock not to step back between the two.

| run | what it asks | result |
|---|---|---|
| `topology` | three addresses that appear, move, build cycles under conflicting addresses and disappear: all safety properties | holds |
| `topology_cycle` | two addresses, no conflicts: is depth the distance from the root node? | violated |

*Properties.* `GraphAgrees` joins three facts that break together: parents and children are inverse
and lead to no deleted node; the depth lists hold each node once, at its depth; and the recursion
of `update_depth`, which guards only against the node it began at, ends on every graph that can be
reached, cycles included. `DepthFollowsParent`: a node that is on no cycle and below none
is one deeper than its parent, whatever changed above it. `PublishedHaveNodes`: after each call
every published module has a node.

*Bounds.* `Conflicts` says whether several modules may have one address (then anything may be reported
at a port) or ports are those of modules that are plugged in one place at a time. With
`MaxChanges` 2 believed changes three nodes form a chain, joined from either end (so that a node moves with
its child), or a cycle of two beside a third; what is below a cycle is left to the theorems. `MaxUpdates` 2 updates per call include an addition and a port change of
the same call in either order; removals of
objects that outlived the list of all modules come on top. `MaxLeft` is 1: one such object at a time waits to be published. `Ports` is 1: a second port adds children to the same node, which the other
addresses do as well; the root has as many as there are modules.

## 7. Bootloader

`EigenBootloader` models two processes. The service thread writes START (`SendStart`, then
`StartTarget` and `StartActive`, the assignments of `process_command`), writes `cmd_list_`
(`WriteCommand`) and handles what modules say (`Receive...`; a hello is tested, `bootloader_ack` is
tested and set, and the thread is started in separate steps). The operation thread runs
`run_operation`; its calls of `bootloader_open`, `_write_data`, `_read_data` and `_close` come in
the order in which `cybtldr_api2.cpp` makes them: the file may be refused, the connection is opened,
requests are written and answered, the exit request is written, the connection is closed; any
request may be the last, and any answer may be an error.

*State.* The flags, `data` (`bootloader_data`), `seqNum`, `last` and `cmds` are the members of the
class. `threads` has a record for each thread, ended ones included. The bus is a queue in each
direction, since START, data and commands keep their order on the wire, and each module has the
state of its bootloader, which is known only from what the host sends and expects: it says hello
until acknowledged, answers a request with the next sequence number, repeats its last answer when
asked, and asks for a request again that came spoilt.

*Abstractions.* A data packet is which request of which operation it belongs to and its sequence
number; that a packet does not parse is one value. One packet is one request, as `MaxTransferSize` 52
is below `MAX_PACKET_CHARS` 60. 250 ms without data is more than a packet and its answer take:
a timeout when something is on its way is a fault, as is a hello repeated when the ACK is under way.

| run | what it asks | result |
|---|---|---|
| `bootloader` | one module, two operations of up to two requests, one fault, STARTs at any time: safety, and that reads end, until an operation is raced | holds |

*Properties.* `AnswerIsToRequest`: what a read returns is the answer to the request written last, not
to an earlier one of the same operation, although answers come twice. `OneOperationPerStart` and
`OperationOwnsTheFlags`: no START begins two threads, and from begin to close the flags and the
target are those of the one that runs, although STARTs are sent while it runs and wait in the queue.
`ReadEnds`: each read ends, although packets are lost.

*Where they stop.* `bootloader_close` resets three flags one after the other (`eigen_bootloader.cpp:210-212`), and
no lock keeps the service thread from handling a START or a hello in the meantime. Nothing in the code or
its comments excludes that, so the model does not either: the application sends a START whenever the code takes
one, and the operation thread closes at any point of a handler. What happens then is recorded by a history variable:
`raced` becomes `TRUE` when a START is written, or a hello is half handled, within the three steps.
From then on `OneOperationPerStart`, `OperationOwnsTheFlags`, `ReadEnds` and `AnswerIsToRequest` say nothing, and
`bootloader_close.cfg` (section 13) shows that they could not: the close of the first operation overwrites the
flags of the START behind it. The run follows behaviours up to the step that races (the constraint
`UntilRaced`), the state it leads to included; behind it only `TypeOK` would be left to check, which is proved.
Two more history variables mark what the code allows and the properties cannot have. `mistaken`: an answer that an
*earlier operation* left in `bootloader_data` was taken for one of this one, since `bootloader_open` sets the sequence
number back to 0 and does not empty the deque; `AnswerIsToRequest` therefore speaks of an operation's own answers.
`overtook`: a START was written before commands that waited in `cmd_list_`, such as the exit request of the last
operation, which then takes the module out of its bootloader; `ReadEnds` does not count with it.

*Bounds.* `MaxFaults` counts packets lost, spoilt or refused, and untimely timeouts; one makes the host or
the module repeat itself, so that answers come twice. With two requests the answer to
the first can be taken for that to the second, and with two operations the flags left by the
first and its answers are met by the second. The theorems hold for any number of each.

*Fairness.* `WF` for the steps of each thread, `SF` for `WriteCommand` and `ReceivePacket`, since each
call of the service both writes what is queued and reads what has come; `WF(ModuleTakes)` and
`WF(Hello)`: modules take packets and repeat their hello. Faults are finite and so need none.

## 8. Cypress library

`CyBtldr` models `CyBtldr_RunAction` (`cybtldr_api2.cpp`) for both file formats and the actions PROGRAM,
ERASE and VERIFY, the API functions it calls, the commands they build and the parser of the file, with
the bootloader of the device at the other end. `EigenBootloader` (section 7) lets the same
library end in any way it could; this module says which ways those are.

*State.* `at` is the request or line the library is at, `then` the request that follows a
`ValidateRow`, `row` and `sent` the row being sent and the offset in it, `validRows` the static
`g_validRows`, emptied when an operation begins, `abort` is `g_abort`, set by another thread at any time.
`wire` holds the request or answer that is on its way. The device keeps the blocks of
a row until a request commits them.

*Abstractions.* A line of a file is its first characters, its length, and the row it stands for; the
bytes of a row are their positions, a block is a pair of positions. That is enough to see whether a row
arrives whole and in order, and whether a packet exceeds `MaxTransferSize`. Of answers, the status
and the size of the flash are kept.

*Run.* `cypress`: two operations, one after the other, on twelve files: rows of 128 and 256 bytes
and a row of EEPROM in the older format, of 256 and 512 in the newer, rows that do not exist,
rows that are too short, lines that are no rows, a line `@APPINFO` that is malformed, a last line without a newline, files of another
kind; with one fault (a callback fails, a request is refused, a row is written badly, an answer does
not come) and an abort at any time.

*Properties.* `RowsArriveWhole`: what a request that programs or verifies a row completes is that
row, no byte missing, twice, or of another row, and no packet is larger than the host can send.
`KeepsPromise`: `CyBtldr` implements `CyBtldrPromise`. Success is reported only when the
rows of the file are in flash (not in flash, after ERASE), although rows are written badly without a
word and operations repeat after failures; one request is on its way at a time; and
each operation that was opened and whose communication works asks the device to leave its bootloader before it
closes. Two operations are needed because the flash, `g_abort` and `g_validRows` outlive one.

*Bounds.* `MaxTransferSize` is 52, as in `eigen_bootloader.cpp:80`. The sizes of rows matter, not
their number: with 52 bytes the block and the last packet of 64, 128, 256 and 288 bytes (older format)
and of 256 and 512 (newer) fit; 128 bytes in the newer format do not (`cypress_rows`, section
13). The host passes 3 for the application (`eigen_bootloader.cpp:123`), which becomes
`INVALID_APP`; the instance has 1 as well.

## 9. Module container

`EigenVectorMap` models the class of that name: a map from address to module and a vector of the
modules in the order of their addresses, found by binary search in one and by key in the other.
`Insert`, `RemoveKey`, `Clear` and the look-ups are one step each, as they hold the lock; the loop of
`clear_old` is one step for each iteration, since that is where it can go wrong: it erases at
its counter, and the counter is a byte.

`EigenModuleSet` is what its users believe it to be: at most one module at each address, and a sweep that
takes out the stale modules, all of them and no other, in ascending order. The refinement mapping is
`members <- map_`, `sweeping <- pc = "sweep"`, `removed <- retval`.

`EigenModuleReader` extends it by the two threads that use the published list. The service inserts a module
(`Publish`), raises `list_update` (`RaiseFlag`) and clears old modules. The application reads the flag
(`ReadFlag`), clears it (`ClearFlag`), and takes the modules one after the other, each with a call of
`get_module_by_index` that holds the lock of the container for itself (`ReadModule`). Any of these steps comes between any
two of the other thread, but for the lock of the list. `shifted` is a history variable: during the reading, a module the
reader had passed left the list, so that those behind moved to lower indices.

*Run.* `vectormap`: three addresses, two objects for one of them (a module that came back), with the reader.
`MapAndVectorAgree`: both hold the same modules, in order, and the "Vector and Map mismatch" of
`remove` is never thrown. `NoMissedAddition`: when `list_updated()` would return false and the reader
is through, it has got every published module, although the flag is raised after the insert and cleared before the
reading, and modules are inserted and removed meanwhile. The exception is `shifted`: an index then
skips a module, and a removal does not raise the flag, so that the application does not get that module until something else
is published (MODULE_REMOVED, which it gets as an update, is what tells it). `ClearOldEnds`:
`clear_old` returns. `KeepsSetPromise`: the refinement.
*Bounds.* A byte has four values here (`Bytes`), so that the container can be full and the counter
reaches its limit; no module is at the highest address, which means every module. *Fairness.* `WF(SweepStep /\ Other)`:
a function that was entered runs on.

## 10. Polls, groups, variables

`EigenPacketPoll` models the polling manager, the command queue and the part of the service loop
that drives them: write the queue empty, let the manager clone what is due, move the clones to the queue.
With the bootloader active only the last is done. `EigenModuleGroup` extends it by the groups
of the application and its calls. A call that goes over the modules of a group is a sequence of
steps (`app` holds what is left of it), so that the service thread comes between any two; a
multimap hands out its entries in any order (`SetToSeqs`).

*State.* `poll_map_` keeps period, enable and the time since the last clone, up to `MaxPeriod`; an unsigned
difference with a clock that stepped back counts as that maximum. `freed` holds the values on the heap that
were deleted. `asked` is the application's own memory of the polls it added without a group.

`EigenVariable` has the variables of modules (`held`), which list entries make (`ListEntry`) and values
change (`Answer`, `parse_value`), and what the constructor of a group takes from them (`Show`). The group
keeps references: `strong_match`, `values_match` and `common_keys` are as the code computes them, from
the values of the moment. It shares no state with the polls, so `MCEigenModuleGroup` lets one of
the parts move in a behaviour: an application with groups, one without, or the variables. A text is known by what `stoull` and `stod` make of it.
`parse_value` does not accept the largest value of a type; `EigenUint32::strong_match` compares
values only when names or types differ, because of a missing `return` (`eigen_variable.cpp:165`).

| run | what it asks | result |
|---|---|---|
| `groups` | a group of two modules, an application that polls the same modules without it, bootloading and steps back of the clock at any time; and groups of up to three modules with four variables, answers before and after | holds |
| `group_write` | a group sends a parameter write | violated |

*Properties.* `PollsDoNotPile`: a poll waits in the queue at most once, also when it is removed, added
and enabled again while its clone waits. `NoOrphanPoll`: each poll is held by somebody who can
remove it, at each step of a call that removes several. (It does not say that a poll stays while somebody
wants it: two holders of a poll share one entry, and the first to remove it stops it for the
other.) `EnabledPollsAreSent`: a poll that stays enabled is written again and again, while the application adds, removes,
enables and sends other packets without end. Three things can keep it from being written, if they recur without
end, and nothing else can: its time is set back (`SetBack`: the clock steps back, or the poll is added anew), it is cleared
from the queue (`Cleared`), or the queue is fed while the call empties it (`Fed`), so that the call does not get to the
polls. TLC finds a poll that is never written when any of the three is left out of the property.
`MatchIsEquality`: a group says that its modules agree exactly when all have the same type and
value, whatever answers came since it was made and in whatever order the multimap has them; `uint32` is left out,
since for it that is false (`groups_uint32.cfg`), and variables that were deleted under the group, of
which the code reads freed memory. `CommonKeysAreCommon`: the common
keys are the names that all modules have, each once, whatever the order. It assumes that the
names of one module differ; the code calls every list entry without a name "ERR", and two of those
would count as two modules.

A list entry that is answered twice, as after a retry, deletes the variable it made first
(`eigen_parameters.h:99`), to which a group may refer by then: `groups_dangling.cfg` (section 13).

*Bounds.* One group of two modules, and the application as second holder of a poll: the
polls of a second group meet those of the first in `poll_map_` only, as those of the application do. `MaxCalls` counts
the calls for groups, and commands that carry a value: three make, poll and destroy a group. In behaviours
without a group, nothing else is counted: polls and commands of the application and steps
back of the clock recur for ever, which is where a poll could starve. Beside a group there may be one of them (`MaxAlone`).
A command is sent when the queue is empty (`MaxQueue` 1). One period; periods have no
effect on each other. Four variables (`MaxVariables`) give three
modules one each under a name, or two modules two; of the types one is short and refuses a text. One variable is
deleted under a group (`MaxDangling`). TLC has no number as large as the largest
`uint32_t`; `MCTop` is one no text comes near.

*Fairness.* `WF(ServiceStep)`, `WF(TimePasses)`: the application calls `service_eigen_comms` in a loop and
time goes on. The property assumes that polling and the poll stay enabled and the bootloader leaves the bus.

## 11. Receiver

`EigenReceiver` follows a packet from the wire to the application: `parse_packets` character by
character (`ReadZero`, `ReadNewline`, `ReadCharacter`, `EndRead`), `process_packet` with the choice of
the response by its first one or two characters, `update_downstream` with the consistency counter of
a port, `add_module_update`, which puts one object into two queues, `process_updates` and the
application's `get_module_update`.

*Abstractions.* A packet is sent as two symbols and a newline, and the checksum is exact: a line is accepted if
and only if it is both symbols of one packet. Of the bus, one symbol may be lost, spoilt or have a zero
byte before it. A read ends after any symbol. There is one module, with one port; a port that has no
name asks for names each time, which is left out.

*Run.* `receive`, with these properties. `GoodLinesArrive`: a line that comes after a newline and
is not touched by a fault is handed over complete, although reads cut it anywhere, a line before it overran the buffer
(the flag `valid` is local to a call, and forgotten when the next call goes on with the same
line) or was cut by a zero byte. `BelievedWasConfirmed`: a port is believed to have changed only when
the new address was reported once more than `TOPOLOGY_CONSISTENCY_COUNT` times, with nothing but the
old one in between; since a report of the old address does not reset the counter, the reports need not
follow each other. `TrackerReadsFirst`: when the service has returned, and until it processes packets again, the
tracker has read every update. The application may take updates at any time, from a thread of its own
as well. If it takes them between two calls, it deletes none that the tracker is still to read, as the comment at
`eigen_comms.cpp:440` ("Otherwise the interface might delete the updates first") has it. If it takes
them during a call it can: an update is in its queue before `process_updates`
(`eigen_comms.cpp:145-146`), and `receive_threads.cfg` finds `UpdatesAreAlive` violated.

*Bounds.* The buffer holds three symbols and a line has two, so that two lines whose newline was lost overrun
it. Five lines and `TOPOLOGY_CONSISTENCY_COUNT` 2 let a port change be believed and another one begin, with one
report of something else between. One fault spoils one line, or joins two.

## 12. What is proved

`EigenPacketTrackerProofs`, for any number of modules, packets, texts, any matching relation, any
set of retry settings, any timeout:

| theorem | states |
|---|---|
| `TypeCorrect` | `Spec => []TypeOK` |
| `Invariance` | `Spec => []IInv` |
| `ConservationHolds`, `TrackedOnceHolds`, `FatesAgree`, `IdleQueue` | the safety properties of section 4 |
| `BudgetHolds` | `WriteBudget` |
| `LedgerKept` | `Spec => KeepsLedger`: each step is one of `EigenPacketLedger` or a stutter |
| `VerdictsFinal` | the action property `VerdictsAreFinal` |
| `Sorted` | `SortedByTime`, when the clock does not step back |

Assumptions: `BusAssumption` and `BoundAssumption` of `EigenPacketTracker`, which only give the constants
their types, and for `Sorted` alone that `ClockStepsBack` is `FALSE`; `tracker_clock` shows that it
cannot be left out.

*Argument.* None of the properties is inductive alone. That a dropped packet had no answer credited
needs that an addressed filter has none during the `timeout` phase, which holds because the sweep
of the last call took every filter that had one, which needs that the iterator passed over none:
this is `PhaseDiscipline`, what the queue may hold in each phase and behind the cursor. It speaks of
filters and the verdict of history, so `QueueMirrorsHistory` says that a filter, copied or not, agrees
with what was asked and credited. `Conservation` and `TrackedOnce` need `Numbering` (ids are given out
in order) and each other. Types need `SilentCommands` (only what expects an answer is owed one), so
that `ProcessResponse` is given a text. `IInv` is the conjunction; the proof has one lemma per action,
with facts about erasing, rotating and crediting a queue stated once. `Sorted` has its own
inductive invariant, that no filter is younger than the clock. So has `BudgetHolds`: a packet is paid for when its
retry is queued and not when it is written, so that `Budget` counts the writes of a packet and its
copies in `packets_out` together (there may be several, if the clock goes on during the loop), and ties
the sum to the retry count of its filter. Each retry is compared with the limit read at the
beginning of the loop, which is a setting the application has given, if not the last.
`LedgerKept` maps the queue to the set of its packets. Popping, rotating and erasing become the removal
or replacement of one packet because no other filter has its id (`TrackedOnce`); a response that
matches has a first filter to match, the least index, and no second one; that the front may be
dropped or repeated needs `PhaseDiscipline` (it misses its response) and the limit of `Budget` (a setting).

`EigenVectorMapProofs`, for any modules, addresses and number of bytes:

| theorem | states |
|---|---|
| `TypeCorrect`, `AlwaysAgree` | `Spec => []TypeOK`, `Spec => []MapAndVectorAgree` |
| `AlwaysSwept` | what the counter of `clear_old` has passed is fresh |
| `AlwaysMeetsAll` | counting from 0 to `size()` meets each module once, the same as by address |
| `Refinement` | `Spec => KeepsSetPromise`: each step is one of `EigenModuleSet` or a stutter |
| `ReaderKeepsContainer` | `ReaderSpec => Spec`: what is proved of the container holds with the two threads that use it |
| `NoneIsMissed` | `ReaderSpec => []NoMissedAddition`, one module per call of the reader |

*Argument.* The inductive invariant is `TypeOK`, `MapAndVectorAgree` and `SweptAreFresh`. Map and vector
agree only because the vector is sorted, which binary search relies on; removing from both needs
that what is found at the lower bound is the module of the map. That `EndSweep` of the promise may be
taken when the counter meets the size needs `SweptAreFresh`, which erasing at the counter must not
break. That `ind + 1` does not wrap needs that a sorted vector of addresses below `Bytes - 1` is
shorter than `Bytes`, which is shown by injection into the addresses. For `NoneIsMissed`: while the flag is down and nothing has
shifted, what is in the list below the reader's index has been read. An insert may move modules up, so that one is
read twice, and may put one below the index, but then the flag is raised after it; a removal
above the index moves nothing below it.

`EigenModuleGroupProofs`, for any groups, modules, commands, periods and numbers of calls:
`TypeCorrect`, `PollsOnce` (`[]PollsDoNotPile`) and `NoOrphans` (`[]NoOrphanPoll`). *Argument.*
`PollsDoNotPile` needs `Once`: the queue holds no clones when the manager makes new ones, nor while
those wait to be moved, which holds because the queue was written empty before, and not because
of any check. `NoOrphanPoll` needs `StillToStop`: while a group removes polls it still lists them,
and those that exist are in the part of the call that is to come; so none is left when the call
returns and the group forgets them. It is here that the order of the two loops in the destructor
matters. The module also has two theorems about `VariableSpec`, for any types, texts and lists, and as many
modules as a byte can address: `MatchesAreEqualities` (`[]MatchIsEquality`) and `CommonKeys` (`[]CommonKeysAreCommon`). The code compares each variable with the first only; that this says something
of every pair, in whatever order the multimap has them, needs that what a group shows are finitely many
references to variables that exist (`VariableInv`). The keys are listed by counting: since the names of a module
differ, which adding and answering keep, what came under a name by some point is from as many different
modules (`SeenOfEach`), so that only a variable of the last module can list its name, and does when each
module has one; positions in the list are a bijection (`Positions`).

`EigenReceiverProofs`, for any packets, buffer of two characters or more, any number of lines and
faults: `TypeCorrect`, `GoodLines` (`GoodLinesArrive`), `Confirmed` (`BelievedWasConfirmed`) and
`UpdatesAreRead` (`[]TrackerReadsFirst`). *Argument.* `LineInv`: only the end of what is on the wire can be a newline, nothing
is left in the buffer after a newline, and of a line that is well so far the part that is not on the wire is
in the buffer. That the tracker's queue is empty between two calls is inductive: only `process_packet` fills it, and
`process_updates` ends when it is empty. `Confirming`: the address that is counted was reported once more
than the count says since anything but it and the current one was. The count is a byte that may wrap, but it
is never more than the reports there were.

`EigenModuleLifecycleProofs`, for any addresses, lists of any length, any number of objects and requests:

| theorem | states |
|---|---|
| `TypesHold`, `NoneIsLost`, `PublishedAreLive` | `TypeOK`, `NoModuleLost`, `PublishedIsLive` |
| `UpdatesTell` | `UpdatesTellTheList`, for any number of updates the application has not taken |
| `ValidAreComplete` | `ValidMeansComplete`, if a module always reports the same length of a list (`OneLength`) |

*Argument.* What is hard is that an object that was forgotten while it waited in `initList` may be valid and
is then published all the same, at an address that belongs to its successor by then. `LifeInv` says
when that can be. Such an object (`Doomed`) is met by the sweep that is due (`DoomedIsMet`); nothing
else is published at its address, no answer is under way to it, and its successor is not valid yet
(`DoomedIsAlone`); and while an aged object is published, its successor stays invalid until `clear_old` has
been through the published list (`SuccessorWaits`). So `insert` never meets an address that is taken, and
the successor is published when the first is gone. This is where the assumption on answers in flight
(section 5) enters. For the updates, `UpdatesInv` follows one address through the
queue: `Story` is what the application believes after the first `n` updates, and the whole
queue leads it to the published list, but for a module between its insert and its announcement.
`OneLength` is needed: a list that grows after it was complete makes a set valid that is not.

`EigenTopologyTrackerProofs`, for any addresses, any number of ports, changes and updates, with conflicting
addresses or without:

| theorem | states |
|---|---|
| `GraphTypes`, `PublishedNodes` | `TypeOK`, `PublishedHaveNodes` |
| `GraphInOrder` | `GraphAgrees`: edges, depth lists, and that `update_depth` returns |
| `DepthsAreRight` | `DepthFollowsParent`: one deeper than its parent, for a node on no cycle and below none |

The only assumption is `TopologyAssumption`. *Argument.* The inductive invariant `Safe` is `TypeOK`,
`Orderly` and `Announced`. `Orderly` says that the edges agree in both directions and that the lists
hold every node at its depth (`Listed`); one lemma per operation shows that it keeps it, and which
nodes it moves. `UpdateDepth` changes depths only of what it visits, and each of these is taken from the
list of its old depth before it is put on that of the new one, so that the lists hold the same nodes
afterwards although depths wrap at a byte and, in a cycle, are not distances. While `remove_node` hands its
children to the root the graph is not in order: `Orphaning` is what holds between two of them. That
`update_depth` returns follows from the edges alone: a node has one parent, so the levels below the node
where it began are disjoint, and there is not a node for each of as many levels as there are nodes and
one more (`LevelsExist`, `LevelsEnd`). For `DepthFollowsParent`, `Deep` (a part of `Orderly`) says that what a chain of
`k` children reaches from the root node has depth `k`. `update_depth` visits a child after each visit of its
parent (`Later`), so that the last visit of a node finds the depth its parent keeps (`UpdateDepthDeep`),
and what is above the node that moved is not visited (`AboveDeep`). A chain is shorter than there are
nodes, so its depths do not wrap. A node that is on no cycle and below none meets the root node on
the way up, since otherwise one of its ancestors would come twice (`RootIsAbove`).
For `PublishedHaveNodes`, `Announced` says that a published
module without a node has an addition in the queue, and that no removal of it waits there. The
operations of the model fold steps over sequences; as the prover does not instantiate the
operators of the library's theorems, `Follows`, `FoldFollows` and `Computes` show once that such a fold is
a sequence of states, each made from the one before, and the lemmas reason about that.

`EigenBootloaderProofs`, for any modules, and numbers of operations, requests and faults, without assumptions on when the
application sends a START or how fast a close is:

| theorem | states |
|---|---|
| `TypesHold` | `TypeOK`, races of a close included |
| `StartsBeginOnce`, `FlagsAreOwned` | `OneOperationPerStart`, `OperationOwnsTheFlags` (both until an operation is raced, section 7) |
| `AnswersAgree` | what is waited for, answered and on the bus agrees in the byte that is compared (until raced) |
| `AnswersAreToRequests` | `AnswerIsToRequest` of an operation that has taken no answer of another (`mistaken`) and until raced, for any number of requests |

*Argument.* `FlagsInv`: every thread but the last has ended, a START is owed an operation exactly while the
flags and the place of the service thread say so, and a thread that runs finds the flags it left. `Numbers`: the host, the
module, and every packet between them carry the number of the request they are about, and its byte, which is
modulo 256. That the bytes agree therefore does not say that the requests do: an answer 256 requests old would pass. That there is
none follows from the order in which things travel. `Ordered`: on the way (commands queued, the bus, the module, the bus back,
`bootloader_data`) nothing that one operation has said overtakes what it said before.
`Own`: what is on the way is for its target, and no older than the answer to the request before the last. An answer that is
taken is to the last request or the one before (`Window`), and of these two the byte tells. It also needs
that no operation speaks before it begins (`Young`), and that packets are addressed to whom their request is for
(`PostedRight`). An operation that has taken another's answer writes its next request early, and
nothing bounds what is on the way any more.

`CyBtldrProofs`, for any files, rows, sizes and failures:

| theorem | states |
|---|---|
| `TypesHold`, `RowsAreSentWhole` | `TypeOK` and `RowsArriveWhole`, if the rows of the files fit (`RowsFit`) |
| `PromiseIsKept` | `Spec => KeepsPromise`: each step is one of `CyBtldrPromise` or a stutter |

`RowsFit` says that what is left of a row after some blocks is a block at least, or fits the last packet. It
is what the code takes for granted, and false of 128-byte rows in the newer format (`cypress_rows`,
section 13); the refinement does not need it. *Argument.* `Shape` is where the host, the wire and the
device can be at once. `Sending`: what was sent is a number of whole blocks and no more than the row;
`Held`: the device holds blocks that cover exactly what was sent, in order. For the refinement, `Doing`
says what is in flash by then, although rows are written badly without a word: of the older format every row before
the one at hand, since each was asked for its checksum; of the newer nothing until the whole application was
verified, without which no operation of it succeeds; after ERASE none of the rows passed.

The assumptions are those the modules name (`PollAssumption`, `GroupAssumption`,
`ReceiverAssumption`, ...): types of the constants, and the facts stated there (finite sets of keys, an
address 0xFF without a module, a buffer that holds a packet). TLC evaluates them in each run.

*Only model-checked*: all liveness, since the prover treats neither fairness nor `ENABLED`
(`EventuallyDecided`, `ParametersAreAskedAgain`, `ReadEnds`, `ClearOldEnds`, `EnabledPollsAreSent`). Every
safety property of the passing runs is stated by a theorem.

## 13. Where code and comments disagree

Three runs in which TLC finds violated what a comment says; `findings` in `PROJECT.json` quotes the lines.

* `topology_cycle`: depth is not the "distance from the root node" once two modules swapped places,
  since children are never removed when a port becomes empty.
* `lifecycle_mailbox`: "If the parameter list is invalid, repeat" (`eigen_parameters.h:43`) does not hold for mailboxes,
  whose request stays in progress for ever once its answer is lost (`eigen_comms.cpp:505`).
* `group_write`: `group_command` sends to every module "utilizing the clone function", but clones of a
  parameter write share a value that the first of them to be deleted takes with it.

Configurations that are kept for the same purpose, each run by hand with the `MC` module of its part:

| configuration | property | what TLC finds |
|---|---|---|
| `tracker_clock.cfg` | `SortedByTime` | "The packet filter queue is sorted by time" does not hold with a system clock that steps back |
| `tracker_matching.cfg` | `AnswersReachTheirCommand` | the address check that is "to prevent broadcast packets from sucking up all of the responses" does not prevent a broadcast filter from taking the answer to a name query |
| `topology_ports.cfg` | `PortsAreEdges` | changes at "downstream ports" are lost if believed before the module is published |
| `bootloader_error.cfg` | `HostResumes` | an operation whose file or connection cannot be opened leaves the host in bootloading |
| `cypress_rows.cfg` | `RowsArriveWhole` | a row of 128 bytes in the newer format: 38 bytes are left after two blocks, more than the last packet takes (37) and less than a block (45), so that the third block goes beyond the row and the rest is negative |
| `groups_dangling.cfg` | `GroupSeesLive` | a group "must ... not outlive its variables", but a list entry answered again deletes one under it |
| `groups_uint32.cfg` | `GroupMatches` | `values_match` says of `uint32` variables with the same value that they differ |
| `receive_threads.cfg` | `UpdatesAreAlive` | an application thread of its own deletes an update before the topology tracker reads it |
| `bootloader_close.cfg` | `FlagsAreAlwaysOwned` | a START handled within the three steps of a close loses its flags to them |
| `lifecycle_liveness.cfg` | `ParametersAreAskedAgain` | holds, with a slow list that is not drained at once and mailboxes' answers lost as well |

Read from the code on the way, without a run: `group_poll` does not delete the command it is given.

## 14. What is not modelled

Formatting of packets, printing, logging, latencies, rates, measured values, the raw packet log,
`clean_eigen_comms` and the build: data with no state that another component acts on. Within the modelled parts: writes
of parameters and mailboxes in the lifecycle (what becomes of a write command is in section 10),
`clear_module_list`, and the address 0xFF in the lifecycle; port numbers and names in the topology;
pointers that the application keeps after a lock is released; the destructors of the polling manager
and of the queues; more than one module in the receiver; look-ups and printing of variable
groups; keys, silicon ids, checksums and encryption in the Cypress library; data races as such, the
model takes a push or pop of an unprotected deque for one step.

## 15. How to run it

    tlc -workers 2 -config tracker.cfg MCEigenPacketTracker.tla      # the runs are listed in PROJECT.json
    tlapm EigenPacketTrackerProofs.tla                               # likewise the other ...Proofs modules

The passing runs take from seconds to about two minutes (`lifecycle`, five million states). Deadlock is
checked in the runs of the tracker, the topology and the container. The cfgs of the lifecycle, the
bootloaders, the groups and the receiver switch it off: these modules stop where their bounds are used
up (sends, operations, requests, packets), or where an operation that failed has left the host in
bootloading.
