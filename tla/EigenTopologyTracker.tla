------------------------ MODULE EigenTopologyTracker ------------------------
(***************************************************************************)
(* The topology tracker (eigen_topology_tracker.cpp) and the part of the   *)
(* service loop that feeds it.                                             *)
(*                                                                         *)
(* The tracker keeps a node for every module, with its parent, its         *)
(* children and its depth, and a list of the nodes of each depth.  It is   *)
(* driven by three kinds of updates: MODULE_ADDED when a module is         *)
(* published, MODULE_REMOVED when it is cleared from the published list,   *)
(* and MODULE_DOWNSTREAM when a module has reported another address at     *)
(* one of its ports often enough to be believed.  All updates of one call  *)
(* of service_eigen_comms are processed at the end of the call, in order.  *)
(*                                                                         *)
(* Abstractions.  An address is a number, so that children are visited in  *)
(* the order of the map.  The fields of the nodes are functions of the     *)
(* address, with None, {} and 0 for the addresses that have no node.  Port *)
(* numbers and names of the nodes are left out.  Of the objects of one     *)
(* address only what the lists tell apart is kept: the one in module_list_ *)
(* and an earlier one (EigenModuleLifecycle has them all).                 *)
(***************************************************************************)
EXTENDS Naturals, Sequences, FiniteSets, SequencesExt

CONSTANTS
  Addresses,    \* addresses of modules
  Ports,        \* number of downstream ports of a module
  Conflicts,    \* TRUE: several modules may have one address
  MaxChanges,   \* bound: port changes that are believed in a behaviour
  MaxUpdates,   \* bound: updates of a call, but for removals of earlier objects
  MaxLeft       \* bound: addresses at which objects that left module_list_ wait

Root == 255     \* 0xFF: the root node, and the address of an empty port

None == 256     \* nullptr

ASSUME TopologyAssumption ==
  /\ Addresses \subseteq 0..254
  /\ Ports \in Nat
  /\ Conflicts \in BOOLEAN
  /\ MaxChanges \in Nat
  /\ MaxUpdates \in Nat /\ MaxLeft \in Nat

Nodes == Addresses \cup {Root}

VARIABLES
  graph,        \* node_map_, the fields of the nodes, and depth_list_
  updates,      \* updates_
  known,        \* addresses in module_list_
  published,    \* addresses in module_list_pub_
  current,      \* addresses whose object in module_list_ has been published
  left,         \* addresses whose object in module_init_list_ has left module_list_
  downstream,   \* addr_current of the ports of each module in module_list_
  phase,        \* where service_eigen_comms is
  changes       \* port changes so far

listVars == <<known, published, current, left>>
vars == <<graph, updates, known, published, current, left, downstream, phase, changes>>

Graph ==
  [nodes : SUBSET Addresses, parent : [Nodes -> Nodes \cup {None}],
   children : [Nodes -> SUBSET Addresses], depth : [Nodes -> 0..255],
   lists : Seq(SUBSET Nodes)]
Update == [type : {"added", "removed", "downstream"}, addr : Addresses]
NoPorts == [i \in 1..Ports |-> Root]

TypeOK ==
  /\ graph \in Graph
  /\ updates \in Seq(Update)
  /\ known \subseteq Addresses /\ published \subseteq Addresses
  /\ current \subseteq Addresses /\ left \subseteq Addresses
  /\ downstream \in [Addresses -> [1..Ports -> Nodes]]
  /\ phase \in {"sweep", "receive", "clearPub", "clearList", "process"}
  /\ changes \in 0..MaxChanges

Init ==
  /\ graph = [nodes |-> {}, parent |-> [n \in Nodes |-> None],
              children |-> [n \in Nodes |-> {}], depth |-> [n \in Nodes |-> 0],
              lists |-> <<{Root}>>]
  /\ updates = <<>>
  /\ known = {} /\ published = {} /\ current = {} /\ left = {}
  /\ downstream = [a \in Addresses |-> NoPorts]
  /\ phase = "sweep"
  /\ changes = 0

-----------------------------------------------------------------------------
(***************************************************************************)
(* The depth lists, and the depth of a node and of those below it.         *)
(***************************************************************************)
\* remove_depth: an empty list is deleted only when it is the last one.
RemoveDepth(g, n) ==
  LET d == g.depth[n] + 1
      without == [g.lists EXCEPT ![d] = @ \ {n}]
  IN  IF d > Len(g.lists) THEN g
      ELSE IF d = Len(without) /\ without[d] = {} THEN [g EXCEPT !.lists = Front(without)]
      ELSE [g EXCEPT !.lists = without]

\* add_depth: lists are added up to the depth.
AddDepth(g, n) ==
  LET d == g.depth[n] + 1
      missing == [i \in 1..(IF d > Len(g.lists) THEN d - Len(g.lists) ELSE 0) |-> {}]
      longer == g.lists \o missing
  IN  [g EXCEPT !.lists = [longer EXCEPT ![d] = @ \cup {n}]]

\* The depth of one node, from that of its parent, as a byte.
SetDepth(g, n) ==
  LET d == IF g.parent[n] = None THEN 0 ELSE (g.depth[g.parent[n]] + 1) % 256
  IN  AddDepth([RemoveDepth(g, n) EXCEPT !.depth[n] = d], n)

\* The children of a node, in the order of the map.
Ascending(S) ==
  LET n == Cardinality(S)
  IN  CHOOSE s \in [1..n -> S] : \A i, j \in 1..n : i < j => s[i] < s[j]

\* The nodes update_depth(first) visits, in order: depth first, children by
\* address, and never below first again.
Visit(g, first) ==
  LET below[k \in 0..Cardinality(Nodes)] ==
        [n \in Nodes |->
          LET next == Ascending(g.children[n] \ {first})
          IN  IF k = 0 THEN <<n>>
              ELSE <<n>> \o FlattenSeq([i \in 1..Len(next) |-> below[k - 1][next[i]]])]
  IN  below[Cardinality(Nodes)][first]

\* Deliberate fault: the depths below the node are not updated.
UpdateDepthShallow(g, first) == SetDepth(g, first)

UpdateDepth(g, first) == FoldLeft(SetDepth, g, Visit(g, first))

-----------------------------------------------------------------------------
(***************************************************************************)
(* Edges and nodes.                                                        *)
(***************************************************************************)
SetParent(g, c, p) == UpdateDepth([g EXCEPT !.parent[c] = p], c)

\* Node::add_child.
AddChild(g, p, c) ==
  IF c \in g.children[p] THEN g
  ELSE SetParent([g EXCEPT !.children[p] = @ \cup {c}], c, p)

RemoveChild(g, p, c) == [g EXCEPT !.children[p] = @ \ {c}]

\* Deliberate fault: the node is not taken from the children of its old parent.
AddNodeBelowKeeping(g, a, p) ==
  IF a \notin g.nodes
  THEN [g EXCEPT !.nodes = @ \cup {a}, !.parent[a] = p]
  ELSE IF g.parent[a] # p THEN SetParent(g, a, p)
  ELSE g

\* add_node with a parent: a node that exists moves below it.
AddNodeBelow(g, a, p) ==
  IF a \notin g.nodes
  THEN [g EXCEPT !.nodes = @ \cup {a}, !.parent[a] = p]
  ELSE IF g.parent[a] # p THEN SetParent(RemoveChild(g, g.parent[a], a), a, p)
  ELSE g

\* add_node without a parent, for an address that has no node.
AddTopNode(g, a) == AddChild([g EXCEPT !.nodes = @ \cup {a}], Root, a)

\* Deliberate fault: the nodes below the node are deleted with it.
RemoveNodeWithChildren(g, a) ==
  LET alone == RemoveDepth(RemoveChild(g, g.parent[a], a), a)
      orphans == Ascending(alone.children[a])
      gone == {a} \cup alone.children[a]
  IN  [FoldLeft(RemoveDepth, alone, orphans) EXCEPT
         !.nodes = @ \ gone, !.parent = [n \in Nodes |-> IF n \in gone THEN None ELSE @[n]],
         !.children[a] = {}]

\* remove_node: the children of the node become children of the root node.
RemoveNode(g, a) ==
  LET alone == RemoveDepth(RemoveChild(g, g.parent[a], a), a)
      orphans == Ascending(alone.children[a])
      moved == FoldLeft(LAMBDA h, c : AddChild(h, Root, c), alone, orphans)
  IN  [moved EXCEPT !.nodes = @ \ {a}, !.parent[a] = None, !.children[a] = {}, !.depth[a] = 0]

\* Deliberate fault: an empty port is taken for a module at 0xFF.
AttachEmptyPort(g, a, c) ==
  IF c \in g.children[a] THEN g ELSE AddChild(AddNodeBelow(g, c, a), a, c)

\* One port of a MODULE_DOWNSTREAM update.  A child is never taken away.
AttachPort(g, a, c) ==
  IF c = Root \/ c \in g.children[a] THEN g ELSE AddChild(AddNodeBelow(g, c, a), a, c)

\* process_updates, for one update.
Processed(g, u) ==
  CASE u.type = "downstream" ->
         IF u.addr \in g.nodes
         THEN FoldLeft(LAMBDA h, c : AttachPort(h, u.addr, c), g, downstream[u.addr])
         ELSE g
    [] u.type = "added" -> IF u.addr \in g.nodes THEN g ELSE AddTopNode(g, u.addr)
    [] u.type = "removed" -> IF u.addr \in g.nodes THEN RemoveNode(g, u.addr) ELSE g

-----------------------------------------------------------------------------
(***************************************************************************)
(* The service loop.                                                       *)
(***************************************************************************)
Report(type, a) == updates' = Append(updates, [type |-> type, addr |-> a])

Room == Len(updates) < MaxUpdates

\* The sweep over module_init_list_ publishes an object.  (There is no object at
\* its address then: the updates of EigenModuleLifecycle alternate.)
Published(a) ==
  /\ phase = "sweep"
  /\ a \notin published
  /\ published' = published \cup {a}
  /\ Room /\ Report("added", a)
  /\ UNCHANGED <<graph, known, downstream, phase, changes>>

\* It is the one in module_list_ ...
Publish(a) ==
  /\ a \in known \ current
  /\ Published(a)
  /\ current' = current \cup {a}
  /\ UNCHANGED left

\* ... or one that has left it, beside which others may wait.
PublishLeft(a) ==
  /\ a \in left
  /\ Published(a)
  /\ left' \in {left, left \ {a}}
  /\ UNCHANGED current

\* add_module, for an address that is not known: a new object.
Hear(a) ==
  /\ phase = "receive"
  /\ a \notin known
  /\ known' = known \cup {a}
  /\ UNCHANGED <<graph, updates, published, current, left, downstream, phase, changes>>

\* Port i of a is empty, or a module without ports of its own is plugged in there
\* that is at no other port.  Under conflicting addresses anything is reported.
Plausible(a, c) ==
  c # Root => /\ c # a
              /\ downstream[c] = NoPorts
              /\ \A b \in Addresses, j \in 1..Ports : downstream[b][j] # c

\* A topology response makes update_downstream believe that c is at port i.
ChangePort(a, i, c) ==
  /\ phase = "receive"
  /\ a \in known
  /\ downstream[a][i] # c
  /\ Conflicts \/ Plausible(a, c)
  /\ changes < MaxChanges
  /\ changes' = changes + 1
  /\ downstream' = [downstream EXCEPT ![a][i] = c]
  /\ Room /\ Report("downstream", a)
  /\ UNCHANGED <<graph, listVars, phase>>

\* An object that was too old for one clear_old is too old for the next, the clock
\* of which is read later: what left the published list leaves module_list_, and
\* what has left module_list_ leaves the published list.
Removals(S) ==
  LET s == Ascending(S) IN [i \in 1..Len(s) |-> [type |-> "removed", addr |-> s[i]]]

\* clear_old of the published list.
ClearPublished(S) ==
  /\ phase = "clearPub"
  /\ published \ current \subseteq S
  /\ Len(updates) + Cardinality(S \cap current) <= MaxUpdates
  /\ published' = published \ S
  /\ updates' = updates \o Removals(S)
  /\ phase' = "clearList"
  /\ UNCHANGED <<graph, known, current, left, downstream, changes>>

\* clear_old of the list of all modules.
ClearKnown(S) ==
  /\ phase = "clearList"
  /\ current \ published \subseteq S
  /\ known' = known \ S
  /\ current' = current \ S
  /\ left' = left \cup (S \ current)
  /\ Cardinality(left') <= MaxLeft
  /\ phase' = "process"
  /\ UNCHANGED <<graph, updates, published, downstream, changes>>

NextPhase ==
  /\ \/ phase = "sweep" /\ phase' = "receive"
     \/ phase = "receive" /\ phase' = "clearPub"
  /\ UNCHANGED <<graph, updates, listVars, downstream, changes>>

ProcessUpdate ==
  /\ phase = "process"
  /\ updates # <<>>
  /\ graph' = Processed(graph, Head(updates))
  /\ updates' = Tail(updates)
  /\ UNCHANGED <<listVars, downstream, phase, changes>>

\* The last update that held a forgotten module is gone, and with it its ports:
\* a module heard later at the address has none.
ProcessingDone ==
  /\ phase = "process"
  /\ updates = <<>>
  /\ phase' = "sweep"
  /\ downstream' = [a \in Addresses |-> IF a \in known THEN downstream[a] ELSE NoPorts]
  /\ UNCHANGED <<graph, updates, listVars, changes>>

Next ==
  \/ \E a \in Addresses : Publish(a) \/ PublishLeft(a) \/ Hear(a)
  \/ \E a \in Addresses : \E i \in 1..Ports : \E c \in Nodes : ChangePort(a, i, c)
  \/ NextPhase
  \/ (\E S \in SUBSET published : ClearPublished(S)) \/ (\E S \in SUBSET known : ClearKnown(S))
  \/ ProcessUpdate \/ ProcessingDone

Spec == Init /\ [][Next]_vars

-----------------------------------------------------------------------------
(***************************************************************************)
(* Properties.                                                             *)
(***************************************************************************)

(* The nodes point at each other consistently: a node is among the children *)
(* of its parent and of nobody else, and no pointer leads to a deleted      *)
(* node, however modules are moved, removed and added again.               *)
EdgesAgree ==
  /\ \A n \in graph.nodes : graph.parent[n] \in graph.nodes \cup {Root}
  /\ \A n \in graph.nodes : \A p \in Nodes :
       n \in graph.children[p] <=> graph.parent[n] = p
  /\ \A p \in Nodes : graph.children[p] \subseteq graph.nodes

(* Every node is in the list of its depth and in no other, and the lists    *)
(* hold no deleted node: get_depth_list and depth() never disagree.        *)
ListsAgree ==
  /\ \A d \in 1..Len(graph.lists) :
       graph.lists[d] = {n \in graph.nodes \cup {Root} : graph.depth[n] = d - 1}
  /\ \A n \in graph.nodes \cup {Root} : graph.depth[n] < Len(graph.lists)

(* update_depth always returns: it stops only at the node it was first      *)
(* called for (eigen_topology_tracker.cpp:364-367), and no other node is   *)
(* met for ever on the way down, whatever cycles the edges form.           *)
UpdateDepthReturns ==
  \A first \in graph.nodes :
    LET level[k \in 0..Cardinality(Nodes)] ==
          IF k = 0 THEN {first} ELSE (UNION {graph.children[n] : n \in level[k - 1]}) \ {first}
    IN  level[Cardinality(Nodes)] = {}

(* The graph is in order after every update, whatever modules appear, move, *)
(* form cycles and disappear: what get_node, get_depth_list and            *)
(* update_depth walk is what the nodes say.                                *)
GraphAgrees == EdgesAgree /\ ListsAgree /\ UpdateDepthReturns

(* The ancestors of a node, as far as k steps up.                          *)
Ancestor(n, k) ==
  LET up[i \in 0..k] ==
        IF i = 0 THEN n
        ELSE IF up[i - 1] = None THEN None ELSE graph.parent[up[i - 1]]
  IN  up[k]

OnCycle(n) == \E k \in 1..Cardinality(Nodes) : Ancestor(n, k) = n

(* A node is one deeper than its parent wherever that is possible: the      *)
(* depths that were calculated when an edge changed are still right after  *)
(* any later change elsewhere.                                             *)
DepthFollowsParent ==
  \A n \in graph.nodes :
    ~OnCycle(n) /\ (\A k \in 1..Cardinality(Nodes) : Ancestor(n, k) # None => ~OnCycle(Ancestor(n, k)))
      => graph.depth[n] = graph.depth[graph.parent[n]] + 1

(* Between two calls of the service every published module has its node:    *)
(* no removal takes the node of a module that was published again.         *)
PublishedHaveNodes ==
  phase = "sweep" /\ updates = <<>> => published \subseteq graph.nodes

(* Depth is the distance from the root node (eigen_topology_tracker.h:8),   *)
(* so that every node hangs below the root node.                           *)
DepthIsDistanceFromRoot ==
  phase = "sweep" => \A n \in graph.nodes : Ancestor(n, graph.depth[n]) = Root

(* Between two calls of the service the graph shows the changes that the    *)
(* modules reported (eigen_topology_tracker.cpp:43): a published module at  *)
(* a port of a published module is below it.                               *)
PortsAreEdges ==
  phase = "sweep" /\ updates = <<>> =>
    \A a, c \in published : \A i \in 1..Ports : downstream[a][i] = c => graph.parent[c] = a
=============================================================================
