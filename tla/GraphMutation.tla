--------------------------- MODULE GraphMutation ---------------------------
(***************************************************************************)
(* The Mutation API of graph/utils/graph_view.{h,cc}, over a graph of      *)
(* nodes known by name: what a client may ask of a mutation, what Apply    *)
(* checks before it touches the graph, and the graph it makes.             *)
(* MutableGraphView does the same work over indices; this module is the    *)
(* level at which the checks can be reasoned about.                        *)
(*                                                                         *)
(* The client is a rewrite pass: the remapper or the layout pass.          *)
(***************************************************************************)
EXTENDS NodeViewDiff, Sequences

CONSTANTS
  Names,       \* node names
  Ops,         \* ops (with device and attributes)
  Ports,       \* output ports
  MaxFanin,    \* bound: the highest position a client names
  MaxCalls,    \* bound: calls of the Mutation API between two applies
  MaxApplies,  \* bound: mutations applied
  NewNodes,    \* the nodes a client adds: [name, op, ins, ctl]
  InitGraphs   \* the graphs the view may be built on

Tensors == Names \X Ports

(* Regular fanins of a client's making, which may leave out positions.     *)
PartialFanins == UNION {[S -> Tensors] : S \in SUBSET (1..MaxFanin)}

GraphNode == [op : Ops, ins : Seq(Tensors), ctl : SUBSET Names]

NewNode == [name : Names, op : Ops, ins : PartialFanins, ctl : SUBSET Names]

NodeDiff == [name : Names, op : Ops, put : PartialFanins, rem : SUBSET Nat,
             cadd : SUBSET Names, crem : SUBSET Names]

FaninNames(v) == {v.ins[i][1] : i \in DOMAIN v.ins} \cup v.ctl

(* Every fanin names a node, and no node is its own fanin.                 *)
IsWellFormedGraph(G) ==
  \A x \in DOMAIN G : FaninNames(G[x]) \subseteq DOMAIN G \ {x}

ASSUME BoundsAssumption ==
  MaxFanin \in Nat /\ MaxCalls \in Nat /\ MaxApplies \in Nat

ASSUME NewNodesAssumption == NewNodes \subseteq NewNode

(* What CheckFaninsInternal lets the view be built on.                     *)
ASSUME InitGraphsAssumption ==
  \A G \in InitGraphs : /\ DOMAIN G \subseteq Names
                        /\ G \in [DOMAIN G -> GraphNode]
                        /\ IsWellFormedGraph(G)

VARIABLES
  graph,    \* name -> node: the GraphDef
  diffs,    \* name -> diff: Mutation::updated_nodes_
  removed,  \* names: Mutation::removed_nodes_
  fresh,    \* Mutation::new_nodes_
  status,   \* what the last call that returns a status returned
  calls,    \* calls since the last Apply or Reset
  counter   \* Mutation::mutation_counter_

vars == <<graph, diffs, removed, fresh, status, calls, counter>>

View(x) == [name |-> x, op |-> graph[x].op, ins |-> graph[x].ins,
            ctl |-> [n \in graph[x].ctl |-> n]]

NoDiffs == [x \in {} |-> {}]

Init == /\ graph \in InitGraphs
        /\ diffs = NoDiffs
        /\ removed = {}
        /\ fresh = <<>>
        /\ status = "ok"
        /\ calls = 0
        /\ counter = 0

-----------------------------------------------------------------------------
(* The calls of the client.                                                *)

Called == /\ calls < MaxCalls /\ counter < MaxApplies
          /\ calls' = calls + 1
          /\ UNCHANGED counter

(* Mutation::AddMutation: d is the diff after the call's edit; a call that *)
(* edits nothing does not open a diff.                                     *)
DiffOf(x) == IF x \in DOMAIN diffs THEN diffs[x] ELSE EmptyDiff(View(x))

AddMutation(x, d) ==
  /\ Called
  /\ diffs' = With(diffs, x, d)
  /\ UNCHANGED <<graph, removed, fresh, status>>

(* The edits of an existing node.  No pass of the plugin edits a node it   *)
(* has removed: see EditRemovedNode.                                       *)
Edit(x) ==
  LET d == DiffOf(x)
      v == View(x)
  IN  \/ \E n \in Names : AddMutation(x, UpdateName(d, n))
      \/ \E op \in Ops : AddMutation(x, UpdateOp(d, op))
      \/ \E i \in 1..MaxFanin, t \in Tensors :
            AddMutation(x, AddOrUpdateRegularFanin(d, v, i, t))
      \/ \E i \in 1..MaxFanin :
            /\ ~NothingToRemove(d, v, i)
            /\ AddMutation(x, RemoveRegularFanin(d, v, i))
      \/ \E n \in Names : AddMutation(x, AddControllingFanin(d, v, n, n))
      \/ \E n \in Names : AddMutation(x, RemoveControllingFanin(d, v, n, n))

EditNode == \E x \in DOMAIN graph \ removed : Edit(x)

(* Mutant: the edits of a removed node stay. *)
RemoveNodeKeepingDiff(x) ==
  /\ Called
  /\ removed' = removed \cup {x}
  /\ UNCHANGED <<graph, diffs, fresh, status>>

(* Mutation::RemoveNode forgets the edits of the node.                     *)
RemoveNode(x) ==
  /\ Called
  /\ diffs' = Without(diffs, x)
  /\ removed' = removed \cup {x}
  /\ UNCHANGED <<graph, fresh, status>>

HasSelfFanin(w) ==
  (\E i \in DOMAIN w.ins : w.ins[i][1] = w.name) \/ w.name \in w.ctl

(* Mutation::AddNode: w.ins has no gap; a node that is its own fanin is    *)
(* refused.                                                                *)
AddNode(w) ==
  /\ Called
  /\ IF HasSelfFanin(w)
     THEN status' = "bad node" /\ UNCHANGED fresh
     ELSE status' = "ok" /\ fresh' = Append(fresh, w)
  /\ UNCHANGED <<graph, diffs, removed>>

(* The edits of a node to be added.                                        *)
EditNewNode(k) ==
  LET Become(w) == /\ Called
                   /\ fresh' = [fresh EXCEPT ![k] = w]
                   /\ UNCHANGED <<graph, diffs, removed, status>>
      w == fresh[k]
  IN  \/ \E n \in Names : Become([w EXCEPT !.name = n])
      \/ \E i \in 1..MaxFanin, t \in Tensors :
            Become([w EXCEPT !.ins = With(@, i, t)])
      \/ \E i \in DOMAIN w.ins : Become([w EXCEPT !.ins = Without(@, i)])
      \/ \E n \in Names : Become([w EXCEPT !.ctl = @ \cup {n}])
      \/ \E n \in w.ctl : Become([w EXCEPT !.ctl = @ \ {n}])

-----------------------------------------------------------------------------
(* Mutation::Apply: the checks.                                            *)

Renamed == {x \in DOMAIN diffs : diffs[x].name # x}
Touched == {x \in DOMAIN diffs : ~IsEmpty(diffs[x], View(x))}

(* The names marked present in node_names, and those marked missing there. *)
Claimed == {diffs[x].name : x \in Touched}
             \cup {fresh[k].name : k \in DOMAIN fresh}
Vacated == (Renamed \cup removed) \ Claimed

(* Mutant: nodes to be added are not compared with each other. *)
NameConflictOfDiffs ==
  \/ \E x, y \in Touched : x # y /\ diffs[x].name = diffs[y].name
  \/ \E x \in Touched, k \in DOMAIN fresh : diffs[x].name = fresh[k].name

NameConflict ==
  \/ \E x, y \in Touched : x # y /\ diffs[x].name = diffs[y].name
  \/ \E x \in Touched, k \in DOMAIN fresh : diffs[x].name = fresh[k].name
  \/ \E j, k \in DOMAIN fresh : j # k /\ fresh[j].name = fresh[k].name

(* CheckNodeNameExists holds of these.                                     *)
NamesAfter == Claimed \cup (DOMAIN graph \ (Renamed \cup removed))

(* Nodes whose name a renamed node takes over.                             *)
Overwritten == {diffs[x].name : x \in Renamed} \cap DOMAIN graph

(* Mutant: control fanins are not looked at. *)
RegularFanoutsWellFormed ==
  \A m \in Vacated : \A y \in DOMAIN graph :
    \A i \in DOMAIN graph[y].ins : graph[y].ins[i][1] = m =>
      IF y \in DOMAIN diffs
      THEN i \in diffs[y].rem \/ i \in DOMAIN diffs[y].put
      ELSE y \in removed \/ y \in Overwritten

(* No consumer of a name that will be missing keeps it as a fanin.         *)
RemovedOrMissingNodeFanoutsWellFormed ==
  \A m \in Vacated : \A y \in DOMAIN graph :
    /\ \A i \in DOMAIN graph[y].ins : graph[y].ins[i][1] = m =>
         IF y \in DOMAIN diffs
         THEN i \in diffs[y].rem \/ i \in DOMAIN diffs[y].put
         ELSE y \in removed \/ y \in Overwritten
    /\ m \in graph[y].ctl =>
         IF y \in DOMAIN diffs
         THEN m \in diffs[y].crem
         ELSE y \in removed \/ y \in Overwritten

Valid ==
  /\ ~NameConflict
  /\ RemovedOrMissingNodeFanoutsWellFormed
  /\ \A x \in Touched : IsWellFormed(diffs[x], View(x), NamesAfter)
  /\ \A k \in DOMAIN fresh : NewNodeIsWellFormed(fresh[k], NamesAfter)

-----------------------------------------------------------------------------
(* Mutation::Apply: the graph it makes.  A removed node goes last, whatever *)
(* diff it has, unless a new node took its place.                          *)

EditedNode(x) ==
  [op |-> diffs[x].op,
   ins |-> EditedFanins(diffs[x], View(x)),
   ctl |-> (graph[x].ctl \ diffs[x].crem) \cup diffs[x].cadd]

Node(w) == [op |-> w.op, ins |-> w.ins, ctl |-> w.ctl]

Kept == DOMAIN graph \ (Renamed \cup removed \cup Claimed)

FreshNames  == {fresh[k].name : k \in DOMAIN fresh}
EditedNames == {diffs[x].name : x \in Touched \ removed}

AppliedGraph ==
  [n \in Kept \cup FreshNames \cup EditedNames |->
     IF n \in FreshNames
     THEN Node(fresh[CHOOSE k \in DOMAIN fresh : fresh[k].name = n])
     ELSE IF n \in EditedNames
     THEN EditedNode(CHOOSE x \in Touched \ removed : diffs[x].name = n)
     ELSE graph[n]]

ClearMutation ==
  /\ diffs' = NoDiffs
  /\ removed' = {}
  /\ fresh' = <<>>
  /\ calls' = 0

Apply ==
  /\ counter < MaxApplies
  /\ IF Valid
     THEN /\ graph' = AppliedGraph
          /\ status' = "ok"
          /\ counter' = counter + 1
          /\ ClearMutation
     ELSE /\ status' = "bad mutation"
          /\ UNCHANGED <<graph, diffs, removed, fresh, calls, counter>>

Reset == ClearMutation /\ UNCHANGED <<graph, status, counter>>

(* SortTopologically moves nodes and renames none; it refuses to while     *)
(* edits are pending.                                                      *)
SortTopologically ==
  /\ status' \in IF DOMAIN diffs = {} /\ fresh = <<>>
                 THEN {"sorted", "unsorted"} ELSE {"unsorted"}
  /\ UNCHANGED <<graph, diffs, removed, fresh, calls, counter>>

-----------------------------------------------------------------------------
Next == \/ EditNode
        \/ \E x \in DOMAIN graph : RemoveNode(x)
        \/ \E w \in NewNodes : AddNode(w)
        \/ \E k \in DOMAIN fresh : EditNewNode(k)
        \/ Apply
        \/ Reset
        \/ SortTopologically

Spec == Init /\ [][Next]_vars

-----------------------------------------------------------------------------
(* What the API lets a client do, and the passes of the plugin do not.     *)

EditRemovedNode == \E x \in removed : Edit(x)

SpecEditRemoved == Init /\ [][Next \/ EditRemovedNode]_vars

-----------------------------------------------------------------------------
(* Properties.                                                             *)

(* A diff says only what differs from the node: no position is both set    *)
(* and removed or set to the fanin that is there, and only controls the    *)
(* node has are removed, and only others added.                            *)
DiffFits(d, v) ==
  /\ d.rem \subseteq Positions(v) \ DOMAIN d.put
  /\ \A i \in DOMAIN d.put \cap Positions(v) : d.put[i] # v.ins[i]
  /\ d.crem \subseteq DOMAIN v.ctl
  /\ d.cadd \cap DOMAIN v.ctl = {}

(* Every diff belongs to a node of the graph that is not to be removed,    *)
(* and fits that node, whatever edits, removals and applies came before.   *)
TypeOK ==
  /\ DOMAIN graph \subseteq Names
  /\ graph \in [DOMAIN graph -> GraphNode]
  /\ removed \subseteq DOMAIN graph
  /\ DOMAIN diffs \subseteq DOMAIN graph \ removed
  /\ diffs \in [DOMAIN diffs -> NodeDiff]
  /\ \A x \in DOMAIN diffs : DiffFits(diffs[x], View(x))
  /\ fresh \in Seq(NewNode)
  /\ status \in
       {"ok", "bad node", "bad mutation", "sorted", "unsorted"}
  /\ calls \in 0..MaxCalls
  /\ counter \in 0..MaxApplies

(* Every mutation does what its client asked for, as GraphIntent has it:   *)
(* the draft of a node is the node with its diff.                          *)
DraftOf(x) ==
  LET d == DiffOf(x)
  IN  [name |-> d.name, op |-> d.op, ins |-> EditedFanins(d, View(x)),
       ctl |-> (graph[x].ctl \ d.crem) \cup d.cadd]

Intent == INSTANCE GraphIntent
            WITH draft <- [x \in DOMAIN graph \ removed |-> DraftOf(x)],
                 added <- fresh

ImplementsIntent == Intent!Spec

(* The graph is always one MutableGraphView could have been built on       *)
(* (CheckFaninsInternal).  Apply only looks at what the mutation changes;  *)
(* what it does not look at cannot go wrong, whatever the edits: renames   *)
(* onto used names, swaps of names, nodes removed while consumers move.    *)
GraphWellFormed == IsWellFormedGraph(graph)
=============================================================================
