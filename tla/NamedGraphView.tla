--------------------------- MODULE NamedGraphView ---------------------------
(***************************************************************************)
(* The name-based graph of graph/graph_view/{graph_view.h,                 *)
(* mutable_graph_view.cc}, which auto mixed precision works on.  Inputs    *)
(* are looked up by name; in the other direction the view keeps, for each  *)
(* output port, the set of input ports that read it, and two bounds per    *)
(* node: how many regular inputs it has, and the highest of its output     *)
(* ports that is read.  Everything that walks the fanouts of a node walks  *)
(* the ports up to that bound.                                             *)
(*                                                                         *)
(* A view v is a record of partial functions on the addresses of NodeDefs: *)
(*   def       the NodeDef [name, op, input], an input being <<name, port>>*)
(*   fanouts   fanouts_: from <<address, output port>> to a set of         *)
(*             <<address, input port>>                                     *)
(*   regular   max_regular_input_port_ + 1, 0 where it has no entry        *)
(*   max_out   max_regular_output_port_                                    *)
(* Output ports count from 0, Control (-1) is kControlSlot; an input port  *)
(* is a position in input, from 1, or Control.  The order of the nodes in  *)
(* the GraphDef means nothing here and is left out.                        *)
(***************************************************************************)
EXTENDS Integers, SequencesExt, Functions

CONSTANTS
  MaxNodes,   \* the addresses for NodeDefs; one that was freed is used again
  Names,      \* the names a client uses; one of them may be nobody's
  Ports,      \* the output ports a client uses
  Ops,        \* the ops of the nodes
  InitDefs,   \* the graphs a view is built on: [address -> NodeDef]
  NewNodes,   \* the NodeDefs a client adds
  SwitchAnchor(_, _), \* GeneratedNameForIdentityConsumingSwitch
  MaxFanin, MaxCalls

Ids     == 1..MaxNodes
Control == -1
Null    == 0

Tensors == Names \X (Ports \cup {Control})

(* A graph as a pass is given it: names are unique, every input names      *)
(* another node, regular inputs come before control inputs, and nobody     *)
(* waits for a Switch.                                                     *)
RegularFirst(input) ==
  \A i \in DOMAIN input : input[i][2] = Control =>
    \A j \in i..Len(input) : input[j][2] = Control

IsGraph(def) ==
  /\ DOMAIN def \subseteq Ids
  /\ def \in [DOMAIN def -> [name : Names, op : Ops, input : Seq(Tensors)]]
  /\ \A n \in DOMAIN def :
       /\ RegularFirst(def[n].input)
       /\ \A i \in DOMAIN def[n].input : \E f \in DOMAIN def \ {n} :
            /\ def[f].name = def[n].input[i][1]
            /\ def[n].input[i][2] = Control => def[f].op # "Switch"
  /\ \A m, n \in DOMAIN def : def[m].name = def[n].name => m = n

ASSUME BoundsAssumption == MaxNodes \in Nat /\ MaxFanin \in Nat /\ MaxCalls \in Nat
ASSUME PortsAssumption == Ports \subseteq Nat
ASSUME OpsAssumption == {"Switch", "Identity"} \subseteq Ops
ASSUME InitDefsAssumption == \A def \in InitDefs : IsGraph(def)
ASSUME NewNodesAssumption ==
  \A node \in NewNodes :
    /\ node \in [name : Names, op : Ops, input : Seq(Tensors)]
    /\ RegularFirst(node.input)

(* The names the view makes up, with a prefix of its own, are no client's. *)
ASSUME AnchorsAssumption ==
  \A name \in Names, p \in Ports : SwitchAnchor(name, p) \notin Names

-----------------------------------------------------------------------------
(* Maps: operator[] adds an entry, find does not.                          *)

At(f, k, default) == IF k \in DOMAIN f THEN f[k] ELSE default
Put(f, k, x)      == [j \in DOMAIN f \cup {k} |-> IF j = k THEN x ELSE f[j]]
Erase(f, K)       == Restrict(f, DOMAIN f \ K)

Link(v, from, to)   == [v EXCEPT !.fanouts = Put(@, from, At(@, from, {}) \cup {to})]
Unlink(v, from, to) == [v EXCEPT !.fanouts = Put(@, from, At(@, from, {}) \ {to})]

SetInput(v, n, input) == [v EXCEPT !.def[n].input = input]

(* With the number of regular inputs.                                      *)
SetInputs(v, n, input, k) ==
  [v EXCEPT !.def[n].input = input, !.regular[n] = k]

(* The inputs of every node.                                               *)
WithInputs(v, inputs) ==
  [v EXCEPT !.def = [n \in DOMAIN @ |-> [@[n] EXCEPT !.input = inputs[n]]]]

Swap(s, i, j) == [s EXCEPT ![i] = s[j], ![j] = s[i]]

(* Removes position i by swapping it with the last one.                    *)
SwapOut(s, i) == [j \in 1..Len(s) - 1 |-> IF j = i THEN s[Len(s)] ELSE s[j]]

-----------------------------------------------------------------------------
(* Reading the graph.                                                      *)

GetNode(v, name) ==
  LET at == {n \in DOMAIN v.def : v.def[n].name = name}
  IN  IF at = {} THEN Null ELSE CHOOSE n \in at : TRUE

HasNode(v, name) == GetNode(v, name) # Null

OutputPort(v, t) == <<GetNode(v, t[1]), t[2]>>

GetFanout(v, port) == At(v.fanouts, port, {})

(* All input ports that read a regular output port of n, as GetFanouts and *)
(* GetFanoutEdges find them: port by port up to the bound.                 *)
GetFanoutEdges(v, n) ==
  { e \in (0..At(v.max_out, n, -1)) \X
            (UNION {GetFanout(v, p) : p \in DOMAIN v.fanouts}) :
      e[2] \in GetFanout(v, <<n, e[1]>>) }

IsSwitch(v, n) == v.def[n].op = "Switch"
IsIdentity(v, n) == v.def[n].op = "Identity"

IsIdentityConsumingSwitch(v, n) ==
  LET input == v.def[n].input
  IN  /\ IsIdentity(v, n)
      /\ input # <<>>
      /\ input[1][2] # Control
      /\ IsSwitch(v, GetNode(v, input[1][1]))

CanDedupControlWithRegularInput(v, n) == ~IsIdentityConsumingSwitch(v, n)

HasRegularFaninNode(v, n, name) ==
  \E i \in 1..v.regular[n] : v.def[n].input[i][1] = name

-----------------------------------------------------------------------------
(* The bound on output ports.                                              *)

(* Goes down to the next port that is read.  operator[] leaves an entry    *)
(* for the node, and one for each port it looked at.                       *)
UpdateMaxRegularOutputPortForRemovedFanin(v, port) ==
  LET n    == port[1]
      max  == At(v.max_out, n, 0)
      used == {i \in 0..port[2] - 1 : GetFanout(v, <<n, i>>) # {}}
      low  == IF used = {} THEN 0 ELSE Max(used)
  IN  IF GetFanout(v, port) # {} \/ max # port[2]
      THEN [v EXCEPT !.max_out = Put(@, n, max)]
      ELSE [v EXCEPT
              !.max_out = IF used = {} THEN Erase(@, {n}) ELSE Put(@, n, low),
              !.fanouts = [p \in DOMAIN @ \cup {n} \X (low..port[2] - 1) |->
                             At(@, p, {})]]

UpdateMaxRegularOutputPortForAddedFanin(v, port) ==
  [v EXCEPT !.max_out = Put(@, port[1], Max({At(@, port[1], 0), port[2]}))]

-----------------------------------------------------------------------------
(* Building the view.                                                      *)

(* The inputs of n without the control inputs that are redundant: s.input  *)
(* up to s.last.  A duplicate changes places with the last input not yet   *)
(* cut off.                                                                *)
DedupInput(v, s) ==
  LET t       == s.input[s.pos]
      control == t[2] = Control
      known   == HasNode(v, t[1]) /\
                 CanDedupControlWithRegularInput(v, GetNode(v, t[1]))
      drop    == t[1] \in s.fanins /\ control /\ (known \/ t[1] \in s.controls)
  IN  [input    |-> IF drop THEN Swap(s.input, s.pos, s.last) ELSE s.input,
       pos      |-> IF drop THEN s.pos ELSE s.pos + 1,
       last     |-> IF drop THEN s.last - 1 ELSE s.last,
       fanins   |-> s.fanins \cup {t[1]},
       controls |-> s.controls \cup (IF control THEN {t[1]} ELSE {})]

DedupInputs(v, n) ==
  LET input == v.def[n].input
      after[k \in 0..Len(input)] ==
        IF k = 0
        THEN [input |-> input, pos |-> 1, last |-> Len(input),
              fanins |-> {}, controls |-> {}]
        ELSE DedupInput(v, after[k - 1])
      end   == after[Len(input)]
  IN  SubSeq(end.input, 1, end.last)

ReadInput(v, n, i) ==
  LET port == OutputPort(v, v.def[n].input[i])
  IN  IF port[2] = Control THEN Link(v, port, <<n, Control>>)
      ELSE Link(UpdateMaxRegularOutputPortForAddedFanin(
                  SetInputs(v, n, v.def[n].input, i), port),
                port, <<n, i>>)

AddAndDedupFanouts(v, n) ==
  LET input == DedupInputs(v, n)
      after[i \in 0..Len(input)] ==
        IF i = 0 THEN SetInput(v, n, input) ELSE ReadInput(after[i - 1], n, i)
  IN  after[Len(input)]

(* The constructor, on a graph whose nodes it visits in order.             *)
NoFanouts(def) ==
  [def     |-> def,
   fanouts |-> [p \in {} |-> {}],
   regular |-> [n \in DOMAIN def |-> 0],
   max_out |-> [n \in {} |-> 0]]

AddFanoutsOf(v, n) == IF n \in DOMAIN v.def THEN AddAndDedupFanouts(v, n) ELSE v

ViewOf(def) ==
  LET after[n \in 0..MaxNodes] ==
        IF n = 0 THEN NoFanouts(def) ELSE AddFanoutsOf(after[n - 1], n)
  IN  after[MaxNodes]

(* A new NodeDef may get the address of one that was deleted, and does.    *)
AddNodeInternal(v, node) ==
  LET n == Min(Ids \ DOMAIN v.def)
  IN  AddAndDedupFanouts([v EXCEPT !.def = Put(@, n, node),
                                   !.regular = Put(@, n, 0)], n)

-----------------------------------------------------------------------------
(* Fanins.                                                                 *)

(* Mutant: the control input is dropped, its entry in fanouts stays. *)
RemoveControllingFaninInputOnly(v, n, f) ==
  LET input == v.def[n].input
      at    == {i \in v.regular[n] + 1..Len(input) : input[i][1] = v.def[f].name}
  IN  IF at = {} THEN v
      ELSE SetInput(v, n, SwapOut(input, Max(at)))

(* Looks from the end, through the control inputs.                         *)
RemoveControllingFaninInternal(v, n, f) ==
  LET input == v.def[n].input
      at    == {i \in 1..Len(input) :
                  /\ input[i][1] = v.def[f].name
                  /\ \A j \in i..Len(input) : input[j][2] = Control}
  IN  IF at = {} THEN v
      ELSE SetInput(Unlink(v, <<f, Control>>, <<n, Control>>),
                    n, SwapOut(input, Max(at)))

(* Of the nodes in C, one after the other.                                 *)
RemoveControllingFanins(v, C, f) ==
  LET after[n \in 0..MaxNodes] ==
        IF n = 0 THEN v
        ELSE IF n \in C THEN RemoveControllingFaninInternal(after[n - 1], n, f)
        ELSE after[n - 1]
  IN  after[MaxNodes]

(* Mutant: also where f stands for a port of a Switch. *)
DedupControlOfAny(v, n, f) == RemoveControllingFaninInternal(v, n, f)

DedupControl(v, n, f) ==
  IF CanDedupControlWithRegularInput(v, f)
  THEN RemoveControllingFaninInternal(v, n, f)
  ELSE v

AddFaninInternal(v, n, fanin) ==
  LET f       == fanin[1]
      control == fanin[2] = Control
      num     == v.regular[n]
      start   == IF CanDedupControlWithRegularInput(v, f) THEN 0 ELSE num
      input   == v.def[n].input
      added   == Append(input, <<v.def[f].name, fanin[2]>>)
      linked  == [Link(v, fanin, <<n, IF control THEN Control ELSE num + 1>>)
                    EXCEPT !.max_out = Put(@, f, Max({At(@, f, 0), fanin[2]}))]
  IN  IF control
      THEN IF \E i \in start + 1..Len(input) : input[i][1] = v.def[f].name
           THEN v
           ELSE SetInput(linked, n, added)
      ELSE DedupControl(SetInputs(linked, n, Swap(added, num + 1, Len(added)), num + 1),
                        n, f)

(* Moves the input at position i of n to position j.                       *)
MoveInput(v, n, i, j) ==
  LET input == v.def[n].input
      port  == OutputPort(v, input[i])
  IN  SetInput(Link(Unlink(v, port, <<n, i>>), port, <<n, j>>), n, Swap(input, i, j))

(* The free place of n at p goes up or down to q, past the inputs between. *)
ShiftUp(v, n, p, q) ==
  LET after[k \in 0..q - p] ==
        IF k = 0 THEN v ELSE MoveInput(after[k - 1], n, p + k, p + k - 1)
  IN  after[q - p]

ShiftDown(v, n, p, q) ==
  LET after[k \in 0..p - q] ==
        IF k = 0 THEN v ELSE MoveInput(after[k - 1], n, p - k, p - k + 1)
  IN  after[p - q]

InsertRegularFanin(v, n, p, t) ==
  LET num   == v.regular[n]
      input == Swap(Append(v.def[n].input, t), num + 1, Len(v.def[n].input) + 1)
      moved == ShiftDown(SetInput(v, n, input), n, num + 1, p)
      port  == OutputPort(v, t)
      read  == UpdateMaxRegularOutputPortForAddedFanin(Link(moved, port, <<n, p>>), port)
  IN  DedupControl(SetInputs(read, n, read.def[n].input, num + 1), n, port[1])

(* Removes every input of n from one port and closes the gaps.             *)
VisitRegularFanin(s, n, fanin, i) ==
  IF s.view.def[n].input[i] = <<s.view.def[fanin[1]].name, fanin[2]>>
  THEN [view |-> UpdateMaxRegularOutputPortForRemovedFanin(
                   Unlink(s.view, fanin, <<n, i>>), fanin),
        pos  |-> s.pos]
  ELSE [view |-> IF s.pos = i THEN s.view ELSE MoveInput(s.view, n, i, s.pos),
        pos  |-> s.pos + 1]

RemoveRegularFaninInternal(v, n, fanin) ==
  LET num == v.regular[n]
      after[i \in 0..num] ==
        IF i = 0 THEN [view |-> v, pos |-> 1]
        ELSE VisitRegularFanin(after[i - 1], n, fanin, i)
      end   == after[num]
      input == end.view.def[n].input
  IN  SetInputs(end.view, n,
                SubSeq(input, 1, end.pos - 1) \o SubSeq(input, num + 1, Len(input)),
                end.pos - 1)

(* The port read so far keeps its bound.                                   *)
RemoveRegularFaninAt(v, n, p) ==
  LET last  == v.regular[n]
      moved == ShiftUp(Unlink(v, OutputPort(v, v.def[n].input[p]), <<n, p>>),
                       n, p, last)
  IN  SetInputs(moved, n, SwapOut(moved.def[n].input, last), last - 1)

ReplaceRegularFanin(v, n, p, t) ==
  LET from == OutputPort(v, v.def[n].input[p])
      to   == OutputPort(v, t)
      freed == UpdateMaxRegularOutputPortForRemovedFanin(
                 Unlink(v, from, <<n, p>>), from)
      w     == UpdateMaxRegularOutputPortForAddedFanin(
                 Link(freed, to, <<n, p>>), to)
  IN  DedupControl(SetInput(w, n, [w.def[n].input EXCEPT ![p] = t]), n, to[1])

(* Every input of n from one port, in place, before the bounds are         *)
(* brought up to date.                                                     *)
ReplaceRegularFaninEverywhere(v, n, from, to) ==
  LET input == v.def[n].input
      at    == {i \in 1..v.regular[n] : input[i] = from}
      ends  == {<<n, i>> : i \in at}
      old   == OutputPort(v, from)
      new   == OutputPort(v, to)
      freed == [v EXCEPT !.fanouts = Put(@, old, At(@, old, {}) \ ends)]
      moved == [freed EXCEPT !.fanouts = Put(@, new, At(@, new, {}) \cup ends)]
      w     == SetInput(moved, n, [i \in DOMAIN input |-> IF i \in at THEN to ELSE input[i]])
  IN  IF at = {} THEN v
      ELSE DedupControl(UpdateMaxRegularOutputPortForAddedFanin(
                          UpdateMaxRegularOutputPortForRemovedFanin(w, old), new),
                        n, new[1])

DropFanin(v, n, i, keep_controlling_fanins) ==
  LET port == OutputPort(v, v.def[n].input[i])
      at   == IF port[2] = Control THEN Control ELSE i
  IN  IF (keep_controlling_fanins /\ at = Control) \/ port \notin DOMAIN v.fanouts
      THEN v
      ELSE UpdateMaxRegularOutputPortForRemovedFanin(Unlink(v, port, <<n, at>>), port)

RemoveFaninsInternal(v, n, keep_controlling_fanins) ==
  LET input == v.def[n].input
      after[i \in 0..Len(input)] ==
        IF i = 0 THEN v ELSE DropFanin(after[i - 1], n, i, keep_controlling_fanins)
  IN  SetInputs(after[Len(input)], n, input, 0)

RemoveFanoutsInternal(v, n) ==
  [v EXCEPT !.fanouts = Erase(@, {n} \X (Control..At(v.max_out, n, -1))),
            !.max_out = Erase(@, {n})]

-----------------------------------------------------------------------------
(* Control inputs: a Switch is waited for through an Identity that reads   *)
(* the port in question, any that the hash set of fanouts gives first.     *)

Anchors(v, port) == {m \in {to[1] : to \in GetFanout(v, port)} : IsIdentity(v, m)}

AnchorName(v, port) == SwitchAnchor(v.def[port[1]].name, port[2])

(* The nodes GetControllingFaninToAdd may answer with; Null if one is to   *)
(* be made.                                                                *)
ControllingFanins(v, port) ==
  IF ~IsSwitch(v, port[1]) THEN {port[1]}
  ELSE IF Anchors(v, port) = {} THEN {Null}
  ELSE Anchors(v, port)

(* Its error_msg is not empty.                                             *)
CannotControl(v, n, port, anchor) ==
  /\ IsSwitch(v, port[1])
  /\ \/ port[2] = Control
     \/ anchor = n
     \/ anchor = Null /\ AnchorName(v, port) = v.def[n].name

GetOrCreateIdentityConsumingSwitch(v, port) ==
  IF HasNode(v, AnchorName(v, port)) THEN v
  ELSE AddNodeInternal(v,
         [name |-> AnchorName(v, port), op |-> "Identity",
          input |-> << <<v.def[port[1]].name, port[2]>> >>])

Anchored(v, port, anchor) ==
  IF anchor = Null THEN GetOrCreateIdentityConsumingSwitch(v, port) ELSE v

AnchorNode(v, port, anchor) ==
  IF anchor = Null THEN GetNode(v, AnchorName(v, port)) ELSE anchor

(* Position s.pos of n becomes a control input from c, unless it has one.  *)
PutControl(s, n, c) ==
  IF c \in s.controls THEN s
  ELSE [view     |-> SetInput(Link(s.view, <<c, Control>>, <<n, Control>>), n,
                       [s.view.def[n].input EXCEPT
                          ![s.pos] = <<s.view.def[c].name, Control>>]),
        pos      |-> s.pos + 1,
        controls |-> s.controls \cup {c}]

(* A regular input of n, at i, is replaced by a control on c.              *)
VisitFanin(s, n, i, port, c) ==
  PutControl([s EXCEPT !.view = Unlink(s.view, port, <<n, i>>)], n, c)

(* A control input there was, at i, moves up unless it is a duplicate.     *)
KeepControl(s, n, i) ==
  LET input == s.view.def[n].input
      c     == GetNode(s.view, input[i][1])
  IN  IF c \in s.controls THEN s
      ELSE [view     |-> SetInput(s.view, n, Swap(input, s.pos, i)),
            pos      |-> s.pos + 1,
            controls |-> s.controls \cup {c}]

(* The Identities that are to be made for the inputs of n.                 *)
WithAnchors(v, n, anchor) ==
  LET after[i \in 0..v.regular[n]] ==
        IF i = 0 THEN v
        ELSE Anchored(after[i - 1], OutputPort(v, v.def[n].input[i]), anchor[i])
  IN  after[v.regular[n]]

(* Replaces the regular inputs of n by controls on the nodes anchor        *)
(* chooses, position by position, then moves up the controls there were.   *)
(* The bounds of the ports stay.  Identities to be made are made first:    *)
(* that changes nothing the edits of n read, nor they what it reads.       *)
FaninsToControlling(v, n, anchor) ==
  LET num   == v.regular[n]
      input == v.def[n].input
      made  == WithAnchors(v, n, anchor)
      after[i \in 0..Len(input)] ==
        IF i = 0 THEN [view |-> made, pos |-> 1, controls |-> {}]
        ELSE IF i <= num
        THEN LET port == OutputPort(v, input[i])
             IN  VisitFanin(after[i - 1], n, i, port, AnchorNode(made, port, anchor[i]))
        ELSE KeepControl(after[i - 1], n, i)
      end   == after[Len(input)]
  IN  SetInputs(end.view, n, SubSeq(end.view.def[n].input, 1, end.pos - 1), 0)

-----------------------------------------------------------------------------
(* Names of nodes.                                                         *)

SwapControlledFanoutInputs(v, f, name) ==
  LET Old(n) == {i \in v.regular[n] + 1..Len(v.def[n].input) :
                   v.def[n].input[i][1] = v.def[f].name}
  IN  WithInputs(v, [n \in DOMAIN v.def |->
        IF <<n, Control>> \in GetFanout(v, <<f, Control>>) /\ Old(n) # {}
        THEN [v.def[n].input EXCEPT ![Min(Old(n))] = <<name, Control>>]
        ELSE v.def[n].input])

SwapRegularFanoutInputs(v, f, name) ==
  LET edges == GetFanoutEdges(v, f)
  IN  WithInputs(v, [n \in DOMAIN v.def |->
        [p \in DOMAIN v.def[n].input |->
           IF \E e \in edges : e[2] = <<n, p>>
           THEN <<name, (CHOOSE e \in edges : e[2] = <<n, p>>)[1]>>
           ELSE v.def[n].input[p]]])

RenameFanouts(v, n, name) ==
  SwapRegularFanoutInputs(SwapControlledFanoutInputs(v, n, name), n, name)

(* Control inputs of both, then regular ones of both.                      *)
SwapFanoutInputs(v, m, n) ==
  LET mControls == SwapControlledFanoutInputs(v, m, v.def[n].name)
      bothControls == SwapControlledFanoutInputs(mControls, n, v.def[m].name)
  IN  SwapRegularFanoutInputs(
        SwapRegularFanoutInputs(bothControls, m, v.def[n].name), n, v.def[m].name)

SwapNames(v, m, n) ==
  [v EXCEPT !.def[m].name = v.def[n].name, !.def[n].name = v.def[m].name]

(* Of two ports of the same number, or both without it, one is as good.    *)
OtherNode(x, m, n) == IF x = m THEN n ELSE IF x = n THEN m ELSE x

SwapBounds(f, m, n) ==
  [x \in {OtherNode(y, m, n) : y \in DOMAIN f} |-> f[OtherNode(x, m, n)]]

SwapPorts(f, m, n, ports) ==
  LET Other(x) == IF x[2] \in ports THEN <<OtherNode(x[1], m, n), x[2]>> ELSE x
  IN  [x \in {Other(y) : y \in DOMAIN f} |-> f[Other(x)]]

(* The entries of from at the ports above go to the other node.            *)
Emplaced(both, from, to, above) ==
  [p \in (DOMAIN both \ {from} \X above) \cup {to} \X above |->
     IF p \in DOMAIN both THEN both[p] ELSE both[<<from, p[2]>>]]

(* The entries of both up to the lower bound, the controls among them,     *)
(* then those of the other one alone.  These are emplaced: where there is  *)
(* an entry already, though an empty one, the fanouts are lost.            *)
SwapFanoutsAndMaxPortValues(v, m, n) ==
  LET mmax   == At(v.max_out, m, -1)
      nmax   == At(v.max_out, n, -1)
      shared == Min({mmax, nmax})
      both   == SwapPorts(v.fanouts, m, n, Control..shared)
      from   == IF mmax > nmax THEN m ELSE n
      to     == IF mmax > nmax THEN n ELSE m
      above  == {i \in shared + 1..Max({mmax, nmax}) : <<from, i>> \in DOMAIN both}
  IN  [v EXCEPT !.fanouts = Emplaced(both, from, to, above),
                !.max_out = SwapBounds(@, m, n)]

(* An input by which n reads its own new name is to read the other node.   *)
ReadOther(v, n, other, i) ==
  LET t    == v.def[n].input[i]
      at   == IF t[2] = Control THEN Control ELSE i
      from == <<n, t[2]>>
      to   == <<other, t[2]>>
      freed == UpdateMaxRegularOutputPortForRemovedFanin(
                 Unlink(v, from, <<n, at>>), from)
  IN  IF t[1] # v.def[n].name THEN v
      ELSE SetInput(UpdateMaxRegularOutputPortForAddedFanin(
                      Link(freed, to, <<n, at>>), to),
                    n, [v.def[n].input EXCEPT ![i] = <<v.def[other].name, t[2]>>])

ReadInsteadOfSelf(v, n, other) ==
  LET last == Len(v.def[n].input)
      after[i \in 0..last] ==
        IF i = 0 THEN v ELSE ReadOther(after[i - 1], n, other, i)
  IN  after[last]

DedupControlFanouts(v, f) ==
  IF CanDedupControlWithRegularInput(v, f)
  THEN RemoveControllingFanins(v,
         {n \in DOMAIN v.def : /\ <<n, Control>> \in GetFanout(v, <<f, Control>>)
                               /\ HasRegularFaninNode(v, n, v.def[f].name)},
         f)
  ELSE v

(* Those of the nodes that read n, which was a Switch.                     *)
DedupSwitchControl(v, n) ==
  LET readers == {e[2][1] : e \in GetFanoutEdges(v, n)}
      after[r \in 0..MaxNodes] ==
        IF r = 0 THEN v
        ELSE IF r \in readers THEN DedupControlFanouts(after[r - 1], r)
        ELSE after[r - 1]
  IN  after[MaxNodes]

Settle(v, x, was_switch, other_was_switch) ==
  IF was_switch THEN v
  ELSE IF other_was_switch THEN DedupSwitchControl(v, x)
  ELSE DedupControlFanouts(v, x)

SwapNodes(v, m, n) ==
  LET moved == SwapFanoutsAndMaxPortValues(SwapNames(v, m, n), m, n)
      apart == ReadInsteadOfSelf(ReadInsteadOfSelf(moved, m, n), n, m)
  IN  Settle(Settle(apart, m, IsSwitch(v, m), IsSwitch(v, n)),
             n, IsSwitch(v, n), IsSwitch(v, m))

(* The control fanouts of a node, one consumer after the other.            *)
MoveControls(v, from, to) ==
  LET consumers == {c[1] : c \in GetFanout(v, <<from, Control>>)} \ {to}
      after[c \in 0..MaxNodes] ==
        IF c = 0 THEN v
        ELSE IF c \in consumers
        THEN AddFaninInternal(RemoveControllingFaninInternal(after[c - 1], c, from),
                              c, <<to, Control>>)
        ELSE after[c - 1]
  IN  after[MaxNodes]

(* The regular edges of a node but those into the new one.                 *)
MoveEdges(v, from, to, edges) ==
  LET Readers(i) == {e[2] : e \in {d \in edges : d[1] = i}}
      Edge(n, i) == CHOOSE e \in edges : e[2] = <<n, i>>
      moved == [v EXCEPT
                  !.fanouts = [p \in DOMAIN @ \cup {<<to, e[1]>> : e \in edges} |->
                                 IF p[1] = from THEN @[p] \ Readers(p[2])
                                 ELSE IF p[1] = to THEN At(@, p, {}) \cup Readers(p[2])
                                 ELSE @[p]]]
  IN  WithInputs(moved, [n \in DOMAIN v.def |->
        [i \in DOMAIN v.def[n].input |->
           IF \E e \in edges : e[2] = <<n, i>>
           THEN <<v.def[to].name, Edge(n, i)[1]>>
           ELSE v.def[n].input[i]]])

(* Controls first, then the regular edges and the bounds; a control on the *)
(* new node that is redundant then goes, which no bound depends on.        *)
MoveFanouts(v, from, to) ==
  LET controls == MoveControls(v, from, to)
      edges    == GetFanoutEdges(controls, from)
      moving   == {e \in edges : e[2][1] # to}
      keep     == {e[1] : e \in edges \ moving}
      read     == MoveEdges(controls, from, to, moving)
      max      == Put(read.max_out, to, At(read.max_out, from, 0))
      bounded  == [read EXCEPT !.max_out = IF keep = {} THEN Erase(max, {from})
                                           ELSE Put(max, from, Max(keep))]
  IN  IF CanDedupControlWithRegularInput(bounded, to)
      THEN RemoveControllingFanins(bounded, {e[2][1] : e \in moving}, to)
      ELSE bounded

-----------------------------------------------------------------------------
(* Deletion.                                                               *)

(* Mutant: only the regular fanouts are asked for. *)
CanDeleteAsIfNoControls(v, gone) ==
  \A n \in gone, i \in 0..Max(Ports) :
    i <= At(v.max_out, n, Control) =>
      \A to \in GetFanout(v, <<n, i>>) : to[1] \in gone

CheckNodesCanBeDeleted(v, gone) ==
  \A n \in gone : \A i \in Control..At(v.max_out, n, Control) :
    \A to \in GetFanout(v, <<n, i>>) : to[1] \in gone

DropEdges(v, n) ==
  RemoveFanoutsInternal(RemoveFaninsInternal(v, n, FALSE), n)

Deleted(v, gone) ==
  LET after[n \in 0..MaxNodes] ==
        IF n = 0 THEN v
        ELSE IF n \in gone THEN DropEdges(after[n - 1], n) ELSE after[n - 1]
  IN  [after[MaxNodes] EXCEPT !.def = Erase(@, gone), !.regular = Erase(@, gone)]

-----------------------------------------------------------------------------
(* The calls of a client.                                                  *)

VARIABLES
  view,    \* the graph and its view
  call,    \* the last call
  result,  \* what it returned: "ok" or "error"
  calls    \* how many there were

vars == <<view, call, result, calls>>

Done(v) == view' = v /\ result' = "ok"
Refuse  == UNCHANGED view /\ result' = "error"

Node(name) == GetNode(view, name)
HasRoom(k) == Cardinality(Ids \ DOMAIN view.def) >= k

(* Regular is CheckFaninIsRegular, and so on.                              *)
Regular(t) == t[2] # Control
Exist(S)   == \A name \in S : HasNode(view, name)
InRange(p, max) == p \in 1..max

(* AddAndDedupFanouts has a TODO for checks of the inputs: here the client *)
(* gives inputs there are, and no control input from a Switch.             *)
AddNode(node) ==
  /\ call' = <<"AddNode", node>>
  /\ HasRoom(1)
  /\ ~HasNode(view, node.name)
  /\ \A t \in ToSet(node.input) :
       /\ HasNode(view, t[1])
       /\ Regular(t) \/ ~IsSwitch(view, Node(t[1]))
  /\ Done(AddNodeInternal(view, node))

UpdateNode(name, op) ==
  LET n  == Node(name)
      w  == [view EXCEPT !.def[n].op = op]
      cs == GetFanout(view, <<n, Control>>)
  IN  /\ call' = <<"UpdateNode", name, op>>
      /\ IF ~Exist({name}) \/ (op = "Switch" /\ cs # {}) THEN Refuse
         ELSE Done(IF view.def[n].op = op THEN view ELSE DedupControlFanouts(w, n))

(* With update_fanouts, the entry of the control fanouts is read whether   *)
(* there is one or not: only where there is one is the result defined.     *)
UpdateNodeName(from, to, update_fanouts) ==
  LET n == Node(from)
      hasFanouts == n \in DOMAIN view.max_out \/ GetFanout(view, <<n, Control>>) # {}
  IN  /\ call' = <<"UpdateNodeName", from, to, update_fanouts>>
      /\ IF ~Exist({from}) \/ (from # to /\ HasNode(view, to))
            \/ (from # to /\ ~update_fanouts /\ hasFanouts)
         THEN Refuse
         ELSE IF from = to THEN Done(view)
         ELSE /\ update_fanouts => <<n, Control>> \in DOMAIN view.fanouts
              /\ Done([(IF update_fanouts THEN RenameFanouts(view, n, to) ELSE view)
                         EXCEPT !.def[n].name = to])

SwapNodeNames(from, to, update_fanouts) ==
  LET m == Node(from)
      n == Node(to)
      BecomesSwitchControl(x, y) == IsSwitch(view, x) /\ GetFanout(view, <<y, Control>>) # {}
  IN  /\ call' = <<"SwapNodeNames", from, to, update_fanouts>>
      /\ IF ~Exist({from}) THEN Refuse
         ELSE IF from = to THEN Done(view)
         ELSE IF ~Exist({to}) THEN Refuse
         ELSE IF update_fanouts THEN Done(SwapNames(SwapFanoutInputs(view, m, n), m, n))
         ELSE IF BecomesSwitchControl(m, n) \/ BecomesSwitchControl(n, m) THEN Refuse
         ELSE Done(SwapNodes(view, m, n))

UpdateFanouts(from, to) ==
  LET m == Node(from)
      n == Node(to)
  IN  /\ call' = <<"UpdateFanouts", from, to>>
      /\ IF ~Exist({from, to}) THEN Refuse
         ELSE IF m = n THEN Done(view)
         ELSE IF IsSwitch(view, n) /\ \E c \in GetFanout(view, <<m, Control>>) : c[1] # n
         THEN Refuse
         ELSE Done(MoveFanouts(view, m, n))

AddRegularFanin(name, t) ==
  /\ call' = <<"AddRegularFanin", name, t>>
  /\ IF ~Regular(t) \/ name = t[1] \/ ~Exist({name, t[1]}) THEN Refuse
     ELSE /\ Len(view.def[Node(name)].input) < MaxFanin
          /\ Done(AddFaninInternal(view, Node(name), OutputPort(view, t)))

AddRegularFaninByPort(name, p, t) ==
  /\ call' = <<"AddRegularFaninByPort", name, p, t>>
  /\ IF ~Regular(t) \/ name = t[1] \/ ~Exist({name, t[1]})
        \/ ~InRange(p, view.regular[Node(name)] + 1)
     THEN Refuse
     ELSE /\ Len(view.def[Node(name)].input) < MaxFanin
          /\ Done(InsertRegularFanin(view, Node(name), p, t))

AddControllingFanin(name, t) ==
  LET n    == Node(name)
      port == OutputPort(view, t)
  IN  /\ call' = <<"AddControllingFanin", name, t>>
      /\ IF name = t[1] \/ ~Exist({name, t[1]}) THEN Refuse
         ELSE \E anchor \in ControllingFanins(view, port) :
                IF CannotControl(view, n, port, anchor) THEN Refuse
                ELSE LET w == Anchored(view, port, anchor)
                     IN  /\ Len(view.def[n].input) < MaxFanin
                         /\ anchor = Null => HasRoom(1)
                         /\ Done(AddFaninInternal(w, n,
                                   <<AnchorNode(w, port, anchor), Control>>))

RemoveRegularFanin(name, t) ==
  /\ call' = <<"RemoveRegularFanin", name, t>>
  /\ IF ~Regular(t) \/ name = t[1] \/ ~Exist({name, t[1]}) THEN Refuse
     ELSE Done(RemoveRegularFaninInternal(view, Node(name), OutputPort(view, t)))

RemoveRegularFaninByPort(name, p) ==
  /\ call' = <<"RemoveRegularFaninByPort", name, p>>
  /\ IF ~Exist({name}) \/ ~InRange(p, view.regular[Node(name)]) THEN Refuse
     ELSE Done(RemoveRegularFaninAt(view, Node(name), p))

RemoveControllingFanin(name, fanin) ==
  /\ call' = <<"RemoveControllingFanin", name, fanin>>
  /\ IF name = fanin \/ ~Exist({name, fanin}) THEN Refuse
     ELSE Done(RemoveControllingFaninInternal(view, Node(name), Node(fanin)))

RemoveAllFanins(name, keep_controlling_fanins) ==
  LET n == Node(name)
      w == RemoveFaninsInternal(view, n, keep_controlling_fanins)
  IN  /\ call' = <<"RemoveAllFanins", name, keep_controlling_fanins>>
      /\ IF ~Exist({name}) THEN Refuse
         ELSE IF view.def[n].input = <<>> THEN Done(view)
         ELSE Done(SetInput(w, n,
                     IF keep_controlling_fanins
                     THEN SubSeq(view.def[n].input, view.regular[n] + 1,
                                 Len(view.def[n].input))
                     ELSE <<>>))

UpdateFanin(name, from, to) ==
  LET n == Node(name)
      w == IF Regular(from)
           THEN RemoveRegularFaninInternal(view, n, OutputPort(view, from))
           ELSE RemoveControllingFaninInternal(view, n, Node(from[1]))
  IN  /\ call' = <<"UpdateFanin", name, from, to>>
      /\ IF ~Exist({name, from[1], to[1]})
            \/ (~Regular(to) /\ IsSwitch(view, Node(to[1])))
            \/ name \in {from[1], to[1]}
         THEN Refuse
         ELSE IF from = to THEN Done(view)
         ELSE IF Regular(from) /\ Regular(to)
         THEN Done(ReplaceRegularFaninEverywhere(view, n, from, to))
         ELSE Done(IF w.def[n] = view.def[n] THEN w
                   ELSE AddFaninInternal(w, n, OutputPort(view, to)))

UpdateRegularFaninByPort(name, p, t) ==
  LET n == Node(name)
  IN  /\ call' = <<"UpdateRegularFaninByPort", name, p, t>>
      /\ IF ~Regular(t) \/ name = t[1] \/ ~Exist({name, t[1]})
            \/ ~InRange(p, view.regular[n])
         THEN Refuse
         ELSE Done(IF view.def[n].input[p] = t THEN view
                   ELSE ReplaceRegularFanin(view, n, p, t))

SwapRegularFaninsByPorts(name, p, q) ==
  LET n == Node(name)
      from == OutputPort(view, view.def[n].input[p])
      to   == OutputPort(view, view.def[n].input[q])
      v1   == Link(Unlink(view, from, <<n, p>>), from, <<n, q>>)
  IN  /\ call' = <<"SwapRegularFaninsByPorts", name, p, q>>
      /\ IF ~Exist({name}) \/ ~InRange(p, view.regular[n]) \/ ~InRange(q, view.regular[n])
         THEN Refuse
         ELSE Done(IF p = q \/ from = to THEN view
                   ELSE SetInput(Link(Unlink(v1, to, <<n, q>>), to, <<n, p>>),
                                 n, Swap(view.def[n].input, p, q)))

UpdateAllRegularFaninsToControlling(name) ==
  LET n == Node(name)
      fanins == 1..view.regular[n]
      Port(i) == OutputPort(view, view.def[n].input[i])
      (* The same fanout comes first whenever a set is asked. *)
      choices == {c \in [fanins -> Ids \cup {Null}] :
                    /\ \A i \in fanins : c[i] \in ControllingFanins(view, Port(i))
                    /\ \A i, j \in fanins : Port(i) = Port(j) => c[i] = c[j]}
  IN  /\ call' = <<"UpdateAllRegularFaninsToControlling", name>>
      /\ IF ~Exist({name}) THEN Refuse
         ELSE \E anchor \in choices :
                IF \E i \in fanins : CannotControl(view, n, Port(i), anchor[i])
                THEN Refuse
                ELSE /\ HasRoom(Cardinality({Port(i) : i \in {j \in fanins : anchor[j] = Null}}))
                     /\ Done(FaninsToControlling(view, n, anchor))

DeleteNodes(names) ==
  LET gone == {n \in DOMAIN view.def : view.def[n].name \in names}
  IN  /\ call' = <<"DeleteNodes", names>>
      /\ IF ~CheckNodesCanBeDeleted(view, gone) THEN Refuse
         ELSE Done(Deleted(view, gone))

-----------------------------------------------------------------------------
(* The specification.                                                      *)

Init ==
  /\ \E def \in InitDefs : view = ViewOf(def)
  /\ call = <<"MutableGraphView">>
  /\ result = "ok"
  /\ calls = 0

(* The bound of the new node is replaced by a lower one.                   *)
LowersBound(from, to) ==
  Exist({from, to}) /\ At(view.max_out, Node(to), -1) > At(view.max_out, Node(from), 0)

(* Fanouts would be emplaced where an empty entry is left.                 *)
LosesFanouts(from, to) ==
  \E i \in Ports :
    /\ i > At(view.max_out, Node(to), -1)
    /\ <<Node(to), i>> \in DOMAIN view.fanouts
    /\ <<Node(from), i>> \in DOMAIN view.fanouts

Places == 1..MaxFanin - 1

Edit ==
  \/ \E node \in NewNodes : AddNode(node)
  \/ \E n \in Names, op \in Ops : UpdateNode(n, op)
  \/ \E n, m \in Names, u \in BOOLEAN : UpdateNodeName(n, m, u)
  \/ \E n \in Names, t \in Tensors : AddRegularFanin(n, t)
  \/ \E n \in Names, p \in Places, t \in Tensors : AddRegularFaninByPort(n, p, t)
  \/ \E n \in Names, t \in Tensors : AddControllingFanin(n, t)
  \/ \E n \in Names, t \in Tensors : RemoveRegularFanin(n, t)
  \/ \E n \in Names, p \in Places : RemoveRegularFaninByPort(n, p)
  \/ \E n, m \in Names : RemoveControllingFanin(n, m)
  \/ \E n \in Names, keep \in BOOLEAN : RemoveAllFanins(n, keep)
  \/ \E n \in Names, t, u \in Tensors : UpdateFanin(n, t, u)
  \/ \E n \in Names, p \in Places, t \in Tensors : UpdateRegularFaninByPort(n, p, t)
  \/ \E n \in Names, p, q \in Places : SwapRegularFaninsByPorts(n, p, q)
  \/ \E n \in Names : UpdateAllRegularFaninsToControlling(n)
  \/ \E S \in SUBSET Names : DeleteNodes(S)

(* What Next leaves out of UpdateFanouts and SwapNodeNames, which no pass  *)
(* of the plugin calls, spoils the view; NextAnyCall has it.               *)
Next ==
  /\ calls < MaxCalls
  /\ calls' = calls + 1
  /\ \/ Edit
     \/ \E n, m \in Names : ~LowersBound(n, m) /\ UpdateFanouts(n, m)
     \/ \E n, m \in Names, u \in BOOLEAN :
          ~LosesFanouts(n, m) /\ ~LosesFanouts(m, n) /\ SwapNodeNames(n, m, u)

NextAnyCall ==
  /\ calls < MaxCalls
  /\ calls' = calls + 1
  /\ \/ Edit
     \/ \E n, m \in Names : UpdateFanouts(n, m)
     \/ \E n, m \in Names, u \in BOOLEAN : SwapNodeNames(n, m, u)

Spec        == Init /\ [][Next]_vars
SpecAnyCall == Init /\ [][NextAnyCall]_vars

-----------------------------------------------------------------------------
(* Properties.                                                             *)

Nodes == DOMAIN view.def
InputsOf(n) == view.def[n].input

(* Every input names a node there is, whatever was deleted or renamed.     *)
NothingDangles ==
  \A n \in Nodes : \A i \in DOMAIN InputsOf(n) : HasNode(view, InputsOf(n)[i][1])

(* What every pass that reads the graph relies on: names are unique, every *)
(* input names a node; regular inputs come before control inputs and are   *)
(* as many as the view says; nobody waits for a Switch, or twice for the   *)
(* same node, or for one it reads anyway unless it is an Identity that may *)
(* stand for a port of a Switch.                                           *)
InputsWellFormed ==
  /\ NothingDangles
  /\ \A m, n \in Nodes : view.def[m].name = view.def[n].name => m = n
  /\ \A n \in Nodes : \A i \in DOMAIN InputsOf(n) :
       LET t == InputsOf(n)[i]
           f == GetNode(view, t[1])
       IN  /\ f # n
           /\ i <= view.regular[n] <=> t[2] # Control
           /\ t[2] = Control =>
                /\ ~IsSwitch(view, f)
                /\ \A j \in 1..i - 1 :
                     InputsOf(n)[j][1] = t[1] =>
                       InputsOf(n)[j][2] # Control /\ IsIdentity(view, f)

(* From a node, a pass finds exactly the inputs that read it: GetFanouts   *)
(* and GetFanoutEdges walk the ports up to the bound, GetFanout asks for   *)
(* one port, and both agree with the NodeDefs after any calls of Next.     *)
FanoutsAreFound ==
  \A n \in Nodes :
    LET readers(p) ==
          UNION { {<<m, i>> : i \in {j \in DOMAIN InputsOf(m) :
                                       InputsOf(m)[j] = <<view.def[n].name, p>>}} :
                  m \in Nodes }
    IN  /\ GetFanoutEdges(view, n) =
             UNION { {p} \X readers(p) : p \in Ports }
        /\ \A p \in Ports : GetFanout(view, <<n, p>>) = readers(p)
        /\ {to[1] : to \in GetFanout(view, <<n, Control>>)} =
             {r[1] : r \in readers(Control)}
=============================================================================
