-------------------------- MODULE AutoMixedPrecision --------------------------
(***************************************************************************)
(* The automatic mixed precision pass of                                   *)
(* graph/auto_mixed_precision/auto_mixed_precision.cc: it decides which of *)
(* the float type attributes of a graph become bfloat16 (the allow set),   *)
(* changes them, and puts a Cast wherever an edge joins one it changed and *)
(* one it did not.                                                         *)
(*                                                                         *)
(* A node is [name, op, device, attr, input], its inputs the regular ones, *)
(* each [node, port]: the place of another node in the graph, 0 if there   *)
(* is none of the name.  A name is a sequence, so that the name of a Cast  *)
(* is made of the name it reads.  A type vertex <<n, id>> is type          *)
(* attribute id of node n.                                                 *)
(*                                                                         *)
(* An item is [graph, preserve, update, registry, data_type,               *)
(* env_data_type, unsafe_force_all]: the nodes to preserve, by name, what  *)
(* the configuration adds to and removes from the op lists, which kernels  *)
(* are registered, and the options.                                        *)
(*                                                                         *)
(* The optimizer may be run again over the graph it has made: run counts.  *)
(***************************************************************************)
EXTENDS Integers, Sequences, Functions, FiniteSets

CONSTANTS
  OpDefs,       \* op -> its definition, as TensorFlow's registry holds it
  Items,
  Registries,   \* registry -> op -> the kernels registered for it
  MaxRuns

VARIABLES
  item,
  graph,           \* graph_
  run,             \* how often the optimizer has been started
  phase,           \* the step of Optimize that comes next
  status,          \* what it returned; "aborted" if a CHECK failed
  should_process,  \* should_process_nodes_
  view,            \* graph_type_view_: [vertices, edges]
  clusters,        \* tensor_list_clusters
  deny_set, allow_set,
  node_idx         \* the loop of ChangeTypeAttrsAndAddCasts

vars == <<item, graph, run, phase, status, should_process, view, clusters,
          deny_set, allow_set, node_idx>>

sets == <<should_process, view, clusters, deny_set, allow_set, node_idx>>

-----------------------------------------------------------------------------
(***************************************************************************)
(* The type attributes of a node and the ports they give their type to     *)
(* (graph/utils/node_type_attr_map).                                       *)
(*                                                                         *)
(* A node is [op, attr, input, ...], attr its attributes by name; the      *)
(* attributes whose name starts with an underscore are left out.  An op    *)
(* definition is [input_arg, output_arg, attr]: arguments are [type_attr,  *)
(* type_list_attr, number_attr, type], "" standing for what is not set,    *)
(* and attr gives each attribute's kind and the set of types it allows,    *)
(* empty if it allows all.  An attribute is [kind, value, i]: value is a   *)
(* sequence, of one for what is no list, and i what an integer counts.     *)
(***************************************************************************)
SingleType(t) == [kind |-> "type", value |-> <<t>>, i |-> 0]
ListOfTypes(s) == [kind |-> "list(type)", value |-> s, i |-> 0]
Number(n) == [kind |-> "int", value |-> <<>>, i |-> n]

kSingleType == -1

(* TypeAttrId: an attribute, an element of a list attribute, or a type     *)
(* that the op definition fixes.                                           *)
TypeAttr(name) ==
  [attr_name |-> name, type_index |-> kSingleType, fixed_type |-> "invalid"]
TypeAttrAt(name, k) ==
  [attr_name |-> name, type_index |-> k, fixed_type |-> "invalid"]
FixedType(t) ==
  [attr_name |-> "", type_index |-> kSingleType, fixed_type |-> t]

GetDataType(node, id) ==
  IF id.attr_name = "" THEN id.fixed_type
  ELSE IF id.attr_name \notin DOMAIN node.attr THEN "invalid"
  ELSE LET a == node.attr[id.attr_name]
       IN  IF id.type_index = kSingleType
           THEN IF a.kind = "type" THEN a.value[1] ELSE "invalid"
           ELSE IF a.kind = "list(type)" /\ id.type_index \in DOMAIN a.value
           THEN a.value[id.type_index] ELSE "invalid"

(* One entry for each port of an argument: a list attribute has a port for *)
(* each type, a number attribute repeats the argument.                     *)
ArgDefIndexes(node, arg) ==
  IF arg.type_list_attr # ""
  THEN [k \in 1..Len(node.attr[arg.type_list_attr].value) |->
          TypeAttrAt(arg.type_list_attr, k)]
  ELSE [k \in 1..(IF arg.number_attr \in DOMAIN node.attr
                  THEN node.attr[arg.number_attr].i ELSE 1) |->
          IF arg.type_attr # "" THEN TypeAttr(arg.type_attr)
                                ELSE FixedType(arg.type)]

Joined(parts) ==
  LET Ports[k \in 0..Len(parts)] ==
        IF k = 0 THEN <<>> ELSE Ports[k - 1] \o parts[k]
  IN  Ports[Len(parts)]

PortTypes(node, args) ==
  Joined([k \in DOMAIN args |-> ArgDefIndexes(node, args[k])])

InputPortTypes(node)  == PortTypes(node, OpDefs[node.op].input_arg)
OutputPortTypes(node) == PortTypes(node, OpDefs[node.op].output_arg)

(* Attributes an op definition may lack without an error.                  *)
IsMisadded(op, name) ==
  \/ op = "QuantizeV2" /\ name = "dtype"
  \/ op = "_MklFusedBatchMatMulV2" /\ name = "epsilon"
  \/ op \in {"QuantizedMaxPool", "QuantizedConcatV2"} /\ name = "out_type"

ListAttrsPresent(node, args) ==
  \A k \in DOMAIN args : args[k].type_list_attr \in DOMAIN node.attr \cup {""}

TypeAttrsPresent(node, ids) ==
  \A k \in DOMAIN ids : ids[k].attr_name \in DOMAIN node.attr \cup {""}

(* AddNode: whether the node fits its op definition.  A list attribute is  *)
(* looked up before anybody has seen that it is there.                     *)
AddNode(node) ==
  IF node.op \notin DOMAIN OpDefs THEN "NotFound"
  ELSE IF ~ListAttrsPresent(node, OpDefs[node.op].input_arg) THEN "aborted"
  ELSE IF \/ Len(node.input) # Len(InputPortTypes(node))
          \/ ~TypeAttrsPresent(node, InputPortTypes(node))
  THEN "InvalidArgument"
  ELSE IF ~ListAttrsPresent(node, OpDefs[node.op].output_arg) THEN "aborted"
  ELSE IF \/ ~TypeAttrsPresent(node, OutputPortTypes(node))
          \/ \E a \in DOMAIN node.attr \ DOMAIN OpDefs[node.op].attr :
               ~IsMisadded(node.op, a)
  THEN "InvalidArgument"
  ELSE "OK"

AttrsOfKind(node, kind) ==
  {a \in DOMAIN node.attr \cap DOMAIN OpDefs[node.op].attr :
     OpDefs[node.op].attr[a].kind = kind}

(* The type attributes of a node, those without a port included. *)
GetTypeAttrs(node) ==
  Range(InputPortTypes(node)) \cup Range(OutputPortTypes(node))
    \cup {TypeAttr(a) : a \in AttrsOfKind(node, "type")}
    \cup UNION {{TypeAttrAt(a, k) : k \in DOMAIN node.attr[a].value} :
                  a \in AttrsOfKind(node, "list(type)")}

(* The types a node has at its ports.                                      *)
InputTypes(node) ==
  [k \in DOMAIN node.input |-> GetDataType(node, InputPortTypes(node)[k])]
OutputTypes(node) ==
  [p \in DOMAIN OutputPortTypes(node) |->
     GetDataType(node, OutputPortTypes(node)[p])]

GetInputPorts(node, id) ==
  {k \in DOMAIN node.input : InputPortTypes(node)[k] = id}
GetOutputPorts(node, id) ==
  {k \in DOMAIN OutputPortTypes(node) : OutputPortTypes(node)[k] = id}

-----------------------------------------------------------------------------
(***************************************************************************)
(* Which of the kernels registered for an op runs a node: util/op_kernel.cc *)
(* and util/kernel_def_util.cc.                                            *)
(*                                                                         *)
(* A kernel is [device, priority, constraint], its constraints a sequence  *)
(* of [name, kinds, allowed]: kinds are the kinds of value it lists        *)
(* ("type", "string", "int", "bool") and allowed the values.               *)
(***************************************************************************)
(* One constraint against the attributes of a node.  An attribute that is  *)
(* not of the kind of the constraint is an error; a type DT_INVALID is     *)
(* read as no type at all.                                                 *)
InTypeList(value, allowed) == \A k \in DOMAIN value : value[k] \in allowed

ConstraintStatus(c, attrs) ==
  IF c.kinds = {} THEN "Unimplemented"
  ELSE IF (\E a, b \in c.kinds : a # b) \/ c.name \notin DOMAIN attrs
  THEN "InvalidArgument"
  ELSE LET a == attrs[c.name]
       IN  IF (IF c.kinds = {"type"} THEN a.kind \in {"type", "list(type)"}
                                     ELSE {a.kind} = c.kinds)
           THEN IF InTypeList(a.value, c.allowed) THEN "match" ELSE "mismatch"
           ELSE "InvalidArgument"

(* The first constraint that does not match, or is an error, decides.      *)
KernelAttrsMatch(kernel, attrs) ==
  LET answer == [k \in DOMAIN kernel.constraint |->
                   ConstraintStatus(kernel.constraint[k], attrs)]
      others == {k \in DOMAIN answer : answer[k] # "match"}
  IN  IF others = {} THEN "match"
      ELSE answer[CHOOSE k \in others : \A j \in others : k <= j]

(* The search through the kernels of one device, in the order they were    *)
(* registered in.  A tie is an error when it is met, whatever comes after:  *)
(* two kernels of one priority, or of the default device any two.          *)
Search(kernels, attrs, device) ==
  LET Found[k \in 0..Len(kernels)] ==
        IF k = 0 THEN [status |-> "OK", reg |-> 0]
        ELSE LET before == Found[k - 1]
                 match  == KernelAttrsMatch(kernels[k], attrs)
             IN  IF \/ before.status # "OK"
                    \/ kernels[k].device # device
                    \/ match = "mismatch"
                 THEN before
                 ELSE IF match # "match"
                 THEN [before EXCEPT !.status = match]
                 ELSE IF before.reg = 0 THEN [before EXCEPT !.reg = k]
                 ELSE IF \/ device = "DEFAULT"
                         \/ kernels[before.reg].priority = kernels[k].priority
                 THEN [before EXCEPT !.status = "InvalidArgument"]
                 ELSE IF kernels[before.reg].priority > kernels[k].priority
                 THEN before
                 ELSE [before EXCEPT !.reg = k]
  IN  Found[Len(kernels)]

FindKernelRegistration(kernels, attrs, device) ==
  LET own == Search(kernels, attrs, device)
  IN  IF own.status # "OK" \/ own.reg # 0 THEN own
      ELSE Search(kernels, attrs, "DEFAULT")

FindKernelDef(kernels, attrs, device) ==
  LET found == FindKernelRegistration(kernels, attrs, device)
  IN  IF found.status = "OK" /\ found.reg = 0 THEN "NotFound"
      ELSE found.status

KernelDefAvailable(kernels, attrs, device) ==
  FindKernelDef(kernels, attrs, device) = "OK"

-----------------------------------------------------------------------------
(* The op lists of auto_mixed_precision_lists.h, as far as the ops of the  *)
(* model go.                                                               *)

tensor_list_ops ==
  {"TensorListFromTensor", "TensorListGetItem", "TensorListSetItem",
   "TensorListStack", "TensorListPushBack", "TensorListConcatLists"}

allow_list_ops ==
  {"Conv2D", "DepthwiseConv2dNative", "MatMul", "BatchMatMul",
   "BatchMatMulV2", "Tanh", "Fill", "OneHot"}

(* No comma stands between "Sum" and "TanhGrad".                           *)
infer_list_ops ==
  {"Add", "AddN", "AddV2", "BiasAdd", "FusedBatchNormV2",
   "FusedBatchNormGradV2", "Mul", "Sigmoid", "Softmax", "SumTanhGrad"}

deny_list_ops == {"Exp", "Expm1", "L2Loss", "Pow", "SaveV2"}

clear_list_ops ==
  {"Abs", "Concat", "Enter", "Exit", "Identity", "Max", "Merge",
   "NextIteration", "Pack", "Relu", "Select", "Split", "StopGradient",
   "Switch"}

(* Adding and removing ops, as the configuration or the environment asks:  *)
(* update is [add, remove], each by list name.                             *)
UpdateList(name, list, update) ==
  (list \cup update.add[name]) \ update.remove[name]

(* The lists of the CPU, by name. *)
Lists(update) ==
  [ALLOWLIST |-> UpdateList("ALLOWLIST", allow_list_ops, update),
   INFERLIST |-> UpdateList("INFERLIST", infer_list_ops \cup {"Sum", "Square"},
                            update),
   DENYLIST  |-> UpdateList("DENYLIST", deny_list_ops \ {"Sum"}, update),
   CLEARLIST |-> UpdateList("CLEARLIST", clear_list_ops \cup tensor_list_ops,
                            update)]

ListNames == {"ALLOWLIST", "INFERLIST", "DENYLIST", "CLEARLIST"}

(* No op may be on two lists.                                              *)
ValidateLists(lists) ==
  \A a, b \in ListNames : a # b => lists[a] \cap lists[b] = {}

-----------------------------------------------------------------------------
(* What the pass asks about a node and its type attributes.                *)

Op(v) == graph[v[1]].op
On(v, list) == Op(v) \in Lists(item.update)[list]
ShouldProcess(v) == v[1] \in should_process
IsFloat32(v) == GetDataType(graph[v[1]], v[2]) = "float"

MustPreserve(node) == node.name \in item.preserve

(* A device type that has "cpu" in it, in either case.  A node without a   *)
(* device is on none.                                                      *)
IsOnDevice(node) == node.device \in {"CPU", "XLA_CPU"}

(* AllowedDataTypes and SetDataType.                                       *)
AllowsF16(op, id) ==
  IF id.attr_name = "" THEN id.fixed_type = "bfloat16"
  ELSE LET allowed == OpDefs[op].attr[id.attr_name].allowed
       IN  allowed = {} \/ "bfloat16" \in allowed

CanSetDataType(node, id) ==
  /\ id.attr_name \in DOMAIN node.attr
  /\ \/ id.type_index = kSingleType
     \/ id.type_index \in DOMAIN node.attr[id.attr_name].value

SetDataType(attr, id, type) ==
  [attr EXCEPT ![id.attr_name] =
     IF id.type_index = kSingleType THEN SingleType(type)
     ELSE ListOfTypes([@.value EXCEPT ![id.type_index] = type])]

NodeHasF16Kernel(node, id) ==
  /\ CanSetDataType(node, id)
  /\ KernelDefAvailable(Registries[item.registry][node.op],
                        SetDataType(node.attr, id, "bfloat16"), node.device)

SupportsF16(v) ==
  /\ AllowsF16(Op(v), v[2])
  /\ NodeHasF16Kernel(graph[v[1]], v[2])

(* The nodes that read an output, and the type vertices they read it with. *)
Fanout(n, port) ==
  UNION {{d} \X {k \in DOMAIN graph[d].input :
                   graph[d].input[k] = [node |-> n, port |-> port]}
           : d \in DOMAIN graph}

InputVertex(d, k) == <<d, InputPortTypes(graph[d])[k]>>

(* NodeImplicitlyReadsNonResourceVariable: an Identity of a variable, or   *)
(* Enters of one.                                                          *)
ReadsVariable(n) ==
  LET Fanin(m) == graph[m].input[1].node
      Before[k \in DOMAIN graph \cup {0}] ==
        IF k = 0 THEN n
        ELSE LET m == Before[k - 1]
             IN  IF graph[m].op = "Enter" THEN Fanin(m) ELSE m
      m == Before[Len(graph)]
  IN  /\ graph[m].op = "Identity"
      /\ graph[Fanin(m)].op \in {"Variable", "VariableV2"}

-----------------------------------------------------------------------------
(* Traversals, from fanins, from fanouts or both: what a depth-first       *)
(* search from root along the edges E meets if it enters only the vertices *)
(* of a set, root itself excepted.                                         *)

ToFanouts == view.edges
ToFanins  == {<<e[2], e[1]>> : e \in view.edges}
ToAll     == ToFanouts \cup ToFanins

Beyond(E, met) == {e[2] : e \in {f \in E : f[1] \in met}}

DfsTypeTraversal(root, E, enter) ==
  LET Met[k \in 0..Cardinality(enter)] ==
        IF k = 0 THEN {root}
        ELSE LET met == Met[k - 1] IN met \cup (enter \cap Beyond(E, met))
  IN  {root} \cup (enter \cap Met[Cardinality(enter)])

FromAll(roots, E, enter) ==
  UNION {DfsTypeTraversal(r, E, enter) : r \in roots}

-----------------------------------------------------------------------------
(* The graphs the optimizer is given.                                      *)

(* Strings; the provers have to be told that those of the code are some.   *)
Strings == STRING \cup {"", "type", "float", "bfloat16", "invalid", "SrcT",
                        "DstT", "T", "U"}

HasValues(attr) ==
  /\ DOMAIN attr \subseteq Strings \ {""} /\ IsFiniteSet(DOMAIN attr)
  /\ \A a \in DOMAIN attr :
       /\ attr[a] \in [kind : Strings, value : Seq(Strings), i : Nat]
       /\ attr[a].kind = "type" => Len(attr[a].value) = 1 /\ attr[a].i = 0

(* Inputs refer to nodes of the graph, and attributes have values.         *)
IsNodeDef(node, size) ==
  /\ node = [name |-> node.name, op |-> node.op, device |-> node.device,
             attr |-> node.attr, input |-> node.input]
  /\ node.input \in Seq([node : 0..size, port : Nat \ {0}])
  /\ HasValues(node.attr)

IsGraphDef(g) ==
  /\ g \in Seq(Range(g))
  /\ \A n \in DOMAIN g : IsNodeDef(g[n], Len(g))

EdgesAgree(g) ==
  \A n \in DOMAIN g : \A k \in DOMAIN g[n].input :
    LET i == g[n].input[k]
    IN  InputTypes(g[n])[k] = OutputTypes(g[i.node])[i.port]

(* No node is fed by two NextIterations.                                   *)
OneBackEdge(g) ==
  LET Back(n, k) == LET m == g[n].input[k].node
                    IN  m \in DOMAIN g /\ g[m].op = "NextIteration"
  IN  \A n \in DOMAIN g : \A j, k \in DOMAIN g[n].input :
        Back(n, j) /\ Back(n, k) => g[n].input[j].node = g[n].input[k].node

-----------------------------------------------------------------------------
Init ==
  /\ item \in Items
  /\ graph = item.graph
  /\ run = 1
  /\ phase = "options" /\ status = "running"
  /\ should_process = {} /\ view = [vertices |-> {}, edges |-> {}]
  /\ clusters = {} /\ deny_set = {} /\ allow_set = {} /\ node_idx = 1

(* The optimizer puts the graph it was given back when it fails.           *)
Return(s) ==
  /\ phase' = "done" /\ status' = s
  /\ graph' = item.graph
  /\ UNCHANGED <<item, run, should_process, view, clusters, deny_set,
                 allow_set, node_idx>>

GoTo(from, to) ==
  /\ phase = from /\ phase' = to
  /\ UNCHANGED <<item, run, status>>

(* GetAutoMixedPrecisionMode, then the options of Optimize.                *)
WrongDataType ==
  IF item.data_type # "unset" THEN item.data_type # "BFLOAT16"
                              ELSE item.env_data_type # "BFLOAT16"

OptionsRefused ==
  \/ WrongDataType
  \/ item.unsafe_force_all
  \/ ~ValidateLists(Lists(item.update))

RefuseOptions ==
  /\ phase = "options" /\ OptionsRefused
  /\ Return("InvalidArgument")

(* should_process_nodes_, then ConvertBatchNormOpsToV2.                    *)
BatchNormOps == {"FusedBatchNorm", "FusedBatchNormGrad"}

BatchNormV2(node) ==
  [node EXCEPT !.op = IF @ = "FusedBatchNorm" THEN "FusedBatchNormV2"
                                              ELSE "FusedBatchNormGradV2",
               !.attr = [a \in DOMAIN @ \cup {"U"} |->
                           IF a = "U" THEN SingleType("float") ELSE @[a]]]

SelectNodes ==
  /\ ~OptionsRefused
  /\ GoTo("options", "types")
  /\ should_process' = {n \in DOMAIN graph : /\ ~MustPreserve(graph[n])
                                             /\ IsOnDevice(graph[n])}
  /\ graph' = [n \in DOMAIN graph |->
                 IF /\ n \in should_process'
                    /\ graph[n].op \in BatchNormOps
                 THEN BatchNormV2(graph[n]) ELSE graph[n]]
  /\ UNCHANGED <<view, clusters, deny_set, allow_set, node_idx>>

(* NodeTypeAttrMap::Init and InitializeFromGraph: a node that does not fit *)
(* its op definition, or reads a node or a port that is not there.         *)
GraphStatus(g) ==
  LET nodes == [n \in DOMAIN g |-> AddNode(g[n])]
      wrong == {n \in DOMAIN nodes : nodes[n] # "OK"}
      ins   == UNION {Range(g[n].input) : n \in DOMAIN g}
  IN  IF wrong # {} THEN nodes[CHOOSE n \in wrong : \A m \in wrong : n <= m]
      ELSE IF \E i \in ins : i.node = 0 THEN "InvalidArgument"
      ELSE IF \E i \in ins : i.port > Len(OutputPortTypes(g[i.node]))
      THEN "aborted" ELSE "OK"

(* TensorFlow gives an optimizer graphs whose edges join equal types; a    *)
(* batch norm of the first version fits its definition, which has no U,    *)
(* and has T float, as U always is; a Merge has one input from before the  *)
(* loop and one from its end.                                              *)
ASSUME GraphsAssumption ==
  \A it \in Items :
    /\ {"graph", "preserve"} \subseteq DOMAIN it
    /\ IsGraphDef(it.graph)
    /\ GraphStatus(it.graph) = "OK" => EdgesAgree(it.graph)
    /\ OneBackEdge(it.graph)
    /\ \A n \in DOMAIN it.graph :
         LET node == it.graph[n]
         IN  node.op \in BatchNormOps =>
               /\ AddNode(node) = "OK"
               /\ "U" \notin DOMAIN node.attr
               /\ InputTypes(BatchNormV2(node)) = InputTypes(node)
               /\ OutputTypes(BatchNormV2(node)) = OutputTypes(node)

ArgDef == [type_attr : Strings, type_list_attr : Strings, number_attr : Strings,
           type : Strings]

(* Arguments whose ports are of a type attribute, or one port that is.     *)
PortsOfType(args, t) ==
  Len(args) = 1 /\ args[1].type_attr = t /\ args[1].type_list_attr = ""
OnePortOfType(args, t) == PortsOfType(args, t) /\ args[1].number_attr = ""

(* Ops of TensorFlow: a Cast goes from SrcT to DstT, all else in a loop    *)
(* has the type T.                                                         *)
ASSUME OpsAssumption ==
  /\ \A op \in DOMAIN OpDefs : /\ OpDefs[op].input_arg \in Seq(ArgDef)
                               /\ OpDefs[op].output_arg \in Seq(ArgDef)
  /\ {"Cast", "Merge", "NextIteration"} \subseteq DOMAIN OpDefs
  /\ OnePortOfType(OpDefs["Cast"].input_arg, "SrcT")
  /\ OnePortOfType(OpDefs["Cast"].output_arg, "DstT")
  /\ OnePortOfType(OpDefs["NextIteration"].output_arg, "T")
  /\ PortsOfType(OpDefs["Merge"].input_arg, "T")

TypeView ==
  [vertices |-> UNION {{n} \X GetTypeAttrs(graph[n]) : n \in DOMAIN graph},
   edges |->
     UNION {{LET i == graph[n].input[k]
             IN  <<<<i.node, OutputPortTypes(graph[i.node])[i.port]>>,
                   InputVertex(n, k)>> : k \in DOMAIN graph[n].input}
              : n \in DOMAIN graph}]

RefuseGraph ==
  /\ phase = "types" /\ GraphStatus(graph) # "OK"
  /\ Return(GraphStatus(graph))

InitializeTypes ==
  /\ GraphStatus(graph) = "OK"
  /\ GoTo("types", "lists")
  /\ view' = TypeView
  /\ UNCHANGED <<graph, should_process, clusters, deny_set, allow_set,
                 node_idx>>

-----------------------------------------------------------------------------
(* Tensor lists.  The nodes that share a list must agree on the type of    *)
(* what is in it.                                                          *)

IsTensorListOp(op) ==
  op \in tensor_list_ops \cup {"TensorListReserve", "EmptyTensorList"}
IsTensorListReaderOp(op) == op \in {"TensorListGetItem", "TensorListStack"}
IsTensorListWriterOp(op) ==
  op \in {"TensorListFromTensor", "TensorListPushBack", "TensorListSetItem"}

(* Of the type attributes of a list op only that of the elements may be    *)
(* float, and that or the list itself a variant.                           *)
ListOpsFit(g) ==
  \A n \in DOMAIN g : IsTensorListOp(g[n].op) /\ AddNode(g[n]) = "OK" =>
    \A id \in GetTypeAttrs(g[n]) :
      GetDataType(g[n], id) \in {"float", "variant"} =>
        id \in {TypeAttr("element_dtype"), FixedType("variant")}

ASSUME ListsAssumption == \A it \in Items : ListOpsFit(it.graph)

(* The vertex of the type of the values, if it is float. *)
TensorListFloat32(n) ==
  IF ~IsTensorListOp(graph[n].op) THEN {}
  ELSE {<<n, id>> : id \in {i \in GetTypeAttrs(graph[n]) :
                              /\ i.fixed_type = "invalid"
                              /\ i.type_index = kSingleType
                              /\ IsFloat32(<<n, i>>)}}

IsSourceOrSinkOp(op) ==
  op \in {"_Arg", "_Retval", "OptionalFromValue", "OptionalGetValue",
          "PartitionedCall", "Placeholder", "StatefulPartitionedCall"}

HandleOf(n) == <<n, FixedType("variant")>>

Roots == {n \in should_process : /\ HandleOf(n) \in view.vertices
                                 /\ TensorListFloat32(n) # {}}

Handles(root) == DfsTypeTraversal(HandleOf(root), ToAll, view.vertices)

ClusterOf(root) ==
  {root} \cup {v[1] : v \in {u \in Handles(root) :
                               TensorListFloat32(u[1]) # {}}}

(* A list that leaves the graph, or that a node holds which is not to be   *)
(* processed.                                                              *)
IsUnsafe(root) ==
  \E v \in Handles(root) :
    IF TensorListFloat32(v[1]) # {} THEN ~ShouldProcess(v)
                                    ELSE IsSourceOrSinkOp(Op(v))

(* The handles a reader's list may have come through. *)
HandlesBefore(reader) ==
  IF reader \notin should_process THEN {}
  ELSE DfsTypeTraversal(HandleOf(reader), ToFanins,
                        {v \in view.vertices : ShouldProcess(v)})

Readers(cluster) == {n \in cluster : IsTensorListReaderOp(graph[n].op)}

Writers(reader) ==
  {v[1] : v \in {u \in HandlesBefore(reader) : IsTensorListWriterOp(Op(u))}}

ImplicitEdges(cluster) ==
  UNION {UNION {TensorListFloat32(w) \X TensorListFloat32(r) :
                  w \in Writers(r)} : r \in Readers(cluster)}

(* A CHECK fails if a writer found does not write floats.                  *)
WritesOtherType ==
  \E root \in Roots : \E r \in Readers(ClusterOf(root)) :
    \E w \in Writers(r) : TensorListFloat32(w) = {}

AbortOnWriter ==
  /\ phase = "lists" /\ WritesOtherType
  /\ Return("aborted")

FindTensorLists ==
  /\ ~WritesOtherType
  /\ GoTo("lists", "allowlist")
  /\ clusters' = {ClusterOf(root) : root \in Roots}
  /\ deny_set' = UNION {TensorListFloat32(root) :
                          root \in {r \in Roots : IsUnsafe(r)}}
  /\ view' = [view EXCEPT !.edges =
                @ \cup UNION {ImplicitEdges(c) : c \in clusters'}]
  /\ UNCHANGED <<graph, should_process, allow_set, node_idx>>

-----------------------------------------------------------------------------
(* Painting.                                                               *)

AllowlistVertices ==
  {v \in view.vertices : ShouldProcess(v) /\ On(v, "ALLOWLIST")}

(* Nothing to gain: the graph stays as it is, batch norms of the second    *)
(* version included.                                                       *)
SkipOptimization ==
  /\ phase = "allowlist" /\ AllowlistVertices = {}
  /\ phase' = "done" /\ status' = "OK"
  /\ UNCHANGED <<item, graph, run, sets>>

AddAllowlistOps ==
  /\ AllowlistVertices # {}
  /\ GoTo("allowlist", "deny")
  /\ allow_set' = allow_set \cup AllowlistVertices
  /\ UNCHANGED <<graph, should_process, view, clusters, deny_set, node_idx>>

(* Mutant: infer vertices do not count. *)
UpstreamOfDeny ==
  FromAll({v \in view.vertices : On(v, "DENYLIST")},
          ToFanins, {v \in view.vertices : On(v, "CLEARLIST")})

(* The clear vertices on the way to a deny or an infer vertex, with those. *)
UpstreamOfDenyOrInfer ==
  FromAll({v \in view.vertices : On(v, "DENYLIST") \/ On(v, "INFERLIST")},
          ToFanins, {v \in view.vertices : On(v, "CLEARLIST")})

PropagateDenyFwdThroughClearAndInfer ==
  /\ GoTo("deny", "match")
  /\ deny_set' = deny_set \cup
       FromAll({v \in view.vertices \ deny_set : On(v, "DENYLIST")},
               ToFanouts, UpstreamOfDenyOrInfer \ deny_set)
  /\ UNCHANGED <<graph, should_process, view, clusters, allow_set, node_idx>>

(* All vertices of a cluster are denied if one is, else allowed if one is. *)
(* Clusters that share a node are one and the same.                        *)
Values(cluster) == UNION {TensorListFloat32(n) : n \in cluster}

DeniedLists == {c \in clusters : Values(c) \cap deny_set # {}}
AllowedLists ==
  {c \in clusters \ DeniedLists : Values(c) \cap allow_set # {}}

(* Mutant: lists are matched before propagation only. *)
ForceColorMatchOnce ==
  /\ \/ GoTo("match", "between")
     \/ GoTo("match again", "recurrent")
  /\ deny_set' = IF phase = "match"
                 THEN deny_set \cup UNION {Values(c) : c \in DeniedLists}
                 ELSE deny_set
  /\ allow_set' = IF phase = "match"
                  THEN (allow_set \ UNION {Values(c) : c \in DeniedLists})
                       \cup UNION {Values(c) : c \in AllowedLists}
                  ELSE allow_set
  /\ UNCHANGED <<graph, should_process, view, clusters, node_idx>>

ForceColorMatchBetweenTensorListOps ==
  /\ \/ GoTo("match", "between")
     \/ GoTo("match again", "recurrent")
  /\ deny_set' = deny_set \cup UNION {Values(c) : c \in DeniedLists}
  /\ allow_set' = (allow_set \ UNION {Values(c) : c \in DeniedLists})
                  \cup UNION {Values(c) : c \in AllowedLists}
  /\ UNCHANGED <<graph, should_process, view, clusters, node_idx>>

MayBeAllowed(v) ==
  v \notin deny_set /\ ShouldProcess(v) /\ IsFloat32(v) /\ SupportsF16(v)

DownstreamOfAllow ==
  FromAll(AllowlistVertices, ToFanouts,
          {v \in view.vertices : /\ ~On(v, "ALLOWLIST")
                                 /\ MayBeAllowed(v)
                                 /\ On(v, "CLEARLIST") \/ On(v, "INFERLIST")})

AddClearAndInferToAllowIfBetweenAllow ==
  /\ GoTo("between", "infer")
  /\ allow_set' = allow_set \cup
                  FromAll(AllowlistVertices, ToFanins, DownstreamOfAllow)
  /\ UNCHANGED <<graph, should_process, view, clusters, deny_set, node_idx>>

(* Node after node: an infer vertex follows an allowed one that none of    *)
(* its other fanins contradicts.                                           *)
FollowsAllow(v, allowed) ==
  /\ v \notin allowed
  /\ MayBeAllowed(v) /\ On(v, "INFERLIST")
  /\ Beyond(ToFanins, {v}) \cap deny_set = {}
  /\ Beyond(ToFanins, {v}) \cap allowed # {}

Followers ==
  LET Allowed[n \in 0..Len(graph)] ==
        IF n = 0 THEN allow_set
        ELSE Allowed[n - 1] \cup
             {v \in view.vertices : v[1] = n /\ FollowsAllow(v, Allowed[n - 1])}
  IN  Allowed[Len(graph)]

AddInferToAllowIfFollowAllow ==
  /\ GoTo("infer", "clear")
  /\ allow_set' = Followers
  /\ UNCHANGED <<graph, should_process, view, clusters, deny_set, node_idx>>

PropagateAllowThroughClear ==
  /\ GoTo("clear", "fp32")
  /\ allow_set' = allow_set \cup
       FromAll({v \in allow_set : ShouldProcess(v)}, ToAll,
               {v \in view.vertices \ allow_set :
                  /\ MayBeAllowed(v) /\ On(v, "CLEARLIST")
                  /\ ~ReadsVariable(v[1])})
  /\ UNCHANGED <<graph, should_process, view, clusters, deny_set, node_idx>>

(* Mutant: allowlist ops stay allowed, supported or not. *)
RemoveNothing ==
  /\ GoTo("fp32", "match again")
  /\ UNCHANGED <<graph, should_process, view, clusters, deny_set, allow_set,
                 node_idx>>

RemoveAllowsetWithFp32 ==
  /\ GoTo("fp32", "match again")
  /\ allow_set' = {v \in allow_set : On(v, "ALLOWLIST") => SupportsF16(v)}
  /\ UNCHANGED <<graph, should_process, view, clusters, deny_set, node_idx>>

(* Loops: what goes round has the type of what came in.                    *)
T(n) == <<n, TypeAttr("T")>>

MatchRecurrentEdges(n, before) ==
  LET merges == {d[1] : d \in Fanout(n, 1)}
      loop   == {T(m) : m \in merges}
  IN  IF before.status # "OK" \/ graph[n].op # "NextIteration" THEN before
      ELSE IF \E m \in merges : graph[m].op # "Merge"
      THEN [before EXCEPT !.status = "FailedPrecondition"]
      ELSE IF ~(loop \cup {T(n)} \subseteq view.vertices)
      THEN [before EXCEPT !.status = "Internal"]
      ELSE IF loop \subseteq before.allow
      THEN [before EXCEPT !.allow = @ \cup {T(n)}]
      ELSE [before EXCEPT !.allow = @ \ (loop \cup {T(n)})]

Recurrent ==
  LET Matched[n \in 0..Len(graph)] ==
        IF n = 0 THEN [allow |-> allow_set, status |-> "OK"]
        ELSE MatchRecurrentEdges(n, Matched[n - 1])
  IN  Matched[Len(graph)]

RefuseLoop ==
  /\ phase = "recurrent" /\ Recurrent.status # "OK"
  /\ Return(Recurrent.status)

ForceColorMatchOnRecurrentEdges ==
  /\ Recurrent.status = "OK"
  /\ GoTo("recurrent", "casts")
  /\ allow_set' = Recurrent.allow
  /\ UNCHANGED <<graph, should_process, view, clusters, deny_set, node_idx>>

(* A Cast to float that only allowed vertices read casts to bfloat16.      *)
DstT(n) == <<n, TypeAttr("DstT")>>

MakeCastsAllowIfAllOutputsAllow ==
  /\ GoTo("casts", "change")
  /\ allow_set' = allow_set \cup
       {DstT(n) : n \in {m \in DOMAIN graph :
                           /\ graph[m].op = "Cast" /\ IsFloat32(DstT(m))
                           /\ Fanout(m, 1) # {}
                           /\ \A d \in Fanout(m, 1) :
                                InputVertex(d[1], d[2]) \in allow_set}}
  /\ UNCHANGED <<graph, should_process, view, clusters, deny_set, node_idx>>

-----------------------------------------------------------------------------
(* ChangeTypeAttrsAndAddCasts, one node at a time.                         *)

FloatAttrs(n) == {id \in GetTypeAttrs(graph[n]) : IsFloat32(<<n, id>>)}

(* Mutants: a Cast named by the node alone; one that reads output 0. *)
CastNameWithoutPort(n, port, to_f16) ==
  graph[n].name \o <<IF to_f16 THEN "CastToBf16" ELSE "CastToFp32">>
CastInputOfFirst(n, port) == <<[node |-> n, port |-> 1]>>

CastName(n, port, to_f16) ==
  graph[n].name \o <<port, IF to_f16 THEN "CastToBf16" ELSE "CastToFp32">>
CastInput(n, port) == <<[node |-> n, port |-> port]>>

BuildCastNode(n, port, to_f16) ==
  [name   |-> CastName(n, port, to_f16),
   op     |-> "Cast",
   device |-> graph[n].device,
   attr   |-> [SrcT |-> SingleType(IF to_f16 THEN "float" ELSE "bfloat16"),
               DstT |-> SingleType(IF to_f16 THEN "bfloat16" ELSE "float")],
   input  |-> CastInput(n, port)]

(* Mutant: only casts to bfloat16. *)
CrossingToF16(n, port) ==
  LET id == OutputPortTypes(graph[n])[port]
  IN  IF id \notin FloatAttrs(n) \/ <<n, id>> \in allow_set THEN {}
      ELSE {d \in Fanout(n, port) : InputVertex(d[1], d[2]) \in allow_set}

(* The readers of a port that are not painted as it is. *)
Crossing(n, port) ==
  LET id == OutputPortTypes(graph[n])[port]
  IN  IF id \notin FloatAttrs(n) THEN {}
      ELSE {d \in Fanout(n, port) : (InputVertex(d[1], d[2]) \in allow_set)
                                      # (<<n, id>> \in allow_set)}

CastOf(n, port) ==
  BuildCastNode(n, port,
                <<n, OutputPortTypes(graph[n])[port]>> \notin allow_set)

(* SetDataType for each of some type attributes. *)
SetDataTypes(attr, ids, type) ==
  [a \in DOMAIN attr |->
     [attr[a] EXCEPT
        !.value = [k \in DOMAIN @ |->
                     IF TypeAttr(a) \in ids \/ TypeAttrAt(a, k) \in ids
                     THEN type ELSE @[k]]]]

Painted(n) ==
  SetDataTypes(graph[n].attr,
               {id \in FloatAttrs(n) : <<n, id>> \in allow_set}, "bfloat16")

(* One Cast for all readers of a port that need one: g with it, and them   *)
(* moved over.                                                             *)
WithCast(g, n, port) ==
  IF Crossing(n, port) = {} THEN g
  ELSE Append([d \in DOMAIN g |->
                 [g[d] EXCEPT
                    !.input = [k \in DOMAIN @ |->
                                 IF <<d, k>> \in Crossing(n, port)
                                 THEN [node |-> Len(g) + 1, port |-> 1]
                                 ELSE @[k]]]],
              CastOf(n, port))

Changed(n) ==
  LET Cast[p \in 0..Len(OutputPortTypes(graph[n]))] ==
        IF p = 0 THEN [graph EXCEPT ![n].attr = Painted(n)]
        ELSE WithCast(Cast[p - 1], n, p)
  IN  Cast[Len(OutputPortTypes(graph[n]))]

ChangeTypeAttrsAndAddCasts ==
  /\ phase = "change" /\ node_idx <= Len(item.graph)
  /\ graph' = Changed(node_idx)
  /\ node_idx' = node_idx + 1
  /\ UNCHANGED <<item, run, phase, status, should_process, view, clusters,
                 deny_set, allow_set>>

Complete ==
  /\ phase = "change" /\ node_idx > Len(item.graph)
  /\ phase' = "done" /\ status' = "OK"
  /\ UNCHANGED <<item, graph, run, sets>>

(* The optimizer is run over what it has made.                             *)
RunAutoMixedPrecision ==
  /\ phase = "done" /\ status = "OK" /\ run < MaxRuns
  /\ run' = run + 1
  /\ item' = [item EXCEPT !.graph = graph]
  /\ phase' = "options" /\ status' = "running"
  /\ should_process' = {} /\ view' = [vertices |-> {}, edges |-> {}]
  /\ clusters' = {} /\ deny_set' = {} /\ allow_set' = {} /\ node_idx' = 1
  /\ UNCHANGED graph

Next ==
  \/ RefuseOptions \/ SelectNodes
  \/ RefuseGraph \/ InitializeTypes
  \/ AbortOnWriter \/ FindTensorLists
  \/ SkipOptimization \/ AddAllowlistOps
  \/ PropagateDenyFwdThroughClearAndInfer
  \/ ForceColorMatchBetweenTensorListOps
  \/ AddClearAndInferToAllowIfBetweenAllow
  \/ AddInferToAllowIfFollowAllow
  \/ PropagateAllowThroughClear
  \/ RemoveAllowsetWithFp32
  \/ RefuseLoop \/ ForceColorMatchOnRecurrentEdges
  \/ MakeCastsAllowIfAllOutputsAllow
  \/ ChangeTypeAttrsAndAddCasts \/ Complete
  \/ RunAutoMixedPrecision

Spec == Init /\ [][Next]_vars

-----------------------------------------------------------------------------
(* Properties. *)

Done == phase = "done" /\ status = "OK"

(* Whatever was painted, both ends of every edge have one type when the    *)
(* pass is done.                                                           *)
TypesAgree == Done => EdgesAgree(graph)

(* The casts of the pass apart, every node reads what it has read, and     *)
(* what a NextIteration feeds it feeds without one: a loop has no Cast in  *)
(* its back edge.                                                          *)
EdgesKept ==
  Done => \A n \in DOMAIN item.graph :
            \A k \in DOMAIN item.graph[n].input :
              LET i   == graph[n].input[k]
                  old == item.graph[n].input[k]
              IN  /\ old = IF i.node <= Len(item.graph) THEN i
                           ELSE graph[i.node].input[1]
                  /\ graph[old.node].op = "NextIteration" => i = old

(* No Cast takes the name of a node, which would end the process, and a    *)
(* second run over what the first has made changes nothing.                *)
RerunKeeps ==
  /\ \A n, m \in DOMAIN graph : graph[n].name = graph[m].name => n = m
  /\ Done /\ run = 2 => graph = item.graph

(* What becomes bfloat16 is an attribute that can be set, of a node that   *)
(* then has a kernel.                                                      *)
SupportedOnly ==
  /\ phase = "change" =>
       \A v \in allow_set : IsFloat32(v) => CanSetDataType(graph[v[1]], v[2])
  /\ Done => \A n \in DOMAIN item.graph :
               graph[n].attr # item.graph[n].attr /\ n \in should_process =>
                 KernelDefAvailable(Registries[item.registry][graph[n].op],
                                    graph[n].attr, graph[n].device)

Converted ==
  {v \in view.vertices :
     GetDataType(item.graph[v[1]], v[2]) = "float" /\ ~IsFloat32(v)}

(* What a dangerous op may spoil keeps its type: all that lies on a way    *)
(* from a deny vertex to a deny or an infer vertex on which there are only *)
(* deny, infer and clear vertices.                                         *)
Dangerous ==
  LET On3(v)   == On(v, "DENYLIST") \/ On(v, "INFERLIST") \/ On(v, "CLEARLIST")
      between  == {v \in view.vertices : On3(v)}
      denies   == {v \in between : On(v, "DENYLIST")}
      affected == {v \in between : ~On(v, "CLEARLIST")}
  IN  FromAll(denies, ToFanouts, between) \cap FromAll(affected, ToFanins, between)

DangerKeepsFloat == Done => Converted \cap Dangerous = {}

(* All nodes that may hold the same list agree on what is in it.           *)
OneColorPerList ==
  Done => \A c \in clusters : \A a, b \in c :
            graph[a].attr["element_dtype"] = graph[b].attr["element_dtype"]

(* What the log calls skipped keeps its types.                             *)
SkippedKept ==
  Done => \A n \in DOMAIN item.graph \ should_process :
            graph[n].attr = item.graph[n].attr
=============================================================================
