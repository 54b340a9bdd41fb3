---------------------------- MODULE RemapperGraph ----------------------------
(***************************************************************************)
(* What the fusions of graph/remapper see and make: the graph, what was    *)
(* inferred about it, questions about a node's neighbours, and the result  *)
(* of a fusion.                                                            *)
(*                                                                         *)
(* A node is a node of GraphMutation, with                                 *)
(*   op  [type, fused, T, value, flags]: fused is the fused_ops attribute, *)
(*       value the contents of a Const, a number, or what else the op is   *)
(*       given, and flags the attributes set besides.                      *)
(* transpose_a and transpose_b, or adj_x and adj_y, are flags; strides and *)
(* the like go with the type, and every node is on the CPU.                *)
(*                                                                         *)
(* An item holds, besides the graph, what is inferred about it (from the   *)
(* item, never from the rewritten graph): shape and dim, the shape of each *)
(* node's output and its last dimension; preserve, the nodes that must not *)
(* be removed; and has_avx512, whether the machine can run bfloat16.       *)
(***************************************************************************)
EXTENDS Integers, Sequences, FiniteSets
LOCAL INSTANCE SequencesExt

CONSTANTS
  Items,       \* [graph, shape, dim, preserve, has_avx512]
  DebugBuild   \* DCHECK is compiled in

VARIABLES
  item,             \* the GrapplerItem and graph properties
  graph,            \* multable_graph_def
  nodes_to_delete   \* the nodes marked in this pass

(* The mutation of G that makes edits, adds news and removes gone. *)
Mutation(G, edits, news, gone) ==
  INSTANCE GraphMutation
    WITH graph <- G, diffs <- edits, removed <- gone, fresh <- news,
         status <- "ok", calls <- 0, counter <- 0,
         Names <- UNION {DOMAIN it.graph : it \in Items}, Ops <- {},
         Ports <- {1}, MaxFanin <- 0, MaxCalls <- 0, MaxApplies <- 0,
         NewNodes <- {}, InitGraphs <- {}

NoEdits == [x \in {} |-> {}]

-----------------------------------------------------------------------------
(***************************************************************************)
(* Numbers modulo a prime in place of tensors.  What the fusions of        *)
(* graph/remapper rely on are laws of a field (sums and products in any    *)
(* order, a contraction linear in its weights) and what an activation that *)
(* comes as a subgraph is made of; these hold of the numbers.  Every other *)
(* op is a polynomial of its own, so that what is computed otherwise comes *)
(* out apart, but for an accident with the odds of one to Prime.           *)
(***************************************************************************)
Prime == 46337

Plus(a, b)  == (a + b) % Prime
Minus(a, b) == (a - b) % Prime
Times(a, b) == ((a % Prime) * (b % Prime)) % Prime

(* Numbers that stand for constants of the code, and for values it tells   *)
(* apart: an epsilon from 0 to 0.1 (the default is 0.001), and what is     *)
(* negative.                                                               *)
One     == 1
OneHalf == 23169
SqrtOneHalf         == 7071
SquareRootTwoOverPi == 7978
EmpiricalConst      == 4471

DefaultEpsilon == 31001
BatchNormEpsilons == 31000..31999
Negatives         == 40000..Prime - 1

OpNames ==
  << "MatMul", "BatchMatMul", "BatchMatMulV2", "Conv2D", "Conv3D",
     "DepthwiseConv2dNative", "Relu", "Relu6", "Elu", "LeakyRelu", "Sigmoid",
     "Tanh", "Softplus", "Rsqrt", "Mean", "Pad", "Cast", "GatherV2", "Gather",
     "ConcatV2", "SelectV2", "Select", "IsInf", "ZerosLike", "Shape", "Slice",
     "StridedSlice", "SparseFillEmptyRows", "SparseSegmentMean", "Where",
     "SparseSegmentSum", "SparseSegmentSqrtN", "SparseReshape", "GreaterEqual",
     "FloorMod", "Tile", "Reshape", "NoOp" >>

Tag(op) == IF \E k \in DOMAIN OpNames : OpNames[k] = op
           THEN 2 + CHOOSE k \in DOMAIN OpNames : OpNames[k] = op ELSE 1

Mix(tag, a, b) ==
  Plus(Times(Times(a + tag, a + 17), b + 5 * tag), Times(b + 1, b + tag))

-----------------------------------------------------------------------------
(* What the ops make of numbers.                                           *)

Rsqrt(v) == Mix(Tag("Rsqrt"), v, v)
Tanh(v)  == Mix(Tag("Tanh"), v, v)
Softplus(v) == Mix(Tag("Softplus"), v, v)
ErfOf(v) == Plus(Times(v, Times(v, v)), Times(5, v))

Gelu(v, f) == Times(OneHalf, Times(v, Plus(One, f)))

UnaryNumber(op, v) ==
  CASE op \in {"Identity", "Cast", "StopGradient", "ReadVariableOp"} -> v
    [] op = "ZerosLike" -> 0
    [] op = "Neg"    -> Minus(0, v)
    [] op = "Square" -> Times(v, v)
    [] op = "Erf"    -> ErfOf(v)
    [] op = "Erfc"   -> Minus(One, ErfOf(v))
    [] op = "Mish"   -> Times(v, Tanh(Softplus(v)))
    [] op = "GeluExact" -> Gelu(v, ErfOf(Times(v, SqrtOneHalf)))
    [] op = "GeluApproximate" ->
         Gelu(v, Tanh(Times(SquareRootTwoOverPi,
                            Plus(v, Times(EmpiricalConst, Times(v, Times(v, v)))))))
    [] OTHER -> Mix(Tag(op), v, v)

ContractionOps == {"MatMul", "BatchMatMul", "BatchMatMulV2", "Conv2D",
                   "Conv3D", "DepthwiseConv2dNative"}

BinaryNumber(op, a, b) ==
  CASE op \in {"Add", "BiasAdd"} -> Plus(a, b)
    [] op = "Sub" -> Minus(a, b)
    [] op \in {"Mul", "MulNoNan", "BinaryMul"} -> Times(a, b)
    [] op = "SquaredDifference" -> Times(Minus(a, b), Minus(a, b))
    [] op \in ContractionOps -> Times(Tag(op), Times(a, b))
    [] OTHER -> Mix(Tag(op), a, b)

(* x normalized over axes, scaled by gamma and shifted by beta.            *)
LayerNormNumber(x, gamma, beta, eps, axes) ==
  LET mean     == Mix(Tag("Mean"), x, axes)
      variance == Mix(Tag("Mean"), Times(Minus(x, mean), Minus(x, mean)), axes)
  IN  Plus(beta, Times(Minus(x, mean), Times(gamma, Rsqrt(Plus(variance, eps)))))

-----------------------------------------------------------------------------
(* Nodes and their neighbours.  Marked nodes are neighbours too.           *)

Type(x)  == graph[x].op.type
In(x, k) == graph[x].ins[k][1]

ReadersOf(t) ==
  UNION {{<<y, k>> : k \in {j \in DOMAIN graph[y].ins : graph[y].ins[j] = t}} :
           y \in DOMAIN graph}

Readers(x) == ReadersOf(<<x, 1>>)

(* The nodes that read any of its outputs.                                 *)
Consumers(x) ==
  {y \in DOMAIN graph : \E k \in DOMAIN graph[y].ins : In(y, k) = x}

(* Mutant: control fanins are not looked at. *)
HasNoControlFanin(x) == FALSE

HasControlFanin(x)  == graph[x].ctl # {}
HasControlFanout(x) == \E y \in DOMAIN graph : x \in graph[y].ctl
HasControlFaninOrFanout(x) == HasControlFanin(x) \/ HasControlFanout(x)

HasAtMostOneFanoutAtPort0(x) == Cardinality(Readers(x)) <= 1

FeedsOnly(x, y) == \E k \in DOMAIN graph[y].ins : Readers(x) = {<<y, k>>}

IsInPreserveSet(x) == x \in item.preserve

(* Mutant: any types are taken for the same. *)
HaveDataTypes(x, y) == graph[x].op.T # "none" /\ graph[y].op.T # "none"

HaveSameDataType(x, y) ==
  graph[x].op.T # "none" /\ graph[x].op.T = graph[y].op.T

IsFloat(x) == graph[x].op.T \in {"float", "bfloat16"}

IsBiasAdd(x)        == Type(x) \in {"BiasAdd", "BiasAddV1"}
IsAdd(x)            == Type(x) \in {"Add", "AddV2"}
IsAnyMul(x)         == Type(x) \in {"Mul", "MulNoNan"}
IsAnyBatchMatMul(x) == Type(x) \in {"BatchMatMul", "BatchMatMulV2"}
IsConvOrMatMul(x) ==
  Type(x) \in {"Conv3D", "Conv2D", "DepthwiseConv2dNative", "MatMul"}
IsSupportedActivation(x) ==
  Type(x) \in {"Relu", "Relu6", "Elu", "LeakyRelu", "Sigmoid", "Tanh"}

(* Properties of the inputs a node had when they were inferred.            *)
Inferred(x)      == IF x \in DOMAIN item.graph THEN item.graph[x].ins ELSE <<>>
InputShape(x, k) == item.shape[Inferred(x)[k][1]]
InputDim(x, k)   == item.dim[Inferred(x)[k][1]]

IsAddWithNoBroadcast(x) == /\ IsAdd(x) /\ Len(Inferred(x)) = 2
                           /\ InputShape(x, 1) = InputShape(x, 2)

(* A node of the pattern that the fusion removes: the root r is the only   *)
(* one that needs it.                                                      *)
Absorbs(r, x) == /\ HaveSameDataType(r, x)
                 /\ HasAtMostOneFanoutAtPort0(x)
                 /\ ~IsInPreserveSet(x)

(* The nodes from x towards its producer, up to the first that is not an   *)
(* Identity or one of these casts.  The value of a Cast is its two types.  *)
MaxHops == 16

IsCastOf(x, types) == Type(x) = "Cast" /\ graph[x].op.value \in types

RECURSIVE Upstream(_, _, _)
Upstream(x, casts, hops) ==
  IF hops > 0 /\ (Type(x) = "Identity" \/ IsCastOf(x, casts))
  THEN <<x>> \o Upstream(In(x, 1), casts, hops - 1) ELSE <<x>>

SkipIdentityOnly(x) == Last(Upstream(x, {}, MaxHops))

(* The match that is found first. *)
FirstOf(found) ==
  UNION {found[k] : k \in {j \in DOMAIN found :
                            \A i \in 1..j - 1 : found[i] = {}}}

-----------------------------------------------------------------------------
(* The result of a fusion: the ops it changes in place, the nodes it marks  *)
(* early, the mutations it applies, one after the other, the nodes it       *)
(* invalidates and those it marks to be deleted then, and whether the      *)
(* CHECKs on the way hold.  A mutation may be refused: the error is then   *)
(* "ignored", it costs the fusion its other "marks", or it is "returned"   *)
(* to the optimizer.                                                       *)

Node(op, ins) == [op |-> op, ins |-> ins, ctl |-> {}]

FusedNode(n, op, ins) == [name |-> n, op |-> op, ins |-> ins, ctl |-> {}]

(* The diff by which node x becomes node w. *)
DiffTo(x, w) ==
  LET v == graph[x]
  IN  [name |-> x, op |-> w.op,
       put  |-> [k \in {j \in DOMAIN w.ins :
                          j \notin DOMAIN v.ins \/ v.ins[j] # w.ins[j]} |->
                  w.ins[k]],
       rem  |-> DOMAIN v.ins \ DOMAIN w.ins,
       cadd |-> w.ctl \ v.ctl, crem |-> v.ctl \ w.ctl]

(* The readers of x, reading t instead. *)
ReadInstead(x, t) ==
  [y \in Consumers(x) |->
     DiffTo(y, [graph[y] EXCEPT !.ins =
                  [k \in DOMAIN @ |-> IF @[k][1] = x THEN t ELSE @[k]]])]

(* The same, and the nodes that run after x now run after t.               *)
FollowInstead(x, t) ==
  [y \in Consumers(x) \cup {z \in DOMAIN graph : x \in graph[z].ctl} |->
     DiffTo(y, [graph[y] EXCEPT
                  !.ins = [k \in DOMAIN @ |-> IF @[k][1] = x THEN t ELSE @[k]],
                  !.ctl = IF x \in @ THEN (@ \ {x}) \cup {t[1]} ELSE @])]

Adding(nodes, error) == [nodes |-> nodes, edits |-> NoEdits, error |-> error]
Editing(edits, error) == [nodes |-> <<>>, edits |-> edits, error |-> error]

Fusion(mutations, invalid, gone, check) ==
  [direct |-> NoEdits, early |-> {}, mutations |-> mutations,
   invalid |-> invalid, gone |-> gone, check |-> check]

(* The fused node takes the place of the root r. *)
FuseWith(error, r, op, ins, gone, check) ==
  Fusion(<<Adding(<<FusedNode(r, op, ins)>>, error)>>, {r}, gone, check)

Fuse(r, op, ins, gone, check) ==
  FuseWith("ignored", r, op, ins, gone, check)

FuseOrLeave(r, op, ins, gone, check) ==
  FuseWith("marks", r, op, ins, gone, check)

FuseOrReturn(r, op, ins, gone, check) ==
  FuseWith("returned", r, op, ins, gone, check)

Fused(type, c, ops) == [graph[c].op EXCEPT !.type = type, !.fused = ops]
=============================================================================
