------------------------------ MODULE Optimizer ------------------------------
(***************************************************************************)
(* Optimizer_Optimize of graph/cpu_optimizer.cc: the two passes of the     *)
(* remapper, then the Zen layout pass (graph/zendnn/zen_layout.cc,         *)
(* graph/utils/layout_utils.cc), which gives a node of a supported type    *)
(* the op of a kernel of this plugin.  Mixed precision, which is only run  *)
(* where it is enabled, is AutoMixedPrecision.                             *)
(*                                                                         *)
(* The layout pass makes one Mutation per node that adds a node of its     *)
(* name, with its inputs: it overwrites the node and changes no other, so  *)
(* that all of them are one step.                                          *)
(***************************************************************************)
EXTENDS Remapper

VARIABLE optimized_graph   \* what is handed back; empty until it is

-----------------------------------------------------------------------------
(* Which nodes are rewritten.  The value of an Einsum is its equation.     *)

GetZenFormatInfo ==
  { <<"Conv2D", "_ZenConv2D">>, <<"_FusedConv2D", "_ZenFusedConv2D">>,
    <<"DepthwiseConv2dNative", "_ZenDepthwiseConv2dNative">>,
    <<"_FusedDepthwiseConv2dNative", "_ZenFusedDepthwiseConv2dNative">>,
    <<"MaxPool", "_ZenMaxPool">>, <<"AvgPool", "_ZenAvgPool">>,
    <<"MatMul", "_ZenMatMul">>, <<"_FusedMatMul", "_ZenFusedMatMul">>,
    <<"BatchMatMul", "_ZenBatchMatMul">>,
    <<"BatchMatMulV2", "_ZenBatchMatMulV2">>,
    <<"_FusedBatchMatMulV2", "_ZenFusedBatchMatMulV2">>,
    <<"Softmax", "_ZenSoftmax">>, <<"Einsum", "_ZenEinsum">>,
    <<"_FusedLayerNorm", "_ZenFusedLayerNorm">> }

RewriteSupportedDataType(op) == op.T \in {"float", "bfloat16"}

RewriteFusedConv2D(op) ==
  /\ RewriteSupportedDataType(op)
  /\ op.fused \in
       {<<"BiasAdd">>, <<"BiasAdd", "Add">>, <<"BiasAdd", "Add", "Relu">>}
       \cup {<<"BiasAdd", a>> : a \in {"Relu", "Relu6", "LeakyRelu"}}

(* Mutant: any fusion of a supported data type is let through. *)
RewriteAnyFusedMatMul(op) == op.T \in {"float", "bfloat16"}

RewriteFusedMatMul(op) ==
  /\ RewriteSupportedDataType(op)
  /\ op.fused \in
       {<<"BiasAdd">>, <<"BiasAdd", "Add">>, <<"BiasAdd", "Add", "Relu">>, <<"Relu">>}
         \cup {<<"BiasAdd", a>> : a \in {"Relu", "Sigmoid", "Mish", "Tanh",
                                        "GeluExact", "GeluApproximate"}}

RewriteEinsum(op) ==
  RewriteSupportedDataType(op) /\ op.value \in {"ij,jk->ik", "abc,bcd->abd"}

CheckForNodeZenFormat(op) ==
  {ri[2] : ri \in {info \in GetZenFormatInfo :
     /\ info[1] = op.type
     /\ CASE op.type \in {"_FusedConv2D", "_FusedDepthwiseConv2dNative"} ->
               RewriteFusedConv2D(op)
          [] op.type = "_FusedMatMul" -> RewriteFusedMatMul(op)
          [] op.type = "Einsum" -> RewriteEinsum(op)
          [] OTHER -> RewriteSupportedDataType(op)}}

-----------------------------------------------------------------------------
(* What a rewritten node keeps: of the attributes that are copied, those   *)
(* its new op is registered with; of a convolution, those that are named   *)
(* one by one.  All of these ops take fused_ops if the old one did.        *)

MatMulAttrs == {"transpose_a", "transpose_b"}

(* Mutant: the fused op is registered with no more than the other. *)
OnlyMatMulAttrs == MatMulAttrs

FusedMatMulAttrs == MatMulAttrs \cup {"is_reshape"}

BatchMatMulAttrs == {"adj_x", "adj_y"}

CopyAttrsZenConv2D == {"SAME", "EXPLICIT"}

Copied(new_name, flags) ==
  CASE new_name = "_ZenMatMul" -> flags \cap MatMulAttrs
    [] new_name = "_ZenFusedMatMul" -> flags \cap FusedMatMulAttrs
    [] new_name \in {"_ZenBatchMatMul", "_ZenBatchMatMulV2",
                     "_ZenFusedBatchMatMulV2"} -> flags \cap BatchMatMulAttrs
    [] new_name \in {"_ZenConv2D", "_ZenDepthwiseConv2dNative",
                     "_ZenFusedConv2D", "_ZenFusedDepthwiseConv2dNative"} ->
         flags \cap CopyAttrsZenConv2D
    [] OTHER -> flags

RewriteNode(node, new_name) ==
  [node EXCEPT !.op.type = new_name, !.op.flags = Copied(new_name, @)]

(* Every node of the graph, sorted, the last first.  All are on the CPU.   *)
RunZenLayout(G) ==
  [x \in DOMAIN G |->
     LET new == CheckForNodeZenFormat(G[x].op)
     IN  IF new = {} THEN G[x] ELSE RewriteNode(G[x], CHOOSE n \in new : TRUE)]

-----------------------------------------------------------------------------
Layout ==
  /\ outcome = "done" /\ optimized_graph = <<>>
  /\ optimized_graph' = RunZenLayout(graph)
  /\ UNCHANGED vars

Optimize == (Next /\ UNCHANGED optimized_graph) \/ Layout

OptimizerInit == Init /\ optimized_graph = <<>>

OptimizerSpec == OptimizerInit /\ [][Optimize]_<<vars, optimized_graph>>

-----------------------------------------------------------------------------
(* The kernel of a node constructs if it has what the fused ops ask for.   *)
Kernel == INSTANCE MatMulKernel

Attrs(node) == [fused_ops |-> node.op.fused, num_args |-> Len(node.ins) - 2,
                leakyrelu_alpha |-> "registered"]

Constructs(node) ==
  CASE node.op.type = "_ZenFusedMatMul" ->
         Kernel!InitializeFusedComputation(Attrs(node), Kernel!MatMulPatterns)
    [] node.op.type = "_ZenFusedBatchMatMulV2" ->
         Kernel!InitializeFusedComputation(Attrs(node), Kernel!BatchMatMulPatterns)
    [] node.op.type \in {"_ZenFusedConv2D", "_ZenFusedDepthwiseConv2dNative"} ->
         Kernel!InitializeFusedComputation(Attrs(node), Kernel!Conv2DPatterns)
    [] OTHER -> node.op.type # "_FusedBatchMatMulV2"

(* The kernel of every rewritten node constructs, and an op that exists    *)
(* for the layout pass only to rewrite (remapper.cc:3545) is rewritten:    *)
(* what the remapper fuses, what the layout pass lets through and what the *)
(* kernels have are three lists in three directories.                      *)
KernelsAccept ==
  \A x \in DOMAIN optimized_graph : Constructs(optimized_graph[x])

(* What a kernel computes is what the op it replaces does.                 *)
Unwritten(node) ==
  LET old == {info[1] : info \in
                {i \in GetZenFormatInfo : i[2] = node.op.type}}
  IN  IF old = {} THEN node
      ELSE [node EXCEPT !.op.type = CHOOSE n \in old : TRUE]

(* The graph handed back computes, at its preserved nodes, what the graph  *)
(* that came in did: the kernels find the attributes the remapper set.     *)
OutputKept == optimized_graph # <<>> =>
  LET meant == Meaning(item.graph)
      now   == Meaning([x \in DOMAIN optimized_graph |->
                          Unwritten(optimized_graph[x])])
  IN  \A x \in item.preserve : now[x] = meant[x]

=============================================================================
