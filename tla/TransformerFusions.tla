------------------------- MODULE TransformerFusions -------------------------
(***************************************************************************)
(* The fusions of graph/remapper of what a transformer is made of: a layer *)
(* normalization that comes as a subgraph, perhaps with a residual, and    *)
(* attention scores, a BatchMatMul that is scaled and masked.              *)
(***************************************************************************)
EXTENDS PatternMatcher
LOCAL INSTANCE SequencesExt

-----------------------------------------------------------------------------
(* Layer normalization: input * scale + (beta - mean * scale), where scale *)
(* is gamma * Rsqrt(variance + epsilon).                                   *)

AnyNode == Leaf({"*"})

LayerNormSubtrees ==
  [mean_mu  |-> Inner({"Mean"}, <<"input", "axes_mu">>),
   sqdiff   |-> Inner({"SquaredDifference"}, <<"input", "mean_mu">>),
   mean_var |-> Inner({"Mean"}, <<"sqdiff", "axes_var">>),
   add_eps  |-> Inner({"AddV2", "Add"}, <<"mean_var", "epsilon">>),
   rsqrt    |-> Inner({"Rsqrt"}, <<"add_eps">>),
   scale    |-> Inner({"Mul"}, <<"gamma", "rsqrt">>),
   mul_x    |-> Inner({"Mul"}, <<"input", "scale">>),
   mul_mu   |-> Inner({"Mul"}, <<"mean_mu", "scale">>),
   sub      |-> Inner({"Sub"}, <<"beta", "mul_mu">>),
   input |-> AnyNode, gamma |-> AnyNode, beta |-> AnyNode, epsilon |-> AnyNode,
   axes_mu |-> AnyNode, axes_var |-> AnyNode, residual_in |-> AnyNode]

LayerNormPattern(ops, fanins) ==
  [output |-> Output(ops, fanins)] @@ LayerNormSubtrees

two_input_patterns ==
  [k \in 1..2 |->
     LayerNormPattern({"AddN", "AddV2", "Add"},
       << <<"sub", "mul_x">>, <<"mul_x", "sub">> >>[k])]

residual_patterns ==
  [k \in 1..6 |->
     LayerNormPattern({"AddN"},
       << <<"sub", "mul_x", "residual_in">>, <<"sub", "residual_in", "mul_x">>,
          <<"mul_x", "sub", "residual_in">>, <<"mul_x", "residual_in", "sub">>,
          <<"residual_in", "sub", "mul_x">>,
          <<"residual_in", "mul_x", "sub">> >>[k])]

(* The node whose data x passes on, at most 16 nodes up.                   *)
RECURSIVE DataSource(_, _)
DataSource(x, hops) ==
  IF hops > 0 /\ Type(x) \in {"Identity", "StopGradient", "Cast"}
  THEN DataSource(In(x, 1), hops - 1) ELSE x

ResolveNodeDataSource(x) == DataSource(x, 16)

(* The first input of the addition that is a constant, and not the mean.   *)
Epsilons(add_eps) ==
  {c \in {ResolveNodeDataSource(In(add_eps, k)) :
            k \in {j \in 1..2 : Type(In(add_eps, j)) # "Mean"}} :
     Type(c) = "Const" /\ item.shape[c] = "scalar" /\ IsFloat(c)}

MeanAxes(node) ==
  {ResolveNodeDataSource(In(node[l], 2)) : l \in {"mean_mu", "mean_var"}}

ValidateMatched(node) ==
  /\ ResolveNodeDataSource(In(node.sub, 1)) = ResolveNodeDataSource(node.beta)
  /\ ResolveNodeDataSource(In(node.sub, 2)) = node.mul_mu
  /\ \A c \in MeanAxes(node) : Type(c) = "Const"
  /\ Cardinality({graph[c].op.value : c \in MeanAxes(node)}) = 1
  /\ \E e \in Epsilons(node.add_eps) : graph[e].op.value > 0
  /\ IsFloat(node.input)

ResidualPorts(x, residual) ==
  {p \in 1..3 : ResolveNodeDataSource(In(x, p)) = ResolveNodeDataSource(residual)}

LayerNorm(x, patterns) ==
  FirstOf([k \in DOMAIN patterns |->
             {m \in Matches(patterns[k], x, FALSE) :
                /\ ValidateMatched(m.node)
                /\ "residual_in" \in DOMAIN m.node =>
                     Cardinality(ResidualPorts(x, m.node.residual_in)) = 1}])

FusedLayerNorm(x) ==
  IF HasControlFaninOrFanout(x) THEN {}
  ELSE IF Type(x) = "AddN" /\ Len(graph[x].ins) = 3
  THEN LayerNorm(x, residual_patterns)
  ELSE IF /\ Type(x) \in {"AddN", "AddV2"} \/ IsAddWithNoBroadcast(x)
          /\ Len(graph[x].ins) = 2
  THEN LayerNorm(x, two_input_patterns)
  ELSE {}

(* Gamma is the input of the scale that is not the Rsqrt, or the second.   *)
(* With a residual, the normalization gets a name of its own and the root  *)
(* becomes the addition.                                                   *)
AddFusedLayerNorm(x) ==
  {LET node     == m.node
       residual == "residual_in" \in DOMAIN node
       gamma    == IF Type(In(node.scale, 1)) = "Rsqrt" THEN 2 ELSE 1
       epsilon  == CHOOSE e \in Epsilons(node.add_eps) : TRUE
       axes     == CHOOSE c \in MeanAxes(node) : TRUE
       op       == [type |-> "_FusedLayerNorm", fused |-> <<>>,
                    T |-> graph[node.mean_mu].op.T,
                    value |-> <<graph[epsilon].op.value, graph[axes].op.value>>,
                    flags |-> {}]
       name     == IF residual THEN x \o "/FusedLayerNorm" ELSE x
       fused_ln == FusedNode(name, op,
                     <<graph[node.mean_mu].ins[1], graph[node.scale].ins[gamma],
                       graph[node.sub].ins[1]>>)
       add_res  == FusedNode(x, [op EXCEPT !.type = "AddV2", !.value = 0],
                     << <<name, 1>>,
                        graph[x].ins[CHOOSE p \in ResidualPorts(x, node.residual_in) :
                                       TRUE] >>)
   IN  Fusion(<<Adding(IF residual THEN <<fused_ln, add_res>> ELSE <<fused_ln>>,
                       "returned")>>,
              {x}, m.gone, TRUE) :
     m \in FusedLayerNorm(x)}

-----------------------------------------------------------------------------
(* Attention scores.                                                       *)

ScaledScores == [mul |-> Inner({"Mul"}, <<"batch_matmul", "multiplicand">>),
                 batch_matmul |-> Inner({"BatchMatMulV2"}, <<>>),
                 multiplicand |-> AnyNode, addend |-> AnyNode]

fusion_patterns ==
  << [output |-> Output({"Add", "AddV2"}, <<"mul", "addend">>)] @@ ScaledScores,
     [output |-> Output({"Add", "AddV2"}, <<"batch_matmul", "addend">>),
      batch_matmul |-> Inner({"BatchMatMulV2"}, <<"mul", "bmm_input1">>),
      mul |-> Inner({"Mul"}, <<"mul_input0", "multiplicand">>),
      multiplicand |-> Leaf({"Const", "Cast"}),
      mul_input0 |-> AnyNode, bmm_input1 |-> AnyNode, addend |-> AnyNode],
     [output |-> Output({"Add", "AddV2"}, <<"addend", "mul">>)] @@ ScaledScores >>

(* Shapes of four dimensions; they are alike if the products of the first  *)
(* two are the same.                                                       *)
Rank4 == {"scores", "wider scores"}

(* Scores as they were inferred: no broadcasting.                          *)
ScoresFit(node) ==
  /\ item.shape[node.multiplicand] = "scalar"
  /\ item.shape[node.batch_matmul] \in Rank4
  /\ InputShape(node.batch_matmul, 1) \in Rank4
  /\ InputShape(node.batch_matmul, 2) = InputShape(node.batch_matmul, 1)
  /\ item.shape[node.addend] = item.shape[node.batch_matmul]

(* Nothing is known of a node the remapper has added, but this is not      *)
(* looked at.                                                              *)
AreInferred(node) == {node.multiplicand, node.addend} \subseteq DOMAIN item.graph

FusedBatchMatMul(x) ==
  {m \in FirstMatch(fusion_patterns, x, TRUE) :
     graph[x].op.T = "float" /\ (AreInferred(m.node) => ScoresFit(m.node))}

(* The scaled operand, the scale and the mask are named without the port   *)
(* they come from.                                                         *)
AddFusedBatchMatMul(x) ==
  {LET node == m.node
       b    == node.batch_matmul
       left == IF "mul_input0" \in DOMAIN node THEN <<node.mul_input0, 1>>
               ELSE graph[b].ins[1]
   IN  FuseOrReturn(x, Fused("_FusedBatchMatMulV2", b, <<"BinaryMul", "Add">>),
         <<left, graph[b].ins[2], <<node.multiplicand, 1>>, <<node.addend, 1>> >>,
         m.gone, AreInferred(node)) :
     m \in FusedBatchMatMul(x)}
=============================================================================
