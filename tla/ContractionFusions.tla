------------------------- MODULE ContractionFusions -------------------------
(***************************************************************************)
(* The fusions of graph/remapper around a contraction (MatMul, BatchMatMul *)
(* or a convolution): with a bias, an Add, a Mul, an activation, and Keras' *)
(* dense layer.                                                            *)
(***************************************************************************)
EXTENDS RemapperGraph

(* x adds the bias at its input p to its other input, which is taken to    *)
(* have its channels last.                                                 *)
IsBiasSemanticAdd(x, p) ==
  /\ IsAdd(x) /\ Len(graph[x].ins) = 2
  /\ IsConvOrMatMul(In(x, 3 - p))
  /\ p = 1 => ~IsConvOrMatMul(In(x, 1))
  /\ InputShape(x, 3 - p) = "matrix" /\ InputShape(x, p) = "vector"
  /\ InputDim(x, 3 - p) = InputDim(x, p)

(* The patterns.  Each is the set of its matches at a root x.              *)

(* MatMul+BiasAdd is left to the folding of Mul and Add, if they follow.   *)
IsDeferred(x) ==
  \E y, z \in DOMAIN graph :
    /\ FeedsOnly(y, z) /\ IsAnyMul(y) /\ IsAdd(z)
    /\ \/ FeedsOnly(x, y)
       \/ \E c \in DOMAIN graph :
            Type(c) = "Cast" /\ FeedsOnly(x, c) /\ FeedsOnly(c, y)

ContractionWithBias(x) ==
  IF ~HasControlFanin(x) /\ (IsBiasAdd(x) \/ IsAdd(x))
  THEN {m \in [contraction : {In(x, 1), In(x, 2)}, bias_add : {x},
               bias_port : {1, 2}] :
          /\ IF IsAdd(x) THEN IsBiasSemanticAdd(x, m.bias_port)
             ELSE m.bias_port = 2
          /\ m.contraction = In(x, 3 - m.bias_port)
          /\ ~HasControlFanout(m.contraction)
          /\ IsConvOrMatMul(m.contraction)
          /\ Absorbs(x, m.contraction)
          /\ graph[m.contraction].op.T # "double"
          /\ Type(m.contraction) = "MatMul" => ~IsDeferred(x)}
  ELSE {}

(* At the first input of the Add that allows it.                           *)
ContractionWithBiasInPort(x, q) ==
  {m \in ContractionWithBias(In(x, q)) : Absorbs(x, In(x, q))}

ContractionWithBiasAddAndAdd(x) ==
  LET Match(q) ==
        {[contraction |-> m.contraction, bias_add |-> m.bias_add,
          bias_port |-> m.bias_port, add |-> x, port_id |-> q] :
           m \in ContractionWithBiasInPort(x, q)}
  IN  IF /\ ~HasControlFaninOrFanout(x) /\ Len(graph[x].ins) = 2
         /\ Type(x) = "AddN" \/ IsAddWithNoBroadcast(x)
         /\ IsFloat(x)
      THEN {m \in IF Match(1) # {} THEN Match(1) ELSE Match(2) :
              Type(m.contraction) # "DepthwiseConv2dNative"}
      ELSE {}

ContractionWithBiasAndAddActivation(x) ==
  IF ~HasControlFaninOrFanout(x) /\ IsSupportedActivation(x) /\ IsFloat(x)
  THEN {m \in ContractionWithBiasAddAndAdd(In(x, 1)) :
          /\ Absorbs(x, In(x, 1))
          /\ ~(Type(x) = "LeakyRelu" /\ Type(m.contraction) = "MatMul")}
  ELSE {}

ContractionWithActivation(x) ==
  {c \in DOMAIN graph :
     /\ Type(x) = "Relu" /\ ~HasControlFanin(x)
     /\ c = In(x, 1) /\ Type(c) = "MatMul"
     /\ ~HasControlFanout(c) /\ Absorbs(x, c)
     /\ graph[c].op.T # "double"}

(* _FusedMatMul with a bias, and an activation a (Sigmoid or Mish).        *)
FusedMatMulWithActivation(x, a) ==
  {c \in DOMAIN graph :
     /\ Type(x) = a /\ ~HasControlFanin(x)
     /\ c = In(x, 1) /\ Type(c) = "_FusedMatMul"
     /\ graph[c].op.fused = <<"BiasAdd">>
     /\ ~HasControlFanout(c) /\ Absorbs(x, c)}

ContractionWithBiasAndActivation(x) ==
  IF IsSupportedActivation(x) /\ ~HasControlFanin(x)
  THEN {m \in ContractionWithBias(In(x, 1)) :
          LET b == m.bias_add
              c == m.contraction
          IN  /\ HasAtMostOneFanoutAtPort0(b) /\ ~IsInPreserveSet(b)
              /\ HaveSameDataType(x, b) \/ graph[x].op.T = "float"
              /\ ~HasControlFaninOrFanout(b)
              /\ ~HasControlFanout(c)
              /\ Type(x) = "Sigmoid" => Type(c) = "MatMul"
              /\ Type(x) = "LeakyRelu" => Type(c) # "MatMul"}
  ELSE {}

ContractionWithMul(x) ==
  LET scalar == IF InputShape(x, 1) = "scalar" THEN 1 ELSE 2
      c      == In(x, 3 - scalar)
  IN  IF /\ ~HasControlFaninOrFanout(x) /\ IsAnyMul(x)
         /\ InputShape(x, scalar) = "scalar"
         /\ IsAnyBatchMatMul(c)
         /\ Type(In(x, scalar)) \in {"Const", "HostConst", "Cast"}
         /\ IsFloat(x)
         /\ ~HasControlFaninOrFanout(c) /\ Absorbs(x, c)
      THEN {[contraction |-> c, mul |-> x, scalar |-> In(x, scalar)]}
      ELSE {}

BatchMatMulWithBiasAddAndActivation(x) ==
  LET b == In(x, 1)
      c == In(b, 1)
  IN  IF /\ Type(x) = "Relu" /\ ~HasControlFanin(x)
         /\ IsBiasAdd(b)
         /\ HaveSameDataType(x, b) \/ graph[x].op.T = "float"
         /\ HasAtMostOneFanoutAtPort0(b) /\ ~IsInPreserveSet(b)
         /\ ~HasControlFaninOrFanout(b)
         /\ IsAnyBatchMatMul(c)
         /\ ~HasControlFanout(c) /\ Absorbs(b, c)
      THEN {[batch_matmul |-> c, bias_add |-> b]}
      ELSE {}

(* The padding attribute is a flag, "SAME" or "EXPLICIT" unless it is      *)
(* VALID, and so is a Tpaddings of "int64".                                *)
PadWithContraction(x) ==
  {pad \in DOMAIN graph :
     /\ Type(x) \in {"Conv2D", "_FusedConv2D", "DepthwiseConv2dNative",
                     "_FusedDepthwiseConv2dNative"}
     /\ ~HasControlFaninOrFanout(x)
     /\ pad = In(x, 1) /\ Type(pad) = "Pad"
     /\ "SAME" \notin graph[x].op.flags
     /\ "int64" \notin graph[pad].op.flags
     /\ Type(x) = "_FusedConv2D" => Len(graph[x].ins) = 3
     /\ Absorbs(x, pad) /\ ~HasControlFaninOrFanout(pad)}

(* A weight whose dimensions are known: frozen, or read from a variable.   *)
IsWeight(x) ==
  \/ Type(x) \in {"Const", "ReadVariableOp"}
  \/ Type(x) = "Cast" /\ Type(In(x, 1)) = "ReadVariableOp"

(* MatMul, Reshape, BiasAdd and, if there is one, an activation; activation *)
(* is the BiasAdd itself if there is none.  The root is the Reshape.       *)
KerasDenseLayerFwd(x) ==
  LET Bare(y) == ~HasControlFaninOrFanout(y) /\ ~IsInPreserveSet(y)
      Activations(b) ==
        {a \in DOMAIN graph :
           FeedsOnly(b, a) /\ IsSupportedActivation(a) /\ Bare(a)}
      Biases ==
        {b \in DOMAIN graph : FeedsOnly(x, b) /\ IsBiasAdd(b) /\ Bare(b)}
      Weight(y) == In(y, 2)
      c         == In(x, 1)
  IN  IF /\ Type(x) = "Reshape" /\ Bare(x) /\ Len(graph[x].ins) = 2
         /\ Type(c) = "MatMul" /\ IsWeight(Weight(c))
      THEN {m \in [matmul : {c}, reshape : {x}, bias : Biases,
                   activation : DOMAIN graph] :
              /\ IF Activations(m.bias) = {} THEN m.activation = m.bias
                 ELSE m.activation \in Activations(m.bias)
              /\ IsWeight(Weight(m.bias))
              /\ item.dim[Weight(m.bias)] = item.dim[Weight(c)]}
      ELSE {}

(* What is made of a match.                                                *)

FusedType(c) ==
  CASE Type(c) = "Conv2D" -> "_FusedConv2D"
    [] Type(c) = "DepthwiseConv2dNative" -> "_FusedDepthwiseConv2dNative"
    [] OTHER -> "_FusedMatMul"

(* AddFusedContractionNode has no branch for Conv3D: CHECK(false).         *)
HasFusedType(c) == Type(c) # "Conv3D"

Operands(c) == <<graph[c].ins[1], graph[c].ins[2]>>

Bias(m) == graph[m.bias_add].ins[m.bias_port]

AddContractionWithBias(x) ==
  {Fuse(x, Fused(FusedType(m.contraction), m.contraction, <<"BiasAdd">>),
        Append(Operands(m.contraction), Bias(m)), {m.contraction},
        HasFusedType(m.contraction)) :
     m \in ContractionWithBias(x)}

AddContractionWithBiasAddAndAdd(x) ==
  {Fuse(x, Fused(FusedType(m.contraction), m.contraction, <<"BiasAdd", "Add">>),
        Operands(m.contraction)
          \o <<Bias(m), graph[m.add].ins[3 - m.port_id]>>,
        {m.contraction, m.bias_add}, HasFusedType(m.contraction)) :
     m \in ContractionWithBiasAddAndAdd(x)}

AddContractionWithBiasAndActivation(x) ==
  {Fuse(x, Fused(FusedType(m.contraction), m.contraction,
                 <<"BiasAdd", Type(x)>>),
        Append(Operands(m.contraction), Bias(m)), {m.contraction, m.bias_add},
        HasFusedType(m.contraction)) :
     m \in ContractionWithBiasAndActivation(x)}

(* The bias is read from the second input of bias_add, whatever bias_port. *)
AddContractionWithBiasAndAddActivation(x) ==
  {Fuse(x, Fused(FusedType(m.contraction), m.contraction,
                 <<"BiasAdd", "Add", Type(x)>>),
        Operands(m.contraction)
          \o <<graph[m.bias_add].ins[2], graph[m.add].ins[3 - m.port_id]>>,
        {m.contraction, m.bias_add, m.add}, HasFusedType(m.contraction)) :
     m \in ContractionWithBiasAndAddActivation(x)}

AddContractionWithActivation(x) ==
  {Fuse(x, Fused("_FusedMatMul", c, <<Type(x)>>), Operands(c), {c}, TRUE) :
     c \in ContractionWithActivation(x)}

AddFusedMatMulSigmoid(x) ==
  {Fuse(x, Fused("_FusedMatMul", c, <<"BiasAdd", "Sigmoid">>),
        SubSeq(graph[c].ins, 1, 3), {c}, TRUE) :
     c \in FusedMatMulWithActivation(x, "Sigmoid")}

(* CopyMatMulAttributes has a DCHECK that its source is a MatMul.          *)
AddFusedMatMulMish(x) ==
  {Fuse(x, Fused("_FusedMatMul", c, <<"BiasAdd", "Mish">>),
        SubSeq(graph[c].ins, 1, 3), {c}, ~DebugBuild) :
     c \in FusedMatMulWithActivation(x, "Mish")}

AddContractionWithMul(x) ==
  {Fuse(x, Fused("_FusedBatchMatMulV2", m.contraction, <<"BinaryMul">>),
        Append(Operands(m.contraction), <<m.scalar, 1>>), {m.contraction},
        TRUE) :
     m \in ContractionWithMul(x)}

AddBatchMatMulBiasAddActivation(x) ==
  {FuseOrReturn(x, Fused("_FusedBatchMatMulV2", m.batch_matmul, <<"BiasAdd", Type(x)>>),
        Append(Operands(m.batch_matmul), graph[m.bias_add].ins[2]),
        {m.batch_matmul, m.bias_add}, TRUE) :
     m \in BatchMatMulWithBiasAddAndActivation(x)}

(* The contraction and its bias move before the Reshape.  The last node of *)
(* the pattern becomes the Reshape.                                        *)
FuseKeras(m, first, last, ops) ==
  Fusion(
    <<Adding(<< FusedNode(first, Fused("_FusedMatMul", m.matmul, ops),
                  Append(Operands(m.matmul), graph[m.bias].ins[2])),
                FusedNode(last, graph[m.reshape].op,
                  << <<first, 1>>, graph[m.reshape].ins[2] >>) >>, "ignored")>>,
    {first, last}, {m.matmul, m.reshape} \ {first}, TRUE)

(* Mutant: the Reshape keeps its name although the fused node has it.      *)
AddKerasUnderOldName(x) ==
  {[FuseKeras(m, x, m.bias, <<"BiasAdd">>)
      EXCEPT !.mutations = <<Adding([@[1].nodes EXCEPT ![2].name = x,
                                                       ![2].ins[1] = <<m.bias, 1>>],
                                    "ignored")>>] :
     m \in KerasDenseLayerFwd(x)}

AddKerasDenseLayerFwd(x) ==
  {IF m.activation = m.bias THEN FuseKeras(m, x, m.bias, <<"BiasAdd">>)
   ELSE FuseKeras(m, m.bias, m.activation, <<"BiasAdd", Type(m.activation)>>) :
     m \in KerasDenseLayerFwd(x)}

(* The paddings become an attribute; that of x is changed in place, before *)
(* a node is made of it.  The paddings a contraction has already are read  *)
(* from the Pad, which has no such attribute.  Copying the attributes of a *)
(* convolution has a DCHECK that it is none that was fused.                *)
AddPadWithContraction(x) ==
  {LET paddings == graph[In(pad, 2)].op.value
       op == [graph[x].op EXCEPT !.flags = @ \cup {"EXPLICIT"}, !.value = paddings]
   IN  [Fuse(x, op, <<graph[pad].ins[1]>> \o Tail(graph[x].ins), {pad},
             /\ Type(In(pad, 2)) = "Const" /\ "EXPLICIT" \notin graph[x].op.flags
             /\ Type(x) \in {"Conv2D", "DepthwiseConv2dNative"} \/ ~DebugBuild)
          EXCEPT !.direct = [y \in {x} |-> op]] :
     pad \in PadWithContraction(x)}
=============================================================================
