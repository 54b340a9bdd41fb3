--------------------------- MODULE BatchNormFolds ---------------------------
(***************************************************************************)
(* The fusions of graph/remapper that fold a batch normalization, a scale  *)
(* and a shift, into the constants of the MatMul before it.                *)
(*                                                                         *)
(* The T of a Const is the type its value has.  A matrix is a weight; a    *)
(* bias, a scale and a shift are scalars or vectors.                       *)
(***************************************************************************)
EXTENDS ContractionFusions
LOCAL INSTANCE SequencesExt
LOCAL INSTANCE FiniteSetsExt

(* A node of the pattern with n inputs.                                    *)
Interior(x, n) == /\ ~HasControlFanin(x) /\ Len(graph[x].ins) = n
                  /\ ~IsInPreserveSet(x) /\ HasAtMostOneFanoutAtPort0(x)

(* The constant that x passes on, if nobody else needs what lies between.  *)
RECURSIVE PeelFrom(_, _)
PeelFrom(x, depth) ==
  IF depth = 0 \/ IsInPreserveSet(x) \/ HasControlFaninOrFanout(x)
       \/ ~HasAtMostOneFanoutAtPort0(x) THEN {}
  ELSE IF Type(x) \in {"Const", "HostConst"} THEN {x}
  ELSE IF Type(x) \in {"Identity", "StopGradient", "Cast", "ReadVariableOp"}
  THEN PeelFrom(In(x, 1), depth - 1)
  ELSE {}

PeelToConstProducer(x) == PeelFrom(x, 16)

(* Who reads the Identities is not looked at, here and below.              *)
PeelSkipped(x) == PeelToConstProducer(SkipIdentityOnly(x))

-----------------------------------------------------------------------------
(* The MatMul and its bias, perhaps cast to what the normalization is in.  *)

IsTransposed(x) == graph[x].op.flags \cap {"transpose_a", "transpose_b"} # {}

(* A batched MatMul must have matrices only.                               *)
IsFoldableMatMul(x) ==
  /\ \/ Type(x) \in {"MatMul", "_ZenMatMul"}
     \/ /\ IsAnyBatchMatMul(x) \/ Type(x) \in {"_ZenBatchMatMul", "_ZenBatchMatMulV2"}
        /\ Len(Inferred(x)) >= 2
        /\ InputShape(x, 1) = "matrix" /\ InputShape(x, 2) = "matrix"
  /\ ~IsTransposed(x)
  /\ ~HasControlFanin(x) /\ HasAtMostOneFanoutAtPort0(x) /\ ~IsInPreserveSet(x)
  /\ graph[x].op.T # "double"

IsFusedMatMulBiasAddOnly(x) ==
  /\ Type(x) \in {"_FusedMatMul", "_ZenFusedMatMul"}
  /\ graph[x].op.fused = <<"BiasAdd">> /\ Len(graph[x].ins) >= 3

(* x without the Cast on it. *)
Uncast(x) ==
  IF Type(x) # "Cast" THEN {[cast |-> {}, head |-> x]}
  ELSE IF Interior(x, 1) THEN {[cast |-> {x}, head |-> In(x, 1)]} ELSE {}

BiasPorts(x) == {p \in 1..2 : IF IsBiasAdd(x) THEN p = 2 ELSE IsBiasSemanticAdd(x, p)}

(* The weight and the bias are named as the inputs w and b of nodes; gone  *)
(* is what the fused node makes superfluous.                               *)
LinearLayer(x) ==
  {[cast |-> u.cast, matmul |-> In(u.head, 3 - p), w |-> In(In(u.head, 3 - p), 2),
    bias_port |-> p, bias |-> graph[u.head].ins[p],
    gone |-> u.cast \cup {u.head, In(u.head, 3 - p)}] :
     <<u, p>> \in {<<v, q>> \in Uncast(x) \X (1..2) :
                     /\ q \in BiasPorts(v.head)
                     /\ Interior(v.head, 2)
                     /\ IsFoldableMatMul(In(v.head, 3 - q))}}

FusedLayer(x) ==
  {[cast |-> u.cast, matmul |-> u.head, w |-> In(u.head, 2),
    bias |-> graph[u.head].ins[3], gone |-> u.cast \cup {u.head}] :
     u \in {v \in Uncast(x) :
              /\ IsFusedMatMulBiasAddOnly(v.head)
              /\ ~HasControlFanin(v.head) /\ HasAtMostOneFanoutAtPort0(v.head)
              /\ ~IsInPreserveSet(v.head)
              /\ ~IsTransposed(v.head)
              /\ graph[v.head].op.T # "double"}}

(* The normalization x is of the type of the MatMul, or of the type inner  *)
(* has, which the MatMul is cast to.                                       *)
TypesFit(x, m, inner, outer) ==
  IF m.cast # {}
  THEN /\ \A c \in m.cast :
            graph[c].op.value = <<graph[m.matmul].op.T, graph[inner].op.T>>
       /\ HaveSameDataType(x, outer)
  ELSE HaveSameDataType(x, m.matmul) /\ HaveSameDataType(inner, m.matmul)

(* A scale s and a shift h of this many elements and these types can be    *)
(* folded into weight w and bias b.                                        *)
NumElements(c) == CASE item.shape[c] = "scalar" -> 1
                    [] item.shape[c] = "vector" -> item.dim[c]
                    [] OTHER -> 0

FuseMatmulBNfoldTensorShapesOk(t, w, b, types, elements) ==
  /\ t \in {"float", "bfloat16"}
  /\ \A S \in {{graph[w].op.T, graph[b].op.T}, types} :
       S = {t} \/ (t = "bfloat16" /\ S = {"float"})
  /\ item.shape[w] = "matrix"
  /\ elements \cup {NumElements(b)} = {item.dim[w]}

IsConstAlreadyBnFolded(c) == "_zen_bn_folded" \in graph[c].op.flags

(* The constants of a layer that a scale and a shift can be folded into.   *)
Foldable(m, types, elements) ==
  {wb \in PeelToConstProducer(m.w) \X PeelToConstProducer(m.bias[1]) :
     /\ ~IsConstAlreadyBnFolded(wb[1]) /\ ~IsConstAlreadyBnFolded(wb[2])
     /\ FuseMatmulBNfoldTensorShapesOk(graph[m.matmul].op.T, wb[1], wb[2],
                                       types, elements)}

(* The Cast back, if it is all that reads x.                               *)
TailCast(x, t) ==
  {c \in DOMAIN graph : /\ FeedsOnly(x, c) /\ ~HasControlFanin(c)
                        /\ IsCastOf(c, {<<graph[x].op.T, t>>})}

-----------------------------------------------------------------------------
(* The fold: the constants get new values, the fused node takes the place  *)
(* of x and reads what they did, and then those that read the tail read x. *)

(* Mutant: the bias is not scaled. *)
ShiftBias(b, s, h) == Plus(b, h)

ScaleAndShiftBias(b, s, h) == Plus(Times(b, s), h)

FoldInto(x, node, m, wb, s, h, gone) ==
  LET t == graph[m.matmul].op.T
      tails == TailCast(x, t)
      Folded(c, v) == DiffTo(c, [graph[c] EXCEPT
                        !.op.value = v, !.op.T = t,
                        !.op.flags = @ \cup {"_zen_bn_folded"}])
      w == graph[wb[1]].op.value
      b == graph[wb[2]].op.value
      edits == [c \in {wb[1], wb[2]} |->
                  IF c = wb[1] THEN Folded(c, Times(w, s))
                  ELSE Folded(c, ScaleAndShiftBias(b, s, h))]
  IN  Fusion(<<[nodes |-> <<node>>, edits |-> edits, error |-> "returned"]>>
               \o SetToSeq({Editing(FollowInstead(c, <<x, 1>>), "returned") : c \in tails}),
             {x}, gone \cup m.gone \cup tails, TRUE)

BiasAddNode(x, m) ==
  FusedNode(x, Fused("_FusedMatMul", m.matmul, <<"BiasAdd">>),
            Append(Operands(m.matmul), m.bias))

(* The fusions start at an addition, which may be preserved.               *)
IsFoldRoot(x) == IsAdd(x) /\ ~HasControlFanin(x) /\ Len(graph[x].ins) = 2

-----------------------------------------------------------------------------
(* layer * scale + shift.  Who else reads the Mul is not looked at.        *)

MulScaleBiasAddTail(x, q) ==
  LET mul == In(x, q)
      scales(p) == PeelToConstProducer(In(mul, 3 - p))
      p == Min({r \in 1..2 : scales(r) # {}})
  IN  IF /\ IsAnyMul(mul) /\ ~HasControlFanin(mul) /\ Len(graph[mul].ins) = 2
         /\ ~IsInPreserveSet(mul)
         /\ scales(1) \cup scales(2) # {}
      THEN {[mul |-> mul, chain |-> In(mul, p), scale |-> sh[1], shift |-> sh[2]] :
              sh \in scales(p) \X PeelToConstProducer(In(x, 3 - q))}
      ELSE {}

Layer(x, fused) == IF fused THEN FusedLayer(x) ELSE LinearLayer(x)

(* The tails, with a layer and constants that can be folded.               *)
MulAddFold(x, q, fused) ==
  UNION {UNION {{[tail |-> t, layer |-> m, consts |-> wb] :
                   wb \in Foldable(m, {graph[t.scale].op.T, graph[t.shift].op.T},
                                    {NumElements(t.scale), NumElements(t.shift)})} :
                  m \in {l \in Layer(t.chain, fused) : TypesFit(x, l, t.mul, t.mul)}} :
           t \in MulScaleBiasAddTail(x, q)}

AddMulAddFold(x, fused) ==
  IF IsFoldRoot(x)
  THEN {FoldInto(x, IF fused THEN FusedNode(x, graph[f.layer.matmul].op,
                                            graph[f.layer.matmul].ins)
                    ELSE BiasAddNode(x, f.layer),
                 f.layer, f.consts, graph[f.tail.scale].op.value,
                 graph[f.tail.shift].op.value,
                 {f.tail.mul, f.tail.scale, f.tail.shift}) :
          f \in FirstOf(<<MulAddFold(x, 1, fused), MulAddFold(x, 2, fused)>>)}
  ELSE {}

AddMatMulBiasMulAddFold(x) == AddMulAddFold(x, FALSE)
AddFuseMatmulBNfold(x)     == AddMulAddFold(x, TRUE)

-----------------------------------------------------------------------------
(* Keras' batch normalization, decomposed, of moments that are constants.  *)

(* variance + epsilon: epsilon is the constant of one element, or else the *)
(* default one; variance the one of more elements.                         *)
Variance(add_eps) ==
  LET consts == [k \in 1..2 |-> {c \in PeelSkipped(In(add_eps, k)) : IsFloat(c)}]
      scalars  == {c \in consts[1] \cup consts[2] : NumElements(c) = 1}
      Vector(k) == consts[k] \ scalars
  IN  IF /\ IsAdd(add_eps) /\ Interior(add_eps, 2)
         /\ \A c \in scalars : graph[c].op.value \in BatchNormEpsilons
         /\ \A c \in Vector(1) \cup Vector(2) : graph[c].op.value \notin Negatives
      THEN {[variance |-> c,
             epsilon |-> IF scalars = {} THEN DefaultEpsilon
                         ELSE graph[CHOOSE e \in scalars : TRUE].op.value] :
              c \in IF Vector(2) # {} THEN Vector(2) ELSE Vector(1)}
      ELSE {}

(* A match k names the constants, the layer, and the nodes of the          *)
(* normalization; inner is the Mul that decides its type.                  *)
BuildKerasBn(x, k) ==
  LET consts == {k.gamma, k.beta, k.mean, k.var.variance}
      Val(c) == graph[c].op.value
      s == Times(Val(k.gamma), Rsqrt(Plus(Val(k.var.variance), k.var.epsilon)))
      h == Minus(Val(k.beta), Times(Val(k.mean), s))
  IN  IF TypesFit(x, k.layer, k.inner, k.outer)
      THEN {FoldInto(x, BiasAddNode(x, k.layer), k.layer, wb, s, h, k.gone) :
              wb \in Foldable(k.layer, {"float"}, {NumElements(c) : c \in consts})}
      ELSE {}

(* The first of two ports at which something is found.                     *)
AtPort(found) == IF found[1] # {} THEN 1 ELSE 2

(* ((layer - mean) * Rsqrt(variance + epsilon)) * gamma + beta.            *)
LinearChain(x, q) ==
  LET mul_gamma == In(x, q)
      gammas == [p \in 1..2 |-> IF IsAnyMul(In(mul_gamma, p))
                                THEN PeelSkipped(In(mul_gamma, 3 - p)) ELSE {}]
      inner  == In(mul_gamma, AtPort(gammas))
      p      == IF Type(In(inner, 1)) = "Sub" THEN 1 ELSE 2
      sub    == In(inner, p)
      rsqrt  == In(inner, 3 - p)
      add_eps == SkipIdentityOnly(In(rsqrt, 1))
  IN  IF /\ IsAnyMul(mul_gamma) /\ Interior(mul_gamma, 2)
         /\ gammas[1] \cup gammas[2] # {}
         /\ Interior(inner, 2)
         /\ Type(sub) = "Sub" /\ Interior(sub, 2)
         /\ Type(rsqrt) = "Rsqrt" /\ Interior(rsqrt, 1)
      THEN [gamma : gammas[AtPort(gammas)], beta : PeelSkipped(In(x, 3 - q)),
            mean : PeelSkipped(In(sub, 2)), var : Variance(add_eps),
            layer : LinearLayer(SkipIdentityOnly(In(sub, 1))),
            inner : {inner}, outer : {mul_gamma},
            gone : {{mul_gamma, inner, sub, rsqrt, add_eps}}]
      ELSE {}

(* layer * scale + (beta - mean * scale), scale being                      *)
(* gamma * Rsqrt(variance + epsilon).  What is subtracted from what is not *)
(* looked at, nor who else reads the Sub and the product with the mean.    *)
SharedScale(x, q) ==
  LET mul_1 == In(x, q)
      sub   == In(x, 3 - q)
      layers == [p \in 1..2 |->
                   IF ~IsAnyMul(In(mul_1, 3 - p)) THEN {}
                   ELSE {l \in LinearLayer(SkipIdentityOnly(In(mul_1, p))) : l.bias_port = 2}]
      heads == {y \in DOMAIN graph : \E l \in layers[AtPort(layers)] : y \in l.gone}
      scale == In(mul_1, IF In(mul_1, 1) \in heads THEN 2 ELSE 1)
      r     == IF Type(In(scale, 2)) = "Rsqrt" THEN 2 ELSE 1
      rsqrt == In(scale, r)
      add_eps == SkipIdentityOnly(In(rsqrt, 1))
      m     == IF IsAnyMul(In(sub, 1)) THEN 1 ELSE 2
      mul_mean == In(sub, m)
      Bare(y, n) == /\ ~HasControlFanin(y) /\ Len(graph[y].ins) = n
                    /\ ~IsInPreserveSet(y)
  IN  IF /\ IsAnyMul(mul_1) /\ Type(sub) = "Sub"
         /\ Interior(mul_1, 2) /\ Bare(sub, 2)
         /\ layers[1] \cup layers[2] # {}
         /\ IsAnyMul(scale) /\ Bare(scale, 2)
         /\ Cardinality(Readers(scale)) = 2
         /\ Type(rsqrt) = "Rsqrt" /\ Interior(rsqrt, 1)
         /\ IsAnyMul(mul_mean) /\ Bare(mul_mean, 2)
         /\ \E p \in 1..2 : In(mul_mean, p) = scale
      THEN [gamma : PeelToConstProducer(In(scale, 3 - r)),
            beta : PeelSkipped(In(sub, 3 - m)),
            mean : PeelSkipped(In(mul_mean, IF In(mul_mean, 1) = scale THEN 2 ELSE 1)),
            var : Variance(add_eps), layer : layers[AtPort(layers)],
            inner : {mul_1}, outer : {mul_1},
            gone : {{mul_1, sub, scale, mul_mean, rsqrt, add_eps}}]
      ELSE {}

AddMatMulBiasKerasBnFold(x) ==
  LET Built(matches) == UNION {BuildKerasBn(x, k) : k \in matches}
  IN  IF IsFoldRoot(x)
      THEN FirstOf(<<Built(LinearChain(x, 1)), Built(LinearChain(x, 2)),
                     Built(SharedScale(x, 1)), Built(SharedScale(x, 2))>>)
      ELSE {}
=============================================================================
