------------------------- MODULE ActivationFusions -------------------------
(***************************************************************************)
(* The fusions of graph/remapper of an activation that comes as a          *)
(* subgraph: Gelu, exact or approximate, and Mish.                         *)
(***************************************************************************)
EXTENDS PatternMatcher
LOCAL INSTANCE SequencesExt

-----------------------------------------------------------------------------
(* Gelu.  The code allows for a difference of 0.01 of the constants.       *)

Constant == Leaf({"Cast", "Const"})
Adds     == {"Add", "AddV2"}

(* 1 + Erf(node * sqrt(1/2)). *)
ErfPlusOne(node) ==
  [erf_plus_one |-> Inner(Adds, <<"erf", "one">>),
   erf |-> Inner({"Erf"}, <<"x_sqrt_one_half">>),
   x_sqrt_one_half |-> Inner({"Mul"}, <<node, "sqrt_one_half">>),
   one |-> Constant, one_half |-> Constant, sqrt_one_half |-> Constant]

MatMulBiasAdd ==
  [bias_add |-> Inner({"BiasAdd"}, <<"matmul", "bias">>),
   matmul |-> Inner({"MatMul"}, <<>>), bias |-> Leaf({"*"})]

FusedMatMul == [matmul |-> Inner({"_FusedMatMul"}, <<>>)]

FusedMatMulReshape ==
  [reshape |-> Inner({"Reshape"}, <<"matmul", "expand_dims">>),
   expand_dims |-> Constant] @@ FusedMatMul

gelu_exact_patterns ==
  << [output |-> Output({"Mul"}, <<"half", "bias_add">>),
      half |-> Inner({"Mul"}, <<"erf_plus_one", "one_half">>)]
       @@ ErfPlusOne("bias_add") @@ MatMulBiasAdd,
     [output |-> Output({"Mul"}, <<"erf_plus_one", "half">>),
      half |-> Inner({"Mul"}, <<"bias_add", "one_half">>)]
       @@ ErfPlusOne("bias_add") @@ MatMulBiasAdd,
     [output |-> Output({"Mul"}, <<"half", "reshape">>),
      half |-> Inner({"Mul"}, <<"erf_plus_one", "one_half">>)]
       @@ ErfPlusOne("reshape") @@ FusedMatMulReshape,
     [output |-> Output({"Mul"}, <<"half", "reshape">>),
      half |-> Inner({"Mul"}, <<"one_half", "erfc">>),
      erfc |-> Inner({"Erfc"}, <<"neg_x_sqrt_one_half">>),
      neg_x_sqrt_one_half |-> Inner({"Mul"}, <<"sqrt_one_half", "neg">>),
      neg |-> Inner({"Neg"}, <<"reshape">>),
      one_half |-> Constant, sqrt_one_half |-> Constant]
       @@ FusedMatMulReshape >>

(* 1 + Tanh((node + mul) * sqrt(2/pi)), where mul is c * node^3.           *)
TanhPlusOne(node, const) ==
  [tanh_plus_one |-> Inner(Adds, <<"tanh", "one">>),
   tanh |-> Inner({"Tanh"}, <<"times_sqrt">>),
   times_sqrt |-> Inner({"Mul"}, <<"plus_mul", "square_root_two_over_pi">>),
   plus_mul |-> Inner(Adds, <<node, "mul">>),
   square |-> Inner({"Square"}, <<node>>),
   one |-> const, one_half |-> const, square_root_two_over_pi |-> const,
   empirical_const |-> const]

gelu_approximate_patterns ==
  LET const == Leaf({"Const"})
  IN
  << [output |-> Output({"Mul"}, <<"half", "matmul">>),
      half |-> Inner({"Mul"}, <<"tanh_plus_one", "one_half">>),
      mul |-> Inner({"Mul"}, <<"empirical_const_times", "square">>),
      empirical_const_times |-> Inner({"Mul"}, <<"empirical_const", "matmul">>)]
       @@ TanhPlusOne("matmul", const) @@ FusedMatMul,
     [output |-> Output({"Mul"}, <<"half", "tanh_plus_one">>),
      half |-> Inner({"Mul"}, <<"one_half", "matmul">>),
      mul |-> Inner({"Mul"}, <<"empirical_const", "empirical_const_times">>),
      empirical_const_times |-> Inner({"Mul"}, <<"matmul", "square">>)]
       @@ TanhPlusOne("matmul", const) @@ FusedMatMul,
     [output |-> Output({"Mul"}, <<"half", "reshape">>),
      half |-> Inner({"Mul"}, <<"tanh_plus_one", "one_half">>),
      mul |-> Inner({"Mul"}, <<"empirical_const_times", "empirical_const">>),
      empirical_const_times |-> Inner({"Mul"}, <<"reshape", "square">>)]
       @@ TanhPlusOne("reshape", Constant) @@ FusedMatMulReshape,
     [output |-> Output({"Mul"}, <<"half", "tanh_plus_one">>),
      half |-> Inner({"Mul"}, <<"one_half", "matmul">>),
      tanh_plus_one |-> Inner({"AddV2"}, <<"tanh", "one">>),
      tanh |-> Inner({"Tanh"}, <<"cast1">>),
      cast1 |-> Inner({"Cast"}, <<"times_sqrt">>),
      plus_mul |-> Inner({"AddV2"}, <<"cast", "mul">>),
      mul |-> Inner({"Mul"}, <<"cast", "empirical_const_times">>),
      empirical_const_times |-> Inner({"Mul"}, <<"empirical_const", "square">>),
      cast |-> Inner({"Cast"}, <<"matmul">>)]
       @@ TanhPlusOne("cast", const) @@ FusedMatMul >>

(* Constants of one element, perhaps cast, that have these values.         *)
VerifyConstants(node, values) ==
  \A label \in DOMAIN values :
    LET x == node[label]
        c == IF Type(x) = "Cast" THEN In(x, 1) ELSE x
    IN  /\ Type(c) = "Const" /\ item.shape[c] = "scalar" /\ IsFloat(c)
        /\ graph[c].op.value = values[label]

GeluExact(x) ==
  {m \in FirstMatch(gelu_exact_patterns, x, TRUE) :
     /\ IsFloat(x)
     /\ "transpose_a" \notin graph[m.node.matmul].op.flags
     /\ VerifyConstants(m.node,
          [sqrt_one_half |-> SqrtOneHalf, one_half |-> OneHalf])
     /\ "one" \in DOMAIN m.node => VerifyConstants(m.node, [one |-> One])}

GeluApproximate(x) ==
  {m \in FirstMatch(gelu_approximate_patterns, x, TRUE) :
     /\ "transpose_a" \notin graph[m.node.matmul].op.flags
     /\ graph[m.node.matmul].op.fused = <<"BiasAdd">>
     /\ VerifyConstants(m.node,
          [square_root_two_over_pi |-> SquareRootTwoOverPi, one |-> One,
           one_half |-> OneHalf, empirical_const |-> EmpiricalConst])}

(* If the subgraph of an exact Gelu is there but not its constants, an     *)
(* approximate one is not looked for.                                      *)
MatMulBiasAddAndGelu(x) ==
  IF Type(x) # "Mul" THEN {}
  ELSE IF FirstMatch(gelu_exact_patterns, x, TRUE) # {}
  THEN {[fused |-> "GeluExact", match |-> m] : m \in GeluExact(x)}
  ELSE {[fused |-> "GeluApproximate", match |-> m] : m \in GeluApproximate(x)}

(* The bias of a MatMul is read from the BiasAdd, that of a _FusedMatMul   *)
(* is its third input, whether it has one or not.  The output is reshaped  *)
(* by the fused node, if it was by a Reshape before.  CopyMatMulAttributes *)
(* has a DCHECK that its source is a MatMul.                               *)
AddFusedMatMulBiasAddAndGelu(x) ==
  {LET node   == m.match.node
       matmul == node.matmul
       op     == Fused("_FusedMatMul", matmul, <<"BiasAdd", m.fused>>)
       inputs == graph[matmul].ins
   IN  FuseOrLeave(x,
         [op EXCEPT !.flags = IF "reshape" \in DOMAIN node
                              THEN {"is_reshape"} ELSE {}],
         IF "bias_add" \in DOMAIN node
         THEN <<inputs[1], inputs[2], graph[node.bias_add].ins[2]>>
         ELSE SubSeq(inputs, 1, 3),
         m.match.gone,
         "bias_add" \in DOMAIN node \/ (3 \in DOMAIN inputs /\ ~DebugBuild)) :
     m \in MatMulBiasAddAndGelu(x)}

-----------------------------------------------------------------------------
(* Mish as x * Tanh(Softplus(x)), x being a _FusedMatMul.  Identities lie  *)
(* on the way, and, in bfloat16, Casts that do nothing or are stale: from  *)
(* float although their input is bfloat16 already.                         *)

NoopCast  == <<"bfloat16", "bfloat16">>
StaleCast == <<"float", "bfloat16">>

IsHalf(x) == graph[x].op.T = "bfloat16"

SkipIdentityOrNoopBf16Cast(x, allow) ==
  Upstream(x, IF allow THEN {NoopCast} ELSE {}, MaxHops)

(* The same towards a consumer: each node has one reader only.             *)
RECURSIVE ForwardReaches(_, _, _, _)
ForwardReaches(x, target, casts, hops) ==
  /\ hops > 0
  /\ \/ x = target
     \/ /\ Type(x) = "Identity" \/ IsCastOf(x, casts)
        /\ Cardinality(Readers(x)) = 1
        /\ \A r \in Readers(x) : ForwardReaches(r[1], target, casts, hops - 1)

Reaching(readers, f, target) ==
  LET casts == IF IsHalf(f) /\ IsHalf(target) THEN {NoopCast, StaleCast} ELSE {}
  IN  {r \in readers : ForwardReaches(r[1], target, casts, MaxHops)}

IsStaleCastOn(f, x) ==
  IsHalf(f) /\ IsCastOf(x, {StaleCast}) /\ ~HasControlFaninOrFanout(x)

(* One reader of f leads to the Softplus, one to the Mul, and there are no *)
(* others but stale casts nobody reads.                                    *)
OutputOnlySoftplusAndMul(f, softplus, mul) ==
  LET readers == {r \in Readers(f) :
                    ~(IsStaleCastOn(f, r[1]) /\ Consumers(r[1]) = {})}
      to_softplus == Reaching(readers, f, softplus)
      to_mul      == Reaching(readers, f, mul)
  IN  /\ to_softplus \cup to_mul = readers
      /\ to_softplus \cap to_mul = {}
      /\ Cardinality(to_softplus) = 1 /\ Cardinality(to_mul) = 1

(* The match with x itself at input p of the Mul.                          *)
MishDecomposedAt(x, p) ==
  LET bypass   == SkipIdentityOrNoopBf16Cast(In(x, p), IsHalf(x))
      tanh     == SkipIdentityOnly(In(x, 3 - p))
      softplus == SkipIdentityOnly(In(tanh, 1))
      from     == SkipIdentityOrNoopBf16Cast(In(softplus, 1), IsHalf(softplus))
      f        == Last(from)
      noop     == {y \in Range(Front(bypass)) \cup Range(Front(from)) :
                     IsCastOf(y, {NoopCast})}
      stale    == {y \in Consumers(f) :
                     /\ IsHalf(softplus) /\ IsStaleCastOn(f, y)
                     /\ \E k \in DOMAIN graph[y].ins : <<y, k>> \in Readers(f)}
  IN  IF /\ Type(tanh) = "Tanh" /\ ~HasControlFaninOrFanout(tanh)
         /\ Type(softplus) = "Softplus" /\ ~HasControlFaninOrFanout(softplus)
         /\ Last(bypass) = f
         /\ Type(f) = "_FusedMatMul" /\ graph[f].op.fused = <<"BiasAdd">>
         /\ graph[f].op.T # "double"
         /\ \A y \in {f, x, tanh, softplus} \cup noop \cup stale :
              ~IsInPreserveSet(y)
         /\ HaveSameDataType(x, f) /\ HaveSameDataType(tanh, x)
         /\ ~HasControlFaninOrFanout(f)
         /\ OutputOnlySoftplusAndMul(f, softplus, x)
         /\ HasAtMostOneFanoutAtPort0(softplus)
         /\ HasAtMostOneFanoutAtPort0(tanh)
      THEN {[contraction |-> f, tanh |-> tanh, softplus |-> softplus,
             noop |-> noop, stale |-> stale]}
      ELSE {}

FusedMatMulMishDecomposed(x) ==
  IF IsAnyMul(x) /\ ~HasControlFanin(x) /\ Len(graph[x].ins) = 2
  THEN IF MishDecomposedAt(x, 1) # {} THEN MishDecomposedAt(x, 1)
       ELSE MishDecomposedAt(x, 2)
  ELSE {}

(* First the readers of the stale casts are moved, a mutation for each.    *)
(* CopyMatMulAttributes has its DCHECK here, too.                          *)
AddFusedMatMulMishDecomposed(x) ==
  {LET f     == m.contraction
       moves == {Editing(ReadInstead(c, <<f, 1>>), "returned") : c \in m.stale}
       op    == Fused("_FusedMatMul", f, <<"BiasAdd", "Mish">>)
   IN  Fusion(SetToSeq(moves) \o
                <<Adding(<<FusedNode(x, op, SubSeq(graph[f].ins, 1, 3))>>,
                         "ignored")>>,
              {x}, {f, m.softplus, m.tanh} \cup m.noop \cup m.stale,
              ~DebugBuild) :
     m \in FusedMatMulMishDecomposed(x)}
=============================================================================
