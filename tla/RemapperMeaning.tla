-------------------------- MODULE RemapperMeaning --------------------------
(***************************************************************************)
(* What a graph of RemapperGraph computes, for the properties: every node  *)
(* is given a number.                                                      *)
(*                                                                         *)
(* A tensor is its number, the Reshape it went through (form, 0 if none),  *)
(* which elementwise ops pass on, the last dimension before that, and how  *)
(* many tensors it is a concatenation of.                                  *)
(***************************************************************************)
EXTENDS RemapperGraph, TLC
LOCAL INSTANCE SequencesExt

(* A Reshape that adds a dimension, as _FusedMatMul does it.               *)
ExpandDims == 300

Value(t) == IF t.form = 0 THEN t.num ELSE Mix(Tag("Reshape"), t.num, t.form)

Whole(num, dim) == [num |-> num, form |-> 0, dim |-> dim, width |-> 1]

Elementwise == {"Add", "BiasAdd", "Sub", "Mul", "MulNoNan", "SquaredDifference"}

(* A Reshape stays on the outside if the other operand b is of the same    *)
(* form or is spread over it: a scalar, or a vector along the dimension    *)
(* the Reshape keeps.                                                      *)
Pair(op, a, b, b_shape) ==
  IF \/ a.form = b.form \/ b_shape = "scalar"
     \/ b_shape = "vector" /\ a.dim = b.dim
  THEN [a EXCEPT !.num = BinaryNumber(op, @, b.num)]
  ELSE Whole(BinaryNumber(op, Value(a), Value(b)), a.dim)

Base(type) ==
  CASE type \in {"_FusedMatMul", "_ZenFusedMatMul", "_ZenMatMul"} -> "MatMul"
    [] type = "_FusedConv2D" -> "Conv2D"
    [] type = "_FusedDepthwiseConv2dNative" -> "DepthwiseConv2dNative"
    [] type = "_FusedBatchMatMulV2" -> "BatchMatMulV2"
    [] type \in {"Add", "AddV2", "AddN"} -> "Add"
    [] type = "BiasAddV1" -> "BiasAdd"
    [] type = "Gather" -> "GatherV2"
    [] type = "Select" -> "SelectV2"
    [] OTHER -> type

NaryNumber(op, values) ==
  FoldLeft(LAMBDA acc, v : Mix(Tag(op), acc, v), Tag(op), values)

Powers(n) == FoldLeft(LAMBDA acc, k : Times(acc, Tag("ConcatV2")), 1, [k \in 1..n |-> k])

(* One after the other.                                                    *)
Concatenation(tensors) ==
  FoldLeft(LAMBDA acc, t :
             [acc EXCEPT !.num = Plus(@, Times(Value(t), Powers(acc.width))),
                         !.width = @ + t.width],
           [Whole(0, 1) EXCEPT !.width = 0], tensors)

(* What is gathered, with what is infinite replaced by zeros, so often.    *)
Checked(v, tokens) ==
  FoldLeft(LAMBDA acc, o :
             NaryNumber("SelectV2", <<UnaryNumber("IsInf", acc), 0, acc>>),
           v, tokens)

(* The tables and their indices, and the rest as it is.                    *)
GroupEmbeddingTensor(op, args) ==
  LET per_table == op.value.gathers_per_table
      tables    == Len(per_table)
      gathers   == FoldLeft(LAMBDA acc, n : acc + n, 0, per_table)
      table(k)  == CHOOSE t \in 1..tables :
                     LET before(s) == FoldLeft(LAMBDA acc, n : acc + n, 0,
                                               SubSeq(per_table, 1, s))
                     IN  before(t - 1) < k /\ k <= before(t)
      gathered(k) ==
        Whole(Checked(NaryNumber("GatherV2",
                                 <<Value(args[table(k)]), Value(args[tables + k]),
                                   op.value.gather_axis>>), op.fused), 1)
  IN  Concatenation([k \in 1..gathers |-> gathered(k)]
                      \o SubSeq(args, tables + gathers + 1, Len(args)))

(* TensorFlow's subgraph; the bounds of a Slice are the usual ones.        *)
SafeLookupTensor(op, args) ==
  LET sfr == NaryNumber("SparseFillEmptyRows",
                        [k \in 1..4 |-> Value(args[k + 1])])
      port(p) == Mix(p, sfr, p)
      segment == NaryNumber(op.value, <<Value(args[1]), port(2),
                                        UnaryNumber("StridedSlice", sfr)>>)
      is_empty == UnaryNumber("Tile", port(3))
      select  == NaryNumber("SelectV2", <<is_empty, 0, segment>>)
      shape   == Concatenation(
                   <<Whole(UnaryNumber("Slice", Value(args[6])), 1),
                     Whole(UnaryNumber("Slice", UnaryNumber("Shape", select)), 1)>>)
  IN  IF "has_adjust_shape" \in op.flags
      THEN [Whole(select, 1) EXCEPT !.form = shape.num] ELSE Whole(select, 1)

(* The values that are not negative: all of them.                          *)
IsFilter(G, x) ==
  LET from(y, k) == G[y].ins[k][1]
      reshape == from(x, 2)
      where   == from(reshape, 1)
      ge      == from(where, 1)
  IN  /\ G[reshape].op.type = "Reshape" /\ G[where].op.type = "Where"
      /\ G[ge].op.type = "GreaterEqual"
      /\ G[from(ge, 2)].op.type = "Const" /\ G[from(ge, 2)].op.value = 0

(* The tensor of node x of G, those of its inputs being in m.              *)
Tensor(G, m, x) ==
  LET ins    == G[x].ins
      node_op == G[x].op
      name(k)  == ins[k][1]
      arg(k)   == IF ins[k][2] = 1 THEN m[name(k)]
                  ELSE [m[name(k)] EXCEPT !.num = Mix(ins[k][2], @, ins[k][2])]
      args     == [k \in DOMAIN ins |-> arg(k)]
      shape(k) == IF name(k) \in DOMAIN item.shape THEN item.shape[name(k)]
                  ELSE "unknown"
      spread(k) == shape(k) \in {"scalar", "vector"}
      (* A batched product of matrices is that of the matrices. *)
      base   == Base(node_op.type)
      op     == IF base \in {"BatchMatMul", "BatchMatMulV2"}
                     /\ shape(1) = "matrix" /\ shape(2) = "matrix"
                THEN "MatMul" ELSE base
      data   == IF "EXPLICIT" \in node_op.flags
                THEN BinaryNumber("Pad", Value(arg(1)), node_op.value)
                ELSE Value(arg(1))
      contraction == Whole(BinaryNumber(op, data, Value(arg(2))), arg(2).dim)
      (* One fused op; next is the first input no op has taken yet. *)
      post(acc, o) ==
        IF o \in {"BiasAdd", "Add", "BinaryMul"}
        THEN [tensor |-> Pair(o, acc.tensor, arg(acc.next), shape(acc.next)),
              next |-> acc.next + 1]
        ELSE [acc EXCEPT !.tensor.num = UnaryNumber(o, @)]
      reshaped(t) == IF "is_reshape" \in node_op.flags
                     THEN [t EXCEPT !.form = ExpandDims] ELSE t
  IN  CASE ins = <<>> -> Whole(node_op.value, item.dim[x])
        [] op = "_FusedLayerNorm" ->
             Whole(LayerNormNumber(Value(arg(1)), arg(2).num, arg(3).num,
                                   node_op.value[1], node_op.value[2]),
                   arg(1).dim)
        [] op = "_ZenGroupEmbedding" -> GroupEmbeddingTensor(node_op, args)
        [] op = "_ZenSafeEmbeddingLookupSparse" -> SafeLookupTensor(node_op, args)
        [] node_op.fused # <<>> /\ op \in ContractionOps ->
             reshaped(FoldLeft(post, [tensor |-> contraction, next |-> 3],
                               node_op.fused).tensor)
        [] op \in ContractionOps -> contraction
        [] op = "Reshape" -> [arg(1) EXCEPT !.form = arg(2).num]
        [] op = "ConcatV2" -> Concatenation(SubSeq(args, 1, Len(args) - 1))
        [] op = "GatherV2" /\ IsFilter(G, x) -> arg(1)
        [] op \in {"Tile", "Slice", "StridedSlice", "Shape"} ->
             Whole(UnaryNumber(op, arg(1).num), 1)
        [] Len(ins) = 1 -> [arg(1) EXCEPT !.num = UnaryNumber(op, @)]
        [] Len(ins) = 2 /\ op \in Elementwise ->
             IF spread(1) /\ ~spread(2) /\ op # "Sub"
             THEN Pair(op, arg(2), arg(1), shape(1))
             ELSE Pair(op, arg(1), arg(2), shape(2))
        [] Len(ins) = 2 -> Whole(BinaryNumber(op, Value(arg(1)), Value(arg(2))), arg(1).dim)
        [] op = "Add" ->
             Whole(FoldLeftDomain(LAMBDA acc, k : Plus(acc, Value(arg(k))), 0, ins),
                   arg(1).dim)
        [] OTHER -> Whole(NaryNumber(op, [k \in DOMAIN ins |-> Value(arg(k))]),
                          arg(1).dim)

(* m, with the nodes added whose inputs it has, and so on.                 *)
RECURSIVE Grow(_, _)
Grow(G, m) ==
  LET ready == {x \in DOMAIN G \ DOMAIN m :
                  \A k \in DOMAIN G[x].ins : G[x].ins[k][1] \in DOMAIN m}
  IN  IF ready = {} THEN m ELSE Grow(G, [x \in ready |-> Tensor(G, m, x)] @@ m)

Meaning(G) == Grow(G, <<>>)

(* What must have run before each node.                                    *)
RECURSIVE GrowBefore(_, _)
GrowBefore(G, m) ==
  LET fanins(x) == {G[x].ins[k][1] : k \in DOMAIN G[x].ins} \cup G[x].ctl
      ready == {x \in DOMAIN G \ DOMAIN m : fanins(x) \subseteq DOMAIN m}
  IN  IF ready = {} THEN m
      ELSE GrowBefore(G, [x \in ready |->
                            fanins(x) \cup UNION {m[y] : y \in fanins(x)}] @@ m)

Before(G) == GrowBefore(G, <<>>)
=============================================================================
