----------------------------- MODULE RowKernels -----------------------------
(***************************************************************************)
(* The kernels that work on rows (kernels/zendnn): ZenSoftmaxOp,           *)
(* ZenFusedLayerNormOp, ZenFusedEmbeddingLookupSparseOp and                *)
(* ZenGroupEmbeddingOp.  Indices are values of a call, not only shapes.    *)
(* A product <<i, p, v>> stands for place p of a table, taken by entry i   *)
(* of a lookup or in table i of a group.                                   *)
(***************************************************************************)
EXTENDS ConvKernel, FiniteSets

CONSTANT kDirectGatherThreshold   \* 16

(* An output of zeros, with these places written.                          *)
ZeroedThen(shape, written) ==
  [o \in Upto(NumElements(shape)) \cup DOMAIN written |->
     IF o \in DOMAIN written THEN written[o] ELSE Zero]

SumOf(list) == FoldLeft(LAMBDA n, x : n + x, 0, list)
Before(list, k) == SumOf(SubSeq(list, 1, k - 1))

-----------------------------------------------------------------------------
ConstructsSoftmax(node) == node.data_format = FORMAT_NHWC

(* The library bounds the number of dimensions; no call here has so many.  *)
ComputeSoftmax(call, fails) ==
  IF Len(call.input) = 0 \/ fails THEN Failed
  ELSE Returns(call.input, Allocated(call.input, softmax_direct(call.input, -1)))

-----------------------------------------------------------------------------
ConstructsLayerNorm(node) == node.axes # <<>>

(* Batch and norm_size: the sizes of what is not reduced, and of what is.  *)
ComputeLayerNormFlatDims(dims, axes) ==
  LET reduced == {1 + IF axes[k] < 0 THEN Len(dims) + axes[k] ELSE axes[k] :
                    k \in DOMAIN axes}
      Sizes(in) == [k \in DOMAIN dims |-> IF (k \in reduced) = in THEN dims[k] ELSE 1]
  IN  [valid |-> reduced \subseteq DOMAIN dims,
       batch |-> NumElements(Sizes(FALSE)), norm_size |-> NumElements(Sizes(TRUE))]

ComputeLayerNorm(node, call, fails) ==
  LET flat == ComputeLayerNormFlatDims(call.input, node.axes)
  IN  IF \/ ~flat.valid \/ fails
         \/ {NumElements(call.gamma), NumElements(call.beta)} # {flat.norm_size}
      THEN Failed
      ELSE Returns(call.input, Allocated(call.input, normalization_direct(
             [batch |-> flat.batch, norm_size |-> flat.norm_size])))

-----------------------------------------------------------------------------
(* A sparse lookup.  A call has the sizes of the table, the rows its       *)
(* entries belong to (the first column of sp_indices), their values, the   *)
(* dense shape and the one before it was made a matrix.  That indices are  *)
(* a matrix and values a vector, which is checked, is their form here.     *)

LookupShape(node, call) ==
  IF node.has_adjust_shape
  THEN SubSeq(call.orig_dense_shape, 1, Len(call.orig_dense_shape) - 1)
         \o <<call.params[2]>>
  ELSE <<call.sp_dense_shape[1], call.params[2]>>

(* The entries that are accumulated.                                       *)
IsTaken(call, i) ==
  /\ call.sp_values[i] >= 0
  /\ call.segments[i] >= 0 /\ call.segments[i] < call.sp_dense_shape[1]
  /\ call.sp_values[i] < call.params[1]

Segment(call, segment) ==
  {i \in DOMAIN call.sp_values : IsTaken(call, i) /\ call.segments[i] = segment}

(* ParseCombiner: what is neither sum nor mean is the third.               *)
Combined(combiner, count) ==
  CASE combiner = "sum" -> <<>>
    [] combiner = "mean" -> << <<"mean", count>> >>
    [] OTHER -> << <<"sqrtn", count>> >>

LookupCell(node, call, segment, d) ==
  LET taken == Segment(call, segment)
      count == Cardinality(taken)
  IN  << segment * call.params[2] + d,
         Term({<<i, call.sp_values[i] * call.params[2] + d, 0>> : i \in taken}, FALSE, {},
              IF count = 0 THEN <<>> ELSE Combined(node.combiner, count)) >>

(* The output is filled with zeros, then accumulated into.                 *)
ComputeLookupSparse(node, call) ==
  LET out_shape == LookupShape(node, call)
      cells == {LookupCell(node, call, s, d) :
                  s \in Upto(call.sp_dense_shape[1]), d \in Upto(call.params[2])}
  IN  IF Len(call.params) # 2 \/ Len(call.sp_dense_shape) = 0 THEN Failed
      ELSE IF 0 \in {call.sp_dense_shape[1], call.params[2]}
      THEN Returns(out_shape, Allocated(out_shape, <<>>))
      ELSE IF call.sp_values = <<>> THEN Returns(out_shape, SetZero(out_shape))
      ELSE Returns(out_shape, ZeroedThen(out_shape, Filled(cells)))

-----------------------------------------------------------------------------
(* A group of gathers from several tables, side by side in each row, and   *)
(* an input passed through behind them.                                    *)

ConstructsGroup(node) ==
  /\ SumOf(node.gathers_per_table) = node.N
  /\ Len(node.gathers_per_table) = node.num_tables
  /\ node.num_passthrough \in {0, 1}
  /\ \A k \in DOMAIN node.fused_ops : node.fused_ops[k] \in {"SafeCastCheck", "Identity"}

OuterSize(dims, axis) == NumElements(SubSeq(dims, 1, axis))
InnerSize(dims, axis) == NumElements(SubSeq(dims, axis + 2, Len(dims)))

(* What Compute takes from its inputs.                                     *)
GroupLayout(node, call) ==
  LET first == call.tables[1]
      axis  == node.gather_axis + IF node.gather_axis < 0 THEN Len(first) ELSE 0
      inner == InnerSize(first, axis)
      feats == [j \in 1..node.N |-> Len(call.indices[j]) * inner]
  IN  [axis |-> axis, outer_size |-> OuterSize(first, axis), inner_size |-> inner,
       idx_counts |-> [j \in 1..node.N |-> Len(call.indices[j])],
       gather_col_offset |-> [j \in 1..node.N |-> Before(feats, j)],
       gather_row_features |-> SumOf(feats),
       pt_row_features |-> IF node.num_passthrough = 0 THEN 0
                           ELSE NumElements(SubSeq(call.passthrough, axis + 1,
                                                   Len(call.passthrough))),
       use_direct |-> \A j \in 1..node.N : feats[j] < kDirectGatherThreshold,
       table |-> [j \in 1..node.N |->
                    CHOOSE t \in 1..node.num_tables :
                      /\ Before(node.gathers_per_table, t) < j
                      /\ j <= Before(node.gathers_per_table, t + 1)]]

GroupAgrees(node, call) ==
  LET first == call.tables[1]
      p == GroupLayout(node, call)
  IN  /\ Len(first) >= 1
      /\ p.axis \in 0..Len(first) - 1
      /\ \A t \in 2..node.num_tables :
           /\ Len(call.tables[t]) = Len(first)
           /\ OuterSize(call.tables[t], p.axis) = p.outer_size
           /\ InnerSize(call.tables[t], p.axis) = p.inner_size
      /\ node.num_passthrough = 1 =>
           /\ Len(call.passthrough) = Len(first)
           /\ OuterSize(call.passthrough, p.axis) = p.outer_size

GatherDim(call, p, j) == call.tables[p.table[j]][p.axis + 1]

(* Only the loop of copies looks at the indices.                           *)
IndicesFit(node, call, p) ==
  \A j \in 1..node.N : \A n \in DOMAIN call.indices[j] :
    call.indices[j][n] >= 0 /\ call.indices[j][n] < GatherDim(call, p, j)

(* The cells of gather j in row o, from the places src of its table and    *)
(* dst of the output.                                                      *)
GatherRow(call, p, j, o) ==
  LET width == p.gather_row_features + p.pt_row_features
      src == o * GatherDim(call, p, j) * p.inner_size
      dst == o * width + p.gather_col_offset[j]
      Copied(n, k) ==
        << dst + n * p.inner_size + k,
           Term({<<p.table[j], src + call.indices[j][n + 1] * p.inner_size + k, 0>>},
                FALSE, {}, <<>>) >>
  IN  IF p.use_direct
      THEN {Copied(n, k) : n \in Upto(p.idx_counts[j]), k \in Upto(p.inner_size)}
      ELSE embedding_bag([table |-> p.table[j], src |-> src, dst |-> dst,
                          indices |-> call.indices[j], num_indices |-> p.idx_counts[j],
                          embedding_dim |-> p.inner_size])

PassthroughRow(p, o) ==
  {<< o * (p.gather_row_features + p.pt_row_features) + p.gather_row_features + k,
      Term({<<0, o * p.pt_row_features + k, 0>>}, FALSE, {}, <<>>) >> :
     k \in Upto(p.pt_row_features)}

(* ApplyPostOps: infinities of a bfloat16 become 0, in the whole output.   *)
GroupPostOps(node) ==
  IF node.T_output = "bfloat16"
  THEN LET casts == SelectSeq(node.fused_ops, LAMBDA f : f = "SafeCastCheck")
       IN  [k \in DOMAIN casts |-> <<"SafeCastCheck", 0>>]
  ELSE <<>>

ComputeGroup(node, call, fails) ==
  LET p == GroupLayout(node, call)
      out_shape == <<p.outer_size, p.gather_row_features + p.pt_row_features>>
      cells == Filled(UNION {GatherRow(call, p, j, o) :
                               j \in 1..node.N, o \in Upto(p.outer_size)}
                        \cup UNION {PassthroughRow(p, o) : o \in Upto(p.outer_size)})
      written == ZeroedThen(out_shape, cells)
  IN  IF ~GroupAgrees(node, call) THEN Failed
      ELSE IF NumElements(out_shape) = 0 THEN Returns(out_shape, <<>>)
      ELSE IF p.use_direct /\ ~IndicesFit(node, call, p) THEN Failed
      ELSE IF ~p.use_direct /\ fails THEN Failed
      ELSE Returns(out_shape, [o \in DOMAIN written |->
                                 [written[o] EXCEPT !.post = GroupPostOps(node)]])
=============================================================================
