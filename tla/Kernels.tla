------------------------------ MODULE Kernels ------------------------------
(***************************************************************************)
(* A node that has a kernel of this plugin: it is constructed once and     *)
(* computes as often as it is called, with inputs of any shape and, of     *)
(* some nodes, another right-hand side each time.  The library may fail.   *)
(* The second half says what TensorFlow's ops mean, index by index, and    *)
(* compares.                                                               *)
(***************************************************************************)
EXTENDS MatMulKernel, RowKernels

CONSTANTS
  Items,        \* nodes: an op, attributes, calls, the interfaces called, and
                \* how many versions of the right-hand side there are
  FailingOps    \* ops for which the library may fail

MatMulOps == {"_ZenMatMul", "_ZenFusedMatMul"}
BatchMatMulOps == {"_ZenBatchMatMul", "_ZenBatchMatMulV2", "_ZenFusedBatchMatMulV2"}
ConvOps == {"_ZenConv2D", "_ZenFusedConv2D", "_ZenDepthwiseConv2dNative",
            "_ZenFusedDepthwiseConv2dNative"}
PoolOps == {"_ZenMaxPool", "_ZenAvgPool"}

ASSUME ItemsAreOfKernels ==
  \A i \in Items : i.op \in MatMulOps \cup BatchMatMulOps \cup ConvOps \cup PoolOps
     \cup {"_ZenEinsum", "_ZenSoftmax", "_ZenFusedLayerNorm",
           "_ZenSafeEmbeddingLookupSparse", "_ZenGroupEmbedding"}

(* Shapes are of sizes. *)
ASSUME SizesAreNatural ==
  \A i \in Items : i.op \in BatchMatMulOps =>
    \A c \in i.calls : c.lhs \in Seq(Nat) /\ c.rhs \in Seq(Nat)

VARIABLES
  item,     \* the node
  status,   \* "new", "unusable", "ready", and after a call "ok", "error" or,
            \* where a CHECK fails, "aborted"
  call,     \* the last call: inputs, interface, whether the library failed
  shape,    \* the shape of the output
  output,   \* and what its places hold
  weights   \* the version of the right-hand side, the one the library reordered

vars == <<item, status, call, shape, output, weights>>

Nothing == [inputs |-> <<>>, use_direct_api |-> FALSE, fails |-> FALSE]

Init ==
  /\ item \in Items
  /\ status = "new"
  /\ call = Nothing /\ shape = <<>> /\ output = <<>>
  /\ weights = [version |-> 1, reordered |-> 0]

Constructs ==
  \/ item.op \in MatMulOps /\ ConstructsMatMul(item.node)
  \/ item.op \in BatchMatMulOps /\ ConstructsBatchMatMul(item.node)
  \/ item.op \in ConvOps /\ ConstructsConv2D(item.node)
  \/ item.op \in PoolOps /\ ConstructsPool(item.node)
  \/ item.op = "_ZenSoftmax" /\ ConstructsSoftmax(item.node)
  \/ item.op = "_ZenFusedLayerNorm" /\ ConstructsLayerNorm(item.node)
  \/ item.op = "_ZenGroupEmbedding" /\ ConstructsGroup(item.node)
  \/ item.op \in {"_ZenEinsum", "_ZenSafeEmbeddingLookupSparse"}

Construct ==
  /\ status = "new"
  /\ status' = IF Constructs THEN "ready" ELSE "unusable"
  /\ UNCHANGED <<item, call, shape, output, weights>>

(* A call c, with result r; is_weights_const goes with it to the library.  *)
Called(c, r, is_weights_const) ==
  /\ status' = r.status
  /\ call' = c
  /\ IF r.status = "ok"
     THEN /\ shape' = r.shape /\ output' = r.output
          /\ weights' \in Reorders(weights, is_weights_const /\ r.output # <<>>)
     ELSE UNCHANGED <<shape, output, weights>>
  /\ UNCHANGED item

Calls == [inputs : item.calls, use_direct_api : item.apis,
          fails : IF item.op \in FailingOps THEN BOOLEAN ELSE {FALSE}]

IsReady(ops) == status = "ready" /\ item.op \in ops

MatMulCompute ==
  /\ IsReady(MatMulOps)
  /\ \E c \in Calls :
       Called(c, ComputeMatMul(item.node, c.inputs, c.use_direct_api, weights, c.fails),
              c.use_direct_api)

EinsumCompute ==
  /\ IsReady({"_ZenEinsum"})
  /\ \E c \in Calls :
       Called(c, ComputeEinsum(item.node, c.inputs, c.use_direct_api, weights, c.fails),
              c.use_direct_api)

BatchMatMulCompute ==
  /\ IsReady(BatchMatMulOps)
  /\ \E c \in Calls :
       Called(c, ComputeBatchMatMul(item.node, c.inputs, c.use_direct_api, weights, c.fails),
              c.use_direct_api /\ RhsIsConstant)

Conv2DCompute ==
  /\ IsReady(ConvOps)
  /\ \E c \in Calls : \E r \in ComputeConv2D(item.node, c.inputs, weights, c.fails) :
       Called(c, r, TRUE)

PoolCompute ==
  /\ IsReady(PoolOps)
  /\ \E c \in Calls : Called(c, ComputePool(item.node, c.inputs, c.fails), FALSE)

SoftmaxCompute ==
  /\ IsReady({"_ZenSoftmax"})
  /\ \E c \in Calls : Called(c, ComputeSoftmax(c.inputs, c.fails), FALSE)

LayerNormCompute ==
  /\ IsReady({"_ZenFusedLayerNorm"})
  /\ \E c \in Calls : Called(c, ComputeLayerNorm(item.node, c.inputs, c.fails), FALSE)

LookupSparseCompute ==
  /\ IsReady({"_ZenSafeEmbeddingLookupSparse"})
  /\ \E c \in Calls : Called(c, ComputeLookupSparse(item.node, c.inputs), FALSE)

GroupEmbeddingCompute ==
  /\ IsReady({"_ZenGroupEmbedding"})
  /\ \E c \in Calls : Called(c, ComputeGroup(item.node, c.inputs, c.fails), FALSE)

(* The output is read and given back; the next call may have another       *)
(* right-hand side.                                                        *)
NextStep ==
  /\ status \in {"ok", "error"}
  /\ status' = "ready" /\ call' = Nothing /\ shape' = <<>> /\ output' = <<>>
  /\ \E v \in weights.version..item.versions :
       weights' = [weights EXCEPT !.version = v]
  /\ UNCHANGED item

Next ==
  \/ Construct \/ NextStep
  \/ MatMulCompute \/ EinsumCompute \/ BatchMatMulCompute \/ Conv2DCompute
  \/ PoolCompute \/ SoftmaxCompute \/ LayerNormCompute
  \/ LookupSparseCompute \/ GroupEmbeddingCompute

Spec == Init /\ [][Next]_vars

-----------------------------------------------------------------------------
(* What the ops mean.                                                      *)

(* Where a tensor has an index, rows first.                                *)
Further(p, d, i) == [at |-> p.at + i * p.size, size |-> p.size * d]

Place(dims, index) ==
  LET rank == Len(dims)
      Inner[k \in 0..rank] ==
        IF k = 0 THEN [at |-> 0, size |-> 1]
        ELSE Further(Inner[k - 1], dims[rank - k + 1], index[rank - k + 1])
  IN  Inner[rank].at

Longer(S, d) == {Append(x, i) : x \in S, i \in Upto(d)}

Indices(dims) ==
  LET Outer[k \in 0..Len(dims)] ==
        IF k = 0 THEN {<<>>} ELSE Longer(Outer[k - 1], dims[k])
  IN  Outer[Len(dims)]

(* Broadcasting: shapes are compared from the last dimension on, and of a  *)
(* dimension of 1 there is only index 0.                                   *)
Aligned(dims, rank) == [k \in 1..rank |-> LET j == k - rank + Len(dims)
                                          IN IF j > 0 THEN dims[j] ELSE 1]

Rank(x, y) == IF Len(x) > Len(y) THEN Len(x) ELSE Len(y)

Broadcasts(x, y) ==
  LET r == Rank(x, y)
  IN  \A k \in 1..r : \/ Aligned(x, r)[k] = Aligned(y, r)[k]
                      \/ 1 \in {Aligned(x, r)[k], Aligned(y, r)[k]}

BroadcastShape(x, y) ==
  LET r == Rank(x, y)
  IN  [k \in 1..r |-> IF Aligned(x, r)[k] = 1 THEN Aligned(y, r)[k]
                      ELSE Aligned(x, r)[k]]

IndexOf(dims, index) ==
  [k \in DOMAIN dims |-> IF dims[k] = 1 THEN 0
                         ELSE index[k + Len(index) - Len(dims)]]

(* What follows the product, at a place of the output.                     *)
Follows(node, at) ==
  LET After == SelectSeq(node.fused_ops, LAMBDA f : f \notin {"BiasAdd", "BinaryMul"})
  IN  [k \in DOMAIN After |->
         << After[k], CASE After[k] = "Add" -> at
                        [] After[k] = "LeakyRelu" -> node.leakyrelu_alpha
                        [] OTHER -> 0 >>]

Value(node, products, at, column) ==
  Term({<<p[1], p[2], weights.version>> : p \in products},
       Has(node.fused_ops, "BinaryMul"),
       IF Has(node.fused_ops, "BiasAdd") THEN {column} ELSE {}, Follows(node, at))

-----------------------------------------------------------------------------
(* A product of matrices, or of batches of them: x times y, turned over as *)
(* tx and ty say.                                                          *)

BatchOf(dims) == SubSeq(dims, 1, Len(dims) - 2)
RowIndex(dims, t) == Len(dims) - IF t THEN 0 ELSE 1
ColIndex(dims, t) == Len(dims) - IF t THEN 1 ELSE 0

ValidProduct(x, y, tx, ty) ==
  /\ Len(x) >= 2 /\ Len(y) >= 2
  /\ x[ColIndex(x, tx)] = y[RowIndex(y, ty)]
  /\ Broadcasts(BatchOf(x), BatchOf(y))

ProductShape(x, y, tx, ty) ==
  BroadcastShape(BatchOf(x), BatchOf(y)) \o <<x[RowIndex(x, tx)], y[ColIndex(y, ty)]>>

MatrixPlace(dims, t, batch, i, j) ==
  Place(dims, IndexOf(BatchOf(dims), batch) \o IF t THEN <<j, i>> ELSE <<i, j>>)

ProductAt(node, x, y, tx, ty, index) ==
  LET r == Len(index)
      b == BatchOf(index)
  IN  Value(node,
            {<< MatrixPlace(x, tx, b, index[r - 1], q),
                MatrixPlace(y, ty, b, q, index[r]) >> : q \in Upto(x[ColIndex(x, tx)])},
            Place(ProductShape(x, y, tx, ty), index), index[r])

-----------------------------------------------------------------------------
(* A convolution: along one dimension, the windows of the filter that lie  *)
(* in the padded input.                                                    *)

Extent(node, filter, k) == (filter - 1) * node.dilations[k] + 1

(* With SAME there is an output for each stride into the input, and as     *)
(* much padding as the last one needs, the odd place of it behind.         *)
Windows(node, input, filter, k) ==
  LET stride == node.strides[k]
      extent == Extent(node, filter, k)
      starts == {o \in Upto(input) : o % stride = 0}
      last   == CHOOSE o \in starts \cup {0} : \A p \in starts : p <= o
      lack   == Larger(0, last + extent - input)
      before == CASE node.padding = "SAME" -> lack \div 2
                  [] node.padding = "VALID" -> 0
                  [] OTHER -> node.explicit_paddings[2 * k - 1]
      after  == CASE node.padding = "SAME" -> lack - lack \div 2
                  [] node.padding = "VALID" -> 0
                  [] OTHER -> node.explicit_paddings[2 * k]
  IN  [before |-> before,
       outputs |-> {o \in Upto(input + before + after) :
                      o * stride + extent <= input + before + after}]

ConvWindows(node, c) ==
  << Windows(node, c.input[2], c.filter[1], 2), Windows(node, c.input[3], c.filter[2], 3) >>

ValidConv(node, c) ==
  /\ Len(c.filter) = 4
  /\ c.input[4] = c.filter[3]

ConvShape(node, c) ==
  << c.input[1], Cardinality(ConvWindows(node, c)[1].outputs),
     Cardinality(ConvWindows(node, c)[2].outputs),
     IF node.is_depthwise THEN c.filter[3] * c.filter[4] ELSE c.filter[4] >>

(* The place of the input, from its start without padding.                 *)
Under(node, windows, o, f, k) ==
  o * node.strides[k] + f * node.dilations[k] - windows.before

(* An output channel of a depthwise convolution has one input channel.     *)
ConvProductsAt(node, c, index) ==
  LET rows == ConvWindows(node, c)[1]
      cols == ConvWindows(node, c)[2]
      per  == c.filter[4]
      At(f) == <<index[1], Under(node, rows, index[2], f[1], 2),
                 Under(node, cols, index[3], f[2], 3), f[3]>>
      In(f) == At(f)[2] \in Upto(c.input[2]) /\ At(f)[3] \in Upto(c.input[3])
      Of(f) == IF node.is_depthwise THEN f[3] * per + f[4] = index[4]
               ELSE f[4] = index[4]
  IN  {<<Place(c.input, At(f)), Place(c.filter, f)>> :
         f \in {g \in Indices(c.filter) : Of(g) /\ In(g)}}

ConvAt(node, c, index) ==
  Value(node, ConvProductsAt(node, c, index), Place(ConvShape(node, c), index), index[4])

-----------------------------------------------------------------------------
(* An Einsum sums over the letters the output has not, and pooling and     *)
(* softmax, layer normalization and gathers work on places of one input.   *)

Letters(equation) == ToSet(equation[1]) \cup ToSet(equation[2])

ValidEinsum(node, c) ==
  /\ Len(c.a) = Len(node.equation[1]) /\ Len(c.b) = Len(node.equation[2])
  /\ \A k \in DOMAIN c.a, l \in DOMAIN c.b :
       node.equation[1][k] = node.equation[2][l] => c.a[k] = c.b[l]

SizeOf(node, c, letter) ==
  LET on_a == {k \in DOMAIN c.a : node.equation[1][k] = letter}
  IN  IF on_a # {} THEN c.a[CHOOSE k \in on_a : TRUE]
      ELSE c.b[CHOOSE l \in DOMAIN c.b : node.equation[2][l] = letter]

EinsumShape(node, c) ==
  [k \in DOMAIN node.equation[3] |-> SizeOf(node, c, node.equation[3][k])]

EinsumAt(node, c, index) ==
  LET out == node.equation[3]
      summed == SetToSeq(Letters(node.equation) \ ToSet(out))
      At(s, letters) ==
        [k \in DOMAIN letters |->
           IF letters[k] \in ToSet(out)
           THEN index[CHOOSE q \in DOMAIN out : out[q] = letters[k]]
           ELSE s[CHOOSE q \in DOMAIN summed : summed[q] = letters[k]]]
  IN  Term({<< Place(c.a, At(s, node.equation[1])), Place(c.b, At(s, node.equation[2])),
               weights.version >> :
              s \in Indices([q \in DOMAIN summed |-> SizeOf(node, c, summed[q])])},
           FALSE, {}, <<>>)

PoolWindows(node, c) ==
  LET n == [strides |-> node.strides, dilations |-> <<1, 1, 1, 1>>,
            padding |-> node.padding, explicit_paddings |-> node.explicit_paddings]
  IN  << Windows(n, c.input[2], node.ksize[2], 2), Windows(n, c.input[3], node.ksize[3], 3) >>

(* Along rows and columns, not the depth.                                  *)
ValidPool(node, c) ==
  /\ Len(c.input) = 4 /\ node.data_format = FORMAT_NHWC
  /\ node.ksize[1] = 1 /\ node.ksize[4] = 1
  /\ \A k \in {2, 3} : node.strides[k] > 0

PoolShape(node, c) ==
  << c.input[1], Cardinality(PoolWindows(node, c)[1].outputs),
     Cardinality(PoolWindows(node, c)[2].outputs), c.input[4] >>

PoolAt(node, c, index) ==
  LET w == PoolWindows(node, c)
      Row(f) == index[2] * node.strides[2] + f - w[1].before
      Col(f) == index[3] * node.strides[3] + f - w[2].before
  IN  Together({Place(c.input, <<index[1], Row(f[1]), Col(f[2]), index[4]>>) :
                  f \in {x \in Upto(node.ksize[2]) \X Upto(node.ksize[3]) :
                               Row(x[1]) \in Upto(c.input[2]) /\ Col(x[2]) \in Upto(c.input[3])}},
               IF node.is_maxpool THEN "Max" ELSE "Avg")

(* The places that differ from one only along these dimensions.            *)
Along(dims, index, varying) ==
  {Place(dims, x) : x \in {y \in Indices(dims) :
                             \A k \in DOMAIN dims \ varying : y[k] = index[k]}}

SoftmaxAt(c, index) ==
  [Together(Along(c.input, index, {Len(c.input)}), "Softmax")
     EXCEPT !.bias = {Place(c.input, index)}]

NormAxes(node, c) ==
  {k \in DOMAIN c.input : \E i \in DOMAIN node.axes :
                            node.axes[i] \in {k - 1, k - 1 - Len(c.input)}}

ValidLayerNorm(node, c) ==
  LET sizes == [k \in DOMAIN c.input |->
                  IF k \in NormAxes(node, c) THEN c.input[k] ELSE 1]
  IN  /\ \A i \in DOMAIN node.axes : node.axes[i] \in -Len(c.input)..Len(c.input) - 1
      /\ \A g \in {c.gamma, c.beta} :
           Cardinality(Indices(g)) = Cardinality(Indices(sizes))

LayerNormAt(node, c, index) ==
  LET axes == NormAxes(node, c)
      Only(s, other) == [k \in DOMAIN s |-> IF k \in axes THEN s[k] ELSE other]
      at == Place(c.input, index)
  IN  [Together(Along(c.input, index, axes), "LayerNorm")
         EXCEPT !.bias = {<<at, Place(Only(c.input, 1), Only(index, 0))>>}]

-----------------------------------------------------------------------------
(* A sparse lookup takes for each row the entries of that row that are not *)
(* negative; a row without any is zero.                                    *)

ValidLookup(node, c) ==
  /\ Len(c.params) = 2 /\ c.sp_dense_shape # <<>>
  /\ \A i \in DOMAIN c.sp_values : c.sp_values[i] < c.params[1]

RowOf(node, c, index) ==
  Place(SubSeq(LookupShape(node, c), 1, Len(index) - 1), SubSeq(index, 1, Len(index) - 1))

LookupAt(node, c, index) ==
  LET mine == {i \in DOMAIN c.sp_values :
                 c.segments[i] = RowOf(node, c, index) /\ c.sp_values[i] >= 0}
  IN  IF mine = {} THEN Zero
      ELSE Term({<<i, Place(c.params, <<c.sp_values[i], index[Len(index)]>>), 0>> : i \in mine},
                FALSE, {},
                IF node.combiner = "sum" THEN <<>>
                ELSE << <<node.combiner, Cardinality(mine)>> >>)

(* A row of a concatenation of gathers, one after the other; the post ops  *)
(* are those of the gathers.                                               *)
ValidGroup(node, c) ==
  /\ GroupAgrees(node, c) /\ IndicesFit(node, c, GroupLayout(node, c))
  /\ \A t \in DOMAIN c.tables : Len(c.tables[t]) = Len(c.tables[1])

Listed(node) ==
  FoldLeft(\o, <<>>, [t \in 1..node.num_tables |->
                        [g \in 1..node.gathers_per_table[t] |-> t]])

SliceOf(table, dims, axis, outer, n) ==
  LET inner == SetToSortSeq({Place(dims, x) : x \in
                               {y \in Indices(dims) :
                                  y[axis] = n /\ Place(SubSeq(dims, 1, axis - 1),
                                                       SubSeq(y, 1, axis - 1)) = outer}},
                            <)
  IN  [k \in DOMAIN inner |-> <<table, inner[k], 0>>]

GroupRow(node, c, outer) ==
  LET axis == (IF node.gather_axis < 0 THEN node.gather_axis + Len(c.tables[1])
               ELSE node.gather_axis) + 1
      table == Listed(node)
      gathered(j) == FoldLeft(LAMBDA r, n : r \o SliceOf(table[j], c.tables[table[j]], axis,
                                                         outer, n),
                              <<>>, c.indices[j])
      all == FoldLeft(\o, <<>>, [j \in 1..node.N |-> gathered(j)])
      behind == IF node.num_passthrough = 0 THEN <<>>
                ELSE FoldLeft(LAMBDA r, n : r \o SliceOf(0, c.passthrough, axis, outer, n - 1),
                              <<>>, [n \in 1..c.passthrough[axis] |-> n])
  IN  [k \in DOMAIN (all \o behind) |->
         Term({(all \o behind)[k]}, FALSE, {},
              LET ops == SelectSeq(node.fused_ops,
                                   LAMBDA f : k <= Len(all) /\ f # "Identity")
              IN  [q \in DOMAIN ops |-> <<ops[q], 0>>])]

GroupShape(node, c) ==
  << GroupLayout(node, c).outer_size, Len(GroupRow(node, c, 0)) >>

GroupAt(node, c, index) == GroupRow(node, c, index[1])[index[2] + 1]

-----------------------------------------------------------------------------
(* The last call and what it should have given.                            *)

IsConv == item.op \in ConvOps
IsBatch == item.op \in BatchMatMulOps

Lhs == IF IsBatch THEN call.inputs.lhs ELSE call.inputs.a
Rhs == IF IsBatch THEN call.inputs.rhs ELSE call.inputs.b
TurnLhs == IF IsBatch THEN item.node.adj_x ELSE item.node.transpose_a
TurnRhs == IF IsBatch THEN item.node.adj_y ELSE item.node.transpose_b

ValidMatMul ==
  /\ ValidProduct(Lhs, Rhs, TurnLhs, TurnRhs)
  /\ ~IsBatch => Len(Lhs) = 2 /\ Len(Rhs) = 2
  /\ item.op = "_ZenBatchMatMul" => BatchOf(Lhs) = BatchOf(Rhs)

Valid ==
  CASE IsConv -> ValidConv(item.node, call.inputs)
    [] item.op \in PoolOps -> ValidPool(item.node, call.inputs)
    [] item.op = "_ZenEinsum" -> ValidEinsum(item.node, call.inputs)
    [] item.op = "_ZenSoftmax" -> call.inputs.input # <<>>
    [] item.op = "_ZenFusedLayerNorm" -> ValidLayerNorm(item.node, call.inputs)
    [] item.op = "_ZenSafeEmbeddingLookupSparse" -> ValidLookup(item.node, call.inputs)
    [] item.op = "_ZenGroupEmbedding" -> ValidGroup(item.node, call.inputs)
    [] OTHER -> ValidMatMul

(* A product of matrices may be given the shape a Reshape after it had.    *)
MeantShape ==
  CASE IsConv -> ConvShape(item.node, call.inputs)
    [] item.op \in PoolOps -> PoolShape(item.node, call.inputs)
    [] item.op = "_ZenEinsum" -> EinsumShape(item.node, call.inputs)
    [] item.op \in {"_ZenSoftmax", "_ZenFusedLayerNorm"} -> call.inputs.input
    [] item.op = "_ZenSafeEmbeddingLookupSparse" -> LookupShape(item.node, call.inputs)
    [] item.op = "_ZenGroupEmbedding" -> GroupShape(item.node, call.inputs)
    [] OTHER -> ProductShape(Lhs, Rhs, TurnLhs, TurnRhs)

Reshaped == item.op \in MatMulOps /\ item.node.is_reshape

MeantAt(index) ==
  CASE IsConv -> ConvAt(item.node, call.inputs, index)
    [] item.op \in PoolOps -> PoolAt(item.node, call.inputs, index)
    [] item.op = "_ZenEinsum" -> EinsumAt(item.node, call.inputs, index)
    [] item.op = "_ZenSoftmax" -> SoftmaxAt(call.inputs, index)
    [] item.op = "_ZenFusedLayerNorm" -> LayerNormAt(item.node, call.inputs, index)
    [] item.op = "_ZenSafeEmbeddingLookupSparse" -> LookupAt(item.node, call.inputs, index)
    [] item.op = "_ZenGroupEmbedding" -> GroupAt(item.node, call.inputs, index)
    [] OTHER -> ProductAt(item.node, Lhs, Rhs, TurnLhs, TurnRhs, index)

Answered == status \in {"ok", "error", "aborted"}

(* A kernel that returns without an error was given inputs its op is       *)
(* defined for, and has written every place of the output, none beside it, *)
(* with the value the op has there: of the right elements, of the bias and *)
(* the addend in that place, and of the right-hand side of this call, not  *)
(* of one the library kept (Compute of the kernels in kernels/zendnn).     *)
Computes ==
  status = "ok" =>
    /\ Valid
    /\ shape = (IF Reshaped THEN call.inputs.reshape ELSE MeantShape)
    /\ DOMAIN output = Upto(Cardinality(Indices(MeantShape)))
    /\ \A index \in Indices(MeantShape) :
         output[Place(MeantShape, index)] = MeantAt(index)

(* What the kernels refuse though their op has a meaning for it:           *)
(* batches of products of other than three or four dimensions, a scale     *)
(* that is not one number, and an addend that is not as large as an output *)
(* of four dimensions; windows larger than the image, and padding of a     *)
(* pool that is given; and other equations.                                *)
Unsupported ==
  \/ /\ IsBatch
     /\ \/ {Len(Lhs), Len(Rhs)} \ {3, 4} # {}
        \/ Has(item.node.fused_ops, "BinaryMul") /\ Len(call.inputs.mul) > 0
        \/ /\ Has(item.node.fused_ops, "Add")
           /\ call.inputs.addend # MeantShape \/ Len(MeantShape) # 4
  \/ IsConv /\ \E w \in {1, 2} : ConvWindows(item.node, call.inputs)[w].outputs = {}
  \/ /\ item.op \in PoolOps
     /\ \/ item.node.padding = "EXPLICIT"
        \/ \E w \in {1, 2} : PoolWindows(item.node, call.inputs)[w].outputs = {}
  \/ item.op = "_ZenEinsum" /\ item.node.equation \notin {kMatMul, kBatchMatMulBroadcast}

(* Inputs the op is defined for are refused, by an error or by ending the  *)
(* process, only if the library fails or the kernels of the plugin do not  *)
(* support them.                                                           *)
AcceptsValid ==
  status \in {"error", "aborted"} => call.fails \/ ~Valid \/ Unsupported

(* Batches broadcast as NumPy has it: MatMulBCast accepts what agrees from *)
(* the last dimension on, and lists for each batch of the output the batch *)
(* of either input it is made of (util/matmul_bcast.h, util/bcast.h).      *)
BatchesBroadcast ==
  Answered /\ IsBatch /\ Len(Lhs) >= 2 /\ Len(Rhs) >= 2 =>
    LET x == BatchOf(Lhs)
        y == BatchOf(Rhs)
        b == MatMulBCast(Lhs, Rhs)
        out == BroadcastShape(x, y)
        BatchIs(listed, dims, index) ==
          Place(dims, IndexOf(dims, index)) =
            IF b.broadcasting_required THEN listed[Place(out, index) + 1]
            ELSE Place(out, index)
    IN  /\ b.valid <=> Broadcasts(x, y)
        /\ b.valid =>
             /\ b.output_batch_shape = out
             /\ \A index \in Indices(out) : /\ BatchIs(b.x_batch_indices, x, index)
                                            /\ BatchIs(b.y_batch_indices, y, index)
=============================================================================
