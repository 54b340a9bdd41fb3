---------------------------- MODULE MatMulKernel ----------------------------
(***************************************************************************)
(* ZenMatMulOp (kernels/zendnn/zen_matmul_kernel.cc), the kernel of        *)
(* _ZenMatMul and _ZenFusedMatMul, and ZenEinsumOp (zen_einsum_kernel.cc), *)
(* which knows two equations, each a product of matrices.  A call has the  *)
(* shapes of the inputs a and b; a bias and an addend are as large as the  *)
(* output asks for, which the kernel does not look at.  A result is a      *)
(* status, the shape of the output and what its places hold; all types are *)
(* the same one.  A failed CHECK ends the process: Aborted.                *)
(***************************************************************************)
EXTENDS Broadcasting, ZenLibrary

Failed == [status |-> "error"]
Aborted == [status |-> "aborted"]
Returns(shape, output) == [status |-> "ok", shape |-> shape, output |-> output]

(* What allocate_output gives, with the places that were written.          *)
Allocated(shape, written) ==
  [o \in Upto(NumElements(shape)) \cup DOMAIN written |->
     IF o \in DOMAIN written THEN written[o] ELSE Uninitialized]

SetZero(shape) == [o \in Upto(NumElements(shape)) |-> Zero]

-----------------------------------------------------------------------------
(* What the constructors of the fused kernels accept: the lists of fused   *)
(* ops each has an implementation for, and the number of arguments beside  *)
(* the two inputs of the contraction (InitializeFusedComputation).  A      *)
(* FusedComputationType is named by its list of ops; those of a batch      *)
(* norm, which no kernel has, are left out.                                *)

kUndefined == <<>>

Activations == {"Relu", "Relu6", "Tanh", "Elu", "LeakyRelu", "Sigmoid", "Mish",
                "GeluApproximate", "GeluExact"}

WithABiasOnly == {<<"BiasAdd">>} \cup {<<"BiasAdd", a>> : a \in Activations}

(* The attributes of a node are all there but for the slope, which not     *)
(* every op has.                                                           *)
InitializeFusedComputation(node, patterns) ==
  /\ node.fused_ops \in patterns
  /\ node.fused_ops \in WithABiasOnly => node.num_args = 1
  /\ node.fused_ops = <<"BiasAdd", "LeakyRelu">> =>
       "leakyrelu_alpha" \in DOMAIN node

MatMulPatterns ==
  {<<"BiasAdd">>, <<"BiasAdd", "Add">>, <<"BiasAdd", "Add", "Relu">>, <<"Relu">>}
    \cup {<<"BiasAdd", a>> : a \in {"Relu", "Sigmoid", "Mish", "Tanh",
                                    "GeluExact", "GeluApproximate"}}

BatchMatMulPatterns ==
  {<<"BinaryMul">>, <<"BinaryMul", "Add">>, <<"BiasAdd", "Relu">>}

Conv2DPatterns ==
  {<<"BiasAdd">>, <<"BiasAdd", "Add">>, <<"BiasAdd", "Add", "Relu">>}
    \cup {<<"BiasAdd", a>> : a \in {"Relu", "Relu6", "LeakyRelu"}}

Has(fused_ops, op) == \E k \in DOMAIN fused_ops : fused_ops[k] = op

-----------------------------------------------------------------------------
ConstructsMatMul(node) ==
  node.is_fused => InitializeFusedComputation(node, MatMulPatterns)

(* The op after the product, for one of the fused ops.                     *)
ActivationOp(fused_op) ==
  CASE fused_op = "Relu" -> PostOp("relu")
    [] fused_op = "Sigmoid" -> PostOp("sigmoid")
    [] fused_op = "Mish" -> PostOp("mish")
    [] fused_op = "Tanh" -> PostOp("tanh")
    [] fused_op = "GeluApproximate" -> PostOp("gelu_tanh")
    [] fused_op = "GeluExact" -> PostOp("gelu_erf")

(* The switches on the fusion type are the same for both interfaces.       *)
MatMulPostOps(fusion_type, m, n) ==
  LET After == SelectSeq(fusion_type, LAMBDA f : f # "BiasAdd")
  IN  [k \in DOMAIN After |->
         IF After[k] = "Add" THEN BinaryAddOp(<<m, n>>) ELSE ActivationOp(After[k])]

(* What TryExecuteZenDNNLMatMul takes from the shapes.                     *)
Dimensions(node, a, b) ==
  [m |-> IF node.transpose_a THEN a[2] ELSE a[1],
   k |-> IF node.transpose_a THEN a[1] ELSE a[2],
   k_b |-> IF node.transpose_b THEN b[2] ELSE b[1],
   n |-> IF node.transpose_b THEN b[1] ELSE b[2],
   should_use_bias |-> node.fused_ops \notin {kUndefined, <<"Relu">>}]

MatMulDirect(node, d, weights) ==
  matmul_direct(
    [transpose_a |-> node.transpose_a, transpose_b |-> node.transpose_b,
     m |-> d.m, n |-> d.n, k |-> d.k,
     lda |-> IF node.transpose_a THEN d.m ELSE d.k,
     ldb |-> IF node.transpose_b THEN d.k ELSE d.n,
     ldc |-> d.n, Batch_A |-> 1, Batch_B |-> 1,
     batch_stride_src |-> 0, batch_stride_wei |-> 0, batch_stride_dst |-> 0,
     version |-> VersionUsed(weights, TRUE), scaled |-> FALSE,
     bias |-> d.should_use_bias,
     post |-> MatMulPostOps(node.fused_ops, d.m, d.n)])

MatMulOperator(node, d, weights) ==
  matmul_operator(
    [lhs |-> Matrices(1, d.m, d.k, node.transpose_a),
     rhs |-> Matrices(1, d.k, d.n, node.transpose_b),
     output |-> Matrices(1, d.m, d.n, FALSE),
     version |-> weights.version, scaled |-> FALSE,
     bias |-> d.should_use_bias,
     post |-> MatMulPostOps(node.fused_ops, d.m, d.n)])

(* fails: the library reports an error, or throws.                         *)
ComputeMatMul(node, call, use_direct_api, weights, fails) ==
  LET d == Dimensions(node, call.a, call.b)
      out_shape == IF node.is_reshape THEN <<1, d.m, d.n>> ELSE <<d.m, d.n>>
  IN  IF Len(call.a) # 2 \/ Len(call.b) # 2 THEN Failed
      ELSE IF d.k # d.k_b THEN Failed
      ELSE IF NumElements(out_shape) = 0 THEN Returns(out_shape, <<>>)
      ELSE IF NumElements(call.a) = 0 /\ NumElements(call.b) = 0
      THEN Returns(out_shape, IF node.is_fused THEN SetZero(out_shape)
                              ELSE Allocated(out_shape, <<>>))
      ELSE IF fails THEN Failed
      ELSE Returns(out_shape,
             Allocated(out_shape, IF use_direct_api THEN MatMulDirect(node, d, weights)
                                  ELSE MatMulOperator(node, d, weights)))

-----------------------------------------------------------------------------
(* Einsum.  An equation is the letters of both inputs and of the output.   *)

kMatMul == << <<"i", "j">>, <<"j", "k">>, <<"i", "k">> >>
kBatchMatMulBroadcast == << <<"a", "b", "c">>, <<"b", "c", "d">>, <<"a", "b", "d">> >>

(* The parameters of TryExecuteZenDNNLEinsumAsMatMul are those of a MatMul *)
(* that turns nothing over and fuses nothing.                              *)
Plain == [transpose_a |-> FALSE, transpose_b |-> FALSE, fused_ops |-> kUndefined]

EinsumAsMatMul(call, use_direct_api, weights) ==
  LET d == Dimensions(Plain, call.a, call.b)
  IN  IF use_direct_api THEN MatMulDirect(Plain, d, weights)
      ELSE MatMulOperator(Plain, d, weights)

(* One call for all rows a, a batch for each b: the rows of an input are   *)
(* as far apart as a whole slice of it.                                    *)
EinsumBatchDirect(a, b, c, d, weights) ==
  matmul_direct(
    [transpose_a |-> FALSE, transpose_b |-> FALSE, m |-> a, n |-> d, k |-> c,
     lda |-> b * c, ldb |-> d, ldc |-> b * d, Batch_A |-> b, Batch_B |-> b,
     batch_stride_src |-> c, batch_stride_wei |-> c * d, batch_stride_dst |-> d,
     version |-> VersionUsed(weights, TRUE), scaled |-> FALSE, bias |-> FALSE,
     post |-> <<>>])

(* A call for each a, on slices of the first input and of the output.      *)
EinsumBatchOperator(a, b, c, d, weights) ==
  LET slice == matmul_operator(
                 [lhs |-> Matrices(b, 1, c, FALSE), rhs |-> Matrices(b, c, d, FALSE),
                  output |-> Matrices(b, 1, d, FALSE), version |-> weights.version,
                  scaled |-> FALSE, bias |-> FALSE, post |-> <<>>])
      Moved(cell, by) == [cell EXCEPT !.products = {<<p[1] + by, p[2], p[3]>> : p \in @}]
  IN  [o \in Upto(a * b * d) |-> Moved(slice[o % (b * d)], (o \div (b * d)) * b * c)]

EinsumAsBatchMatMulBroadcast(call, use_direct_api, weights) ==
  IF use_direct_api
  THEN EinsumBatchDirect(call.a[1], call.a[2], call.a[3], call.b[3], weights)
  ELSE EinsumBatchOperator(call.a[1], call.a[2], call.a[3], call.b[3], weights)

(* What both patterns do around the product.                               *)
EinsumOf(call, out_shape, fails, product) ==
  IF NumElements(out_shape) = 0 THEN Returns(out_shape, <<>>)
  ELSE IF NumElements(call.a) = 0 \/ NumElements(call.b) = 0
  THEN Returns(out_shape, SetZero(out_shape))
  ELSE IF fails THEN Failed
  ELSE Returns(out_shape, Allocated(out_shape, product))

(* Any equation constructs a kernel.                                       *)
ComputeEinsum(node, call, use_direct_api, weights, fails) ==
  LET rank == CASE node.equation = kMatMul -> 2
                [] node.equation = kBatchMatMulBroadcast -> 3
                [] OTHER -> 0
  IN  IF rank = 0 \/ Len(call.a) # rank \/ Len(call.b) # rank THEN Failed
      ELSE IF rank = 2
      THEN IF call.a[2] # call.b[1] THEN Failed
           ELSE EinsumOf(call, <<call.a[1], call.b[2]>>, fails,
                         EinsumAsMatMul(call, use_direct_api, weights))
      ELSE IF call.a[2] # call.b[1] \/ call.a[3] # call.b[2] THEN Failed
           ELSE EinsumOf(call, <<call.a[1], call.a[2], call.b[3]>>, fails,
                         EinsumAsBatchMatMulBroadcast(call, use_direct_api, weights))

-----------------------------------------------------------------------------
(***************************************************************************)
(* ZenBatchMatMulOp (kernels/zendnn/zen_batch_matmul_kernel.cc), the       *)
(* kernel of _ZenBatchMatMul, _ZenBatchMatMulV2 (v2_bcast) and             *)
(* _ZenFusedBatchMatMulV2.  A call has the shapes of lhs and rhs and, as   *)
(* the fused ops ask for it, of mul and addend; a bias is as wide as the   *)
(* output.  Expanding an input to the rank of the output is left out: what *)
(* is multiplied has three dimensions by then, as the output does.         *)
(***************************************************************************)
ConstructsBatchMatMul(node) ==
  node.is_fused => InitializeFusedComputation(node, BatchMatMulPatterns)

Rows(shape) == shape[Len(shape) - 1]
Cols(shape) == shape[Len(shape)]

(* A batch of matrices is stored as it is whatever adj says.               *)
RowsOf(shape, adj) == IF adj THEN Cols(shape) ELSE Rows(shape)
ColsOf(shape, adj) == IF adj THEN Rows(shape) ELSE Cols(shape)

-----------------------------------------------------------------------------
(* Four dimensions as three.  The first two of three are those of a 4D     *)
(* tensor with one batch; of five the second would be the first again, and *)
(* no view of the tensor has that many places.                             *)

BatchDim0(shape) == IF Len(shape) = 4 THEN shape[1] ELSE 1
BatchDim1(shape) == IF Len(shape) = 4 THEN shape[2] ELSE shape[1]

BatchDimsAgree(lhs, rhs) ==
  /\ Compatible(BatchDim0(lhs), BatchDim0(rhs))
  /\ Compatible(BatchDim1(lhs), BatchDim1(rhs))

Collapsed(shape) ==
  <<BatchDim0(shape) * BatchDim1(shape), Rows(shape), Cols(shape)>>

NeedReshape(lhs, rhs) ==
  /\ Len(lhs) = 4 \/ Len(rhs) = 4
  /\ Len(lhs) >= 3 /\ Len(rhs) >= 3

(* CopyFrom makes a view of another shape with as many places.             *)
CopyFrom(shape, view) == NumElements(shape) = NumElements(view)

CollapsedOutput(lhs, rhs, out) ==
  << Larger(BatchDim0(lhs), BatchDim0(rhs)) * Larger(BatchDim1(lhs), BatchDim1(rhs)),
     Rows(out), Cols(out) >>

CanReshape(lhs, rhs, out, v2_bcast) ==
  /\ Len(lhs) = Len(rhs) \/ v2_bcast
  /\ BatchDimsAgree(lhs, rhs)
  /\ CopyFrom(lhs, Collapsed(lhs)) /\ CopyFrom(rhs, Collapsed(rhs))
  /\ CopyFrom(out, CollapsedOutput(lhs, rhs, out))

View(shape) == IF Len(shape) = 3 THEN shape ELSE Collapsed(shape)

-----------------------------------------------------------------------------
(* What the fused ops need of the other inputs.  The batches of an addend  *)
(* are compared with the first two dimensions of the output.               *)
TakesPostOps(node, call, out) ==
  /\ Has(node.fused_ops, "BinaryMul") => NumElements(call.mul) = 1
  /\ Has(node.fused_ops, "Add") =>
       Len(call.addend) = 4 /\ call.addend[1] * call.addend[2] = out[1] * out[2]

BatchMatMulPostOps(node, call) ==
  CASE Has(node.fused_ops, "Relu") -> << PostOp("relu") >>
    [] Has(node.fused_ops, "Add") ->
         << BinaryAddOp(<<call.addend[1] * call.addend[2],
                          call.addend[3], call.addend[4]>>) >>
    [] OTHER -> <<>>

BatchStride(batch, rows, cols) == IF batch = 1 THEN 0 ELSE rows * cols

(* Mutant: the right-hand side is taken for constant weights.              *)
RhsTakenForConstant == TRUE

(* is_weights_const.                                                       *)
RhsIsConstant == FALSE

BatchMatMulDirect(node, call, lhs, rhs, weights) ==
  LET m == RowsOf(lhs, node.adj_x)
      k == ColsOf(lhs, node.adj_x)
      n == ColsOf(rhs, node.adj_y)
  IN  matmul_direct(
        [transpose_a |-> node.adj_x, transpose_b |-> node.adj_y,
         m |-> m, n |-> n, k |-> k,
         lda |-> IF node.adj_x THEN m ELSE k,
         ldb |-> IF node.adj_y THEN k ELSE n,
         ldc |-> n, Batch_A |-> lhs[1], Batch_B |-> rhs[1],
         batch_stride_src |-> BatchStride(lhs[1], m, k),
         batch_stride_wei |-> BatchStride(rhs[1], k, n),
         batch_stride_dst |-> m * n,
         version |-> VersionUsed(weights, RhsIsConstant),
         scaled |-> Has(node.fused_ops, "BinaryMul"),
         bias |-> Has(node.fused_ops, "BiasAdd"),
         post |-> BatchMatMulPostOps(node, call)])

(* The output has as many batches as the left-hand side.                   *)
BatchMatMulOperator(node, call, lhs, rhs, weights) ==
  LET m == RowsOf(lhs, node.adj_x)
      k == ColsOf(lhs, node.adj_x)
      n == ColsOf(rhs, node.adj_y)
  IN  matmul_operator(
        [lhs |-> Matrices(lhs[1], m, k, node.adj_x),
         rhs |-> Matrices(rhs[1], k, n, node.adj_y),
         output |-> Matrices(lhs[1], m, n, FALSE),
         version |-> weights.version,
         scaled |-> Has(node.fused_ops, "BinaryMul"),
         bias |-> Has(node.fused_ops, "BiasAdd"),
         post |-> BatchMatMulPostOps(node, call)])

(* TryExecuteZenDNNLBatchMatmul, up to the library's own failures.         *)
CanExecute(node, call, out) ==
  LET lhs == call.lhs
      rhs == call.rhs
  IN  /\ IF NeedReshape(lhs, rhs) THEN CanReshape(lhs, rhs, out, node.v2_bcast)
         ELSE Len(lhs) = 3 /\ Len(rhs) = 3
      /\ ColsOf(lhs, node.adj_x) = RowsOf(rhs, node.adj_y)
      /\ MatMulBCast(View(lhs), View(rhs)).valid
      /\ TakesPostOps(node, call, out)

Execute(node, call, use_direct_api, weights) ==
  IF use_direct_api
  THEN BatchMatMulDirect(node, call, View(call.lhs), View(call.rhs), weights)
  ELSE BatchMatMulOperator(node, call, View(call.lhs), View(call.rhs), weights)

-----------------------------------------------------------------------------
DimsChecked(node, call) ==
  /\ IF node.v2_bcast THEN Len(call.lhs) >= 2 /\ Len(call.rhs) >= 2
     ELSE /\ Len(call.lhs) = Len(call.rhs)
          /\ Batches(call.lhs) = Batches(call.rhs)
  /\ Len(call.lhs) \in {3, 4}
  /\ MatMulBCast(call.lhs, call.rhs).valid

ComputeBatchMatMul(node, call, use_direct_api, weights, fails) ==
  LET out_shape == MatMulBCast(call.lhs, call.rhs).output_batch_shape
                     \o <<RowsOf(call.lhs, node.adj_x), ColsOf(call.rhs, node.adj_y)>>
  IN  IF ~DimsChecked(node, call) THEN Failed
      ELSE IF NumElements(out_shape) = 0 THEN Returns(out_shape, <<>>)
      ELSE IF NumElements(call.lhs) = 0 \/ NumElements(call.rhs) = 0
      THEN Returns(out_shape, SetZero(out_shape))
      ELSE IF ~CanExecute(node, call, out_shape) \/ fails THEN Failed
      ELSE Returns(out_shape,
                   Allocated(out_shape, Execute(node, call, use_direct_api, weights)))
=============================================================================
