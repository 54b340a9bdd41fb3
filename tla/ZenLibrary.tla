----------------------------- MODULE ZenLibrary -----------------------------
(***************************************************************************)
(* What the kernels use of the ZenDNN library, which is not part of the    *)
(* repository: two interfaces to its matrix product and one to each other  *)
(* op.  Each is given places in memory, sizes and strides and writes some  *)
(* places of an output.  The value of a place is a term: which places of   *)
(* the inputs are multiplied and summed, and of which version of the       *)
(* weights, whether that is scaled, which place of the bias is added, and  *)
(* what is done after that.                                                *)
(***************************************************************************)
EXTENDS Integers, SequencesExt

Term(products, scaled, bias, post) ==
  [products |-> products, scaled |-> scaled, bias |-> bias, post |-> post]

Zero == Term({}, FALSE, {}, <<>>)
Uninitialized == Term({}, FALSE, {}, << <<"Uninitialized", 0>> >>)

(* The output with these cells, pairs of a place and a value, written.     *)
Filled(cells) == [o \in {c[1] : c \in cells} |-> (CHOOSE c \in cells : c[1] = o)[2]]

Upto(n) == 0..n - 1

(* What an op after a product does, under the name TensorFlow has for it;  *)
(* a slope is in hundredths.                                               *)
PostOp(type) == [type |-> type]
LeakyReluOp(alpha) == [type |-> "leaky_relu", alpha |-> alpha]
ClipOp(low, high) == [type |-> "clip", low |-> low, high |-> high]
BinaryAddOp(dims) == [type |-> "binary_add", dims |-> dims]

Meaning(op, place) ==
  CASE op.type = "binary_add" -> <<"Add", place>>
    [] op.type = "leaky_relu" -> <<"LeakyRelu", op.alpha>>
    [] op.type = "clip" -> <<IF op.low = 0 /\ op.high = 6 THEN "Relu6" ELSE "Clip", 0>>
    [] op.type = "relu" -> <<"Relu", 0>>
    [] op.type = "sigmoid" -> <<"Sigmoid", 0>>
    [] op.type = "tanh" -> <<"Tanh", 0>>
    [] op.type = "mish" -> <<"Mish", 0>>
    [] op.type = "gelu_tanh" -> <<"GeluApproximate", 0>>
    [] op.type = "gelu_erf" -> <<"GeluExact", 0>>

(* Weights said to be constant are reordered once, and what was reordered  *)
(* is used from then on: weights has the version in memory, and the one    *)
(* that was reordered, 0 if there is none.                                 *)
VersionUsed(weights, is_weights_const) ==
  IF is_weights_const /\ weights.reordered # 0
  THEN weights.reordered ELSE weights.version

(* After a call: they may have been reordered, or dropped from a cache.    *)
Reorders(weights, is_weights_const) ==
  IF is_weights_const
  THEN {[weights EXCEPT !.reordered = v] : v \in {0, VersionUsed(weights, TRUE)}}
  ELSE {weights}

-----------------------------------------------------------------------------
(* lowoha::matmul_direct, of p.m by p.k times p.k by p.n.                  *)

(* The place of a tensor that is added, as large as the output of a batch. *)
AddedAt(dims, b, i, j) ==
  IF Len(dims) = 2 THEN i * dims[2] + j ELSE (b * dims[2] + i) * dims[3] + j

PostAt(post, b, i, j) ==
  [k \in DOMAIN post |->
     Meaning(post[k], IF post[k].type = "binary_add"
                      THEN AddedAt(post[k].dims, b, i, j) ELSE 0)]

LhsAt(p, b, i, q) ==
  b * p.batch_stride_src + IF p.transpose_a THEN q * p.lda + i ELSE i * p.lda + q

RhsAt(p, b, q, j) ==
  b * p.batch_stride_wei + IF p.transpose_b THEN j * p.ldb + q ELSE q * p.ldb + j

DirectCell(p, b, i, j) ==
  << b * p.batch_stride_dst + i * p.ldc + j,
     Term({<<LhsAt(p, b, i, q), RhsAt(p, b, q, j), p.version>> : q \in Upto(p.k)},
          p.scaled, IF p.bias THEN {j} ELSE {}, PostAt(p.post, b, i, j)) >>

matmul_direct(p) ==
  LET batches == IF p.Batch_A > p.Batch_B THEN p.Batch_A ELSE p.Batch_B
  IN  Filled({DirectCell(p, b, i, j) :
                b \in Upto(batches), i \in Upto(p.m), j \in Upto(p.n)})

-----------------------------------------------------------------------------
(* matmul_operator_t, of tensors with a batch, rows and columns, which may *)
(* be stored column by column.                                             *)

Matrices(batch, rows, cols, by_column) ==
  [batch |-> batch, rows |-> rows, cols |-> cols, by_column |-> by_column]

MatrixAt(t, b, i, j) ==
  (IF t.batch = 1 THEN 0 ELSE b) * t.rows * t.cols
    + IF t.by_column THEN j * t.rows + i ELSE i * t.cols + j

OperatorCell(p, b, i, j) ==
  << MatrixAt(p.output, b, i, j),
     Term({<<MatrixAt(p.lhs, b, i, q), MatrixAt(p.rhs, b, q, j), p.version>> :
             q \in Upto(p.lhs.cols)},
          p.scaled, IF p.bias THEN {j} ELSE {}, PostAt(p.post, b, i, j)) >>

matmul_operator(p) ==
  Filled({OperatorCell(p, b, i, j) :
            b \in Upto(p.output.batch), i \in Upto(p.output.rows),
            j \in Upto(p.output.cols)})

-----------------------------------------------------------------------------
(* lowoha::conv_direct, of images stored as batch, rows, columns, channels *)
(* and a filter stored as rows, columns, input channels, output channels.  *)

ImageAt(height, width, channels, n, h, w, c) ==
  ((n * height + h) * width + w) * channels + c

(* The channels of the input an output channel is made of.                 *)
InputChannels(p, c) ==
  IF p.is_depthwise THEN {c \div p.depth_multiplier} ELSE Upto(p.in_channels)

FilterAt(p, fh, fw, ic, c) ==
  LET channels == IF p.is_depthwise THEN p.depth_multiplier ELSE p.out_channels
  IN  ImageAt(p.filter_width, p.in_channels, channels, fh, fw, ic, c % channels)

(* A place of the filter and the one of the input below it, if any.        *)
Tap(p, h, w, fh, fw) ==
  [fh |-> fh, fw |-> fw, h |-> h * p.stride_h - p.pad_top + fh * p.dilation_h,
   w |-> w * p.stride_w - p.pad_left + fw * p.dilation_w]

Taps(p, h, w) ==
  {t \in {Tap(p, h, w, fh, fw) : fh \in Upto(p.filter_height),
                                 fw \in Upto(p.filter_width)} :
     t.h \in Upto(p.in_height) /\ t.w \in Upto(p.in_width)}

ConvProducts(p, n, h, w, c) ==
  {<< ImageAt(p.in_height, p.in_width, p.in_channels, n, t.h, t.w, ic),
      FilterAt(p, t.fh, t.fw, ic, c), p.version >> :
     t \in Taps(p, h, w), ic \in InputChannels(p, c)}

ConvCell(p, n, h, w, c) ==
  LET at == ImageAt(p.out_height, p.out_width, p.out_channels, n, h, w, c)
  IN  << at, Term(ConvProducts(p, n, h, w, c), FALSE, IF p.bias THEN {c} ELSE {},
                  [k \in DOMAIN p.post |-> Meaning(p.post[k], at)]) >>

conv_direct(p) ==
  Filled({ConvCell(p, n, h, w, c) :
            n \in Upto(p.batch), h \in Upto(p.out_height),
            w \in Upto(p.out_width), c \in Upto(p.out_channels)})

-----------------------------------------------------------------------------
(* What is made of several places of one input, all alike.                 *)

Together(places, name) == Term({<<p, 0, 0>> : p \in places}, FALSE, {}, << <<name, 0>> >>)

(* lowoha::pooling::pooling_direct, in the layout of a convolution; the    *)
(* average is of the places in the image (exclude_padding).                *)
PoolCell(p, n, h, w, c) ==
  << ImageAt(p.out_height, p.out_width, p.in_channels, n, h, w, c),
     Together({ImageAt(p.in_height, p.in_width, p.in_channels, n, t.h, t.w, c) :
                 t \in Taps(p, h, w)}, IF p.is_max_pooling THEN "Max" ELSE "Avg") >>

pooling_direct(p) ==
  Filled({PoolCell(p, n, h, w, c) :
            n \in Upto(p.batch), h \in Upto(p.out_height),
            w \in Upto(p.out_width), c \in Upto(p.in_channels)})

(* lowoha::softmax::softmax_direct, of a shape along an axis; -1 is the    *)
(* last one.                                                               *)
SoftmaxCell(dims, axis, o) ==
  LET k == IF axis < 0 THEN axis + Len(dims) + 1 ELSE axis + 1
      inner == FoldRight(LAMBDA d, n : d * n, SubSeq(dims, k + 1, Len(dims)), 1)
      start == o - ((o \div inner) % dims[k]) * inner
  IN  <<o, [Together({start + i * inner : i \in Upto(dims[k])}, "Softmax")
              EXCEPT !.bias = {o}]>>

softmax_direct(dims, axis) ==
  Filled({SoftmaxCell(dims, axis, o) :
            o \in Upto(FoldRight(LAMBDA d, n : d * n, dims, 1))})

(* lowoha::normalization::normalization_direct of LAYER_NORM: norm_size    *)
(* places in a row at a time, each with its place of gamma and beta.       *)
normalization_direct(p) ==
  Filled({<< b * p.norm_size + i,
             [Together({b * p.norm_size + q : q \in Upto(p.norm_size)}, "LayerNorm")
                EXCEPT !.bias = {<<b * p.norm_size + i, i>>}] >> :
            b \in Upto(p.batch), i \in Upto(p.norm_size)})

(* lowoha::embag::group_embedding_bag_direct of bags without offsets: one  *)
(* row of the table for each index, in order.                              *)
embedding_bag(p) ==
  {<< p.dst + n * p.embedding_dim + k,
      Term({<<p.table, p.src + p.indices[n + 1] * p.embedding_dim + k, 0>>},
           FALSE, {}, <<>>) >> :
     n \in Upto(p.num_indices), k \in Upto(p.embedding_dim)}
=============================================================================
