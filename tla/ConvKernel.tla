----------------------------- MODULE ConvKernel -----------------------------
(***************************************************************************)
(* ZenConv2DOp and ZenFusedConv2DOp (kernels/zendnn/zen_conv2d_kernel.cc,  *)
(* zen_conv2d_fused_kernel.cc), with ConvUtil; ZenPoolOp (zen_pool_kernel  *)
(* .cc) with PoolParameters (pooling_ops_common.cc); and what they use of  *)
(* util/tensor_format.h, util/padding.cc and util/common_shape_fns.cc.     *)
(* The order of the dimensions of a tensor is the sequence of the letters  *)
(* TensorFlow has for it; the formats that split a dimension are left out, *)
(* and so are bounds of an int.  A call has the shapes of input and filter *)
(* (rows, columns, input channels, output channels).                       *)
(***************************************************************************)
EXTENDS MatMulKernel

FORMAT_NHWC == <<"N", "H", "W", "C">>
FORMAT_NCHW == <<"N", "C", "H", "W">>
FORMAT_HWNC == <<"H", "W", "N", "C">>
FORMAT_HWCN == <<"H", "W", "C", "N">>

GetTensorDimIndex(format, dimension) ==
  CHOOSE k \in DOMAIN format : format[k] = dimension

GetTensorDim(attributes, format, dimension) ==
  attributes[GetTensorDimIndex(format, dimension)]

(* Before and after, from a list of two values for each dimension.         *)
GetExplicitPaddingForDim(explicit_paddings, format, dimension) ==
  LET k == GetTensorDimIndex(format, dimension)
  IN  <<explicit_paddings[2 * k - 1], explicit_paddings[2 * k]>>

ShapeFromFormat(format, n, h, w, c) ==
  [k \in DOMAIN format |-> CASE format[k] = "N" -> n [] format[k] = "H" -> h
                             [] format[k] = "W" -> w [] format[k] = "C" -> c]

CheckValidPadding(padding, explicit_paddings, format) ==
  IF padding # "EXPLICIT" THEN explicit_paddings = <<>>
  ELSE /\ Len(explicit_paddings) = 8
       /\ \A k \in DOMAIN explicit_paddings : explicit_paddings[k] >= 0
       /\ \A d \in {"N", "C"} :
            GetExplicitPaddingForDim(explicit_paddings, format, d) = <<0, 0>>

(* Division as C++ has it: towards 0.                                      *)
Truncated(a, b) == IF a >= 0 THEN a \div b ELSE -((-a) \div b)

(* The size of the output and the padding before and after, one dimension; *)
(* padding is what the attributes give, of EXPLICIT.  There is no output   *)
(* of a negative size.                                                     *)
GetWindowedOutputSize(input, filter, dilation, stride, type, padding) ==
  LET effective_filter == (filter - 1) * dilation + 1
      same   == (input + stride - 1) \div stride
      needed == Larger(0, (same - 1) * stride + effective_filter - input)
  IN  IF type = "SAME"
      THEN [size |-> same, before |-> needed \div 2, after |-> needed - needed \div 2]
      ELSE [size |-> Truncated(input + padding[1] + padding[2] - effective_filter
                                 + stride, stride),
            before |-> padding[1], after |-> padding[2]]

-----------------------------------------------------------------------------
InitConv2DParameters(node) ==
  LET Of(list, dimension) == GetTensorDim(list, node.data_format, dimension)
  IN  /\ Len(node.dilations) = 4 /\ Len(node.strides) = 4
      /\ \A d \in {"N", "C"} : Of(node.strides, d) = 1 /\ Of(node.dilations, d) = 1
      /\ \A d \in {"H", "W"} : Of(node.strides, d) > 0 /\ Of(node.dilations, d) > 0
      /\ CheckValidPadding(node.padding, node.explicit_paddings, node.data_format)

ConstructsConv2D(node) ==
  /\ InitConv2DParameters(node)
  /\ IF node.is_fused THEN InitializeFusedComputation(node, Conv2DPatterns)
     ELSE node.data_format = FORMAT_NHWC

(* ConvUtil: of dimension H or W; the filter has it at index k.            *)
GetOutputAndPad(node, call, dimension, k) ==
  LET Of(list) == GetTensorDim(list, node.data_format, dimension)
  IN  GetWindowedOutputSize(
        Of(call.input), call.filter[k], Of(node.dilations), Of(node.strides),
        node.padding,
        IF node.padding = "EXPLICIT"
        THEN GetExplicitPaddingForDim(node.explicit_paddings, node.data_format,
                                      dimension)
        ELSE <<0, 0>>)

GetInputDepth(node, call) == GetTensorDim(call.input, node.data_format, "C")

GetOutDepth(node, call) ==
  IF node.is_depthwise THEN call.filter[3] * call.filter[4] ELSE call.filter[4]

(* What makes a helper set an error: it returns, and so do those after it  *)
(* that need what it did not set.                                          *)
InitFwdDimensions(node, call) ==
  /\ Len(call.filter) = 4
  /\ GetInputDepth(node, call) = call.filter[3]
  /\ GetOutputAndPad(node, call, "H", 1).size >= 0
  /\ GetOutputAndPad(node, call, "W", 2).size >= 0

ConvPostOp(fused_op) ==
  CASE fused_op = "Relu" -> PostOp("relu")
    [] fused_op = "Relu6" -> ClipOp(0, 6)
    [] fused_op = "LeakyRelu" -> LeakyReluOp(20)
    [] fused_op = "Add" -> PostOp("binary_add")

ConvPostOps(fusion_type) ==
  LET After == SelectSeq(fusion_type, LAMBDA f : f # "BiasAdd")
  IN  [k \in DOMAIN After |-> ConvPostOp(After[k])]

(* TryExecuteZenDNNLConv2D.  The dilations are those of NHWC.              *)
ConvDirect(node, call, rows, cols, weights) ==
  LET Of(list, dimension) == GetTensorDim(list, node.data_format, dimension)
      in_depth == GetInputDepth(node, call)
  IN  conv_direct(
        [batch |-> Of(call.input, "N"), in_channels |-> in_depth,
         in_height |-> Of(call.input, "H"), in_width |-> Of(call.input, "W"),
         filter_height |-> call.filter[1], filter_width |-> call.filter[2],
         out_channels |-> GetOutDepth(node, call),
         out_height |-> rows.size, out_width |-> cols.size,
         stride_h |-> Of(node.strides, "H"), stride_w |-> Of(node.strides, "W"),
         pad_top |-> rows.before, pad_left |-> cols.before,
         dilation_h |-> node.dilations[2], dilation_w |-> node.dilations[3],
         is_depthwise |-> node.is_depthwise,
         depth_multiplier |-> GetOutDepth(node, call) \div in_depth,
         version |-> VersionUsed(weights, TRUE),
         bias |-> node.is_fused, post |-> ConvPostOps(node.fused_ops)])

(* The results there may be.  With an error set, the output is allocated   *)
(* and the library called all the same, with dimensions of any value: a    *)
(* negative one fails a CHECK, else the error stands.  A failure of the    *)
(* library is an error of the unfused kernel; the fused one logs it and    *)
(* returns as if nothing had happened.                                     *)
ComputeConv2D(node, call, weights, fails) ==
  LET rows == GetOutputAndPad(node, call, "H", 1)
      cols == GetOutputAndPad(node, call, "W", 2)
      out_shape == ShapeFromFormat(node.data_format,
                     GetTensorDim(call.input, node.data_format, "N"),
                     rows.size, cols.size, GetOutDepth(node, call))
      cannot == fails \/ (node.is_depthwise /\ GetInputDepth(node, call) = 0)
  IN  IF ~InitFwdDimensions(node, call) THEN {Failed, Aborted}
      ELSE IF cannot /\ ~node.is_fused THEN {Failed}
      ELSE {Returns(out_shape,
                    Allocated(out_shape, IF cannot THEN <<>>
                                         ELSE ConvDirect(node, call, rows, cols, weights)))}

-----------------------------------------------------------------------------
(* Pooling.  explicit_paddings is read and not used: EXPLICIT is refused   *)
(* by PoolParameters, which finds none.                                    *)

ConstructsPool(node) == Len(node.ksize) = 4 /\ Len(node.strides) = 4

(* The output along H or W.                                                *)
PoolSize(node, call, dimension) ==
  LET Of(list) == GetTensorDim(list, node.data_format, dimension)
  IN  IF Of(node.strides) <= 0 THEN 0
      ELSE GetWindowedOutputSize(Of(call.input), Of(node.ksize), 1, Of(node.strides),
                                 node.padding, <<0, 0>>).size

(* The constructor sets an error where it finds one and leaves the rest 0. *)
(* A window over the depth leaves out_height and out_width so, too.        *)
PoolParameters(node, call) ==
  LET Of(list, dimension) == GetTensorDim(list, node.data_format, dimension)
      depth == Of(call.input, "C")
      depth_window == Of(node.ksize, "C")
      rows == IF node.padding = "EXPLICIT" THEN 0 ELSE PoolSize(node, call, "H")
      cols == IF node.padding = "EXPLICIT" \/ Of(node.strides, "H") <= 0 \/ rows < 0
              THEN 0 ELSE PoolSize(node, call, "W")
      windows == /\ node.padding # "EXPLICIT"
                 /\ Of(node.strides, "H") > 0 /\ Of(node.strides, "W") > 0
                 /\ rows >= 0 /\ cols >= 0
      depthwise == /\ Of(node.ksize, "H") = 1 /\ Of(node.ksize, "W") = 1
                   /\ node.padding # "EXPLICIT"
                   /\ depth_window > 0 /\ depth % depth_window = 0
                   /\ Of(node.strides, "C") = depth_window
  IN  IF Len(call.input) # 4
      THEN [valid |-> FALSE, out_height |-> 0, out_width |-> 0, shape |-> <<0, 0, 0, 0>>]
      ELSE IF depth_window = 1
      THEN [valid |-> windows, out_height |-> rows, out_width |-> cols,
            shape |-> ShapeFromFormat(node.data_format, Of(call.input, "N"),
                                      rows, cols, depth)]
      ELSE [valid |-> depthwise, out_height |-> 0, out_width |-> 0,
            shape |-> <<Of(call.input, "N"), Of(call.input, "H"), Of(call.input, "W"),
                        IF depthwise THEN depth \div depth_window ELSE 0>>]

(* What ZenPoolOp::Compute says the padding is, by NHWC positions.         *)
PoolPad(node, call, dimension, k) ==
  LET image  == GetTensorDim(call.input, node.data_format, dimension)
      stride == node.strides[k]
      mod    == image % stride
      total  == Larger(node.ksize[k] - (IF mod = 0 THEN stride ELSE mod), 0)
  IN  IF node.padding = "SAME" THEN total \div 2 ELSE 0

(* TryExecuteZenDNNLPooling.                                               *)
PoolDirect(node, call, params) ==
  LET Of(list, dimension) == GetTensorDim(list, node.data_format, dimension)
  IN  pooling_direct(
        [batch |-> Of(call.input, "N"), in_channels |-> Of(call.input, "C"),
         in_height |-> Of(call.input, "H"), in_width |-> Of(call.input, "W"),
         filter_height |-> Of(node.ksize, "H"), filter_width |-> Of(node.ksize, "W"),
         out_height |-> params.out_height, out_width |-> params.out_width,
         stride_h |-> Of(node.strides, "H"), stride_w |-> Of(node.strides, "W"),
         pad_top |-> PoolPad(node, call, "H", 2),
         pad_left |-> PoolPad(node, call, "W", 3),
         dilation_h |-> 1, dilation_w |-> 1, is_max_pooling |-> node.is_maxpool])

(* With an error set the kernel goes on: it allocates, where a negative    *)
(* size fails a CHECK, and for SAME divides by the strides.                *)
ComputePool(node, call, fails) ==
  LET params == PoolParameters(node, call)
  IN  IF \/ \E k \in DOMAIN params.shape : params.shape[k] < 0
         \/ node.padding = "SAME" /\ 0 \in {node.strides[2], node.strides[3]}
      THEN Aborted
      ELSE IF ~params.valid \/ fails THEN Failed
      ELSE Returns(params.shape,
                   Allocated(params.shape, PoolDirect(node, call, params)))
=============================================================================
