----------------------------- MODULE MCKernels -----------------------------
(***************************************************************************)
(* Nodes and calls for TLC.                                                *)
(***************************************************************************)
EXTENDS Kernels

MCItem(op, node, calls) ==
  [op |-> op, node |-> node, calls |-> calls, apis |-> BOOLEAN, versions |-> 1]

-----------------------------------------------------------------------------
(* Products of two matrices; both may be empty where the output is too.    *)

MCMatrix == {<<1, 2>>, <<2, 1>>, <<2, 3>>, <<3, 2>>, <<0, 2>>, <<2, 0>>}
MCProducts == {[a |-> x, b |-> y] :
                 x \in MCMatrix \cup {<<2>>, <<1, 2, 2>>}, y \in MCMatrix \cup {<<2>>}}
MCWithoutSum(c) ==
  0 \in {c.a[k] : k \in DOMAIN c.a} /\ 0 \in {c.b[k] : k \in DOMAIN c.b}

MCTurns == BOOLEAN \X BOOLEAN

MCMatMulNode(t, fused_ops, num_args) ==
  [transpose_a |-> t[1], transpose_b |-> t[2], is_fused |-> fused_ops # <<>>,
   is_reshape |-> FALSE, fused_ops |-> fused_ops, num_args |-> num_args]

MCMatMuls ==
  {MCItem("_ZenMatMul", MCMatMulNode(t, <<>>, 0), {c \in MCProducts : ~MCWithoutSum(c)}) :
     t \in MCTurns}

MCFusedCalls == {[a |-> <<2, 3>>, b |-> <<3, 2>>], [a |-> <<2, 2>>, b |-> <<2, 3>>],
                 [a |-> <<2, 2>>, b |-> <<3, 2>>]}

MCFusedMatMuls ==
  {MCItem("_ZenFusedMatMul", MCMatMulNode(t, f, n), MCFusedCalls) :
     t \in {<<FALSE, FALSE>>, <<FALSE, TRUE>>}, n \in {1, 2},
     f \in MatMulPatterns \cup {<<"BiasAdd", "Elu">>}}

MCReshapedMatMuls ==
  {MCItem("_ZenFusedMatMul",
          [MCMatMulNode(<<FALSE, t>>, <<"BiasAdd", "GeluExact">>, 1)
             EXCEPT !.is_reshape = TRUE],
          {[a |-> <<2, 2>>, b |-> <<2, 2>>, reshape |-> <<1, 2, 2>>]}) : t \in BOOLEAN}

-----------------------------------------------------------------------------
(* Products of batches.  Where both sides have two batch dimensions, one   *)
(* side has one batch or they are the same: others are not computed        *)
(* rightly.  Of one batch on the left and more on the right only the       *)
(* direct interface fills the output.                                      *)

MCBatches == UNION {[1..r -> {1, 2}] : r \in 1..2}
MCManyBatches == MCBatches \cup {<<3>>, <<2, 3>>, <<0>>}
MCOfOne(x) == NumElements(x) = 1

MCStraight(x, y) ==
  \/ Len(x) = 1 /\ Len(y) = 1
  \/ x = y \/ MCOfOne(x) \/ MCOfOne(y)
MCFilled(x, y) == NumElements(x) >= NumElements(y)

MCBatchNode(t, v2_bcast, fused_ops, num_args) ==
  [adj_x |-> t[1], adj_y |-> t[2], v2_bcast |-> v2_bcast,
   is_fused |-> fused_ops # <<>>, fused_ops |-> fused_ops, num_args |-> num_args]

MCBatchCalls(X, Y, t) ==
  {[lhs |-> x \o IF t[1] THEN <<3, 2>> ELSE <<2, 3>>,
    rhs |-> y \o IF t[2] THEN <<2, 3>> ELSE <<3, 2>>] : x \in X, y \in Y}

MCPairs(X, filled, t) ==
  {c \in MCBatchCalls(X, X, t) : LET x == Batches(c.lhs)
                                     y == Batches(c.rhs)
                                 IN MCStraight(x, y) /\ MCFilled(x, y) = filled}

MCOdd == {[lhs |-> x, rhs |-> y] : x \in {<<2, 2>>, <<1, 2, 2>>, <<1, 1, 2, 2>>,
                                         <<1, 1, 1, 2, 2>>, <<1, 2, 3>>},
                                  y \in {<<2, 2>>, <<1, 2, 2>>, <<1, 1, 2, 2>>,
                                         <<1, 1, 1, 2, 2>>, <<1, 2, 1, 2, 2>>}}

MCBatchMatMuls ==
  {MCItem(IF v2 THEN "_ZenBatchMatMulV2" ELSE "_ZenBatchMatMul",
          MCBatchNode(t, v2, <<>>, 0), MCPairs(MCManyBatches, TRUE, t) \cup MCOdd) :
     t \in MCTurns, v2 \in BOOLEAN}

MCOneOnTheLeft ==
  {[MCItem("_ZenBatchMatMulV2", MCBatchNode(t, TRUE, <<>>, 0),
           MCPairs(MCManyBatches, FALSE, t)) EXCEPT !.apis = {TRUE}] : t \in MCTurns}

(* Right-hand sides that change from step to step.                         *)
MCChanging ==
  {[MCItem("_ZenBatchMatMulV2", MCBatchNode(<<FALSE, t>>, TRUE, <<>>, 0),
           MCBatchCalls({<<2>>}, {<<2>>}, <<FALSE, t>>)) EXCEPT !.versions = 3] :
     t \in BOOLEAN}

MCMul == {<<>>, <<2>>}
MCAddends == {<<1, 2, 2, 2>>, <<2, 2, 2, 2>>, <<2, 2, 2>>}

MCFusedBatchMatMuls ==
  {MCItem("_ZenFusedBatchMatMulV2", MCBatchNode(t, TRUE, f, n),
          {[lhs |-> c.lhs, rhs |-> c.rhs, mul |-> m, addend |-> d] :
             c \in MCBatchCalls({<<2>>, <<1, 2>>, <<2, 2>>}, {<<1>>, <<1, 1>>}, t),
             m \in MCMul, d \in MCAddends}) :
     t \in {<<FALSE, TRUE>>}, n \in {1, 2},
     f \in BatchMatMulPatterns \cup {<<"BiasAdd">>}}

-----------------------------------------------------------------------------
(* Convolutions: the rows vary, the columns less.                          *)

MCConvNode(strides, dilations, padding, explicit, fused_ops, depthwise) ==
  [strides |-> strides, dilations |-> dilations, padding |-> padding,
   explicit_paddings |-> explicit, data_format |-> FORMAT_NHWC,
   is_fused |-> fused_ops # <<>>, fused_ops |-> fused_ops, is_depthwise |-> depthwise,
   num_args |-> 1, leakyrelu_alpha |-> 20]

MCExplicit == {<<0, 0, 1, 0, 0, 1, 0, 0>>, <<0, 0, 0, 2, 1, 1, 0, 0>>}
MCPaddings == {<<p, <<>>>> : p \in {"SAME", "VALID"}}
                \cup {<<"EXPLICIT", e>> : e \in MCExplicit}
MCRefused == {<<"SAME", <<0, 0, 1, 0, 0, 1, 0, 0>>>>, <<"EXPLICIT", <<0, 0>>>>,
              <<"EXPLICIT", <<0, 1, 0, 0, 0, 0, 0, 0>>>>,
              <<"EXPLICIT", <<0, 0, -1, 0, 0, 0, 0, 0>>>>}

MCImages == {[input |-> <<1, h, 3, 1>>, filter |-> <<fh, 2, 1, 1>>] :
               h \in {1, 2, 3, 4, 5}, fh \in 1..3}
            \cup {[input |-> <<2, 2, 3, 2>>, filter |-> <<2, 1, 2, 2>>],
                  [input |-> <<1, 2, 2, 2>>, filter |-> <<2, 2, 1, 2>>]}

MCConvs ==
  {MCItem(IF d THEN "_ZenDepthwiseConv2dNative" ELSE "_ZenConv2D",
          MCConvNode(<<1, s, 1, 1>>, <<1, r, 1, 1>>, p[1], p[2], <<>>, d), MCImages) :
     s \in 1..3, r \in 1..2, d \in BOOLEAN, p \in MCPaddings \cup MCRefused}

MCOtherConvs ==
  {MCItem("_ZenConv2D",
          [MCConvNode(s, <<1, 1, 1, 1>>, "VALID", <<>>, <<>>, FALSE)
             EXCEPT !.data_format = f], {}) :
     f \in {FORMAT_NHWC, FORMAT_NCHW, FORMAT_HWCN},
     s \in {<<1, 2, 2, 1>>, <<1, 1, 2, 2>>, <<1, 1, 0, 1>>}}

MCFusedConvs ==
  {MCItem(IF d THEN "_ZenFusedDepthwiseConv2dNative" ELSE "_ZenFusedConv2D",
          MCConvNode(<<1, 1, 1, 1>>, <<1, 1, 1, 1>>, p[1], p[2], f, d),
          {[input |-> <<1, 2, 2, 2>>, filter |-> <<2, 1, 2, 2>>]}) :
     d \in BOOLEAN, p \in MCPaddings,
     f \in Conv2DPatterns \cup {<<"BiasAdd", "Elu">>}}

-----------------------------------------------------------------------------
(* Einsums, of the two equations and of another.                           *)

MCEinsumNode(equation) == [equation |-> equation]

MCPlanes == {<<1, 2>>, <<2, 2>>, <<2, 3>>, <<0, 2>>, <<2, 0>>, <<2>>}
MCBlocks == {<<2, 2, 3>>, <<2, 3, 2>>, <<1, 2, 2>>, <<2, 1, 2>>, <<0, 2, 1>>,
             <<2, 0, 2>>, <<2, 2, 0>>, <<2, 2>>}

MCEinsums ==
  {MCItem("_ZenEinsum", MCEinsumNode(e[1]), {[a |-> x, b |-> y] : x, y \in e[2]}) :
     e \in {<<kMatMul, MCPlanes>>, <<kBatchMatMulBroadcast, MCBlocks>>,
           << << <<"i", "j">>, <<"k", "j">>, <<"i", "k">> >>, {<<2, 2>>} >>}}

-----------------------------------------------------------------------------
(* The other kernels have one interface.  Pools of rows and columns, not   *)
(* of the depth, which are not computed; windows may be larger than the    *)
(* image.                                                                  *)

MCOther(op, node, calls) == [MCItem(op, node, calls) EXCEPT !.apis = {TRUE}]

MCPoolNode(ksize, strides, padding, is_maxpool) ==
  [ksize |-> ksize, strides |-> strides, padding |-> padding,
   explicit_paddings |-> IF padding = "EXPLICIT" THEN <<0, 0, 1, 0, 0, 1, 0, 0>> ELSE <<>>,
   data_format |-> FORMAT_NHWC, is_maxpool |-> is_maxpool]

MCPooled == {[input |-> <<1, h, w, 2>>] : h \in 1..4, w \in {1, 3}}
              \cup {[input |-> <<1, 2, 2>>]}

MCPools ==
  {MCOther(IF m THEN "_ZenMaxPool" ELSE "_ZenAvgPool",
           MCPoolNode(<<1, k, w, 1>>, <<1, s, 1, 1>>, p, m), MCPooled) :
     k \in 1..3, w \in {2, 3}, s \in 0..3, p \in {"SAME", "VALID", "EXPLICIT"},
     m \in BOOLEAN}
  \cup {MCOther("_ZenMaxPool", MCPoolNode(k, <<1, 1, 1, 1>>, "VALID", TRUE),
                {[input |-> <<1, 2, 2, 4>>]}) :
          k \in {<<1, 2, 1, 2>>, <<1, 1, 1, 2>>, <<1, 1, 1, 3>>, <<1, 1, 1>>}}

-----------------------------------------------------------------------------
(* Rows.  The axes of a layer normalization are the last ones: others are  *)
(* taken for them.  No entry of a lookup is beyond the table: it would be  *)
(* left out.                                                               *)

MCSoftmaxes ==
  {MCOther("_ZenSoftmax", [data_format |-> f],
           {[input |-> x] : x \in {<<>>, <<3>>, <<2, 3>>, <<2, 1, 2>>, <<0, 2>>, <<2, 0>>}}) :
     f \in {FORMAT_NHWC, FORMAT_NCHW}}

MCLastAxes(axes, input) ==
  LET reduced == NormAxes([axes |-> axes], [input |-> input])
  IN  \A k \in reduced : k..Len(input) \subseteq reduced

MCLayerNorms ==
  {MCOther("_ZenFusedLayerNorm", [axes |-> axes],
           {[input |-> x, gamma |-> g, beta |-> b] :
              x \in {y \in {<<3>>, <<2, 3>>, <<2, 2, 2>>, <<3, 0>>} : MCLastAxes(axes, y)},
              g \in {<<3>>, <<2>>, <<2, 2>>, <<0>>}, b \in {<<3>>, <<2>>, <<4>>, <<0>>}}) :
     axes \in {<<>>, <<-1>>, <<1>>, <<1, 2>>, <<-1, -2>>, <<2, 2>>, <<0>>}}

MCEntries(n) ==
  {[segments |-> g, sp_values |-> v] :
     g \in {f \in [1..n -> 0..1] : \A k \in 1..n - 1 : f[k] <= f[k + 1]},
     v \in [1..n -> {-1, 0, 2}]}

MCLookups ==
  {MCOther("_ZenSafeEmbeddingLookupSparse", [combiner |-> c, has_adjust_shape |-> a],
           {[params |-> p, segments |-> e.segments, sp_values |-> e.sp_values,
             sp_dense_shape |-> d, orig_dense_shape |-> <<1, 2, 4>>] :
              p \in {<<3, 2>>, <<3, 0>>, <<3>>}, e \in UNION {MCEntries(n) : n \in 0..3},
              d \in {<<2, 4>>, <<>>}}) :
     c \in {"sum", "mean", "sqrtn"}, a \in BOOLEAN}

(* Groups of two tables; an index beyond a table only where the kernel     *)
(* itself copies the rows, infinities kept out of a bfloat16 only where    *)
(* nothing is passed through.                                              *)
MCGroupNode(axis, gathers, passthrough, fused_ops, T_output) ==
  [num_tables |-> 2, N |-> 3, gather_axis |-> axis, gathers_per_table |-> gathers,
   num_passthrough |-> passthrough, fused_ops |-> fused_ops, T_output |-> T_output]

MCGroupTables == {<< <<3, 2>>, <<2, 2>> >>, << <<2, 3>>, <<2, 2>> >>, << <<3>>, <<2>> >>,
                  << <<2, 3, 2>>, <<2, 2, 2>> >>, << <<2, 2>>, <<2>> >>}
MCGathered == {<< <<0>>, <<1>>, <<1>> >>, << <<0, 1>>, <<1>>, <<>> >>,
               << <<1>>, <<1, 0, 1>>, <<0>> >>}
MCBeyond == {<< <<0>>, <<2>>, <<2>> >>, << <<-1>>, <<>>, <<>> >>}

MCCopied(node, c) ==
  GroupAgrees(node, c) => GroupLayout(node, c).use_direct

MCGroupCalls(node) ==
  {[tables |-> t, indices |-> i, passthrough |-> p] :
     t \in MCGroupTables, i \in MCGathered, p \in {<<2, 2>>, <<2, 1, 2>>}}
  \cup {c \in [tables : MCGroupTables, indices : MCBeyond, passthrough : {<<2, 2>>}] :
          MCCopied(node, c)}

MCGroups ==
  {MCOther("_ZenGroupEmbedding", n, MCGroupCalls(n)) :
     n \in {MCGroupNode(a, g, p[1], p[2], p[3]) :
             a \in {-1, 0, 1}, g \in {<<1, 2>>, <<2, 1>>},
             p \in {<<0, <<"Identity">>, "float">>, <<1, <<"Identity">>, "bfloat16">>,
                   <<0, <<"SafeCastCheck">>, "bfloat16">>}}}
  \cup {MCOther("_ZenGroupEmbedding", n, {}) :
          n \in {MCGroupNode(0, <<1, 1>>, 0, <<"Identity">>, "float"),
                MCGroupNode(0, <<3>>, 0, <<"Identity">>, "float"),
                MCGroupNode(0, <<1, 2>>, 2, <<"Identity">>, "float"),
                MCGroupNode(0, <<1, 2>>, 0, <<"Relu">>, "float")}}

MCItems ==
  MCMatMuls \cup MCFusedMatMuls \cup MCReshapedMatMuls \cup MCBatchMatMuls
    \cup MCOneOnTheLeft \cup MCChanging \cup MCFusedBatchMatMuls
    \cup MCConvs \cup MCOtherConvs \cup MCFusedConvs
    \cup MCEinsums \cup MCPools \cup MCSoftmaxes \cup MCLayerNorms
    \cup MCLookups \cup MCGroups

(* The fused convolutions do not report what the library reports.          *)
MCFailing == {"_ZenMatMul", "_ZenFusedMatMul", "_ZenBatchMatMulV2", "_ZenConv2D",
              "_ZenEinsum", "_ZenMaxPool", "_ZenSoftmax", "_ZenFusedLayerNorm",
              "_ZenGroupEmbedding"}
=============================================================================
