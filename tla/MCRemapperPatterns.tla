------------------------- MODULE MCRemapperPatterns -------------------------
(***************************************************************************)
(* Items for TLC with the larger patterns of the remapper, each as models  *)
(* have it and varied: the operands of an addition or a product swapped, a *)
(* constant cast, an Identity in between; and what stands in the way of a  *)
(* fusion, as in MCRemapper.                                               *)
(***************************************************************************)
EXTENDS MCRemapper, Optimizer

MCConst(value) == [MCNode("Const", <<>>) EXCEPT !.op.value = value]
MCCast(from, to, of) ==
  [MCNode("Cast", <<of>>) EXCEPT !.op.T = "none", !.op.value = <<from, to>>]
MCSeqRange(q) == {q[k] : k \in DOMAIN q}
MCPorts(type, ins) == [MCNode(type, <<>>) EXCEPT !.ins = ins]

MCScalars ==
  [one |-> One, one_half |-> OneHalf, sqrt_half |-> SqrtOneHalf,
   sqrt_pi |-> SquareRootTwoOverPi, empirical |-> EmpiricalConst,
   s |-> 53, dims |-> ExpandDims, eps |-> 31700, axes |-> 7, zero |-> 0,
   axis |-> 3, other |-> 5]

MCVectors == [v |-> 37, gamma |-> 41, beta |-> 43, mean |-> 47, variance |-> 59,
              scale |-> 61, shift |-> 67, i |-> 73, j |-> 79, k |-> 83]

MCMatrices == [w |-> 23, t |-> 89, u |-> 97]

MCData == [x |-> 11, z |-> 71, y |-> 17]

MCLeaves ==
  [n \in DOMAIN MCScalars |-> MCConst(MCScalars[n])]
    @@ [n \in DOMAIN MCVectors |-> MCConst(MCVectors[n])]
    @@ [n \in DOMAIN MCMatrices |-> MCConst(MCMatrices[n])]
    @@ [n \in DOMAIN MCData |->
          [MCNode("Placeholder", <<>>) EXCEPT !.op.value = MCData[n]]]

(* What r is computed from, of these nodes and the leaves.                 *)
RECURSIVE MCUpTo(_, _)
MCUpTo(S, all) ==
  LET up == S \cup {i[1] : i \in UNION {MCSeqRange(all[n].ins) : n \in S}}
  IN  IF up = S THEN S ELSE MCUpTo(up, all)

MCGraph(nodes) ==
  LET all == nodes @@ MCLeaves
  IN  [n \in MCUpTo({"r"}, all) |-> all[n]]

MCWhole(nodes, shapes) ==
  LET G == MCGraph(nodes)
  IN  [graph |-> G,
       shape |-> [n \in DOMAIN G \cup {"e"} |->
                    CASE n \in DOMAIN shapes    -> shapes[n]
                      [] n \in DOMAIN MCScalars -> "scalar"
                      [] n \in DOMAIN MCVectors -> "vector"
                      [] OTHER -> "matrix"],
       dim |-> [n \in DOMAIN G \cup {"e"} |->
                  IF n \in DOMAIN MCScalars THEN 1 ELSE 4],
       preserve |-> {"r"}, has_avx512 |-> TRUE]

MCPlain(nodes) == MCWhole(nodes, <<>>)

(* The inputs of one of these nodes the other way round.                   *)
MCSwap(nodes, S) ==
  {[nodes EXCEPT ![n].ins = <<@[2], @[1]>>] : n \in {m \in S \cap DOMAIN nodes : Len(nodes[m].ins) = 2}}

MCVaryAll(it, S) == MCVary(it, S, S, S, S)

(* An Identity between node n and its input k. *)
MCIdentity(nodes, n, k) ==
  [nodes @@ [id |-> MCNode("Identity", <<nodes[n].ins[k][1]>>)]
      EXCEPT ![n].ins[k] = <<"id", 1>>]

-----------------------------------------------------------------------------
(* Gelu of a MatMul and bias; of one that is reshaped.                     *)

MCLinear == [c |-> MCNode("MatMul", <<"x", "w">>),
             b |-> MCNode("BiasAdd", <<"c", "v">>)]

MCReshaped == [h |-> MCNode("Reshape", <<"b", "dims">>)] @@ MCLinear

MCGeluExact(on) ==
  LET erf == [p |-> MCNode("Mul", <<on, "sqrt_half">>), q |-> MCNode("Erf", <<"p">>),
              n |-> MCNode("AddV2", <<"q", "one">>)]
  IN  << [m |-> MCNode("Mul", <<"n", "one_half">>),
          r |-> MCNode("Mul", <<"m", on>>)] @@ erf,
         [m |-> MCNode("Mul", <<on, "one_half">>),
          r |-> MCNode("Mul", <<"n", "m">>)] @@ erf,
         [n |-> MCNode("Neg", <<on>>), p |-> MCNode("Mul", <<"sqrt_half", "n">>),
          q |-> MCNode("Erfc", <<"p">>), m |-> MCNode("Mul", <<"one_half", "q">>),
          r |-> MCNode("Mul", <<"m", on>>)] >>

MCGeluApproximate(on) ==
  LET cube == << [l |-> MCNode("Mul", <<"empirical", on>>),
                  p |-> MCNode("Mul", <<"l", "o">>)],
                 [l |-> MCNode("Mul", <<on, "o">>),
                  p |-> MCNode("Mul", <<"empirical", "l">>)] >>
      rest == [o |-> MCNode("Square", <<on>>),
               d |-> MCNode("AddV2", <<on, "p">>),
               f |-> MCNode("Mul", <<"d", "sqrt_pi">>),
               q |-> MCNode("Tanh", <<"f">>), n |-> MCNode("AddV2", <<"q", "one">>)]
  IN  << [m |-> MCNode("Mul", <<"n", "one_half">>),
          r |-> MCNode("Mul", <<"m", on>>)] @@ cube[1] @@ rest,
         [m |-> MCNode("Mul", <<"one_half", on>>),
          r |-> MCNode("Mul", <<"m", "n">>)] @@ cube[2] @@ rest >>

MCGeluNodes == {"m", "n", "p", "q", "l", "o", "d", "f"}

MCGelus ==
  {MCGeluExact("b")[k] @@ MCLinear : k \in 1..2}
    \cup {MCGeluExact("h")[k] @@ MCReshaped : k \in {1, 3}}
    \cup {MCGeluApproximate("b")[k] @@ MCLinear : k \in 1..2}
    \cup {[MCGeluApproximate("h")[1] @@ MCReshaped EXCEPT
             !.p = MCNode("Mul", <<"l", "empirical">>),
             !.l = MCNode("Mul", <<"h", "o">>)]}

MCGeluItems ==
  {MCPlain(g) : g \in MCGelus}
    \cup {MCPlain(h) : h \in UNION {MCSwap(g, {"p", "n", "m", "r", "f", "d"}) :
                                         g \in MCGelus}}
    \cup UNION {MCVaryAll(MCPlain(g), MCGeluNodes \cup {"b", "h"}) :
                 g \in {MCGeluExact("b")[1] @@ MCLinear, MCGeluExact("h")[3] @@ MCReshaped,
                       MCGeluApproximate("b")[2] @@ MCLinear}}
    (* Other constants. *)
    \cup {[MCPlain(g) EXCEPT !.graph[n].op.value = 4] :
                n \in {"one_half"}, g \in MCGelus}

(* In bfloat16, but for some nodes. *)
MCHalfBut(S, it) ==
  [MCHalf(it) EXCEPT !.graph = [x \in S |-> it.graph[x]] @@ @]

(* A Gelu in bfloat16 whose cube is computed in float. *)
MCGeluMixed ==
  MCHalfBut({"l", "p", "o", "d", "f", "empirical", "sqrt_pi"}, MCPlain(
    [MCGeluApproximate("b")[2] @@ MCLinear EXCEPT
       !.p = MCNode("Mul", <<"a", "l">>), !.l = MCNode("Mul", <<"empirical", "o">>),
       !.o = MCNode("Square", <<"a">>), !.d = MCNode("AddV2", <<"a", "p">>),
       !.q = MCNode("Tanh", <<"g">>)]
      @@ [a |-> MCCast("bfloat16", "float", "b"),
          g |-> MCCast("float", "bfloat16", "f")]))

-----------------------------------------------------------------------------
(* Mish.                                                                   *)

MCMish == [p |-> MCNode("Softplus", <<"b">>), q |-> MCNode("Tanh", <<"p">>),
           m |-> MCNode("Mul", <<"b", "q">>), r |-> MCNode("Identity", <<"m">>)]
            @@ MCLinear

MCMishNodes == {"p", "q", "b", "m"}

MCNoop(nodes, n) ==
  [nodes @@ [id |-> MCCast("bfloat16", "bfloat16", nodes[n].ins[1][1])]
     EXCEPT ![n].ins[1] = <<"id", 1>>]

MCMishItems ==
  {MCPlain(g) : g \in {MCMish} \cup MCSwap(MCMish, {"m"})}
    \cup MCVaryAll(MCPlain(MCMish), MCMishNodes)
    \cup {MCHalf(MCPlain(MCMish))}
    \cup {MCHalf(MCPlain(MCNoop(MCMish, n))) : n \in {"p", "m"}}

-----------------------------------------------------------------------------
(* Layer normalization.                                                    *)

MCLayerNorm ==
  [mu |-> MCNode("Mean", <<"x", "axes">>),
   d |-> MCNode("SquaredDifference", <<"x", "mu">>),
   var |-> MCNode("Mean", <<"d", "axes">>), ve |-> MCNode("AddV2", <<"var", "eps">>),
   q |-> MCNode("Rsqrt", <<"ve">>), sc |-> MCNode("Mul", <<"gamma", "q">>),
   mx |-> MCNode("Mul", <<"x", "sc">>), mm |-> MCNode("Mul", <<"mu", "sc">>),
   n |-> MCNode("Sub", <<"beta", "mm">>)]

MCLayerNormNodes == {"mu", "d", "var", "ve", "q", "sc", "mx", "mm", "n"}

MCTwoInputs ==
  {MCLayerNorm @@ [r |-> MCNode(t, <<"n", "mx">>)] : t \in {"AddV2", "AddN"}}
    \cup {MCLayerNorm @@ [r |-> MCNode("AddN", <<"mx", "n">>)]}

MCResidual ==
  {MCLayerNorm @@ [r |-> MCNode("AddN", ins)] :
     ins \in {<<a, b, c>> : a, b, c \in {"n", "mx", "z"}} \cap
             {f \in [1..3 -> {"n", "mx", "z"}] : \A i, j \in 1..3 : f[i] = f[j] => i = j}}

MCLayerNormItems ==
  {MCPlain(g) : g \in MCTwoInputs \cup MCResidual}
    \cup UNION {{MCPlain(h) : h \in MCSwap(g, {"ve", "sc", "mx", "mm", "d", "n", "var"})
                                \cup {MCIdentity(g, "ve", 2), MCIdentity(g, "mu", 2)}
                                \cup {[g EXCEPT !.var.ins[2] = <<"other", 1>>]}} :
                 g \in MCTwoInputs}
    \cup UNION {MCVaryAll(MCPlain(MCLayerNorm @@ [r |-> MCNode("AddN", ins)]),
                          MCLayerNormNodes) : ins \in {<<"n", "mx">>, <<"n", "z", "mx">>}}

-----------------------------------------------------------------------------
(* Attention scores.                                                       *)

MCScores ==
  {[c |-> MCNode("BatchMatMulV2", <<"x", "y">>), m |-> MCNode("Mul", <<"c", "s">>),
    r |-> MCNode("AddV2", ins)] : ins \in {<<"m", "z">>, <<"z", "m">>}}
    \cup {[m |-> MCNode("Mul", <<"x", "s">>), c |-> MCNode("BatchMatMulV2", <<"m", "y">>),
           r |-> MCNode("AddV2", <<"c", "z">>)]}

MCOfScores(nodes, mask) ==
  MCWhole(nodes, [n \in {"x", "y", "c", "m", "r"} |-> "scores"] @@ [z |-> mask])

MCScoreItems ==
  {MCOfScores(g, mask) : g \in MCScores, mask \in Rank4 \cup {"matrix"}}
    \cup UNION {MCVaryAll(MCOfScores(g, "scores"), {"m", "c"}) : g \in MCScores}

-----------------------------------------------------------------------------
(* Gathers that are concatenated: one check for them all, or none.  What is *)
(* gathered for a check need not be constant.                              *)

MCGather(table, index) == MCNode("GatherV2", <<table, index, "axis">>)

MCCheck(on, of) ==
  [a |-> MCNode("IsInf", <<of>>), n |-> MCNode("ZerosLike", <<of>>),
   p |-> MCNode("SelectV2", <<"a", "n", of>>)]

MCConcat(values) ==
  [c |-> MCNode("ConcatV2", values \o <<"other">>), r |-> MCNode("Identity", <<"c">>)]

MCGathers == [f |-> MCGather("t", "i"), g |-> MCGather("t", "j"), h |-> MCGather("u", "k")]

(* g checked; after a Cast.                                                *)
MCChecked ==
  {MCCheck("g", "g") @@ [MCGathers EXCEPT !.g = MCGather("t", "x")]}
    \cup {MCCheck("g", "q") @@ [q |-> MCCast("float", "float", "g")]
            @@ [MCGathers EXCEPT !.g = MCGather("t", "x")]}

MCEmbeddings ==
  {MCConcat(values) @@ MCGathers :
     values \in {<<"f", "g">>, <<"f", "g", "h">>, <<"f", "z">>, <<"f", "g", "z">>,
                 <<"z", "f", "g">>, <<"z", "f", "g", "y">>, <<"h", "f", "g">>,
                 <<"f", "h">>, <<"f", "g", "z", "g", "f">>}}
    \cup {MCConcat(values) @@ checked : checked \in MCChecked,
             values \in {<<"p", "p">>, <<"p", "p", "z">>, <<"z", "p", "p", "z">>}}

MCEmbeddingItems ==
  {MCPlain(g) : g \in MCEmbeddings}
    \cup UNION {MCVary(MCPlain(g), {"f", "g", "c"}, {}, {}, {"c"}) :
                 g \in {MCConcat(values) @@ MCGathers :
                          values \in {<<"f", "g">>, <<"z", "f", "g">>}}
                         \cup {MCConcat(<<"p", "p">>) @@ checked : checked \in MCChecked}}

-----------------------------------------------------------------------------
(* A safe lookup: with the values filtered before, and reshaped after.     *)

MCLookup(root, root_type, segment, indices, values) ==
  [sfr |-> MCNode("SparseFillEmptyRows", <<indices, values, "y", "s">>),
   ss |-> MCPorts("StridedSlice", << <<"sfr", 1>>, <<"one", 1>>, <<"one", 1>>, <<"one", 1>> >>),
   seg |-> MCPorts(segment, << <<"id", 1>>, <<"sfr", 2>>, <<"ss", 1>> >>),
   id |-> MCNode("Identity", <<"t">>),
   rs |-> MCPorts("Reshape", << <<"sfr", 3>>, <<"dims", 1>> >>),
   tl |-> MCNode("Tile", <<"rs", "one">>), zl |-> MCNode("ZerosLike", <<"seg">>)]
    @@ [n \in {root} |-> MCNode(root_type, <<"tl", "zl", "seg">>)]

MCFilter ==
  [ge |-> MCNode("GreaterEqual", <<"z", "zero">>), wh |-> MCNode("Where", <<"ge">>),
   fr |-> MCNode("Reshape", <<"wh", "dims">>),
   gi |-> MCNode("GatherV2", <<"x", "fr", "axis">>),
   gv |-> MCNode("GatherV2", <<"z", "fr", "axis">>)]

(* The batch dimensions of the dense shape and the last one of l. *)
MCAdjust ==
  [sh |-> MCNode("Shape", <<"l">>), em |-> MCNode("Slice", <<"sh", "one", "other">>),
   ba |-> MCNode("Slice", <<"dc", "zero", "one">>), dc |-> MCCast("float", "float", "y"),
   co |-> MCNode("ConcatV2", <<"ba", "em", "zero">>), r |-> MCNode("Reshape", <<"l", "co">>)]

MCLookups ==
  {MCLookup("r", select, segment, "x", "z") :
     select \in {"Select", "SelectV2"}, segment \in {"SparseSegmentSum", "SparseSegmentMean"}}
    \cup {MCLookup("r", "SelectV2", "SparseSegmentSqrtN", "gi", "gv") @@ MCFilter,
          MCLookup("l", "SelectV2", "SparseSegmentSum", "x", "z") @@ MCAdjust,
          MCLookup("l", "SelectV2", "SparseSegmentSum", "gi", "gv") @@ MCFilter @@ MCAdjust}

MCLookupItems == {MCPlain(g) : g \in MCLookups}

-----------------------------------------------------------------------------
(* A Pad before a contraction, with a bias or not.                         *)

MCPads ==
  {[pd |-> MCNode("Pad", <<"x", "other">>), r |-> MCNode(type, <<"pd", "w">>)] :
     type \in {"Conv2D", "DepthwiseConv2dNative"}}
    \cup {[pd |-> MCNode("Pad", <<"x", "other">>), c |-> MCNode(type, <<"pd", "w">>),
           r |-> MCNode("BiasAdd", <<"c", "v">>)] :
           type \in {"Conv2D", "DepthwiseConv2dNative"}}

MCPadItems ==
  {MCPlain(g) : g \in MCPads} \cup UNION {MCVaryAll(MCPlain(g), {"pd"}) : g \in MCPads}

-----------------------------------------------------------------------------
(* A batch normalization n of b.                                           *)

MCEpsilon == [ve |-> MCNode("AddV2", <<"variance", "eps">>), q |-> MCNode("Rsqrt", <<"ve">>)]

MCNormalizations(b) ==
  << [m |-> MCNode("Mul", <<b, "scale">>), n |-> MCNode("AddV2", <<"m", "shift">>)],
     [d |-> MCNode("Sub", <<b, "mean">>), f |-> MCNode("Mul", <<"d", "q">>),
      m |-> MCNode("Mul", <<"f", "gamma">>), n |-> MCNode("AddV2", <<"m", "beta">>)]
       @@ MCEpsilon,
     [sc |-> MCNode("Mul", <<"gamma", "q">>), m |-> MCNode("Mul", <<b, "sc">>),
      mm |-> MCNode("Mul", <<"mean", "sc">>), d |-> MCNode("Sub", <<"beta", "mm">>),
      n |-> MCNode("AddV2", <<"m", "d">>)] @@ MCEpsilon >>

MCTail == [r |-> MCNode("Identity", <<"n">>)]

(* The layer, TensorFlow's own fused one, or one with the bias added.      *)
MCFusedLayer == [b |-> [MCNode("_FusedMatMul", <<"x", "w", "v">>) EXCEPT !.op.fused = <<"BiasAdd">>]]

MCLayers == {MCLinear, MCFusedLayer, [MCLinear EXCEPT !.b = MCNode("AddV2", <<"c", "v">>)]}

MCNormalized(k) == {MCNormalizations("b")[k] @@ MCTail @@ layer : layer \in MCLayers}

MCFoldNodes == {"d", "f", "sc", "m", "mm", "q", "ve", "b", "c"}

(* The constants that a fold changes or does away with. *)
MCFolded == {"w", "v", "scale", "shift", "gamma", "beta", "mean", "variance"}

(* In bfloat16, with the normalization in float between two Casts.         *)
MCHalfNormalized(k) ==
  LET layer == MCLinear @@ [a |-> MCCast("bfloat16", "float", "b")]
      tail  == [l |-> MCCast("float", "bfloat16", "n"), r |-> MCNode("Identity", <<"l">>)]
      it    == MCPlain(MCNormalizations("a")[k] @@ layer @@ tail)
  IN  MCHalfBut(DOMAIN it.graph \ {"x", "w", "v", "c", "b", "a", "l", "r"}, it)

(* Who else reads the Mul of a scale and shift, or the Sub and the product *)
(* with the mean, is not looked at, nor the order of that Sub, nor what    *)
(* runs after a node that is folded away; and, of the contraction, what    *)
(* runs before.                                                            *)
MCUnread == << {"m"}, {}, {"d", "mm"} >>
MCSwapped == << {"n", "m"}, {"n", "m", "f", "ve", "d"}, {"n", "m", "sc", "mm", "ve"} >>

MCFoldItems ==
  {MCPlain(g) : g \in UNION {MCNormalized(k) : k \in 1..3}}
    \cup UNION {LET g == MCNormalizations("b")[k] @@ MCTail @@ MCLinear
                IN  {MCPlain(h) : h \in MCSwap(g, MCSwapped[k])}
                      \cup MCVary(MCPlain(g), (MCFoldNodes \cup MCFolded) \ MCUnread[k],
                                  MCFoldNodes \cup MCFolded, MCFoldNodes \ {"c"}, MCFolded) :
                k \in 1..3}

MCPatternItems ==
  MCGeluItems \cup {MCGeluMixed} \cup MCMishItems \cup MCLayerNormItems
    \cup MCScoreItems \cup MCEmbeddingItems \cup MCLookupItems \cup MCPadItems
    \cup MCFoldItems \cup {MCHalfNormalized(k) : k \in 1..3}

MCEveryItem == MCAllItems \cup MCPatternItems

=============================================================================
