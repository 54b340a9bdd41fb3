----------------------------- MODULE MCRemapper -----------------------------
(***************************************************************************)
(* Items for TLC: a contraction c of x and w, the nodes that follow it up  *)
(* to a root that is fetched, and at most one thing that may stand in the  *)
(* way of a fusion: one more reader of a node, one more preserved node, or *)
(* a control edge.                                                         *)
(***************************************************************************)
EXTENDS Remapper

MCNode(type, names) ==
  [op |-> [type |-> type, fused |-> <<>>,
           T |-> IF type = "NoOp" THEN "none" ELSE "float",
           value |-> 0, flags |-> {}],
   ins |-> [k \in DOMAIN names |-> <<names[k], 1>>], ctl |-> {}]

MCOver(f, g) == [x \in DOMAIN f \cup DOMAIN g |->
                   IF x \in DOMAIN g THEN g[x] ELSE f[x]]

(* z, y: data fed in; w, v, s: constants; e: a node on its own.            *)
MCLeaf == [x \in {"x", "w", "v", "s", "z", "e"} |->
             [MCNode(CASE x \in {"x", "z"} -> "Placeholder"
                       [] x = "e" -> "NoOp" [] OTHER -> "Const", <<>>)
                EXCEPT !.op.value = CASE x = "x" -> 11 [] x = "w" -> 23
                  [] x = "v" -> 37 [] x = "s" -> 53 [] x = "z" -> 71 [] OTHER -> 0]]

MCShape == [n \in {"x", "w", "v", "s", "z", "e", "c", "h", "b", "m", "n", "r",
                   "o"} |->
              CASE n = "v" -> "vector" [] n = "s" -> "scalar"
                [] OTHER -> "matrix"]

(* The graph with chain, with no leaf nobody reads but e, as an item whose *)
(* last node is fetched.  A bias of other may be as wide as the weights.   *)
MCItem(chain, last, wide) ==
  [graph |-> MCOver([x \in {y \in DOMAIN MCLeaf : \E n \in DOMAIN chain :
                              \E k \in DOMAIN chain[n].ins :
                                chain[n].ins[k][1] = y} |-> MCLeaf[x]], chain),
   shape |-> MCShape,
   dim |-> [n \in DOMAIN MCShape |-> IF n = "v" THEN wide ELSE 1],
   preserve |-> {last}, has_avx512 |-> TRUE]

-----------------------------------------------------------------------------
(* Chains.  Names: c the contraction, h a Reshape, b the bias, m and n     *)
(* what comes between, r the last node.                                    *)

MCContraction(type) == [x \in {"c"} |-> MCNode(type, <<"x", "w">>)]

MCBias(name, of) ==
  {[x \in {name} |-> MCNode("BiasAdd", <<of, "v">>)],
   [x \in {name} |-> MCNode("AddV2", <<of, "v">>)],
   [x \in {name} |-> MCNode("AddV2", <<"v", of>>)]}

MCOn(name, types, of) == {[x \in {name} |-> MCNode(t, of)] : t \in types}

MCAll(A, B) == {MCOver(a, b) : a \in A, b \in B}

MCConvs == {"MatMul", "Conv2D", "DepthwiseConv2dNative"}
MCContractions(types) == {MCContraction(t) : t \in types}

MCBiasChains ==
  MCAll(MCContractions(MCConvs), MCBias("r", "c"))

MCActivationChains ==
  MCAll(MCContractions(MCConvs),
        MCAll(MCBias("b", "c"),
              MCOn("r", {"Relu", "Elu", "LeakyRelu", "Sigmoid", "Mish"}, <<"b">>)))
  \cup MCAll(MCContractions({"MatMul"}), MCOn("r", {"Relu", "Tanh"}, <<"c">>))

MCAddChains ==
  MCAll(MCContractions(MCConvs),
        MCAll(MCBias("b", "c"),
              MCOn("r", {"AddN", "AddV2"}, <<"b", "z">>)
                \cup MCOn("r", {"AddN"}, <<"z", "b">>)))

(* Two contractions with a bias, summed up.                                *)
MCTwoBiases ==
  MCAll(MCContractions(MCConvs),
        MCAll(MCOn("o", {"MatMul", "Conv2D"}, <<"z", "w">>),
              MCAll(MCOn("b", {"BiasAdd"}, <<"c", "v">>),
                    MCAll(MCOn("n", {"BiasAdd"}, <<"o", "v">>),
                          MCOn("r", {"AddN"}, <<"b", "n">>)))))

MCAddActivationChains ==
  MCAll(MCContractions(MCConvs),
        MCAll(MCOn("b", {"BiasAdd", "AddV2"}, <<"c", "v">>),
              MCAll(MCOn("m", {"AddN"}, <<"z", "b">>)
                      \cup MCOn("m", {"AddV2"}, <<"b", "z">>),
                    MCOn("r", {"Relu", "Mish", "LeakyRelu"}, <<"m">>))))

MCMulChains ==
  MCAll(MCContractions({"BatchMatMulV2"}),
        MCOn("r", {"Mul"}, <<"c", "s">>) \cup MCOn("r", {"Mul"}, <<"s", "c">>)
          \cup MCOn("r", {"Mul"}, <<"c", "z">>)
          \cup MCAll(MCOn("b", {"BiasAdd"}, <<"c", "v">>),
                     MCOn("r", {"Relu", "Tanh"}, <<"b">>)))
  \cup MCAll(MCContractions({"MatMul"}),
             MCAll(MCOn("b", {"BiasAdd"}, <<"c", "v">>),
                   MCAll(MCOn("m", {"Mul"}, <<"b", "z">>),
                         MCOn("r", {"AddV2", "Relu"}, <<"m", "z">>))))

MCKerasChains ==
  MCAll(MCContractions({"MatMul"}),
        MCAll(MCOn("h", {"Reshape"}, <<"c", "s">>),
              MCOn("r", {"BiasAdd"}, <<"h", "v">>)
                \cup MCAll(MCOn("b", {"BiasAdd"}, <<"h", "v">>),
                           MCOn("r", {"Relu", "Mish"}, <<"b">>)
                             \cup MCOn("r", {"AddN"}, <<"b", "z">>)
                             \cup MCAll(MCOn("m", {"Sigmoid"}, <<"b">>),
                                        MCOn("r", {"Relu"}, <<"m">>)))))

(* Two layers; a block whose input comes back at its end.                  *)
MCTwoLayers ==
  MCAll(MCContractions({"MatMul"}),
        MCAll(MCOn("b", {"BiasAdd"}, <<"c", "v">>),
              MCAll(MCOn("m", {"Relu", "Sigmoid", "Mish"}, <<"b">>),
                    MCAll(MCOn("o", {"MatMul"}, <<"m", "w">>),
                          MCAll(MCOn("n", {"BiasAdd"}, <<"o", "v">>),
                                MCOn("r", {"Relu", "Mish"}, <<"n">>)
                                  \cup MCOn("r", {"AddN"}, <<"n", "m">>))))))

-----------------------------------------------------------------------------
(* What may stand in the way.                                              *)

MCInner(it) == DOMAIN it.graph \cap {"c", "h", "b", "m", "n", "o"}

MCReadTwice(it, S) ==
  {[it EXCEPT !.graph = MCOver(@, [x \in {"e"} |-> MCNode("Identity", <<y>>)]),
              !.preserve = @ \cup {"e"}] : y \in S \cap DOMAIN it.graph}

MCPreserved(it, S) ==
  {[it EXCEPT !.preserve = @ \cup {y}] : y \in S \cap DOMAIN it.graph}

(* e runs before y. *)
MCAfter(it, S) ==
  {[it EXCEPT !.graph = [MCOver(@, [x \in {"e"} |-> MCNode("NoOp", <<>>)])
                           EXCEPT ![y].ctl = {"e"}]] :
     y \in S \cap DOMAIN it.graph}

(* e runs after y. *)
MCBefore(it, S) ==
  {[it EXCEPT !.graph = [MCOver(@, [x \in {"e"} |-> MCNode("NoOp", <<>>)])
                           EXCEPT !["e"].ctl = {y}],
              !.preserve = @ \cup {"e"}] : y \in S \cap DOMAIN it.graph}

MCVary(it, read, kept, after, before) ==
  {it} \cup MCReadTwice(it, read) \cup MCPreserved(it, kept)
    \cup MCAfter(it, after) \cup MCBefore(it, before)

MCBare(chains) == {MCItem(ch, "r", 1) : ch \in chains}

MCNodes == {"c", "h", "b", "m", "n", "o", "r"}
MCBehind == {"h", "b", "m", "n", "r"}

(* In the way of a fusion of these contractions.                           *)
MCHas(ch, types) == ch["c"].op.type \in types /\ ("b" \notin DOMAIN ch
                      \/ ch["b"].ins[1][1] # "v")

(* Of a BiasAdd under an Add, control fanouts are not looked at; of a      *)
(* contraction, control fanins; of the MatMul under a Reshape, nothing.    *)
MCItems ==
  MCBare(MCBiasChains \cup MCActivationChains \cup MCMulChains \cup MCAddChains
           \cup MCAddActivationChains \cup MCTwoBiases \cup MCTwoLayers)
  \cup {MCItem(ch, "r", d) : d \in {1, 2}, ch \in MCKerasChains}
  \cup UNION {MCVary(MCItem(ch, "r", 1), MCNodes, MCNodes, MCBehind, MCNodes) :
           ch \in {d \in MCBiasChains \cup MCActivationChains \cup MCMulChains :
                     MCHas(d, {"MatMul", "Conv2D", "BatchMatMulV2"})}}
  \cup UNION {MCVary(MCItem(ch, "r", 1), MCNodes, MCNodes, MCBehind,
                     {"c", "o", "m", "r"}) :
           ch \in {d \in MCAddChains \cup MCAddActivationChains :
                     MCHas(d, {"Conv2D"})}}
  \cup UNION {MCVary(MCItem(ch, "r", 1), MCBehind, MCBehind, MCBehind, MCBehind) :
           ch \in MCKerasChains}

(* An item like it in bfloat16, as a whole or at its last node only, on a  *)
(* machine that can run it or not.                                         *)
MCHalf(it) ==
  [it EXCEPT !.graph = [x \in DOMAIN @ |->
     [@[x] EXCEPT !.op.T = IF @ = "float" THEN "bfloat16" ELSE @]]]

MCMixedItems ==
  LET items == MCBare(MCActivationChains \cup MCAddActivationChains
                        \cup MCMulChains \cup MCTwoLayers)
      mixed == {MCHalf(it) : it \in items}
                 \cup {[it EXCEPT !.graph["r"].op.T = "bfloat16"] : it \in items}
  IN  mixed \cup {[it EXCEPT !.has_avx512 = FALSE] : it \in mixed}

MCAllItems == MCItems \cup MCMixedItems

-----------------------------------------------------------------------------
(* The items with what MCItems leaves out.                                 *)

MCKerasReadTwice ==
  UNION {MCReadTwice(MCItem(ch, "r", 1), {"c"}) : ch \in MCKerasChains}

MCContractionAfter ==
  UNION {MCAfter(it, {"c"}) : it \in MCBare(MCBiasChains)}

MCBiasFirst ==
  MCBare(MCAll(MCContractions({"MatMul", "Conv2D"}),
               MCAll(MCBias("b", "c"),
                     MCAll(MCOn("m", {"AddN"}, <<"b", "z">>),
                           MCOn("r", {"Relu"}, <<"m">>)))))

MCConv3D ==
  MCBare(MCAll(MCContractions({"Conv3D"}), MCBias("r", "c")))
=============================================================================
