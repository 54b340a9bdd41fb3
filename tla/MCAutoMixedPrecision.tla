------------------------- MODULE MCAutoMixedPrecision -------------------------
(***************************************************************************)
(* Items for TLC.  Node 1 is a Placeholder of floats unless said           *)
(* otherwise; nodes are named by their place.                              *)
(***************************************************************************)
EXTENDS AutoMixedPrecision

(* Op definitions, with the arguments the pass tells apart. *)
MCArg(t)    == [type_attr |-> t, type_list_attr |-> "", number_attr |-> "",
                type |-> "invalid"]
MCMany(t, n) == [MCArg(t) EXCEPT !.number_attr = n]
MCList(l)    == [MCArg("") EXCEPT !.type_list_attr = l]
MCFixed(t)   == [MCArg("") EXCEPT !.type = t]

MCTypes(names) == [a \in names |-> [kind |-> "type", allowed |-> {}]]
MCOp(ins, outs, attrs) ==
  [input_arg |-> ins, output_arg |-> outs, attr |-> attrs]
MCUnary  == MCOp(<<MCArg("T")>>, <<MCArg("T")>>, MCTypes({"T"}))
MCBinary == MCOp(<<MCArg("T"), MCArg("T")>>, <<MCArg("T")>>, MCTypes({"T"}))
MCSource == MCOp(<<>>, <<MCArg("dtype")>>, MCTypes({"dtype"}))

MCUnaries == {"Tanh", "Sigmoid", "Exp", "Relu", "Cos", "Identity", "Enter",
              "NextIteration"}
MCBinaries == {"MatMul", "AddV2"}
MCSources  == {"Placeholder", "VariableV2"}

MCList_ == MCFixed("variant")
MCElement == MCTypes({"element_dtype"})

MCOtherOps ==
  [Cast |-> MCOp(<<MCArg("SrcT")>>, <<MCArg("DstT")>>,
                 MCTypes({"SrcT", "DstT"})),
   Merge |-> MCOp(<<MCMany("T", "N")>>, <<MCArg("T"), MCFixed("int32")>>,
                  [a \in {"T", "N"} |-> [kind |-> IF a = "T" THEN "type"
                                                  ELSE "int",
                                         allowed |-> {}]]),
   Split |-> MCOp(<<MCArg("T")>>, <<MCMany("T", "N")>>,
                  [a \in {"T", "N"} |-> [kind |-> IF a = "T" THEN "type"
                                                  ELSE "int",
                                         allowed |-> {}]]),
   IdentityN |-> MCOp(<<MCList("T")>>, <<MCList("T")>>,
                      [a \in {"T"} |-> [kind |-> "list(type)",
                                        allowed |-> {}]]),
   FusedBatchNorm |-> MCOp(<<MCArg("T"), MCArg("T")>>,
                           <<MCArg("T"), MCArg("T")>>, MCTypes({"T"})),
   FusedBatchNormV2 |->
     MCOp(<<MCArg("T"), MCArg("U")>>, <<MCArg("T"), MCArg("U")>>,
          [a \in {"T", "U"} |->
             [kind |-> "type", allowed |-> IF a = "U" THEN {"float"} ELSE {}]]),
   L2Loss |-> MCOp(<<MCFixed("float")>>, <<MCFixed("float")>>, MCTypes({})),
   _Retval |-> MCOp(<<MCArg("T")>>, <<>>, MCTypes({"T"})),
   TensorListReserve |-> MCOp(<<>>, <<MCList_>>, MCElement),
   TensorListSetItem |-> MCOp(<<MCList_, MCArg("element_dtype")>>,
                              <<MCList_>>, MCElement),
   TensorListGetItem |-> MCOp(<<MCList_>>, <<MCArg("element_dtype")>>,
                              MCElement)]

MCOpDefs ==
  [op \in MCUnaries \cup MCBinaries \cup MCSources \cup DOMAIN MCOtherOps |->
     IF op \in MCUnaries THEN MCUnary
     ELSE IF op \in MCBinaries THEN MCBinary
     ELSE IF op \in MCSources THEN MCSource
     ELSE MCOtherOps[op]]

(* An allow, an infer, a deny and a clear op. *)
MCClasses == {"Tanh", "Sigmoid", "Exp", "Relu"}

(* One kernel for an op, that runs any type attribute T in types.          *)
MCKernel(op, types) ==
  [device |-> "CPU", priority |-> 0,
   constraint |->
     IF "T" \notin DOMAIN MCOpDefs[op].attr \/ op = "IdentityN" THEN <<>>
     ELSE <<[name |-> "T", kinds |-> {"type"}, allowed |-> types]>>]

(* Kernels for all ops, for one op not in bfloat16, named after it. *)
MCRegistries ==
  [without \in MCClasses \cup {"Merge", ""} |->
     [op \in DOMAIN MCOpDefs |->
        <<MCKernel(op, {"float", "int32", "variant"} \cup
                       (IF op = without THEN {} ELSE {"bfloat16"}))>>]]

-----------------------------------------------------------------------------
(* Nodes and graphs. *)
MCIn(n) == [node |-> n, port |-> 1]

MCTyped(op, ins, attr) ==
  [op |-> op, input |-> ins, attr |-> attr, device |-> "CPU"]

MCAttr(names, type) == [a \in names |-> SingleType(type)]

MCNode(op, from) ==
  MCTyped(op, [k \in DOMAIN from |-> MCIn(from[k])], MCAttr({"T"}, "float"))
MCPlaceholder == MCTyped("Placeholder", <<>>, MCAttr({"dtype"}, "float"))

MCNamed(nodes) ==
  [n \in DOMAIN nodes |->
     [name |-> <<n>>, op |-> nodes[n].op, device |-> nodes[n].device,
      attr |-> nodes[n].attr, input |-> nodes[n].input]]

MCNoUpdate == [add |-> [l \in ListNames |-> {}],
               remove |-> [l \in ListNames |-> {}]]

MCItem(nodes) ==
  [graph |-> MCNamed(nodes), preserve |-> {}, update |-> MCNoUpdate,
   registry |-> "", data_type |-> "unset",
   env_data_type |-> "BFLOAT16", unsafe_force_all |-> FALSE]

(* Every tree of four nodes of every class. *)
MCTrees ==
  {MCItem(<<MCPlaceholder>> \o [n \in 1..4 |-> MCNode(ops[n], <<from[n]>>)]) :
     ops \in {f \in [1..4 -> MCClasses] : \E n \in 1..4 : f[n] = "Tanh"},
     from \in {f \in [1..4 -> 1..4] : \A n \in 1..4 : f[n] <= n}}

(* Two nodes that a third joins, and one behind it. *)
MCJoins ==
  {MCItem(<<MCPlaceholder, MCNode(a, <<1>>), MCNode(b, <<f>>),
            MCNode(join, ins), MCNode(c, <<4>>)>>) :
     a \in MCClasses, b \in MCClasses, c \in MCClasses, f \in {1, 2},
     join \in MCBinaries, ins \in {<<2, 3>>, <<3, 2>>, <<1, 3>>}}

MCChain(ops) ==
  MCItem(<<MCPlaceholder>> \o [n \in DOMAIN ops |-> MCNode(ops[n], <<n>>)])

MCChains == {MCChain(ops) : ops \in [1..3 -> MCClasses]}

(* Chains of which one node is not to be processed, or one op has no       *)
(* bfloat16 kernel, or int32 goes through all of it.                       *)
MCSkips ==
  UNION {{[it EXCEPT !.preserve = {<<n>>}],
          [it EXCEPT !.graph[n].device = ""],
          [it EXCEPT !.graph[n].device = "XLA_CPU"],
          [it EXCEPT !.registry = it.graph[n].op]} :
           it \in MCChains, n \in 2..4}
  \cup {[it EXCEPT !.graph = [n \in DOMAIN @ |->
           [@[n] EXCEPT !.attr = MCAttr(DOMAIN @, "int32")]]] : it \in MCChains}

(* A Cast with two readers, from another type or in the middle; a node     *)
(* with two outputs; an op whose types are a list.                         *)
MCCast(from, src) ==
  MCTyped("Cast", <<MCIn(from)>>,
          [SrcT |-> SingleType(src), DstT |-> SingleType("float")])

MCCasts ==
  UNION {{MCItem(<<[MCPlaceholder EXCEPT !.attr = MCAttr({"dtype"}, "int32")],
                   MCCast(1, "int32"), MCNode(a, <<2>>), MCNode(b, <<2>>)>>),
          MCItem(<<MCPlaceholder, MCNode(a, <<1>>), MCCast(2, "float"),
                   MCNode(b, <<3>>)>>)} : a \in MCClasses, b \in MCClasses}

MCOut(n, p) == [node |-> n, port |-> p]
MCPorts ==
  UNION {{MCItem(<<MCPlaceholder, MCNode(a, <<1>>),
            MCTyped("Split", <<MCIn(2)>>, [T |-> SingleType("float"),
                                           N |-> Number(2)]),
            MCTyped(b, <<MCOut(3, 1)>>, MCAttr({"T"}, "float")),
            MCTyped(c, <<MCOut(3, 2)>>, MCAttr({"T"}, "float"))>>),
          MCItem(<<MCPlaceholder, MCNode(a, <<1>>),
            MCTyped("IdentityN", <<MCIn(1), MCIn(2)>>,
                    [T |-> ListOfTypes(<<"float", "float">>)]),
            MCTyped(b, <<MCOut(3, 1)>>, MCAttr({"T"}, "float")),
            MCTyped(c, <<MCOut(3, 2)>>, MCAttr({"T"}, "float"))>>),
          MCItem(<<MCPlaceholder, MCNode(a, <<1>>),
            MCTyped("FusedBatchNorm", <<MCIn(2), MCIn(1)>>,
                    MCAttr({"T"}, "float")),
            MCTyped(b, <<MCOut(3, 1)>>, MCAttr({"T"}, "float")),
            MCTyped(c, <<MCOut(3, 2)>>, MCAttr({"T"}, "float"))>>)} :
           a \in MCClasses, b \in MCClasses, c \in MCClasses}

(* A loop: Enter, Merge, a body of one node, NextIteration back to one or  *)
(* two Merges, and a reader of the Merge; or NextIteration back to no      *)
(* Merge at all.                                                           *)
MCMerge(ins) ==
  MCTyped("Merge", ins, [T |-> SingleType("float"), N |-> Number(Len(ins))])

MCLoop(a, b, c, back) ==
  MCItem(<<MCPlaceholder, MCNode("Enter", <<1>>),
           IF back = "Merge" THEN MCMerge(<<MCIn(2), MCIn(5)>>)
                             ELSE MCNode(back, <<5>>),
           MCNode(b, <<3>>), MCNode("NextIteration", <<4>>),
           MCNode(c, <<3>>), MCNode(a, <<1>>),
           MCMerge(<<MCIn(7), MCIn(5)>>)>>)

MCLoops ==
  UNION {{it, [it EXCEPT !.registry = "Merge"],
          [it EXCEPT !.preserve = {<<3>>}], [it EXCEPT !.preserve = {<<5>>}]} :
           it \in {MCLoop(a, b, c, "Merge") : a \in MCClasses,
                     b \in MCClasses \cup {"Cos"}, c \in MCClasses}}
  \cup {MCLoop("Relu", "Tanh", c, "Sigmoid") : c \in MCClasses}

(* A variable that is read through an Identity and an Enter. *)
MCVariables ==
  {MCItem(<<MCTyped("VariableV2", <<>>, MCAttr({"dtype"}, "float")),
            MCNode("Identity", <<1>>), MCNode("Enter", <<2>>),
            MCNode("Relu", <<3>>), MCNode(a, <<4>>), MCNode(b, <<2>>)>>) :
     a \in MCClasses, b \in MCClasses}

(* A list, set from a and got by b, set again by c and got by d; or a list *)
(* that leaves the graph, or that a node holds that is not processed, or   *)
(* one that holds no floats.                                               *)
MCElementOf(op, ins) ==
  MCTyped(op, ins, MCAttr({"element_dtype"}, "float"))

MCLists_(a, b, c, d) ==
  MCItem(<<MCPlaceholder, MCElementOf("TensorListReserve", <<>>),
           MCNode(a, <<1>>),
           MCElementOf("TensorListSetItem", <<MCIn(2), MCIn(3)>>),
           MCElementOf("TensorListGetItem", <<MCIn(4)>>),
           MCNode(b, <<5>>), MCNode(c, <<6>>),
           MCElementOf("TensorListSetItem", <<MCIn(4), MCIn(7)>>),
           MCTyped("Identity", <<MCIn(8)>>, MCAttr({"T"}, "variant")),
           MCElementOf("TensorListGetItem", <<MCIn(9)>>),
           MCNode(d, <<10>>)>>)

MCRetval == [name |-> <<12>>, op |-> "_Retval", device |-> "CPU",
             attr |-> MCAttr({"T"}, "variant"), input |-> <<MCIn(8)>>]

MCTensorLists ==
  UNION {{it, [it EXCEPT !.graph = Append(@, MCRetval)],
          [it EXCEPT !.preserve = {<<4>>}], [it EXCEPT !.preserve = {<<9>>}],
          [it EXCEPT !.graph[8].attr = MCAttr({"element_dtype"}, "int32"),
                     !.graph[7].attr = MCAttr({"dtype"}, "int32"),
                     !.graph[7].input = <<>>, !.graph[7].op = "Placeholder"]} :
           it \in {MCLists_(a, b, c, d) :
                     a \in {"Tanh", "Relu", "Exp"}, b \in {"Tanh", "Sigmoid"},
                     c \in {"Tanh", "Exp"}, d \in MCClasses}}

(* Behind an Exp a list that a preserved node holds, and behind the list   *)
(* an addition between two allowlist ops.                                  *)
MCBehindUnsafeList ==
  {[MCItem(<<MCPlaceholder, MCElementOf("TensorListReserve", <<>>),
             MCNode("Exp", <<1>>),
             MCElementOf("TensorListSetItem", <<MCIn(2), MCIn(3)>>),
             MCElementOf("TensorListGetItem", <<MCIn(4)>>),
             MCNode("Tanh", <<1>>), MCNode("AddV2", <<5, 6>>),
             MCNode("Tanh", <<7>>)>>)
      EXCEPT !.preserve = p] : p \in {{}, {<<2>>}}}

MCSkippedCasts == {[it EXCEPT !.preserve = {<<2>>}] : it \in MCCasts}

(* What is refused: a graph that does not fit the op definitions, options. *)
MCRefused ==
  LET it == MCChain(<<"Tanh", "Relu">>)
      Updated(l, op) == [MCNoUpdate EXCEPT !.add[l] = {op}]
  IN  {[it EXCEPT !.graph[3].op = "Unknown"],
       [it EXCEPT !.graph[3].input = <<>>],
       [it EXCEPT !.graph[3].attr = MCAttr({"dtype"}, "float")],
       [it EXCEPT !.graph[3].attr = MCAttr({"T", "dtype"}, "float")],
       [it EXCEPT !.graph[3].input = <<MCIn(0)>>],
       [it EXCEPT !.data_type = "FLOAT16"],
       [it EXCEPT !.env_data_type = "FLOAT16"],
       [it EXCEPT !.data_type = "BFLOAT16", !.env_data_type = "FLOAT16"],
       [it EXCEPT !.unsafe_force_all = TRUE],
       [it EXCEPT !.update = Updated("DENYLIST", "Relu")],
       [it EXCEPT !.update = [Updated("DENYLIST", "Relu")
                                EXCEPT !.remove["CLEARLIST"] = {"Relu"}]]}

MCItems == MCTrees \cup MCJoins \cup MCSkips \cup MCCasts \cup MCPorts
           \cup MCLoops \cup MCVariables \cup MCTensorLists \cup MCRefused
=============================================================================
