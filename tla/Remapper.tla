------------------------------ MODULE Remapper ------------------------------
(***************************************************************************)
(* The remapper of graph/remapper/remapper.cc as the optimizer runs it: two *)
(* passes, each a loop over the sorted graph, consumers first, that tries  *)
(* the fusions.  A fusion gives the root of its pattern a fused op, with a *)
(* Mutation or several, and marks the other nodes of the pattern.  The     *)
(* marked nodes stay in the graph, and count as consumers, until one last  *)
(* Mutation of the pass removes them all.                                  *)
(***************************************************************************)
EXTENDS EmbeddingFusions, BatchNormFolds, ActivationFusions,
        TransformerFusions, RemapperMeaning
LOCAL INSTANCE SequencesExt

VARIABLES
  pass,         \* the optimizer's loop: 1 or 2
  order,        \* what the sort puts before each node of the pass
  todo,         \* the nodes the loop has not done with
  current,      \* the node the loop is at, if there is one to do
  is_visited, last_op, invalidated_nodes,
  pending,      \* Mutation::new_nodes_ and updated_nodes_, if an Apply failed
  outcome       \* "running", "done", "refused" (an error) or "aborted"

vars == <<item, graph, pass, order, todo, current, is_visited, last_op,
          invalidated_nodes, nodes_to_delete, pending, outcome>>

(* In the order in which the loop tries them.                              *)
Fusions(x) ==
  << AddGroupEmbeddingNode(x), AddFusedSafeEmbeddingLookupSparse(x),
     AddKerasDenseLayerFwd(x), AddContractionWithBiasAndAddActivation(x),
     AddContractionWithActivation(x), AddFusedMatMulSigmoid(x),
     AddMatMulBiasKerasBnFold(x), AddMatMulBiasMulAddFold(x),
     AddFuseMatmulBNfold(x), AddFusedMatMulMish(x),
     AddFusedMatMulMishDecomposed(x), AddContractionWithBiasAddAndAdd(x),
     AddContractionWithBias(x), AddContractionWithBiasAndActivation(x),
     AddContractionWithMul(x), AddFusedMatMulBiasAddAndGelu(x),
     AddFusedLayerNorm(x), AddFusedBatchMatMul(x),
     AddBatchMatMulBiasAddActivation(x), AddPadWithContraction(x) >>

Fusable(x) == \E f \in Range(Fusions(x)) : f # {}

(* A fusion starts at a node of one of these types; the loop does nothing  *)
(* at any other.                                                           *)
RootTypes ==
  {"ConcatV2", "Select", "SelectV2", "Reshape", "Relu", "Relu6", "Elu",
   "LeakyRelu", "Sigmoid", "Tanh", "Mish", "Add", "AddV2", "AddN", "BiasAdd",
   "BiasAddV1", "Mul", "MulNoNan", "Conv2D", "_FusedConv2D",
   "DepthwiseConv2dNative", "_FusedDepthwiseConv2dNative"}

IsUnsupportedOp(op) == op.T = "bfloat16" /\ ~item.has_avx512

Visits(G) == {x \in DOMAIN G : G[x].op.type \in RootTypes \/ IsUnsupportedOp(G[x].op)}

-----------------------------------------------------------------------------
(* The loop.  The sort may order the nodes in any way that has producers   *)
(* before consumers.                                                       *)

Nothing == [nodes |-> <<>>, edits |-> NoEdits]

LastOf(before, S) == {x \in S : \A y \in S : x \notin before[y]}

StartPass(G) == /\ order' = Before(G)
                /\ todo' = Visits(G)
                /\ IF todo' = {} THEN UNCHANGED current
                   ELSE current' \in LastOf(order', todo')
                /\ is_visited' = FALSE
                /\ last_op' = "none"
                /\ invalidated_nodes' = {}
                /\ nodes_to_delete' = {}
                /\ pending' = Nothing

Init == /\ item \in Items
        /\ graph = item.graph
        /\ pass = 1
        /\ order = Before(graph)
        /\ todo = Visits(graph)
        /\ current \in LastOf(order, todo)
        /\ is_visited = FALSE
        /\ last_op = "none"
        /\ invalidated_nodes = {}
        /\ nodes_to_delete = {}
        /\ pending = Nothing
        /\ outcome = "running"

(* A node just fused is looked at once more if its op is another now.      *)
Recheck == current \in invalidated_nodes /\ last_op # Type(current)

IsUnsupported == IsUnsupportedOp(graph[current].op)

Looping == outcome = "running" /\ todo # {}

(* The optimizer returns the error, and no graph.                          *)
Refuse ==
  /\ Looping /\ IsUnsupported
  /\ outcome' = "refused"
  /\ UNCHANGED <<item, graph, pass, order, todo, current, is_visited, last_op,
                 invalidated_nodes, nodes_to_delete, pending>>

MoveOn ==
  /\ Looping /\ ~IsUnsupported
  /\ is_visited /\ ~Recheck
  /\ todo' = todo \ {current}
  /\ IF todo' = {} THEN UNCHANGED current ELSE current' \in LastOf(order, todo')
  /\ is_visited' = FALSE
  /\ last_op' = Type(current)
  /\ UNCHANGED <<item, graph, pass, order, invalidated_nodes,
                 nodes_to_delete, pending, outcome>>

Look == /\ Looping /\ ~IsUnsupported
        /\ is_visited => Recheck
        /\ last_op' = Type(current)
        /\ is_visited' = TRUE
        /\ UNCHANGED <<item, pass, order, todo, current>>

Leave ==
  /\ Look
  /\ current \in nodes_to_delete \/ ~Fusable(current)
  /\ UNCHANGED <<graph, invalidated_nodes, nodes_to_delete, pending, outcome>>

(* What an edit adds to one that is pending.                               *)
Merged(d, e) ==
  [e EXCEPT !.put = @ @@ d.put, !.rem = (@ \cup d.rem) \ DOMAIN e.put,
            !.cadd = (@ \cup d.cadd) \ e.crem, !.crem = @ \cup d.crem]

(* One mutation on the graph of r.  If it is refused it stays pending, and *)
(* if the error is not ignored, it is the last of the fusion.              *)
Apply(r, m) ==
  LET nodes == r.pending.nodes \o SelectSeq(m.nodes,
                 LAMBDA w : ~Mutation(r.graph, NoEdits, <<>>, {})!HasSelfFanin(w))
      edits == [x \in DOMAIN m.edits \cap DOMAIN r.pending.edits |->
                  Merged(r.pending.edits[x], m.edits[x])]
               @@ m.edits @@ r.pending.edits
  IN  IF r.error # "ignored" THEN r
      ELSE IF Mutation(r.graph, edits, nodes, {})!Valid
      THEN [r EXCEPT !.graph = Mutation(r.graph, edits, nodes, {})!AppliedGraph,
                     !.pending = Nothing]
      ELSE [r EXCEPT !.pending = [nodes |-> nodes, edits |-> edits],
                     !.error = m.error]

(* TF_ABORT_IF_ERROR neither aborts nor returns: after an error that is    *)
(* ignored, the marks are set all the same.                                *)
Rewrite(f) ==
  LET direct == [x \in DOMAIN graph |->
                   IF x \in DOMAIN f.direct
                   THEN [graph[x] EXCEPT !.op = f.direct[x]] ELSE graph[x]]
  IN  \E r \in {FoldLeft(Apply, [graph |-> direct, pending |-> pending,
                                 error |-> "ignored"], f.mutations)} :
        /\ graph' = r.graph
        /\ pending' = r.pending
        /\ IF r.error = "ignored"
           THEN /\ invalidated_nodes' = invalidated_nodes \cup f.invalid
                /\ nodes_to_delete' = nodes_to_delete \cup f.early \cup f.gone
           ELSE /\ nodes_to_delete' = nodes_to_delete \cup f.early
                /\ UNCHANGED invalidated_nodes
        /\ IF r.error = "returned" THEN outcome' = "refused"
           ELSE UNCHANGED outcome

Remap ==
  /\ Look
  /\ current \notin nodes_to_delete
  /\ \E found \in {Fusions(current)} : \E k \in DOMAIN found :
       /\ \A j \in 1..k - 1 : found[j] = {}
       /\ \E f \in found[k] :
            IF f.check THEN Rewrite(f)
            ELSE /\ outcome' = "aborted"
                 /\ UNCHANGED <<graph, invalidated_nodes, nodes_to_delete,
                                pending>>

(* Mutant: one pass is enough. *)
IsOnlyPass == pass = 1

IsLastPass == pass = 2

(* All the marked nodes go or none; a refusal is not noticed.              *)
EndPass ==
  LET edits == [x \in DOMAIN pending.edits \ nodes_to_delete |-> pending.edits[x]]
      G == IF Mutation(graph, edits, pending.nodes, nodes_to_delete)!Valid
           THEN Mutation(graph, edits, pending.nodes, nodes_to_delete)!AppliedGraph
           ELSE graph
  IN  /\ outcome = "running" /\ todo = {}
      /\ graph' = G
      /\ IF IsLastPass
         THEN /\ outcome' = "done"
              /\ UNCHANGED <<pass, order, todo, current, is_visited, last_op,
                             invalidated_nodes, nodes_to_delete, pending>>
         ELSE pass' = 2 /\ StartPass(G) /\ UNCHANGED outcome
      /\ UNCHANGED item

Next == Refuse \/ MoveOn \/ Leave \/ Remap \/ EndPass

Spec == Init /\ [][Next]_vars

-----------------------------------------------------------------------------
(* The nodes somebody outside a fusion can see.                            *)
Unchanged == {x \in DOMAIN graph \cap DOMAIN item.graph :
                /\ x \notin nodes_to_delete
                /\ Type(x) = item.graph[x].op.type /\ graph[x] = item.graph[x]}

Observed == Unchanged \cup {x \in DOMAIN graph : IsInPreserveSet(x)}

OutputType(G, x) == IF G[x].op.type = "Cast" THEN G[x].op.value[2] ELSE G[x].op.T

-----------------------------------------------------------------------------
(* Properties.                                                             *)

(* Whatever is fused, in whatever order, no preserved node is removed, and *)
(* every preserved node and every node left as it was computes what it did *)
(* (AddFusedContractionNode, AddKerasDenseLayerFwd and the others).        *)
ValuesKept ==
  LET meant == Meaning(item.graph)
      now   == Meaning(graph)
  IN  /\ item.preserve \subseteq DOMAIN graph
      /\ \A x \in Observed : now[x] = meant[x]

(* In the end they have the type they had, and read what is of the type it *)
(* was; a Cast is from the type its input has (HaveSameDataType in the     *)
(* patterns, and the types the folds look at).                             *)
TypesKept == outcome = "done" =>
  /\ \A x \in Observed : OutputType(graph, x) = OutputType(item.graph, x)
  /\ \A x \in Unchanged : \A k \in DOMAIN graph[x].ins :
       OutputType(graph, In(x, k)) = OutputType(item.graph, In(x, k))
  /\ \A x \in DOMAIN graph : Type(x) = "Cast" =>
       graph[x].op.value[1] = OutputType(graph, In(x, 1))

(* What a control edge has run before a node still does: it is not lost    *)
(* with a node that is fused away (the HasControlFanin and                 *)
(* HasControlFanout of the patterns).                                      *)
OrderKept ==
  LET before == Before(item.graph)
      now    == Before(graph)
      seen   == Observed
  IN  \A x \in seen : \A y \in {x} \cup before[x] :
        item.graph[y].ctl \cap seen \subseteq now[x]

(* A pass marks only nodes nobody else needs, so that the mutation that    *)
(* removes all of them is not refused (remapper.cc, RunRemapper).          *)
DeletionsTake ==
  [][outcome = "running" /\ todo = {}
       => nodes_to_delete \cap DOMAIN graph' = {}]_vars

(* What a pattern accepts can be rewritten: no CHECK fails on the way, and *)
(* no mutation of a fusion is refused, which nothing would tell            *)
(* (TF_ABORT_IF_ERROR, CHECK(false) in AddFusedContractionNode).           *)
FusionsApply == outcome # "aborted" /\ pending = Nothing

(* Two passes are enough to fuse all that can be fused (cpu_optimizer.cc,  *)
(* Optimizer_Optimize).                                                    *)
TwoPassesSuffice ==
  outcome = "done" => \A x \in DOMAIN graph : ~Fusable(x)
=============================================================================
