-------------------------- MODULE EmbeddingFusions --------------------------
(***************************************************************************)
(* The fusions of graph/remapper of embedding lookups: gathers that are    *)
(* concatenated, and TensorFlow's safe_embedding_lookup_sparse.            *)
(***************************************************************************)
EXTENDS RemapperGraph, TLC
LOCAL INSTANCE SequencesExt
LOCAL INSTANCE FiniteSetsExt

(* The maximal runs of positions at which the partial sequence f is the    *)
(* same.                                                                   *)
Segments(f) ==
  {I \in {first..last : first, last \in DOMAIN f} :
     /\ I # {} /\ I \subseteq DOMAIN f /\ \A v \in I : f[v] = f[Min(I)]
     /\ \A w \in {Min(I) - 1, Max(I) + 1} \cap DOMAIN f : f[w] # f[Min(I)]}

ByPosition(segments) == SetToSortSeq(segments, LAMBDA I, J : Min(I) < Min(J))

-----------------------------------------------------------------------------
(* GroupEmbedding.  An input of a ConcatV2 is gathered from a table, and   *)
(* checked perhaps, once or more: what is infinite becomes zero.  A check  *)
(* may take a Cast with it.                                                *)

kMaxUnwrapDepth == 20

IsSafeCast(x) ==
  /\ Type(x) = "SelectV2" /\ Len(graph[x].ins) >= 3
  /\ Type(In(x, 1)) = "IsInf" /\ Type(In(x, 2)) = "ZerosLike"
  /\ In(In(x, 1), 1) = In(x, 3)

RECURSIVE Unwrap(_, _)
Unwrap(x, depth) ==
  IF depth > 0 /\ IsSafeCast(x)
  THEN LET e     == In(x, 3)
           casts == {y \in {e} : Type(y) = "Cast"}
           inner == Unwrap(IF casts = {} THEN e ELSE In(e, 1), depth - 1)
       IN  [inner EXCEPT !.op_tokens = Append(@, "SafeCastCheck"),
              !.remove = @ \cup {x, In(x, 1), In(x, 2)} \cup casts]
  ELSE [gather |-> x, op_tokens |-> <<>>, remove |-> {x}]

(* A gather that is not checked must be of constants.                      *)
IsGatherOfConstants(g, op_tokens) ==
  /\ Type(g) \in {"Gather", "GatherV2"} /\ Len(graph[g].ins) >= 3
  /\ op_tokens = <<>> => Type(In(g, 2)) = "Const" /\ item.shape[In(g, 2)] # "matrix"
  /\ Type(In(g, 3)) = "Const"

MatchGatherInput(x) ==
  {[table |-> graph[u.gather].ins[1], index |-> graph[u.gather].ins[2],
    axis |-> graph[In(u.gather, 3)].op.value,
    op_tokens |-> u.op_tokens, remove |-> u.remove] :
     u \in {w \in {Unwrap(x, kMaxUnwrapDepth)} : IsGatherOfConstants(w.gather, w.op_tokens)}}

Values(x) == 1..Len(graph[x].ins) - 1

(* The inputs that match, by their positions.                              *)
Gathers(x) ==
  LET found == [v \in Values(x) |-> MatchGatherInput(In(x, v))]
  IN  [v \in {w \in Values(x) : found[w] # {}} |-> CHOOSE g \in found[v] : TRUE]

Blocks(runs) == ByPosition(Segments([v \in UNION runs |-> TRUE]))

(* All the inputs, or else those in runs of two or more of one table.  The *)
(* chain of checks is taken to be that of the first input there is one of. *)
Grouped(g, full) ==
  LET segments == Segments([v \in DOMAIN g |-> <<g[v].table, g[v].axis>>])
      checked  == {v \in DOMAIN g : g[v].op_tokens # <<>>}
  IN  {[gathers |-> g, runs |-> runs, blocks |-> Blocks(runs), full |-> full,
        fused_ops |-> IF full THEN g[1].op_tokens
                      ELSE IF checked = {} THEN <<>> ELSE g[Min(checked)].op_tokens] :
         runs \in {IF full THEN segments
                   ELSE {I \in segments : Cardinality(I) >= 2}} \ {{}}}

GroupEmbedding(x) ==
  IF Type(x) = "ConcatV2" /\ Cardinality(Values(x)) >= 2
  THEN UNION {Grouped(g, /\ DOMAIN g = Values(x)
                         /\ Cardinality({g[v].axis : v \in DOMAIN g}) = 1) :
              g \in {Gathers(x)}}
  ELSE {}

(* Mutant: nodes go whoever reads them. *)
DeleteFusionNodes(x, remove) == remove

SafeDeleteFusionNodes(x, remove) ==
  {y \in remove : Consumers(y) \subseteq remove \cup {x}}

BlockName(x, m, b) ==
  x \o "/_ZenGroupEmbedding"
    \o (IF Len(m.blocks) > 1 THEN "_" \o ToString(b - 1) ELSE "")

(* One node for block b of runs: its tables, all indices, and what passes  *)
(* through.                                                                *)
EmbeddingNode(x, m, b, passthrough) ==
  LET first == Min(m.blocks[b])
      op(runs) ==
        [type |-> "_ZenGroupEmbedding", fused |-> m.fused_ops, T |-> "none",
         value |-> [gathers_per_table |-> [k \in DOMAIN runs |-> Cardinality(runs[k])],
                    gather_axis |-> m.gathers[first].axis],
         flags |-> {}]
      ins(runs) ==
        [k \in DOMAIN runs |-> m.gathers[Min(runs[k])].table]
          \o [k \in 1..Cardinality(m.blocks[b]) |-> m.gathers[first + k - 1].index]
          \o passthrough
  IN  CHOOSE node \in {FusedNode(BlockName(x, m, b), op(runs), ins(runs)) :
                         runs \in {ByPosition({I \in m.runs : I \subseteq m.blocks[b]})}} :
        TRUE

(* The inputs of the ConcatV2, with each block replaced by its node.       *)
ReducedInputs(x, m) ==
  LET Starts(k) == {b \in DOMAIN m.blocks : Min(m.blocks[b]) = k}
      Inner(k)  == \E b \in DOMAIN m.blocks : k \in m.blocks[b] \ {Min(m.blocks[b])}
      Input(k)  == {<<BlockName(x, m, b), 1>> : b \in Starts(k)}
  IN  FoldLeftDomain(LAMBDA acc, k :
        IF Inner(k) THEN acc
        ELSE acc \o SetToSeq(IF Starts(k) = {} THEN {graph[x].ins[k]} ELSE Input(k)),
        <<>>, graph[x].ins)

(* If nothing is left of the ConcatV2, or its last input only, the new     *)
(* node takes its place; it is deleted whether it is preserved or not.     *)
ReplaceByEmbedding(x, m, rest) ==
  Fusion(<<[nodes |-> <<EmbeddingNode(x, m, 1, [k \in 1..Cardinality(rest) |->
                                                 graph[x].ins[Max(rest)]])>>,
            edits |-> FollowInstead(x, <<BlockName(x, m, 1), 1>>),
            error |-> "marks"]>>, {x}, {x}, TRUE)

FeedByEmbeddings(x, m) ==
  Fusion(<<[nodes |-> [b \in DOMAIN m.blocks |-> EmbeddingNode(x, m, b, <<>>)],
            edits |-> [y \in {x} |->
                         DiffTo(x, [graph[x] EXCEPT !.ins = ReducedInputs(x, m)])],
            error |-> "marks"]>>, {x}, {}, TRUE)

AddGroupEmbeddingNode(x) ==
  {[IF Len(m.blocks) = 1 /\ Values(x) \ UNION m.runs \subseteq {Max(Values(x))}
    THEN ReplaceByEmbedding(x, m, Values(x) \ UNION m.runs) ELSE FeedByEmbeddings(x, m)
      EXCEPT !.early =
        SafeDeleteFusionNodes(x, UNION {m.gathers[v].remove : v \in UNION m.runs})] :
     m \in GroupEmbedding(x)}

-----------------------------------------------------------------------------
(* safe_embedding_lookup_sparse: the root selects zeros for the rows that  *)
(* SparseFillEmptyRows (sfr) filled.  Its outputs are the indices, the     *)
(* values and the indicator.                                               *)

IsSparseSegmentOp(x) ==
  Type(x) \in {"SparseSegmentSum", "SparseSegmentMean", "SparseSegmentSqrtN"}

(* Negative values are left out before: the nodes that do it, if they do,  *)
(* consumers first.  With what values are compared is not looked at.       *)
UpstreamFilter(sfr) ==
  LET gv2_indices == In(sfr, 1)
      gv2_values  == In(sfr, 2)
      reshape     == In(gv2_indices, 2)
      where       == In(reshape, 1)
      ge          == In(where, 1)
  IN  IF /\ Type(gv2_indices) = "GatherV2" /\ Type(gv2_values) = "GatherV2"
         /\ Type(reshape) = "Reshape" /\ In(gv2_values, 2) = reshape
         /\ Type(where) = "Where" /\ Type(ge) = "GreaterEqual"
         /\ In(ge, 1) = In(gv2_values, 1)
      THEN <<gv2_indices, gv2_values, reshape, where, ge>> ELSE <<>>

(* The result is reshaped to the original batch dimensions and its own     *)
(* last one.                                                               *)
AdjustShapeOf(shape, reshape) ==
  LET concat  == In(reshape, 2)
      slices(embed) == {k \in DOMAIN graph[concat].ins :
                          Type(In(concat, k)) = "Slice" /\ In(concat, k) # embed}
      batch(embed)  == In(concat, Min(slices(embed)))
      source(slice) == IF Type(In(slice, 1)) = "Cast"
                       THEN graph[In(slice, 1)].ins[1] ELSE graph[slice].ins[1]
  IN  {[reshape |-> reshape, dense_shape |-> source(batch(embed)),
        remove |-> {shape, embed, concat, batch(embed)}] :
         embed \in {y \in DOMAIN graph :
                      /\ FeedsOnly(shape, y) /\ Type(y) = "Slice"
                      /\ Len(graph[reshape].ins) >= 2 /\ Type(concat) = "ConcatV2"
                      /\ \E r \in Readers(y) : r[1] = concat
                      /\ slices(y) # {}}}

ReadersOfType(x, type) == {y \in {r[1] : r \in Readers(x)} : Type(y) = type}

(* The Shape and the Reshape that read x; of several, those the fanouts    *)
(* have last.  That there are no other readers is not looked at.           *)
AdjustShape(x) ==
  LET pairs == {<<s, r>> : s \in ReadersOfType(x, "Shape"),
                           r \in ReadersOfType(x, "Reshape")}
  IN  IF pairs = {} THEN {{}} ELSE {AdjustShapeOf(p[1], p[2]) : p \in pairs}

SafeEmbeddingLookupSparse(x) ==
  LET tile          == In(x, 1)
      zeros_like    == In(x, 2)
      segment       == In(x, 3)
      table         == In(segment, 1)
      sfr           == In(segment, 2)
      strided_slice == In(segment, 3)
      reshape       == In(tile, 1)
  IN  IF /\ Type(x) \in {"Select", "SelectV2"} /\ ~HasControlFaninOrFanout(x)
         /\ Len(graph[x].ins) = 3
         /\ Type(tile) = "Tile" /\ Type(zeros_like) = "ZerosLike"
         /\ IsSparseSegmentOp(segment) /\ In(zeros_like, 1) = segment
         /\ Type(sfr) = "SparseFillEmptyRows" /\ graph[segment].ins[2] = <<sfr, 2>>
         /\ Type(strided_slice) = "StridedSlice"
         /\ graph[strided_slice].ins[1] = <<sfr, 1>>
         /\ Type(reshape) = "Reshape" /\ graph[reshape].ins[1] = <<sfr, 3>>
         /\ Type(table) \in {"Identity", "Const"}
      THEN {[segment |-> segment, table |-> table, sfr |-> sfr,
             remove |-> {tile, reshape, zeros_like, segment, strided_slice},
             filter |-> UpstreamFilter(sfr), adjust |-> adjust] :
              adjust \in AdjustShape(x)}
      ELSE {}

(* The indices and values, from before they were filtered.                 *)
SparseInputs(m) ==
  IF m.filter = <<>> THEN <<graph[m.sfr].ins[1], graph[m.sfr].ins[2]>>
  ELSE [k \in 1..2 |-> graph[m.filter[k]].ins[1]]

(* The nodes of the lookup go, sfr and an Identity of the table only if    *)
(* nobody else reads them, and those of the filter if their readers go.    *)
LookupNodes(x, m) ==
  LET fixed  == m.remove \cup UNION {a.remove \cup {x} : a \in m.adjust}
      inside == m.remove \cup {x} \cup Range(m.filter)
      loose  == {y \in {m.sfr} : Consumers(y) \subseteq inside}
                  \cup {y \in {m.table} : /\ Type(y) = "Identity"
                                          /\ Consumers(y) = {m.segment}}
      Drop(gone, y) == IF Consumers(y) \subseteq gone \cup nodes_to_delete \cup {x}
                       THEN gone \cup {y} ELSE gone
  IN  FoldLeft(Drop, m.remove \cup loose, m.filter) \cup fixed

(* The fused node takes the place of the root, or of the Reshape behind.   *)
AddFusedSafeEmbeddingLookupSparse(x) ==
  {LET table  == IF Type(m.table) = "Identity" THEN graph[m.table].ins[1]
                 ELSE <<m.table, 1>>
       names  == {a.reshape : a \in m.adjust}
       dense  == graph[m.sfr].ins[3]
       op     == [type |-> "_ZenSafeEmbeddingLookupSparse", fused |-> <<>>,
                  T |-> graph[m.segment].op.T, value |-> Type(m.segment),
                  flags |-> IF names = {} THEN {} ELSE {"has_adjust_shape"}]
       node   == FusedNode(IF names = {} THEN x ELSE CHOOSE n \in names : TRUE, op,
                   <<table>> \o SparseInputs(m)
                     \o << dense, graph[m.sfr].ins[4],
                           IF names = {} THEN dense
                           ELSE CHOOSE d \in {a.dense_shape : a \in m.adjust} : TRUE >>)
   IN  IF op.T = "none" THEN Fusion(<<>>, {}, {}, TRUE)
       ELSE Fusion(<<Adding(<<node>>, "marks")>>, {x} \cup names,
                   LookupNodes(x, m), TRUE) :
     m \in SafeEmbeddingLookupSparse(x)}
=============================================================================
