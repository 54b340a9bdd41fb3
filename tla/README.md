# Verification of the ZenDNN TensorFlow plugin

The plugin hands TensorFlow a graph optimizer and a set of CPU kernels. The
optimizer is where the program keeps state and makes decisions: it edits a
graph of nodes through a mutation API, over and over, and a mistake there
changes what a model computes, or leaves a graph that TensorFlow rejects. The
kernels turn shapes and attributes into parameters of a library, and a mistake
there leaves numbers wrong or places unwritten. This project models both in
TLA+, together with the containers and counts they are built on, checks them
with TLC and proves the core with TLAPS.

Paths below are relative to `src/tensorflow_plugin/src/amd_cpu/`.

## 1. Inventory

| Component | Code | State | Operations | Hard behaviour | Correct when |
|---|---|---|---|---|---|
| Mutation | `graph/utils/graph_view.{h,cc}`, `graph_view_internal.h` | one diff per edited node, nodes to remove, nodes to add | update name, op, device, attributes; add, update, remove fanins; remove and add nodes; `Apply`, `Reset` | calls amend and cancel each other; checks are local to what changes; all or nothing | a valid mutation makes exactly the graph asked for, and never a dangling fanin |
| MutableGraphView | the same | node vector; in each node fanins and fanouts that point at each other by index; counts and indices; the `GraphDef` | construction, the stages of `ApplyMutationInternal`, `SortTopologically` | in-place swaps, renames half done, hash iteration order | both ends of every edge, the `GraphDef`, the counts and the indices agree, and the effect is that of Mutation |
| Remapper | `graph/remapper/remapper.{h,cc}` | graph, loop position, nodes invalidated, nodes to delete | twenty fusions, `RunRemapper` | a fusion works on what others left; deletion is delayed to the end; errors are swallowed | preserved nodes stay and compute what they did, in the order they did |
| Optimizer entry | `graph/cpu_optimizer.cc`, `config_util.cc` | graph between passes | `Optimizer_Optimize`: mixed precision, two remapper passes, layout | an error in one pass after others ran | a graph is returned only if every pass went through |
| Layout pass | `graph/zendnn/zen_layout.cc`, `graph/utils/layout_utils.cc` | view, one mutation per node | replace an op by its Zen op | lists of ops and attributes that must match those of other files | every replaced op has a kernel and computes what it did |
| Auto mixed precision | `graph/auto_mixed_precision` | sets of type vertices, lists by handle, the graph | select, propagate (five traversals), match, cast | order of worklists, loops, handles, a second run | no edge joins two types; what must stay float does |
| Name-based view | `graph/graph_view` | graph, fanouts by port, two bounds per node | add, remove, update, swap, rename fanins and nodes | control inputs deduplicated and ordered in place, bounds | fanouts mirror inputs, calls do what they say |
| Patterns and helpers | `graph/utils` (`pattern_utils`, `op_types`, `graph_properties`, `symbolic_shapes`) | match under construction | `SubGraphMatcher` | partial matches undone | a match is a match |
| Kernels | `kernels/zendnn` | fused computation, a cached setting, the library's cache of weights | constructor and `Compute` of each kernel | odd shapes, broadcasting, failures of the library, changing weights | the answer is what the op means |
| Op registration | `ops/zendnn` | none | registration | the attributes an op has | none is missing |
| Reference counting | `util/refcount.h` | two counts, a pointer and callbacks behind a mutex | `Ref`, `Unref`, `TryRef`, `Notify`, the calls of `WeakPtr` | threads race for the last reference; callbacks run unlocked | an object dies once, no weak pointer gives it out afterwards, everyone is told |
| Tensor shapes | `util/tensor_shape.{h,cc}`, `overflow.h` | 16 bytes, or a vector on the heap | construct, edit, merge, copy, move | three representations, overflow, unknown sizes | a shape is a list of sizes with its product, and owns its vector alone |
| Hash tables | `util/gtl/flat{rep,map,set}.h` | buckets, counts | insert, find, erase, reserve, copy, iterate | tombstones, resizing, markers | it is a map, and searches end |
| Broadcasting | `util/bcast.h`, `matmul_bcast.h` | none | `BCast`, `MatMulBCast` | sizes of one and zero anywhere | as NumPy |
| Rest of the runtime support | `util` (`op_kernel.cc`, `plugin_tensor.*`, `zen_utils.h`, attributes, strings) | kernel registry | registration, accessors | none | a kernel is found |
| Build, Python package, examples, tests | the rest of `src` | none | none | none | none |

How they interact: TensorFlow calls `Optimizer_Optimize` with a graph and a set
of nodes to preserve. Each pass builds a view on the graph, sorts it, and
rewrites it: the remapper and the layout pass by mutations of the indexed view
(the client fills a `Mutation`, `Apply` checks it and rewires the view and the
`GraphDef` together), mixed precision by calls of the name-based view. The
remapper marks the nodes its fusions made superfluous and removes them in one
mutation at the end of each pass; the layout pass gives nodes the ops of the
plugin's kernels. One thread does all of this. Kernels run later, on threads of
TensorFlow's, and share with the optimizer only lists of ops, names of
attributes and settings; what kernels share among themselves they count: the
buffers of tensors are `RefCounted`.

`PROJECT.json` lists, under `hazards`, what in this code is hard to test, each
at its line, with the properties that cover it.

## 2. Modules

| Module | Models | State and actions |
|---|---|---|
| `NodeViewDiff` | `NodeViewDiff` and the functions on it in `graph_view_internal.h` | pure operators on a diff `d` of a node `v`; `regular_inputs_to_update` and `..._to_add` are one partial function, `put` |
| `GraphMutation` | the Mutation API over names | `graph`, `diffs`, `removed`, `fresh`; one action per kind of call, `Apply` with its checks, `Reset`, `SortTopologically` |
| `GraphIntent` | what `graph_view.h` promises a client | a draft of the graph, edited directly and committed whole or not at all |
| `MutableGraphView` | the view over indices | one operator per internal function of `graph_view.cc` with its name; `Apply` composes all stages of `ApplyMutationInternal` |
| `RemapperGraph` | what fusions see and make | `item`, `graph`, `nodes_to_delete`; questions about neighbours, the record of a fusion |
| `PatternMatcher` | `SubGraphMatcher` | the matches of a pattern at a node |
| `ContractionFusions`, `ActivationFusions`, `TransformerFusions`, `EmbeddingFusions`, `BatchNormFolds` | the twenty fusions of `remapper.cc` | for each `Find...` the set of its matches, for each `Add...` the mutations it makes |
| `Remapper` | `RunRemapper`, twice | loop position, marks, `pending`; actions `Refuse`, `MoveOn`, `Leave`, `Remap`, `EndPass` |
| `RemapperMeaning` | what a graph computes | for the properties only |
| `Optimizer` | `Optimizer_Optimize` and the layout pass | `optimized_graph`; the steps of `Remapper`, then `Layout` |
| `AutoMixedPrecision` | `auto_mixed_precision.cc`, the lists of `auto_mixed_precision_lists.h`, `node_type_attr_map` and the search for a kernel | sets of vertices, clusters, `phase`; one action per stage of `Optimize`, on pure operators |
| `NamedGraphView` | `mutable_graph_view.cc` and `graph_view.h` | a record of partial functions on addresses; one action per call |
| `NamedGraph` | what `mutable_graph_view.h` promises | nodes with inputs and a set of control inputs |
| `RefCount` | `RefCounted`, `WeakRefCounted`, `WeakPtr` of `refcount.h` on threads | the two counts, the data behind the mutex, and `pc` with the locals of each client; one action per atomic step |
| `WeakReference` | what `refcount.h` promises | who has the object, whether it lives, who missed it, callbacks called |
| `TensorShape` | `tensor_shape.{h,cc}` | words or a vector in each shape, `heap`, `crashed`; one action per call |
| `DimensionLists` | what `tensor_shape.h` promises | a list of sizes per shape |
| `FlatMap` | `flatrep.h`, `flatmap.h`, `flatset.h` | slots with marks, counts, bounds; one action per call |
| `Dictionary` | what `flatmap.h` promises | a partial function |
| `Broadcasting` | `bcast.h`, `matmul_bcast.h` | pure operators |
| `MatMulKernel` | `Compute` of products, plain, batched and of an Einsum; `InitializeFusedComputation`, for the constructors of all kernels | the result of a call, as a function of node, shapes and the library's answer |
| `ConvKernel` | `Compute` of convolutions and pools, with `ConvUtil` and `PoolParameters` | the same |
| `RowKernels` | `Compute` of softmax, layer normalization and both embeddings | the same, of indices, too |
| `ZenLibrary` | external: what the library does with its parameters | terms for places of an output |
| `Kernels` | a node with a kernel | `Construct`, and one action per kernel's `Compute` |
| `GraphMutation_proofs`, `RefCount_proofs`, `TensorShape_proofs`, `FlatMap_proofs`, `AutoMixedPrecision_proofs`, `Kernels_proofs`, `NamedGraphView_fanins` and `NamedGraphView_proofs` | proofs | |
| `MC...` | instances for TLC; `MCNamedGraphView` states the refinement of `NamedGraph`, too, which no proof is about | |

How they compose. `GraphMutation` and `MutableGraphView` both EXTEND
`NodeViewDiff`, so that they share the diffs. `GraphMutation` implements
`GraphIntent`, and `MutableGraphView` implements `GraphMutation`: the mapping
reads the graph off the `NodeDef`s and turns indices into names. `Remapper`
applies each of its mutations through `GraphMutation`: it instantiates `Valid`
and `AppliedGraph`. `Optimizer` EXTENDS `Remapper`, and asks
`InitializeFusedComputation` of `MatMulKernel`, which the kernels' constructors
share, whether what it hands back can be constructed. `Kernels` composes all kernels, `Broadcasting` and `ZenLibrary`. `NamedGraphView`, `RefCount`, `TensorShape` and `FlatMap`
implement `NamedGraph`, `WeakReference`, `DimensionLists` and `Dictionary`.
`AutoMixedPrecision` makes its edits directly, and is not composed into
`Optimizer`: it runs before, only if bfloat16 is enabled, and the remapper's
items include graphs as it leaves them (bfloat16 as a whole, or mixed).

Abstractions, and why they lose nothing the properties see:

* Op, device and attributes of a node are one value `op` in the mutation
  modules. They are edited independently of the rest and never checked
  (`CheckKernelRegisteredForNodes` cannot fail, its checks are commented out).
* Positions and ports count from 1. Port `Control` (0) stands for `kControlSlot`.
* In `MutableGraphView` a hash container is iterated in each order of the
  constant `Orders`; a `NodeDef`'s address, the key of the counts, is `id`.
  A read of what the code leaves undefined sets `status` to `"undefined"`.
* In the remapper's modules a node is its op type, fused ops, data type,
  value, flags and edges. Shapes are "scalar", "vector" or "matrix" with a last
  dimension, fixed per item as in the code, where they are inferred from the
  item and never from the rewritten graph; so broadcasting of the operands of a
  `_FusedBatchMatMulV2` is not seen. A matrix Const is never a bias or a scale.
  Concatenations are along the last dimension. The embedding lookups have one
  type of index, and the filter of a safe lookup is taken to keep all values.
  The sort is any order with consumers last: the loop takes a node none of
  whose consumers is still to do, and visits only nodes a fusion may start at.
* A value is a number modulo a prime (`RemapperGraph`): the laws the fusions use
  (sums and products in any order, a contraction linear in its weights) hold of
  these numbers, and what is computed otherwise comes out apart but for an
  accident. The definitions of a Gelu and a Mish as subgraphs hold of them too.
* The layout pass rewrites a node in place, one mutation per node: it adds a node
  of the same name and fanins, so each is valid and all are one step. It looks
  neither at the data format nor at the nodes to preserve.
* Every node of the remapper's and the layout pass's graphs is on the CPU, and
  every convolution has its channels last, so the test of the device
  (`zen_layout.cc:157`) and that of the format of a contraction under an Add
  (`remapper.cc:429-435`) are left out.
* In `AutoMixedPrecision` each worklist is a set from which any vertex may be
  taken, unless the result cannot depend on it; node names are sequences,
  because the name of a cast is made of the name it reads. Attributes that
  start with an underscore are left out.
* In `NamedGraphView` addresses are 1 to `MaxNodes`, and may be reused
  after a node is deleted. The order of nodes in the `GraphDef` is left out. A
  loop is a recursive function over the positions of the inputs, or over the
  addresses where it goes through a set, one edit a turn. The Identities a call
  makes for its controls are made before its other edits.
* In `RefCount` there is one object, and a client is a thread with at most one
  strong reference and one `WeakPtr`. A step is one atomic operation, or what is
  done with the mutex held when that is no more than one step; `Notify` and
  `GetNewRef` keep it over several. The operations on one atomic have one order
  for all threads, whatever memory order they name. `compare_exchange_weak` may
  fail for no reason. The mutex (`util/mutex.h` over a library) is external.
  `WeakPtr` is a public class nothing else in the plugin uses yet; all of its
  calls are modelled, in any order a client may make them.
* In `TensorShape` the widths of words, of `int64` and of the dimension count
  are constants, so that a small instance has sizes on both sides of every
  bound. The byte of the data type and assignments of a shape to itself are left
  out; the fast path of `InitDims` for small sizes is not.
* In `FlatMap` the hash of a key is given in two halves, the mark and the
  position; iteration order is that of the slots.
* In the kernels' modules a place of an output holds a term: which places of the
  inputs were multiplied and summed, the version of the weights, the bias and
  what came after. Sizes are up to five. The data types, the bounds of `int`
  and the formats that split a dimension are left out, and so is the order of
  the sums. A softmax or a pool is a term for the places it is of. A failed CHECK
  ends the process (`status` is `"aborted"`). The sizes of a bias and
  of the addend of a MatMul are those the output asks for: the kernels never
  compare them. Which of the library's two interfaces a call uses is free, as
  threads race for the setting (`zen_zendnnl_utils.h:35`).

## 3. Runs

| Run | Shows |
|---|---|
| `mutation` | `TypeOK`, `GraphWellFormed` and `ImplementsIntent` after any three edits and an Apply on four graphs of three nodes, with one name free for renames and two for new nodes |
| `view_renames` | `TwinsAgree`, `ViewMatchesGraphDef`, `ImplementsMutation`, with renames and overwriting, for two iteration orders |
| `view_rewrites` | `CountsAgree` and `DiffsFound` after any three calls without renames and an Apply, a new node among them |
| `view_sort` | `SortIsTopological` on graphs out of order, with loops of each kind |
| `optimizer` | `ValuesKept`, `TypesKept`, `OrderKept`, `DeletionsTake`, `FusionsApply`, `TwoPassesSuffice` of the remapper, `KernelsAccept` and `OutputKept` of the whole, on 1595 graphs, in float, in bfloat16 and mixed, with AVX512 and without |
| `bias_first` | violates `ValuesKept`: section 4 |
| `amp` | `TypesAgree`, `EdgesKept`, `RerunKeeps`, `SupportedOnly`, `DangerKeepsFloat`, `OneColorPerList`, each graph optimized twice |
| `named_view` | `InputsWellFormed`, `FanoutsAreFound` and `ImplementsNamedGraph` after any three calls |
| `refcount` | `CountsExact`, `NoUseAfterFree`, `AllNotified`, `ImplementsWeakReference` and `ObjectFreed`, for three threads and two callbacks |
| `shapes` | `OneOwner`, `ElementsCounted`, `ImplementsLists` for two shapes |
| `flat_map` | `SearchesEnd`, `FoundOnce`, `ImplementsDictionary` for four keys and up to two buckets |
| `kernels` | `Computes`, `AcceptsValid`, `BatchesBroadcast` for each kernel and fusion on small shapes of every kind, 421 nodes, constructed and called again and again |

Bounds and why they are enough.

* Mutations: Apply looks at a node, at its fanins and at the consumers of a name
  that goes away; three nodes, a fourth name and three calls make every pair of
  these meet: a rename onto a used, removed or new name, a chain or swap of two
  renames, a removal whose consumer is edited, renamed, overwritten or removed.
  `MaxFanin` is one position more than a node has, so that appends with and
  without a gap happen. The theorems below hold without these bounds.
* Optimizer: the graphs take each pattern of each fusion as models have it, with
  each contraction and way to write the bias that differ in the code, with
  operands swapped, constants cast and an Identity in between, and disturb each
  node of it by one more reader, a control edge in or out, or by preserving it;
  blocks of two layers and of two biases let patterns overlap. Two passes is
  what the code runs.
* Mixed precision: every tree of four nodes with an op of each list, joins,
  chains with a node that is skipped or lacks a kernel, casts, ops with lists
  of types, loops with one and two Merges, variables behind an Enter, and
  tensor lists set and read in several places. Two runs, because the second
  must find its own casts.
* Named view: three calls on three nodes and one new one, with two ports, data
  and control readers, a Switch and its Identity. Three calls are a pair that
  spoils something and one that meets it.
* Reference counts: three threads let one destroy the object, one look it up
  and one move or drop a `WeakPtr` at the same time; two callbacks let one be
  removed while the other runs. The theorems hold for any number of both.
* Shapes: sizes on both sides of the bounds of the 16-bit and the 32-bit word
  and products on both sides of the largest integer, in lists of up to three
  sizes; two shapes are what any call takes. In each state one of the two has at
  most one size in place (`OneIsShort`), which keeps the pairs few and leaves
  out no representation of either.
* Flat map: two keys share position and mark, one shares the position, one has
  the mark that must be moved off the reserved ones; four keys make the table
  shrink and grow.
* Kernels: two sizes per dimension and one that does not agree, zero where the
  kernels handle it, up to five dimensions, two batches; a window of one to
  three rows on one to five, with each stride, dilation and padding. A lookup
  has up to three entries of two rows, negative ones and repeated ones among
  them; a group has three gathers from two tables along each axis, and
  `kDirectGatherThreshold` is 3, so that both ways to copy rows are taken.

`CHECK_DEADLOCK FALSE` is set where the system stops: the optimizer ends with a
graph, an error or a failed CHECK; mixed precision ends after its runs, with an
error or with the process; the named view after `MaxCalls`; in `RefCount`
nothing is left to do once the object and all `WeakPtr`s are gone; a shape's
failed CHECK ends the process; a node whose constructor fails is never called.
The mutation modules and the flat map stop nowhere within their bounds.

Fairness is assumed of `RefCount` only. No client has to start anything, but
one that destroys the object goes on with it (`WF_vars(Destroy(c))`), and so
does one in the loop of `TryRef`, which has no wait in it. `SF_vars(Lock(c))`
says that the mutex lets in whoever waits for it long enough, though others
take it in between, as the mutex behind `util/mutex.h` does for a waiter; with
weak fairness alone lookups could keep the destructor out, and `ObjectFreed`
fails. Nothing is assumed of the exchange ever succeeding. The other systems
are driven by a client that may stop at any time, or are one thread whose loop
runs over a finite list; whether the remapper's loop ends is not checked,
because deciding whether its step is enabled in each state of these graphs is
out of TLC's reach.

What is meant by the properties that are not obvious:

* `ValuesKept` and `OutputKept` give every node its meaning, a number and a form,
  in which a fused op is the chain of the ops it stands for. The meaning of every
  preserved node, and in `ValuesKept` of every node left as it was, must be that
  in the item's graph, in `ValuesKept` at every step.
* `OrderKept` does the same for what must have run before a node, by data or
  control edges.
* `TwoPassesSuffice` is the reason given in `cpu_optimizer.cc` for the second
  pass: after it nothing is left to fuse.
* `KernelsAccept`: what the remapper fuses, what the layout pass lets through
  and what a kernel's constructor accepts are three lists in three directories.
  A `_Fused...` op the layout pass leaves is TensorFlow's own, which is external.
* `DangerKeepsFloat` says what deny and infer lists are for, as a set of paths
  over the whole graph, not as the traversals compute it.
* `RerunKeeps`: the casts of one run must be recognized by the next.
* `ImplementsWeakReference` makes the count reaching zero the moment of death:
  a `GetNewRef` gives the object before, whoever holds it, and `nullptr` after,
  and callbacks come after it. `called` is the sequence of the calls of
  callbacks, not their set, so that a second call of one is a step the abstract
  specification does not have. `AllNotified` leaves out a `WeakPtr`
  whose callback was just removed.
* `Computes` compares each place of the output with the definition of the op,
  index by index, written down without strides, blocks or broadcasting tables.

## 4. What the code does otherwise

One of these is a run that TLC finds violated; `findings` in `PROJECT.json`
quotes the lines. `bias_first`: with a bias at the first input of an Add, then
another Add, then an activation, the fused node gets the contraction as its own
bias (`remapper.cc:3064`).

The others were met while modelling. The passing runs leave these constructs
out, as the comments at `Next` of a module or at the items of an MC module say;
where a definition is named, putting it in makes TLC find the violation.

Mutation and the indexed view:

* A node removed and then edited in one mutation leaves a dangling fanin
  (`SpecEditRemoved` of `GraphMutation`, `GraphWellFormed`). No pass does it.
* A valid mutation that renames a node and replaces its consumer by a new node of
  the same name drops a fanin whose fanouts were moved out of their node before:
  `RemoveRegularFaninFanoutInternal` indexes an empty vector
  (`graph_view.cc:954`, `1010`). The model then sets `status` to `"undefined"`;
  no pass renames nodes.
* A fanin changed and set back within one mutation is not set back:
  `AddOrUpdateRegularFanin` leaves the pending update alone when it is given the
  fanin the node has (`graph_view_internal.h:522`; `NodeViewDiff` does the same,
  and `GraphIntent` lets a call change nothing).
* After a rename over a node, the fanin counts of a consumer can be off:
  `FixRenamedFanouts` erases the entry of the node now at that index
  (`graph_view.cc:995`; `RenameTo = Names` in `MutableGraphView_rewrites.cfg`,
  `CountsAgree`).
* A diff that only renames its node is skipped as empty, and `update_index_`
  keeps pointing into the cleared `updated_nodes_` (`graph_view.cc:936`, `1191`;
  the same change, `DiffsFound`).
* A sort is not refused while nodes are to be removed, and moves others to their
  indices (`graph_view.cc:1424`). The models sort only without removals pending.

Remapper, whose errors mostly vanish in `TF_ABORT_IF_ERROR`:

* The Keras fusion does not ask whether anybody but the Reshape reads the MatMul
  (`remapper.cc:601`): a marked node stays needed, and none of the marked nodes of
  the pass is removed, against "Remove invalidated nodes." (`remapper.cc:6968`;
  `MCKerasReadTwice`, `DeletionsTake`). A BiasAdd with a control fanout under an
  Add (`remapper.cc:775`) and the folded nodes of the batch norm folds do the same,
  and so do the `SelectV2`, `IsInf` and `ZerosLike` of the embedding fusions with
  another consumer (`remapper.cc:3987`, `1410`).
* The control fanins of a contraction are lost (`MCContractionAfter`,
  `OrderKept`); so are those of the `ConcatV2` and the gathers of a group
  embedding (`remapper.cc:4021-4117`).
* A Conv3D with a bias fails `CHECK(false)` (`MCConv3D`, `FusionsApply`); so
  does a Pad under a contraction that has explicit paddings already, against the
  comment at `remapper.cc:1534`. In a debug build Mish after a MatMul that the
  first pass fused fails a DCHECK, and so does a Pad under a fused convolution
  (`remapper.cc:2916`, `2504`, `2530`; `DebugBuild = TRUE`).
* The Gelu fusions never look at the Reshape's shape, and the exact one takes a
  `_FusedMatMul` with BiasAdd and Relu: the Relu is lost.
* `GroupEmbedding` deletes a fetched `ConcatV2` and preserved gathers, looks
  neither at the axis nor at whether the gathers of a chain are alike. The
  threshold of the filter of a safe lookup is not checked.
* A layer normalization whose gamma is itself an Rsqrt reads the wrong gamma.
  Its epsilon Const may be shared (`remapper.cc:4848-4852`).
* `AddFusedBatchMatMul` drops the ports of its inputs, and reads the first of
  the inferred properties of a node that has none.
* Batch norm folds: a bfloat16 Const under a Cast gets the wrong T
  (`remapper.cc:4357`); a Mul read twice is folded; the operand order of a Sub is
  not checked (`remapper.cc:4880`); a fold with a cast bias and no Cast behind
  changes the type of its root (`remapper.cc:5757`); of two Casts behind it one
  goes stale; a Cast behind it may be preserved.
* `MishDecomposed` skips Identities and never marks them.
* A second look at a node (`remapper.cc:6695`) fuses nothing in any graph of the
  runs: what could be absorbed is still read by a node that is only marked.
* An error of the second pass returns without output (`cpu_optimizer.cc:72`); the
  comment "exists only for the layout pass" (`remapper.cc:3545`) of
  `_FusedBatchMatMulV2` holds because its rule looks at the type only.

Mixed precision:

* `PropagateDenyFwdThroughClearAndInfer` does not start from tensor lists denied
  before it: infer nodes behind them become bfloat16
  (`auto_mixed_precision.cc:1169` against `1158-1160`; `MCBehindUnsafeList`,
  `DangerKeepsFloat`).
* A Cast that the configuration puts on the deny list becomes bfloat16 all the
  same if all its readers do (`1482-1520`; `DangerKeepsFloat`).
* `MakeCastsAllowIfAllOutputsAllow` converts a preserved or off-device Cast the
  log calls skipped (`1482-1520`, `756`; `MCSkippedCasts`, `SkippedKept`).
* A missing comma joins "Sum" and "TanhGrad" (`auto_mixed_precision_lists.h:209`),
  so that TanhGrad is on no list.
* A float reader of a non-float tensor-list writer fails a CHECK (`1126-1131`).

Name-based view:

* `UpdateFanouts` onto a node that is read at a higher port lowers its bound, and
  `DeleteNodes` then removes it from under its readers, against "If a node can't
  be safely removed ... an error will be returned" (`mutable_graph_view.cc:787`,
  `mutable_graph_view.h:251`; `SpecAnyCall`, `NothingDangles`).
* `SwapNodeNames` emplaces over an entry left empty and loses fanouts (`:214`);
  `UpdateNodeName` dereferences `end()` for an unknown node (`:524`).

Reference counting: `RemoveNotifier` returns while the callback it is to remove
may be about to be called, because `Notify` takes it out of the map and unlocks
first (`refcount.h:145-149`). Nothing says it may not, but who captures a
`WeakPtr`'s owner in its callback must know. The model has this order of steps.

Shapes and tables:

* `MergeWith` of two valid partial shapes may fail a CHECK on overflow instead of
  returning `InvalidArgument`; with the result passed as the shape itself it
  reads what it has cleared. Sizes whose product overflows are refused in front
  of a zero and allowed behind it.
* `clear_no_resize` in a table of one bucket zeroes the counts and leaves the
  slots marked deleted (`flatrep.h:107-118` against `258`; `SpecWithClear`,
  `SearchesEnd`). Nothing in the plugin clears such a map.

Kernels:

* A MatMul without fusion whose inner dimension is 0 leaves its output as it
  was allocated, against "so we fill the output with zeros"
  (`zen_matmul_kernel.cc:540`); a fused one ignores the bias then.
* Weights are said to be constant whatever feeds them (`zen_matmul_kernel.cc:242`,
  TODO at `235`): with changing weights `Computes` fails for MatMul.
* Two batch dimensions are collapsed before broadcasting, against "This allows us
  to support 4D BatchMatMul with any batch sizes" (`zen_batch_matmul_kernel.cc:65`):
  [2,1] by [1,2] is computed wrongly, [2,1] by [2,2] refused. Through the operator
  interface, one batch on the left and more on the right leave output unwritten
  (`:474`). A right-hand side of two or more than four dimensions is refused.
* A fused convolution the library refuses is only logged and succeeds
  (`zen_conv2d_fused_kernel.cc:128-138`). `LeakyRelu` has slope 0.2 whatever the
  attribute says. A format other than NHWC is not refused by the fused kernel;
  dilations are read by NHWC positions.
* With `is_reshape`, the output is always [1, M, N] (`zen_matmul_kernel.cc:513`).
* The sizes of a bias or addend are never compared with the output's.
* Checks in `PoolParameters` and `ConvUtil` set an error and only return from the
  helper (`pooling_ops_common.cc:110`, `zen_conv_kernel.h:288`): a pool with a
  window larger than the image goes on to allocate a negative size, which fails a
  CHECK instead of returning the error, and a convolution goes on with sizes it
  has not set. A stride of 0 divides a pool's image (`zen_pool_kernel.cc:199`).
* A max pool over the depth, which `PoolParameters` accepts, tells the library of
  an output without rows and columns, so nothing is written (`:69`); the format
  told to the library is NHWC whatever the attribute says (`:81`). Explicit
  padding is read and then refused, as none is passed on (`:168`).
* A layer normalization over axes that are not the last ones is computed as if
  they were (`zen_fused_layernorm_kernel.cc:117`).
* A sparse lookup leaves out entries beyond the table
  (`zen_embedding_lookup_sparse_kernel.cc:170`), and a group of gathers hands
  them to the library unchecked when it does not copy the rows itself
  (`zen_group_embedding_kernel.cc:385`). Its clamp of infinities covers what is
  passed through, too, and does nothing in float (`:82`, `:404`).

## 5. Proofs

`GraphMutation_proofs` proves, for any set of names, ops, ports and initial
graphs and any bounds:

* `TypeCorrect == Spec => []TypeOK`. `TypeOK` holds `DiffFits`: no position is
  both set and removed, and only controls a node has are removed. That makes it
  inductive: without it an edited fanin list need not be a sequence.
* `AlwaysWellFormed == Spec => []GraphWellFormed`: no fanin without its node,
  no node its own fanin;
* `RefinesGraphIntent == Spec => ImplementsIntent`: the mutation API keeps what
  `GraphIntent` promises.

The argument for the second: `Apply` is the only action that changes the graph,
and there `NamesApplied` shows that the names the checks take to exist are
exactly the names of the new graph. A node of the new graph is a node added
(checked by `NewNodeIsWellFormed`), a node edited, or a node left alone
(`AppliedNode`). Each fanin of an edited node was set by the client (checked)
or was there before, and then `FaninStays`: its name is either not vacated, or
the check of the fanouts of vacated names covers it. The inductive invariant is
`TypeOK /\ GraphWellFormed`.

The third maps the pending mutation to a draft. Each call edits the draft as it
says (one lemma per call), which again rests on `DiffFits`: a diff holds nothing
that does not differ from its node, so that a node without one is as it was. A
refused `Apply` must be refused for a reason: `WantedDiffs`, `WantedFanouts` and
their like show for each check that what it finds is either a hole in the draft
itself or the one case `GraphIntent` allows, a name taken away that a replaced
node still reads.

`RefCount_proofs` proves, for any finite set of threads and any number of
callbacks:

* `TypeCorrect`, `CountsStayExact`, `NeverUsedAfterFree` and `AllAreNotified`:
  `Spec => []` of `TypeOK`, `CountsExact`, `NoUseAfterFree` and `AllNotified`;
* `RefinesWeakReference == Spec => ImplementsWeakReference`.

They rest on one inductive invariant, `IInv` (`Inductive`), each of whose parts
has a lemma with a step per action. `CountsExact` alone is not inductive: it
needs to know that only one client destroys the object and that its count is
zero all the while (`OneDestroyer`), which needs the count again and that a
lookup past its check of `ptr` has the mutex the destructor waits for (`Locked`,
`Within`); that a `WeakPtr` being moved has no other target (`Moving`); and, for
the callbacks, that ids are never given twice and none is lost on the way from
the map to the call (`Ids`). TLC finds each part true in `RefCount.cfg`'s
instance, too.

`TensorShape_proofs` proves, for any set of shapes, any number of calls and any
widths that fit each other:

* `VectorsHaveOneOwner == Spec => []OneOwner`;
* `ElementsAlwaysCounted == Spec => []ElementsCounted`;
* `RefinesLists == Spec => ImplementsLists`: shapes behave like lists of sizes,
  and a CHECK fails only for lists that are not shapes.

They rest on one inductive invariant, `Inv` (`AlwaysSettled`): `OneOwner`, and
that each shape is `Settled`: its tag, its words, its vector and its counts fit
each other, no size that is kept in a word reads as the word's unknown size, and
the number of elements is what the loop over its sizes makes of them. The steps
are proved at two levels. `Holds` relates the bytes a call works on, and the heap
they come from, to the list they stand for; a lemma for each helper of
`tensor_shape.cc` says what it does to that list (`AddDimBecomes`, `AddDimsBecomes`,
`InitDimsBecomes`, `RecomputeBecomes`, ...). Each call then only says
which list it makes. What a loop computes is shown by a least counterexample
over its counter (`Throughout`, `Iterates`), so recursive functions are no
obstacle there. That there is an address for one more vector (`Room`) is a matter
of counting: there are more addresses than shapes, and each vector has one owner.

`FlatMap_proofs` proves, for any keys, any hashes, any width of a bucket that is
a power of two and any number of the calls in `Next`, which clears a table only
while no slot is deleted (section 4):

* `SearchesAlwaysEnd == Spec => []SearchesEnd`;
* `EntriesFoundOnce == Spec => []FoundOnce`;
* `RefinesDictionary == Spec => ImplementsDictionary`: the table is a map.

They rest on one inductive invariant, `Sound` (`AlwaysSound`). Its part `Placed`
says that a search for the key of an entry comes to the entry before it comes to
an empty slot, `Single` that no two slots have the same key, `Maps` which map
the entries are, and `Tallied` that the two counters count the slots that are not
empty and those that are deleted, and that one slot is empty. None of them is
inductive alone: a search finds its key because of `Placed`, a new key is not
there a second time because the search would have found it, the search
ends because a slot is empty and `ProbesReach`, and the slot stays empty because
`MaybeResize` decides by counters that are right. `ProbesReach` is the argument
for quadratic probing: if two of the first c probes met in one slot, the product of the
difference and the sum of their numbers, one of which is odd, would be a multiple of 2c
(`OddFactor`, `ProbesDiffer`); so they reach all c slots. Deleting leaves every path as
it is (`PathStays`), as a deleted slot is not an empty one. `CopiedIs` and
`EraseAllIs` follow the loops over the slots: before slot i the new table is that
of the entries before i. Clearing is proved, as in `Spec`, for tables without
deleted slots only; section 4 says what it does to others.

`AutoMixedPrecision_proofs` proves, for any graphs, op definitions, op lists,
kernels and nodes to preserve, and any number of runs:

* `EdgesAlwaysAgree == Spec => []TypesAgree`;
* `EdgesAlwaysKept == Spec => []EdgesKept`;
* `ListsKeepOneColor == Spec => []OneColorPerList`: the nodes that share a tensor
  list agree on the type of its elements;
* `DangerStaysFloat`: from `Spec`, `[]ListsOutOfDanger` and
  `LeavesCastsAndLoops(item.update)` follows `[]DangerKeepsFloat`.

The first two follow from one inductive invariant, `IInv` (`Invariant`), which says in
each phase what the next ones rely on. It has three parts besides what is known of
the item. `GraphAt`: until types are changed the graph is the item's with batch
norms converted, and fits the op definitions. `PaintAt`: what is painted can be
set (`Settled`), but for vertices of the allowlist before
`RemoveAllowsetWithFp32`; and once `ForceColorMatchOnRecurrentEdges` is done all
types of a loop are painted or none (`LoopsAgree`). `ChangeAt`: while the types are changed, the graph is
`Halfway` between two nodes: those before `node_idx` have their attributes
painted, those after it do not, and exactly the edges that leave a port before
`node_idx` and join a painted and an unpainted float go through a Cast of that
port. That which attributes are still
to be changed is read off a graph whose nodes are changed already is
where the argument is: `Crossing` sees only nodes from `node_idx` on with the types
they had, but the ports of a node do not depend on its types (`SamePorts`), and
an input is compared by its vertex and not by its type (`CrossingIs`). Adding
the Casts of one node keeps `Halfway` (`CastAdded`, over the ports of a node in
`NodeChanged`), and at the end every edge is either one with both ends painted alike,
whose types were equal and are changed alike (`PaintedTypes`), or goes through a Cast of the
right types (`CastTypes`, `AgreeLeft`). `NoCastInLoop` uses `LoopsAgree`, and
`LoopsMatched` proves it by induction over the loop of
`ForceColorMatchOnRecurrentEdges`: matching one NextIteration does not undo
another because no Merge is fed by two (`OneLoopMatched`). What is left fits the
assumptions about an item again (`FinishedFits`), so the theorems hold of
every later run.

The third needs `ListsAt` with it: in each phase, what is known of the clusters
that `FindTensorListImplicitFloat32Edges` has found. A
cluster is what a search from one node meets along the edges, taken both
ways (`TraversalIs`: after as many rounds as there are vertices to
enter, a search has met all it can reach). Because that relation is symmetric, two
clusters that share a node are one (`SameTraversal`, `ClustersApart`), so painting
one leaves the others as they are, and after the second
`ForceColorMatchBetweenTensorListOps` each is painted whole or not at all
(`MatchColors`). Loops and Casts, matched after that, paint only
vertices that are no list's elements: those of T and DstT (`MatchedElements`). When
types are changed, every element type is changed as it is painted (`FinishedColor`),
or none is (`SelectedColor`), and no other attribute of a list op was a float or
becomes one (`FinishedLists`), so that all this holds of the next run too.

The fourth needs `DangerAt` besides. `DangerKeepsFloat` speaks of ways through the
graph: what a deny vertex reaches through deny, infer and clear vertices, and what
reaches a deny or an infer vertex through these. The code searches otherwise: first
backwards, through clear vertices only, then forwards within what that met and
nobody has denied. `DangerIsDenied` shows that its second search finds all of it,
because a traversal meets the least closed set around its roots (`FromAllIs`). From
then on all of it is denied, and the steps that allow take nothing denied
(`DangerNotAllowed`, `DangerMatched`). The last two steps do not look at the deny
set. They paint only T of a NextIteration and DstT of a Cast, and only if all
readers are allowed, while a dangerous vertex of one has a dangerous reader
(`DangerRead`). At the end, what has changed its type had been allowed
(`DangerChanged`). The two hypotheses say where the code departs from its comment: a
list denied in advance stops the forward search (section 4; its graph violates
both `ListsOutOfDanger` and `DangerKeepsFloat`), and a configuration that denies
Cast or NextIteration has them painted by the last steps all the same.

`Kernels_proofs` proves, for any nodes and shapes:

* `AlwaysBroadcast == Spec => []BatchesBroadcast`: two batches of matrices are
  accepted if and only if they broadcast as NumPy has it, the output has the shape
  they broadcast to, and each batch of it is made of the batches that are there.

The state needs little (`OfCalls`): the shapes are those of a call. What there is
to prove is that `BCastList`, which puts neighbouring dimensions together and leaves out
those where both are 1, and `ComputeBatchIndices`, which lists one batch of the
input for each of the output, find the place the definition has, where no
dimension is put together and no list made. `BatchesFound` says so of every two shapes.
The argument goes through the dimensions from the innermost out, with one
index of the output held fixed. `Side` relates what is known of one input so far to two
places: the list of its dimensions, at the place in the output of that index cut off
there, has the place in the input. A dimension kept apart keeps that
(`AloneKeeps`); so does one put together with the run before it
(`TogetherKeeps`), because a list of two dimensions of one kind, both repeated or both
stepped through, is the list of their product (`ListedTogether`, which comes
down to quotients and remainders of the position in the list: `OneQuotient`). A dimension
where both are 1 moves neither place. `StepKeeps` is one turn of the loop
for both inputs, `AllLead` the loop. Where no list is made, because both
inputs have as many batches as the output, the places are the same ones
(`NoMoreFurther`). The sizes are natural numbers (`SizesAreNatural`), zero among them; that
they and their products fit the code's integers is a limit of the model.

`NamedGraphView_fanins` and `NamedGraphView_proofs` prove, for any names, output
ports, ops, graphs to start on, nodes to add, and any number of nodes and of the
calls in `Next`, which leaves out those of `UpdateFanouts` and `SwapNodeNames` that
break the view (section 4):

* `InputsStayWellFormed == Spec => []InputsWellFormed`;
* `FanoutsStayFound == Spec => []FanoutsAreFound`.

They rest on one inductive invariant, `ViewIsGood` (`ViewStaysGood`), the case
`Good(view, {})` of a predicate on views. Its parts: names are unique, and names
the view makes up are those of Identities (`WellTyped`); each node's inputs are
in order and free of redundant controls (`InputsOk`); the fanouts hold exactly
what the inputs read, at the positions they have (`Reads`); every port that is read is
within the bound of its node (`BoundedBut`); and no entry names a node that is gone
(`NoStray`). The two properties need each other and the rest. Controls that
are redundant are dropped by walking the fanouts, and a walk stops at the bound; deletion is
allowed or refused by the fanouts, and inputs left behind would dangle. A
NodeDef may get the address of one that was deleted, so an entry left of that one
would be the new node's. And a bound may be too high, but not too low: calls that remove
inputs lower it only if the port they free is the highest and nobody reads it.

No single edit keeps `Good`. Between the first and the last edit of a call one
node's inputs do not fit the fanouts (`Edited`: the invariant but for the positions
in H of node n and the bounds of the ports in P); a place may be free and move
(`Holed`); inputs at the front may be done and the rest not (`Cleared`, `Turned`,
`Moved`); whole nodes may not be entered yet (`Building`); names may be given to
other nodes than they mean (`Renames`, `NamesSwapped`); and controls may be
redundant on the nodes in X (`Good(v, X)`), until a loop removes them
(`Waning`). A lemma for each edit says what it does to the fanouts, whoever calls
it (`EditUnlink`, `EditLink`, `EditBound`, `EditSet`, `EditMove`), a lemma for each
loop follows it with `Throughout`, and a lemma for each call (`AddNodeKeeps` to
`UpdateAllRegularFaninsToControllingKeeps`) comes back to `Good`. `Next` leaves out the
calls of `UpdateFanouts` and `SwapNodeNames` of which section 4 says that they
spoil the view; `NoneLost` and `BoundsMovedFacts` are where the proof needs that.

Assumptions. `GraphMutation`: the bounds are natural numbers
(`BoundsAssumption`), a client adds nodes without a missing fanin
(`NewNodesAssumption`), and a view is built on a well-formed graph
(`InitGraphsAssumption`), which is what `CheckFaninsInternal` and the
constructor's other checks refuse to go on without. `RefCount`: finitely many
clients and a value that is none (`ClientsAssumption`). `TensorShape`: finitely
many shapes, lists of integers (`InputsAssumption`), and widths in the order the
types give them; among these is the code's `static_assert` that the sizes of
the fast path of `InitDims` have a product (`WidthsAssumption`). `FlatMap`:
finitely many keys, whose hashes have eight bits for the mark and a natural number for the
rest (`HashAssumption`), and tables whose size fits a `size_t` (`SizeAssumption`;
a call that would make a larger one is not modelled). `AutoMixedPrecision`: a graph
whose nodes fit their op definitions has edges that join equal types, no node is
fed by two NextIterations, and a batch norm of the first version has no U and is
one of the second with U float (`GraphsAssumption`), which is what TensorFlow accepts;
of the type attributes of a list op only `element_dtype` may be float, and only it or
the handle is a variant, as all list ops of TensorFlow's registry have it
(`ListsAssumption`);
a Cast, a NextIteration and a Merge have the ports TensorFlow's registry gives
them (`OpsAssumption`). `NamedGraphView`: a view is built on a graph as
TensorFlow passes it, with unique names, inputs that name other nodes, the
regular ones first, and no control from a Switch (`InitDefsAssumption`); a node is added with
its regular inputs first (`NewNodesAssumption`); there are the ops Switch and Identity
(`OpsAssumption`), ports are natural numbers (`PortsAssumption`), bounds too
(`BoundsAssumption`); and the names the view makes up, which have a prefix
of their own, are no client's (`AnchorsAssumption`). TLC evaluates
them all, and those of `Kernels`, with the runs.

Only model-checked: the refinements of `GraphMutation` by `MutableGraphView` and of
`NamedGraph`; everything about `MutableGraphView`, the
remapper and the optimizer; that a kernel computes its op
and refuses nothing valid (`Computes`, `AcceptsValid`: they compare whole kernels,
and terms of the library, with the ops' definitions); of mixed precision, that a second run changes nothing and that kernels
exist (`RerunKeeps`, `SupportedOnly`: the first compares what the searches reach in two graphs,
the second holds only where a kernel does not ask for several attributes at once,
because each is tried on its own, and lists, loops and Casts are painted without
asking); and `ObjectFreed`. Liveness is out of the prover's reach, and so is what
the recursive operators of the graph modules compute (`Meaning`, `Before`, the
sort), for which the prover has no arithmetic. The theorems about `GraphMutation` are
about the level of names; section 4 says where the code over indices departs
from it, each time through renames.

## 6. Not modelled, and the plan

Not modelled:

* The kernel of batch normalization, to which no pass routes a node (the rule is
  commented out, `zen_layout.cc:61-64`), and the library, which is not in the
  repository: what `ZenLibrary` says of it is what the kernels rely on.
* Op registration and shape inference but for the attributes of the ops the
  optimizer makes and the kernels read: declarations.
* The string views into reordered inputs in `ApplyNodeUpdates`, the extra
  dependencies of a sort (no caller passes any) and attributes, in the indexed
  view; what is left of a node in the named view after an error in the middle
  of a call that section 4 does not name.
* `plugin_tensor`, the parsing of attributes in `node_def_util`, the registry of
  kernels but for its search, strings, logging, allocation: accessors, or calls
  through the C interface of TensorFlow.
* The LRU cache of `zen_utils.h`, which nothing uses; `AddFusedBatchNormExNode`,
  which nothing calls; `AddSubgraph`, which is declared and never defined.
* That the remapper's loop ends (section 3), and mixed precision in one pipeline
  with the remapper.
* Build, Python package, examples and tests, which keep no state.

Done, in the order of the plan: the mutations with their refinement and proofs;
the indexed view; the remapper with all fusions; reference counts with their
refinement and proofs; the layout pass and the optimizer entry; mixed precision
and the name-based view; shapes, tables and broadcasting; the kernels; the proofs about shapes, tables,
mixed precision, broadcasting and the name-based view. What is
left, most important first:

1. Proofs: that the name-based view implements `NamedGraph`, call by call, from
   what the lemmas say of each; `DeletionsTake` of the remapper's loop from an assumption on what the fusions return; what
   `Rewire` of the indexed view does to the `NodeDef`s, with its sort as a recursive
   function.
2. `AutoMixedPrecision` composed into `Optimizer`, so that the remapper's items
   are its results.
3. The shape inference of the ops the kernels implement.
