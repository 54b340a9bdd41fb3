------------------------ MODULE GraphMutation_proofs ------------------------
(***************************************************************************)
(* Proofs about GraphMutation, for any set of names, any graphs and any    *)
(* number of calls: the types of a pending mutation, that a mutation found *)
(* valid leaves a graph the view can hold, and that the API implements     *)
(* GraphIntent, a draft of the graph that is committed whole or not at all.*)
(***************************************************************************)
EXTENDS GraphMutation, WellFoundedInduction, TLAPS

-----------------------------------------------------------------------------
(* Partial functions of fanins.                                            *)

(* A partial function stays one when a fanin is put at a position. *)
LEMMA WithFanin ==
  ASSUME NEW f \in PartialFanins, NEW i \in 1..MaxFanin, NEW t \in Tensors
  PROVE  With(f, i, t) \in PartialFanins
<1>1. PICK S \in SUBSET (1..MaxFanin) : f \in [S -> Tensors]
  BY DEF PartialFanins
<1>2. With(f, i, t) \in [S \cup {i} -> Tensors]
  BY <1>1 DEF With
<1>3. S \cup {i} \in SUBSET (1..MaxFanin)
  OBVIOUS
<1> QED
  BY <1>2, <1>3 DEF PartialFanins

(* And when a position is left out. *)
LEMMA WithoutFanin ==
  ASSUME NEW f \in PartialFanins, NEW i
  PROVE  Without(f, i) \in PartialFanins
<1>1. PICK S \in SUBSET (1..MaxFanin) : f \in [S -> Tensors]
  BY DEF PartialFanins
<1>2. Without(f, i) \in [S \ {i} -> Tensors]
  BY <1>1 DEF Without
<1>3. S \ {i} \in SUBSET (1..MaxFanin)
  OBVIOUS
<1> QED
  BY <1>2, <1>3 DEF PartialFanins

(* Its positions are bounded and it gives tensors. *)
LEMMA PartialFaninsType ==
  ASSUME NEW f \in PartialFanins
  PROVE  /\ DOMAIN f \subseteq 1..MaxFanin
         /\ \A i \in DOMAIN f : f[i] \in Tensors
BY DEF PartialFanins

LEMMA NoFanins == [i \in {} |-> {}] \in PartialFanins
<1>1. [i \in {} |-> {}] \in [{} -> Tensors]
  OBVIOUS
<1> QED
  BY <1>1 DEF PartialFanins

-----------------------------------------------------------------------------
(* The edits of a diff.                                                    *)

(* A diff that is opened is empty, and fits its node. *)
LEMMA DiffOfType ==
  ASSUME TypeOK, NEW x \in DOMAIN graph
  PROVE  DiffOf(x) \in NodeDiff /\ DiffFits(DiffOf(x), View(x))
<1>1. CASE x \in DOMAIN diffs
  BY <1>1 DEF DiffOf, TypeOK
<1>2. CASE x \notin DOMAIN diffs
  <2>1. graph[x] \in GraphNode /\ x \in Names
    BY DEF TypeOK
  <2>2. DiffOf(x) = [name |-> x, op |-> graph[x].op, put |-> [i \in {} |-> {}],
                     rem |-> {}, cadd |-> {}, crem |-> {}]
    BY <1>2 DEF DiffOf, EmptyDiff, View
  <2>3. DiffOf(x) \in NodeDiff
    BY <2>1, <2>2, NoFanins DEF NodeDiff, GraphNode
  <2>4. DiffFits(DiffOf(x), View(x))
    BY <2>2 DEF DiffFits
  <2> QED
    BY <2>3, <2>4
<1> QED
  BY <1>1, <1>2

(* Diffs that stay fit nodes that stay. *)
LEMMA FitsStay ==
  ASSUME NEW D, \A x \in D : DiffFits(diffs[x], View(x)),
         \A x \in D : diffs'[x] = diffs[x], UNCHANGED graph
  PROVE  \A x \in D : DiffFits(diffs[x], View(x))'
<1>1. \A x : View(x)' = View(x)
  BY DEF View
<1>2. ASSUME NEW x \in D PROVE DiffFits(diffs'[x], View(x)')
  BY <1>1
<1> QED
  BY <1>2 DEF DiffFits

(* A call is one of the calls allowed. *)
LEMMA CalledType ==
  ASSUME TypeOK, Called
  PROVE  calls' \in 0..MaxCalls
<1>1. MaxCalls \in Nat /\ calls \in 0..MaxCalls
  BY BoundsAssumption DEF TypeOK
<1>2. calls < MaxCalls /\ calls' = calls + 1
  BY DEF Called
<1> QED
  BY <1>1, <1>2

(* A call that leaves the node with a diff that fits it keeps the types. *)
LEMMA AddMutationType ==
  ASSUME TypeOK, NEW x \in DOMAIN graph \ removed,
         NEW d \in NodeDiff, DiffFits(d, View(x)), AddMutation(x, d)
  PROVE  TypeOK'
<1> USE DEF AddMutation
<1>1. /\ DOMAIN diffs' = DOMAIN diffs \cup {x}
      /\ \A y \in DOMAIN diffs' : diffs'[y] = IF y = x THEN d ELSE diffs[y]
      /\ diffs' = [y \in DOMAIN diffs \cup {x} |-> IF y = x THEN d ELSE diffs[y]]
  BY DEF With
<1>2. diffs' \in [DOMAIN diffs' -> NodeDiff]
  BY <1>1 DEF TypeOK
<1>3. \A y : View(y)' = View(y)
  BY DEF View
<1>4. \A y \in DOMAIN diffs' : DiffFits(diffs'[y], View(y)')
  BY <1>1, <1>3 DEF TypeOK
<1>5. calls' \in 0..MaxCalls
  BY CalledType DEF AddMutation
<1>6. DOMAIN diffs' \subseteq DOMAIN graph' \ removed'
  BY <1>1 DEF TypeOK
<1> QED
  BY <1>2, <1>4, <1>5, <1>6 DEF TypeOK, DiffFits, View, Called

(* Every edit of a diff keeps its type and its fit. *)
LEMMA EditType ==
  ASSUME TypeOK, NEW x \in DOMAIN graph \ removed, Edit(x)
  PROVE  TypeOK'
<1> DEFINE d == DiffOf(x)
           v == View(x)
<1>0. d \in NodeDiff /\ DiffFits(d, v)
  BY DiffOfType
<1>d. /\ d.name \in Names /\ d.op \in Ops /\ d.put \in PartialFanins
      /\ d.rem \subseteq Nat /\ d.cadd \subseteq Names /\ d.crem \subseteq Names
  BY <1>0 DEF NodeDiff
<1>v. Positions(v) \subseteq Nat
  <2>1. graph[x].ins \in Seq(Tensors) /\ v.ins = graph[x].ins
    BY DEF View, TypeOK, GraphNode
  <2>2. DOMAIN v.ins = 1..Len(v.ins) /\ Len(v.ins) \in Nat
    BY <2>1
  <2> QED
    BY <2>2 DEF Positions
<1> HIDE DEF d, v
<1>1. ASSUME NEW n \in Names
      PROVE  UpdateName(d, n) \in NodeDiff /\ DiffFits(UpdateName(d, n), v)
  BY <1>0, <1>1 DEF UpdateName, NodeDiff, DiffFits
<1>2. ASSUME NEW op \in Ops
      PROVE  UpdateOp(d, op) \in NodeDiff /\ DiffFits(UpdateOp(d, op), v)
  BY <1>0, <1>2 DEF UpdateOp, NodeDiff, DiffFits
<1>3. ASSUME NEW i \in 1..MaxFanin, NEW t \in Tensors
      PROVE  LET e == AddOrUpdateRegularFanin(d, v, i, t)
             IN  e \in NodeDiff /\ DiffFits(e, v)
  <2> DEFINE e == AddOrUpdateRegularFanin(d, v, i, t)
             same == i \in Positions(v) /\ v.ins[i] = t
             put == IF same THEN d.put ELSE With(d.put, i, t)
  <2>1. /\ With(d.put, i, t) \in PartialFanins
        /\ DOMAIN With(d.put, i, t) = DOMAIN d.put \cup {i}
        /\ \A j \in DOMAIN With(d.put, i, t) :
             With(d.put, i, t)[j] = IF j = i THEN t ELSE d.put[j]
    BY <1>d, <1>3, WithFanin DEF With
  <2>2. /\ put \in PartialFanins
        /\ \A j \in DOMAIN put \cap Positions(v) : put[j] # v.ins[j]
        /\ DOMAIN put \subseteq DOMAIN d.put \cup {i}
    BY <2>1, <1>0, <1>d DEF DiffFits
  <2> HIDE DEF put
  <2>3. e = [d EXCEPT !.rem = d.rem \ {i}, !.put = put]
    BY DEF AddOrUpdateRegularFanin, put
  <2>4. /\ e.rem = d.rem \ {i} /\ e.put = put
        /\ e.crem = d.crem /\ e.cadd = d.cadd
    BY <2>3, <1>0 DEF NodeDiff
  <2>5. e \in NodeDiff
    BY <2>2, <2>3, <1>0, <1>d DEF NodeDiff
  <2>6. DiffFits(e, v)
    BY <2>2, <2>4, <1>0 DEF DiffFits
  <2> QED
    BY <2>5, <2>6
<1>4. ASSUME NEW i \in 1..MaxFanin
      PROVE  LET e == RemoveRegularFanin(d, v, i)
             IN  e \in NodeDiff /\ DiffFits(e, v)
  <2> DEFINE e == RemoveRegularFanin(d, v, i)
             rem == IF i \in Positions(v) THEN d.rem \cup {i} ELSE d.rem
             put == Without(d.put, i)
  <2>1. /\ put \in PartialFanins /\ DOMAIN put = DOMAIN d.put \ {i}
        /\ \A j \in DOMAIN put : put[j] = d.put[j]
    BY <1>d, <1>4, WithoutFanin DEF Without
  <2>2. rem \subseteq Nat /\ rem \subseteq Positions(v) \ DOMAIN put
    BY <2>1, <1>0, <1>d, <1>v DEF DiffFits
  <2> HIDE DEF put, rem
  <2>3. e = [d EXCEPT !.put = put, !.rem = rem]
    BY DEF RemoveRegularFanin, put, rem
  <2>4. /\ e.rem = rem /\ e.put = put
        /\ e.crem = d.crem /\ e.cadd = d.cadd
    BY <2>3, <1>0 DEF NodeDiff
  <2>5. e \in NodeDiff
    BY <2>1, <2>2, <2>3, <1>0, <1>d DEF NodeDiff
  <2>6. DiffFits(e, v)
    BY <2>1, <2>2, <2>4, <1>0 DEF DiffFits
  <2> QED
    BY <2>5, <2>6
<1>5. ASSUME NEW n \in Names
      PROVE  LET e == AddControllingFanin(d, v, n, n)
             IN  e \in NodeDiff /\ DiffFits(e, v)
  BY <1>0, <1>d, <1>5 DEF AddControllingFanin, NodeDiff, DiffFits
<1>6. ASSUME NEW n \in Names
      PROVE  LET e == RemoveControllingFanin(d, v, n, n)
             IN  e \in NodeDiff /\ DiffFits(e, v)
  BY <1>0, <1>d, <1>v, <1>6 DEF RemoveControllingFanin, NodeDiff, DiffFits
<1>7. \E e \in NodeDiff : DiffFits(e, v) /\ AddMutation(x, e)
  BY <1>1, <1>2, <1>3, <1>4, <1>5, <1>6 DEF Edit, d, v
<1> QED
  BY <1>7, AddMutationType DEF v

(* An edit of a node to be added keeps its type. *)
LEMMA EditNewNodeType ==
  ASSUME TypeOK, NEW k \in DOMAIN fresh, EditNewNode(k)
  PROVE  TypeOK'
<1> DEFINE w == fresh[k]
<1>f. fresh \in Seq(NewNode) /\ DOMAIN fresh = 1..Len(fresh)
  <2>1. fresh \in Seq(NewNode)
    BY DEF TypeOK
  <2> QED
    BY <2>1
<1>0. w \in NewNode
  BY <1>f
<1>w. /\ w.name \in Names /\ w.op \in Ops
      /\ w.ins \in PartialFanins /\ w.ctl \subseteq Names
  BY <1>0 DEF NewNode
<1> HIDE DEF w
<1>1. ASSUME NEW n \in Names PROVE [w EXCEPT !.name = n] \in NewNode
  BY <1>0 DEF NewNode
<1>2. ASSUME NEW i \in 1..MaxFanin, NEW t \in Tensors
      PROVE  [w EXCEPT !.ins = With(@, i, t)] \in NewNode
  <2>1. With(w.ins, i, t) \in PartialFanins
    BY <1>w, WithFanin
  <2> QED
    BY <1>0, <2>1 DEF NewNode
<1>3. ASSUME NEW i \in DOMAIN w.ins
      PROVE  [w EXCEPT !.ins = Without(@, i)] \in NewNode
  <2>1. Without(w.ins, i) \in PartialFanins
    BY <1>w, WithoutFanin
  <2> QED
    BY <1>0, <2>1 DEF NewNode
<1>4. ASSUME NEW n \in Names PROVE [w EXCEPT !.ctl = @ \cup {n}] \in NewNode
  BY <1>0, <1>w DEF NewNode
<1>5. ASSUME NEW n \in w.ctl PROVE [w EXCEPT !.ctl = @ \ {n}] \in NewNode
  BY <1>0, <1>w DEF NewNode
<1>6. \E e \in NewNode : /\ Called
                         /\ fresh' = [fresh EXCEPT ![k] = e]
                         /\ UNCHANGED <<graph, diffs, removed, status>>
  BY <1>1, <1>2, <1>3, <1>4, <1>5 DEF EditNewNode, w
<1>7. fresh' \in Seq(NewNode)
  BY <1>6, <1>f
<1>8. calls' \in 0..MaxCalls /\ counter' = counter
  BY <1>6, CalledType DEF Called
<1> QED
  BY <1>6, <1>7, <1>8, FitsStay DEF TypeOK

(* Removing a node removes its diff. *)
LEMMA RemoveNodeType ==
  ASSUME TypeOK, NEW x \in DOMAIN graph, RemoveNode(x)
  PROVE  TypeOK'
<1>1. /\ DOMAIN diffs' = DOMAIN diffs \ {x}
      /\ \A y \in DOMAIN diffs' : diffs'[y] = diffs[y]
      /\ diffs' \in [DOMAIN diffs' -> NodeDiff]
  BY DEF TypeOK, RemoveNode, Without
<1>2. calls' \in 0..MaxCalls /\ counter' = counter
  BY CalledType DEF Called, RemoveNode
<1>3. /\ removed' \subseteq DOMAIN graph'
      /\ DOMAIN diffs' \subseteq DOMAIN graph' \ removed'
  BY <1>1 DEF TypeOK, RemoveNode
<1>4. \A y \in DOMAIN diffs' : DiffFits(diffs[y], View(y))
  BY <1>1 DEF TypeOK
<1> QED
  BY <1>1, <1>2, <1>3, <1>4, FitsStay DEF TypeOK, RemoveNode

(* Nothing is pending in a mutation that is cleared. *)
LEMMA ClearedType ==
  ASSUME ClearMutation
  PROVE  /\ DOMAIN diffs' = {} /\ removed' = {}
         /\ diffs' \in [DOMAIN diffs' -> NodeDiff]
         /\ fresh' \in Seq(NewNode)
BY DEF ClearMutation, NoDiffs

(* Adding a node adds one of the client's. *)
LEMMA AddNodeType ==
  ASSUME TypeOK, NEW w \in NewNodes, AddNode(w)
  PROVE  TypeOK'
<1>1. w \in NewNode
  BY NewNodesAssumption
<1>2. fresh' \in Seq(NewNode)
  <2>1. fresh \in Seq(NewNode)
    BY DEF TypeOK
  <2>2. fresh' = fresh \/ fresh' = Append(fresh, w)
    BY DEF AddNode, HasSelfFanin
  <2> QED
    BY <1>1, <2>1, <2>2
<1>3. calls' \in 0..MaxCalls /\ counter' = counter
  BY CalledType DEF Called, AddNode, HasSelfFanin
<1> QED
  BY <1>2, <1>3, FitsStay DEF TypeOK, AddNode, HasSelfFanin

-----------------------------------------------------------------------------
(* The graph a valid mutation makes.                                       *)

(* Positions with none left out below them are those up to some number. *)
LEMMA InitialSegment ==
  ASSUME NEW K \in Nat, NEW S \in SUBSET (1..K),
         \A i \in S : \A j \in 1..i : j \in S
  PROVE  \E n \in Nat : S = 1..n
<1> DEFINE T == {n \in Nat : n + 1 \notin S}
<1>1. K \in T /\ T \subseteq Nat
  OBVIOUS
<1>2. PICK m \in T : \A y \in T : ~(<<y, m>> \in OpToRel(<, Nat))
  BY <1>1, NatLessThanWellFounded, WFMin
<1>3. \A y \in T : ~(y < m)
  BY <1>1, <1>2 DEF OpToRel
<1>4. \A j \in 1..m : j \in S
  <2> TAKE j \in 1..m
  <2>1. j - 1 \in Nat /\ j - 1 < m
    BY <1>1
  <2> QED
    BY <2>1, <1>3
<1>5. \A i \in S : i \in 1..m
  <2> SUFFICES ASSUME NEW i \in S, i \notin 1..m PROVE FALSE
    OBVIOUS
  <2>1. m + 1 \in 1..i
    BY <1>1
  <2> QED
    BY <2>1
<1> QED
  BY <1>1, <1>4, <1>5

(* A function on positions with none left out is a sequence. *)
LEMMA NoGapsIsSeq ==
  ASSUME NEW K \in Nat, NEW S \in SUBSET (1..K), NEW f \in [S -> Tensors],
         \A i \in S : \A j \in 1..i : j \in S
  PROVE  f \in Seq(Tensors)
<1>1. PICK n \in Nat : S = 1..n
  BY InitialSegment
<1>2. f \in [1..n -> Tensors]
  BY <1>1
<1> QED
  BY <1>2

(* The edited fanins of a node with a well-formed diff follow each other. *)
LEMMA EditedFaninsType ==
  ASSUME NEW d \in NodeDiff, NEW v, v.ins \in Seq(Tensors),
         DiffFits(d, v), NoGaps(d, v)
  PROVE  EditedFanins(d, v) \in Seq(Tensors)
<1> DEFINE L == Len(v.ins)
           S == (Positions(v) \ d.rem) \cup DOMAIN d.put
<1>1. L \in Nat /\ Positions(v) = 1..L
  BY DEF Positions
<1>2. /\ d.put \in PartialFanins
      /\ DOMAIN d.put \subseteq 1..MaxFanin
      /\ \A i \in DOMAIN d.put : d.put[i] \in Tensors
  BY PartialFaninsType DEF NodeDiff
<1>3. L + MaxFanin \in Nat /\ S \subseteq 1..(L + MaxFanin)
  BY <1>1, <1>2, BoundsAssumption
<1>4. EditedFanins(d, v) \in [S -> Tensors]
  BY <1>1, <1>2 DEF EditedFanins, Positions
<1>5. ASSUME NEW i \in S, NEW j \in 1..i PROVE j \in S
  <2>i. i \in Nat /\ j \in Nat /\ j <= i /\ 1 <= j
    BY <1>3
  <2>1. CASE i \notin Positions(v)
    BY <1>1, <1>5, <2>1, <2>i DEF NoGaps
  <2>2. CASE i \in Positions(v) /\ j \in d.rem
    <3>1. CASE i = j
      BY <2>2, <3>1, <1>5 DEF DiffFits
    <3>2. CASE i # j
      <4>1. i \in d.rem
        BY <2>2, <3>2, <2>i DEF NoGaps
      <4> QED
        BY <4>1, <1>5 DEF DiffFits
    <3> QED
      BY <3>1, <3>2
  <2>3. CASE i \in Positions(v) /\ j \notin d.rem
    BY <1>1, <2>3, <2>i
  <2> QED
    BY <2>1, <2>2, <2>3
<1> HIDE DEF S, L
<1> QED
  BY <1>3, <1>4, <1>5, NoGapsIsSeq

(* The nodes to be added are nodes. *)
LEMMA FreshType ==
  ASSUME TypeOK, NEW k \in DOMAIN fresh
  PROVE  fresh[k] \in NewNode
<1>1. fresh \in Seq(NewNode)
  BY DEF TypeOK
<1> QED
  BY <1>1

(* The names the checks take to exist are the names of the new graph. *)
LEMMA NamesApplied ==
  ASSUME TypeOK
  PROVE  DOMAIN AppliedGraph = NamesAfter
<1>1. Touched \ removed = Touched
  BY DEF TypeOK, Touched
<1>2. Claimed = EditedNames \cup FreshNames
  BY <1>1 DEF Claimed, EditedNames, FreshNames
<1>3. DOMAIN AppliedGraph = Kept \cup FreshNames \cup EditedNames
  BY DEF AppliedGraph
<1> QED
  BY <1>2, <1>3 DEF Kept, NamesAfter

(* Every node of the new graph is a node added, a node edited or a node    *)
(* left alone. *)
LEMMA AppliedNode ==
  ASSUME TypeOK, NEW n \in NamesAfter
  PROVE  \/ \E k \in DOMAIN fresh : /\ fresh[k].name = n
                                    /\ AppliedGraph[n] = Node(fresh[k])
         \/ \E x \in Touched : /\ diffs[x].name = n
                               /\ AppliedGraph[n] = EditedNode(x)
         \/ /\ n \in Kept
            /\ AppliedGraph[n] = graph[n]
<1>1. n \in Kept \cup FreshNames \cup EditedNames
  BY NamesApplied DEF AppliedGraph
<1>2. CASE n \in FreshNames
  <2> DEFINE k == CHOOSE k \in DOMAIN fresh : fresh[k].name = n
  <2>1. k \in DOMAIN fresh /\ fresh[k].name = n
    BY <1>2 DEF FreshNames
  <2>2. AppliedGraph[n] = Node(fresh[k])
    BY <1>1, <1>2 DEF AppliedGraph
  <2> QED
    BY <2>1, <2>2
<1>3. CASE n \in EditedNames \ FreshNames
  <2> DEFINE x == CHOOSE x \in Touched \ removed : diffs[x].name = n
  <2>1. x \in Touched \ removed /\ diffs[x].name = n
    BY <1>3 DEF EditedNames
  <2>2. AppliedGraph[n] = EditedNode(x)
    BY <1>1, <1>3 DEF AppliedGraph
  <2> QED
    BY <2>1, <2>2
<1>4. CASE n \notin EditedNames \cup FreshNames
  BY <1>1, <1>4 DEF AppliedGraph
<1> QED
  BY <1>2, <1>3, <1>4

(* Nodes with a diff that edits something have names and ops. *)
LEMMA TouchedType ==
  ASSUME TypeOK, NEW x \in Touched
  PROVE  /\ x \in DOMAIN diffs /\ x \in DOMAIN graph
         /\ diffs[x] \in NodeDiff /\ DiffFits(diffs[x], View(x))
         /\ graph[x] \in GraphNode
BY DEF TypeOK, Touched

(* A valid mutation makes a graph of nodes. *)
LEMMA AppliedGraphType ==
  ASSUME TypeOK, Valid
  PROVE  /\ DOMAIN AppliedGraph \subseteq Names
         /\ AppliedGraph \in [DOMAIN AppliedGraph -> GraphNode]
<1>1. NamesAfter \subseteq Names
  <2>1. \A k \in DOMAIN fresh : fresh[k].name \in Names
    BY FreshType DEF NewNode
  <2>2. \A x \in Touched : diffs[x].name \in Names
    BY TouchedType DEF NodeDiff
  <2> QED
    BY <2>1, <2>2 DEF NamesAfter, Claimed, TypeOK
<1>2. ASSUME NEW k \in DOMAIN fresh PROVE Node(fresh[k]) \in GraphNode
  <2> DEFINE w == fresh[k]
  <2>1. /\ w.op \in Ops /\ w.ins \in PartialFanins /\ w.ctl \subseteq Names
        /\ NewNodeIsWellFormed(w, NamesAfter)
    BY FreshType DEF NewNode, Valid
  <2>2. PICK S \in SUBSET (1..MaxFanin) : w.ins \in [S -> Tensors]
    BY <2>1 DEF PartialFanins
  <2>3. \A i \in S : \A j \in 1..i : j \in S
    BY <2>1, <2>2 DEF NewNodeIsWellFormed
  <2>4. w.ins \in Seq(Tensors)
    BY <2>2, <2>3, NoGapsIsSeq, BoundsAssumption
  <2> QED
    BY <2>1, <2>4 DEF Node, GraphNode
<1>3. ASSUME NEW x \in Touched PROVE EditedNode(x) \in GraphNode
  <2>1. NoGaps(diffs[x], View(x))
    BY DEF Valid, IsWellFormed
  <2>2. View(x).ins \in Seq(Tensors)
    BY TouchedType DEF View, GraphNode
  <2>3. EditedFanins(diffs[x], View(x)) \in Seq(Tensors)
    BY <2>1, <2>2, TouchedType, EditedFaninsType
  <2>4. /\ diffs[x].op \in Ops
        /\ graph[x].ctl \subseteq Names /\ diffs[x].cadd \subseteq Names
    BY TouchedType DEF NodeDiff, GraphNode
  <2> QED
    BY <2>3, <2>4 DEF EditedNode, GraphNode
<1>4. ASSUME NEW n \in NamesAfter PROVE AppliedGraph[n] \in GraphNode
  <2>1. n \in Kept => graph[n] \in GraphNode
    BY DEF Kept, TypeOK
  <2> QED
    BY <1>2, <1>3, <2>1, AppliedNode
<1>5. AppliedGraph = [n \in NamesAfter |-> AppliedGraph[n]]
  BY NamesApplied DEF AppliedGraph
<1> QED
  BY <1>1, <1>4, <1>5, NamesApplied

(* Applying a mutation leaves a graph of nodes and no diffs. *)
LEMMA ApplyType ==
  ASSUME TypeOK, Apply
  PROVE  TypeOK'
<1>1. CASE Valid
  <2>1. /\ graph' = AppliedGraph /\ ClearMutation /\ status' = "ok"
        /\ counter < MaxApplies /\ counter' = counter + 1
    BY <1>1 DEF Apply
  <2>2. counter' \in 0..MaxApplies /\ calls' \in 0..MaxCalls
    <3>1. /\ MaxApplies \in Nat /\ counter \in 0..MaxApplies
          /\ MaxCalls \in Nat /\ calls' = 0
      BY <2>1, BoundsAssumption DEF TypeOK, ClearMutation
    <3> QED
      BY <2>1, <3>1
  <2> QED
    BY <1>1, <2>1, <2>2, ClearedType, AppliedGraphType DEF TypeOK
<1>2. CASE ~Valid
  BY <1>2, FitsStay DEF Apply, TypeOK
<1> QED
  BY <1>1, <1>2

(* Discarding a mutation does too. *)
LEMMA ResetType ==
  ASSUME TypeOK, Reset
  PROVE  TypeOK'
<1>1. calls' \in 0..MaxCalls
  BY BoundsAssumption DEF Reset, ClearMutation
<1> QED
  BY <1>1, ClearedType DEF Reset, TypeOK

-----------------------------------------------------------------------------
(* Nothing is pending at first. *)
LEMMA InitialType ==
  ASSUME Init
  PROVE  TypeOK
<1>1. /\ DOMAIN graph \subseteq Names
      /\ graph \in [DOMAIN graph -> GraphNode]
  BY InitGraphsAssumption DEF Init
<1>2. /\ DOMAIN diffs = {} /\ diffs \in [DOMAIN diffs -> NodeDiff]
      /\ removed = {} /\ fresh \in Seq(NewNode) /\ status = "ok"
  BY DEF Init, NoDiffs
<1>3. calls \in 0..MaxCalls /\ counter \in 0..MaxApplies
  BY BoundsAssumption DEF Init
<1> QED
  BY <1>1, <1>2, <1>3 DEF TypeOK

(* In every state of a mutation, whatever the client called before: each   *)
(* diff belongs to a node that is not to be removed and fits it, and every *)
(* graph Apply makes is one of nodes whose fanins leave no position out.   *)
THEOREM TypeCorrect == Spec => []TypeOK
<1>1. Init => TypeOK
  BY InitialType
<1>2. TypeOK /\ [Next]_vars => TypeOK'
  <2> SUFFICES ASSUME TypeOK, [Next]_vars PROVE TypeOK'
    OBVIOUS
  <2>1. CASE EditNode
    BY <2>1, EditType DEF EditNode
  <2>2. CASE \E x \in DOMAIN graph : RemoveNode(x)
    BY <2>2, RemoveNodeType
  <2>3. CASE \E w \in NewNodes : AddNode(w)
    BY <2>3, AddNodeType
  <2>4. CASE \E k \in DOMAIN fresh : EditNewNode(k)
    BY <2>4, EditNewNodeType
  <2>5. CASE Apply
    BY <2>5, ApplyType
  <2>6. CASE Reset
    BY <2>6, ResetType
  <2>7. CASE SortTopologically
    BY <2>7, FitsStay DEF SortTopologically, TypeOK
  <2>8. CASE UNCHANGED vars
    BY <2>8, FitsStay DEF vars, TypeOK
  <2> QED
    BY <2>1, <2>2, <2>3, <2>4, <2>5, <2>6, <2>7, <2>8 DEF Next
<1> QED
  BY <1>1, <1>2, PTL DEF Spec

-----------------------------------------------------------------------------
(* What the checks of Apply overlook cannot go wrong.                      *)

(* A fanin m of node y that the mutation does not take away keeps a node   *)
(* of that name. *)
LEMMA FaninStays ==
  ASSUME TypeOK, GraphWellFormed, Valid,
         NEW y \in DOMAIN graph, y \in Touched \cup Kept,
         NEW m,
         \/ \E i \in DOMAIN graph[y].ins :
               /\ graph[y].ins[i][1] = m
               /\ y \in Touched =>
                    i \notin diffs[y].rem \cup DOMAIN diffs[y].put
         \/ /\ m \in graph[y].ctl
            /\ y \in Touched => m \notin diffs[y].crem
  PROVE  m \in NamesAfter /\ m # y
<1>1. m \in DOMAIN graph /\ m # y
  BY DEF GraphWellFormed, IsWellFormedGraph, FaninNames
<1>2. m \notin Vacated
  <2> SUFFICES ASSUME m \in Vacated PROVE FALSE
    OBVIOUS
  <2>1. CASE y \in Touched
    BY <2>1, TouchedType DEF Valid, RemovedOrMissingNodeFanoutsWellFormed
  <2>2. CASE y \in Kept /\ y \notin Touched
    <3>1. y \notin removed /\ y \notin Overwritten
      <4>1. Renamed \subseteq Touched
        BY DEF Renamed, Touched, IsEmpty, View
      <4> QED
        BY <2>2, <4>1 DEF Kept, Overwritten, Claimed
    <3>2. CASE y \in DOMAIN diffs
      <4>1. /\ diffs[y].rem = {} /\ DOMAIN diffs[y].put = {}
            /\ diffs[y].crem = {}
        BY <2>2, <3>2 DEF Touched, IsEmpty
      <4> QED
        BY <3>2, <4>1 DEF Valid, RemovedOrMissingNodeFanoutsWellFormed
    <3>3. CASE y \notin DOMAIN diffs
      BY <3>1, <3>3 DEF Valid, RemovedOrMissingNodeFanoutsWellFormed
    <3> QED
      BY <3>2, <3>3
  <2> QED
    BY <2>1, <2>2
<1> QED
  BY <1>1, <1>2 DEF Vacated, NamesAfter

(* The fanins of an edited node name nodes of the new graph, and not the   *)
(* node itself. *)
LEMMA EditedNodeFanins ==
  ASSUME TypeOK, GraphWellFormed, Valid, NEW x \in Touched
  PROVE  FaninNames(EditedNode(x)) \subseteq NamesAfter \ {diffs[x].name}
<1> DEFINE d == diffs[x]
           v == View(x)
<1>0. IsWellFormed(d, v, NamesAfter) /\ x \in DOMAIN graph
  BY TouchedType DEF Valid
<1>v. v.name = x /\ v.ins = graph[x].ins /\ DOMAIN v.ctl = graph[x].ctl
      /\ \A k \in graph[x].ctl : v.ctl[k] = k
  BY DEF View
<1> HIDE DEF v
<1>1. ASSUME NEW i \in DOMAIN EditedNode(x).ins
      PROVE  EditedNode(x).ins[i][1] \in NamesAfter \ {d.name}
  <2>1. /\ i \in (DOMAIN graph[x].ins \ d.rem) \cup DOMAIN d.put
        /\ EditedNode(x).ins[i] = IF i \in DOMAIN d.put THEN d.put[i]
                                  ELSE graph[x].ins[i]
    BY <1>1, <1>v DEF EditedNode, EditedFanins, Positions, v
  <2>2. CASE i \in DOMAIN d.put
    BY <1>0, <2>1, <2>2 DEF IsWellFormed
  <2>3. CASE i \notin DOMAIN d.put
    <3>1. graph[x].ins[i][1] \in NamesAfter /\ graph[x].ins[i][1] # x
      BY <1>0, <2>1, <2>3, FaninStays
    <3>2. d.name # x => graph[x].ins[i][1] # d.name
      BY <1>0, <1>v, <2>1, <2>3 DEF IsWellFormed, Positions
    <3> QED
      BY <2>1, <2>3, <3>1, <3>2
  <2> QED
    BY <2>2, <2>3
<1>2. ASSUME NEW n \in EditedNode(x).ctl PROVE n \in NamesAfter \ {d.name}
  <2>1. n \in (graph[x].ctl \ d.crem) \cup d.cadd
    BY <1>2 DEF EditedNode
  <2>2. CASE n \in d.cadd
    BY <1>0, <2>2 DEF IsWellFormed
  <2>3. CASE n \in graph[x].ctl \ d.crem
    <3>1. n \in NamesAfter /\ n # x
      BY <1>0, <2>3, FaninStays
    <3>2. d.name # x => n # d.name
      BY <1>0, <1>v, <2>3 DEF IsWellFormed
    <3> QED
      BY <3>1, <3>2
  <2> QED
    BY <2>1, <2>2, <2>3
<1> QED
  BY <1>1, <1>2 DEF FaninNames

(* A valid mutation makes a well-formed graph. *)
LEMMA AppliedGraphWellFormed ==
  ASSUME TypeOK, GraphWellFormed, Valid
  PROVE  IsWellFormedGraph(AppliedGraph)
<1> SUFFICES ASSUME NEW n \in NamesAfter
             PROVE  FaninNames(AppliedGraph[n]) \subseteq NamesAfter \ {n}
  BY NamesApplied DEF IsWellFormedGraph
<1>1. CASE \E k \in DOMAIN fresh : /\ fresh[k].name = n
                                  /\ AppliedGraph[n] = Node(fresh[k])
  BY <1>1 DEF Valid, NewNodeIsWellFormed, Node, FaninNames
<1>2. CASE \E x \in Touched : /\ diffs[x].name = n
                             /\ AppliedGraph[n] = EditedNode(x)
  BY <1>2, EditedNodeFanins
<1>3. CASE n \in Kept /\ AppliedGraph[n] = graph[n]
  <2>1. n \in DOMAIN graph
    BY <1>3 DEF Kept
  <2>2. n \notin Touched
    BY <1>3 DEF Kept, Claimed, Renamed, Touched
  <2> QED
    BY <1>3, <2>1, <2>2, FaninStays DEF FaninNames
<1> QED
  BY <1>1, <1>2, <1>3, AppliedNode

(* No sequence of edits, removals, additions and applies leaves a fanin    *)
(* without its node or a node that is its own fanin, although Apply only   *)
(* checks the nodes it changes and the consumers of names it takes away.   *)
THEOREM AlwaysWellFormed == Spec => []GraphWellFormed
<1>1. Init => GraphWellFormed
  BY InitGraphsAssumption DEF Init, GraphWellFormed
<1>2. TypeOK /\ GraphWellFormed /\ [Next]_vars => GraphWellFormed'
  <2> SUFFICES ASSUME TypeOK, GraphWellFormed, [Next]_vars
               PROVE  GraphWellFormed'
    OBVIOUS
  <2>1. CASE Apply /\ Valid
    BY <2>1, AppliedGraphWellFormed DEF Apply, GraphWellFormed
  <2>2. CASE Apply /\ ~Valid
    BY <2>2 DEF Apply, GraphWellFormed
  <2>3. CASE EditNode
    BY <2>3 DEF EditNode, Edit, AddMutation, GraphWellFormed
  <2>4. CASE UNCHANGED graph
    BY <2>4 DEF GraphWellFormed
  <2> QED
    BY <2>1, <2>2, <2>3, <2>4
       DEF Next, RemoveNode, AddNode, HasSelfFanin, EditNewNode, Reset, SortTopologically, vars
<1> QED
  BY <1>1, <1>2, TypeCorrect, PTL DEF Spec

-----------------------------------------------------------------------------
(* A mutation does what GraphIntent promises.                              *)

(* The draft of node x if its diff is d. *)
DraftWith(x, d) ==
  [name |-> d.name, op |-> d.op, ins |-> EditedFanins(d, View(x)),
   ctl |-> (graph[x].ctl \ d.crem) \cup d.cadd]

Draft == [x \in DOMAIN graph \ removed |-> DraftOf(x)]

(* A node of the graph is a record of these fields. *)
LEMMA NodeType ==
  ASSUME TypeOK, NEW x \in DOMAIN graph
  PROVE  /\ x \in Names /\ graph[x] \in GraphNode
         /\ graph[x].ins \in Seq(Tensors) /\ graph[x].ctl \subseteq Names
         /\ View(x).name = x /\ View(x).op = graph[x].op
         /\ View(x).ins = graph[x].ins
         /\ Positions(View(x)) = DOMAIN graph[x].ins
         /\ DOMAIN View(x).ctl = graph[x].ctl
BY DEF TypeOK, GraphNode, View, Positions

(* A diff that says nothing makes the draft the node itself. *)
LEMMA EmptyDiffDraft ==
  ASSUME TypeOK, NEW x \in DOMAIN graph, NEW d \in NodeDiff,
         IsEmpty(d, View(x))
  PROVE  DraftWith(x, d) = Intent!AsDraft(x)
<1>1. /\ d.name = x /\ d.op = graph[x].op /\ DOMAIN d.put = {}
      /\ d.rem = {} /\ d.cadd = {} /\ d.crem = {}
  BY NodeType DEF IsEmpty
<1>2. graph[x].ins = [i \in DOMAIN graph[x].ins |-> graph[x].ins[i]]
  BY NodeType
<1>3. EditedFanins(d, View(x)) = graph[x].ins
  BY <1>1, <1>2, NodeType DEF EditedFanins
<1> QED
  BY <1>1, <1>3 DEF DraftWith, Intent!AsDraft

(* A diff that says something makes it another: that is what the fit of a  *)
(* diff is for. *)
LEMMA DiffDraft ==
  ASSUME TypeOK, NEW x \in DOMAIN graph, NEW d \in NodeDiff,
         DiffFits(d, View(x)), DraftWith(x, d) = Intent!AsDraft(x)
  PROVE  IsEmpty(d, View(x))
<1>1. /\ d.name = x /\ d.op = graph[x].op
      /\ EditedFanins(d, View(x)) = graph[x].ins
      /\ (graph[x].ctl \ d.crem) \cup d.cadd = graph[x].ctl
  BY DEF DraftWith, Intent!AsDraft
<1>2. /\ d.rem \subseteq DOMAIN graph[x].ins \ DOMAIN d.put
      /\ \A i \in DOMAIN d.put \cap DOMAIN graph[x].ins :
           d.put[i] # graph[x].ins[i]
      /\ d.crem \subseteq graph[x].ctl /\ d.cadd \cap graph[x].ctl = {}
  BY NodeType DEF DiffFits
<1>3. (DOMAIN graph[x].ins \ d.rem) \cup DOMAIN d.put = DOMAIN graph[x].ins
  BY <1>1, NodeType DEF EditedFanins
<1>4. d.rem = {}
  BY <1>2, <1>3
<1>5. DOMAIN d.put = {}
  <2> SUFFICES ASSUME NEW i \in DOMAIN d.put PROVE FALSE
    OBVIOUS
  <2>1. i \in DOMAIN graph[x].ins
    BY <1>3
  <2>2. EditedFanins(d, View(x))[i] = d.put[i]
    BY DEF EditedFanins
  <2> QED
    BY <1>1, <1>2, <2>1, <2>2
<1>6. d.cadd = {} /\ d.crem = {}
  BY <1>1, <1>2
<1> QED
  BY <1>1, <1>4, <1>5, <1>6, NodeType DEF IsEmpty

(* So the nodes left alone are those that Apply does not touch. *)
LEMMA LeftAloneIsUntouched ==
  ASSUME TypeOK
  PROVE  /\ DOMAIN Draft \ Intent!LeftAlone = Touched
         /\ Intent!LeftAlone = DOMAIN graph \ (removed \cup Touched)
         /\ \A x \in DOMAIN graph : DraftOf(x) = DraftWith(x, DiffOf(x))
<1>1. ASSUME NEW x \in DOMAIN graph \ removed
      PROVE  DraftOf(x) = Intent!AsDraft(x) <=> x \notin Touched
  <2>1. DraftOf(x) = DraftWith(x, DiffOf(x))
    BY DEF DraftOf, DraftWith
  <2>2. DiffOf(x) \in NodeDiff /\ DiffFits(DiffOf(x), View(x))
    BY DiffOfType
  <2>3. DraftOf(x) = Intent!AsDraft(x) <=> IsEmpty(DiffOf(x), View(x))
    BY <2>1, <2>2, EmptyDiffDraft, DiffDraft
  <2>4. x \notin DOMAIN diffs => IsEmpty(DiffOf(x), View(x))
    BY DEF DiffOf, EmptyDiff, IsEmpty
  <2>5. x \in DOMAIN diffs => DiffOf(x) = diffs[x]
    BY DEF DiffOf
  <2> QED
    BY <2>3, <2>4, <2>5 DEF Touched
<1>2. Touched \subseteq DOMAIN graph \ removed
  BY DEF Touched, TypeOK
<1>3. Intent!LeftAlone
        = {x \in DOMAIN graph \ removed : DraftOf(x) = Intent!AsDraft(x)}
  BY DEF Intent!LeftAlone
<1>4. \A x : DraftOf(x) = DraftWith(x, DiffOf(x))
  BY DEF DraftOf, DraftWith
<1>5. DOMAIN Draft = DOMAIN graph \ removed
  BY DEF Draft
<1> QED
  BY <1>1, <1>2, <1>3, <1>4, <1>5

(* A call that edits node x changes its draft and no other. *)
LEMMA AddMutationDraft ==
  ASSUME TypeOK, NEW x \in DOMAIN graph \ removed, NEW d, AddMutation(x, d)
  PROVE  /\ UNCHANGED <<graph, removed, fresh, status>>
         /\ DOMAIN Draft' = DOMAIN Draft
         /\ Draft'[x] = DraftWith(x, d)
         /\ \A y \in DOMAIN Draft \ {x} : Draft'[y] = Draft[y]
<1>1. /\ UNCHANGED <<graph, removed, fresh, status>>
      /\ DOMAIN diffs' = DOMAIN diffs \cup {x}
      /\ \A y \in DOMAIN diffs' : diffs'[y] = IF y = x THEN d ELSE diffs[y]
  BY DEF AddMutation, With
<1>2. DiffOf(x)' = d /\ \A y : y # x => DiffOf(y)' = DiffOf(y)
  BY <1>1 DEF DiffOf, View
<1>3. DraftOf(x)' = DraftWith(x, d) /\ \A y : y # x => DraftOf(y)' = DraftOf(y)
  BY <1>1, <1>2 DEF DraftOf, DraftWith, View
<1> QED
  BY <1>1, <1>3 DEF Draft

(* Each edit of a diff is an edit of the draft. *)
LEMMA EditIsIntended ==
  ASSUME TypeOK, NEW x \in DOMAIN graph \ removed, Edit(x)
  PROVE  Intent!Edit
<1> DEFINE d == DiffOf(x)
           v == View(x)
           w == DraftWith(x, d)
           old == graph[x]
<1>d. /\ d \in NodeDiff /\ DiffFits(d, v)
      /\ d.name \in Names /\ d.rem \subseteq Positions(v) \ DOMAIN d.put
      /\ d.crem \subseteq old.ctl /\ d.cadd \cap old.ctl = {}
  BY DiffOfType, NodeType DEF DiffFits, NodeDiff
<1>v. /\ Positions(v) = DOMAIN old.ins /\ v.ins = old.ins
      /\ DOMAIN v.ctl = old.ctl
  BY NodeType
<1>w. w = [name |-> d.name, op |-> d.op, ins |-> EditedFanins(d, v),
           ctl |-> (old.ctl \ d.crem) \cup d.cadd]
  BY DEF DraftWith
<1> HIDE DEF d, v
<1>1. ASSUME NEW n \in Names
      PROVE  Intent!OneEdit(w, DraftWith(x, UpdateName(d, n)))
  <2> DEFINE e == UpdateName(d, n)
  <2>1. /\ e.name = n /\ e.op = d.op /\ e.put = d.put /\ e.rem = d.rem
        /\ e.cadd = d.cadd /\ e.crem = d.crem
    BY <1>d DEF UpdateName, NodeDiff
  <2> HIDE DEF e
  <2>2. EditedFanins(e, v) = EditedFanins(d, v)
    BY <2>1 DEF EditedFanins
  <2>3. DraftWith(x, e) = [w EXCEPT !.name = n]
    BY <2>1, <2>2, <1>w, SMTT(30) DEF DraftWith, v
  <2> QED
    BY <2>3 DEF Intent!OneEdit, e
<1>2. ASSUME NEW op \in Ops
      PROVE  Intent!OneEdit(w, DraftWith(x, UpdateOp(d, op)))
  <2> DEFINE e == UpdateOp(d, op)
  <2>1. /\ e.name = d.name /\ e.op = op /\ e.put = d.put /\ e.rem = d.rem
        /\ e.cadd = d.cadd /\ e.crem = d.crem
    BY <1>d DEF UpdateOp, NodeDiff
  <2> HIDE DEF e
  <2>2. EditedFanins(e, v) = EditedFanins(d, v)
    BY <2>1 DEF EditedFanins
  <2>3. DraftWith(x, e)
          = [name |-> d.name, op |-> op, ins |-> EditedFanins(d, v),
             ctl |-> (old.ctl \ d.crem) \cup d.cadd]
    BY <2>1, <2>2 DEF DraftWith, v
  <2>4. DraftWith(x, e) = [w EXCEPT !.op = op]
    BY <2>3, <1>w
  <2> QED
    BY <2>4 DEF Intent!OneEdit, e
<1>3. ASSUME NEW i \in 1..MaxFanin, NEW t \in Tensors
      PROVE  Intent!OneEdit(w, DraftWith(x, AddOrUpdateRegularFanin(d, v, i, t)))
  <2> DEFINE e == AddOrUpdateRegularFanin(d, v, i, t)
             put == IF i \in Positions(v) /\ v.ins[i] = t THEN d.put
                    ELSE With(d.put, i, t)
             new == EditedFanins(e, v)
  <2>1. /\ e.name = d.name /\ e.op = d.op /\ e.put = put
        /\ e.rem = d.rem \ {i}
        /\ e.cadd = d.cadd /\ e.crem = d.crem
    BY <1>d DEF AddOrUpdateRegularFanin, NodeDiff
  <2>2. /\ DOMAIN put \subseteq DOMAIN d.put \cup {i}
        /\ DOMAIN d.put \subseteq DOMAIN put
        /\ i \in DOMAIN put \/ i \in Positions(v)
        /\ \A j \in DOMAIN d.put : j # i => put[j] = d.put[j]
    BY DEF With
  <2> HIDE DEF e, put
  <2>3. new = [j \in (Positions(v) \ e.rem) \cup DOMAIN e.put |->
                 IF j \in DOMAIN e.put THEN e.put[j] ELSE v.ins[j]]
    BY DEF EditedFanins
  <2>4. DOMAIN new = DOMAIN w.ins \cup {i}
    <3>1. DOMAIN w.ins = (Positions(v) \ d.rem) \cup DOMAIN d.put
      BY <1>w DEF EditedFanins
    <3> QED
      BY <3>1, <2>1, <2>2, <2>3, <1>d
  <2>5. ASSUME NEW j \in DOMAIN w.ins, j # i PROVE new[j] = w.ins[j]
    <3>1. w.ins[j] = IF j \in DOMAIN d.put THEN d.put[j] ELSE v.ins[j]
      BY <2>5, <1>w DEF EditedFanins
    <3> QED
      BY <3>1, <2>1, <2>2, <2>3, <2>4, <2>5
  <2>6. new = [j \in DOMAIN w.ins \cup {i} |-> IF j = i THEN new[i] ELSE w.ins[j]]
    BY <2>3, <2>4, <2>5
  <2>7. DraftWith(x, e) = [w EXCEPT !.ins = new]
    BY <2>1, <1>w DEF DraftWith, v
  <2>8. DraftWith(x, e).ins = new
    BY <2>7, <1>w
  <2>9. DraftWith(x, e) = Intent!Put(w, i, DraftWith(x, e).ins[i])
    BY <2>6, <2>7, <2>8 DEF Intent!Put
  <2> QED
    BY <2>4, <2>8, <2>9 DEF Intent!OneEdit, e
<1>4. ASSUME NEW i \in 1..MaxFanin, ~NothingToRemove(d, v, i)
      PROVE  Intent!OneEdit(w, DraftWith(x, RemoveRegularFanin(d, v, i)))
  <2> DEFINE e == RemoveRegularFanin(d, v, i)
             new == EditedFanins(e, v)
  <2>1. /\ e.name = d.name /\ e.op = d.op /\ e.put = Without(d.put, i)
        /\ e.rem = IF i \in Positions(v) THEN d.rem \cup {i} ELSE d.rem
        /\ e.cadd = d.cadd /\ e.crem = d.crem
    BY <1>d DEF RemoveRegularFanin, NodeDiff
  <2>2. /\ DOMAIN e.put = DOMAIN d.put \ {i}
        /\ \A j \in DOMAIN e.put : e.put[j] = d.put[j]
    BY <2>1 DEF Without
  <2> HIDE DEF e
  <2>3. new = [j \in (Positions(v) \ e.rem) \cup DOMAIN e.put |->
                 IF j \in DOMAIN e.put THEN e.put[j] ELSE v.ins[j]]
    BY DEF EditedFanins
  <2>4. w.ins = [j \in (Positions(v) \ d.rem) \cup DOMAIN d.put |->
                   IF j \in DOMAIN d.put THEN d.put[j] ELSE v.ins[j]]
    BY <1>w DEF EditedFanins
  <2>5. DOMAIN new = DOMAIN w.ins \ {i}
    BY <2>1, <2>2, <2>3, <2>4
  <2>6. ASSUME NEW j \in DOMAIN new PROVE new[j] = w.ins[j]
    BY <2>2, <2>3, <2>4, <2>5, <2>6
  <2>7. new = [j \in DOMAIN w.ins \ {i} |-> w.ins[j]]
    BY <2>3, <2>5, <2>6
  <2>8. DraftWith(x, e) = [w EXCEPT !.ins = new]
    BY <2>1, <1>w, SMTT(30) DEF DraftWith, v
  <2>9. CASE i \in DOMAIN w.ins
    BY <2>7, <2>8, <2>9 DEF Intent!OneEdit, Intent!Drop, e
  <2>10. CASE i \notin DOMAIN w.ins
    <3>1. new = w.ins
      BY <2>4, <2>7, <2>10
    <3>2. DraftWith(x, e) = [w EXCEPT !.name = d.name]
      BY <3>1, <2>8, <1>w, SMTT(30)
    <3> QED
      BY <3>2, <1>d DEF Intent!OneEdit, e
  <2> QED
    BY <2>9, <2>10
<1>5. ASSUME NEW n \in Names
      PROVE  Intent!OneEdit(w, DraftWith(x, AddControllingFanin(d, v, n, n)))
  <2> DEFINE e == AddControllingFanin(d, v, n, n)
  <2>1. /\ e.name = d.name /\ e.op = d.op /\ e.put = d.put /\ e.rem = d.rem
        /\ e.crem = IF n \in old.ctl THEN d.crem \ {n} ELSE d.crem
        /\ e.cadd = IF n \in old.ctl THEN d.cadd ELSE d.cadd \cup {n}
    BY <1>d, <1>v DEF AddControllingFanin, NodeDiff
  <2> HIDE DEF e
  <2>2. EditedFanins(e, v) = EditedFanins(d, v)
    BY <2>1 DEF EditedFanins
  <2>3. (old.ctl \ e.crem) \cup e.cadd = w.ctl \cup {n}
    <3>1. w.ctl = (old.ctl \ d.crem) \cup d.cadd
      BY <1>w
    <3> QED
      BY <3>1, <2>1, <1>d
  <2>4. DraftWith(x, e) = [w EXCEPT !.ctl = w.ctl \cup {n}]
    BY <2>1, <2>2, <2>3, <1>w DEF DraftWith, v
  <2> QED
    BY <2>4 DEF Intent!OneEdit, e
<1>6. ASSUME NEW n \in Names
      PROVE  Intent!OneEdit(w, DraftWith(x, RemoveControllingFanin(d, v, n, n)))
  <2> DEFINE e == RemoveControllingFanin(d, v, n, n)
  <2>1. /\ e.name = d.name /\ e.op = d.op /\ e.put = d.put /\ e.rem = d.rem
        /\ e.crem = IF n \in old.ctl THEN d.crem \cup {n} ELSE d.crem
        /\ e.cadd = IF n \in old.ctl THEN d.cadd ELSE d.cadd \ {n}
    BY <1>d, <1>v DEF RemoveControllingFanin, NodeDiff
  <2> HIDE DEF e
  <2>2. EditedFanins(e, v) = EditedFanins(d, v)
    BY <2>1 DEF EditedFanins
  <2>3. (old.ctl \ e.crem) \cup e.cadd = w.ctl \ {n}
    <3>1. w.ctl = (old.ctl \ d.crem) \cup d.cadd
      BY <1>w
    <3> QED
      BY <3>1, <2>1, <1>d
  <2>4. DraftWith(x, e) = [w EXCEPT !.ctl = w.ctl \ {n}]
    BY <2>1, <2>2, <2>3, <1>w DEF DraftWith, v
  <2> QED
    BY <2>4 DEF Intent!OneEdit, e
<1>7. PICK e : AddMutation(x, e) /\ Intent!OneEdit(w, DraftWith(x, e))
  BY <1>1, <1>2, <1>3, <1>4, <1>5, <1>6 DEF Edit, d, v
<1>8. Draft[x] = w
  BY LeftAloneIsUntouched DEF Draft, d
<1> QED
  BY <1>7, <1>8, AddMutationDraft DEF Intent!Edit, Draft

(* Removing a node drops its draft, if it was not removed before. *)
LEMMA RemovalIsIntended ==
  ASSUME TypeOK, NEW x \in DOMAIN graph, RemoveNode(x)
  PROVE  Intent!Remove \/ UNCHANGED Intent!vars
<1>1. /\ UNCHANGED <<graph, fresh, status>> /\ removed' = removed \cup {x}
      /\ DOMAIN diffs' = DOMAIN diffs \ {x}
      /\ \A y \in DOMAIN diffs' : diffs'[y] = diffs[y]
  BY DEF RemoveNode, Without
<1>2. \A y : y # x => DraftOf(y)' = DraftOf(y)
  <2>1. \A y : y # x => DiffOf(y)' = DiffOf(y)
    BY <1>1 DEF DiffOf, View
  <2> QED
    BY <1>1, <2>1 DEF DraftOf, View
<1>3. CASE x \notin removed
  <2>1. Draft' = [y \in DOMAIN Draft \ {x} |-> Draft[y]] /\ x \in DOMAIN Draft
    BY <1>1, <1>2, <1>3 DEF Draft
  <2> QED
    BY <1>1, <2>1 DEF Intent!Remove, Draft
<1>4. CASE x \in removed
  <2>1. Draft' = Draft
    BY <1>1, <1>2, <1>4 DEF Draft
  <2> QED
    BY <1>1, <2>1 DEF Intent!vars, Draft
<1> QED
  BY <1>3, <1>4

(* A node is added behind the others, or refused. *)
LEMMA AdditionIsIntended ==
  ASSUME TypeOK, NEW w \in NewNodes, AddNode(w)
  PROVE  Intent!Add
<1>1. UNCHANGED <<graph, diffs, removed>>
  BY DEF AddNode, HasSelfFanin
<1>2. Draft' = Draft
  BY <1>1 DEF Draft, DraftOf, DiffOf, View
<1>3. \/ status' = "ok" /\ fresh' = Append(fresh, w)
      \/ status' = "bad node" /\ UNCHANGED fresh
  BY DEF AddNode, HasSelfFanin
<1>4. /\ Len(Append(fresh, w)) = Len(fresh) + 1
      /\ SubSeq(Append(fresh, w), 1, Len(fresh)) = fresh
  <2>1. fresh \in Seq(NewNode) /\ w \in NewNode
    BY NewNodesAssumption DEF TypeOK
  <2> QED
    BY <2>1
<1> QED
  BY <1>1, <1>2, <1>3, <1>4 DEF Intent!Add, Draft

(* An edit of a node to be added is an edit of that node. *)
LEMMA EditOfNewIsIntended ==
  ASSUME TypeOK, NEW k \in DOMAIN fresh, EditNewNode(k)
  PROVE  Intent!EditAdded
<1> DEFINE w == fresh[k]
<1>1. w \in NewNode
  BY FreshType
<1>2. ASSUME NEW i \in 1..MaxFanin, NEW t \in Tensors
      PROVE  Intent!OneEdit(w, [w EXCEPT !.ins = With(@, i, t)])
  <2> DEFINE w2 == [w EXCEPT !.ins = With(w.ins, i, t)]
  <2>1. w2.ins = With(w.ins, i, t)
    BY <1>1 DEF NewNode
  <2>2. i \in DOMAIN w2.ins /\ w2.ins[i] = t
    BY <2>1 DEF With
  <2>3. w2 = Intent!Put(w, i, t)
    BY DEF With, Intent!Put
  <2> QED
    BY <2>2, <2>3 DEF Intent!OneEdit
<1>3. ASSUME NEW i \in DOMAIN w.ins
      PROVE  Intent!OneEdit(w, [w EXCEPT !.ins = Without(@, i)])
  BY DEF Intent!OneEdit, Intent!Drop, Without
<1>4. PICK e : /\ Called
               /\ fresh' = [fresh EXCEPT ![k] = e]
               /\ UNCHANGED <<graph, diffs, removed, status>>
               /\ Intent!OneEdit(w, e)
  <2>1. w.ctl \subseteq Names
    BY <1>1 DEF NewNode
  <2> QED
    BY <1>2, <1>3, <2>1, ZenonT(60) DEF EditNewNode, Intent!OneEdit
<1>5. Draft' = Draft
  BY <1>4 DEF Draft, DraftOf, DiffOf, View
<1>6. fresh'[k] = e /\ DOMAIN fresh' = DOMAIN fresh
      /\ \A j \in DOMAIN fresh \ {k} : fresh'[j] = fresh[j]
  BY <1>4
<1> QED
  BY <1>4, <1>5, <1>6 DEF Intent!EditAdded, Draft

(* Once nothing is pending, every draft is the node itself. *)
LEMMA NothingPending ==
  ASSUME TypeOK', ClearMutation
  PROVE  Intent!Discard
<1>1. DOMAIN diffs' = {} /\ removed' = {} /\ fresh' = <<>>
  BY DEF ClearMutation, NoDiffs
<1>2. ASSUME NEW x \in DOMAIN graph' PROVE DraftOf(x)' = Intent!AsDraft(x)'
  <2>1. DiffOf(x)' = EmptyDiff(View(x)')
    BY <1>1 DEF DiffOf, EmptyDiff
  <2>2. graph'[x].ins \in Seq(Tensors)
    BY DEF TypeOK, GraphNode
  <2>3. EditedFanins(EmptyDiff(View(x)'), View(x)') = graph'[x].ins
    BY <2>2 DEF EditedFanins, EmptyDiff, Positions, View
  <2>4. (graph'[x].ctl \ EmptyDiff(View(x)').crem)
          \cup EmptyDiff(View(x)').cadd = graph'[x].ctl
    BY DEF EmptyDiff
  <2>5. DraftOf(x)'
          = [name |-> EmptyDiff(View(x)').name, op |-> EmptyDiff(View(x)').op,
             ins |-> graph'[x].ins, ctl |-> graph'[x].ctl]
    BY <2>1, <2>3, <2>4 DEF DraftOf
  <2> QED
    BY <2>5 DEF EmptyDiff, View, Intent!AsDraft
<1> QED
  BY <1>1, <1>2 DEF Intent!Discard

(* The nodes of the client, and their names. *)
LEMMA ClientNodes ==
  ASSUME TypeOK
  PROVE  /\ Intent!Mine = {DraftWith(x, diffs[x]) : x \in Touched}
                            \cup {fresh[k] : k \in DOMAIN fresh}
         /\ Intent!MyNames = Claimed
         /\ Intent!Clash <=> NameConflict
<1>1. Touched \subseteq DOMAIN graph /\ Touched \subseteq DOMAIN diffs
  BY DEF Touched, TypeOK
<1>2. ASSUME NEW x \in Touched
      PROVE  /\ DraftOf(x) = DraftWith(x, diffs[x])
             /\ Draft[x] = DraftWith(x, diffs[x])
  <2>1. DiffOf(x) = diffs[x]
    BY <1>1 DEF DiffOf
  <2> QED
    BY <2>1, <1>1, LeftAloneIsUntouched DEF Draft
<1>3. \A x : DraftWith(x, diffs[x]).name = diffs[x].name
  BY DEF DraftWith
<1>4. DOMAIN Draft \ Intent!LeftAlone = Touched
  BY LeftAloneIsUntouched
<1>5. Intent!Mine = {DraftWith(x, diffs[x]) : x \in Touched}
                      \cup {fresh[k] : k \in DOMAIN fresh}
  <2>1. Intent!Mine = {Draft[x] : x \in DOMAIN Draft \ Intent!LeftAlone}
                        \cup {fresh[k] : k \in DOMAIN fresh}
    BY DEF Intent!Mine, Draft
  <2>2. {Draft[x] : x \in Touched} = {DraftWith(x, diffs[x]) : x \in Touched}
    BY <1>2
  <2> QED
    BY <2>1, <2>2, <1>4
<1>6. Intent!MyNames = Claimed
  BY <1>3, <1>5 DEF Intent!MyNames, Claimed
<1>7. Intent!Clash <=> NameConflict
  <2>1. \A x \in Touched : Draft[x].name = diffs[x].name
    BY <1>2, <1>3
  <2>2. Intent!Clash <=>
          LET mine == DOMAIN Draft \ Intent!LeftAlone
          IN  \/ \E x, y \in mine : x # y /\ Draft[x].name = Draft[y].name
              \/ \E x \in mine, k \in DOMAIN fresh :
                    Draft[x].name = fresh[k].name
              \/ \E j, k \in DOMAIN fresh :
                    j # k /\ fresh[j].name = fresh[k].name
    BY DEF Intent!Clash, Draft
  <2> QED
    BY <2>1, <2>2, <1>4 DEF NameConflict
<1> QED
  BY <1>5, <1>6, <1>7

(* If no two of them have one name, the graph Apply makes is the draft. *)
LEMMA AppliedIsWanted ==
  ASSUME TypeOK, ~NameConflict
  PROVE  AppliedGraph = Intent!Wanted
<1>1. Intent!MyNames \cup Intent!LeftAlone = NamesAfter
  <2>1. Intent!LeftAlone = DOMAIN graph \ (removed \cup Touched)
    BY LeftAloneIsUntouched
  <2>2. Renamed \subseteq Touched
    BY DEF Renamed, Touched, IsEmpty, View
  <2>3. \A x \in Touched \ Renamed : x \in Claimed
    BY DEF Touched, Renamed, Claimed
  <2> QED
    BY <2>1, <2>2, <2>3, ClientNodes DEF NamesAfter
<1>2. DOMAIN Intent!Wanted = NamesAfter
  BY <1>1 DEF Intent!Wanted
<1>3. ASSUME NEW n \in NamesAfter
      PROVE  AppliedGraph[n] = Intent!Wanted[n]
  <2> DEFINE w == CHOOSE w \in Intent!Mine : w.name = n
  <2>1. Intent!Wanted[n]
          = IF n \in Intent!MyNames
            THEN [op |-> w.op, ins |-> w.ins, ctl |-> w.ctl] ELSE graph[n]
    BY <1>1 DEF Intent!Wanted
  <2>2. n \in Intent!MyNames => w \in Intent!Mine /\ w.name = n
    BY DEF Intent!MyNames
  <2> HIDE DEF w
  <2>3. CASE \E k \in DOMAIN fresh : /\ fresh[k].name = n
                                    /\ AppliedGraph[n] = Node(fresh[k])
    <3>1. PICK k \in DOMAIN fresh : /\ fresh[k].name = n
                                    /\ AppliedGraph[n] = Node(fresh[k])
      BY <2>3
    <3>2. n \in Intent!MyNames
      BY <3>1, ClientNodes DEF Claimed
    <3>3. w = fresh[k]
      BY <2>2, <3>1, <3>2, ClientNodes DEF NameConflict, DraftWith
    <3> QED
      BY <2>1, <3>1, <3>2, <3>3 DEF Node
  <2>4. CASE \E x \in Touched : /\ diffs[x].name = n
                               /\ AppliedGraph[n] = EditedNode(x)
    <3>1. PICK x \in Touched : /\ diffs[x].name = n
                               /\ AppliedGraph[n] = EditedNode(x)
      BY <2>4
    <3>2. n \in Intent!MyNames
      BY <3>1, ClientNodes DEF Claimed
    <3>3. w = DraftWith(x, diffs[x])
      BY <2>2, <3>1, <3>2, ClientNodes DEF NameConflict, DraftWith
    <3> QED
      BY <2>1, <3>1, <3>2, <3>3 DEF EditedNode, DraftWith
  <2>5. CASE n \in Kept /\ AppliedGraph[n] = graph[n]
    BY <2>1, <2>5, ClientNodes DEF Kept
  <2> QED
    BY <2>3, <2>4, <2>5, AppliedNode
<1>4. /\ AppliedGraph = [n \in NamesAfter |-> AppliedGraph[n]]
      /\ Intent!Wanted = [n \in NamesAfter |-> Intent!Wanted[n]]
  BY <1>2, NamesApplied DEF AppliedGraph, Intent!Wanted
<1> QED
  BY <1>3, <1>4

(* What GraphIntent takes for a graph is what the view does. *)
LEMMA WellFormedIsIntended ==
  ASSUME NEW G, G \in [DOMAIN G -> GraphNode], IsWellFormedGraph(G)
  PROVE  Intent!WellFormed(G)
<1> SUFFICES ASSUME NEW n \in DOMAIN G
             PROVE  /\ \A i \in DOMAIN G[n].ins :
                         /\ \A j \in 1..i : j \in DOMAIN G[n].ins
                         /\ G[n].ins[i][1] \in DOMAIN G \ {n}
                    /\ G[n].ctl \subseteq DOMAIN G \ {n}
  BY DEF Intent!WellFormed
<1>1. G[n].ins \in Seq(Tensors)
  BY DEF GraphNode
<1>2. DOMAIN G[n].ins = 1..Len(G[n].ins) /\ Len(G[n].ins) \in Nat
  BY <1>1
<1>3. FaninNames(G[n]) \subseteq DOMAIN G \ {n}
  BY DEF IsWellFormedGraph
<1> QED
  BY <1>2, <1>3 DEF FaninNames

(* A mutation that is applied is the draft, which is a graph. *)
LEMMA CommitIsIntended ==
  ASSUME TypeOK, GraphWellFormed, TypeOK', Apply, Valid
  PROVE  Intent!Commit
<1>1. /\ graph' = AppliedGraph /\ status' = "ok" /\ ClearMutation
      /\ ~NameConflict
  BY DEF Apply, Valid
<1>2. AppliedGraph = Intent!Wanted /\ ~Intent!Clash
  BY <1>1, AppliedIsWanted, ClientNodes
<1>3. Intent!WellFormed(AppliedGraph)
  BY AppliedGraphType, AppliedGraphWellFormed, WellFormedIsIntended
<1> QED
  BY <1>1, <1>2, <1>3, NothingPending DEF Intent!Commit

(* What the draft says of a name is what Apply would make of it. *)
LEMMA WantedGraph ==
  ASSUME TypeOK, ~NameConflict
  PROVE  /\ DOMAIN Intent!Wanted = NamesAfter
         /\ \A x \in Touched :
              /\ diffs[x].name \in NamesAfter
              /\ Intent!Wanted[diffs[x].name] = EditedNode(x)
         /\ \A k \in DOMAIN fresh :
              /\ fresh[k].name \in NamesAfter
              /\ Intent!Wanted[fresh[k].name] = Node(fresh[k])
         /\ \A x \in Intent!LeftAlone \ Claimed :
              x \in NamesAfter /\ Intent!Wanted[x] = graph[x]
<1>1. DOMAIN Intent!Wanted = NamesAfter
  BY AppliedIsWanted, NamesApplied
<1>2. ASSUME NEW x \in Touched
      PROVE  /\ diffs[x].name \in NamesAfter
             /\ Intent!Wanted[diffs[x].name] = EditedNode(x)
  <2> DEFINE n == diffs[x].name
  <2>1. n \in Claimed /\ n \in NamesAfter
    BY DEF Claimed, NamesAfter
  <2>2. /\ n \notin {fresh[k].name : k \in DOMAIN fresh} /\ n \notin Kept
        /\ \A y \in Touched : diffs[y].name = n => y = x
    BY <2>1 DEF NameConflict, Kept
  <2>3. AppliedGraph[n] = EditedNode(x)
    BY <2>1, <2>2, AppliedNode
  <2> QED
    BY <2>1, <2>3, AppliedIsWanted
<1>3. ASSUME NEW k \in DOMAIN fresh
      PROVE  /\ fresh[k].name \in NamesAfter
             /\ Intent!Wanted[fresh[k].name] = Node(fresh[k])
  <2> DEFINE n == fresh[k].name
  <2>1. n \in Claimed /\ n \in NamesAfter
    BY DEF Claimed, NamesAfter
  <2>2. /\ \A j \in DOMAIN fresh : fresh[j].name = n => j = k
        /\ n \notin Kept /\ \A y \in Touched : diffs[y].name # n
    BY <2>1 DEF NameConflict, Kept
  <2>3. AppliedGraph[n] = Node(fresh[k])
    BY <2>1, <2>2, AppliedNode
  <2> QED
    BY <2>1, <2>3, AppliedIsWanted
<1>4. ASSUME NEW x \in Intent!LeftAlone, x \notin Claimed
      PROVE  x \in NamesAfter /\ Intent!Wanted[x] = graph[x]
  <2>1. x \in NamesAfter
    BY <1>1, <1>4 DEF Intent!Wanted
  <2> QED
    BY <2>1, <1>1, <1>4, ClientNodes DEF Intent!Wanted
<1> QED
  BY <1>1, <1>2, <1>3, <1>4

(* If the draft is a graph, the diff of each node is well-formed. *)
LEMMA WantedDiffs ==
  ASSUME TypeOK, ~NameConflict, Intent!WellFormed(Intent!Wanted),
         NEW x \in Touched
  PROVE  IsWellFormed(diffs[x], View(x), NamesAfter)
<1> DEFINE d == diffs[x]
           v == View(x)
           g == EditedNode(x)
<1>1. /\ d \in NodeDiff /\ DiffFits(d, v) /\ x \in DOMAIN graph
  BY TouchedType
<1>2. /\ \A i \in DOMAIN g.ins : /\ \A j \in 1..i : j \in DOMAIN g.ins
                                 /\ g.ins[i][1] \in NamesAfter \ {d.name}
      /\ g.ctl \subseteq NamesAfter \ {d.name}
  BY WantedGraph DEF Intent!WellFormed
<1>3. /\ v.name = x /\ v.ins = graph[x].ins /\ DOMAIN v.ctl = graph[x].ctl
      /\ \A k \in graph[x].ctl : v.ctl[k] = k
  BY DEF View
<1>4. Positions(v) = 1..Len(v.ins) /\ Len(v.ins) \in Nat
  BY <1>1, <1>3, NodeType DEF Positions
<1>5. /\ g.ins = EditedFanins(d, v)
      /\ g.ctl = (graph[x].ctl \ d.crem) \cup d.cadd
  BY DEF EditedNode
<1> HIDE DEF v, g
<1>6. /\ DOMAIN g.ins = (Positions(v) \ d.rem) \cup DOMAIN d.put
      /\ \A i \in DOMAIN g.ins :
           g.ins[i] = IF i \in DOMAIN d.put THEN d.put[i] ELSE v.ins[i]
  BY <1>5 DEF EditedFanins
<1>7. d.rem \subseteq Positions(v) \ DOMAIN d.put
  BY <1>1 DEF DiffFits
<1>8. \A i \in DOMAIN d.put : i \in Nat /\ i >= 1
  <2>1. d.put \in PartialFanins
    BY <1>1 DEF NodeDiff
  <2>2. DOMAIN d.put \subseteq 1..MaxFanin
    BY <2>1, PartialFaninsType
  <2> QED
    BY <2>2, BoundsAssumption
<1>9. NoGaps(d, v)
  <2> DEFINE added == DOMAIN d.put \ Positions(v)
  <2>1. \A i \in added : \A j \in 1..i : j \in Positions(v) \/ j \in added
    BY <1>2, <1>6
  <2>2. added # {} => d.rem = {}
    <3> SUFFICES ASSUME NEW i \in added, NEW r \in d.rem PROVE FALSE
      OBVIOUS
    <3>1. r \in 1..i
      <4>1. r \in 1..Len(v.ins) /\ i \notin 1..Len(v.ins)
        BY <1>4, <1>7
      <4> QED
        BY <4>1, <1>4, <1>8
    <3>2. r \in DOMAIN g.ins
      BY <3>1, <1>2, <1>6
    <3> QED
      BY <3>2, <1>6, <1>7
  <2>3. \A i \in d.rem : \A j \in Positions(v) : j > i => j \in d.rem
    <3> SUFFICES ASSUME NEW i \in d.rem, NEW j \in Positions(v), j > i,
                        j \notin d.rem
                 PROVE  FALSE
      OBVIOUS
    <3>1. i \in 1..j /\ j \in DOMAIN g.ins
      BY <1>4, <1>6, <1>7
    <3>2. i \in DOMAIN g.ins
      BY <3>1, <1>2
    <3> QED
      BY <3>2, <1>6, <1>7
  <2> QED
    BY <2>1, <2>2, <2>3 DEF NoGaps
<1>10. \A i \in DOMAIN d.put : d.put[i][1] \in NamesAfter \ {d.name}
  BY <1>2, <1>6
<1>11. d.cadd \subseteq NamesAfter \ {d.name}
  BY <1>2, <1>5
<1>12. /\ \A i \in Positions(v) \ (d.rem \cup DOMAIN d.put) :
             v.ins[i][1] # d.name
       /\ \A k \in DOMAIN v.ctl \ d.crem : v.ctl[k] # d.name
  BY <1>2, <1>3, <1>5, <1>6
<1> QED
  BY <1>9, <1>10, <1>11, <1>12 DEF IsWellFormed, v

(* And no consumer keeps a name that will be missing, but one the client   *)
(* left alone and replaces all the same. *)
LEMMA WantedFanouts ==
  ASSUME TypeOK, ~NameConflict, Intent!WellFormed(Intent!Wanted),
         ~Intent!ReplacedConsumer
  PROVE  RemovedOrMissingNodeFanoutsWellFormed
<1> SUFFICES ASSUME NEW m \in Vacated, NEW y \in DOMAIN graph
             PROVE  /\ \A i \in DOMAIN graph[y].ins : graph[y].ins[i][1] = m =>
                         IF y \in DOMAIN diffs
                         THEN i \in diffs[y].rem \/ i \in DOMAIN diffs[y].put
                         ELSE y \in removed \/ y \in Overwritten
                    /\ m \in graph[y].ctl =>
                         IF y \in DOMAIN diffs
                         THEN m \in diffs[y].crem
                         ELSE y \in removed \/ y \in Overwritten
  BY DEF RemovedOrMissingNodeFanoutsWellFormed
<1>1. m \notin NamesAfter
  BY DEF Vacated, NamesAfter
<1>2. m \in Intent!GivenUp /\ m \notin Intent!MyNames
  <2>1. m \in DOMAIN graph /\ m \notin Claimed /\ m \in Renamed \cup removed
    BY DEF Vacated, Renamed, TypeOK
  <2>2. m \in Renamed \ removed => Draft[m].name # m
    BY <2>1 DEF Renamed, Draft, DraftOf, DiffOf
  <2>3. m \in DOMAIN Draft <=> m \notin removed
    BY <2>1 DEF Draft
  <2> QED
    BY <2>1, <2>2, <2>3, ClientNodes DEF Intent!GivenUp, Draft
<1>3. CASE y \in Touched
  <2>1. y \in DOMAIN diffs /\ diffs[y].name \in NamesAfter
    BY <1>3, WantedGraph DEF Touched
  <2>2. /\ \A i \in DOMAIN EditedNode(y).ins : EditedNode(y).ins[i][1] # m
        /\ m \notin EditedNode(y).ctl
    BY <1>1, <1>3, <2>1, WantedGraph DEF Intent!WellFormed
  <2>3. /\ DOMAIN EditedNode(y).ins
             = (DOMAIN graph[y].ins \ diffs[y].rem) \cup DOMAIN diffs[y].put
        /\ \A i \in DOMAIN EditedNode(y).ins :
             EditedNode(y).ins[i] = IF i \in DOMAIN diffs[y].put
                                    THEN diffs[y].put[i] ELSE graph[y].ins[i]
        /\ EditedNode(y).ctl
             = (graph[y].ctl \ diffs[y].crem) \cup diffs[y].cadd
    BY DEF EditedNode, EditedFanins, Positions, View
  <2> QED
    BY <2>1, <2>2, <2>3
<1>4. CASE y \in removed
  BY <1>4 DEF TypeOK
<1>5. CASE y \notin removed \cup Touched
  <2>1. y \in Intent!LeftAlone
    BY <1>5, LeftAloneIsUntouched
  <2>2. /\ \A i \in DOMAIN graph[y].ins : graph[y].ins[i][1] # m
        /\ m \notin graph[y].ctl
    <3>1. CASE y \in Intent!MyNames
      BY <1>2, <2>1, <3>1 DEF Intent!ReplacedConsumer
    <3>2. CASE y \notin Intent!MyNames
      BY <1>1, <2>1, <3>2, WantedGraph, ClientNodes DEF Intent!WellFormed
    <3> QED
      BY <3>1, <3>2
  <2> QED
    BY <2>2
<1> QED
  BY <1>3, <1>4, <1>5

(* A mutation that is refused is no graph, or replaces such a consumer. *)
LEMMA RefusalIsIntended ==
  ASSUME TypeOK, Apply, ~Valid
  PROVE  Intent!Refuse
<1>1. /\ status' = "bad mutation"
      /\ UNCHANGED <<graph, diffs, removed, fresh>>
  BY DEF Apply
<1>2. Draft' = Draft
  BY <1>1 DEF Draft, DraftOf, DiffOf, View
<1>3. ASSUME ~Intent!Clash, Intent!WellFormed(Intent!Wanted),
             ~Intent!ReplacedConsumer
      PROVE  Valid
  <2>1. ~NameConflict
    BY <1>3, ClientNodes
  <2>2. ASSUME NEW k \in DOMAIN fresh
        PROVE  NewNodeIsWellFormed(fresh[k], NamesAfter)
    <3> DEFINE g == Intent!Wanted
               n == fresh[k].name
    <3>1. /\ DOMAIN g = NamesAfter /\ n \in NamesAfter
          /\ g[n] = Node(fresh[k])
      BY <2>1, WantedGraph
    <3>2. /\ \A i \in DOMAIN g[n].ins :
               /\ \A j \in 1..i : j \in DOMAIN g[n].ins
               /\ g[n].ins[i][1] \in DOMAIN g \ {n}
          /\ g[n].ctl \subseteq DOMAIN g \ {n}
      BY <1>3, <3>1 DEF Intent!WellFormed
    <3>3. g[n].ins = fresh[k].ins /\ g[n].ctl = fresh[k].ctl
      BY <3>1 DEF Node
    <3> HIDE DEF g
    <3> QED
      BY <3>1, <3>2, <3>3 DEF NewNodeIsWellFormed
  <2> QED
    BY <1>3, <2>1, <2>2, WantedDiffs, WantedFanouts DEF Valid
<1> QED
  BY <1>1, <1>2, <1>3 DEF Intent!Refuse, Draft

-----------------------------------------------------------------------------
(* Every step of a mutation is a step of its intent, or none. *)
LEMMA StepOfIntent ==
  ASSUME TypeOK, GraphWellFormed, TypeOK', [Next]_vars
  PROVE  [Intent!Next]_Intent!vars
<1>1. CASE EditNode
  BY <1>1, EditIsIntended DEF EditNode, Intent!Next
<1>2. CASE \E x \in DOMAIN graph : RemoveNode(x)
  BY <1>2, RemovalIsIntended DEF Intent!Next
<1>3. CASE \E w \in NewNodes : AddNode(w)
  BY <1>3, AdditionIsIntended DEF Intent!Next
<1>4. CASE \E k \in DOMAIN fresh : EditNewNode(k)
  BY <1>4, EditOfNewIsIntended DEF Intent!Next
<1>5. CASE Apply
  BY <1>5, CommitIsIntended, RefusalIsIntended DEF Intent!Next
<1>6. CASE Reset
  BY <1>6, NothingPending DEF Reset, Intent!Reset, Intent!Next
<1>7. CASE SortTopologically
  <2>1. /\ status' \in {"sorted", "unsorted"}
        /\ UNCHANGED <<graph, diffs, removed, fresh>>
    BY <1>7 DEF SortTopologically
  <2>2. Draft' = Draft
    BY <2>1 DEF Draft, DraftOf, DiffOf, View
  <2> QED
    BY <2>1, <2>2 DEF Intent!Sort, Intent!Next, Draft
<1>8. CASE UNCHANGED vars
  <2>1. Draft' = Draft
    BY <1>8 DEF vars, Draft, DraftOf, DiffOf, View
  <2> QED
    BY <1>8, <2>1 DEF vars, Intent!vars, Draft
<1> QED
  BY <1>1, <1>2, <1>3, <1>4, <1>5, <1>6, <1>7, <1>8 DEF Next

(* Whatever edits, removals and additions a client makes, in any order and *)
(* on top of each other: Apply turns the graph into the draft they         *)
(* describe, or refuses it, and refuses hardly any draft that is a graph.  *)
THEOREM RefinesGraphIntent == Spec => ImplementsIntent
<1>1. Init => Intent!Init
  <2> SUFFICES ASSUME Init PROVE Intent!Init
    OBVIOUS
  <2>1. TypeOK
    BY InitialType
  <2>2. Touched = {} /\ removed = {}
    BY DEF Init, NoDiffs, Touched
  <2>3. \A x \in DOMAIN graph : DraftOf(x) = Intent!AsDraft(x)
    BY <2>1, <2>2, LeftAloneIsUntouched DEF Intent!LeftAlone
  <2> QED
    BY <2>2, <2>3 DEF Init, Intent!Init
<1> QED
  BY <1>1, StepOfIntent, TypeCorrect, AlwaysWellFormed, PTL
     DEF Spec, ImplementsIntent, Intent!Spec
=============================================================================
