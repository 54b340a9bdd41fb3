------------------------ MODULE NamedGraphView_proofs ------------------------
(***************************************************************************)
(* Proofs about NamedGraphView, for any names, ports, ops, graphs, number  *)
(* of nodes and number of calls: whatever a client calls, inputs stay well *)
(* formed and the fanouts are found.                                       *)
(***************************************************************************)
EXTENDS NamedGraphView_fanins

-----------------------------------------------------------------------------
(* Names and ops that change.                                              *)

(* Inputs t of w name the nodes that inputs s of v name, controls in any   *)
(* order.                                                                  *)
SameSources(v, w, s, t) ==
  /\ DOMAIN t = DOMAIN s /\ Len(t) = Len(s) /\ Single(t)
  /\ \A i \in DOMAIN s :
       /\ t[i][2] = s[i][2]
       /\ HasNode(w, t[i][1])
       /\ s[i][2] # Control => GetNode(w, t[i][1]) = GetNode(v, s[i][1])
       /\ \E j \in DOMAIN s : s[j][2] = s[i][2] /\ GetNode(w, t[i][1]) = GetNode(v, s[j][1])
       /\ \E j \in DOMAIN s : s[j][2] = s[i][2] /\ GetNode(w, t[j][1]) = GetNode(v, s[i][1])

(* Inputs that are renamed in place read what they read.                   *)
LEMMA SameSourcesInPlace ==
  ASSUME NEW v \in Views, NEW w, NEW s, NEW t, Single(s),
         DOMAIN t = DOMAIN s, Len(t) = Len(s),
         \A i \in DOMAIN s : /\ t[i][2] = s[i][2]
                            /\ HasNode(v, s[i][1]) /\ HasNode(w, t[i][1])
                            /\ GetNode(w, t[i][1]) = GetNode(v, s[i][1])
  PROVE  SameSources(v, w, s, t)
<1>1. \A i \in DOMAIN s : v.def[GetNode(v, s[i][1])].name = s[i][1]
  BY NodeFound
<1>2. Single(t)
  BY <1>1 DEF Single
<1> QED
  BY <1>2 DEF SameSources

(* The same readers, from the same nodes.                                  *)
SameEdges(v, w) ==
  /\ WellTyped(w) /\ BoundedBut(w, {})
  /\ DOMAIN w.def = DOMAIN v.def /\ w.regular = v.regular
  /\ \A p : GetFanout(w, p) = GetFanout(v, p)
  /\ \A n \in DOMAIN v.def : SameSources(v, w, v.def[n].input, w.def[n].input)

(* Nobody waits for a new Switch, and Identities stay but for those in X.  *)
SameOps(v, w, X) ==
  \A f \in DOMAIN v.def :
    /\ IsSwitch(w, f) => IsSwitch(v, f) \/ GetFanout(v, <<f, Control>>) = {}
    /\ IsIdentity(v, f) => IsIdentity(w, f) \/ f \in X

(* A node is right if its inputs still come from the same nodes,           *)
LEMMA RelabelNode ==
  ASSUME NEW v, NEW Y, Good(v, Y), NEW w, SameEdges(v, w), NEW X, Y \subseteq X,
         SameOps(v, w, X), NEW n \in DOMAIN v.def
  PROVE  NodeOk(w, n, X)
<1> DEFINE s == v.def[n].input
           t == w.def[n].input
           k == v.regular[n]
<1>1. /\ v \in Views /\ WellTyped(v) /\ n \in Ids /\ s \in Seq(AnyInput)
      /\ InputsOk(v, n, s, k, Y) /\ Reads(v, n, s, {})
  BY ViewParts DEF Good, WellTyped, NodeOk
<1>2. /\ DOMAIN t = DOMAIN s /\ Len(t) = Len(s) /\ Single(t)
      /\ \A i \in DOMAIN s :
           /\ t[i][2] = s[i][2]
           /\ HasNode(w, t[i][1])
           /\ s[i][2] # Control => GetNode(w, t[i][1]) = GetNode(v, s[i][1])
           /\ \E j \in DOMAIN s : s[j][2] = s[i][2] /\ GetNode(w, t[i][1]) = GetNode(v, s[j][1])
           /\ \E j \in DOMAIN s : s[j][2] = s[i][2] /\ GetNode(w, t[j][1]) = GetNode(v, s[i][1])
  BY DEF SameEdges, SameSources
<1>3. /\ k <= Len(s)
      /\ \A i \in DOMAIN s :
           /\ HasNode(v, s[i][1])
           /\ GetNode(v, s[i][1]) # n
           /\ i <= k <=> s[i][2] # Control
           /\ s[i][2] = Control => ~IsSwitch(v, GetNode(v, s[i][1]))
      /\ Single(s) /\ NoRepeat(v, s, Y)
  BY <1>1 DEF InputsOk, Sound
<1>4. \A i \in DOMAIN s : GetNode(v, s[i][1]) \in DOMAIN v.def /\ v.def[GetNode(v, s[i][1])].name = s[i][1]
  BY <1>1, <1>3, NodeFound
<1>5. ASSUME NEW i \in DOMAIN s, s[i][2] = Control
      PROVE  ~IsSwitch(w, GetNode(w, t[i][1]))
  <2>0. PICK j \in DOMAIN s : s[j][2] = Control /\ GetNode(w, t[i][1]) = GetNode(v, s[j][1])
    BY <1>2, <1>5
  <2> DEFINE f == GetNode(v, s[j][1])
  <2>1. f \in DOMAIN v.def /\ ~IsSwitch(v, f) /\ GetNode(w, t[i][1]) = f
    BY <2>0, <1>3, <1>4
  <2>2. <<n, Control>> \in GetFanout(v, <<f, Control>>)
    <3>1. OutputPort(v, s[j]) = <<f, Control>> /\ Slot(s[j], j) = Control
      BY <2>0 DEF OutputPort, Slot
    <3>2. OutputPort(v, s[j]) \in Ends
      BY <1>1, <1>3, InputFacts
    <3> QED
      BY <1>1, <3>1, <3>2 DEF Reads, Slots
  <2> QED
    BY <2>1, <2>2 DEF SameOps
<1>A. \A i \in DOMAIN s : GetNode(w, t[i][1]) # n
  <2>1. \A j \in DOMAIN s : GetNode(v, s[j][1]) # n
    BY <1>3
  <2>2. \A i \in DOMAIN s : \E j \in DOMAIN s : GetNode(w, t[i][1]) = GetNode(v, s[j][1])
    BY <1>2
  <2> HIDE DEF s, t, k
  <2> QED
    BY <2>1, <2>2
<1> HIDE DEF s, t, k
<1>6. Sound(w, n, t, k)
  BY <1>2, <1>3, <1>5, <1>A DEF Sound
<1>8. NoRepeat(w, t, X)
  <2> SUFFICES ASSUME NEW i \in DOMAIN t, NEW j \in DOMAIN t,
                      t[i][2] = Control, t[j][2] # Control, t[i][1] = t[j][1]
               PROVE  IsIdentity(w, GetNode(w, t[i][1])) \/ GetNode(w, t[i][1]) \in X
    BY DEF NoRepeat
  <2>a. i \in DOMAIN s /\ j \in DOMAIN s /\ t[i][2] = s[i][2] /\ t[j][2] = s[j][2]
    BY <1>2
  <2>b. \E o \in DOMAIN s : s[o][2] = s[i][2] /\ GetNode(w, t[i][1]) = GetNode(v, s[o][1])
    BY <1>2, <2>a
  <2>0. PICK o \in DOMAIN s : s[o][2] = Control /\ GetNode(w, t[i][1]) = GetNode(v, s[o][1])
    BY <2>a, <2>b
  <2>c. GetNode(w, t[j][1]) = GetNode(v, s[j][1])
    BY <1>2, <2>a
  <2>d. GetNode(v, s[o][1]) = GetNode(v, s[j][1])
    BY <2>c, <2>0
  <2>1. s[o][1] = s[j][1] /\ s[j][2] # Control /\ GetNode(w, t[i][1]) = GetNode(v, s[j][1])
    <3>1. v.def[GetNode(v, s[o][1])].name = s[o][1] /\ v.def[GetNode(v, s[j][1])].name = s[j][1]
      BY <1>4, <2>a
    <3> QED
      BY <2>a, <2>c, <2>d, <3>1
  <2>2. IsIdentity(v, GetNode(v, s[o][1])) \/ GetNode(v, s[o][1]) \in Y
    BY <2>0, <2>1, <1>2, <1>3 DEF NoRepeat
  <2>3. GetNode(v, s[o][1]) \in DOMAIN v.def
    BY <1>4
  <2> QED
    BY <2>0, <2>2, <2>3 DEF SameOps
<1>9. Reads(w, n, t, {})
  <2>1. \A i \in DOMAIN s : \E j \in DOMAIN s :
          OutputPort(w, t[i]) = OutputPort(v, s[j]) /\ Slot(t[i], i) = Slot(s[j], j)
    <3> TAKE i \in DOMAIN s
    <3>1. CASE s[i][2] = Control
      <4>1. PICK j \in DOMAIN s : s[j][2] = s[i][2] /\ GetNode(w, t[i][1]) = GetNode(v, s[j][1])
        BY <1>2
      <4> QED
        BY <4>1, <3>1, <1>2 DEF OutputPort, Slot
    <3>2. CASE s[i][2] # Control
      BY <3>2, <1>2 DEF OutputPort, Slot
    <3> QED
      BY <3>1, <3>2
  <2>3. \A i \in DOMAIN s : \E j \in DOMAIN s :
          OutputPort(w, t[j]) = OutputPort(v, s[i]) /\ Slot(t[j], j) = Slot(s[i], i)
    <3> TAKE i \in DOMAIN s
    <3>1. CASE s[i][2] = Control
      <4>1. PICK j \in DOMAIN s : s[j][2] = s[i][2] /\ GetNode(w, t[j][1]) = GetNode(v, s[i][1])
        BY <1>2
      <4> QED
        BY <4>1, <3>1, <1>2 DEF OutputPort, Slot
    <3>2. CASE s[i][2] # Control
      BY <3>2, <1>2 DEF OutputPort, Slot
    <3> QED
      BY <3>1, <3>2
  <2>2. \A p : GetFanout(w, p) = GetFanout(v, p)
    BY DEF SameEdges
  <2> SUFFICES ASSUME NEW port \in Ends, NEW at \in Slots
               PROVE  <<n, at>> \in GetFanout(w, port) <=>
                        \E i \in DOMAIN t : OutputPort(w, t[i]) = port /\ at = Slot(t[i], i)
    BY DEF Reads
  <2>4. <<n, at>> \in GetFanout(w, port) <=>
          \E i \in DOMAIN s : OutputPort(v, s[i]) = port /\ at = Slot(s[i], i)
    BY <1>1, <2>2 DEF Reads
  <2> QED
    BY <1>2, <2>1, <2>3, <2>4
<1>10. w.regular[n] = k
  BY DEF SameEdges, k
<1> QED
  BY <1>2, <1>6, <1>8, <1>9, <1>10 DEF NodeOk, InputsOk, t

(* and so is the view.                                                     *)
LEMMA Relabel ==
  ASSUME NEW v, NEW Y, Good(v, Y), NEW w, SameEdges(v, w), NEW X, Y \subseteq X,
         SameOps(v, w, X)
  PROVE  Good(w, X)
<1>1. \A n \in DOMAIN v.def : NodeOk(w, n, X)
  BY RelabelNode
<1>2. NoStray(w)
  BY DEF NoStray, SameEdges, Good
<1> QED
  BY <1>1, <1>2 DEF SameEdges, Good

-----------------------------------------------------------------------------
(* Another op.                                                             *)

(* With another op the view is good, but for redundant controls.           *)
LEMMA NewOpFacts ==
  ASSUME NEW v, Good(v, {}), NEW n \in DOMAIN v.def, v.def[n].name \in Names,
         NEW op \in Ops, op = "Switch" => GetFanout(v, <<n, Control>>) = {}
  PROVE  Good([v EXCEPT !.def[n].op = op], {n})
<1> DEFINE d == [v.def[n] EXCEPT !.op = op]
           D == [v.def EXCEPT ![n] = d]
           w == [v EXCEPT !.def[n].op = op]
<1>0. v \in Views /\ UniqueNames(v) /\ AnchorsNamed(v) /\ DOMAIN v.regular = DOMAIN v.def
      /\ WellTyped(v)
  BY DEF Good, WellTyped
<1>1. /\ v.def \in [DOMAIN v.def -> NodeDefs] /\ DOMAIN v.def \in SUBSET Ids
      /\ v.def[n] \in NodeDefs
  BY <1>0, ViewParts, PartialDef
<1>2. d \in NodeDefs /\ d.input = v.def[n].input /\ d.name = v.def[n].name /\ d.op = op
  BY <1>1 DEF NodeDefs
<1>3. w = [v EXCEPT !.def = D]
  OBVIOUS
<1> HIDE DEF d, w
<1>4. /\ D \in [DOMAIN v.def -> NodeDefs]
      /\ D[n] = d
      /\ \A m \in DOMAIN v.def \ {n} : D[m] = v.def[m]
  BY <1>1, <1>2
<1> HIDE DEF D
<1>5. D \in Partial(Ids, NodeDefs)
  BY <1>1, <1>4, IsPartial
<1>6. DOMAIN D = DOMAIN v.def
  BY <1>4
<1>7. /\ w \in Views /\ w.def = D /\ w.regular = v.regular
      /\ w.fanouts = v.fanouts /\ w.max_out = v.max_out
  BY <1>0, <1>3, <1>5 DEF Views
<1>8. \A port : GetFanout(w, port) = GetFanout(v, port)
  BY <1>7 DEF GetFanout
<1>9. \A m \in DOMAIN v.def : D[m].name = v.def[m].name /\ D[m].input = v.def[m].input
                              /\ D[m].op = IF m = n THEN op ELSE v.def[m].op
  BY <1>2, <1>4
<1>10. WellTyped(w)
  BY <1>0, <1>6, <1>7, <1>9 DEF WellTyped, UniqueNames, AnchorsNamed
<1>11. SameNames(v, w)
  BY <1>6, <1>7, <1>9 DEF SameNames
<1>12. SameEdges(v, w)
  <2>1. \A m \in DOMAIN v.def : SameSources(v, w, v.def[m].input, w.def[m].input)
    <3> TAKE m \in DOMAIN v.def
    <3> DEFINE s == v.def[m].input
    <3>1. w.def[m].input = s
      BY <1>7, <1>9
    <3>2. \A i \in DOMAIN s : HasNode(v, s[i][1])
      BY DEF Good, NodeOk, InputsOk, Sound
    <3>3. \A name : GetNode(w, name) = GetNode(v, name) /\ (HasNode(w, name) <=> HasNode(v, name))
      BY <1>11, SameNode
    <3>5. Single(s)
      BY DEF Good, NodeOk, InputsOk
    <3> HIDE DEF s
    <3>4. SameSources(v, w, s, s)
      BY <3>2, <3>3, <3>5 DEF SameSources
    <3> QED
      BY <3>1, <3>4 DEF s
  <2>2. BoundedBut(w, {})
    <3>1. BoundedBut(v, {})
      BY DEF Good
    <3> QED
      BY <3>1, <1>7, <1>8 DEF BoundedBut
  <2> QED
    BY <2>1, <2>2, <1>6, <1>7, <1>8, <1>10 DEF SameEdges
<1> DEFINE X == {n}
<1>13. SameOps(v, w, X)
  BY <1>7, <1>9 DEF SameOps, IsSwitch, IsIdentity
<1> HIDE DEF X
<1>14. Good(w, X)
  <2> DEFINE Y == {}
  <2>1. Good(v, Y) /\ Y \subseteq X
    OBVIOUS
  <2> HIDE DEF Y
  <2> QED
    BY <2>1, <1>12, <1>13, Relabel
<1> QED
  BY <1>14 DEF X, w

(* UpdateNode, where it changes the op.                                    *)
LEMMA UpdateNodeFacts ==
  ASSUME NEW v, Good(v, {}), NEW n \in DOMAIN v.def, v.def[n].name \in Names,
         NEW op \in Ops, op = "Switch" => GetFanout(v, <<n, Control>>) = {}
  PROVE  Good(DedupControlFanouts([v EXCEPT !.def[n].op = op], n), {})
<1> DEFINE w == [v EXCEPT !.def[n].op = op]
           X == {n}
<1>1. Good(w, X)
  BY NewOpFacts
<1>2. n \in DOMAIN w.def
  BY DEF Good, WellTyped
<1>3. X \ {n} = {}
  OBVIOUS
<1> HIDE DEF w, X
<1>4. Good(DedupControlFanouts(w, n), X \ {n})
  BY <1>1, <1>2, DedupControlFanoutsFacts
<1> QED
  BY <1>3, <1>4 DEF w

-----------------------------------------------------------------------------
(* Edges that are found, and inputs that are given another name.           *)

(* From a node, the edges up to its bound are those of its readers.        *)
LEMMA EdgesAreInputs ==
  ASSUME NEW v, NEW X, Good(v, X), NEW f \in DOMAIN v.def,
         NEW n \in DOMAIN v.def, NEW p, NEW q
  PROVE  <<q, <<n, p>>>> \in GetFanoutEdges(v, f) <=>
           /\ p \in DOMAIN v.def[n].input
           /\ p \in 1..v.regular[n]
           /\ v.def[n].input[p][2] = q
           /\ GetNode(v, v.def[n].input[p][1]) = f
<1> DEFINE s == v.def[n].input
           k == v.regular[n]
<1>1. /\ v \in Views /\ WellTyped(v) /\ n \in Ids /\ f \in Ids /\ s \in Seq(AnyInput)
      /\ InputsOk(v, n, s, k, X) /\ Reads(v, n, s, {}) /\ BoundedBut(v, {}) /\ k \in Nat
  BY ViewParts DEF Good, WellTyped, NodeOk
<1>2. /\ k <= Len(s)
      /\ \A i \in DOMAIN s : HasNode(v, s[i][1]) /\ (i <= k <=> s[i][2] # Control)
  BY <1>1 DEF InputsOk, Sound
<1>3. /\ \A g \in DOMAIN v.max_out : v.max_out[g] \in Nat
      /\ \A port : GetFanout(v, port) \in SUBSET Ends
      /\ Control \notin Nat /\ Ports \subseteq Nat
  BY <1>1, ViewParts, IdsAndControl
<1>4. ASSUME <<q, <<n, p>>>> \in GetFanoutEdges(v, f)
      PROVE  /\ p \in DOMAIN s /\ p \in 1..k /\ s[p][2] = q /\ GetNode(v, s[p][1]) = f
  <2>1. q \in 0..At(v.max_out, f, -1) /\ <<n, p>> \in GetFanout(v, <<f, q>>)
    BY <1>4 DEF GetFanoutEdges
  <2>2. q \in Nat
    BY <2>1, <1>3 DEF At
  <2>3. <<f, q>> \in Ends /\ p \in Slots
    BY <1>1, <1>3, <2>1, <2>2 DEF Ends, Slots
  <2>4. PICK i \in DOMAIN s : OutputPort(v, s[i]) = <<f, q>> /\ p = Slot(s[i], i)
    BY <1>1, <2>1, <2>3 DEF Reads
  <2>5. s[i][2] = q /\ GetNode(v, s[i][1]) = f
    BY <2>4 DEF OutputPort
  <2>6. p = i
    BY <2>2, <2>4, <2>5, <1>3 DEF Slot
  <2>7. i \in Nat /\ i >= 1 /\ i <= k
    BY <1>1, <1>2, <1>3, <2>2, <2>5
  <2> QED
    BY <2>4, <2>5, <2>6, <2>7, <1>1
<1>5. ASSUME p \in DOMAIN s, p \in 1..k, s[p][2] = q, GetNode(v, s[p][1]) = f
      PROVE  <<q, <<n, p>>>> \in GetFanoutEdges(v, f)
  <2>1. q # Control /\ HasNode(v, s[p][1])
    BY <1>5, <1>2
  <2>2. OutputPort(v, s[p]) = <<f, q>> /\ Slot(s[p], p) = p /\ q \in AnyPort /\ p \in Nat
    <3>1. q \in AnyPort /\ p \in Nat
      BY <1>1, <1>5, InputFacts
    <3> QED
      BY <3>1, <1>5, <2>1 DEF OutputPort, Slot
  <2>3. q \in Nat /\ <<f, q>> \in Ends
    BY <2>1, <2>2, <1>1, <1>3 DEF AnyPort, Ends, Slots
  <2>4. <<n, p>> \in GetFanout(v, <<f, q>>)
    BY <1>1, <1>5, <2>2, <2>3 DEF Reads, Slots
  <2>5. f \in DOMAIN v.max_out /\ q <= v.max_out[f]
    BY <1>1, <2>3, <2>4 DEF BoundedBut
  <2>6. q \in 0..At(v.max_out, f, -1)
    BY <2>5, <2>3, <1>3 DEF At
  <2>7. <<f, q>> \in DOMAIN v.fanouts
    BY <2>4 DEF GetFanout, At
  <2> QED
    BY <2>4, <2>6, <2>7 DEF GetFanoutEdges
<1> QED
  BY <1>4, <1>5

(* w has the nodes and the fanouts of v, and inputs of the same number.    *)
SameLinks(v, w) ==
  /\ w \in Views /\ SameNodes(v, w)
  /\ w.regular = v.regular /\ w.fanouts = v.fanouts /\ w.max_out = v.max_out
  /\ \A n \in DOMAIN v.def :
       /\ DOMAIN w.def[n].input = DOMAIN v.def[n].input
       /\ Len(w.def[n].input) = Len(v.def[n].input)

(* The inputs of all nodes change, one by one.                             *)
LEMMA WithInputsFacts ==
  ASSUME NEW v \in Views, NEW I,
         \A n \in DOMAIN v.def : /\ I[n] \in Seq(AnyInput)
                                 /\ DOMAIN I[n] = DOMAIN v.def[n].input
                                 /\ Len(I[n]) = Len(v.def[n].input)
  PROVE  /\ SameLinks(v, WithInputs(v, I))
         /\ \A n \in DOMAIN v.def : WithInputs(v, I).def[n].input = I[n]
<1> DEFINE D == [n \in DOMAIN v.def |-> [v.def[n] EXCEPT !.input = I[n]]]
           w == [v EXCEPT !.def = D]
<1>1. WithInputs(v, I) = w
  BY DEF WithInputs
<1>2. DOMAIN v.def \in SUBSET Ids /\ \A n \in DOMAIN v.def : v.def[n] \in NodeDefs
  BY ViewParts
<1>3. \A n \in DOMAIN v.def : /\ D[n] \in NodeDefs /\ D[n].name = v.def[n].name
                              /\ D[n].op = v.def[n].op /\ D[n].input = I[n]
  BY <1>2 DEF NodeDefs
<1>4. D \in [DOMAIN v.def -> NodeDefs] /\ DOMAIN D = DOMAIN v.def
  BY <1>3
<1> HIDE DEF D
<1>5. D \in Partial(Ids, NodeDefs)
  BY <1>2, <1>4, IsPartial
<1>6. /\ w \in Views /\ w.def = D /\ w.regular = v.regular
      /\ w.fanouts = v.fanouts /\ w.max_out = v.max_out
  BY <1>5 DEF Views
<1> HIDE DEF w
<1> QED
  BY <1>1, <1>3, <1>4, <1>6 DEF SameLinks, SameNodes

(* A sequence whose elements change is a sequence.                         *)
LEMMA SeqInPlace ==
  ASSUME NEW T, NEW s \in Seq(T), NEW t, t = [i \in DOMAIN s |-> t[i]],
         \A i \in DOMAIN s : t[i] \in T
  PROVE  t \in Seq(T) /\ DOMAIN t = DOMAIN s /\ Len(t) = Len(s)
<1>1. DOMAIN s = 1..Len(s) /\ Len(s) \in Nat
  BY LenProperties
<1>2. t = [i \in 1..Len(s) |-> t[i]] /\ \A i \in 1..Len(s) : t[i] \in T
  BY <1>1
<1>3. t \in Seq(T)
  BY <1>1, <1>2, IsASeq
<1>4. DOMAIN t = 1..Len(s)
  BY <1>2
<1>5. Len(t) = Len(s)
  BY <1>1, <1>3, <1>4, LenProperties
<1> QED
  BY <1>1, <1>3, <1>4, <1>5

-----------------------------------------------------------------------------
(* Renaming, source by source.                                             *)

(* n waits for f, as the fanouts of f have it.                             *)
WaitsFor(v, n, f) == <<n, Control>> \in GetFanout(v, <<f, Control>>)

(* Where the control inputs of n have that name.                           *)
ControlsOf(v, n, name) ==
  {i \in v.regular[n] + 1..Len(v.def[n].input) : v.def[n].input[i][1] = name}

(* The first control input on f of each consumer has another name.         *)
ControlsRenamed(v, w, f, name) ==
  /\ SameLinks(v, w)
  /\ \A n \in DOMAIN v.def :
       w.def[n].input =
         [i \in DOMAIN v.def[n].input |->
            IF /\ WaitsFor(v, n, f)
               /\ ControlsOf(v, n, v.def[f].name) # {}
               /\ i = Min(ControlsOf(v, n, v.def[f].name))
            THEN <<name, Control>>
            ELSE v.def[n].input[i]]

(* SwapControlledFanoutInputs, input by input.                             *)
LEMMA SwapControlledFacts ==
  ASSUME NEW v \in Views, DOMAIN v.regular = DOMAIN v.def, NEW f, NEW name \in AllNames
  PROVE  ControlsRenamed(v, SwapControlledFanoutInputs(v, f, name), f, name)
<1> DEFINE Old(n) == ControlsOf(v, n, v.def[f].name)
           I == [n \in DOMAIN v.def |->
                   [i \in DOMAIN v.def[n].input |->
                      IF WaitsFor(v, n, f) /\ Old(n) # {} /\ i = Min(Old(n))
                      THEN <<name, Control>> ELSE v.def[n].input[i]]]
           w == SwapControlledFanoutInputs(v, f, name)
<1>1. \A n \in DOMAIN v.def : /\ v.def[n] \in NodeDefs /\ v.def[n].input \in Seq(AnyInput)
                              /\ n \in Ids
  BY ViewParts
<1>2. <<name, Control>> \in AnyInput
  BY DEF AnyInput, AnyPort
<1>3. ASSUME NEW n \in DOMAIN v.def
      PROVE  /\ I[n] \in Seq(AnyInput) /\ DOMAIN I[n] = DOMAIN v.def[n].input
             /\ Len(I[n]) = Len(v.def[n].input)
  <2> DEFINE s == v.def[n].input
             t == I[n]
  <2>1. t = [i \in DOMAIN s |-> IF WaitsFor(v, n, f) /\ Old(n) # {} /\ i = Min(Old(n))
                                THEN <<name, Control>> ELSE s[i]]
    OBVIOUS
  <2>2. s \in Seq(AnyInput) /\ \A i \in DOMAIN s : s[i] \in AnyInput
    BY <1>1, ElementOfSeq
  <2> HIDE DEF s, t, Old, I
  <2>3. t = [i \in DOMAIN s |-> t[i]] /\ \A i \in DOMAIN s : t[i] \in AnyInput
    BY <2>1, <2>2, <1>2
  <2>4. t \in Seq(AnyInput) /\ DOMAIN t = DOMAIN s /\ Len(t) = Len(s)
    BY <2>2, <2>3, SeqInPlace
  <2> QED
    BY <2>4 DEF s, t
<1>4. w = WithInputs(v, I)
  <2> DEFINE J == [n \in DOMAIN v.def |->
                     IF <<n, Control>> \in GetFanout(v, <<f, Control>>) /\ Old(n) # {}
                     THEN [v.def[n].input EXCEPT ![Min(Old(n))] = <<name, Control>>]
                     ELSE v.def[n].input]
  <2>1. \A n \in DOMAIN v.def : I[n] = J[n]
    <3> TAKE n \in DOMAIN v.def
    <3> DEFINE s == v.def[n].input
               m == Min(Old(n))
    <3>0. s \in Seq(AnyInput)
      BY <1>1
    <3>1. CASE WaitsFor(v, n, f) /\ Old(n) # {}
      <4>1. I[n] = [i \in DOMAIN s |-> IF i = m THEN <<name, Control>> ELSE s[i]]
        BY <3>1
      <4>3. [s EXCEPT ![m] = <<name, Control>>] = [i \in DOMAIN s |-> IF i = m THEN <<name, Control>> ELSE s[i]]
        OBVIOUS
      <4>4. J[n] = [s EXCEPT ![m] = <<name, Control>>]
        BY <3>1 DEF WaitsFor
      <4> QED
        BY <4>1, <4>3, <4>4
    <3>2. CASE ~(WaitsFor(v, n, f) /\ Old(n) # {})
      <4>1. I[n] = [i \in DOMAIN s |-> s[i]]
        BY <3>2
      <4>3. J[n] = s
        BY <3>2 DEF WaitsFor
      <4> HIDE DEF I, J, Old
      <4>2. I[n] = s
        BY <4>1, <3>0
      <4> QED
        BY <4>2, <4>3
    <3> QED
      BY <3>1, <3>2
  <2>2. I = J
    BY <2>1
  <2>3. w = WithInputs(v, J)
    BY DEF SwapControlledFanoutInputs, ControlsOf
  <2> QED
    BY <2>2, <2>3
<1> HIDE DEF w
<1>5. /\ SameLinks(v, w) /\ \A n \in DOMAIN v.def : w.def[n].input = I[n]
  <2> HIDE DEF I
  <2> QED
    BY <1>3, <1>4, WithInputsFacts
<1> QED
  BY <1>5 DEF ControlsRenamed, w

(* So have all regular inputs from f.                                      *)
RegularsRenamed(u, v, w, f, name) ==
  /\ SameLinks(u, w)
  /\ \A n \in DOMAIN u.def :
       w.def[n].input =
         [i \in DOMAIN u.def[n].input |->
            IF i \in 1..u.regular[n] /\ GetNode(u, u.def[n].input[i][1]) = f
            THEN <<name, u.def[n].input[i][2]>>
            ELSE v.def[n].input[i]]

(* SwapRegularFanoutInputs, input by input.                                *)
LEMMA SwapRegularNamesFacts ==
  ASSUME NEW u, NEW X, Good(u, X), NEW v, SameLinks(u, v), NEW f \in DOMAIN u.def,
         NEW name \in AllNames
  PROVE  RegularsRenamed(u, v, SwapRegularFanoutInputs(v, f, name), f, name)
<1> DEFINE edges == GetFanoutEdges(v, f)
           New(n, i) == i \in 1..u.regular[n] /\ GetNode(u, u.def[n].input[i][1]) = f
           I == [n \in DOMAIN v.def |->
                   [i \in DOMAIN u.def[n].input |->
                      IF New(n, i) THEN <<name, u.def[n].input[i][2]>> ELSE v.def[n].input[i]]]
           w == SwapRegularFanoutInputs(v, f, name)
<1>0. u \in Views /\ v \in Views /\ SameNodes(u, v) /\ DOMAIN v.def = DOMAIN u.def
  BY DEF Good, WellTyped, SameLinks, SameNodes
<1>1. \A n \in DOMAIN v.def : /\ v.def[n] \in NodeDefs /\ v.def[n].input \in Seq(AnyInput)
                              /\ n \in Ids /\ u.def[n].input \in Seq(AnyInput)
  BY <1>0, ViewParts
<1>2. edges = GetFanoutEdges(u, f)
  BY DEF SameLinks, GetFanoutEdges, GetFanout
<1>3. ASSUME NEW n \in DOMAIN v.def, NEW i
      PROVE  /\ (\E e \in edges : e[2] = <<n, i>>) <=> i \in DOMAIN u.def[n].input /\ New(n, i)
             /\ i \in DOMAIN u.def[n].input /\ New(n, i) =>
                  (CHOOSE e \in edges : e[2] = <<n, i>>)[1] = u.def[n].input[i][2]
  <2>0. \A e \in edges : e = <<e[1], e[2]>>
    BY DEF GetFanoutEdges
  <2>1. \A q : <<q, <<n, i>>>> \in edges <=>
                 /\ i \in DOMAIN u.def[n].input /\ New(n, i) /\ u.def[n].input[i][2] = q
    BY <1>0, <1>2, EdgesAreInputs
  <2> HIDE DEF edges, New
  <2>2. \A e \in edges : e[2] = <<n, i>> => 
          /\ i \in DOMAIN u.def[n].input /\ New(n, i) /\ u.def[n].input[i][2] = e[1]
    BY <2>0, <2>1
  <2>3. i \in DOMAIN u.def[n].input /\ New(n, i) => \E e \in edges : e[2] = <<n, i>>
    <3> HAVE i \in DOMAIN u.def[n].input /\ New(n, i)
    <3>1. <<u.def[n].input[i][2], <<n, i>>>> \in edges
      BY <2>1
    <3> QED
      BY <3>1
  <2>4. (\E e \in edges : e[2] = <<n, i>>) =>
          /\ (CHOOSE e \in edges : e[2] = <<n, i>>) \in edges
          /\ (CHOOSE e \in edges : e[2] = <<n, i>>)[2] = <<n, i>>
    OBVIOUS
  <2> QED
    BY <2>2, <2>3, <2>4
<1>4. ASSUME NEW n \in DOMAIN v.def
      PROVE  /\ I[n] \in Seq(AnyInput) /\ DOMAIN I[n] = DOMAIN v.def[n].input
             /\ Len(I[n]) = Len(v.def[n].input)
  <2> DEFINE s == v.def[n].input
             r == u.def[n].input
             t == I[n]
  <2>1. DOMAIN r = DOMAIN s
    BY <1>0 DEF SameLinks
  <2>2. t = [i \in DOMAIN r |-> IF New(n, i) THEN <<name, r[i][2]>> ELSE s[i]]
    OBVIOUS
  <2>3. /\ s \in Seq(AnyInput) /\ \A i \in DOMAIN s : s[i] \in AnyInput
        /\ r \in Seq(AnyInput) /\ \A i \in DOMAIN r : r[i] \in AnyInput
    BY <1>1, ElementOfSeq
  <2> HIDE DEF s, t, r, New, I
  <2>4. \A i \in DOMAIN r : <<name, r[i][2]>> \in AnyInput
    BY <2>3 DEF AnyInput
  <2>5. t = [i \in DOMAIN s |-> t[i]] /\ \A i \in DOMAIN s : t[i] \in AnyInput
    BY <2>1, <2>2, <2>3, <2>4
  <2>6. t \in Seq(AnyInput) /\ DOMAIN t = DOMAIN s /\ Len(t) = Len(s)
    BY <2>3, <2>5, SeqInPlace
  <2> QED
    BY <2>6 DEF s, t
<1>5. w = WithInputs(v, I)
  <2>1. \A n \in DOMAIN v.def :
          I[n] = [p \in DOMAIN v.def[n].input |->
                    IF \E e \in edges : e[2] = <<n, p>>
                    THEN <<name, (CHOOSE e \in edges : e[2] = <<n, p>>)[1]>>
                    ELSE v.def[n].input[p]]
    <3> TAKE n \in DOMAIN v.def
    <3>1. I[n] = [i \in DOMAIN u.def[n].input |->
                    IF New(n, i) THEN <<name, u.def[n].input[i][2]>> ELSE v.def[n].input[i]]
      OBVIOUS
    <3>2. DOMAIN u.def[n].input = DOMAIN v.def[n].input
      BY <1>0 DEF SameLinks
    <3> HIDE DEF I, edges, New
    <3>3. ASSUME NEW p \in DOMAIN v.def[n].input
          PROVE  (IF New(n, p) THEN <<name, u.def[n].input[p][2]>> ELSE v.def[n].input[p])
                   = IF \E e \in edges : e[2] = <<n, p>>
                     THEN <<name, (CHOOSE e \in edges : e[2] = <<n, p>>)[1]>>
                     ELSE v.def[n].input[p]
      <4>1. p \in DOMAIN u.def[n].input
        BY <3>2
      <4>2. (\E e \in edges : e[2] = <<n, p>>) <=> New(n, p)
        BY <4>1, <1>3
      <4>3. New(n, p) =>
              (CHOOSE e \in edges : e[2] = <<n, p>>)[1] = u.def[n].input[p][2]
        BY <4>1, <1>3
      <4> QED
        BY <4>2, <4>3
    <3> QED
      BY <3>1, <3>2, <3>3
  <2> HIDE DEF I
  <2> DEFINE J == [n \in DOMAIN v.def |->
                     [p \in DOMAIN v.def[n].input |->
                        IF \E e \in edges : e[2] = <<n, p>>
                        THEN <<name, (CHOOSE e \in edges : e[2] = <<n, p>>)[1]>>
                        ELSE v.def[n].input[p]]]
  <2>2. I = J
    <3>1. I = [n \in DOMAIN v.def |-> I[n]]
      BY DEF I
    <3> HIDE DEF edges, I
    <3> QED
      BY <2>1, <3>1
  <2>3. w = WithInputs(v, J)
    BY DEF SwapRegularFanoutInputs
  <2> HIDE DEF I, J, w
  <2> QED
    BY <2>2, <2>3
<1> HIDE DEF w
<1>6. SameLinks(v, w) /\ \A n \in DOMAIN v.def : w.def[n].input = I[n]
  <2> HIDE DEF I
  <2> QED
    BY <1>0, <1>4, <1>5, WithInputsFacts
<1>7. SameLinks(u, w)
  BY <1>6 DEF SameLinks, SameNodes
<1> QED
  BY <1>0, <1>6, <1>7 DEF RegularsRenamed, w

-----------------------------------------------------------------------------
(* Other names, the same graph.                                            *)

(* Control inputs are found from either end.                               *)
LEMMA ControlsFound ==
  ASSUME NEW v, NEW X, Good(v, X), NEW n \in DOMAIN v.def
  PROVE  /\ \A f \in DOMAIN v.def : WaitsFor(v, n, f) <=>
              \E i \in DOMAIN v.def[n].input :
                v.def[n].input[i] = <<v.def[f].name, Control>>
         /\ \A name, i : i \in ControlsOf(v, n, name) <=>
              i \in DOMAIN v.def[n].input /\ v.def[n].input[i] = <<name, Control>>
<1> DEFINE s == v.def[n].input
           k == v.regular[n]
<1>1. /\ v \in Views /\ WellTyped(v) /\ UniqueNames(v) /\ n \in Ids /\ s \in Seq(AnyInput)
      /\ InputsOk(v, n, s, k, X) /\ Reads(v, n, s, {}) /\ k \in Nat
  BY ViewParts DEF Good, WellTyped, NodeOk
<1>2. /\ k <= Len(s)
      /\ \A i \in DOMAIN s : HasNode(v, s[i][1]) /\ (i <= k <=> s[i][2] # Control)
      /\ DOMAIN s = 1..Len(s) /\ Len(s) \in Nat
  BY <1>1 DEF InputsOk, Sound
<1>3. \A i \in DOMAIN s : s[i] = <<s[i][1], s[i][2]>>
  BY <1>1, InputFacts
<1>4. ASSUME NEW f \in DOMAIN v.def
      PROVE  WaitsFor(v, n, f) <=> \E i \in DOMAIN s : s[i] = <<v.def[f].name, Control>>
  <2>1. <<f, Control>> \in Ends /\ Control \in Slots
    BY <1>1, ViewParts DEF Ends, Slots
  <2>2. WaitsFor(v, n, f) <=> \E i \in DOMAIN s : OutputPort(v, s[i]) = <<f, Control>> /\ Control = Slot(s[i], i)
    BY <1>1, <2>1 DEF Reads, WaitsFor
  <2>3. ASSUME NEW i \in DOMAIN s
        PROVE  OutputPort(v, s[i]) = <<f, Control>> /\ Control = Slot(s[i], i) <=>
                 s[i] = <<v.def[f].name, Control>>
    <3>1. OutputPort(v, s[i]) = <<GetNode(v, s[i][1]), s[i][2]>> /\ (s[i][2] = Control => Slot(s[i], i) = Control)
      BY DEF OutputPort, Slot
    <3>2. GetNode(v, s[i][1]) = f <=> s[i][1] = v.def[f].name
      BY <1>1, <1>2, NameOfInput
    <3> DEFINE a == s[i][1]
               b == s[i][2]
    <3>3. s[i] = <<a, b>>
      BY <1>3
    <3>4. OutputPort(v, s[i]) = <<f, Control>> <=> GetNode(v, a) = f /\ b = Control
      BY <3>1
    <3> HIDE DEF s
    <3>5. s[i] = <<v.def[f].name, Control>> <=> a = v.def[f].name /\ b = Control
      BY <3>3
    <3> QED
      BY <3>1, <3>2, <3>4, <3>5
  <2> QED
    BY <2>2, <2>3
<1>5. ASSUME NEW name, NEW i
      PROVE  i \in ControlsOf(v, n, name) <=> i \in DOMAIN s /\ s[i] = <<name, Control>>
  <2>1. i \in ControlsOf(v, n, name) <=> i \in k + 1..Len(s) /\ s[i][1] = name
    BY DEF ControlsOf
  <2>2. i \in k + 1..Len(s) <=> i \in DOMAIN s /\ s[i][2] = Control
    <3>1. i \in k + 1..Len(s) <=> i \in DOMAIN s /\ ~(i <= k)
      BY <1>1, <1>2
    <3> QED
      BY <3>1, <1>2
  <2> QED
    BY <2>1, <2>2, <1>3
<1> QED
  BY <1>4, <1>5

(* Min of one number.                                                      *)
LEMMA MinOfOne ==
  ASSUME NEW i \in Nat, NEW T, i \in T, \A j \in T : j = i
  PROVE  Min(T) = i
<1>1. T \in SUBSET Nat /\ T # {}
  OBVIOUS
<1> QED
  BY <1>1, LeastOf

(* In w, an input that names f has the name given.                         *)
Renames(v, w, f, name) ==
  /\ SameLinks(v, w)
  /\ \A n \in DOMAIN v.def : \A i \in DOMAIN v.def[n].input :
       w.def[n].input[i] = IF GetNode(v, v.def[n].input[i][1]) = f
                           THEN <<name, v.def[n].input[i][2]>>
                           ELSE v.def[n].input[i]

(* RenameFanouts: every input from f has the new name.                     *)
LEMMA RenameFanoutsFacts ==
  ASSUME NEW v, Good(v, {}), NEW f \in DOMAIN v.def, NEW name \in AllNames
  PROVE  Renames(v, RenameFanouts(v, f, name), f, name)
<1> DEFINE c == SwapControlledFanoutInputs(v, f, name)
           w == SwapRegularFanoutInputs(c, f, name)
           X == {}
<1>0. Good(v, X)
  OBVIOUS
<1>1. v \in Views /\ WellTyped(v) /\ DOMAIN v.regular = DOMAIN v.def
  BY DEF Good, WellTyped
<1> HIDE DEF X
<1>2. ControlsRenamed(v, c, f, name)
  BY <1>1, SwapControlledFacts
<1>3. RegularsRenamed(v, c, w, f, name)
  <2>1. SameLinks(v, c)
    BY <1>2 DEF ControlsRenamed
  <2> HIDE DEF c
  <2> QED
    BY <1>0, <2>1, SwapRegularNamesFacts
<1>4. RenameFanouts(v, f, name) = w
  BY DEF RenameFanouts
<1> HIDE DEF c, w
<1>5. ASSUME NEW n \in DOMAIN v.def, NEW i \in DOMAIN v.def[n].input
      PROVE  w.def[n].input[i] = IF GetNode(v, v.def[n].input[i][1]) = f
                                 THEN <<name, v.def[n].input[i][2]>>
                                 ELSE v.def[n].input[i]
  <2> DEFINE s == v.def[n].input
             k == v.regular[n]
             old == ControlsOf(v, n, v.def[f].name)
  <2>1. /\ n \in Ids /\ s \in Seq(AnyInput) /\ InputsOk(v, n, s, k, X) /\ k \in Nat
    BY <1>0, <1>1, ViewParts DEF Good, WellTyped, NodeOk
  <2>2. /\ \A j \in DOMAIN s : HasNode(v, s[j][1]) /\ (j <= k <=> s[j][2] # Control)
        /\ DOMAIN s = 1..Len(s) /\ Len(s) \in Nat /\ Single(s)
    BY <2>1 DEF InputsOk, Sound
  <2>3. /\ WaitsFor(v, n, f) <=> \E j \in DOMAIN s : s[j] = <<v.def[f].name, Control>>
        /\ \A j : j \in old <=> j \in DOMAIN s /\ s[j] = <<v.def[f].name, Control>>
    <3>1. /\ \A g \in DOMAIN v.def : WaitsFor(v, n, g) <=>
               \E j \in DOMAIN v.def[n].input :
                 v.def[n].input[j] = <<v.def[g].name, Control>>
          /\ \A nm, j : j \in ControlsOf(v, n, nm) <=>
               j \in DOMAIN v.def[n].input /\ v.def[n].input[j] = <<nm, Control>>
      BY <1>0, ControlsFound
    <3>2. WaitsFor(v, n, f) <=>
            \E j \in DOMAIN v.def[n].input :
              v.def[n].input[j] = <<v.def[f].name, Control>>
      BY <3>1
    <3>3. \A j : j \in old <=> j \in DOMAIN s /\ s[j] = <<v.def[f].name, Control>>
      BY <3>1
    <3> QED
      BY <3>2, <3>3
  <2>4. c.def[n].input[i] = IF WaitsFor(v, n, f) /\ old # {} /\ i = Min(old)
                            THEN <<name, Control>> ELSE s[i]
    <3>1. c.def[n].input = [j \in DOMAIN s |-> IF WaitsFor(v, n, f) /\ old # {} /\ j = Min(old)
                                               THEN <<name, Control>> ELSE s[j]]
      BY <1>2 DEF ControlsRenamed
    <3> HIDE DEF old
    <3> QED
      BY <3>1
  <2>5. w.def[n].input[i] = IF i \in 1..k /\ GetNode(v, s[i][1]) = f
                            THEN <<name, s[i][2]>> ELSE c.def[n].input[i]
    BY <1>3 DEF RegularsRenamed
  <2>6. /\ i \in 1..k <=> s[i][2] # Control
        /\ GetNode(v, s[i][1]) = f <=> s[i][1] = v.def[f].name
        /\ s[i] = <<s[i][1], s[i][2]>>
    <3>1. GetNode(v, s[i][1]) = f <=> s[i][1] = v.def[f].name
      BY <1>1, <2>2, NameOfInput
    <3>2. s[i] = <<s[i][1], s[i][2]>>
      BY <1>1, <2>1, InputFacts
    <3>3. i \in 1..k <=> i <= k
      BY <2>1, <2>2
    <3> QED
      BY <3>1, <3>2, <3>3, <2>2
  <2>7. i \in Nat
    BY <2>2
  <2> HIDE DEF s, k, old
  <2>8. CASE s[i][2] = Control /\ GetNode(v, s[i][1]) = f
    <3>1. s[i] = <<v.def[f].name, Control>> /\ i \in old /\ WaitsFor(v, n, f)
      BY <2>8, <2>3, <2>6 DEF s
    <3>2. \A j \in old : j = i
      <4>1. \A j \in old : j \in DOMAIN s /\ s[j][2] = Control /\ s[j][1] = s[i][1] /\ s[i][2] = Control
        BY <2>3, <3>1
      <4> QED
        BY <4>1, <2>2 DEF Single, s
    <3>3. Min(old) = i
      BY <3>1, <3>2, <2>7, MinOfOne
    <3> QED
      BY <3>1, <3>3, <2>4, <2>5, <2>6, <2>8 DEF s
  <2>9. CASE ~(s[i][2] = Control /\ GetNode(v, s[i][1]) = f)
    <3>1. i \notin old
      BY <2>9, <2>3, <2>6
    <3>2. old # {} => Min(old) \in old
      <4>1. old \in SUBSET Nat
        BY <2>2, <2>3
      <4> QED
        BY <4>1, LeastOf
    <3> QED
      BY <3>1, <3>2, <2>4, <2>5, <2>6, <2>9 DEF s
  <2> QED
    BY <2>8, <2>9
<1> QED
  BY <1>3, <1>4, <1>5 DEF Renames, RegularsRenamed

(* The nodes of v with other names, and inputs that name the same nodes.   *)
Renamed(v, w) ==
  /\ w \in Views /\ DOMAIN w.def = DOMAIN v.def
  /\ w.regular = v.regular /\ w.fanouts = v.fanouts /\ w.max_out = v.max_out
  /\ \A n \in DOMAIN v.def : w.def[n].op = v.def[n].op
  /\ UniqueNames(w) /\ AnchorsNamed(w)
  /\ \A n \in DOMAIN v.def : SameSources(v, w, v.def[n].input, w.def[n].input)

(* A view is good if it is the same graph with other names.                *)
LEMMA RenamedGood ==
  ASSUME NEW v, Good(v, {}), NEW w, Renamed(v, w)
  PROVE  Good(w, {})
<1> DEFINE X == {}
<1>1. Good(v, X) /\ X \subseteq X
  OBVIOUS
<1>2. WellTyped(w)
  BY DEF Renamed, WellTyped, Good
<1>3. BoundedBut(w, {})
  BY DEF Renamed, BoundedBut, Good, GetFanout
<1>4. SameEdges(v, w)
  <2>1. \A p : GetFanout(w, p) = GetFanout(v, p)
    BY DEF Renamed, GetFanout
  <2> QED
    BY <1>2, <1>3, <2>1 DEF Renamed, SameEdges
<1> HIDE DEF X
<1>5. SameOps(v, w, X)
  BY DEF Renamed, SameOps, IsSwitch, IsIdentity
<1>6. Good(w, X)
  BY <1>1, <1>4, <1>5, Relabel
<1> QED
  BY <1>6 DEF X

(* One node has another name.                                              *)
LEMMA SetNameFacts ==
  ASSUME NEW v \in Views, NEW n \in DOMAIN v.def, NEW name \in AllNames
  PROVE  LET w == [v EXCEPT !.def[n].name = name] IN
         /\ w \in Views /\ DOMAIN w.def = DOMAIN v.def
         /\ w.regular = v.regular /\ w.fanouts = v.fanouts /\ w.max_out = v.max_out
         /\ \A m \in DOMAIN v.def : /\ w.def[m].op = v.def[m].op /\ w.def[m].input = v.def[m].input
                                    /\ w.def[m].name = IF m = n THEN name ELSE v.def[m].name
<1> DEFINE d == [v.def[n] EXCEPT !.name = name]
           D == [v.def EXCEPT ![n] = d]
           w == [v EXCEPT !.def[n].name = name]
<1>1. /\ v.def \in [DOMAIN v.def -> NodeDefs] /\ DOMAIN v.def \in SUBSET Ids
      /\ v.def[n] \in NodeDefs
  BY ViewParts, PartialDef
<1>2. d \in NodeDefs /\ d.input = v.def[n].input /\ d.name = name /\ d.op = v.def[n].op
  BY <1>1 DEF NodeDefs
<1>3. w = [v EXCEPT !.def = D]
  OBVIOUS
<1> HIDE DEF d, w
<1>4. /\ D \in [DOMAIN v.def -> NodeDefs]
      /\ D[n] = d
      /\ \A m \in DOMAIN v.def \ {n} : D[m] = v.def[m]
  BY <1>1, <1>2
<1> HIDE DEF D
<1>5. D \in Partial(Ids, NodeDefs) /\ DOMAIN D = DOMAIN v.def
  BY <1>1, <1>4, IsPartial
<1>6. /\ w \in Views /\ w.def = D /\ w.regular = v.regular
      /\ w.fanouts = v.fanouts /\ w.max_out = v.max_out
  BY <1>3, <1>5 DEF Views
<1> QED
  BY <1>2, <1>4, <1>5, <1>6 DEF w

(* UpdateNodeName, once the inputs have the new name.                      *)
LEMMA NewNameFacts ==
  ASSUME NEW v, Good(v, {}), NEW n \in DOMAIN v.def, NEW to \in Names, ~HasNode(v, to),
         NEW z, Renames(v, z, n, to)
  PROVE  Good([z EXCEPT !.def[n].name = to], {})
<1> DEFINE w == [z EXCEPT !.def[n].name = to]
<1>0. v \in Views /\ WellTyped(v) /\ UniqueNames(v) /\ AnchorsNamed(v)
  BY DEF Good, WellTyped
<1>1. z \in Views /\ DOMAIN z.def = DOMAIN v.def /\ SameNodes(v, z) /\ to \in AllNames
      /\ z.regular = v.regular /\ z.fanouts = v.fanouts /\ z.max_out = v.max_out
  BY DEF Renames, SameLinks, SameNodes, AllNames
<1>2. /\ w \in Views /\ DOMAIN w.def = DOMAIN z.def
      /\ w.regular = z.regular /\ w.fanouts = z.fanouts /\ w.max_out = z.max_out
      /\ \A m \in DOMAIN z.def : /\ w.def[m].op = z.def[m].op /\ w.def[m].input = z.def[m].input
                                 /\ w.def[m].name = IF m = n THEN to ELSE z.def[m].name
  BY <1>1, SetNameFacts
<1> HIDE DEF w
<1>3. \A m \in DOMAIN v.def : /\ w.def[m].name = IF m = n THEN to ELSE v.def[m].name
                              /\ w.def[m].op = v.def[m].op
  BY <1>1, <1>2 DEF SameNodes
<1>4. \A m \in DOMAIN v.def : v.def[m].name # to
  BY <1>0, NodeFound
<1>5. UniqueNames(w) /\ AnchorsNamed(w)
  BY <1>0, <1>1, <1>2, <1>3, <1>4 DEF UniqueNames, AnchorsNamed
<1>6. \A m \in DOMAIN v.def : HasNode(w, w.def[m].name) /\ GetNode(w, w.def[m].name) = m
  BY <1>1, <1>2, <1>5, NodeNamed
<1>7. ASSUME NEW m \in DOMAIN v.def
      PROVE  SameSources(v, w, v.def[m].input, w.def[m].input)
  <2> DEFINE s == v.def[m].input
             t == w.def[m].input
  <2>1. /\ DOMAIN t = DOMAIN s /\ Len(t) = Len(s)
        /\ \A i \in DOMAIN s : t[i] = IF GetNode(v, s[i][1]) = n THEN <<to, s[i][2]>> ELSE s[i]
    <3>1. w.def[m].input = z.def[m].input
      BY <1>1, <1>2
    <3> QED
      BY <3>1 DEF Renames, SameLinks
  <2>2. Single(s) /\ \A i \in DOMAIN s : HasNode(v, s[i][1])
    BY DEF Good, NodeOk, InputsOk, Sound
  <2> HIDE DEF s, t
  <2>3. ASSUME NEW i \in DOMAIN s
        PROVE  /\ t[i][2] = s[i][2]
               /\ HasNode(v, s[i][1]) /\ HasNode(w, t[i][1])
               /\ GetNode(w, t[i][1]) = GetNode(v, s[i][1])
    <3>1. GetNode(v, s[i][1]) \in DOMAIN v.def /\ v.def[GetNode(v, s[i][1])].name = s[i][1]
      BY <1>0, <2>2, NodeFound
    <3>2. t[i][1] = w.def[GetNode(v, s[i][1])].name /\ t[i][2] = s[i][2]
      BY <2>1, <3>1, <1>3
    <3> QED
      BY <2>2, <3>1, <3>2, <1>6
  <2>4. SameSources(v, w, s, t)
    BY <1>0, <2>1, <2>2, <2>3, SameSourcesInPlace
  <2> QED
    BY <2>4 DEF s, t
<1>8. Renamed(v, w)
  BY <1>1, <1>2, <1>3, <1>5, <1>7 DEF Renamed
<1>9. Good(w, {})
  BY <1>8, RenamedGood
<1> QED
  BY <1>9 DEF w

-----------------------------------------------------------------------------
(* Two nodes that swap names, with all that names them.                    *)

(* Two names stand for each other.                                         *)
OtherName(M, N, name) == IF name = M THEN N ELSE IF name = N THEN M ELSE name

(* Where n waits for both nodes, its control inputs may stay as they are.  *)
ControlsSwapped(s, t, M, N) ==
  \/ \A i \in DOMAIN s : s[i][2] = Control => t[i] = <<OtherName(M, N, s[i][1]), Control>>
  \/ /\ \A i \in DOMAIN s : s[i][2] = Control => t[i] = s[i]
     /\ \E i, j \in DOMAIN s : s[i] = <<M, Control>> /\ s[j] = <<N, Control>>

(* Inputs s after the rename of M to N, t after the rename of N to M.      *)
FirstControl(a, s, W, old, name) ==
  \A i \in DOMAIN s : a[i] = IF W /\ old # {} /\ i = Min(old) THEN <<name, Control>> ELSE s[i]

(* The two renames of control inputs, by the inputs of one node.           *)
TwoSteps(s, a, t, M, N, K, Wm, Wn, om, on) ==
  /\ DOMAIN s \in SUBSET Nat /\ \A i \in DOMAIN s : s[i] = <<s[i][1], s[i][2]>>
  /\ Single(s) /\ M # N /\ DOMAIN a = DOMAIN s
  /\ \A i : i \in K <=> i \in DOMAIN s /\ s[i][2] = Control
  /\ Wm \in BOOLEAN /\ (Wm <=> \E i \in DOMAIN s : s[i] = <<M, Control>>)
  /\ Wn \in BOOLEAN /\ (Wn <=> \E i \in DOMAIN s : s[i] = <<N, Control>>)
  /\ \A i : i \in om <=> i \in K /\ s[i][1] = M
  /\ \A i : i \in on <=> i \in K /\ a[i][1] = N
  /\ FirstControl(a, s, Wm, om, N) /\ FirstControl(t, a, Wn, on, M)

(* Two renames, one after the other, are a swap of names.                  *)
LEMMA TwoRenames ==
  ASSUME NEW s, NEW a, NEW t, NEW M, NEW N, NEW K, NEW Wm, NEW Wn, NEW om, NEW on,
         TwoSteps(s, a, t, M, N, K, Wm, Wn, om, on)
  PROVE  ControlsSwapped(s, t, M, N)
<1> USE DEF TwoSteps
<1>1. \A i \in DOMAIN s : a[i] = IF Wm /\ om # {} /\ i = Min(om) THEN <<N, Control>> ELSE s[i]
  BY DEF FirstControl
<1>2. \A i \in DOMAIN s : t[i] = IF Wn /\ on # {} /\ i = Min(on) THEN <<M, Control>> ELSE a[i]
  BY DEF FirstControl
<1>3. \A i, j \in K : s[i][1] = s[j][1] => i = j
  BY DEF Single
<1>4. \A i \in K : i \in DOMAIN s /\ s[i] = <<s[i][1], Control>>
  OBVIOUS
<1>5. K \in SUBSET Nat
  OBVIOUS
<1>6. \A name : \A i \in DOMAIN s : s[i] = <<name, Control>> <=> i \in K /\ s[i][1] = name
  BY <1>4
<1>7. CASE ~Wm /\ ~Wn
  <2>1. \A i \in K : t[i] = s[i] /\ s[i][1] # M /\ s[i][1] # N
    BY <1>1, <1>2, <1>4, <1>7
  <2>2. \A i \in K : t[i] = <<OtherName(M, N, s[i][1]), Control>>
    BY <2>1, <1>4 DEF OtherName
  <2> QED
    BY <2>2 DEF ControlsSwapped
<1>8. CASE Wm /\ ~Wn
  <2>1. PICK m \in K : s[m][1] = M
    BY <1>6, <1>8
  <2>2. m \in om /\ \A j \in om : j = m
    BY <2>1, <1>3
  <2>3. Min(om) = m /\ om # {}
    BY <2>1, <2>2, <1>5, MinOfOne
  <2>4. \A i \in K : t[i] = IF i = m THEN <<N, Control>> ELSE s[i]
    BY <2>3, <1>1, <1>2, <1>4, <1>8
  <2>5. \A i \in K : s[i][1] # N /\ (s[i][1] = M <=> i = m)
    BY <1>3, <1>4, <1>8, <2>1
  <2>6. \A i \in K : t[i] = <<OtherName(M, N, s[i][1]), Control>>
    BY <2>4, <2>5, <1>4 DEF OtherName
  <2> QED
    BY <2>6 DEF ControlsSwapped
<1>9. CASE ~Wm /\ Wn
  <2>1. PICK n \in K : s[n][1] = N
    BY <1>6, <1>9
  <2>2. \A i \in K : a[i] = s[i]
    BY <1>1, <1>4, <1>9
  <2>3. n \in on /\ \A j \in on : j = n
    BY <2>1, <2>2, <1>3
  <2>4. Min(on) = n /\ on # {}
    BY <2>1, <2>3, <1>5, MinOfOne
  <2>5. \A i \in K : t[i] = IF i = n THEN <<M, Control>> ELSE s[i]
    BY <2>2, <2>4, <1>2, <1>4, <1>9
  <2>6. \A i \in K : s[i][1] # M /\ (s[i][1] = N <=> i = n)
    BY <1>3, <1>4, <1>9, <2>1
  <2>7. \A i \in K : t[i] = <<OtherName(M, N, s[i][1]), Control>>
    BY <2>5, <2>6, <1>4 DEF OtherName
  <2> QED
    BY <2>7 DEF ControlsSwapped
<1>10. CASE Wm /\ Wn
  <2>1. PICK m \in K : s[m][1] = M
    BY <1>6, <1>10
  <2>2. PICK n \in K : s[n][1] = N
    BY <1>6, <1>10
  <2>3. m \in om /\ \A j \in om : j = m
    BY <2>1, <1>3
  <2>4. Min(om) = m /\ om # {}
    BY <2>1, <2>3, <1>5, MinOfOne
  <2>5. \A i \in K : a[i] = IF i = m THEN <<N, Control>> ELSE s[i]
    BY <2>4, <1>1, <1>4, <1>10
  <2>6. \A i \in K : (s[i][1] = M <=> i = m) /\ (s[i][1] = N <=> i = n)
    BY <1>3, <2>1, <2>2
  <2>7. \A j : j \in on <=> j = m \/ j = n
    BY <2>1, <2>2, <2>5, <2>6
  <2>8. on # {} /\ Min(on) \in on
    <3>1. on \in SUBSET Nat /\ on # {}
      BY <2>1, <2>2, <2>7, <1>5
    <3> QED
      BY <3>1, LeastOf
  <2>9. \A i \in K : t[i] = IF i = Min(on) THEN <<M, Control>> ELSE a[i]
    BY <2>8, <1>2, <1>4, <1>10
  <2>10. CASE Min(on) = m
    <3>1. \A i \in K : t[i] = s[i]
      BY <2>9, <2>10, <2>5, <2>6, <1>4
    <3> QED
      BY <3>1, <1>4, <2>1, <2>2 DEF ControlsSwapped
  <2>11. CASE Min(on) = n
    <3>1. m # n
      BY <2>1, <2>2
    <3>2. \A i \in K : t[i] = <<OtherName(M, N, s[i][1]), Control>>
      BY <2>9, <2>11, <2>5, <2>6, <1>4 DEF OtherName
    <3> QED
      BY <3>2 DEF ControlsSwapped
  <2> QED
    BY <2>7, <2>8, <2>10, <2>11
<1> QED
  BY <1>7, <1>8, <1>9, <1>10

(* In w, what named one of the nodes names the other.                      *)
Swapped(v, w, m, n) ==
  /\ SameLinks(v, w)
  /\ \A x \in DOMAIN v.def :
       LET s == v.def[x].input
           t == w.def[x].input
       IN  /\ ControlsSwapped(s, t, v.def[m].name, v.def[n].name)
           /\ \A i \in DOMAIN s : s[i][2] # Control =>
                t[i] = <<OtherName(v.def[m].name, v.def[n].name, s[i][1]), s[i][2]>>

(* SwapFanoutInputs, input by input.                                       *)
LEMMA SwapFanoutInputsFacts ==
  ASSUME NEW v, Good(v, {}), NEW m \in DOMAIN v.def, NEW n \in DOMAIN v.def, m # n
  PROVE  Swapped(v, SwapFanoutInputs(v, m, n), m, n)
<1> DEFINE M == v.def[m].name
           N == v.def[n].name
           a == SwapControlledFanoutInputs(v, m, N)
           b == SwapControlledFanoutInputs(a, n, M)
           c == SwapRegularFanoutInputs(b, m, N)
           w == SwapRegularFanoutInputs(c, n, M)
           X == {}
<1>0. Good(v, X)
  OBVIOUS
<1>1. /\ v \in Views /\ WellTyped(v) /\ UniqueNames(v) /\ DOMAIN v.regular = DOMAIN v.def
      /\ M \in AllNames /\ N \in AllNames /\ M # N
  BY ViewParts DEF Good, WellTyped, UniqueNames
<1> HIDE DEF X, M, N
<1>2. ControlsRenamed(v, a, m, N)
  BY <1>1, SwapControlledFacts
<1>3. SameLinks(v, a) /\ a \in Views /\ DOMAIN a.regular = DOMAIN a.def /\ DOMAIN a.def = DOMAIN v.def
  BY <1>1, <1>2 DEF ControlsRenamed, SameLinks, SameNodes
<1>4. ControlsRenamed(a, b, n, M)
  <2> HIDE DEF a
  <2> QED
    BY <1>1, <1>3, SwapControlledFacts
<1>5. SameLinks(a, b)
  BY <1>4 DEF ControlsRenamed
<1> HIDE DEF a, b
<1>5a. SameLinks(v, b)
  BY <1>3, <1>5 DEF SameLinks, SameNodes
<1>6. RegularsRenamed(v, b, c, m, N)
  BY <1>0, <1>1, <1>5a, SwapRegularNamesFacts
<1>7. RegularsRenamed(v, c, w, n, M)
  <2> HIDE DEF c
  <2>1. SameLinks(v, c)
    BY <1>6 DEF RegularsRenamed
  <2> QED
    BY <1>0, <1>1, <2>1, SwapRegularNamesFacts
<1>8. w = SwapFanoutInputs(v, m, n)
  BY DEF SwapFanoutInputs, a, b, M, N
<1> HIDE DEF c, w
<1>9. ASSUME NEW x \in DOMAIN v.def
      PROVE  /\ ControlsSwapped(v.def[x].input, w.def[x].input, M, N)
             /\ \A i \in DOMAIN v.def[x].input : v.def[x].input[i][2] # Control =>
                  w.def[x].input[i] = <<OtherName(M, N, v.def[x].input[i][1]), v.def[x].input[i][2]>>
  <2> DEFINE s == v.def[x].input
             k == v.regular[x]
             sa == a.def[x].input
             sb == b.def[x].input
             sc == c.def[x].input
             t == w.def[x].input
             om == ControlsOf(v, x, M)
             on == ControlsOf(a, x, N)
             K == {i \in DOMAIN s : s[i][2] = Control}
  <2>1. /\ x \in Ids /\ s \in Seq(AnyInput) /\ InputsOk(v, x, s, k, X) /\ k \in Nat
    BY <1>0, <1>1, ViewParts DEF Good, WellTyped, NodeOk
  <2>2. /\ \A j \in DOMAIN s : HasNode(v, s[j][1]) /\ (j <= k <=> s[j][2] # Control)
        /\ DOMAIN s = 1..Len(s) /\ Len(s) \in Nat /\ Single(s)
        /\ \A j \in DOMAIN s : s[j] = <<s[j][1], s[j][2]>>
    <3>1. \A j \in DOMAIN s : s[j] = <<s[j][1], s[j][2]>>
      BY <1>1, <2>1, InputFacts
    <3> QED
      BY <2>1, <3>1 DEF InputsOk, Sound
  <2>3. DOMAIN sa = DOMAIN s /\ Len(sa) = Len(s) /\ a.regular = v.regular
        /\ \A f : WaitsFor(a, x, f) <=> WaitsFor(v, x, f)
    BY <1>3 DEF SameLinks, WaitsFor, GetFanout
  <2>4. /\ WaitsFor(v, x, m) <=> \E j \in DOMAIN s : s[j] = <<M, Control>>
        /\ WaitsFor(v, x, n) <=> \E j \in DOMAIN s : s[j] = <<N, Control>>
        /\ \A j : j \in om <=> j \in DOMAIN s /\ s[j] = <<M, Control>>
    <3>1. /\ \A g \in DOMAIN v.def : WaitsFor(v, x, g) <=>
               \E j \in DOMAIN v.def[x].input :
                 v.def[x].input[j] = <<v.def[g].name, Control>>
          /\ \A nm, j : j \in ControlsOf(v, x, nm) <=>
               j \in DOMAIN v.def[x].input /\ v.def[x].input[j] = <<nm, Control>>
      BY <1>0, ControlsFound
    <3>2. \A j : j \in om <=> j \in DOMAIN s /\ s[j] = <<M, Control>>
      BY <3>1
    <3>3. WaitsFor(v, x, m) <=> \E j \in DOMAIN s : s[j] = <<M, Control>>
      BY <3>1 DEF M
    <3>4. WaitsFor(v, x, n) <=> \E j \in DOMAIN s : s[j] = <<N, Control>>
      BY <3>1 DEF N
    <3> QED
      BY <3>2, <3>3, <3>4
  <2>5. \A j : j \in on <=> j \in K /\ sa[j][1] = N
    <3>1. \A j : j \in on <=> j \in k + 1..Len(s) /\ sa[j][1] = N
      BY <2>3 DEF ControlsOf
    <3>2. \A j : j \in k + 1..Len(s) <=> j \in DOMAIN s /\ ~(j <= k)
      BY <2>1, <2>2
    <3> QED
      BY <3>1, <3>2, <2>2
  <2>6. FirstControl(sa, s, WaitsFor(v, x, m), om, N)
    <3>1. sa = [i \in DOMAIN s |-> IF WaitsFor(v, x, m) /\ om # {} /\ i = Min(om)
                                   THEN <<N, Control>> ELSE s[i]]
      BY <1>2 DEF ControlsRenamed, M
    <3> HIDE DEF sa, om, s
    <3> QED
      BY <3>1 DEF FirstControl
  <2>7. FirstControl(sb, sa, WaitsFor(v, x, n), on, M)
    <3>1. a.def[n].name = N
      BY <1>3 DEF SameLinks, SameNodes, N
    <3>2. sb = [i \in DOMAIN sa |-> IF WaitsFor(a, x, n) /\ on # {} /\ i = Min(on)
                                   THEN <<M, Control>> ELSE sa[i]]
      BY <1>3, <1>4, <3>1 DEF ControlsRenamed
    <3> HIDE DEF sa, sb, on
    <3> QED
      BY <2>3, <3>2 DEF FirstControl
  <2>8. /\ \A i \in DOMAIN s : sc[i] = IF i \in 1..k /\ GetNode(v, s[i][1]) = m
                                       THEN <<N, s[i][2]>> ELSE sb[i]
        /\ \A i \in DOMAIN s : t[i] = IF i \in 1..k /\ GetNode(v, s[i][1]) = n
                                       THEN <<M, s[i][2]>> ELSE sc[i]
    <3>1. sc = [i \in DOMAIN s |-> IF i \in 1..k /\ GetNode(v, s[i][1]) = m
                                   THEN <<N, s[i][2]>> ELSE sb[i]]
      BY <1>6 DEF RegularsRenamed
    <3>2. t = [i \in DOMAIN s |-> IF i \in 1..k /\ GetNode(v, s[i][1]) = n
                                   THEN <<M, s[i][2]>> ELSE sc[i]]
      BY <1>7 DEF RegularsRenamed
    <3> HIDE DEF s, k, sb, sc, t
    <3> QED
      BY <3>1, <3>2
  <2>9. \A i \in DOMAIN s : /\ i \in 1..k <=> s[i][2] # Control
                            /\ GetNode(v, s[i][1]) = m <=> s[i][1] = M
                            /\ GetNode(v, s[i][1]) = n <=> s[i][1] = N
    <3>1. \A i \in DOMAIN s : i \in 1..k <=> i <= k
      BY <2>1, <2>2
    <3>2. \A i \in DOMAIN s : /\ GetNode(v, s[i][1]) = m <=> s[i][1] = M
                              /\ GetNode(v, s[i][1]) = n <=> s[i][1] = N
      BY <1>1, <2>2, NameOfInput DEF M, N
    <3> QED
      BY <3>1, <3>2, <2>2
  <2>10. /\ \A i : i \in om <=> i \in K /\ s[i][1] = M
         /\ \A i : i \in K <=> i \in DOMAIN s /\ s[i][2] = Control
         /\ DOMAIN s \in SUBSET Nat
    BY <2>2, <2>4
  <2> DEFINE Wm == WaitsFor(v, x, m)
             Wn == WaitsFor(v, x, n)
  <2>11. Wm \in BOOLEAN /\ Wn \in BOOLEAN
    BY DEF WaitsFor
  <2>12. (Wm <=> \E i \in DOMAIN s : s[i] = <<M, Control>>) /\ (Wn <=> \E i \in DOMAIN s : s[i] = <<N, Control>>)
    BY <2>4
  <2>13. \A i \in K : t[i] = sb[i]
    BY <2>8, <2>9, <2>10
  <2>14. FirstControl(sa, s, Wm, om, N) /\ FirstControl(sb, sa, Wn, on, M)
    BY <2>6, <2>7
  <2> HIDE DEF s, k, sa, sb, sc, t, om, on, K, Wm, Wn
  <2>15. ControlsSwapped(s, sb, M, N)
    <3>1. TwoSteps(s, sa, sb, M, N, K, Wm, Wn, om, on)
      BY <1>1, <2>2, <2>3, <2>5, <2>10, <2>11, <2>12, <2>14 DEF TwoSteps
    <3> QED
      BY <3>1, TwoRenames
  <2>16. ControlsSwapped(s, t, M, N)
    BY <2>13, <2>15, <2>10 DEF ControlsSwapped
  <2>17. \A i \in DOMAIN s : s[i][2] # Control => t[i] = <<OtherName(M, N, s[i][1]), s[i][2]>>
    <3> SUFFICES ASSUME NEW i \in DOMAIN s, s[i][2] # Control
                 PROVE  t[i] = <<OtherName(M, N, s[i][1]), s[i][2]>>
      OBVIOUS
    <3>1. /\ t[i] = IF s[i][1] = N THEN <<M, s[i][2]>> ELSE sc[i]
          /\ sc[i] = IF s[i][1] = M THEN <<N, s[i][2]>> ELSE sb[i]
      BY <2>8, <2>9
    <3>2. s[i] = sb[i]
      <4>1. \A j \in om : j # i
        BY <2>10
      <4>2. \A j \in on : j # i
        BY <2>5, <2>10
      <4>3. (om # {} => Min(om) \in om) /\ (on # {} => Min(on) \in on)
        <5>1. om \in SUBSET Nat /\ on \in SUBSET Nat
          BY <2>5, <2>10
        <5> QED
          BY <5>1, LeastOf
      <4> QED
        BY <4>1, <4>2, <4>3, <2>14, <2>3 DEF FirstControl
    <3>3. s[i] = <<s[i][1], s[i][2]>>
      BY <2>2
    <3> QED
      BY <3>1, <3>2, <3>3, <1>1 DEF OtherName
  <2> QED
    BY <2>16, <2>17 DEF s, t
<1>10. SameLinks(v, w)
  BY <1>7 DEF RegularsRenamed
<1> QED
  BY <1>8, <1>9, <1>10 DEF Swapped, M, N

(* Two nodes have each other's name.                                       *)
NamesSwapped(v, w, m, n) ==
  /\ w \in Views /\ DOMAIN w.def = DOMAIN v.def
  /\ w.regular = v.regular /\ w.fanouts = v.fanouts /\ w.max_out = v.max_out
  /\ \A x \in DOMAIN v.def :
       /\ w.def[x].op = v.def[x].op /\ w.def[x].input = v.def[x].input
       /\ w.def[x].name = OtherName(v.def[m].name, v.def[n].name, v.def[x].name)

(* Two nodes have each other's name.                                       *)
LEMMA SwapNamesFacts ==
  ASSUME NEW v \in Views, UniqueNames(v), NEW m \in DOMAIN v.def, NEW n \in DOMAIN v.def, m # n
  PROVE  NamesSwapped(v, SwapNames(v, m, n), m, n)
<1> DEFINE M == v.def[m].name
           N == v.def[n].name
           z == [v EXCEPT !.def[m].name = N]
           w == [z EXCEPT !.def[n].name = M]
<1>1. M \in AllNames /\ N \in AllNames
  BY ViewParts
<1>2. SwapNames(v, m, n) = w
  BY DEF SwapNames
<1> HIDE DEF M, N
<1>3. /\ z \in Views /\ DOMAIN z.def = DOMAIN v.def
      /\ z.regular = v.regular /\ z.fanouts = v.fanouts /\ z.max_out = v.max_out
      /\ \A x \in DOMAIN v.def : /\ z.def[x].op = v.def[x].op /\ z.def[x].input = v.def[x].input
                                 /\ z.def[x].name = IF x = m THEN N ELSE v.def[x].name
  BY <1>1, SetNameFacts
<1> HIDE DEF z
<1>4. /\ w \in Views /\ DOMAIN w.def = DOMAIN z.def
      /\ w.regular = z.regular /\ w.fanouts = z.fanouts /\ w.max_out = z.max_out
      /\ \A x \in DOMAIN z.def : /\ w.def[x].op = z.def[x].op /\ w.def[x].input = z.def[x].input
                                 /\ w.def[x].name = IF x = n THEN M ELSE z.def[x].name
  BY <1>1, <1>3, SetNameFacts
<1> HIDE DEF w
<1>5. \A x \in DOMAIN v.def : (v.def[x].name = M <=> x = m) /\ (v.def[x].name = N <=> x = n)
  BY DEF UniqueNames, M, N
<1>6. \A x \in DOMAIN v.def : w.def[x].name = OtherName(M, N, v.def[x].name)
  BY <1>3, <1>4, <1>5 DEF OtherName
<1> QED
  BY <1>2, <1>3, <1>4, <1>6 DEF NamesSwapped, M, N

(* SwapNodeNames with update_fanouts.                                      *)
LEMMA SwapNodeNamesFacts ==
  ASSUME NEW v, Good(v, {}), NEW m \in DOMAIN v.def, NEW n \in DOMAIN v.def, m # n,
         v.def[m].name \in Names, v.def[n].name \in Names
  PROVE  Good(SwapNames(SwapFanoutInputs(v, m, n), m, n), {})
<1> DEFINE M == v.def[m].name
           N == v.def[n].name
           z == SwapFanoutInputs(v, m, n)
           w == SwapNames(z, m, n)
<1>0. v \in Views /\ WellTyped(v) /\ UniqueNames(v) /\ AnchorsNamed(v)
  BY DEF Good, WellTyped
<1>1. Swapped(v, z, m, n)
  BY SwapFanoutInputsFacts
<1> HIDE DEF z
<1>2. /\ z \in Views /\ DOMAIN z.def = DOMAIN v.def
      /\ z.regular = v.regular /\ z.fanouts = v.fanouts /\ z.max_out = v.max_out
      /\ \A x \in DOMAIN v.def : z.def[x].name = v.def[x].name /\ z.def[x].op = v.def[x].op
  BY <1>1 DEF Swapped, SameLinks, SameNodes
<1>3. UniqueNames(z)
  BY <1>0, <1>2 DEF UniqueNames
<1>4. NamesSwapped(z, w, m, n)
  BY <1>2, <1>3, SwapNamesFacts
<1> HIDE DEF w
<1>5. /\ w \in Views /\ DOMAIN w.def = DOMAIN v.def
      /\ w.regular = v.regular /\ w.fanouts = v.fanouts /\ w.max_out = v.max_out
      /\ \A x \in DOMAIN v.def : /\ w.def[x].name = OtherName(M, N, v.def[x].name)
                                 /\ w.def[x].op = v.def[x].op
                                 /\ w.def[x].input = z.def[x].input
  BY <1>2, <1>4 DEF NamesSwapped
<1>6. M \in Names /\ N \in Names /\ M # N
  BY <1>0 DEF UniqueNames
<1> HIDE DEF M, N
<1>7. \A a, b : OtherName(M, N, a) = OtherName(M, N, b) => a = b
  BY <1>6 DEF OtherName
<1>8. UniqueNames(w) /\ AnchorsNamed(w)
  <2>1. UniqueNames(w)
    BY <1>0, <1>5, <1>7 DEF UniqueNames
  <2>2. ASSUME NEW x \in DOMAIN v.def, w.def[x].name \notin Names PROVE w.def[x].op = "Identity"
    <3>1. v.def[x].name \notin Names
      BY <1>5, <1>6, <2>2 DEF OtherName
    <3> QED
      BY <3>1, <1>0, <1>5 DEF AnchorsNamed
  <2> QED
    BY <1>5, <2>1, <2>2 DEF AnchorsNamed
<1>9. \A x \in DOMAIN v.def : HasNode(w, w.def[x].name) /\ GetNode(w, w.def[x].name) = x
  BY <1>5, <1>8, NodeNamed
<1>10. \A x \in DOMAIN v.def : /\ HasNode(w, OtherName(M, N, v.def[x].name))
                               /\ GetNode(w, OtherName(M, N, v.def[x].name)) = x
  BY <1>5, <1>9
<1>11. ASSUME NEW x \in DOMAIN v.def
       PROVE  SameSources(v, w, v.def[x].input, w.def[x].input)
  <2> DEFINE s == v.def[x].input
             t == w.def[x].input
  <2>1. /\ DOMAIN t = DOMAIN s /\ Len(t) = Len(s)
        /\ ControlsSwapped(s, t, M, N)
        /\ \A i \in DOMAIN s : s[i][2] # Control =>
             t[i] = <<OtherName(M, N, s[i][1]), s[i][2]>>
    <3>1. w.def[x].input = z.def[x].input
      BY <1>5
    <3> QED
      BY <3>1, <1>1 DEF Swapped, SameLinks, M, N
  <2>2. Single(s) /\ \A i \in DOMAIN s : HasNode(v, s[i][1])
    BY DEF Good, NodeOk, InputsOk, Sound
  <2>3. \A i \in DOMAIN s : /\ GetNode(v, s[i][1]) \in DOMAIN v.def
                            /\ v.def[GetNode(v, s[i][1])].name = s[i][1]
    BY <1>0, <2>2, NodeFound
  <2> HIDE DEF s, t
  <2>4. \A i \in DOMAIN s : /\ HasNode(w, OtherName(M, N, s[i][1]))
                            /\ GetNode(w, OtherName(M, N, s[i][1])) = GetNode(v, s[i][1])
    BY <2>3, <1>10
  <2>5. CASE \A i \in DOMAIN s : s[i][2] = Control => t[i] = <<OtherName(M, N, s[i][1]), Control>>
    <3>1. \A i \in DOMAIN s : t[i][2] = s[i][2] /\ t[i][1] = OtherName(M, N, s[i][1])
      BY <2>1, <2>5
    <3>2. \A i \in DOMAIN s : /\ t[i][2] = s[i][2]
                              /\ HasNode(v, s[i][1]) /\ HasNode(w, t[i][1])
                              /\ GetNode(w, t[i][1]) = GetNode(v, s[i][1])
      BY <2>2, <2>4, <3>1
    <3>3. SameSources(v, w, s, t)
      BY <1>0, <2>1, <2>2, <3>2, SameSourcesInPlace
    <3> QED
      BY <3>3 DEF s, t
  <2>6. CASE /\ \A i \in DOMAIN s : s[i][2] = Control => t[i] = s[i]
             /\ \E i, j \in DOMAIN s : s[i] = <<M, Control>> /\ s[j] = <<N, Control>>
    <3>1. PICK a \in DOMAIN s, b \in DOMAIN s : s[a] = <<M, Control>> /\ s[b] = <<N, Control>>
      BY <2>6
    <3>2. \A i \in DOMAIN s : t[i][2] = s[i][2]
      BY <2>1, <2>6
    <3>3. Single(t)
      BY <2>1, <2>2, <2>6, <3>2 DEF Single
    <3>4. \A i \in DOMAIN s : s[i][2] # Control =>
            HasNode(w, t[i][1]) /\ GetNode(w, t[i][1]) = GetNode(v, s[i][1])
      BY <2>1, <2>4
    <3>5. ASSUME NEW i \in DOMAIN s, s[i][2] = Control
          PROVE  \E j \in DOMAIN s : s[j][2] = Control /\ OtherName(M, N, s[j][1]) = s[i][1]
      <4>1. CASE s[i][1] = M
        BY <4>1, <3>1, <1>6 DEF OtherName
      <4>2. CASE s[i][1] = N
        BY <4>2, <3>1, <1>6 DEF OtherName
      <4>3. CASE s[i][1] # M /\ s[i][1] # N
        BY <4>3, <3>5 DEF OtherName
      <4> QED
        BY <4>1, <4>2, <4>3
    <3>6. ASSUME NEW i \in DOMAIN s, s[i][2] = Control
          PROVE  \E j \in DOMAIN s : s[j][2] = Control /\ OtherName(M, N, s[i][1]) = s[j][1]
      <4>1. CASE s[i][1] = M
        BY <4>1, <3>1, <1>6 DEF OtherName
      <4>2. CASE s[i][1] = N
        BY <4>2, <3>1, <1>6 DEF OtherName
      <4>3. CASE s[i][1] # M /\ s[i][1] # N
        BY <4>3, <3>6 DEF OtherName
      <4> QED
        BY <4>1, <4>2, <4>3
    <3>7. ASSUME NEW i \in DOMAIN s, s[i][2] = Control
          PROVE  /\ HasNode(w, t[i][1])
                 /\ \E j \in DOMAIN s : s[j][2] = Control /\ GetNode(w, t[i][1]) = GetNode(v, s[j][1])
                 /\ \E j \in DOMAIN s : s[j][2] = Control /\ GetNode(w, t[j][1]) = GetNode(v, s[i][1])
      <4>1. PICK j \in DOMAIN s : s[j][2] = Control /\ OtherName(M, N, s[j][1]) = s[i][1]
        BY <3>5, <3>7
      <4>2. PICK k \in DOMAIN s : s[k][2] = Control /\ OtherName(M, N, s[i][1]) = s[k][1]
        BY <3>6, <3>7
      <4>3. t[i] = s[i] /\ t[k] = s[k]
        BY <2>6, <3>7, <4>2
      <4>4. HasNode(w, t[i][1]) /\ GetNode(w, t[i][1]) = GetNode(v, s[j][1])
        BY <4>1, <4>3, <2>4
      <4>5. GetNode(w, t[k][1]) = GetNode(v, s[i][1])
        BY <4>2, <4>3, <2>4
      <4> QED
        BY <4>1, <4>2, <4>4, <4>5
    <3>8. ASSUME NEW i \in DOMAIN s, s[i][2] # Control
          PROVE  /\ HasNode(w, t[i][1])
                 /\ \E j \in DOMAIN s : s[j][2] = s[i][2] /\ GetNode(w, t[i][1]) = GetNode(v, s[j][1])
                 /\ \E j \in DOMAIN s : s[j][2] = s[i][2] /\ GetNode(w, t[j][1]) = GetNode(v, s[i][1])
      BY <3>4, <3>8
    <3>9. SameSources(v, w, s, t)
      <4>1. \A i \in DOMAIN s :
              /\ HasNode(w, t[i][1])
              /\ \E j \in DOMAIN s : s[j][2] = s[i][2] /\ GetNode(w, t[i][1]) = GetNode(v, s[j][1])
              /\ \E j \in DOMAIN s : s[j][2] = s[i][2] /\ GetNode(w, t[j][1]) = GetNode(v, s[i][1])
        <5> TAKE i \in DOMAIN s
        <5>1. CASE s[i][2] = Control
          BY <5>1, <3>7
        <5>2. CASE s[i][2] # Control
          BY <5>2, <3>8
        <5> QED
          BY <5>1, <5>2
      <4>2. DOMAIN t = DOMAIN s /\ Len(t) = Len(s)
        BY <2>1
      <4> QED
        BY <4>1, <4>2, <3>2, <3>3, <3>4 DEF SameSources
    <3> QED
      BY <3>9 DEF s, t
  <2> QED
    BY <2>1, <2>5, <2>6 DEF ControlsSwapped
<1>12. Renamed(v, w)
  BY <1>5, <1>8, <1>11 DEF Renamed
<1>13. Good(w, {})
  BY <1>12, RenamedGood
<1> QED
  BY <1>13 DEF w, z

-----------------------------------------------------------------------------
(* Two nodes that swap fanouts.                                            *)

(* Two nodes stand for each other.                                         *)
LEMMA OtherNodeFacts ==
  ASSUME NEW m \in Ids, NEW n \in Ids, m # n
  PROVE  /\ OtherNode(m, m, n) = n /\ OtherNode(n, m, n) = m
         /\ \A a : a # m /\ a # n => OtherNode(a, m, n) = a
         /\ \A a : OtherNode(OtherNode(a, m, n), m, n) = a
         /\ \A a \in Ids : OtherNode(a, m, n) \in Ids
  BY DEF OtherNode

(* The ports of some numbers are those of the other node.                  *)
PortsSwapped(f, g, m, n, ports) ==
  /\ g \in Partial(Ends, SUBSET Ends)
  /\ \A a \in Ids, i \in Slots :
       LET p == <<a, i>>
           q == IF i \in ports THEN <<OtherNode(a, m, n), i>> ELSE p
       IN  (p \in DOMAIN g <=> q \in DOMAIN f) /\ At(g, p, {}) = At(f, q, {})

(* The ports of some numbers change nodes.                                 *)
LEMMA SwapPortsFacts ==
  ASSUME NEW f \in Partial(Ends, SUBSET Ends), NEW m \in Ids, NEW n \in Ids, m # n, NEW ports
  PROVE  PortsSwapped(f, SwapPorts(f, m, n, ports), m, n, ports)
<1> DEFINE Other(x) == IF x[2] \in ports THEN <<OtherNode(x[1], m, n), x[2]>> ELSE x
           g == SwapPorts(f, m, n, ports)
<1>1. g = [x \in {Other(y) : y \in DOMAIN f} |-> f[Other(x)]]
  BY DEF SwapPorts
<1>2. DOMAIN f \in SUBSET Ends /\ \A y \in DOMAIN f : f[y] \in SUBSET Ends
  BY PartialDef
<1>3. \A y \in Ends : y = <<y[1], y[2]>> /\ y[1] \in Ids /\ y[2] \in Slots
  BY DEF Ends
<1>4. \A y \in Ends : Other(y) \in Ends /\ Other(Other(y)) = y
  <2> TAKE y \in Ends
  <2>1. CASE y[2] \in ports
    <3>1. Other(y) = <<OtherNode(y[1], m, n), y[2]>>
      BY <2>1
    <3>2. OtherNode(y[1], m, n) \in Ids /\ OtherNode(OtherNode(y[1], m, n), m, n) = y[1]
      BY <1>3, OtherNodeFacts
    <3>3. Other(y) \in Ends
      BY <1>3, <3>1, <3>2 DEF Ends
    <3>4. Other(y)[2] = y[2] /\ Other(y)[1] = OtherNode(y[1], m, n)
      BY <3>1
    <3>5. Other(Other(y)) = <<OtherNode(OtherNode(y[1], m, n), m, n), y[2]>>
      BY <3>4, <2>1
    <3> QED
      BY <1>3, <3>2, <3>3, <3>5
  <2>2. CASE y[2] \notin ports
    BY <2>2
  <2> QED
    BY <2>1, <2>2
<1> HIDE DEF Other, g
<1>5. DOMAIN g = {Other(y) : y \in DOMAIN f}
  BY <1>1
<1>6. \A x \in Ends : x \in DOMAIN g <=> Other(x) \in DOMAIN f
  BY <1>2, <1>4, <1>5
<1>7. DOMAIN g \in SUBSET Ends
  BY <1>2, <1>4, <1>5
<1>8. \A x \in DOMAIN g : g[x] = f[Other(x)] /\ g[x] \in SUBSET Ends
  <2> TAKE x \in DOMAIN g
  <2>1. g[x] = f[Other(x)]
    BY <1>1, <1>5
  <2>2. x \in Ends /\ Other(x) \in DOMAIN f
    BY <1>6, <1>7
  <2> QED
    BY <2>1, <2>2, <1>2
<1>9. g \in Partial(Ends, SUBSET Ends)
  <2>1. g = [x \in DOMAIN g |-> g[x]]
    BY <1>1, <1>5
  <2>2. g \in [DOMAIN g -> SUBSET Ends]
    BY <1>8, <2>1
  <2> QED
    BY <1>7, <2>2, PartialDef
<1>10. ASSUME NEW a \in Ids, NEW i \in Slots
       PROVE  LET p == <<a, i>>
                  q == IF i \in ports THEN <<OtherNode(a, m, n), i>> ELSE p
              IN  (p \in DOMAIN g <=> q \in DOMAIN f) /\ At(g, p, {}) = At(f, q, {})
  <2> DEFINE p == <<a, i>>
             q == IF i \in ports THEN <<OtherNode(a, m, n), i>> ELSE p
  <2>1. p \in Ends /\ q = Other(p)
    BY DEF Ends, Other
  <2> HIDE DEF p, q
  <2>2. p \in DOMAIN g <=> q \in DOMAIN f
    BY <2>1, <1>6
  <2>3. p \in DOMAIN g => g[p] = f[q]
    BY <2>1, <1>8
  <2>4. At(g, p, {}) = At(f, q, {})
    BY <2>2, <2>3 DEF At
  <2> QED
    BY <2>2, <2>4 DEF p, q
<1> QED
  BY <1>9, <1>10 DEF g, PortsSwapped

(* So do the bounds.                                                       *)
LEMMA SwapBoundsFacts ==
  ASSUME NEW f \in Partial(Ids, Nat), NEW m \in Ids, NEW n \in Ids, m # n
  PROVE  /\ SwapBounds(f, m, n) \in Partial(Ids, Nat)
         /\ \A a \in Ids : OtherNode(a, m, n) \in DOMAIN f =>
              a \in DOMAIN SwapBounds(f, m, n) /\ SwapBounds(f, m, n)[a] = f[OtherNode(a, m, n)]
<1> DEFINE Other(x) == OtherNode(x, m, n)
           g == SwapBounds(f, m, n)
<1>1. g = [x \in {Other(y) : y \in DOMAIN f} |-> f[Other(x)]]
  BY DEF SwapBounds
<1>2. DOMAIN f \in SUBSET Ids /\ \A y \in DOMAIN f : f[y] \in Nat
  BY PartialDef
<1>3. \A y \in Ids : Other(y) \in Ids /\ Other(Other(y)) = y
  BY OtherNodeFacts
<1> HIDE DEF Other, g
<1>4. DOMAIN g = {Other(y) : y \in DOMAIN f}
  BY <1>1
<1>5. DOMAIN g \in SUBSET Ids /\ \A x \in Ids : x \in DOMAIN g <=> Other(x) \in DOMAIN f
  BY <1>2, <1>3, <1>4
<1>6. \A x \in DOMAIN g : g[x] = f[Other(x)]
  BY <1>1, <1>4
<1>7. \A x \in DOMAIN g : g[x] \in Nat
  BY <1>2, <1>5, <1>6
<1>8. g = [x \in DOMAIN g |-> g[x]]
  BY <1>1, <1>4
<1>9. g \in [DOMAIN g -> Nat]
  BY <1>7, <1>8
<1>10. g \in Partial(Ids, Nat)
  BY <1>5, <1>9, PartialDef
<1> QED
  BY <1>5, <1>6, <1>10 DEF g, Other

(* Nothing is emplaced where there is an entry.                            *)
NothingLost(v, m, n) ==
  \A a \in {m, n}, i \in Nat :
    LET to == <<a, i>>
        from == <<OtherNode(a, m, n), i>>
    IN  i > At(v.max_out, a, -1) /\ to \in DOMAIN v.fanouts /\ from \in DOMAIN v.fanouts =>
          GetFanout(v, from) = {}

(* What read one node reads the other one.                                 *)
FanoutsSwapped(v, w, m, n) ==
  /\ w \in Views /\ w.def = v.def /\ w.regular = v.regular /\ BoundedBut(w, {})
  /\ \A a \in Ids, i \in Slots : GetFanout(w, <<a, i>>) = GetFanout(v, <<OtherNode(a, m, n), i>>)

(* The map after the entries above have gone over.                         *)
IsEmplaced(both, g, from, to, above) ==
  /\ g \in Partial(Ends, SUBSET Ends)
  /\ \A a \in Ids, i \in Slots :
       At(g, <<a, i>>, {}) =
         IF i \in above /\ a = from THEN {}
         ELSE IF i \in above /\ a = to /\ <<to, i>> \notin DOMAIN both
         THEN At(both, <<from, i>>, {})
         ELSE At(both, <<a, i>>, {})

(* The entries above go to the other node unless it has one.               *)
LEMMA EmplacedFacts ==
  ASSUME NEW both \in Partial(Ends, SUBSET Ends), NEW from \in Ids, NEW to \in Ids, from # to,
         NEW above, \A i \in above : i \in Nat /\ <<from, i>> \in DOMAIN both
  PROVE  IsEmplaced(both, Emplaced(both, from, to, above), from, to, above)
<1> DEFINE g == Emplaced(both, from, to, above)
           D == (DOMAIN both \ {from} \X above) \cup {to} \X above
<1>1. g = [p \in D |-> IF p \in DOMAIN both THEN both[p] ELSE both[<<from, p[2]>>]]
  BY DEF Emplaced
<1>2. DOMAIN both \in SUBSET Ends /\ \A p \in DOMAIN both : both[p] \in SUBSET Ends
  BY PartialDef
<1>3. D \in SUBSET Ends
  <2>1. {to} \X above \subseteq Ends
    BY DEF Ends, Slots
  <2> QED
    BY <2>1, <1>2
<1>4. \A p \in D : p \in DOMAIN both \/ <<from, p[2]>> \in DOMAIN both
  OBVIOUS
<1>5. \A a \in Ids, i \in Slots :
        <<a, i>> \in D <=> \/ <<a, i>> \in DOMAIN both /\ ~(a = from /\ i \in above)
                           \/ a = to /\ i \in above
  OBVIOUS
<1> HIDE DEF g, D
<1>6. \A p \in D : g[p] \in SUBSET Ends
  BY <1>1, <1>2, <1>4
<1>7. g \in [D -> SUBSET Ends] /\ DOMAIN g = D
  BY <1>1, <1>6
<1>8. g \in Partial(Ends, SUBSET Ends)
  BY <1>3, <1>7, PartialDef
<1>9. ASSUME NEW a \in Ids, NEW i \in Slots
      PROVE  At(g, <<a, i>>, {}) =
                IF i \in above /\ a = from THEN {}
                ELSE IF i \in above /\ a = to /\ <<to, i>> \notin DOMAIN both
                THEN At(both, <<from, i>>, {})
                ELSE At(both, <<a, i>>, {})
  <2> DEFINE p == <<a, i>>
  <2>0. p[2] = i
    OBVIOUS
  <2>1. p \in D <=> \/ p \in DOMAIN both /\ ~(a = from /\ i \in above)
                    \/ a = to /\ i \in above
    BY <1>5
  <2>2. p \in D => g[p] = IF p \in DOMAIN both THEN both[p] ELSE both[<<from, i>>]
    BY <1>1, <2>0
  <2>4. At(g, p, {}) = IF p \in D THEN g[p] ELSE {}
    BY <1>7 DEF At
  <2>3. CASE i \in above /\ a = from
    BY <2>1, <2>3, <2>4
  <2>5. CASE i \in above /\ a = to /\ <<to, i>> \notin DOMAIN both
    BY <2>1, <2>2, <2>4, <2>5 DEF At
  <2>6. CASE ~(i \in above /\ a = from) /\ ~(i \in above /\ a = to /\ <<to, i>> \notin DOMAIN both)
    <3> HIDE DEF p
    <3>1. p \in D <=> p \in DOMAIN both
      BY <2>1, <2>6 DEF p
    <3>2. At(g, p, {}) = At(both, p, {})
      BY <3>1, <2>2, <2>4 DEF At
    <3> QED
      BY <3>2, <2>6 DEF p
  <2> QED
    BY <2>3, <2>5, <2>6
<1> QED
  BY <1>8, <1>9 DEF g, IsEmplaced

(* SwapFanoutsAndMaxPortValues, if no fanout is lost.                      *)
LEMMA SwapFanoutsFacts ==
  ASSUME NEW v \in Views, BoundedBut(v, {}), NEW m \in Ids, NEW n \in Ids, m # n,
         NothingLost(v, m, n)
  PROVE  FanoutsSwapped(v, SwapFanoutsAndMaxPortValues(v, m, n), m, n)
<1> DEFINE mmax   == At(v.max_out, m, -1)
           nmax   == At(v.max_out, n, -1)
           shared == Min({mmax, nmax})
           top    == Max({mmax, nmax})
           low    == Control..shared
           both   == SwapPorts(v.fanouts, m, n, low)
           from   == IF mmax > nmax THEN m ELSE n
           to     == IF mmax > nmax THEN n ELSE m
           above  == {i \in shared + 1..top : <<from, i>> \in DOMAIN both}
           g      == Emplaced(both, from, to, above)
           b      == SwapBounds(v.max_out, m, n)
           w      == SwapFanoutsAndMaxPortValues(v, m, n)
           Other(a) == OtherNode(a, m, n)
<1>1. /\ v.fanouts \in Partial(Ends, SUBSET Ends) /\ v.max_out \in Partial(Ids, Nat)
      /\ \A a \in DOMAIN v.max_out : v.max_out[a] \in Nat
  BY ViewParts
<1>2. mmax \in Nat \cup {-1} /\ nmax \in Nat \cup {-1}
  BY <1>1 DEF At
<1> HIDE DEF mmax, nmax
<1>3. /\ shared = IF mmax <= nmax THEN mmax ELSE nmax
      /\ top = IF mmax >= nmax THEN mmax ELSE nmax
      /\ shared \in Nat \cup {-1} /\ top \in Nat \cup {-1}
  <2>1. mmax \in Int /\ nmax \in Int
    BY <1>2
  <2>2. shared = IF mmax <= nmax THEN mmax ELSE nmax
    BY <2>1, MinOfTwo
  <2>3. top = IF mmax >= nmax THEN mmax ELSE nmax
    BY <2>1, MaxOfTwo
  <2> HIDE DEF shared, top
  <2> QED
    BY <1>2, <2>2, <2>3
<1>4. /\ both \in Partial(Ends, SUBSET Ends)
      /\ \A a \in Ids, i \in Slots :
           LET p == <<a, i>>
               q == IF i \in low THEN <<Other(a), i>> ELSE p
           IN  (p \in DOMAIN both <=> q \in DOMAIN v.fanouts) /\ At(both, p, {}) = At(v.fanouts, q, {})
  <2> HIDE DEF low
  <2>1. PortsSwapped(v.fanouts, both, m, n, low)
    BY <1>1, SwapPortsFacts
  <2> HIDE DEF both
  <2> QED
    BY <2>1 DEF PortsSwapped
<1>5. w = [v EXCEPT !.fanouts = g, !.max_out = b]
  BY DEF SwapFanoutsAndMaxPortValues, mmax, nmax
<1>6. from \in Ids /\ to \in Ids /\ from # to /\ Other(from) = to /\ Other(to) = from
      /\ {from, to} = {m, n} /\ (\A a : a # from /\ a # to => Other(a) = a)
  BY OtherNodeFacts
<1>7. At(v.max_out, from, -1) = top /\ At(v.max_out, to, -1) = shared
  BY <1>2, <1>3 DEF mmax, nmax
<1> HIDE DEF shared, top, both, from, to, g, b, w
<1>8. \A i \in above : i \in Nat /\ <<from, i>> \in DOMAIN both
  BY <1>3
<1>8a. \A i : i \in above <=> i \in shared + 1..top /\ <<from, i>> \in DOMAIN both
  OBVIOUS
<1> HIDE DEF above
<1>9. /\ g \in Partial(Ends, SUBSET Ends)
      /\ \A a \in Ids, i \in Slots :
           At(g, <<a, i>>, {}) =
             IF i \in above /\ a = from THEN {}
             ELSE IF i \in above /\ a = to /\ <<to, i>> \notin DOMAIN both
             THEN At(both, <<from, i>>, {})
             ELSE At(both, <<a, i>>, {})
  <2>1. both \in Partial(Ends, SUBSET Ends) /\ from \in Ids /\ to \in Ids /\ from # to
    BY <1>4, <1>6
  <2>2. IsEmplaced(both, Emplaced(both, from, to, above), from, to, above)
    BY <2>1, <1>8, EmplacedFacts
  <2> QED
    BY <2>2 DEF g, IsEmplaced
<1>10. b \in Partial(Ids, Nat) /\ \A a \in Ids : Other(a) \in DOMAIN v.max_out =>
         a \in DOMAIN b /\ b[a] = v.max_out[Other(a)]
  BY <1>1, SwapBoundsFacts DEF b
<1>11. /\ w \in Views /\ w.def = v.def /\ w.regular = v.regular /\ w.fanouts = g /\ w.max_out = b
  BY <1>5, <1>9, <1>10 DEF Views
<1>12. \A a \in Ids, i \in Nat : i > At(v.max_out, a, -1) => GetFanout(v, <<a, i>>) = {}
  <2> SUFFICES ASSUME NEW a \in Ids, NEW i \in Nat, i > At(v.max_out, a, -1),
                      GetFanout(v, <<a, i>>) # {}
               PROVE  FALSE
    OBVIOUS
  <2>1. a \in DOMAIN v.max_out /\ i <= v.max_out[a]
    BY DEF BoundedBut
  <2>2. v.max_out[a] \in Nat /\ At(v.max_out, a, -1) = v.max_out[a]
    BY <2>1, <1>1 DEF At
  <2> QED
    BY <2>1, <2>2
<1>13. \A i \in Slots : i \in low <=> i = Control \/ i <= shared
  BY <1>3 DEF Slots, Control
<1> HIDE DEF low, Other
<1>14. ASSUME NEW a \in Ids, NEW i \in Slots
       PROVE  At(g, <<a, i>>, {}) = GetFanout(v, <<Other(a), i>>)
  <2>1. CASE i \in low
    <3>1. i \notin above
      <4>1. i \notin shared + 1..top
        BY <2>1, <1>3, <1>13 DEF Control
      <4> QED
        BY <4>1, <1>8a
    <3>2. At(g, <<a, i>>, {}) = At(both, <<a, i>>, {})
      BY <3>1, <1>9
    <3>3. At(both, <<a, i>>, {}) = At(v.fanouts, <<Other(a), i>>, {})
      BY <2>1, <1>4
    <3> QED
      BY <3>2, <3>3 DEF GetFanout
  <2>2. CASE i \notin low
    <3>1. i \in Nat /\ i > shared
      BY <2>2, <1>3, <1>13 DEF Slots
    <3>2. \A c \in Ids : /\ <<c, i>> \in DOMAIN both <=> <<c, i>> \in DOMAIN v.fanouts
                         /\ At(both, <<c, i>>, {}) = GetFanout(v, <<c, i>>)
      BY <2>2, <1>4 DEF GetFanout
    <3>3. GetFanout(v, <<to, i>>) = {}
      BY <3>1, <1>6, <1>7, <1>12
    <3>4. CASE a # from /\ a # to
      <4>1. At(g, <<a, i>>, {}) = At(both, <<a, i>>, {}) /\ Other(a) = a
        BY <3>4, <1>9, <1>6
      <4> QED
        BY <4>1, <3>2
    <3>5. i \in above <=> i <= top /\ <<from, i>> \in DOMAIN v.fanouts
      <4>1. i \in shared + 1..top <=> i <= top
        BY <3>1, <1>3
      <4> QED
        BY <4>1, <1>8a, <3>2, <1>6
    <3>6. i \notin above => GetFanout(v, <<from, i>>) = {}
      <4>1. CASE i > top
        BY <4>1, <3>1, <1>6, <1>7, <1>12
      <4>2. CASE <<from, i>> \notin DOMAIN v.fanouts
        BY <4>2 DEF GetFanout, At
      <4>3. i > top \/ i <= top
        BY <3>1, <1>3
      <4> QED
        BY <4>1, <4>2, <4>3, <3>5
    <3>7. CASE a = from
      <4>1. Other(a) = to
        BY <3>7, <1>6
      <4>2. At(g, <<a, i>>, {}) = IF i \in above THEN {} ELSE At(both, <<from, i>>, {})
        BY <3>7, <1>9, <1>6
      <4> QED
        BY <4>1, <4>2, <3>2, <3>3, <3>6, <1>6
    <3>8. CASE a = to
      <4>1. Other(a) = from
        BY <3>8, <1>6
      <4>2. At(g, <<a, i>>, {}) = IF i \in above /\ <<to, i>> \notin DOMAIN both
                                  THEN At(both, <<from, i>>, {}) ELSE At(both, <<to, i>>, {})
        BY <3>8, <1>9, <1>6
      <4>3. i \in above /\ <<to, i>> \in DOMAIN both => GetFanout(v, <<from, i>>) = {}
        <5> HAVE i \in above /\ <<to, i>> \in DOMAIN both
        <5>1. <<to, i>> \in DOMAIN v.fanouts /\ <<from, i>> \in DOMAIN v.fanouts
          BY <3>2, <3>5, <1>6
        <5>2. i > At(v.max_out, to, -1) /\ to \in {m, n} /\ OtherNode(to, m, n) = from
          BY <3>1, <1>6, <1>7 DEF Other
        <5> QED
          BY <3>1, <5>1, <5>2 DEF NothingLost
      <4> QED
        BY <4>1, <4>2, <4>3, <3>2, <3>3, <3>6, <1>6
    <3> QED
      BY <3>4, <3>7, <3>8
  <2> QED
    BY <2>1, <2>2
<1>15. \A a \in Ids, i \in Slots : GetFanout(w, <<a, i>>) = GetFanout(v, <<Other(a), i>>)
  BY <1>11, <1>14 DEF GetFanout
<1>16. BoundedBut(w, {})
  <2> SUFFICES ASSUME NEW f \in Ids, NEW p \in Nat, GetFanout(w, <<f, p>>) # {}
               PROVE  f \in DOMAIN w.max_out /\ p <= w.max_out[f]
    BY DEF BoundedBut
  <2>1. GetFanout(v, <<Other(f), p>>) # {} /\ Other(f) \in Ids
    <3>1. Other(f) \in Ids
      BY OtherNodeFacts DEF Other
    <3> QED
      BY <3>1, <1>15 DEF Slots
  <2>2. Other(f) \in DOMAIN v.max_out /\ p <= v.max_out[Other(f)]
    BY <2>1 DEF BoundedBut
  <2> QED
    BY <2>2, <1>10, <1>11
<1> QED
  BY <1>11, <1>15, <1>16 DEF FanoutsSwapped, w, Other

-----------------------------------------------------------------------------
(* A node that reads its own new name.                                     *)

(* What stands where nothing is read does not matter.                      *)
LEMMA EditElsewhere ==
  ASSUME NEW u, NEW n, NEW v, NEW s, NEW H, NEW P, Editing(u, v, n, s, H, P),
         NEW t, DOMAIN t = DOMAIN s, \A j \in DOMAIN s \ H : t[j] = s[j]
  PROVE  Editing(u, v, n, t, H, P)
<1>1. \A j \in DOMAIN s \ H : j \in DOMAIN t \ H /\ t[j] = s[j]
  OBVIOUS
<1>2. \A j \in DOMAIN t \ H : j \in DOMAIN s \ H /\ t[j] = s[j]
  OBVIOUS
<1>3. \A i \in DOMAIN s \ H : \E j \in DOMAIN t \ H :
        t[j] = s[i] /\ Slot(t[j], j) = Slot(s[i], i)
  BY <1>1
<1>4. \A j \in DOMAIN t \ H : \E i \in DOMAIN s \ H :
        t[j] = s[i] /\ Slot(t[j], j) = Slot(s[i], i)
  BY <1>2
<1> QED
  BY <1>3, <1>4, EditMove

(* An input is replaced by one from another node.                          *)
LEMMA EditReplace ==
  ASSUME NEW u, WellTyped(u), NEW n \in DOMAIN u.def, NEW w, NEW s \in Seq(AnyInput),
         Editing(u, w, n, s, {}, {}), NEW i \in DOMAIN s, HasNode(u, s[i][1]),
         Alone(u, s, {}, i), NEW x \in AnyInput, HasNode(u, x[1]), x[2] = s[i][2],
         NEW t, t = [s EXCEPT ![i] = x], NEW at, at = Slot(s[i], i),
         NEW from, from = OutputPort(u, s[i]), NEW to, to = OutputPort(u, x),
         NEW y, y = UpdateMaxRegularOutputPortForRemovedFanin(Unlink(w, from, <<n, at>>), from),
         NEW z, z = UpdateMaxRegularOutputPortForAddedFanin(Link(y, to, <<n, at>>), to)
  PROVE  Rebound(u, w, z, n, t, {}, {})
<1> DEFINE H == {i}
           E == {}
<1>0. i \in DOMAIN s \ E /\ Editing(u, w, n, s, E, {}) /\ E \cup {i} = H /\ H \ {i} = E /\ Alone(u, s, E, i)
  OBVIOUS
<1>1. /\ t \in Seq(AnyInput) /\ DOMAIN t = DOMAIN s /\ t[i] = x
      /\ \A j \in DOMAIN s \ H : t[j] = s[j]
  BY ExceptSeq
<1>2. Slot(t[i], i) = at /\ OutputPort(u, t[i]) = to /\ HasNode(u, t[i][1]) /\ i \in DOMAIN t
  BY <1>1 DEF Slot
<1> HIDE DEF H, E
<1>3. Rebound(u, w, y, n, s, H, {})
  <2>1. LET port == OutputPort(u, s[i])
            a == Unlink(w, port, <<n, Slot(s[i], i)>>)
            r == UpdateMaxRegularOutputPortForRemovedFanin(a, port) IN
         Rebound(u, w, r, n, s, E \cup {i}, {})
    BY <1>0, EditLeave
  <2> QED
    BY <2>1, <1>0
<1>4. Editing(u, y, n, s, H, {}) /\ y.def = w.def /\ y.regular = w.regular
  BY <1>3 DEF Rebound
<1>5. Editing(u, y, n, t, H, {})
  BY <1>1, <1>4, EditElsewhere
<1>6. Rebound(u, y, z, n, t, E, {})
  <2>1. LET port == OutputPort(u, t[i])
            a == Link(y, port, <<n, Slot(t[i], i)>>)
            r == UpdateMaxRegularOutputPortForAddedFanin(a, port) IN
         Rebound(u, y, r, n, t, H \ {i}, {})
    BY <1>1, <1>2, <1>5, EditEnter
  <2> QED
    BY <2>1, <1>0, <1>2
<1> QED
  BY <1>4, <1>6 DEF Rebound, E

(* n, which names other nodes and itself but not the other node.           *)
SelfReader(u, n, other) ==
  LET s == u.def[n].input
  IN  /\ WellTyped(u) /\ BoundedBut(u, {})
      /\ n \in DOMAIN u.def /\ other \in DOMAIN u.def /\ n # other
      /\ Reads(u, n, s, {}) /\ Single(s)
      /\ \A i \in DOMAIN s : HasNode(u, s[i][1]) /\ s[i][1] # u.def[other].name

(* Up to input i it names the other node instead of itself.                *)
ReadsOther(u, w, n, other, i) ==
  LET s == u.def[n].input
      t == w.def[n].input
  IN  /\ Editing(u, w, n, t, {}, {}) /\ w.regular = u.regular
      /\ t \in Seq(AnyInput) /\ DOMAIN t = DOMAIN s /\ Len(t) = Len(s)
      /\ \A j \in DOMAIN s : t[j] = IF j <= i /\ s[j][1] = u.def[n].name
                                    THEN <<u.def[other].name, s[j][2]>> ELSE s[j]

(* ReadOther, at one input.                                                *)
LEMMA ReadOtherFacts ==
  ASSUME NEW u, NEW n, NEW other, SelfReader(u, n, other), NEW i \in DOMAIN u.def[n].input,
         NEW w, ReadsOther(u, w, n, other, i - 1)
  PROVE  ReadsOther(u, ReadOther(w, n, other, i), n, other, i)
<1> DEFINE s == u.def[n].input
           t == w.def[n].input
           N == u.def[n].name
           M == u.def[other].name
           x == <<M, s[i][2]>>
           z == ReadOther(w, n, other, i)
<1>1. /\ WellTyped(u) /\ u \in Views /\ UniqueNames(u) /\ n \in DOMAIN u.def /\ other \in DOMAIN u.def /\ n # other
      /\ s \in Seq(AnyInput) /\ Single(s) /\ N # M /\ N \in AllNames /\ M \in AllNames
      /\ \A j \in DOMAIN s : HasNode(u, s[j][1]) /\ s[j][1] # M
  BY ViewParts DEF SelfReader, WellTyped, UniqueNames
<1>2. /\ Editing(u, w, n, t, {}, {}) /\ w.regular = u.regular
      /\ t \in Seq(AnyInput) /\ DOMAIN t = DOMAIN s /\ Len(t) = Len(s)
      /\ \A j \in DOMAIN s : t[j] = IF j <= i - 1 /\ s[j][1] = N THEN <<M, s[j][2]>> ELSE s[j]
  BY DEF ReadsOther
<1>3. w.def[n].name = N /\ w.def[other].name = M /\ n \in DOMAIN w.def
  <2>1. Frame(u, w, n)
    BY <1>2 DEF Editing
  <2> QED
    BY <1>1, <2>1 DEF Frame
<1>4. /\ \A j \in DOMAIN s : j \in Int /\ s[j] \in AnyInput /\ s[j] = <<s[j][1], s[j][2]>> /\ s[j][2] \in AnyPort
      /\ i \in Int /\ i \in DOMAIN s
  <2>1. \A j \in DOMAIN s : j \in Nat /\ s[j] \in AnyInput /\ s[j] = <<s[j][1], s[j][2]>> /\ s[j][2] \in AnyPort
    BY <1>1, InputFacts
  <2> QED
    BY <2>1
<1>5. t[i] = s[i]
  <2>1. ~(i <= i - 1)
    BY <1>4
  <2>2. i \in DOMAIN s
    OBVIOUS
  <2> HIDE DEF t, N, M
  <2> QED
    BY <1>2, <2>1, <2>2
<1> HIDE DEF s, t, N, M
<1>6. HasNode(u, M) /\ HasNode(u, N)
  BY <1>1, NodeNamed DEF M, N
<1>7. Single(t) /\ \A j \in DOMAIN t : HasNode(u, t[j][1])
  <2>1. \A j \in DOMAIN s : t[j][2] = s[j][2] /\ (t[j][1] = s[j][1] \/ (t[j][1] = M /\ s[j][1] = N))
    BY <1>2
  <2>2. ASSUME NEW j \in DOMAIN s, NEW k \in DOMAIN s, t[j][2] = Control, t[k][2] = Control,
               t[j][1] = t[k][1]
        PROVE  j = k
    <3>1. s[j][1] = s[k][1]
      BY <2>1, <2>2, <1>1
    <3> QED
      BY <2>1, <2>2, <3>1, <1>1 DEF Single
  <2>3. Single(t)
    BY <2>2, <1>2 DEF Single
  <2> QED
    BY <2>1, <2>3, <1>1, <1>2, <1>6
<1>8. CASE s[i][1] # N
  <2>1. z = w
    BY <1>3, <1>5, <1>8 DEF ReadOther, t
  <2>2. \A j \in DOMAIN s : t[j] = IF j <= i /\ s[j][1] = N THEN <<M, s[j][2]>> ELSE s[j]
    <3> TAKE j \in DOMAIN s
    <3>1. j <= i <=> j <= i - 1 \/ j = i
      BY <1>4
    <3> QED
      BY <3>1, <1>2, <1>8
  <2> HIDE DEF z
  <2>3. ReadsOther(u, w, n, other, i)
    BY <2>2, <1>2 DEF ReadsOther, s, t, N, M
  <2> QED
    BY <2>1, <2>3 DEF z
<1>9. CASE s[i][1] = N
  <2> DEFINE at   == Slot(s[i], i)
             from == OutputPort(u, s[i])
             to   == OutputPort(u, x)
             y    == UpdateMaxRegularOutputPortForRemovedFanin(Unlink(w, from, <<n, at>>), from)
             r    == UpdateMaxRegularOutputPortForAddedFanin(Link(y, to, <<n, at>>), to)
             c    == [t EXCEPT ![i] = x]
  <2>1. from = <<n, s[i][2]>> /\ to = <<other, s[i][2]>> /\ at = IF s[i][2] = Control THEN Control ELSE i
    <3>1. GetNode(u, N) = n /\ GetNode(u, M) = other
      BY <1>1, NodeNamed DEF N, M
    <3>2. x[1] = M /\ x[2] = s[i][2]
      OBVIOUS
    <3> HIDE DEF x
    <3> QED
      BY <3>1, <3>2, <1>9 DEF OutputPort, Slot
  <2>2. x \in AnyInput /\ HasNode(u, x[1]) /\ x[2] = s[i][2]
    BY <1>1, <1>4, <1>6 DEF AnyInput
  <2>3. z = SetInput(r, n, c)
    <3>1. t[i][1] = w.def[n].name /\ t[i][2] = s[i][2]
      BY <1>3, <1>5, <1>9
    <3>2. c = [w.def[n].input EXCEPT ![i] = <<w.def[other].name, s[i][2]>>]
      BY <1>3 DEF t
    <3> HIDE DEF c, r
    <3>3. z = SetInput(r, n, [w.def[n].input EXCEPT ![i] = <<w.def[other].name, s[i][2]>>])
      BY <2>1, <3>1 DEF ReadOther, t, r
    <3> QED
      BY <3>2, <3>3
  <2>4. Alone(u, t, {}, i)
    <3>1. i \in DOMAIN t
      BY <1>2, <1>4
    <3>2. CASE t[i][2] = Control
      BY <1>1, <1>2, <1>7, <3>1, <3>2, ControlAlone
    <3>3. CASE t[i][2] # Control
      BY <1>1, <1>2, <3>1, <3>3, RegularAlone
    <3> QED
      BY <3>2, <3>3
  <2>5. /\ HasNode(u, t[i][1]) /\ x[2] = t[i][2] /\ at = Slot(t[i], i) /\ from = OutputPort(u, t[i])
        /\ i \in DOMAIN t
    BY <1>2, <1>4, <1>5, <1>7
  <2> HIDE DEF at, from, to, x, z
  <2>6. Rebound(u, w, r, n, c, {}, {})
    BY <1>1, <1>2, <2>2, <2>4, <2>5, EditReplace DEF to
  <2> HIDE DEF y, r
  <2>7. /\ c \in Seq(AnyInput) /\ DOMAIN c = DOMAIN s /\ Len(c) = Len(s)
        /\ \A j \in DOMAIN s : c[j] = IF j = i THEN x ELSE t[j]
    <3>1. c \in Seq(AnyInput) /\ Len(c) = Len(t)
      BY <1>2, <2>2, <2>5, ExceptSeq
    <3>2. DOMAIN c = DOMAIN s /\ \A j \in DOMAIN s : c[j] = IF j = i THEN x ELSE t[j]
      BY <1>2
    <3> QED
      BY <3>1, <3>2, <1>2
  <2> HIDE DEF c
  <2>8. Editing(u, z, n, c, {}, {}) /\ z.def[n].input = c /\ z.regular = u.regular
    <3>1. Editing(u, r, n, c, {}, {}) /\ r.regular = w.regular
      BY <2>6 DEF Rebound
    <3>2. 0 \in Nat
      OBVIOUS
    <3>3. LET f == SetInput(r, n, c) IN Editing(u, f, n, c, {}, {}) /\ f.def[n].input = c /\ f.regular = r.regular
      BY <1>1, <2>7, <3>1, <3>2, EditSet
    <3> QED
      BY <2>3, <3>1, <3>3, <1>2
  <2>9. \A j \in DOMAIN s : c[j] = IF j <= i /\ s[j][1] = N THEN <<M, s[j][2]>> ELSE s[j]
    <3> TAKE j \in DOMAIN s
    <3>1. j <= i <=> j <= i - 1 \/ j = i
      BY <1>4
    <3> QED
      BY <3>1, <1>2, <1>9, <2>7 DEF x
  <2>10. ReadsOther(u, z, n, other, i)
    BY <2>7, <2>8, <2>9 DEF ReadsOther, s, N, M
  <2> QED
    BY <2>10 DEF z
<1> QED
  BY <1>8, <1>9

(* A function holds what ReadInsteadOfSelf has after each input.           *)
ReadInsteadOfSelfSteps(v, n, other, run) ==
  /\ run[0] = v
  /\ \A k \in 1..Len(v.def[n].input) : run[k] = ReadOther(run[k - 1], n, other, k)
  /\ ReadInsteadOfSelf(v, n, other) = run[Len(v.def[n].input)]

(* Such a function there is.                                               *)
LEMMA ReadInsteadOfSelfLoop ==
  ASSUME NEW v, NEW n, NEW other, v.def[n].input \in Seq(AnyInput)
  PROVE  \E run : ReadInsteadOfSelfSteps(v, n, other, run)
<1> DEFINE L == Len(v.def[n].input)
           After(x, k) == ReadOther(x, n, other, k)
           Loop(g, m) == g = [k \in 0..m |-> IF k = 0 THEN v ELSE After(g[k - 1], k)]
           P == {m \in 0..L : \E g : Loop(g, m)}
<1>0. L \in Nat
  BY LenProperties
<1>1. 0 \in P
  <2> DEFINE g == [k \in 0..0 |-> v]
  <2>1. Loop(g, 0)
    OBVIOUS
  <2> HIDE DEF g, Loop, L
  <2> QED
    BY <2>1, <1>0
<1>2. ASSUME NEW m \in 1..L, m - 1 \in P PROVE m \in P
  <2>1. PICK g : Loop(g, m - 1)
    BY <1>2
  <2> HIDE DEF After, L, P
  <2> DEFINE y == After(g[m - 1], m)
             h == [k \in 0..m |-> IF k = m THEN y ELSE g[k]]
  <2>0. m \in Nat /\ m # 0 /\ m - 1 \in 0..(m - 1)
    BY <1>0
  <2>2. h[m] = y /\ \A k \in 0..(m - 1) : h[k] = g[k]
    BY <2>0
  <2>3. \A k \in 0..(m - 1) : k # 0 => k - 1 \in 0..(m - 1)
    BY <2>0
  <2>4. \A k \in 0..m : k \in 0..(m - 1) \/ k = m
    BY <2>0
  <2>5. \A k \in 0..m : h[k] = IF k = 0 THEN v ELSE After(h[k - 1], k)
    <3> HIDE DEF h
    <3>1. \A k \in 0..(m - 1) : h[k] = IF k = 0 THEN v ELSE After(h[k - 1], k)
      BY <2>1, <2>2, <2>3
    <3>2. h[m] = After(h[m - 1], m)
      BY <2>0, <2>2
    <3> QED
      BY <2>0, <2>4, <3>1, <3>2
  <2>6. Loop(h, m)
    BY <2>5
  <2> HIDE DEF h, Loop
  <2> QED
    BY <2>6 DEF P
<1>3. L \in P
  <2> HIDE DEF P
  <2>1. P \in SUBSET (0..L)
    BY DEF P
  <2>2. P = 0..L
    <3> HIDE DEF L
    <3> QED
      BY <1>0, <1>1, <1>2, <2>1, Throughout
  <2> QED
    BY <1>0, <2>2
<1> DEFINE F == CHOOSE h : Loop(h, L)
<1>4. Loop(F, L)
  <2> HIDE DEF Loop
  <2>1. \E g : Loop(g, L)
    BY <1>3
  <2> HIDE DEF P
  <2> QED
    BY <2>1
<1>5. ReadInsteadOfSelf(v, n, other) = F[Len(v.def[n].input)]
  BY DEF ReadInsteadOfSelf
<1> HIDE DEF F
<1>6. \A k \in 0..Len(v.def[n].input) : F[k] = IF k = 0 THEN v ELSE ReadOther(F[k - 1], n, other, k)
  BY <1>4
<1>7. \A k \in 1..Len(v.def[n].input) : k \in 0..Len(v.def[n].input) /\ k # 0
  BY <1>0
<1>8. 0 \in 0..Len(v.def[n].input)
  BY <1>0
<1>9. ReadInsteadOfSelfSteps(v, n, other, F)
  BY <1>5, <1>6, <1>7, <1>8 DEF ReadInsteadOfSelfSteps
<1> QED
  BY <1>9

(* ReadInsteadOfSelf, for all inputs.                                      *)
LEMMA ReadInsteadOfSelfFacts ==
  ASSUME NEW u, NEW n, NEW other, SelfReader(u, n, other)
  PROVE  ReadsOther(u, ReadInsteadOfSelf(u, n, other), n, other, Len(u.def[n].input))
<1> DEFINE s == u.def[n].input
           last == Len(s)
<1>1. s \in Seq(AnyInput) /\ last \in Nat /\ DOMAIN s = 1..last
  BY ViewParts, LenProperties DEF SelfReader, WellTyped
<1>2. PICK g : ReadInsteadOfSelfSteps(u, n, other, g)
  BY <1>1, ReadInsteadOfSelfLoop
<1>3. /\ g[0] = u
      /\ \A i \in 1..last : g[i] = ReadOther(g[i - 1], n, other, i)
      /\ ReadInsteadOfSelf(u, n, other) = g[last]
  BY <1>2 DEF ReadInsteadOfSelfSteps
<1> DEFINE P == {i \in 0..last : ReadsOther(u, g[i], n, other, i)}
<1>4. 0 \in P
  <2>1. Frame(u, u, n)
    BY FrameSelf DEF SelfReader, WellTyped
  <2>2. Editing(u, u, n, s, {}, {})
    BY <2>1 DEF Editing, SelfReader
  <2>3. \A j \in DOMAIN s : ~(j <= 0)
    BY <1>1
  <2>4. ReadsOther(u, u, n, other, 0)
    <3> HIDE DEF last
    <3>1. \A j \in DOMAIN s : s[j] = IF j <= 0 /\ s[j][1] = u.def[n].name
                                     THEN <<u.def[other].name, s[j][2]>> ELSE s[j]
      BY <2>3
    <3> QED
      BY <1>1, <2>2, <3>1 DEF ReadsOther
  <2> QED
    BY <1>1, <1>3, <2>4
<1>5. ASSUME NEW i \in 1..last, i - 1 \in P PROVE i \in P
  <2> HIDE DEF last
  <2>1. ReadsOther(u, g[i - 1], n, other, i - 1) /\ i \in DOMAIN s
    BY <1>1, <1>5
  <2>2. ReadsOther(u, ReadOther(g[i - 1], n, other, i), n, other, i)
    BY <2>1, ReadOtherFacts
  <2>3. i \in 0..last
    BY <1>1
  <2> QED
    BY <1>3, <2>2, <2>3
<1> HIDE DEF P, last
<1>6. last \in P
  <2>1. P \in SUBSET (0..last)
    BY DEF P
  <2>2. P = 0..last
    BY <1>1, <1>4, <1>5, <2>1, Throughout
  <2> QED
    BY <1>1, <2>2
<1> QED
  BY <1>3, <1>6 DEF P, last

-----------------------------------------------------------------------------
(* Two nodes that swap names and fanouts.                                  *)

(* m and n have each other's name and fanouts, the inputs are as they were.*)
Exchanged(v, a, m, n) ==
  /\ WellTyped(a) /\ BoundedBut(a, {}) /\ NoStray(a)
  /\ DOMAIN a.def = DOMAIN v.def /\ a.regular = v.regular
  /\ \A x \in DOMAIN v.def :
       /\ a.def[x].op = v.def[x].op /\ a.def[x].input = v.def[x].input
       /\ a.def[x].name = v.def[OtherNode(x, m, n)].name
       /\ Reads(a, x, v.def[x].input, {})
  /\ \A name : HasNode(v, name) =>
       HasNode(a, name) /\ GetNode(a, name) = OtherNode(GetNode(v, name), m, n)

(* After the swap of names and of fanouts.                                 *)
LEMMA ExchangeFacts ==
  ASSUME NEW v, Good(v, {}), NEW m \in DOMAIN v.def, NEW n \in DOMAIN v.def, m # n,
         v.def[m].name \in Names, v.def[n].name \in Names, NothingLost(v, m, n)
  PROVE  Exchanged(v, SwapFanoutsAndMaxPortValues(SwapNames(v, m, n), m, n), m, n)
<1> DEFINE z == SwapNames(v, m, n)
           a == SwapFanoutsAndMaxPortValues(z, m, n)
           M == v.def[m].name
           N == v.def[n].name
           Other(x) == OtherNode(x, m, n)
<1>0. /\ v \in Views /\ UniqueNames(v) /\ AnchorsNamed(v) /\ BoundedBut(v, {}) /\ NoStray(v)
      /\ DOMAIN v.regular = DOMAIN v.def
      /\ m \in Ids /\ n \in Ids /\ DOMAIN v.def \subseteq Ids
  BY ViewParts DEF Good, WellTyped
<1>1. NamesSwapped(v, z, m, n)
  BY <1>0, SwapNamesFacts
<1> HIDE DEF z
<1>2. /\ z \in Views /\ DOMAIN z.def = DOMAIN v.def
      /\ z.regular = v.regular /\ z.fanouts = v.fanouts /\ z.max_out = v.max_out
      /\ \A p : GetFanout(z, p) = GetFanout(v, p)
      /\ \A x \in DOMAIN v.def :
           /\ z.def[x].op = v.def[x].op /\ z.def[x].input = v.def[x].input
           /\ z.def[x].name = OtherName(M, N, v.def[x].name)
  BY <1>1 DEF NamesSwapped, GetFanout
<1>3. BoundedBut(z, {}) /\ NothingLost(z, m, n)
  BY <1>0, <1>2 DEF BoundedBut, NothingLost
<1>4. FanoutsSwapped(z, a, m, n)
  BY <1>0, <1>2, <1>3, SwapFanoutsFacts
<1> HIDE DEF a
<1>5. /\ a \in Views /\ a.def = z.def /\ a.regular = v.regular /\ BoundedBut(a, {})
      /\ \A x \in Ids, i \in Slots : GetFanout(a, <<x, i>>) = GetFanout(v, <<Other(x), i>>)
  BY <1>2, <1>4 DEF FanoutsSwapped
<1>6. /\ Other(m) = n /\ Other(n) = m /\ \A x : x # m /\ x # n => Other(x) = x
      /\ \A x : Other(Other(x)) = x
      /\ \A x \in DOMAIN v.def : Other(x) \in DOMAIN v.def
      /\ \A x \in Ids : Other(x) \in Ids
  BY <1>0, OtherNodeFacts DEF OtherNode
<1> HIDE DEF Other, M, N
<1>7. \A x \in DOMAIN v.def : a.def[x].name = v.def[Other(x)].name
  <2> TAKE x \in DOMAIN v.def
  <2>0. a.def[x].name = OtherName(M, N, v.def[x].name)
    BY <1>2, <1>5
  <2>1. (v.def[x].name = M <=> x = m) /\ (v.def[x].name = N <=> x = n)
    BY <1>0 DEF UniqueNames, M, N
  <2> QED
    BY <2>0, <2>1, <1>6 DEF OtherName, M, N
<1>8. UniqueNames(a) /\ AnchorsNamed(a)
  <2>1. UniqueNames(a)
    <3> SUFFICES ASSUME NEW x \in DOMAIN v.def, NEW y \in DOMAIN v.def, a.def[x].name = a.def[y].name
                 PROVE  x = y
      BY <1>2, <1>5 DEF UniqueNames
    <3>1. Other(x) = Other(y)
      BY <1>0, <1>6, <1>7 DEF UniqueNames
    <3> QED
      BY <3>1, <1>6
  <2>2. AnchorsNamed(a)
    <3> SUFFICES ASSUME NEW x \in DOMAIN v.def
                 PROVE  a.def[x].name \in Names \/ a.def[x].op = "Identity"
      BY <1>2, <1>5 DEF AnchorsNamed
    <3>1. CASE x = m \/ x = n
      BY <3>1, <1>6, <1>7
    <3>2. CASE x # m /\ x # n
      <4>1. a.def[x].name = v.def[x].name /\ a.def[x].op = v.def[x].op
        BY <3>2, <1>2, <1>5, <1>6, <1>7
      <4> QED
        BY <4>1, <1>0 DEF AnchorsNamed
    <3> QED
      BY <3>1, <3>2
  <2> QED
    BY <2>1, <2>2
<1>9. WellTyped(a) /\ DOMAIN a.def = DOMAIN v.def
  BY <1>0, <1>2, <1>5, <1>8 DEF WellTyped
<1>10. \A name : HasNode(v, name) => HasNode(a, name) /\ GetNode(a, name) = Other(GetNode(v, name))
  <2> SUFFICES ASSUME NEW name, HasNode(v, name)
               PROVE  HasNode(a, name) /\ GetNode(a, name) = Other(GetNode(v, name))
    OBVIOUS
  <2> DEFINE f == GetNode(v, name)
             g == Other(f)
  <2>1. f \in DOMAIN v.def /\ v.def[f].name = name
    BY <1>0, NodeFound
  <2>2. g \in DOMAIN a.def /\ a.def[g].name = name
    BY <2>1, <1>6, <1>7, <1>9
  <2> HIDE DEF g, f
  <2>3. GetNode(a, a.def[g].name) = g /\ HasNode(a, a.def[g].name)
    BY <2>2, <1>5, <1>8, NodeNamed
  <2> QED
    BY <2>2, <2>3 DEF g, f
<1>11. ASSUME NEW x \in DOMAIN v.def PROVE Reads(a, x, v.def[x].input, {})
  <2> DEFINE s == v.def[x].input
  <2>0. Reads(v, x, s, {}) /\ \A i \in DOMAIN s : HasNode(v, s[i][1])
    BY DEF Good, NodeOk, InputsOk, Sound
  <2> SUFFICES ASSUME NEW port \in Ends, NEW at \in Slots
               PROVE  <<x, at>> \in GetFanout(a, port) <=>
                        \E i \in DOMAIN s \ {} : OutputPort(a, s[i]) = port /\ at = Slot(s[i], i)
    BY DEF Reads
  <2>1. PICK g \in Ids, q \in Slots : port = <<g, q>>
    BY DEF Ends
  <2>2. <<Other(g), q>> \in Ends
    BY <1>6 DEF Ends
  <2>3. <<x, at>> \in GetFanout(a, port) <=> <<x, at>> \in GetFanout(v, <<Other(g), q>>)
    BY <2>1, <1>5
  <2>4. <<x, at>> \in GetFanout(v, <<Other(g), q>>) <=>
          \E i \in DOMAIN s \ {} : OutputPort(v, s[i]) = <<Other(g), q>> /\ at = Slot(s[i], i)
    BY <2>0, <2>2 DEF Reads
  <2>5. ASSUME NEW i \in DOMAIN s
        PROVE  OutputPort(v, s[i]) = <<Other(g), q>> <=> OutputPort(a, s[i]) = port
    <3>1. HasNode(v, s[i][1])
      BY <2>0
    <3>2. GetNode(a, s[i][1]) = Other(GetNode(v, s[i][1]))
      BY <3>1, <1>10
    <3>3. GetNode(v, s[i][1]) = Other(g) <=> Other(GetNode(v, s[i][1])) = g
      BY <1>6
    <3> QED
      BY <2>1, <3>2, <3>3 DEF OutputPort
  <2> HIDE DEF s
  <2> QED
    BY <2>3, <2>4, <2>5
<1>12. NoStray(a)
  <2> SUFFICES ASSUME NEW port \in Ends, NEW to \in Ends, to \in GetFanout(a, port)
               PROVE  to[1] \in DOMAIN v.def
    BY <1>9 DEF NoStray
  <2>1. PICK g \in Ids, q \in Slots : port = <<g, q>>
    BY DEF Ends
  <2>2. <<Other(g), q>> \in Ends /\ to \in GetFanout(v, <<Other(g), q>>)
    BY <2>1, <1>5, <1>6 DEF Ends
  <2> QED
    BY <2>2, <1>0 DEF NoStray
<1>13. \A x \in DOMAIN v.def : a.def[x].op = v.def[x].op /\ a.def[x].input = v.def[x].input
  BY <1>2, <1>5
<1> QED
  BY <1>5, <1>7, <1>9, <1>10, <1>11, <1>12, <1>13 DEF Exchanged, a, z, Other

(* The sources of the inputs after the exchange: m and n read what they    *)
(* did, the others the other node.                                         *)
SourcesExchanged(v, w, m, n, x) ==
  LET s == v.def[x].input
      t == w.def[x].input
  IN  /\ DOMAIN t = DOMAIN s /\ Len(t) = Len(s) /\ Single(t) /\ w.regular[x] = v.regular[x]
      /\ Reads(w, x, t, {})
      /\ \A i \in DOMAIN s :
           /\ t[i][2] = s[i][2] /\ HasNode(w, t[i][1])
           /\ GetNode(w, t[i][1]) = IF x \in {m, n} THEN GetNode(v, s[i][1])
                                    ELSE OtherNode(GetNode(v, s[i][1]), m, n)

(* All that read one node read the other, by name and by fanout.           *)
ExchangedSo(v, w, m, n) ==
  /\ WellTyped(w) /\ BoundedBut(w, {}) /\ NoStray(w)
  /\ DOMAIN w.def = DOMAIN v.def /\ \A x \in DOMAIN v.def : w.def[x].op = v.def[x].op
  /\ \A x \in DOMAIN v.def : SourcesExchanged(v, w, m, n, x)

(* A view is good if all that read one node read the other.                *)
LEMMA ExchangedGood ==
  ASSUME NEW v, Good(v, {}), NEW m \in DOMAIN v.def, NEW n \in DOMAIN v.def, m # n,
         IsSwitch(v, m) => GetFanout(v, <<n, Control>>) = {},
         IsSwitch(v, n) => GetFanout(v, <<m, Control>>) = {},
         NEW X, \/ m \in X /\ n \in X
                \/ GetFanout(v, <<m, Control>>) = {} /\ GetFanout(v, <<n, Control>>) = {},
         NEW w, ExchangedSo(v, w, m, n)
  PROVE  Good(w, X)
<1>1. /\ WellTyped(w) /\ BoundedBut(w, {}) /\ NoStray(w)
      /\ DOMAIN w.def = DOMAIN v.def /\ \A x \in DOMAIN v.def : w.def[x].op = v.def[x].op
      /\ \A x \in DOMAIN v.def : SourcesExchanged(v, w, m, n, x)
  BY DEF ExchangedSo
<1>2. ASSUME NEW x \in DOMAIN v.def PROVE NodeOk(w, x, X)
  <2> DEFINE s == v.def[x].input
             t == w.def[x].input
             k == v.regular[x]
             E == {}
  <2>1. /\ InputsOk(v, x, s, k, E) /\ Good(v, E)
        /\ v \in Views /\ WellTyped(v) /\ x \in Ids /\ m \in Ids /\ n \in Ids
    BY ViewParts DEF Good, WellTyped, NodeOk
  <2>2. /\ DOMAIN t = DOMAIN s /\ Len(t) = Len(s) /\ Single(t) /\ w.regular[x] = k
        /\ Reads(w, x, t, {})
        /\ \A i \in DOMAIN s :
             /\ t[i][2] = s[i][2] /\ HasNode(w, t[i][1])
             /\ GetNode(w, t[i][1]) = IF x \in {m, n} THEN GetNode(v, s[i][1])
                                      ELSE OtherNode(GetNode(v, s[i][1]), m, n)
    BY <1>1 DEF SourcesExchanged
  <2>3. /\ k <= Len(s)
        /\ \A i \in DOMAIN s :
             /\ HasNode(v, s[i][1])
             /\ GetNode(v, s[i][1]) # x
             /\ i <= k <=> s[i][2] # Control
             /\ s[i][2] = Control => ~IsSwitch(v, GetNode(v, s[i][1]))
        /\ NoRepeat(v, s, E)
    BY <2>1 DEF InputsOk, Sound
  <2>4. \A i \in DOMAIN s : /\ GetNode(v, s[i][1]) \in DOMAIN v.def
                            /\ v.def[GetNode(v, s[i][1])].name = s[i][1]
    BY <2>1, <2>3, NodeFound
  <2>5. /\ OtherNode(m, m, n) = n /\ OtherNode(n, m, n) = m
        /\ \A a : a # m /\ a # n => OtherNode(a, m, n) = a
        /\ \A a : OtherNode(OtherNode(a, m, n), m, n) = a
    BY <2>1, OtherNodeFacts
  <2>6. ASSUME NEW i \in DOMAIN s, s[i][2] = Control
        PROVE  GetFanout(v, <<GetNode(v, s[i][1]), Control>>) # {}
    <3> DEFINE f == GetNode(v, s[i][1])
    <3>0. \A g \in DOMAIN v.def : WaitsFor(v, x, g) <=>
            \E j \in DOMAIN v.def[x].input :
              v.def[x].input[j] = <<v.def[g].name, Control>>
      BY <2>1, ControlsFound
    <3>4. f \in DOMAIN v.def
      BY <2>4, <2>6
    <3> HIDE DEF f
    <3>1. WaitsFor(v, x, f) <=> \E j \in DOMAIN v.def[x].input :
                                  v.def[x].input[j] = <<v.def[f].name, Control>>
      BY <3>0, <3>4
    <3> USE DEF f
    <3>2. s \in Seq(AnyInput) /\ s[i] = <<s[i][1], s[i][2]>>
      BY <2>1, ViewParts, InputFacts
    <3>3. s[i] = <<v.def[f].name, Control>>
      BY <2>4, <2>6, <3>2
    <3> QED
      BY <3>1, <3>3 DEF WaitsFor
  <2>7. ASSUME NEW i \in DOMAIN s, s[i][2] = Control
        PROVE  /\ ~IsSwitch(w, GetNode(w, t[i][1]))
               /\ IsIdentity(v, GetNode(v, s[i][1])) =>
                    IsIdentity(w, GetNode(w, t[i][1])) \/ GetNode(w, t[i][1]) \in X
    <3> DEFINE f == GetNode(v, s[i][1])
               g == GetNode(w, t[i][1])
    <3>0. /\ f \in DOMAIN v.def /\ ~IsSwitch(v, f) /\ GetFanout(v, <<f, Control>>) # {}
          /\ g = IF x \in {m, n} THEN f ELSE OtherNode(f, m, n)
      BY <2>2, <2>3, <2>4, <2>6, <2>7
    <3> HIDE DEF f, g
    <3>1. CASE g = f
      BY <3>0, <3>1, <1>1 DEF IsSwitch, IsIdentity, f, g
    <3>2. CASE g # f
      <4>1. (f = m /\ g = n) \/ (f = n /\ g = m)
        BY <3>0, <3>2, <2>5
      <4>2. ~IsSwitch(v, g) /\ g \in X
        BY <3>0, <4>1
      <4> QED
        BY <4>1, <4>2, <1>1 DEF IsSwitch, g
    <3> QED
      BY <3>1, <3>2
  <2>8. \A i \in DOMAIN s : GetNode(w, t[i][1]) # x
    <3> TAKE i \in DOMAIN s
    <3>1. GetNode(v, s[i][1]) # x
      BY <2>3
    <3>2. CASE x \in {m, n}
      BY <3>1, <3>2, <2>2
    <3>3. CASE x \notin {m, n}
      <4>1. OtherNode(x, m, n) = x
        BY <3>3, <2>5
      <4> QED
        BY <3>1, <3>3, <4>1, <2>2, <2>5
    <3> QED
      BY <3>2, <3>3
  <2> HIDE DEF s, t, k, E
  <2>9. Sound(w, x, t, k)
    BY <2>2, <2>3, <2>7, <2>8 DEF Sound
  <2>10. NoRepeat(w, t, X)
    <3> SUFFICES ASSUME NEW i \in DOMAIN t, NEW j \in DOMAIN t,
                        t[i][2] = Control, t[j][2] # Control, t[i][1] = t[j][1]
                 PROVE  IsIdentity(w, GetNode(w, t[i][1])) \/ GetNode(w, t[i][1]) \in X
      BY DEF NoRepeat
    <3>1. i \in DOMAIN s /\ j \in DOMAIN s /\ s[i][2] = Control /\ s[j][2] # Control
      BY <2>2
    <3>2. GetNode(v, s[i][1]) = GetNode(v, s[j][1])
      <4>1. GetNode(w, t[i][1]) = GetNode(w, t[j][1])
        OBVIOUS
      <4> HIDE DEF t
      <4>2. CASE x \in {m, n}
        BY <4>1, <4>2, <3>1, <2>2
      <4>3. CASE x \notin {m, n}
        <5>1. OtherNode(GetNode(v, s[i][1]), m, n) = OtherNode(GetNode(v, s[j][1]), m, n)
          BY <4>1, <4>3, <3>1, <2>2
        <5> QED
          BY <5>1, <2>5
      <4> QED
        BY <4>2, <4>3
    <3>3. s[i][1] = s[j][1]
      <4>1. v.def[GetNode(v, s[i][1])].name = s[i][1] /\ v.def[GetNode(v, s[j][1])].name = s[j][1]
        BY <3>1, <2>4
      <4> QED
        BY <3>2, <4>1
    <3>4. IsIdentity(v, GetNode(v, s[i][1]))
      <4>1. IsIdentity(v, GetNode(v, s[i][1])) \/ GetNode(v, s[i][1]) \in E
        BY <3>1, <3>3, <2>3 DEF NoRepeat
      <4> QED
        BY <4>1 DEF E
    <3> QED
      BY <3>1, <3>4, <2>7
  <2>11. w.regular[x] = k
    BY <2>2
  <2> QED
    BY <2>2, <2>9, <2>10, <2>11 DEF NodeOk, InputsOk, t
<1> QED
  BY <1>1, <1>2 DEF Good

-----------------------------------------------------------------------------
(* SwapNodes.                                                              *)

(* t has M where s has N.                                                  *)
NamesOther(s, t, N, M) ==
  /\ DOMAIN t = DOMAIN s /\ Len(t) = Len(s)
  /\ \A j \in DOMAIN s : t[j] = IF s[j][1] = N THEN <<M, s[j][2]>> ELSE s[j]

(* A node that changed names and now names the other node where it would   *)
(* name itself reads what it did.                                          *)
LEMMA ReadsAsBefore ==
  ASSUME NEW v, Good(v, {}), NEW m \in DOMAIN v.def, NEW n \in DOMAIN v.def, m # n,
         NEW a, Exchanged(v, a, m, n), NEW w, SameNames(a, w),
         NEW x \in {m, n},
         NamesOther(v.def[x].input, w.def[x].input, v.def[OtherNode(x, m, n)].name, v.def[x].name),
         Reads(w, x, w.def[x].input, {}), w.regular[x] = v.regular[x]
  PROVE  SourcesExchanged(v, w, m, n, x)
<1> DEFINE y == OtherNode(x, m, n)
           s == v.def[x].input
           t == w.def[x].input
           N == v.def[y].name
           M == v.def[x].name
<1>1. /\ v \in Views /\ UniqueNames(v) /\ m \in Ids /\ n \in Ids /\ x \in DOMAIN v.def
      /\ y \in DOMAIN v.def /\ x # y /\ y \in {m, n}
  <2>1. v \in Views /\ UniqueNames(v) /\ DOMAIN v.def \subseteq Ids
    BY ViewParts DEF Good, WellTyped
  <2> QED
    BY <2>1 DEF OtherNode
<1>2. /\ OtherNode(m, m, n) = n /\ OtherNode(n, m, n) = m
      /\ \A b : b # m /\ b # n => OtherNode(b, m, n) = b
  BY <1>1, OtherNodeFacts
<1>3. OtherNode(x, m, n) = y /\ OtherNode(y, m, n) = x /\ \A b : b # x /\ b # y => OtherNode(b, m, n) = b
  BY <1>1, <1>2
<1>4. NodeOk(v, x, {}) /\ s \in Seq(AnyInput)
  BY <1>1, ViewParts DEF Good
<1>5. \A i \in DOMAIN s : HasNode(v, s[i][1]) /\ GetNode(v, s[i][1]) # x
  BY <1>4 DEF NodeOk, InputsOk, Sound
<1>6. Single(s)
  BY <1>4 DEF NodeOk, InputsOk
<1>7. \A i \in DOMAIN s : v.def[GetNode(v, s[i][1])].name = s[i][1] /\ GetNode(v, s[i][1]) \in DOMAIN v.def
  BY <1>1, <1>5, NodeFound
<1>8. GetNode(v, N) = y /\ HasNode(v, N) /\ GetNode(v, M) = x /\ HasNode(v, M)
  BY <1>1, NodeNamed
<1>9. \A name : HasNode(v, name) => HasNode(a, name) /\ GetNode(a, name) = OtherNode(GetNode(v, name), m, n)
  BY DEF Exchanged
<1>10. \A name : GetNode(w, name) = GetNode(a, name) /\ (HasNode(w, name) <=> HasNode(a, name))
  BY SameNode
<1>11. /\ DOMAIN t = DOMAIN s /\ Len(t) = Len(s)
       /\ \A j \in DOMAIN s : t[j] = IF s[j][1] = N THEN <<M, s[j][2]>> ELSE s[j]
  BY DEF NamesOther
<1>12. Reads(w, x, t, {}) /\ w.regular[x] = v.regular[x]
  OBVIOUS
<1> HIDE DEF s, t, N, M, y
<1>13. \A i \in DOMAIN s : /\ t[i][2] = s[i][2]
                           /\ t[i][1] = IF s[i][1] = N THEN M ELSE s[i][1]
                           /\ s[i][1] # M
  <2> TAKE i \in DOMAIN s
  <2>1. t[i] = IF s[i][1] = N THEN <<M, s[i][2]>> ELSE s[i]
    BY <1>11
  <2>2. s[i][1] # M
    BY <1>5, <1>8
  <2> QED
    BY <2>1, <2>2
<1>14. Single(t)
  <2> SUFFICES ASSUME NEW i \in DOMAIN s, NEW j \in DOMAIN s, t[i][2] = Control, t[j][2] = Control,
                      t[i][1] = t[j][1]
               PROVE  i = j
    BY <1>11 DEF Single
  <2>1. s[i][2] = Control /\ s[j][2] = Control
    BY <1>13
  <2>2. s[i][1] = s[j][1]
    BY <1>13
  <2> QED
    BY <1>6, <2>1, <2>2 DEF Single
<1>15. ASSUME NEW i \in DOMAIN s
       PROVE  HasNode(w, t[i][1]) /\ GetNode(w, t[i][1]) = GetNode(v, s[i][1])
  <2>1. CASE s[i][1] = N
    <3>1. t[i][1] = M
      BY <1>13, <2>1
    <3>2. GetNode(a, M) = y /\ HasNode(a, M)
      BY <1>3, <1>8, <1>9
    <3> QED
      BY <1>8, <1>10, <2>1, <3>1, <3>2
  <2>2. CASE s[i][1] # N
    <3>1. t[i][1] = s[i][1]
      BY <1>13, <2>2
    <3>2. GetNode(v, s[i][1]) # y
      BY <1>7, <2>2 DEF N
    <3>3. OtherNode(GetNode(v, s[i][1]), m, n) = GetNode(v, s[i][1])
      BY <1>3, <1>5, <3>2
    <3> QED
      BY <1>5, <1>9, <1>10, <3>1, <3>3
  <2> QED
    BY <2>1, <2>2
<1> QED
  BY <1>11, <1>12, <1>13, <1>14, <1>15 DEF SourcesExchanged, s, t

(* The other nodes read the other node.                                    *)
LEMMA ReadsTheOther ==
  ASSUME NEW v, Good(v, {}), NEW m \in DOMAIN v.def, NEW n \in DOMAIN v.def, m # n,
         NEW a, Exchanged(v, a, m, n), NEW w, SameNames(a, w),
         NEW x \in DOMAIN v.def \ {m, n}, w.def[x].input = v.def[x].input,
         Reads(w, x, v.def[x].input, {}), w.regular[x] = v.regular[x]
  PROVE  SourcesExchanged(v, w, m, n, x)
<1> DEFINE s == v.def[x].input
<1>1. NodeOk(v, x, {})
  BY DEF Good
<1>2. \A i \in DOMAIN s : HasNode(v, s[i][1])
  BY <1>1 DEF NodeOk, InputsOk, Sound
<1>3. Single(s)
  BY <1>1 DEF NodeOk, InputsOk
<1>4. \A name : HasNode(v, name) => HasNode(a, name) /\ GetNode(a, name) = OtherNode(GetNode(v, name), m, n)
  BY DEF Exchanged
<1>5. \A name : GetNode(w, name) = GetNode(a, name) /\ (HasNode(w, name) <=> HasNode(a, name))
  BY SameNode
<1>6. x \notin {m, n}
  OBVIOUS
<1> QED
  BY <1>2, <1>3, <1>4, <1>5, <1>6 DEF SourcesExchanged

(* A node that reads its own new name, and its fanouts.                    *)
LEMMA MaySelfRead ==
  ASSUME NEW v, Good(v, {}), NEW m \in DOMAIN v.def, NEW n \in DOMAIN v.def, m # n,
         NEW a, Exchanged(v, a, m, n), NEW w, WellTyped(w), BoundedBut(w, {}), SameNames(a, w),
         NEW x \in {m, n}, w.def[x].input = v.def[x].input, Reads(w, x, v.def[x].input, {})
  PROVE  SelfReader(w, x, OtherNode(x, m, n))
<1> DEFINE y == OtherNode(x, m, n)
           s == v.def[x].input
<1>1. /\ v \in Views /\ UniqueNames(v) /\ m \in Ids /\ n \in Ids /\ x \in DOMAIN v.def
      /\ y \in DOMAIN v.def /\ x # y /\ OtherNode(y, m, n) = x
  <2>1. v \in Views /\ UniqueNames(v) /\ DOMAIN v.def \subseteq Ids
    BY ViewParts DEF Good, WellTyped
  <2> QED
    BY <2>1 DEF OtherNode
<1>2. NodeOk(v, x, {})
  BY <1>1 DEF Good
<1>3. \A i \in DOMAIN s : HasNode(v, s[i][1]) /\ GetNode(v, s[i][1]) # x
  BY <1>2 DEF NodeOk, InputsOk, Sound
<1>4. Single(s)
  BY <1>2 DEF NodeOk, InputsOk
<1>5. GetNode(v, v.def[x].name) = x
  BY <1>1, NodeNamed
<1>6. DOMAIN a.def = DOMAIN v.def /\ a.def[y].name = v.def[x].name
  BY <1>1 DEF Exchanged
<1>7. DOMAIN w.def = DOMAIN v.def /\ w.def[y].name = v.def[x].name
  BY <1>1, <1>6 DEF SameNames
<1>8. \A name : HasNode(v, name) => HasNode(a, name)
  BY DEF Exchanged
<1>9. \A name : HasNode(w, name) <=> HasNode(a, name)
  BY SameNode
<1>10. \A i \in DOMAIN s : HasNode(w, s[i][1]) /\ s[i][1] # w.def[y].name
  BY <1>3, <1>5, <1>7, <1>8, <1>9
<1>11. w.def[x].input = s /\ Reads(w, x, s, {})
  OBVIOUS
<1> HIDE DEF y, s
<1> QED
  BY <1>1, <1>4, <1>7, <1>10, <1>11 DEF SelfReader, y

(* After ReadInsteadOfSelf the node reads the other one.                   *)
LEMMA OtherIsRead ==
  ASSUME NEW w, NEW x, NEW y, SelfReader(w, x, y)
  PROVE  LET r == ReadInsteadOfSelf(w, x, y) IN
         /\ WellTyped(r) /\ BoundedBut(r, {}) /\ Frame(w, r, x) /\ SameNames(w, r)
         /\ r.regular = w.regular /\ Reads(r, x, r.def[x].input, {})
         /\ NamesOther(w.def[x].input, r.def[x].input, w.def[x].name, w.def[y].name)
<1> DEFINE r == ReadInsteadOfSelf(w, x, y)
           s == w.def[x].input
           t == r.def[x].input
<1>1. ReadsOther(w, r, x, y, Len(s))
  BY ReadInsteadOfSelfFacts
<1>2. s \in Seq(AnyInput) /\ WellTyped(w)
  BY ViewParts DEF SelfReader, WellTyped
<1>3. \A j \in DOMAIN s : j <= Len(s)
  BY <1>2, LenProperties
<1> HIDE DEF r
<1>4. /\ Editing(w, r, x, t, {}, {}) /\ r.regular = w.regular
      /\ DOMAIN t = DOMAIN s /\ Len(t) = Len(s)
      /\ \A j \in DOMAIN s : t[j] = IF j <= Len(s) /\ s[j][1] = w.def[x].name
                                    THEN <<w.def[y].name, s[j][2]>> ELSE s[j]
  BY <1>1 DEF ReadsOther
<1>5. NamesOther(s, t, w.def[x].name, w.def[y].name)
  <2> DEFINE N == w.def[x].name
             M == w.def[y].name
  <2>1. \A j \in DOMAIN s : t[j] = IF j <= Len(s) /\ s[j][1] = N THEN <<M, s[j][2]>> ELSE s[j]
    BY <1>4
  <2> HIDE DEF s, t, N, M
  <2>2. \A j \in DOMAIN s : t[j] = IF s[j][1] = N THEN <<M, s[j][2]>> ELSE s[j]
    BY <1>3, <2>1
  <2>3. NamesOther(s, t, N, M)
    BY <1>4, <2>2 DEF NamesOther
  <2> QED
    BY <2>3 DEF N, M
<1>6. Frame(w, r, x) /\ BoundedBut(r, {}) /\ Reads(r, x, t, {})
  BY <1>4 DEF Editing
<1>7. WellTyped(r) /\ SameNames(w, r)
  BY <1>2, <1>6, FrameTyped, FrameNames
<1> QED
  BY <1>4, <1>5, <1>6, <1>7 DEF r

(* Names that stay twice stay.                                             *)
LEMMA SameNamesTwice ==
  ASSUME NEW u, NEW v, NEW w, SameNames(u, v), SameNames(v, w)
  PROVE  SameNames(u, w)
  BY DEF SameNames

(* Each of the two reads the other instead of itself.                      *)
LEMMA ApartFacts ==
  ASSUME NEW v, Good(v, {}), NEW m \in DOMAIN v.def, NEW n \in DOMAIN v.def, m # n,
         NEW a, Exchanged(v, a, m, n)
  PROVE  ExchangedSo(v, ReadInsteadOfSelf(ReadInsteadOfSelf(a, m, n), n, m), m, n)
<1> DEFINE b == ReadInsteadOfSelf(a, m, n)
           w == ReadInsteadOfSelf(b, n, m)
<1>1. /\ v \in Views /\ UniqueNames(v) /\ m \in Ids /\ n \in Ids /\ DOMAIN v.def \subseteq Ids
  BY ViewParts DEF Good, WellTyped
<1>2. OtherNode(m, m, n) = n /\ OtherNode(n, m, n) = m
  BY <1>1, OtherNodeFacts
<1>3. /\ WellTyped(a) /\ BoundedBut(a, {}) /\ NoStray(a)
      /\ DOMAIN a.def = DOMAIN v.def /\ a.regular = v.regular
      /\ \A x \in DOMAIN v.def :
           /\ a.def[x].op = v.def[x].op /\ a.def[x].input = v.def[x].input
           /\ a.def[x].name = v.def[OtherNode(x, m, n)].name
           /\ Reads(a, x, v.def[x].input, {})
  BY DEF Exchanged
<1>4. SameNames(a, a) /\ a \in Views
  BY <1>3 DEF SameNames, WellTyped
<1>5. SelfReader(a, m, n)
  BY <1>2, <1>3, <1>4, MaySelfRead
<1>6. /\ WellTyped(b) /\ BoundedBut(b, {}) /\ Frame(a, b, m) /\ SameNames(a, b)
      /\ b.regular = a.regular /\ Reads(b, m, b.def[m].input, {})
      /\ NamesOther(a.def[m].input, b.def[m].input, a.def[m].name, a.def[n].name)
  BY <1>5, OtherIsRead
<1> HIDE DEF b
<1>7. b.def[n] = a.def[n] /\ Reads(b, n, v.def[n].input, {}) /\ b \in Views
  <2>1. Reads(a, n, v.def[n].input, {})
    BY <1>3
  <2>2. Reads(b, n, v.def[n].input, {})
    BY <1>1, <1>4, <1>6, <2>1, FrameReads
  <2> QED
    BY <1>3, <1>6, <2>2 DEF Frame, WellTyped
<1>8. SelfReader(b, n, m)
  <2>1. b.def[n].input = v.def[n].input
    BY <1>3, <1>7
  <2> QED
    BY <1>2, <1>6, <1>7, <2>1, MaySelfRead
<1>9. /\ WellTyped(w) /\ BoundedBut(w, {}) /\ Frame(b, w, n) /\ SameNames(b, w)
      /\ w.regular = b.regular /\ Reads(w, n, w.def[n].input, {})
      /\ NamesOther(b.def[n].input, w.def[n].input, b.def[n].name, b.def[m].name)
  BY <1>8, OtherIsRead
<1> HIDE DEF w
<1>10. SameNames(a, w)
  BY <1>6, <1>9, SameNamesTwice
<1>11. NoStray(w)
  <2>1. NoStray(b)
    BY <1>3, <1>6, FrameStray
  <2>2. n \in DOMAIN b.def
    BY <1>3, <1>6 DEF Frame
  <2> QED
    BY <1>9, <2>1, <2>2, FrameStray
<1>12. DOMAIN w.def = DOMAIN v.def /\ \A x \in DOMAIN v.def : w.def[x].op = v.def[x].op
  BY <1>3, <1>6, <1>9 DEF Frame
<1>13. SourcesExchanged(v, w, m, n, n)
  <2>1. NamesOther(v.def[n].input, w.def[n].input, v.def[m].name, v.def[n].name)
    <3>1. b.def[n].input = v.def[n].input /\ b.def[n].name = v.def[m].name
      BY <1>2, <1>3, <1>7
    <3>2. b.def[m].name = v.def[n].name
      BY <1>2, <1>3, <1>6 DEF SameNames
    <3> QED
      BY <1>9, <3>1, <3>2
  <2>2. w.regular[n] = v.regular[n]
    BY <1>3, <1>6, <1>9
  <2> QED
    BY <1>2, <1>9, <1>10, <2>1, <2>2, ReadsAsBefore
<1>14. SourcesExchanged(v, w, m, n, m)
  <2>1. w.def[m] = b.def[m]
    BY <1>3, <1>6, <1>9 DEF Frame
  <2>2. NamesOther(v.def[m].input, w.def[m].input, v.def[n].name, v.def[m].name)
    <3>1. a.def[m].input = v.def[m].input /\ a.def[m].name = v.def[n].name /\ a.def[n].name = v.def[m].name
      BY <1>2, <1>3
    <3> QED
      BY <1>6, <2>1, <3>1
  <2>3. Reads(w, m, w.def[m].input, {})
    BY <1>1, <1>6, <1>7, <1>9, <2>1, FrameReads
  <2>4. w.regular[m] = v.regular[m]
    BY <1>3, <1>6, <1>9
  <2> QED
    BY <1>2, <1>10, <2>2, <2>3, <2>4, ReadsAsBefore
<1>15. ASSUME NEW x \in DOMAIN v.def \ {m, n} PROVE SourcesExchanged(v, w, m, n, x)
  <2>1. w.def[x].input = v.def[x].input
    BY <1>3, <1>6, <1>9 DEF Frame
  <2>2. Reads(b, x, v.def[x].input, {})
    BY <1>1, <1>3, <1>4, <1>6, FrameReads
  <2>3. Reads(w, x, v.def[x].input, {})
    BY <1>1, <1>7, <1>9, <2>2, FrameReads
  <2>4. w.regular[x] = v.regular[x]
    BY <1>3, <1>6, <1>9
  <2> QED
    BY <1>10, <2>1, <2>3, <2>4, ReadsTheOther
<1>16. \A x \in DOMAIN v.def : SourcesExchanged(v, w, m, n, x)
  BY <1>13, <1>14, <1>15
<1>17. ExchangedSo(v, w, m, n)
  BY <1>9, <1>11, <1>12, <1>16 DEF ExchangedSo
<1> QED
  BY <1>17 DEF w, b

-----------------------------------------------------------------------------
(* The controls that are redundant after SwapNodes.                        *)

(* Nobody waits for a Switch.                                              *)
LEMMA SwitchNotAwaited ==
  ASSUME NEW v, NEW X, Good(v, X), NEW f \in DOMAIN v.def, IsSwitch(v, f)
  PROVE  GetFanout(v, <<f, Control>>) = {}
<1>1. /\ v \in Views /\ GetFanout(v, <<f, Control>>) \in SUBSET Ends
      /\ DOMAIN v.def \subseteq Ids
  BY ViewParts DEF Good, WellTyped
<1> DEFINE port == <<f, Control>>
<1>2. port \in Ends
  BY <1>1 DEF Ends, Slots
<1>3. ASSUME NEW to \in GetFanout(v, port) PROVE FALSE
  <2>1. PICK x \in Ids, at \in Slots : to = <<x, at>>
    BY <1>1 DEF Ends
  <2>2. x \in DOMAIN v.def
    BY <1>1, <1>2, <1>3, <2>1 DEF Good, NoStray
  <2> DEFINE s == v.def[x].input
  <2>3. /\ Reads(v, x, s, {}) /\ Sound(v, x, s, v.regular[x])
    BY <2>2 DEF Good, NodeOk, InputsOk
  <2>4. s \in Seq(AnyInput)
    BY <1>1, <2>2, ViewParts
  <2> HIDE DEF port
  <2>5. \E i \in DOMAIN s \ {} : OutputPort(v, s[i]) = port /\ at = Slot(s[i], i)
    <3> HIDE DEF s
    <3> QED
      BY <1>2, <1>3, <2>1, <2>3 DEF Reads
  <2>6. PICK i \in DOMAIN s : OutputPort(v, s[i]) = port
    BY <2>5
  <2>7. HasNode(v, s[i][1]) /\ (s[i][2] = Control => ~IsSwitch(v, GetNode(v, s[i][1])))
    BY <2>3 DEF Sound
  <2>8. OutputPort(v, s[i])[1] = GetNode(v, s[i][1]) /\ OutputPort(v, s[i])[2] = s[i][2]
    BY <1>1, <2>4, <2>7, InputFacts
  <2>9. port[1] = f /\ port[2] = Control
    BY DEF port
  <2> QED
    BY <2>6, <2>7, <2>8, <2>9
<1> QED
  BY <1>3

(* A function holds what DedupSwitchControl has after each node.           *)
DedupSwitchControlSteps(v, n, run) ==
  /\ run[0] = v
  /\ \A k \in 1..MaxNodes : run[k] = IF k \in {e[2][1] : e \in GetFanoutEdges(v, n)} THEN DedupControlFanouts(run[k - 1], k) ELSE run[k - 1]
  /\ DedupSwitchControl(v, n) = run[MaxNodes]

(* Such a function there is.                                               *)
LEMMA DedupSwitchControlLoop ==
  ASSUME NEW v, NEW n
  PROVE  \E run : DedupSwitchControlSteps(v, n, run)
<1> DEFINE L == MaxNodes
           After(x, k) == IF k \in {e[2][1] : e \in GetFanoutEdges(v, n)} THEN DedupControlFanouts(x, k) ELSE x
           Loop(g, m) == g = [k \in 0..m |-> IF k = 0 THEN v ELSE After(g[k - 1], k)]
           P == {m \in 0..L : \E g : Loop(g, m)}
<1>0. L \in Nat
  BY BoundsAssumption
<1>1. 0 \in P
  <2> DEFINE g == [k \in 0..0 |-> v]
  <2>1. Loop(g, 0)
    OBVIOUS
  <2> HIDE DEF g, Loop, L
  <2> QED
    BY <2>1, <1>0
<1>2. ASSUME NEW m \in 1..L, m - 1 \in P PROVE m \in P
  <2>1. PICK g : Loop(g, m - 1)
    BY <1>2
  <2> HIDE DEF After, L, P
  <2> DEFINE y == After(g[m - 1], m)
             h == [k \in 0..m |-> IF k = m THEN y ELSE g[k]]
  <2>0. m \in Nat /\ m # 0 /\ m - 1 \in 0..(m - 1)
    BY <1>0
  <2>2. h[m] = y /\ \A k \in 0..(m - 1) : h[k] = g[k]
    BY <2>0
  <2>3. \A k \in 0..(m - 1) : k # 0 => k - 1 \in 0..(m - 1)
    BY <2>0
  <2>4. \A k \in 0..m : k \in 0..(m - 1) \/ k = m
    BY <2>0
  <2>5. \A k \in 0..m : h[k] = IF k = 0 THEN v ELSE After(h[k - 1], k)
    <3> HIDE DEF h
    <3>1. \A k \in 0..(m - 1) : h[k] = IF k = 0 THEN v ELSE After(h[k - 1], k)
      BY <2>1, <2>2, <2>3
    <3>2. h[m] = After(h[m - 1], m)
      BY <2>0, <2>2
    <3> QED
      BY <2>0, <2>4, <3>1, <3>2
  <2>6. Loop(h, m)
    BY <2>5
  <2> HIDE DEF h, Loop
  <2> QED
    BY <2>6 DEF P
<1>3. L \in P
  <2> HIDE DEF P
  <2>1. P \in SUBSET (0..L)
    BY DEF P
  <2>2. P = 0..L
    <3> HIDE DEF L
    <3> QED
      BY <1>0, <1>1, <1>2, <2>1, Throughout
  <2> QED
    BY <1>0, <2>2
<1> DEFINE F == CHOOSE h : Loop(h, L)
<1>4. Loop(F, L)
  <2> HIDE DEF Loop
  <2>1. \E g : Loop(g, L)
    BY <1>3
  <2> HIDE DEF P
  <2> QED
    BY <2>1
<1>5. DedupSwitchControl(v, n) = F[MaxNodes]
  BY DEF DedupSwitchControl
<1> HIDE DEF F
<1>6. \A k \in 0..MaxNodes : F[k] = IF k = 0 THEN v ELSE IF k \in {e[2][1] : e \in GetFanoutEdges(v, n)} THEN DedupControlFanouts(F[k - 1], k) ELSE F[k - 1]
  BY <1>4
<1>7. \A k \in 1..MaxNodes : k \in 0..MaxNodes /\ k # 0
  BY <1>0
<1>8. 0 \in 0..MaxNodes
  BY <1>0
<1>9. DedupSwitchControlSteps(v, n, F)
  BY <1>5, <1>6, <1>7, <1>8 DEF DedupSwitchControlSteps
<1> QED
  BY <1>9

(* The edges of a node end at nodes there are.                             *)
LEMMA EdgesReachNodes ==
  ASSUME NEW v, NEW X, Good(v, X), NEW n \in DOMAIN v.def, NEW e \in GetFanoutEdges(v, n)
  PROVE  e[2][1] \in DOMAIN v.def
<1>1. /\ v \in Views /\ DOMAIN v.def \subseteq Ids /\ NoStray(v)
      /\ \A f \in DOMAIN v.max_out : v.max_out[f] \in Nat
  BY ViewParts DEF Good, WellTyped
<1>2. e[1] \in 0..At(v.max_out, n, -1) /\ e[2] \in GetFanout(v, <<n, e[1]>>)
  BY DEF GetFanoutEdges
<1>3. e[1] \in Nat
  BY <1>1, <1>2 DEF At
<1>4. <<n, e[1]>> \in Ends
  BY <1>1, <1>3 DEF Ends, Slots
<1>5. GetFanout(v, <<n, e[1]>>) \in SUBSET Ends
  BY <1>1, ViewParts
<1> QED
  BY <1>1, <1>2, <1>4, <1>5 DEF NoStray

(* Nothing is exempt, and the nodes are the same.                          *)
AsGood(v, w, X) == Good(w, X) /\ SameNodes(v, w)

(* DedupControlFanouts exempts one node less.                              *)
LEMMA DedupControlsGood ==
  ASSUME NEW v, NEW w, NEW X, AsGood(v, w, X), NEW f \in DOMAIN v.def
  PROVE  AsGood(v, DedupControlFanouts(w, f), X \ {f})
<1> DEFINE z == DedupControlFanouts(w, f)
<1>1. Good(w, X) /\ SameNodes(v, w) /\ f \in DOMAIN w.def
  BY DEF AsGood, SameNodes
<1>2. Good(z, X \ {f}) /\ SameNodes(w, z)
  BY <1>1, DedupControlFanoutsFacts
<1> HIDE DEF z
<1>3. SameNodes(v, z)
  BY <1>1, <1>2 DEF SameNodes
<1>4. AsGood(v, z, X \ {f})
  BY <1>2, <1>3 DEF AsGood
<1> QED
  BY <1>4 DEF z

(* DedupSwitchControl keeps a good view good.                              *)
LEMMA DedupSwitchControlGood ==
  ASSUME NEW v, Good(v, {}), NEW n \in DOMAIN v.def
  PROVE  AsGood(v, DedupSwitchControl(v, n), {})
<1> DEFINE readers == {e[2][1] : e \in GetFanoutEdges(v, n)}
           E == {}
<1>1. PICK g : DedupSwitchControlSteps(v, n, g)
  BY DedupSwitchControlLoop
<1>2. /\ g[0] = v
      /\ \A i \in 1..MaxNodes : g[i] = IF i \in readers THEN DedupControlFanouts(g[i - 1], i)
                                       ELSE g[i - 1]
      /\ DedupSwitchControl(v, n) = g[MaxNodes]
  BY <1>1 DEF DedupSwitchControlSteps
<1>3. readers \subseteq DOMAIN v.def
  BY EdgesReachNodes
<1>4. MaxNodes \in Nat
  BY BoundsAssumption
<1>5. \A f : E \ {f} = E
  OBVIOUS
<1> DEFINE P == {i \in 0..MaxNodes : AsGood(v, g[i], E)}
<1>6. 0 \in P
  <2>1. SameNodes(v, v)
    BY DEF SameNodes
  <2> QED
    BY <1>2, <1>4, <2>1 DEF AsGood
<1> HIDE DEF E, readers
<1>7. ASSUME NEW i \in 1..MaxNodes, i - 1 \in P PROVE i \in P
  <2>1. AsGood(v, g[i - 1], E) /\ i \in 0..MaxNodes
    BY <1>4, <1>7
  <2>2. CASE i \in readers
    <3>1. AsGood(v, DedupControlFanouts(g[i - 1], i), E)
      BY <1>3, <1>5, <2>1, <2>2, DedupControlsGood
    <3> QED
      BY <1>2, <2>1, <2>2, <3>1
  <2>3. CASE i \notin readers
    BY <1>2, <2>1, <2>3
  <2> QED
    BY <2>2, <2>3
<1> HIDE DEF P
<1>8. MaxNodes \in P
  <2>1. P \in SUBSET (0..MaxNodes)
    BY DEF P
  <2>2. P = 0..MaxNodes
    BY <1>4, <1>6, <1>7, <2>1, Throughout
  <2> QED
    BY <1>4, <2>2
<1> QED
  BY <1>2, <1>8 DEF P, E

(* Settle exempts one node less.                                           *)
LEMMA SettleGood ==
  ASSUME NEW v, NEW w, NEW X, AsGood(v, w, X), NEW x \in DOMAIN v.def,
         NEW was \in BOOLEAN, NEW other \in BOOLEAN, was \/ other => X = {}
  PROVE  AsGood(v, Settle(w, x, was, other), X \ {x})
<1>1. CASE was
  <2>1. Settle(w, x, was, other) = w /\ X \ {x} = X
    BY <1>1 DEF Settle
  <2> QED
    BY <2>1
<1>2. CASE ~was /\ other
  <2>1. Settle(w, x, was, other) = DedupSwitchControl(w, x)
    BY <1>2 DEF Settle
  <2>2. X = {} /\ X \ {x} = {}
    BY <1>2
  <2>3. Good(w, {}) /\ SameNodes(v, w) /\ x \in DOMAIN w.def
    BY <2>2 DEF AsGood, SameNodes
  <2>4. AsGood(w, DedupSwitchControl(w, x), {})
    BY <2>3, DedupSwitchControlGood
  <2>5. AsGood(v, DedupSwitchControl(w, x), {})
    BY <2>3, <2>4 DEF AsGood, SameNodes
  <2> QED
    BY <2>1, <2>2, <2>5
<1>3. CASE ~was /\ ~other
  <2>1. Settle(w, x, was, other) = DedupControlFanouts(w, x)
    BY <1>3 DEF Settle
  <2> QED
    BY <2>1, DedupControlsGood
<1> QED
  BY <1>1, <1>2, <1>3

(* Two nodes change names and fanouts.                                     *)
LEMMA SwapNodesGood ==
  ASSUME NEW v, Good(v, {}), NEW m \in DOMAIN v.def, NEW n \in DOMAIN v.def, m # n,
         v.def[m].name \in Names, v.def[n].name \in Names, NothingLost(v, m, n),
         IsSwitch(v, m) => GetFanout(v, <<n, Control>>) = {},
         IsSwitch(v, n) => GetFanout(v, <<m, Control>>) = {}
  PROVE  Good(SwapNodes(v, m, n), {})
<1> DEFINE a == SwapFanoutsAndMaxPortValues(SwapNames(v, m, n), m, n)
           w == ReadInsteadOfSelf(ReadInsteadOfSelf(a, m, n), n, m)
           X == IF IsSwitch(v, m) \/ IsSwitch(v, n) THEN {} ELSE {m, n}
           mWas == IsSwitch(v, m)
           nWas == IsSwitch(v, n)
<1>1. Exchanged(v, a, m, n)
  BY ExchangeFacts
<1>2. SwapNodes(v, m, n) = Settle(Settle(w, m, mWas, nWas), n, nWas, mWas)
  BY DEF SwapNodes
<1> HIDE DEF a
<1>3. ExchangedSo(v, w, m, n)
  BY <1>1, ApartFacts
<1> HIDE DEF w
<1>4. \/ m \in X /\ n \in X
      \/ GetFanout(v, <<m, Control>>) = {} /\ GetFanout(v, <<n, Control>>) = {}
  <2>1. CASE IsSwitch(v, m)
    BY <2>1, SwitchNotAwaited
  <2>2. CASE IsSwitch(v, n)
    BY <2>2, SwitchNotAwaited
  <2>3. CASE ~(IsSwitch(v, m) \/ IsSwitch(v, n))
    BY <2>3
  <2> QED
    BY <2>1, <2>2, <2>3
<1>5. (mWas \/ nWas => X = {}) /\ (X \ {m}) \ {n} = {} /\ (X = {} => X \ {m} = {})
  OBVIOUS
<1>6. mWas \in BOOLEAN /\ nWas \in BOOLEAN
  BY DEF IsSwitch
<1> HIDE DEF X
<1>7. Good(w, X)
  BY <1>3, <1>4, ExchangedGood
<1> HIDE DEF mWas, nWas
<1>8. AsGood(w, w, X) /\ m \in DOMAIN w.def /\ n \in DOMAIN w.def
  BY <1>3, <1>7 DEF AsGood, SameNodes, ExchangedSo
<1> DEFINE y == Settle(w, m, mWas, nWas)
           z == Settle(y, n, nWas, mWas)
           Y == X \ {m}
<1>9. AsGood(w, y, Y)
  BY <1>5, <1>6, <1>8, SettleGood
<1>10. nWas \/ mWas => Y = {}
  BY <1>5
<1>11. Y \ {n} = {}
  BY <1>5
<1> HIDE DEF y, Y
<1>12. AsGood(w, z, Y \ {n})
  BY <1>6, <1>8, <1>9, <1>10, SettleGood
<1> HIDE DEF z
<1>13. Good(z, {})
  BY <1>11, <1>12 DEF AsGood
<1> QED
  BY <1>2, <1>13 DEF y, z

-----------------------------------------------------------------------------
(* UpdateFanouts: regular edges.                                           *)

(* GetFanoutEdges finds the readers of every port.                         *)
LEMMA EdgesFound ==
  ASSUME NEW v \in Views, BoundedBut(v, {}), NEW f \in Ids
  PROVE  /\ \A e \in GetFanoutEdges(v, f) :
              e[1] \in Nat /\ e[2] \in GetFanout(v, <<f, e[1]>>) /\ e = <<e[1], e[2]>>
              /\ f \in DOMAIN v.max_out /\ e[1] <= v.max_out[f]
         /\ \A p \in Nat : \A r \in GetFanout(v, <<f, p>>) : <<p, r>> \in GetFanoutEdges(v, f)
<1>1. \A g \in DOMAIN v.max_out : v.max_out[g] \in Nat
  BY ViewParts
<1>2. ASSUME NEW e \in GetFanoutEdges(v, f)
      PROVE  /\ e[1] \in Nat /\ e[2] \in GetFanout(v, <<f, e[1]>>) /\ e = <<e[1], e[2]>>
             /\ f \in DOMAIN v.max_out /\ e[1] <= v.max_out[f]
  <2>1. e[1] \in 0..At(v.max_out, f, -1) /\ e[2] \in GetFanout(v, <<f, e[1]>>) /\ e = <<e[1], e[2]>>
    BY DEF GetFanoutEdges
  <2>2. f \in DOMAIN v.max_out
    BY <2>1 DEF At
  <2>3. At(v.max_out, f, -1) = v.max_out[f] /\ v.max_out[f] \in Nat
    BY <1>1, <2>2 DEF At
  <2> QED
    BY <2>1, <2>2, <2>3
<1>3. ASSUME NEW p \in Nat, NEW r \in GetFanout(v, <<f, p>>)
      PROVE  <<p, r>> \in GetFanoutEdges(v, f)
  <2>1. f \in DOMAIN v.max_out /\ p <= v.max_out[f]
    BY <1>3 DEF BoundedBut
  <2>2. p \in 0..At(v.max_out, f, -1)
    BY <2>1, <1>1, <1>3 DEF At
  <2>3. <<f, p>> \in DOMAIN v.fanouts
    BY <1>3 DEF GetFanout, At
  <2> QED
    BY <1>3, <2>2, <2>3 DEF GetFanoutEdges
<1> QED
  BY <1>2, <1>3

(* Input i of x moves from one node to the other.                          *)
Moved(v, x, i, from, to) ==
  /\ x # to /\ v.def[x].input[i][2] # Control
  /\ GetNode(v, v.def[x].input[i][1]) = from

(* The edges that move.                                                    *)
Moving(v, from, to) == {e \in GetFanoutEdges(v, from) : e[2][1] # to}

(* The inputs name the new node,                                           *)
InputsFollow(v, w, from, to) ==
  \A x \in DOMAIN v.def :
    LET s == v.def[x].input
        t == w.def[x].input
    IN  /\ t \in Seq(AnyInput) /\ DOMAIN t = DOMAIN s /\ Len(t) = Len(s)
        /\ \A i \in DOMAIN s : t[i] = IF Moved(v, x, i, from, to)
                                      THEN <<v.def[to].name, s[i][2]>> ELSE s[i]

(* and are fanouts of the new node.                                        *)
FanoutsFollow(v, w, from, to) ==
  \A f \in Ids, p \in Slots, x \in Ids, at \in Slots :
    <<x, at>> \in GetFanout(w, <<f, p>>) <=>
      IF p # Control /\ x # to /\ f \in {from, to}
      THEN /\ f = to
           /\ <<x, at>> \in GetFanout(v, <<to, p>>) \/ <<x, at>> \in GetFanout(v, <<from, p>>)
      ELSE <<x, at>> \in GetFanout(v, <<f, p>>)

(* The edges have moved, and nothing else has changed.                     *)
EdgesMoved(v, w, from, to) ==
  /\ w \in Views /\ SameNodes(v, w) /\ w.regular = v.regular
  /\ InputsFollow(v, w, from, to) /\ FanoutsFollow(v, w, from, to)

(* An input moves if there is an edge for it, and then from its port.      *)
OneEdge(v, x, i, from, to) ==
  /\ \A e \in Moving(v, from, to) : e[2] = <<x, i>> =>
       Moved(v, x, i, from, to) /\ e[1] = v.def[x].input[i][2]
  /\ Moved(v, x, i, from, to) => \E e \in Moving(v, from, to) : e[2] = <<x, i>>

(* The edge there is for an input that moves, and only for one.            *)
LEMMA MovingInputs ==
  ASSUME NEW v, Good(v, {}), NEW from \in DOMAIN v.def, NEW to \in DOMAIN v.def,
         NEW x \in DOMAIN v.def, NEW i \in DOMAIN v.def[x].input
  PROVE  OneEdge(v, x, i, from, to)
<1> DEFINE s == v.def[x].input
           k == v.regular[x]
<1>1. /\ v \in Views /\ BoundedBut(v, {}) /\ from \in Ids /\ s \in Seq(AnyInput) /\ k \in Nat
  BY ViewParts DEF Good, WellTyped
<1>2. /\ k <= Len(s) /\ (i <= k <=> s[i][2] # Control) /\ i \in 1..Len(s) /\ i \in Nat
  <2>1. Sound(v, x, s, k)
    BY DEF Good, NodeOk, InputsOk
  <2> QED
    BY <1>1, <2>1, LenProperties DEF Sound
<1>3. ASSUME NEW e \in Moving(v, from, to), e[2] = <<x, i>>
      PROVE  Moved(v, x, i, from, to) /\ e[1] = s[i][2]
  <2>1. e \in GetFanoutEdges(v, from) /\ e[2][1] # to
    BY DEF Moving
  <2>2. e = <<e[1], <<x, i>>>>
    BY <1>1, <1>3, <2>1, EdgesFound
  <2>3. <<e[1], <<x, i>>>> \in GetFanoutEdges(v, from)
    BY <2>1, <2>2
  <2>4. i \in 1..k /\ s[i][2] = e[1] /\ GetNode(v, s[i][1]) = from
    BY <2>3, EdgesAreInputs
  <2>5. x # to
    BY <1>3, <2>1
  <2> QED
    BY <1>2, <2>4, <2>5 DEF Moved
<1>4. ASSUME Moved(v, x, i, from, to)
      PROVE  \E e \in Moving(v, from, to) : e[2] = <<x, i>>
  <2>1. x # to /\ s[i][2] # Control /\ GetNode(v, s[i][1]) = from
    BY <1>4 DEF Moved
  <2>2. i \in 1..k
    BY <1>1, <1>2, <2>1
  <2> DEFINE q == s[i][2]
  <2>3. <<q, <<x, i>>>> \in GetFanoutEdges(v, from)
    BY <2>1, <2>2, EdgesAreInputs
  <2>4. <<q, <<x, i>>>> \in Moving(v, from, to)
    BY <2>1, <2>3 DEF Moving
  <2> QED
    BY <2>4
<1> QED
  BY <1>3, <1>4 DEF OneEdge

(* MoveEdges, input by input and reader by reader.                         *)
LEMMA MoveEdgesFacts ==
  ASSUME NEW v, Good(v, {}), NEW from \in DOMAIN v.def, NEW to \in DOMAIN v.def, from # to
  PROVE  LET w == MoveEdges(v, from, to, Moving(v, from, to)) IN
         EdgesMoved(v, w, from, to) /\ w.max_out = v.max_out
<1> DEFINE moving == Moving(v, from, to)
           Readers(i) == {e[2] : e \in {d \in moving : d[1] = i}}
           Edge(n, i) == CHOOSE e \in moving : e[2] = <<n, i>>
           F == [p \in DOMAIN v.fanouts \cup {<<to, e[1]>> : e \in moving} |->
                   IF p[1] = from THEN v.fanouts[p] \ Readers(p[2])
                   ELSE IF p[1] = to THEN At(v.fanouts, p, {}) \cup Readers(p[2])
                   ELSE v.fanouts[p]]
           y == [v EXCEPT !.fanouts = F]
           I == [n \in DOMAIN v.def |->
                   [i \in DOMAIN v.def[n].input |->
                      IF \E e \in moving : e[2] = <<n, i>>
                      THEN <<v.def[to].name, Edge(n, i)[1]>>
                      ELSE v.def[n].input[i]]]
           w == MoveEdges(v, from, to, moving)
<1>1. w = WithInputs(y, I)
  BY DEF MoveEdges
<1>2. /\ v \in Views /\ BoundedBut(v, {}) /\ from \in Ids /\ to \in Ids
      /\ v.fanouts \in Partial(Ends, SUBSET Ends)
      /\ \A port : GetFanout(v, port) \in SUBSET Ends
      /\ v.def[to].name \in AllNames
  BY ViewParts DEF Good, WellTyped
<1>3. /\ DOMAIN v.fanouts \in SUBSET Ends
      /\ \A port \in DOMAIN v.fanouts : v.fanouts[port] \in SUBSET Ends
  BY <1>2, PartialDef
<1>4. \A e \in moving : e[1] \in Nat /\ e[2] \in GetFanout(v, <<from, e[1]>>) /\ e = <<e[1], e[2]>>
                        /\ e[2][1] # to
  BY <1>2, EdgesFound DEF Moving
<1>5. \A p \in Nat : \A r \in GetFanout(v, <<from, p>>) : r[1] # to => <<p, r>> \in moving
  BY <1>2, EdgesFound DEF Moving
<1>6. \A n \in DOMAIN v.def : \A i \in DOMAIN v.def[n].input :
        /\ \A e \in moving : e[2] = <<n, i>> =>
             Moved(v, n, i, from, to) /\ e[1] = v.def[n].input[i][2]
        /\ Moved(v, n, i, from, to) => \E e \in moving : e[2] = <<n, i>>
  <2> TAKE n \in DOMAIN v.def
  <2> TAKE i \in DOMAIN v.def[n].input
  <2>1. OneEdge(v, n, i, from, to)
    BY MovingInputs
  <2> QED
    BY <2>1 DEF OneEdge
<1>7. \A p, r : r \in Readers(p) <=> p \in Nat /\ r \in GetFanout(v, <<from, p>>) /\ r[1] # to
  <2> TAKE p, r
  <2>1. ASSUME r \in Readers(p) PROVE p \in Nat /\ r \in GetFanout(v, <<from, p>>) /\ r[1] # to
    <3>1. PICK e \in moving : e[1] = p /\ e[2] = r
      BY <2>1
    <3> HIDE DEF moving
    <3> QED
      BY <1>4, <3>1
  <2>2. ASSUME p \in Nat, r \in GetFanout(v, <<from, p>>), r[1] # to PROVE r \in Readers(p)
    <3>1. <<p, r>> \in moving
      BY <1>5, <2>2
    <3> HIDE DEF moving
    <3> QED
      BY <3>1
  <2> QED
    BY <2>1, <2>2
<1>8. \A p : <<to, p>> \in {<<to, e[1]>> : e \in moving} <=> Readers(p) # {}
  <2> TAKE p
  <2> HIDE DEF moving
  <2>1. ASSUME <<to, p>> \in {<<to, e[1]>> : e \in moving} PROVE Readers(p) # {}
    <3>1. PICK e \in moving : <<to, p>> = <<to, e[1]>>
      BY <2>1
    <3>2. e[2] \in Readers(p)
      BY <3>1
    <3> QED
      BY <3>2
  <2>2. ASSUME Readers(p) # {} PROVE <<to, p>> \in {<<to, e[1]>> : e \in moving}
    <3>1. PICK r : r \in Readers(p)
      BY <2>2
    <3>2. PICK e \in moving : e[1] = p
      BY <3>1
    <3> QED
      BY <3>2
  <2> QED
    BY <2>1, <2>2
<1>9. {<<to, e[1]>> : e \in moving} \subseteq Ends /\ \A p : Readers(p) \in SUBSET Ends
  <2>1. \A p : Readers(p) \in SUBSET Ends
    <3> HIDE DEF Readers
    <3> QED
      BY <1>2, <1>7
  <2>2. {<<to, e[1]>> : e \in moving} \subseteq Ends
    <3> HIDE DEF moving
    <3>1. \A e \in moving : <<to, e[1]>> \in Ends
      BY <1>2, <1>4 DEF Ends, Slots
    <3> QED
      BY <3>1
  <2> QED
    BY <2>1, <2>2
<1> HIDE DEF Readers
<1>10. /\ DOMAIN F = DOMAIN v.fanouts \cup {<<to, e[1]>> : e \in moving}
       /\ \A p \in DOMAIN F : F[p] = IF p[1] = from THEN v.fanouts[p] \ Readers(p[2])
                   ELSE IF p[1] = to THEN At(v.fanouts, p, {}) \cup Readers(p[2])
                   ELSE v.fanouts[p]
  OBVIOUS
<1>11. \A f, p : <<f, p>> \in DOMAIN F <=> <<f, p>> \in DOMAIN v.fanouts \/ (f = to /\ Readers(p) # {})
  <2>1. \A f, p : <<f, p>> \in {<<to, e[1]>> : e \in moving} => f = to
    OBVIOUS
  <2> HIDE DEF F, moving
  <2> QED
    BY <1>8, <1>10, <2>1
<1> HIDE DEF moving, F
<1>12. \A f, p : At(F, <<f, p>>, {}) =
                   IF f = from THEN GetFanout(v, <<f, p>>) \ Readers(p)
                   ELSE IF f = to THEN GetFanout(v, <<f, p>>) \cup Readers(p)
                   ELSE GetFanout(v, <<f, p>>)
  <2> TAKE f, p
  <2>1. <<f, p>>[1] = f /\ <<f, p>>[2] = p
    OBVIOUS
  <2>2. CASE f = from
    BY <1>10, <1>11, <2>1, <2>2 DEF At, GetFanout
  <2>3. CASE f = to
    BY <1>10, <1>11, <2>1, <2>3 DEF At, GetFanout
  <2>4. CASE f # from /\ f # to
    BY <1>10, <1>11, <2>1, <2>4 DEF At, GetFanout
  <2> QED
    BY <2>2, <2>3, <2>4
<1>13. F \in Partial(Ends, SUBSET Ends)
  <2>1. DOMAIN F \in SUBSET Ends
    BY <1>3, <1>9, <1>10
  <2>2. \A p \in DOMAIN F : F[p] \in SUBSET Ends
    <3> TAKE p \in DOMAIN F
    <3>1. At(v.fanouts, p, {}) \in SUBSET Ends /\ Readers(p[2]) \in SUBSET Ends
      BY <1>3, <1>9 DEF At
    <3>2. F[p] = IF p[1] = from THEN v.fanouts[p] \ Readers(p[2])
                   ELSE IF p[1] = to THEN At(v.fanouts, p, {}) \cup Readers(p[2])
                   ELSE v.fanouts[p]
      BY <1>10
    <3>3. CASE p[1] = to
      BY <3>1, <3>2, <3>3
    <3>4. CASE p[1] # to
      <4>1. p \in DOMAIN v.fanouts
        <5>1. \A z \in {<<to, e[1]>> : e \in moving} : z[1] = to
          OBVIOUS
        <5> QED
          BY <1>10, <3>4, <5>1
      <4> QED
        BY <1>3, <3>2, <3>4, <4>1
    <3> QED
      BY <3>3, <3>4
  <2>3. F = [p \in DOMAIN F |-> F[p]]
    BY DEF F
  <2>4. F \in [DOMAIN F -> SUBSET Ends]
    BY <2>2, <2>3
  <2> QED
    BY <2>1, <2>4, PartialDef
<1>14. /\ y \in Views /\ y.def = v.def /\ y.regular = v.regular /\ y.max_out = v.max_out
       /\ y.fanouts = F
  BY <1>2, <1>13 DEF Views
<1> HIDE DEF y
<1>15. \A n \in DOMAIN v.def : /\ I[n] \in Seq(AnyInput) /\ DOMAIN I[n] = DOMAIN v.def[n].input
                               /\ Len(I[n]) = Len(v.def[n].input)
                               /\ \A i \in DOMAIN v.def[n].input :
                                    I[n][i] = IF Moved(v, n, i, from, to)
                                              THEN <<v.def[to].name, v.def[n].input[i][2]>>
                                              ELSE v.def[n].input[i]
  <2> TAKE n \in DOMAIN v.def
  <2> DEFINE s == v.def[n].input
             t == I[n]
  <2>1. s \in Seq(AnyInput) /\ \A i \in DOMAIN s : s[i] \in AnyInput /\ s[i][2] \in AnyPort
    <3>1. s \in Seq(AnyInput)
      BY <1>2, ViewParts
    <3> QED
      BY <1>2, <3>1, InputFacts
  <2>2. t = [i \in DOMAIN s |-> IF \E e \in moving : e[2] = <<n, i>>
                                THEN <<v.def[to].name, Edge(n, i)[1]>> ELSE s[i]]
    OBVIOUS
  <2>3. ASSUME NEW i \in DOMAIN s
        PROVE  t[i] = IF Moved(v, n, i, from, to) THEN <<v.def[to].name, s[i][2]>> ELSE s[i]
    <3>1. /\ \A e \in moving : e[2] = <<n, i>> =>
               Moved(v, n, i, from, to) /\ e[1] = s[i][2]
          /\ Moved(v, n, i, from, to) => \E e \in moving : e[2] = <<n, i>>
      BY <1>6
    <3>2. t[i] = IF \E e \in moving : e[2] = <<n, i>>
                 THEN <<v.def[to].name, Edge(n, i)[1]>> ELSE s[i]
      OBVIOUS
    <3> HIDE DEF t, s
    <3>3. CASE \E e \in moving : e[2] = <<n, i>>
      <4>1. Edge(n, i) \in moving /\ Edge(n, i)[2] = <<n, i>>
        BY <3>3
      <4> HIDE DEF Edge
      <4>2. Edge(n, i)[1] = s[i][2] /\ Moved(v, n, i, from, to)
        BY <3>1, <4>1
      <4> QED
        BY <3>2, <3>3, <4>2
    <3>4. CASE ~\E e \in moving : e[2] = <<n, i>>
      BY <3>1, <3>2, <3>4
    <3> QED
      BY <3>3, <3>4
  <2>4. t = [i \in DOMAIN s |-> t[i]]
    BY <2>2
  <2> HIDE DEF t
  <2>5. \A i \in DOMAIN s : t[i] \in AnyInput
    <3> HIDE DEF s
    <3> TAKE i \in DOMAIN s
    <3>1. s[i] \in AnyInput /\ <<v.def[to].name, s[i][2]>> \in AnyInput
      BY <1>2, <2>1 DEF AnyInput
    <3> QED
      BY <2>3, <3>1
  <2>6. t \in Seq(AnyInput) /\ DOMAIN t = DOMAIN s /\ Len(t) = Len(s)
    <3> HIDE DEF s, I
    <3>1. s \in Seq(AnyInput)
      BY <2>1
    <3> QED
      BY <3>1, <2>4, <2>5, SeqInPlace
  <2> QED
    BY <2>3, <2>6 DEF t
<1> HIDE DEF I
<1>16. SameLinks(y, w) /\ \A n \in DOMAIN v.def : w.def[n].input = I[n]
  BY <1>1, <1>14, <1>15, WithInputsFacts
<1> HIDE DEF w
<1>17. /\ w \in Views /\ SameNodes(v, w) /\ w.regular = v.regular /\ w.max_out = v.max_out
       /\ w.fanouts = F
  BY <1>14, <1>16 DEF SameLinks, SameNodes
<1>18. InputsFollow(v, w, from, to)
  BY <1>15, <1>16 DEF InputsFollow
<1>19. FanoutsFollow(v, w, from, to)
  <2> SUFFICES ASSUME NEW f \in Ids, NEW p \in Slots, NEW x \in Ids, NEW at \in Slots
               PROVE  <<x, at>> \in GetFanout(w, <<f, p>>) <=>
                        IF p # Control /\ x # to /\ f \in {from, to}
                        THEN /\ f = to
                             /\ <<x, at>> \in GetFanout(v, <<to, p>>)
                                \/ <<x, at>> \in GetFanout(v, <<from, p>>)
                        ELSE <<x, at>> \in GetFanout(v, <<f, p>>)
    BY DEF FanoutsFollow
  <2> DEFINE r == <<x, at>>
  <2>1. GetFanout(w, <<f, p>>) = At(F, <<f, p>>, {})
    BY <1>17 DEF GetFanout
  <2>2. p \in Nat <=> p # Control
    BY IdsAndControl DEF Slots
  <2>3. r[1] = x
    OBVIOUS
  <2> HIDE DEF r
  <2>4. r \in Readers(p) <=> p \in Nat /\ r \in GetFanout(v, <<from, p>>) /\ r[1] # to
    BY <1>7
  <2>5. r \in GetFanout(w, <<f, p>>) <=>
          IF p # Control /\ x # to /\ f \in {from, to}
          THEN f = to /\ (r \in GetFanout(v, <<to, p>>) \/ r \in GetFanout(v, <<from, p>>))
          ELSE r \in GetFanout(v, <<f, p>>)
    <3>1. CASE f = from
      <4>1. GetFanout(w, <<f, p>>) = GetFanout(v, <<f, p>>) \ Readers(p)
        BY <1>12, <2>1, <3>1
      <4> QED
        BY <2>2, <2>3, <2>4, <3>1, <4>1
    <3>2. CASE f = to
      <4>1. GetFanout(w, <<f, p>>) = GetFanout(v, <<f, p>>) \cup Readers(p)
        BY <1>12, <2>1, <3>2
      <4> QED
        BY <2>2, <2>3, <2>4, <3>2, <4>1
    <3>3. CASE f # from /\ f # to
      <4>1. GetFanout(w, <<f, p>>) = GetFanout(v, <<f, p>>)
        BY <1>12, <2>1, <3>3
      <4> QED
        BY <3>3, <4>1
    <3> QED
      BY <3>1, <3>2, <3>3
  <2> QED
    BY <2>5 DEF r
<1> QED
  BY <1>17, <1>18, <1>19 DEF EdgesMoved, w, moving

(* The readers are right once the edges are moved.                         *)
LEMMA EdgesMovedReads ==
  ASSUME NEW v, Good(v, {}), NEW from \in DOMAIN v.def, NEW to \in DOMAIN v.def, from # to,
         NEW z, EdgesMoved(v, z, from, to), NEW x \in DOMAIN v.def
  PROVE  Reads(z, x, z.def[x].input, {})
<1> DEFINE s == v.def[x].input
           t == z.def[x].input
           M == v.def[to].name
           Mv(i) == Moved(v, x, i, from, to)
<1>1. /\ v \in Views /\ UniqueNames(v) /\ s \in Seq(AnyInput) /\ x \in Ids
      /\ Reads(v, x, s, {}) /\ Sound(v, x, s, v.regular[x])
  BY ViewParts DEF Good, WellTyped, NodeOk, InputsOk
<1>2. GetNode(v, M) = to /\ HasNode(v, M)
  BY <1>1, NodeNamed
<1>3. SameNodes(v, z) /\ InputsFollow(v, z, from, to) /\ FanoutsFollow(v, z, from, to)
  BY DEF EdgesMoved
<1>4. \A name : GetNode(z, name) = GetNode(v, name)
  BY <1>3, SameNodesFacts
<1>5. /\ DOMAIN t = DOMAIN s
      /\ \A i \in DOMAIN s : t[i] = IF Mv(i) THEN <<M, s[i][2]>> ELSE s[i]
  BY <1>3 DEF InputsFollow
<1>6. \A i \in DOMAIN s : Mv(i) <=> x # to /\ s[i][2] # Control /\ GetNode(v, s[i][1]) = from
  BY DEF Moved
<1> HIDE DEF s, t, M, Mv
<1>7. \A i \in DOMAIN s : /\ OutputPort(z, t[i]) = <<IF Mv(i) THEN to ELSE GetNode(v, s[i][1]), s[i][2]>>
                          /\ OutputPort(v, s[i]) = <<GetNode(v, s[i][1]), s[i][2]>>
                          /\ Slot(t[i], i) = Slot(s[i], i)
  BY <1>2, <1>4, <1>5 DEF OutputPort, Slot
<1>8. ASSUME NEW f \in Ids, NEW p \in Slots, NEW at \in Slots
      PROVE  <<x, at>> \in GetFanout(z, <<f, p>>) <=>
               \E i \in DOMAIN t \ {} : OutputPort(z, t[i]) = <<f, p>> /\ at = Slot(t[i], i)
  <2> DEFINE A(g) == <<x, at>> \in GetFanout(v, <<g, p>>)
             B(g) == \E i \in DOMAIN s : OutputPort(v, s[i]) = <<g, p>> /\ at = Slot(s[i], i)
  <2>1. ASSUME NEW g \in Ids PROVE A(g) <=> B(g)
    <3>1. <<g, p>> \in Ends
      BY DEF Ends
    <3>2. <<x, at>> \in GetFanout(v, <<g, p>>) <=>
            \E i \in DOMAIN s \ {} : OutputPort(v, s[i]) = <<g, p>> /\ at = Slot(s[i], i)
      BY <1>1, <3>1 DEF Reads
    <3> QED
      BY <3>2
  <2>2. <<x, at>> \in GetFanout(z, <<f, p>>) <=>
          IF p # Control /\ x # to /\ f \in {from, to}
          THEN f = to /\ (A(to) \/ A(from))
          ELSE A(f)
    BY <1>1, <1>3 DEF FanoutsFollow
  <2> HIDE DEF A
  <2>3. from \in Ids /\ to \in Ids
    BY <1>1, ViewParts
  <2>4. \A g : B(g) <=> \E i \in DOMAIN s : GetNode(v, s[i][1]) = g /\ s[i][2] = p /\ at = Slot(s[i], i)
    BY <1>7
  <2>5. (\E i \in DOMAIN t \ {} : OutputPort(z, t[i]) = <<f, p>> /\ at = Slot(t[i], i)) <=>
        \E i \in DOMAIN s : /\ (IF Mv(i) THEN to ELSE GetNode(v, s[i][1])) = f /\ s[i][2] = p
                            /\ at = Slot(s[i], i)
    BY <1>5, <1>7
  <2> HIDE DEF B
  <2>6. CASE p = Control \/ x = to
    <3>1. \A i \in DOMAIN s : s[i][2] = p => ~Mv(i)
      BY <1>6, <2>6
    <3> QED
      BY <2>1, <2>2, <2>4, <2>5, <2>6, <3>1
  <2>7. CASE p # Control /\ x # to
    <3>1. \A i \in DOMAIN s : s[i][2] = p => (Mv(i) <=> GetNode(v, s[i][1]) = from)
      BY <1>6, <2>7
    <3>2. CASE f = to
      <4>1. <<x, at>> \in GetFanout(z, <<f, p>>) <=> B(to) \/ B(from)
        BY <2>1, <2>2, <2>3, <2>7, <3>2
      <4> QED
        BY <2>4, <2>5, <3>1, <3>2, <4>1
    <3>3. CASE f = from
      <4>1. ~(<<x, at>> \in GetFanout(z, <<f, p>>))
        BY <2>2, <2>7, <3>3
      <4> QED
        BY <2>5, <3>1, <3>3, <4>1
    <3>4. CASE f # to /\ f # from
      <4>1. <<x, at>> \in GetFanout(z, <<f, p>>) <=> B(f)
        BY <2>1, <2>2, <2>7, <3>4
      <4> QED
        BY <2>4, <2>5, <3>1, <3>4, <4>1
    <3> QED
      BY <3>2, <3>3, <3>4
  <2> QED
    BY <2>6, <2>7
<1>9. Reads(z, x, t, {})
  <2> SUFFICES ASSUME NEW port \in Ends, NEW at \in Slots
               PROVE  <<x, at>> \in GetFanout(z, port) <=>
                        \E i \in DOMAIN t \ {} : OutputPort(z, t[i]) = port /\ at = Slot(t[i], i)
    BY DEF Reads
  <2>1. PICK f \in Ids, p \in Slots : port = <<f, p>>
    BY DEF Ends
  <2> QED
    BY <1>8, <2>1
<1> QED
  BY <1>9 DEF t

(* So are the inputs, but for controls on the new node.                    *)
LEMMA EdgesMovedInputs ==
  ASSUME NEW v, Good(v, {}), NEW from \in DOMAIN v.def, NEW to \in DOMAIN v.def, from # to,
         NEW z, EdgesMoved(v, z, from, to), NEW x \in DOMAIN v.def
  PROVE  /\ InputsOk(z, x, z.def[x].input, z.regular[x], {to})
         /\ (\A i \in DOMAIN v.def[x].input : ~Moved(v, x, i, from, to)) =>
              InputsOk(z, x, z.def[x].input, z.regular[x], {})
<1> DEFINE s == v.def[x].input
           t == z.def[x].input
           k == v.regular[x]
           M == v.def[to].name
           Mv(i) == Moved(v, x, i, from, to)
           E == {}
           T == {to}
<1>1. /\ v \in Views /\ UniqueNames(v) /\ s \in Seq(AnyInput)
      /\ Sound(v, x, s, k) /\ Single(s) /\ NoRepeat(v, s, E)
  BY ViewParts DEF Good, WellTyped, NodeOk, InputsOk
<1>2. GetNode(v, M) = to /\ HasNode(v, M)
  BY <1>1, NodeNamed
<1>3. SameNodes(v, z) /\ InputsFollow(v, z, from, to) /\ z.regular = v.regular
  BY DEF EdgesMoved
<1>4. /\ \A name : GetNode(z, name) = GetNode(v, name) /\ (HasNode(z, name) <=> HasNode(v, name))
      /\ \A f \in DOMAIN v.def : z.def[f].op = v.def[f].op
  BY <1>3, SameNodesFacts DEF SameNodes
<1>5. /\ DOMAIN t = DOMAIN s /\ Len(t) = Len(s)
      /\ \A i \in DOMAIN s : t[i] = IF Mv(i) THEN <<M, s[i][2]>> ELSE s[i]
  BY <1>3 DEF InputsFollow
<1>6. \A i \in DOMAIN s : Mv(i) => x # to /\ s[i][2] # Control
  BY DEF Moved
<1>7. z.regular[x] = k
  BY <1>3
<1>8. to \in T /\ ~\E f : f \in E
  OBVIOUS
<1> HIDE DEF s, t, k, M, Mv, E, T
<1>9. \A i \in DOMAIN s : /\ t[i][2] = s[i][2]
                          /\ t[i][1] = IF Mv(i) THEN M ELSE s[i][1]
  BY <1>5
<1>10. /\ k <= Len(s)
       /\ \A i \in DOMAIN s :
            /\ HasNode(v, s[i][1])
            /\ GetNode(v, s[i][1]) # x
            /\ i <= k <=> s[i][2] # Control
            /\ s[i][2] = Control => ~IsSwitch(v, GetNode(v, s[i][1]))
  BY <1>1 DEF Sound
<1>11. \A i \in DOMAIN s : GetNode(v, s[i][1]) \in DOMAIN v.def
  BY <1>1, <1>10, NodeFound
<1>12. Sound(z, x, t, k)
  <2>1. ASSUME NEW i \in DOMAIN s
        PROVE  /\ HasNode(z, t[i][1])
               /\ GetNode(z, t[i][1]) # x
               /\ i <= k <=> t[i][2] # Control
               /\ t[i][2] = Control => ~IsSwitch(z, GetNode(z, t[i][1]))
    <3>1. CASE Mv(i)
      <4>1. t[i][1] = M /\ t[i][2] # Control /\ x # to /\ t[i][2] = s[i][2]
        BY <1>6, <1>9, <3>1
      <4> QED
        BY <1>2, <1>4, <1>10, <4>1
    <3>2. CASE ~Mv(i)
      <4>1. t[i][1] = s[i][1] /\ t[i][2] = s[i][2]
        BY <1>9, <3>2
      <4> QED
        BY <1>4, <1>10, <1>11, <4>1 DEF IsSwitch
    <3> QED
      BY <3>1, <3>2
  <2> QED
    BY <1>5, <1>10, <2>1 DEF Sound
<1>13. Single(t)
  <2>1. \A i \in DOMAIN s : t[i][2] = Control => t[i][1] = s[i][1] /\ s[i][2] = Control
    BY <1>6, <1>9
  <2> QED
    BY <1>1, <1>5, <2>1 DEF Single
<1>14. ASSUME NEW i \in DOMAIN s, NEW j \in DOMAIN s, t[i][2] = Control, t[j][2] # Control,
              t[i][1] = t[j][1], ~Mv(j)
       PROVE  IsIdentity(z, GetNode(z, t[i][1]))
  <2>1. s[i][2] = Control /\ s[j][2] # Control /\ s[i][1] = s[j][1] /\ t[i][1] = s[i][1]
    BY <1>6, <1>9, <1>14
  <2>2. IsIdentity(v, GetNode(v, s[i][1]))
    BY <1>1, <1>8, <2>1 DEF NoRepeat
  <2> QED
    BY <1>4, <1>11, <2>1, <2>2 DEF IsIdentity
<1>15. NoRepeat(z, t, T)
  <2> SUFFICES ASSUME NEW i \in DOMAIN s, NEW j \in DOMAIN s, t[i][2] = Control, t[j][2] # Control,
                      t[i][1] = t[j][1]
               PROVE  IsIdentity(z, GetNode(z, t[i][1])) \/ GetNode(z, t[i][1]) \in T
    BY <1>5 DEF NoRepeat
  <2>1. CASE Mv(j)
    <3>1. t[i][1] = M
      BY <1>9, <2>1
    <3> QED
      BY <1>2, <1>4, <1>8, <3>1
  <2> QED
    BY <1>14, <2>1
<1>16. (\A i \in DOMAIN s : ~Mv(i)) => NoRepeat(z, t, E)
  BY <1>5, <1>14 DEF NoRepeat
<1> QED
  BY <1>7, <1>12, <1>13, <1>15, <1>16 DEF InputsOk, s, t, k, Mv, E, T

(* With the bounds, all is well but for redundant controls on the new node.*)
LEMMA EdgesMovedGood ==
  ASSUME NEW v, Good(v, {}), NEW from \in DOMAIN v.def, NEW to \in DOMAIN v.def, from # to,
         NEW z, EdgesMoved(v, z, from, to), BoundedBut(z, {})
  PROVE  /\ Good(z, {to})
         /\ \A x \in DOMAIN v.def :
              (\A i \in DOMAIN v.def[x].input : ~Moved(v, x, i, from, to)) => NodeOk(z, x, {})
<1>1. /\ v \in Views /\ WellTyped(v) /\ NoStray(v) /\ DOMAIN v.def \subseteq Ids
      /\ from \in Ids /\ to \in Ids
  BY ViewParts DEF Good, WellTyped
<1>2. z \in Views /\ SameNodes(v, z) /\ z.regular = v.regular /\ FanoutsFollow(v, z, from, to)
  BY DEF EdgesMoved
<1>3. WellTyped(z)
  BY <1>1, <1>2 DEF WellTyped, SameNodes, UniqueNames, AnchorsNamed
<1>4. NoStray(z)
  <2> SUFFICES ASSUME NEW port \in Ends, NEW r \in Ends, r \in GetFanout(z, port)
               PROVE  r[1] \in DOMAIN v.def
    BY <1>2 DEF NoStray, SameNodes
  <2>1. PICK f \in Ids, p \in Slots : port = <<f, p>>
    BY DEF Ends
  <2>2. PICK x \in Ids, at \in Slots : r = <<x, at>>
    BY DEF Ends
  <2>3. \/ r \in GetFanout(v, <<f, p>>) \/ r \in GetFanout(v, <<to, p>>)
        \/ r \in GetFanout(v, <<from, p>>)
    BY <1>2, <2>1, <2>2 DEF FanoutsFollow
  <2>4. <<f, p>> \in Ends /\ <<to, p>> \in Ends /\ <<from, p>> \in Ends
    BY <1>1 DEF Ends
  <2> QED
    BY <1>1, <2>3, <2>4 DEF NoStray
<1>5. DOMAIN z.def = DOMAIN v.def
  BY <1>2 DEF SameNodes
<1>6. \A x \in DOMAIN v.def : NodeOk(z, x, {to})
  BY EdgesMovedInputs, EdgesMovedReads DEF NodeOk
<1>7. \A x \in DOMAIN v.def :
        (\A i \in DOMAIN v.def[x].input : ~Moved(v, x, i, from, to)) => NodeOk(z, x, {})
  BY EdgesMovedInputs, EdgesMovedReads DEF NodeOk
<1> QED
  BY <1>3, <1>4, <1>5, <1>6, <1>7 DEF Good

-----------------------------------------------------------------------------
(* UpdateFanouts: controls, and the bounds.                                *)

(* The new node has no higher bound than the old one, which keeps its.     *)
ControlsMoved(v, w, from, to) ==
  /\ Good(w, {}) /\ SameNodes(v, w)
  /\ At(w.max_out, from, 0) = At(v.max_out, from, 0)
  /\ At(w.max_out, to, -1) <= At(v.max_out, from, 0)

(* One consumer waits for the new node instead.                            *)
LEMMA MoveControlFacts ==
  ASSUME NEW v, NEW from \in DOMAIN v.def, NEW to \in DOMAIN v.def, from # to,
         ~IsSwitch(v, to), NEW w, ControlsMoved(v, w, from, to),
         NEW c \in DOMAIN v.def, c # to
  PROVE  ControlsMoved(v, AddFaninInternal(RemoveControllingFaninInternal(w, c, from),
                                           c, <<to, Control>>), from, to)
<1> DEFINE x == RemoveControllingFaninInternal(w, c, from)
           y == AddFaninInternal(x, c, <<to, Control>>)
<1>1. /\ Good(w, {}) /\ SameNodes(v, w)
      /\ At(w.max_out, from, 0) = At(v.max_out, from, 0)
      /\ At(w.max_out, to, -1) <= At(v.max_out, from, 0)
  BY DEF ControlsMoved
<1>2. from \in DOMAIN w.def /\ to \in DOMAIN w.def /\ c \in DOMAIN w.def /\ ~IsSwitch(w, to)
  BY <1>1 DEF SameNodes, IsSwitch
<1>3. Good(x, {}) /\ Frame(w, x, c) /\ x.max_out = w.max_out
  BY <1>1, <1>2, RemoveControllingGood
<1> HIDE DEF x
<1>4. to \in DOMAIN x.def /\ c \in DOMAIN x.def /\ ~IsSwitch(x, to)
  BY <1>2, <1>3 DEF Frame, IsSwitch
<1>5. AddsControl(x, y, c, to)
  BY <1>3, <1>4, AddControlFacts
<1> HIDE DEF y
<1>6. /\ Good(y, {}) /\ Frame(x, y, c)
      /\ y.max_out = w.max_out \/ y.max_out = Put(w.max_out, to, At(w.max_out, to, 0))
  BY <1>3, <1>5 DEF AddsControl
<1>7. SameNodes(v, y)
  BY <1>1, <1>3, <1>6 DEF SameNodes, Frame
<1>8. \A g \in DOMAIN w.max_out : w.max_out[g] \in Nat
  BY <1>1, ViewParts DEF Good, WellTyped
<1>9. At(w.max_out, from, 0) \in Nat
  BY <1>8 DEF At
<1>10. At(y.max_out, from, 0) = At(w.max_out, from, 0) /\ At(y.max_out, to, -1) <= At(w.max_out, from, 0)
  <2>1. CASE y.max_out = w.max_out
    BY <1>1, <2>1
  <2>2. CASE y.max_out = Put(w.max_out, to, At(w.max_out, to, 0))
    <3>1. At(y.max_out, from, 0) = At(w.max_out, from, 0)
      BY <2>2 DEF At, Put
    <3>2. At(y.max_out, to, -1) = At(w.max_out, to, 0)
      BY <2>2 DEF At, Put
    <3>3. At(w.max_out, to, 0) = At(w.max_out, to, -1) \/ At(w.max_out, to, 0) = 0
      BY DEF At
    <3> QED
      BY <1>1, <1>9, <3>1, <3>2, <3>3
  <2> QED
    BY <1>6, <2>1, <2>2
<1>11. ControlsMoved(v, y, from, to)
  BY <1>1, <1>6, <1>7, <1>10 DEF ControlsMoved
<1> QED
  BY <1>11 DEF x, y

(* A function holds what MoveControls has after each node.                 *)
MoveControlsSteps(v, from, to, run) ==
  /\ run[0] = v
  /\ \A k \in 1..MaxNodes : run[k] = IF k \in {c[1] : c \in GetFanout(v, <<from, Control>>)} \ {to} THEN AddFaninInternal(RemoveControllingFaninInternal(run[k - 1], k, from), k, <<to, Control>>) ELSE run[k - 1]
  /\ MoveControls(v, from, to) = run[MaxNodes]

(* Such a function there is.                                               *)
LEMMA MoveControlsLoop ==
  ASSUME NEW v, NEW from, NEW to
  PROVE  \E run : MoveControlsSteps(v, from, to, run)
<1> DEFINE L == MaxNodes
           After(x, k) == IF k \in {c[1] : c \in GetFanout(v, <<from, Control>>)} \ {to} THEN AddFaninInternal(RemoveControllingFaninInternal(x, k, from), k, <<to, Control>>) ELSE x
           Loop(g, m) == g = [k \in 0..m |-> IF k = 0 THEN v ELSE After(g[k - 1], k)]
           P == {m \in 0..L : \E g : Loop(g, m)}
<1>0. L \in Nat
  BY BoundsAssumption
<1>1. 0 \in P
  <2> DEFINE g == [k \in 0..0 |-> v]
  <2>1. Loop(g, 0)
    OBVIOUS
  <2> HIDE DEF g, Loop, L
  <2> QED
    BY <2>1, <1>0
<1>2. ASSUME NEW m \in 1..L, m - 1 \in P PROVE m \in P
  <2>1. PICK g : Loop(g, m - 1)
    BY <1>2
  <2> HIDE DEF After, L, P
  <2> DEFINE y == After(g[m - 1], m)
             h == [k \in 0..m |-> IF k = m THEN y ELSE g[k]]
  <2>0. m \in Nat /\ m # 0 /\ m - 1 \in 0..(m - 1)
    BY <1>0
  <2>2. h[m] = y /\ \A k \in 0..(m - 1) : h[k] = g[k]
    BY <2>0
  <2>3. \A k \in 0..(m - 1) : k # 0 => k - 1 \in 0..(m - 1)
    BY <2>0
  <2>4. \A k \in 0..m : k \in 0..(m - 1) \/ k = m
    BY <2>0
  <2>5. \A k \in 0..m : h[k] = IF k = 0 THEN v ELSE After(h[k - 1], k)
    <3> HIDE DEF h
    <3>1. \A k \in 0..(m - 1) : h[k] = IF k = 0 THEN v ELSE After(h[k - 1], k)
      BY <2>1, <2>2, <2>3
    <3>2. h[m] = After(h[m - 1], m)
      BY <2>0, <2>2
    <3> QED
      BY <2>0, <2>4, <3>1, <3>2
  <2>6. Loop(h, m)
    BY <2>5
  <2> HIDE DEF h, Loop
  <2> QED
    BY <2>6 DEF P
<1>3. L \in P
  <2> HIDE DEF P
  <2>1. P \in SUBSET (0..L)
    BY DEF P
  <2>2. P = 0..L
    <3> HIDE DEF L
    <3> QED
      BY <1>0, <1>1, <1>2, <2>1, Throughout
  <2> QED
    BY <1>0, <2>2
<1> DEFINE F == CHOOSE h : Loop(h, L)
<1>4. Loop(F, L)
  <2> HIDE DEF Loop
  <2>1. \E g : Loop(g, L)
    BY <1>3
  <2> HIDE DEF P
  <2> QED
    BY <2>1
<1>5. MoveControls(v, from, to) = F[MaxNodes]
  BY DEF MoveControls
<1> HIDE DEF F
<1>6. \A k \in 0..MaxNodes : F[k] = IF k = 0 THEN v ELSE IF k \in {c[1] : c \in GetFanout(v, <<from, Control>>)} \ {to} THEN AddFaninInternal(RemoveControllingFaninInternal(F[k - 1], k, from), k, <<to, Control>>) ELSE F[k - 1]
  BY <1>4
<1>7. \A k \in 1..MaxNodes : k \in 0..MaxNodes /\ k # 0
  BY <1>0
<1>8. 0 \in 0..MaxNodes
  BY <1>0
<1>9. MoveControlsSteps(v, from, to, F)
  BY <1>5, <1>6, <1>7, <1>8 DEF MoveControlsSteps
<1> QED
  BY <1>9

(* MoveControls: all of them do.                                           *)
LEMMA MoveControlsFacts ==
  ASSUME NEW v, Good(v, {}), NEW from \in DOMAIN v.def, NEW to \in DOMAIN v.def, from # to,
         IsSwitch(v, to) => \A c \in GetFanout(v, <<from, Control>>) : c[1] = to,
         At(v.max_out, to, -1) <= At(v.max_out, from, 0)
  PROVE  ControlsMoved(v, MoveControls(v, from, to), from, to)
<1> DEFINE C == {c[1] : c \in GetFanout(v, <<from, Control>>)} \ {to}
<1>1. PICK g : MoveControlsSteps(v, from, to, g)
  BY MoveControlsLoop
<1>2. /\ g[0] = v
      /\ \A i \in 1..MaxNodes :
           g[i] = IF i \in C
                  THEN AddFaninInternal(RemoveControllingFaninInternal(g[i - 1], i, from),
                                        i, <<to, Control>>)
                  ELSE g[i - 1]
      /\ MoveControls(v, from, to) = g[MaxNodes]
  BY <1>1 DEF MoveControlsSteps
<1>3. C \subseteq DOMAIN v.def
  <2>1. GetFanout(v, <<from, Control>>) \in SUBSET Ends /\ <<from, Control>> \in Ends
    BY ViewParts DEF Good, WellTyped, Ends, Slots
  <2>2. \A c \in GetFanout(v, <<from, Control>>) : c[1] \in DOMAIN v.def
    BY <2>1 DEF Good, NoStray
  <2> QED
    BY <2>2
<1>4. \A c \in C : c # to /\ ~IsSwitch(v, to)
  OBVIOUS
<1>5. MaxNodes \in Nat
  BY BoundsAssumption
<1> HIDE DEF C
<1> DEFINE P == {i \in 0..MaxNodes : ControlsMoved(v, g[i], from, to)}
<1>6. 0 \in P
  <2>1. ControlsMoved(v, v, from, to)
    BY DEF ControlsMoved, SameNodes
  <2> QED
    BY <1>2, <1>5, <2>1
<1>7. ASSUME NEW i \in 1..MaxNodes, i - 1 \in P PROVE i \in P
  <2>1. ControlsMoved(v, g[i - 1], from, to) /\ i \in 0..MaxNodes
    BY <1>5, <1>7
  <2>2. CASE i \in C
    <3>1. ControlsMoved(v, AddFaninInternal(RemoveControllingFaninInternal(g[i - 1], i, from),
                                            i, <<to, Control>>), from, to)
      BY <1>3, <1>4, <2>1, <2>2, MoveControlFacts
    <3> QED
      BY <1>2, <2>1, <2>2, <3>1
  <2>3. CASE i \notin C
    BY <1>2, <2>1, <2>3
  <2> QED
    BY <2>2, <2>3
<1> HIDE DEF P
<1>8. MaxNodes \in P
  <2>1. P \in SUBSET (0..MaxNodes)
    BY DEF P
  <2>2. P = 0..MaxNodes
    BY <1>5, <1>6, <1>7, <2>1, Throughout
  <2> QED
    BY <1>5, <2>2
<1> QED
  BY <1>2, <1>8 DEF P

(* The bounds after the edges have moved.                                  *)
BoundsMoved(v, w, from, to) ==
  LET keep == {e[1] : e \in GetFanoutEdges(v, from) \ Moving(v, from, to)}
      max  == Put(w.max_out, to, At(w.max_out, from, 0))
  IN  [w EXCEPT !.max_out = IF keep = {} THEN Erase(max, {from})
                            ELSE Put(max, from, Max(keep))]

(* The bounds hold after the edges are moved.                              *)
LEMMA BoundsMovedFacts ==
  ASSUME NEW v, Good(v, {}), NEW from \in DOMAIN v.def, NEW to \in DOMAIN v.def, from # to,
         At(v.max_out, to, -1) <= At(v.max_out, from, 0),
         NEW w, EdgesMoved(v, w, from, to), w.max_out = v.max_out
  PROVE  /\ EdgesMoved(v, BoundsMoved(v, w, from, to), from, to)
         /\ BoundedBut(BoundsMoved(v, w, from, to), {})
<1> DEFINE keep == {e[1] : e \in GetFanoutEdges(v, from) \ Moving(v, from, to)}
           old  == At(v.max_out, from, 0)
           max  == Put(v.max_out, to, old)
           b    == IF keep = {} THEN Erase(max, {from}) ELSE Put(max, from, Max(keep))
           z    == BoundsMoved(v, w, from, to)
<1>1. /\ v \in Views /\ BoundedBut(v, {}) /\ from \in Ids /\ to \in Ids
      /\ v.max_out \in Partial(Ids, Nat)
      /\ \A g \in DOMAIN v.max_out : v.max_out[g] \in Nat
      /\ \A port : GetFanout(v, port) \in SUBSET Ends
  BY ViewParts DEF Good, WellTyped
<1>2. z = [w EXCEPT !.max_out = b]
  BY DEF BoundsMoved
<1>3. old \in Nat
  BY <1>1 DEF At
<1>4. keep \subseteq 0..old
  <2>1. \A e \in GetFanoutEdges(v, from) : e[1] \in Nat /\ e[1] <= v.max_out[from] /\ from \in DOMAIN v.max_out
    BY <1>1, EdgesFound
  <2>2. \A e \in GetFanoutEdges(v, from) : e[1] \in 0..old
    BY <1>3, <2>1 DEF At
  <2> HIDE DEF old
  <2> QED
    BY <2>2
<1>19. \A p : p \in 0..old => p \in Nat
  BY <1>3
<1>5. \A p \in Nat : \A r \in GetFanout(v, <<from, p>>) : r[1] = to => p \in keep
  <2> TAKE p \in Nat
  <2> TAKE r \in GetFanout(v, <<from, p>>)
  <2> HAVE r[1] = to
  <2>1. <<p, r>> \in GetFanoutEdges(v, from)
    BY <1>1, EdgesFound
  <2>2. <<p, r>> \notin Moving(v, from, to)
    BY DEF Moving
  <2> QED
    BY <2>1, <2>2
<1> HIDE DEF keep, old
<1>6. keep # {} => Max(keep) \in Nat /\ \A p \in keep : p <= Max(keep)
  <2>1. keep # {} => Max(keep) \in keep /\ \A p \in keep : p <= Max(keep)
    BY <1>3, <1>4, GreatestNumber
  <2>2. \A p \in keep : p \in Nat
    BY <1>4, <1>19
  <2> DEFINE top == Max(keep)
  <2>3. keep # {} => top \in keep /\ \A p \in keep : p <= top
    BY <2>1
  <2> HIDE DEF top
  <2>4. keep # {} => top \in Nat /\ \A p \in keep : p <= top
    BY <2>2, <2>3
  <2> QED
    BY <2>4 DEF top
<1>7. max \in Partial(Ids, Nat)
  BY <1>1, <1>3, PutBound
<1>8. \A g : g \in DOMAIN max <=> g = to \/ g \in DOMAIN v.max_out
  BY DEF Put
<1>9. max[to] = old /\ \A g \in DOMAIN v.max_out : g # to => max[g] = v.max_out[g]
  BY DEF Put
<1> HIDE DEF max
<1>10. b \in Partial(Ids, Nat)
  <2>1. CASE keep = {}
    BY <1>7, <2>1, EraseBound
  <2>2. CASE keep # {}
    <3>1. Put(max, from, Max(keep)) \in Partial(Ids, Nat)
      BY <1>1, <1>6, <1>7, <2>2, PutBound
    <3> QED
      BY <2>2, <3>1
  <2> QED
    BY <2>1, <2>2
<1>11. \A g : g # from => (g \in DOMAIN b <=> g \in DOMAIN max) /\ (g \in DOMAIN b => b[g] = max[g])
  <2>1. CASE keep = {}
    <3>1. b = Erase(max, {from})
      BY <2>1
    <3>2. DOMAIN Erase(max, {from}) = DOMAIN max \ {from} /\ \A j \in DOMAIN max \ {from} : Erase(max, {from})[j] = max[j]
      BY <1>7, EraseBound
    <3> QED
      BY <3>1, <3>2
  <2>2. CASE keep # {}
    <3>1. b = Put(max, from, Max(keep))
      BY <2>2
    <3> HIDE DEF b
    <3> QED
      BY <3>1 DEF Put
  <2> QED
    BY <2>1, <2>2
<1>12. keep # {} => from \in DOMAIN b /\ b[from] = Max(keep)
  BY DEF Put
<1> HIDE DEF b
<1>13. EdgesMoved(v, w, from, to) /\ w \in Views
  BY DEF EdgesMoved
<1>14. /\ z \in Views /\ z.def = w.def /\ z.regular = w.regular /\ z.fanouts = w.fanouts
       /\ z.max_out = b
  BY <1>2, <1>10, <1>13 DEF Views
<1> HIDE DEF z
<1>15. \A port : GetFanout(z, port) = GetFanout(w, port)
  BY <1>14 DEF GetFanout
<1>16. EdgesMoved(v, z, from, to)
  BY <1>13, <1>14, <1>15 DEF EdgesMoved, SameNodes, InputsFollow, FanoutsFollow
<1>17. ASSUME NEW f \in Ids, NEW p \in Nat, GetFanout(z, <<f, p>>) # {}
       PROVE  f \in DOMAIN b /\ p <= b[f]
  <2>1. PICK r \in GetFanout(z, <<f, p>>) : TRUE
    BY <1>17
  <2>2. PICK x \in Ids, at \in Slots : r = <<x, at>>
    <3>1. GetFanout(z, <<f, p>>) \in SUBSET Ends
      BY <1>14, ViewParts
    <3> QED
      BY <3>1 DEF Ends
  <2>3. p # Control /\ p \in Slots
    BY IdsAndControl DEF Slots
  <2>4. r \in GetFanout(z, <<f, p>>) <=>
          IF p # Control /\ x # to /\ f \in {from, to}
          THEN f = to /\ (r \in GetFanout(v, <<to, p>>) \/ r \in GetFanout(v, <<from, p>>))
          ELSE r \in GetFanout(v, <<f, p>>)
    BY <1>16, <2>2, <2>3 DEF EdgesMoved, FanoutsFollow
  <2>5. \A g \in Ids : r \in GetFanout(v, <<g, p>>) => g \in DOMAIN v.max_out /\ p <= v.max_out[g]
    BY <1>1 DEF BoundedBut
  <2>6. CASE f = to
    <3>1. r \in GetFanout(v, <<to, p>>) \/ r \in GetFanout(v, <<from, p>>)
      BY <2>1, <2>4, <2>6
    <3>2. p <= old
      <4>1. CASE r \in GetFanout(v, <<from, p>>)
        BY <1>1, <2>5, <4>1 DEF At, old
      <4>2. CASE r \in GetFanout(v, <<to, p>>)
        <5>1. to \in DOMAIN v.max_out /\ p <= v.max_out[to]
          BY <1>1, <2>5, <4>2
        <5>2. At(v.max_out, to, -1) = v.max_out[to] /\ v.max_out[to] \in Nat
          BY <1>1, <5>1 DEF At
        <5>3. v.max_out[to] <= old
          BY <5>2 DEF old
        <5> QED
          BY <1>3, <5>1, <5>2, <5>3
      <4> QED
        BY <3>1, <4>1, <4>2
    <3>3. to \in DOMAIN b /\ b[to] = old
      BY <1>8, <1>9, <1>11
    <3> QED
      BY <2>6, <3>2, <3>3
  <2>7. CASE f = from
    <3>1. x = to /\ r \in GetFanout(v, <<from, p>>)
      BY <2>1, <2>3, <2>4, <2>7
    <3>2. p \in keep
      BY <1>5, <2>2, <3>1
    <3> QED
      BY <1>6, <1>12, <2>7, <3>2
  <2>8. CASE f # to /\ f # from
    <3>1. r \in GetFanout(v, <<f, p>>)
      BY <2>1, <2>4, <2>8
    <3>2. f \in DOMAIN v.max_out /\ p <= v.max_out[f]
      BY <2>5, <3>1
    <3>3. f \in DOMAIN b /\ b[f] = v.max_out[f]
      BY <1>8, <1>9, <1>11, <2>8, <3>2
    <3> QED
      BY <3>2, <3>3
  <2> QED
    BY <2>6, <2>7, <2>8
<1>18. BoundedBut(z, {})
  BY <1>14, <1>17 DEF BoundedBut
<1> QED
  BY <1>16, <1>18 DEF z

(* UpdateFanouts, if it lowers no bound.                                   *)
LEMMA MoveFanoutsGood ==
  ASSUME NEW v, Good(v, {}), NEW from \in DOMAIN v.def, NEW to \in DOMAIN v.def, from # to,
         IsSwitch(v, to) => \A c \in GetFanout(v, <<from, Control>>) : c[1] = to,
         At(v.max_out, to, -1) <= At(v.max_out, from, 0)
  PROVE  Good(MoveFanouts(v, from, to), {})
<1> DEFINE c == MoveControls(v, from, to)
           w == MoveEdges(c, from, to, Moving(c, from, to))
           z == BoundsMoved(c, w, from, to)
           C == {e[2][1] : e \in Moving(c, from, to)}
<1>1. MoveFanouts(v, from, to) = IF CanDedupControlWithRegularInput(z, to)
                                 THEN RemoveControllingFanins(z, C, to) ELSE z
  BY DEF MoveFanouts, BoundsMoved, Moving
<1>2. ControlsMoved(v, c, from, to)
  BY MoveControlsFacts
<1> HIDE DEF c
<1>3. /\ Good(c, {}) /\ from \in DOMAIN c.def /\ to \in DOMAIN c.def
      /\ At(c.max_out, to, -1) <= At(c.max_out, from, 0)
  BY <1>2 DEF ControlsMoved, SameNodes
<1>4. EdgesMoved(c, w, from, to) /\ w.max_out = c.max_out
  BY <1>3, MoveEdgesFacts
<1> HIDE DEF w
<1>5. EdgesMoved(c, z, from, to) /\ BoundedBut(z, {})
  BY <1>3, <1>4, BoundsMovedFacts
<1> HIDE DEF z
<1> DEFINE T == {to}
<1>6. /\ Good(z, T)
      /\ \A x \in DOMAIN c.def :
           (\A i \in DOMAIN c.def[x].input : ~Moved(c, x, i, from, to)) => NodeOk(z, x, {})
  BY <1>3, <1>5, EdgesMovedGood
<1>7. DOMAIN z.def = DOMAIN c.def
  BY <1>5 DEF EdgesMoved, SameNodes
<1>8. T \ {to} = {} /\ to \in T
  OBVIOUS
<1>9. CASE CanDedupControlWithRegularInput(z, to)
  <2> DEFINE D == DOMAIN z.def \ C
  <2>1. C \subseteq DOMAIN z.def
    <3>1. \A e \in Moving(c, from, to) : e[2][1] \in DOMAIN c.def
      BY <1>3, EdgesReachNodes DEF Moving
    <3> QED
      BY <1>7, <3>1
  <2>2. \A x \in D : NodeOk(z, x, {})
    <3> TAKE x \in D
    <3>1. x \in DOMAIN c.def /\ x \notin C
      BY <1>7
    <3>2. ASSUME NEW i \in DOMAIN c.def[x].input, Moved(c, x, i, from, to) PROVE FALSE
      <4>1. OneEdge(c, x, i, from, to)
        BY <1>3, <3>1, MovingInputs
      <4>2. PICK e \in Moving(c, from, to) : e[2] = <<x, i>>
        BY <3>2, <4>1 DEF OneEdge
      <4> QED
        BY <3>1, <4>2
    <3> QED
      BY <1>6, <3>1, <3>2
  <2> HIDE DEF C
  <2>3. \A x \in D : NodeOk(z, x, T \ {to})
    BY <1>8, <2>2
  <2> HIDE DEF T
  <2>4. Waning(z, z, T, to, D)
    <3>1. SameNodes(z, z)
      BY DEF SameNodes
    <3> QED
      BY <1>6, <2>3, <3>1 DEF Waning
  <2> DEFINE y == RemoveControllingFanins(z, C, to)
  <2>5. Waning(z, y, T, to, D \cup C)
    <3>1. to \in DOMAIN z.def /\ C \in SUBSET (DOMAIN z.def) /\ D \in SUBSET (DOMAIN z.def)
      BY <1>3, <1>7, <2>1
    <3> HIDE DEF D
    <3> QED
      BY <1>6, <2>4, <3>1, RemoveControllingFaninsFacts
  <2> HIDE DEF y
  <2>6. /\ Good(y, T) /\ SameNodes(z, y) /\ \A n \in D \cup C : NodeOk(y, n, T \ {to})
    BY <2>5 DEF Waning
  <2>7. \A n \in DOMAIN y.def : NodeOk(y, n, T \ {to})
    BY <2>1, <2>6 DEF SameNodes
  <2>8. Good(y, T \ {to})
    BY <2>6, <2>7, LessExempt
  <2> QED
    BY <1>1, <1>8, <1>9, <2>8 DEF y
<1>10. CASE ~CanDedupControlWithRegularInput(z, to)
  <2>1. IsIdentity(z, to)
    BY <1>10 DEF CanDedupControlWithRegularInput, IsIdentityConsumingSwitch
  <2>2. Good(z, T \ {to})
    <3>1. z \in Views
      BY <1>6 DEF Good, WellTyped
    <3> HIDE DEF T
    <3>2. ASSUME NEW x \in DOMAIN z.def PROVE NodeOk(z, x, T \ {to})
      <4>1. NodeOk(z, x, T)
        BY <1>6, <3>2 DEF Good
      <4> DEFINE s == z.def[x].input
      <4>2. NoRepeat(z, s, T \ {to})
        <5>1. NoRepeat(z, s, T)
          BY <4>1 DEF NodeOk, InputsOk
        <5> HIDE DEF s
        <5>2. \A f : f \in T => f \in T \ {to} \/ f = to
          OBVIOUS
        <5> QED
          BY <2>1, <5>1, <5>2 DEF NoRepeat
      <4> QED
        BY <4>1, <4>2 DEF NodeOk, InputsOk
    <3> QED
      BY <1>6, <3>2, LessExempt
  <2> QED
    BY <1>1, <1>8, <1>10, <2>2
<1> QED
  BY <1>9, <1>10

-----------------------------------------------------------------------------
(* Inputs as they are given.                                               *)

(* An input that a client may give.                                        *)
InputOk(v, n, t) ==
  /\ HasNode(v, t[1]) /\ GetNode(v, t[1]) # n
  /\ t[2] = Control => ~IsSwitch(v, GetNode(v, t[1]))

(* Inputs that a client may give.                                          *)
GivenOk(v, n, s) == RegularFirst(s) /\ \A i \in DOMAIN s : InputOk(v, n, s[i])

(* No control of s up to p is redundant.                                   *)
Kept(v, s, p) ==
  \A i, j \in 1..p :
    i < j /\ s[i][1] = s[j][1] /\ s[j][2] = Control =>
      s[i][2] # Control /\ IsIdentity(v, GetNode(v, s[j][1]))

(* The inputs of n after k of L have been looked at.                       *)
Deduped(v, n, x, k, L) ==
  /\ x.input \in Seq(AnyInput) /\ Len(x.input) = L
  /\ x.last \in 0..L /\ x.pos \in 1..x.last + 1 /\ x.pos - 1 + (L - x.last) = k
  /\ \A i \in 1..x.last : InputOk(v, n, x.input[i])
  /\ \A i, j \in 1..x.last : i <= j /\ x.input[i][2] = Control => x.input[j][2] = Control
  /\ \A i \in 1..x.pos - 1 :
       /\ x.input[i][1] \in x.fanins
       /\ x.input[i][2] = Control => x.input[i][1] \in x.controls
  /\ Kept(v, x.input, x.pos - 1)

(* DedupInput, at one position.                                            *)
LEMMA DedupInputFacts ==
  ASSUME NEW v \in Views, NEW n, NEW L \in Nat, NEW k \in 1..L, NEW x, Deduped(v, n, x, k - 1, L)
  PROVE  Deduped(v, n, DedupInput(v, x), k, L)
<1> DEFINE s == x.input
           p == x.pos
           l == x.last
           t == s[p]
           control == t[2] = Control
           known == HasNode(v, t[1]) /\ CanDedupControlWithRegularInput(v, GetNode(v, t[1]))
           drop == t[1] \in x.fanins /\ control /\ (known \/ t[1] \in x.controls)
           y == DedupInput(v, x)
<1>1. /\ s \in Seq(AnyInput) /\ Len(s) = L
      /\ l \in 0..L /\ p \in 1..l + 1 /\ p - 1 + (L - l) = k - 1
      /\ \A i \in 1..l : InputOk(v, n, s[i])
      /\ \A i, j \in 1..l : i <= j /\ s[i][2] = Control => s[j][2] = Control
      /\ \A i \in 1..p - 1 : s[i][1] \in x.fanins /\ (s[i][2] = Control => s[i][1] \in x.controls)
      /\ Kept(v, s, p - 1)
  BY DEF Deduped
<1>2. p \in 1..l /\ p \in Nat /\ l \in Nat /\ p \in 1..L /\ l \in 1..L /\ l - 1 \in 0..L
  <2>1. p \in Nat /\ l \in Nat /\ k \in Nat /\ k <= L /\ l <= L /\ p >= 1
    BY <1>1
  <2>2. p <= l
    BY <1>1, <2>1
  <2> QED
    BY <2>1, <2>2
<1>3. y = [input    |-> IF drop THEN Swap(s, p, l) ELSE s,
           pos      |-> IF drop THEN p ELSE p + 1,
           last     |-> IF drop THEN l - 1 ELSE l,
           fanins   |-> x.fanins \cup {t[1]},
           controls |-> x.controls \cup (IF control THEN {t[1]} ELSE {})]
  BY DEF DedupInput
<1> HIDE DEF s, p, l, y
<1>4. CASE drop
  <2> DEFINE r == Swap(s, p, l)
  <2>1. IsSwap(r, s, p, l, AnyInput)
    BY <1>1, <1>2, SwapFacts
  <2>2. /\ y.input = r /\ y.pos = p /\ y.last = l - 1
        /\ x.fanins \subseteq y.fanins /\ x.controls \subseteq y.controls
    BY <1>3, <1>4
  <2> HIDE DEF r
  <2>3. /\ r \in Seq(AnyInput) /\ Len(r) = L
        /\ \A m \in 1..L : r[m] = IF m = p THEN s[l] ELSE IF m = l THEN s[p] ELSE s[m]
    BY <1>1, <2>1 DEF IsSwap
  <2>4. \A m \in 1..l - 1 : m \in 1..l /\ m \in 1..L /\ r[m] = IF m = p THEN s[l] ELSE s[m]
    BY <1>2, <2>3
  <2>5. \A m \in 1..p - 1 : m \in 1..l /\ m \in 1..L /\ r[m] = s[m]
    BY <1>2, <2>3
  <2>6. p - 1 + (L - (l - 1)) = k /\ p \in 1..(l - 1) + 1
    <3>1. p - 1 + (L - l) = k - 1 /\ k \in Nat /\ p \in Nat /\ l \in Nat /\ p >= 1 /\ p <= l
      BY <1>1, <1>2
    <3> QED
      BY <3>1
  <2>7. \A i \in 1..l - 1 : InputOk(v, n, r[i])
    BY <1>1, <1>2, <2>4
  <2>8. \A i, j \in 1..l - 1 : i <= j /\ r[i][2] = Control => r[j][2] = Control
    <3> SUFFICES ASSUME NEW i \in 1..l - 1, NEW j \in 1..l - 1, i <= j, r[i][2] = Control
                 PROVE  r[j][2] = Control
      OBVIOUS
    <3>1. \A m \in 1..l : m >= p => s[m][2] = Control
      BY <1>1, <1>2, <1>4
    <3>2. i \in 1..l /\ j \in 1..l /\ l \in 1..l
      BY <1>2, <2>4
    <3>3. CASE j >= p
      <4>1. s[j][2] = Control /\ s[l][2] = Control
        BY <1>2, <3>1, <3>2, <3>3
      <4> QED
        BY <2>4, <4>1
    <3>4. CASE j < p
      <4>1. i # p /\ j # p
        BY <1>2, <3>2, <3>4
      <4>2. r[i] = s[i] /\ r[j] = s[j]
        BY <2>4, <4>1
      <4> QED
        BY <1>1, <3>2, <4>2
    <3> QED
      BY <1>2, <3>2, <3>3, <3>4
  <2>9. \A i \in 1..p - 1 : r[i][1] \in y.fanins /\ (r[i][2] = Control => r[i][1] \in y.controls)
    BY <1>1, <2>2, <2>5
  <2>10. Kept(v, r, p - 1)
    BY <1>1, <2>5 DEF Kept
  <2> QED
    BY <1>2, <2>2, <2>3, <2>6, <2>7, <2>8, <2>9, <2>10 DEF Deduped, y
<1>5. CASE ~drop
  <2>1. /\ y.input = s /\ y.pos = p + 1 /\ y.last = l
        /\ x.fanins \subseteq y.fanins /\ x.controls \subseteq y.controls
        /\ t[1] \in y.fanins /\ (control => t[1] \in y.controls)
    BY <1>3, <1>5
  <2>2. p + 1 - 1 + (L - l) = k /\ p + 1 \in 1..l + 1 /\ p + 1 - 1 = p
    <3>1. p - 1 + (L - l) = k - 1 /\ k \in Nat /\ p \in Nat /\ l \in Nat /\ p >= 1 /\ p <= l
      BY <1>1, <1>2
    <3> QED
      BY <3>1
  <2>3. \A i \in 1..p : i \in 1..p - 1 \/ i = p
    BY <1>2
  <2>4. \A i \in 1..p : s[i][1] \in y.fanins /\ (s[i][2] = Control => s[i][1] \in y.controls)
    BY <1>1, <2>1, <2>3
  <2>5. Kept(v, s, p)
    <3> SUFFICES ASSUME NEW i \in 1..p, NEW j \in 1..p, i < j, s[i][1] = s[j][1], s[j][2] = Control
                 PROVE  s[i][2] # Control /\ IsIdentity(v, GetNode(v, s[j][1]))
      BY DEF Kept
    <3>1. i \in 1..p - 1
      BY <1>2
    <3>2. CASE j = p
      <4>1. t[1] \in x.fanins /\ control
        BY <1>1, <3>1, <3>2
      <4>2. ~known /\ t[1] \notin x.controls
        BY <1>5, <4>1
      <4>3. HasNode(v, t[1])
        BY <1>1, <1>2 DEF InputOk
      <4>4. IsIdentity(v, GetNode(v, t[1]))
        BY <4>2, <4>3 DEF CanDedupControlWithRegularInput, IsIdentityConsumingSwitch
      <4> QED
        BY <1>1, <3>1, <3>2, <4>2, <4>4
    <3>3. CASE j # p
      <4>1. j \in 1..p - 1
        BY <2>3, <3>3
      <4> QED
        BY <1>1, <3>1, <4>1 DEF Kept
    <3> QED
      BY <3>2, <3>3
  <2> QED
    BY <1>1, <2>1, <2>2, <2>4, <2>5 DEF Deduped, y
<1> QED
  BY <1>4, <1>5

(* A function holds what DedupInputs has after each step.                  *)
DedupInputsSteps(v, n, run) ==
  /\ run[0] = [input |-> v.def[n].input, pos |-> 1, last |-> Len(v.def[n].input), fanins |-> {}, controls |-> {}]
  /\ \A k \in 1..Len(v.def[n].input) : run[k] = DedupInput(v, run[k - 1])
  /\ DedupInputs(v, n) = SubSeq(run[Len(v.def[n].input)].input, 1, run[Len(v.def[n].input)].last)

(* Such a function there is.                                               *)
LEMMA DedupInputsLoop ==
  ASSUME NEW v, NEW n, v.def[n].input \in Seq(AnyInput)
  PROVE  \E run : DedupInputsSteps(v, n, run)
<1> DEFINE L == Len(v.def[n].input)
           After(x, k) == DedupInput(v, x)
           Loop(g, m) == g = [k \in 0..m |-> IF k = 0 THEN [input |-> v.def[n].input, pos |-> 1, last |-> Len(v.def[n].input), fanins |-> {}, controls |-> {}] ELSE After(g[k - 1], k)]
           P == {m \in 0..L : \E g : Loop(g, m)}
<1>0. L \in Nat
  BY LenProperties
<1>1. 0 \in P
  <2> DEFINE g == [k \in 0..0 |-> [input |-> v.def[n].input, pos |-> 1, last |-> Len(v.def[n].input), fanins |-> {}, controls |-> {}]]
  <2>1. Loop(g, 0)
    OBVIOUS
  <2> HIDE DEF g, Loop, L
  <2> QED
    BY <2>1, <1>0
<1>2. ASSUME NEW m \in 1..L, m - 1 \in P PROVE m \in P
  <2>1. PICK g : Loop(g, m - 1)
    BY <1>2
  <2> HIDE DEF After, L, P
  <2> DEFINE y == After(g[m - 1], m)
             h == [k \in 0..m |-> IF k = m THEN y ELSE g[k]]
  <2>0. m \in Nat /\ m # 0 /\ m - 1 \in 0..(m - 1)
    BY <1>0
  <2>2. h[m] = y /\ \A k \in 0..(m - 1) : h[k] = g[k]
    BY <2>0
  <2>3. \A k \in 0..(m - 1) : k # 0 => k - 1 \in 0..(m - 1)
    BY <2>0
  <2>4. \A k \in 0..m : k \in 0..(m - 1) \/ k = m
    BY <2>0
  <2>5. \A k \in 0..m : h[k] = IF k = 0 THEN [input |-> v.def[n].input, pos |-> 1, last |-> Len(v.def[n].input), fanins |-> {}, controls |-> {}] ELSE After(h[k - 1], k)
    <3> HIDE DEF h
    <3>1. \A k \in 0..(m - 1) : h[k] = IF k = 0 THEN [input |-> v.def[n].input, pos |-> 1, last |-> Len(v.def[n].input), fanins |-> {}, controls |-> {}] ELSE After(h[k - 1], k)
      BY <2>1, <2>2, <2>3
    <3>2. h[m] = After(h[m - 1], m)
      BY <2>0, <2>2
    <3> QED
      BY <2>0, <2>4, <3>1, <3>2
  <2>6. Loop(h, m)
    BY <2>5
  <2> HIDE DEF h, Loop
  <2> QED
    BY <2>6 DEF P
<1>3. L \in P
  <2> HIDE DEF P
  <2>1. P \in SUBSET (0..L)
    BY DEF P
  <2>2. P = 0..L
    <3> HIDE DEF L
    <3> QED
      BY <1>0, <1>1, <1>2, <2>1, Throughout
  <2> QED
    BY <1>0, <2>2
<1> DEFINE F == CHOOSE h : Loop(h, L)
<1>4. Loop(F, L)
  <2> HIDE DEF Loop
  <2>1. \E g : Loop(g, L)
    BY <1>3
  <2> HIDE DEF P
  <2> QED
    BY <2>1
<1>5. DedupInputs(v, n) = SubSeq(F[Len(v.def[n].input)].input, 1, F[Len(v.def[n].input)].last)
  BY DEF DedupInputs
<1> HIDE DEF F
<1>6. \A k \in 0..Len(v.def[n].input) : F[k] = IF k = 0 THEN [input |-> v.def[n].input, pos |-> 1, last |-> Len(v.def[n].input), fanins |-> {}, controls |-> {}] ELSE DedupInput(v, F[k - 1])
  BY <1>4
<1>7. \A k \in 1..Len(v.def[n].input) : k \in 0..Len(v.def[n].input) /\ k # 0
  BY <1>0
<1>8. 0 \in 0..Len(v.def[n].input)
  BY <1>0
<1>9. DedupInputsSteps(v, n, F)
  BY <1>5, <1>6, <1>7, <1>8 DEF DedupInputsSteps
<1> QED
  BY <1>9

(* What DedupInputs leaves.                                                *)
Undoubled(v, n, s) == s \in Seq(AnyInput) /\ GivenOk(v, n, s) /\ Kept(v, s, Len(s))

(* DedupInputs: no redundant control is left.                              *)
LEMMA DedupInputsFacts ==
  ASSUME NEW v \in Views, NEW n \in DOMAIN v.def, GivenOk(v, n, v.def[n].input)
  PROVE  Undoubled(v, n, DedupInputs(v, n))
<1> DEFINE s == v.def[n].input
           L == Len(s)
           start == [input |-> s, pos |-> 1, last |-> L, fanins |-> {}, controls |-> {}]
<1>1. s \in Seq(AnyInput) /\ L \in Nat /\ DOMAIN s = 1..L
  BY ViewParts, LenProperties
<1>2. PICK g : DedupInputsSteps(v, n, g)
  BY <1>1, DedupInputsLoop
<1>3. /\ g[0] = start
      /\ \A i \in 1..L : g[i] = DedupInput(v, g[i - 1])
      /\ DedupInputs(v, n) = SubSeq(g[L].input, 1, g[L].last)
  BY <1>2 DEF DedupInputsSteps
<1> DEFINE P == {k \in 0..L : Deduped(v, n, g[k], k, L)}
<1>4. 0 \in P
  <2>1. /\ start.input = s /\ start.pos = 1 /\ start.last = L
    OBVIOUS
  <2>2. RegularFirst(s) /\ \A i \in DOMAIN s : InputOk(v, n, s[i])
    BY DEF GivenOk
  <2> HIDE DEF s, start
  <2>3. \A i, j \in 1..L : i <= j /\ s[i][2] = Control => s[j][2] = Control
    BY <1>1, <2>2 DEF RegularFirst
  <2>4. 1..1 - 1 = {}
    OBVIOUS
  <2>5. Kept(v, s, 0)
    BY <2>4 DEF Kept
  <2>6. Deduped(v, n, start, 0, L)
    <3> HIDE DEF L
    <3>1. L \in 0..L /\ 1 \in 1..L + 1 /\ 1 - 1 + (L - L) = 0 /\ Len(s) = L
      BY <1>1 DEF L
    <3> QED
      BY <1>1, <2>1, <2>2, <2>3, <2>4, <2>5, <3>1 DEF Deduped
  <2> QED
    BY <1>1, <1>3, <2>6
<1>5. ASSUME NEW k \in 1..L, k - 1 \in P PROVE k \in P
  <2> HIDE DEF L
  <2>1. Deduped(v, n, g[k - 1], k - 1, L) /\ k \in 0..L
    BY <1>1, <1>5
  <2>2. Deduped(v, n, DedupInput(v, g[k - 1]), k, L)
    BY <1>1, <2>1, DedupInputFacts
  <2> QED
    BY <1>3, <2>1, <2>2
<1> HIDE DEF P, L
<1>6. L \in P
  <2>1. P \in SUBSET (0..L)
    BY DEF P
  <2>2. P = 0..L
    BY <1>1, <1>4, <1>5, <2>1, Throughout
  <2> QED
    BY <1>1, <2>2
<1> DEFINE x == g[L]
           t == SubSeq(x.input, 1, x.last)
<1>7. Deduped(v, n, x, L, L)
  BY <1>6 DEF P
<1> HIDE DEF x
<1>8. /\ x.input \in Seq(AnyInput) /\ Len(x.input) = L
      /\ x.last \in 0..L /\ x.pos \in 1..x.last + 1 /\ x.pos - 1 + (L - x.last) = L
      /\ \A i \in 1..x.last : InputOk(v, n, x.input[i])
      /\ \A i, j \in 1..x.last : i <= j /\ x.input[i][2] = Control => x.input[j][2] = Control
      /\ Kept(v, x.input, x.pos - 1)
  BY <1>7 DEF Deduped
<1>9. x.pos - 1 = x.last
  <2>1. x.pos \in Int /\ x.last \in Int
    BY <1>1, <1>8
  <2> QED
    BY <1>1, <1>8, <2>1
<1>10. t \in Seq(AnyInput) /\ Len(t) = x.last /\ DOMAIN t = 1..x.last
       /\ \A i \in 1..x.last : t[i] = x.input[i]
  <2>1. x.last \in 1 - 1..Len(x.input)
    BY <1>1, <1>8
  <2> DEFINE b == x.last
             z == x.input
  <2>2. z \in Seq(AnyInput) /\ b \in 0..Len(z) /\ Len(z) \in Nat
    BY <1>1, <1>8
  <2> HIDE DEF b, z
  <2>3. CASE b = 0
    <3>1. SubSeq(z, 1, 0) = << >>
      BY <2>2, EmptySeq, SubSeqProperties
    <3> QED
      BY <2>3, <3>1 DEF b, z
  <2>4. CASE b # 0
    <3>1. 1 \in 1..Len(z) + 1 /\ b \in 1 - 1..Len(z)
      BY <2>2, <2>4
    <3>2. /\ SubSeq(z, 1, b) \in Seq(AnyInput)
          /\ Len(SubSeq(z, 1, b)) = IF 1 <= b THEN b - 1 + 1 ELSE 0
          /\ \A i \in 1..b - 1 + 1 : SubSeq(z, 1, b)[i] = z[1 + i - 1]
      BY <2>2, <3>1, SubSeqProperties
    <3> QED
      BY <2>2, <2>4, <3>2, LenProperties DEF b, z
  <2> QED
    BY <2>3, <2>4
<1> HIDE DEF t
<1>11. RegularFirst(t)
  <2> SUFFICES ASSUME NEW i \in DOMAIN t, t[i][2] = Control, NEW j \in i..Len(t)
               PROVE  t[j][2] = Control
    BY DEF RegularFirst
  <2>1. x.last \in Nat
    BY <1>1, <1>8
  <2>2. i \in 1..x.last /\ j \in 1..x.last /\ i <= j
    BY <1>10, <2>1
  <2>3. t[i] = x.input[i] /\ t[j] = x.input[j]
    BY <1>10, <2>2
  <2>4. x.input[i][2] = Control
    BY <2>3
  <2>5. x.input[j][2] = Control
    BY <1>8, <2>2, <2>4
  <2> QED
    BY <2>3, <2>5
<1>12. GivenOk(v, n, t)
  BY <1>8, <1>10, <1>11 DEF GivenOk
<1>13. Kept(v, t, Len(t))
  BY <1>8, <1>9, <1>10 DEF Kept
<1> QED
  BY <1>3, <1>10, <1>12, <1>13 DEF Undoubled, t, x

-----------------------------------------------------------------------------
(* A node that is added.                                                   *)

(* The bound may be raised before the port is read.                        *)
LEMMA BoundAhead ==
  ASSUME NEW v \in Views, NEW port \in Ends, NEW z,
         z.max_out = UpdateMaxRegularOutputPortForAddedFanin(v, port).max_out,
         BoundedBut(z, {port})
  PROVE  BoundedBut(z, {})
<1> DEFINE b == Max({At(v.max_out, port[1], 0), port[2]})
           m == Put(v.max_out, port[1], b)
<1>1. PICK f \in Ids, q \in Slots : port = <<f, q>>
  BY DEF Ends
<1>2. port[1] = f /\ port[2] = q
  BY <1>1
<1>3. z.max_out = m
  BY DEF UpdateMaxRegularOutputPortForAddedFanin
<1>4. f \in DOMAIN m /\ m[f] = b /\ q <= b
  <2>1. LET c == Max({At(v.max_out, f, 0), q}) IN
          q <= c /\ f \in DOMAIN Put(v.max_out, f, c) /\ Put(v.max_out, f, c)[f] = c
    BY RaiseFacts
  <2> QED
    BY <1>2, <2>1
<1> HIDE DEF b, m
<1>5. ASSUME NEW g \in Ids, NEW p \in Nat, GetFanout(z, <<g, p>>) # {}
      PROVE  g \in DOMAIN z.max_out /\ p <= z.max_out[g]
  <2>1. CASE <<g, p>> = port
    <3>1. g = f /\ p = q
      BY <1>1, <2>1
    <3> QED
      BY <1>3, <1>4, <3>1
  <2>2. CASE <<g, p>> # port
    BY <1>5, <2>2 DEF BoundedBut
  <2> QED
    BY <2>1, <2>2
<1> QED
  BY <1>5 DEF BoundedBut

(* Inputs s of n are read up to i.                                         *)
Reading(u, w, n, s, i) ==
  /\ Editing(u, w, n, s, {j \in DOMAIN s : j > i}, {})
  /\ w.def[n].input = s
  /\ w.regular[n] \in 0..i
  /\ \A j \in DOMAIN s : j <= i => (j <= w.regular[n] <=> s[j][2] # Control)

(* ReadInput, at one position.                                             *)
LEMMA ReadInputFacts ==
  ASSUME NEW u, WellTyped(u), NEW n \in DOMAIN u.def, NEW s \in Seq(AnyInput),
         RegularFirst(s), \A i \in DOMAIN s : HasNode(u, s[i][1]),
         NEW i \in DOMAIN s, NEW w, Reading(u, w, n, s, i - 1)
  PROVE  Reading(u, ReadInput(w, n, i), n, s, i)
<1> DEFINE H == {j \in DOMAIN s : j > i - 1}
           G == {j \in DOMAIN s : j > i}
           port == OutputPort(u, s[i])
           z == ReadInput(w, n, i)
           E == {}
<1>1. /\ Editing(u, w, n, s, H, E) /\ w.def[n].input = s
      /\ w.regular[n] \in 0..i - 1
      /\ \A j \in DOMAIN s : j <= i - 1 => (j <= w.regular[n] <=> s[j][2] # Control)
  BY DEF Reading
<1>2. /\ \A j \in DOMAIN s : j \in Nat
      /\ i \in Nat /\ i >= 1 /\ i \in 1..Len(s) /\ Len(s) \in Nat /\ DOMAIN s = 1..Len(s)
  BY LenProperties
<1>3. H \ {i} = G
  <2>1. \A j \in DOMAIN s : j > i <=> j > i - 1 /\ j # i
    BY <1>2
  <2> QED
    BY <2>1
<1>4. u \in Views
  BY DEF WellTyped
<1>5. Frame(u, w, n)
  BY <1>1 DEF Editing
<1>6. w \in Views /\ n \in DOMAIN w.def /\ OutputPort(w, s[i]) = port
      /\ DOMAIN w.regular = DOMAIN w.def
  BY <1>5, EditingParts
<1>7. HasNode(u, s[i][1]) /\ port \in Ends /\ port[2] = s[i][2]
      /\ (s[i][2] = Control => Slot(s[i], i) = Control)
      /\ (s[i][2] # Control => Slot(s[i], i) = i)
  BY <1>4, InputFacts
<1>8. \A p : E \cup {p} = {p} /\ E \ {p} = E
  OBVIOUS
<1> HIDE DEF H, G, port, E
<1>9. CASE s[i][2] = Control
  <2>1. z = Link(w, port, <<n, Slot(s[i], i)>>)
    BY <1>1, <1>6, <1>7, <1>9 DEF ReadInput
  <2>2. LET x == Link(w, port, <<n, Slot(s[i], i)>>) IN
         port[2] = Control \/ GetFanout(w, port) # {} => Edited(u, w, x, n, s, H \ {i}, E)
    BY <1>1, <1>7, EditLink DEF port
  <2>3. Edited(u, w, z, n, s, G, E)
    BY <1>3, <1>7, <1>9, <2>1, <2>2
  <2> HIDE DEF z
  <2>4. Editing(u, z, n, s, G, E) /\ z.def = w.def /\ z.regular = w.regular
    BY <2>3 DEF Edited
  <2>5. \A j \in DOMAIN s : j <= i => (j <= w.regular[n] <=> s[j][2] # Control)
    <3> TAKE j \in DOMAIN s
    <3>1. CASE j = i
      <4>1. ~(i <= w.regular[n])
        BY <1>1, <1>2
      <4> QED
        BY <1>9, <3>1, <4>1
    <3>2. CASE j # i
      <4>1. j <= i => j <= i - 1
        BY <1>2, <3>2
      <4> QED
        BY <1>1, <4>1
    <3> QED
      BY <3>1, <3>2
  <2>6. w.regular[n] \in 0..i
    BY <1>1, <1>2
  <2> QED
    BY <1>1, <2>4, <2>5, <2>6 DEF Reading, z, G, E
<1>10. CASE s[i][2] # Control
  <2> DEFINE a == SetInputs(w, n, s, i)
             b == UpdateMaxRegularOutputPortForAddedFanin(a, port)
  <2>1. z = Link(b, port, <<n, Slot(s[i], i)>>)
    BY <1>1, <1>6, <1>7, <1>10 DEF ReadInput
  <2>2. Editing(u, a, n, s, H, E) /\ a.def[n].input = s /\ a.regular[n] = i
    BY <1>1, <1>2, EditSet
  <2> HIDE DEF a
  <2>3. Rebound(u, a, b, n, s, H, E \ {port})
    BY <1>7, <2>2, EditBound
  <2>4. a \in Views
    BY <2>2, EditingParts DEF Editing
  <2>5. \A x : x.max_out = b.max_out /\ BoundedBut(x, {port}) => BoundedBut(x, {})
    BY <1>7, <2>4, BoundAhead
  <2> HIDE DEF b
  <2>6. Editing(u, b, n, s, H, E) /\ b.def = a.def /\ b.regular = a.regular
    BY <1>8, <2>3 DEF Rebound
  <2>7. LET x == Link(b, port, <<n, Slot(s[i], i)>>) IN
        Edited(u, b, x, n, s, H \ {i}, E \cup {port})
    BY <1>7, <2>6, EditLink DEF port
  <2>8. Edited(u, b, z, n, s, G, {port})
    BY <1>3, <1>8, <2>1, <2>7
  <2> HIDE DEF z
  <2>9. Editing(u, z, n, s, G, {port}) /\ z.def = a.def /\ z.regular = a.regular
        /\ z.max_out = b.max_out
    BY <2>6, <2>8 DEF Edited
  <2>10. Editing(u, z, n, s, G, {})
    BY <2>5, <2>9 DEF Editing
  <2>11. z.def[n].input = s /\ z.regular[n] = i
    BY <2>2, <2>9
  <2>12. \A j \in DOMAIN s : j <= i => (j <= i <=> s[j][2] # Control)
    <3> SUFFICES ASSUME NEW j \in DOMAIN s, j <= i PROVE s[j][2] # Control
      OBVIOUS
    <3>1. i \in j..Len(s)
      BY <1>2
    <3> QED
      BY <1>10, <3>1 DEF RegularFirst
  <2>13. i \in 0..i
    BY <1>2
  <2> QED
    BY <2>10, <2>11, <2>12, <2>13 DEF Reading, z, G
<1> QED
  BY <1>9, <1>10

(* A function holds what AddAndDedupFanouts has after each step.           *)
AddAndDedupFanoutsSteps(v, n, run) ==
  /\ run[0] = SetInput(v, n, DedupInputs(v, n))
  /\ \A k \in 1..Len(DedupInputs(v, n)) : run[k] = ReadInput(run[k - 1], n, k)
  /\ AddAndDedupFanouts(v, n) = run[Len(DedupInputs(v, n))]

(* Such a function there is.                                               *)
LEMMA AddAndDedupFanoutsLoop ==
  ASSUME NEW v, NEW n, DedupInputs(v, n) \in Seq(AnyInput)
  PROVE  \E run : AddAndDedupFanoutsSteps(v, n, run)
<1> DEFINE L == Len(DedupInputs(v, n))
           After(x, k) == ReadInput(x, n, k)
           Loop(g, m) == g = [k \in 0..m |-> IF k = 0 THEN SetInput(v, n, DedupInputs(v, n)) ELSE After(g[k - 1], k)]
           P == {m \in 0..L : \E g : Loop(g, m)}
<1>0. L \in Nat
  BY LenProperties
<1>1. 0 \in P
  <2> DEFINE g == [k \in 0..0 |-> SetInput(v, n, DedupInputs(v, n))]
  <2>1. Loop(g, 0)
    OBVIOUS
  <2> HIDE DEF g, Loop, L
  <2> QED
    BY <2>1, <1>0
<1>2. ASSUME NEW m \in 1..L, m - 1 \in P PROVE m \in P
  <2>1. PICK g : Loop(g, m - 1)
    BY <1>2
  <2> HIDE DEF After, L, P
  <2> DEFINE y == After(g[m - 1], m)
             h == [k \in 0..m |-> IF k = m THEN y ELSE g[k]]
  <2>0. m \in Nat /\ m # 0 /\ m - 1 \in 0..(m - 1)
    BY <1>0
  <2>2. h[m] = y /\ \A k \in 0..(m - 1) : h[k] = g[k]
    BY <2>0
  <2>3. \A k \in 0..(m - 1) : k # 0 => k - 1 \in 0..(m - 1)
    BY <2>0
  <2>4. \A k \in 0..m : k \in 0..(m - 1) \/ k = m
    BY <2>0
  <2>5. \A k \in 0..m : h[k] = IF k = 0 THEN SetInput(v, n, DedupInputs(v, n)) ELSE After(h[k - 1], k)
    <3> HIDE DEF h
    <3>1. \A k \in 0..(m - 1) : h[k] = IF k = 0 THEN SetInput(v, n, DedupInputs(v, n)) ELSE After(h[k - 1], k)
      BY <2>1, <2>2, <2>3
    <3>2. h[m] = After(h[m - 1], m)
      BY <2>0, <2>2
    <3> QED
      BY <2>0, <2>4, <3>1, <3>2
  <2>6. Loop(h, m)
    BY <2>5
  <2> HIDE DEF h, Loop
  <2> QED
    BY <2>6 DEF P
<1>3. L \in P
  <2> HIDE DEF P
  <2>1. P \in SUBSET (0..L)
    BY DEF P
  <2>2. P = 0..L
    <3> HIDE DEF L
    <3> QED
      BY <1>0, <1>1, <1>2, <2>1, Throughout
  <2> QED
    BY <1>0, <2>2
<1> DEFINE F == CHOOSE h : Loop(h, L)
<1>4. Loop(F, L)
  <2> HIDE DEF Loop
  <2>1. \E g : Loop(g, L)
    BY <1>3
  <2> HIDE DEF P
  <2> QED
    BY <2>1
<1>5. AddAndDedupFanouts(v, n) = F[Len(DedupInputs(v, n))]
  BY DEF AddAndDedupFanouts
<1> HIDE DEF F
<1>6. \A k \in 0..Len(DedupInputs(v, n)) : F[k] = IF k = 0 THEN SetInput(v, n, DedupInputs(v, n)) ELSE ReadInput(F[k - 1], n, k)
  BY <1>4
<1>7. \A k \in 1..Len(DedupInputs(v, n)) : k \in 0..Len(DedupInputs(v, n)) /\ k # 0
  BY <1>0
<1>8. 0 \in 0..Len(DedupInputs(v, n))
  BY <1>0
<1>9. AddAndDedupFanoutsSteps(v, n, F)
  BY <1>5, <1>6, <1>7, <1>8 DEF AddAndDedupFanoutsSteps
<1> QED
  BY <1>9

(* A node whose inputs are as they were given, and that nothing reads for. *)
Given(v, n) ==
  /\ v.regular[n] = 0 /\ Reads(v, n, <<>>, {}) /\ GivenOk(v, n, v.def[n].input)

(* Inputs without redundant controls are right.                            *)
LEMMA UndoubledOk ==
  ASSUME NEW v, NEW n, NEW s, Undoubled(v, n, s), NEW k \in 0..Len(s),
         \A j \in DOMAIN s : j <= k <=> s[j][2] # Control
  PROVE  InputsOk(v, n, s, k, {})
<1>1. /\ s \in Seq(AnyInput) /\ Kept(v, s, Len(s)) /\ \A i \in DOMAIN s : InputOk(v, n, s[i])
      /\ DOMAIN s = 1..Len(s) /\ Len(s) \in Nat
  BY LenProperties DEF Undoubled, GivenOk
<1>2. k \in Nat /\ k <= Len(s)
  BY <1>1
<1>3. \A i, j \in DOMAIN s : i < j /\ s[i][1] = s[j][1] /\ s[j][2] = Control =>
        s[i][2] # Control /\ IsIdentity(v, GetNode(v, s[j][1]))
  BY <1>1 DEF Kept
<1>4. \A i, j \in DOMAIN s : i < j \/ j < i \/ i = j
  BY <1>1
<1>5. Single(s)
  BY <1>3, <1>4 DEF Single
<1>6. NoRepeat(v, s, {})
  <2> SUFFICES ASSUME NEW i \in DOMAIN s, NEW j \in DOMAIN s, s[i][2] = Control, s[j][2] # Control,
                      s[i][1] = s[j][1]
               PROVE  IsIdentity(v, GetNode(v, s[i][1]))
    BY DEF NoRepeat
  <2>1. j <= k /\ ~(i <= k)
    OBVIOUS
  <2>2. j < i
    BY <1>1, <1>2, <2>1
  <2> QED
    BY <1>3, <2>2
<1>7. Sound(v, n, s, k)
  BY <1>1, <1>2 DEF Sound, InputOk
<1> QED
  BY <1>5, <1>6, <1>7 DEF InputsOk

(* The view has what n reads.                                              *)
Joined(v, w, n) == Frame(v, w, n) /\ BoundedBut(w, {}) /\ NodeOk(w, n, {})

(* AddAndDedupFanouts: the node is in the view.                            *)
LEMMA AddAndDedupFanoutsFacts ==
  ASSUME NEW v, WellTyped(v), BoundedBut(v, {}), NEW n \in DOMAIN v.def, Given(v, n)
  PROVE  Joined(v, AddAndDedupFanouts(v, n), n)
<1> DEFINE s == DedupInputs(v, n)
           L == Len(s)
           u == SetInput(v, n, s)
           w == AddAndDedupFanouts(v, n)
<1>1. v \in Views /\ DOMAIN v.regular = DOMAIN v.def
  BY DEF WellTyped
<1>2. v.regular[n] = 0 /\ Reads(v, n, <<>>, {}) /\ GivenOk(v, n, v.def[n].input)
  BY DEF Given
<1>3. Undoubled(v, n, s)
  BY <1>1, <1>2, DedupInputsFacts
<1>4. s \in Seq(AnyInput) /\ RegularFirst(s) /\ \A i \in DOMAIN s : HasNode(v, s[i][1])
  BY <1>3 DEF Undoubled, GivenOk, InputOk
<1>5. L \in Nat /\ DOMAIN s = 1..L
  BY <1>4, LenProperties
<1>6. PICK g : AddAndDedupFanoutsSteps(v, n, g)
  BY <1>4, AddAndDedupFanoutsLoop
<1>7. /\ g[0] = u
      /\ \A i \in 1..L : g[i] = ReadInput(g[i - 1], n, i)
      /\ w = g[L]
  BY <1>6 DEF AddAndDedupFanoutsSteps
<1> HIDE DEF s, w
<1>8. /\ Frame(v, u, n) /\ u.max_out = v.max_out /\ u.regular = v.regular /\ u.def[n].input = s
      /\ \A port : GetFanout(u, port) = GetFanout(v, port)
  BY <1>1, <1>4, SetFrame, SetInputFacts
<1> HIDE DEF u
<1>9. WellTyped(u) /\ n \in DOMAIN u.def /\ \A i \in DOMAIN s : HasNode(u, s[i][1])
  <2>1. SameNames(v, u)
    BY <1>8, FrameNames
  <2>2. \A name : HasNode(u, name) <=> HasNode(v, name)
    BY <2>1, SameNode
  <2>3. WellTyped(u)
    BY <1>8, FrameTyped
  <2> QED
    BY <1>4, <1>8, <2>2, <2>3 DEF Frame
<1> HIDE DEF L
<1> DEFINE P == {i \in 0..L : Reading(u, g[i], n, s, i)}
<1>10. 0 \in P
  <2> DEFINE H == {j \in DOMAIN s : j > 0}
  <2>1. H = DOMAIN s /\ \A j \in DOMAIN s : ~(j <= 0)
    BY <1>5
  <2>2. Reads(u, n, <<>>, {})
    <3>1. SameNames(v, u)
      BY <1>8, FrameNames
    <3> QED
      BY <1>2, <1>8, <3>1, ReadsSame
  <2>3. Reads(u, n, s, H)
    <3>1. DOMAIN s \ H = {} /\ DOMAIN <<>> \ {} = {}
      BY <2>1
    <3> HIDE DEF H
    <3> QED
      BY <2>2, <3>1 DEF Reads
  <2>4. BoundedBut(u, {})
    BY <1>8 DEF BoundedBut
  <2>5. Frame(u, u, n)
    BY <1>9, FrameSelf DEF WellTyped
  <2>6. Editing(u, u, n, s, H, {})
    <3> HIDE DEF H
    <3> QED
      BY <2>3, <2>4, <2>5 DEF Editing
  <2>7. u.regular[n] \in 0..0
    BY <1>2, <1>8
  <2>8. Reading(u, u, n, s, 0)
    BY <1>8, <2>1, <2>6, <2>7 DEF Reading
  <2> QED
    BY <1>5, <1>7, <2>8
<1>11. ASSUME NEW i \in 1..L, i - 1 \in P PROVE i \in P
  <2>1. Reading(u, g[i - 1], n, s, i - 1) /\ i \in 0..L /\ i \in DOMAIN s
    BY <1>5, <1>11
  <2>2. Reading(u, ReadInput(g[i - 1], n, i), n, s, i)
    BY <1>4, <1>9, <2>1, ReadInputFacts
  <2> QED
    BY <1>7, <2>1, <2>2
<1> HIDE DEF P
<1>12. L \in P
  <2>1. P \in SUBSET (0..L)
    BY DEF P
  <2>2. P = 0..L
    BY <1>5, <1>10, <1>11, <2>1, Throughout
  <2> QED
    BY <1>5, <2>2
<1>13. Reading(u, w, n, s, L)
  BY <1>7, <1>12 DEF P
<1> DEFINE H == {j \in DOMAIN s : j > L}
<1>14. H = {} /\ \A j \in DOMAIN s : j <= L
  BY <1>5
<1>15. /\ Editing(u, w, n, s, {}, {}) /\ w.def[n].input = s
       /\ w.regular[n] \in 0..L
       /\ \A j \in DOMAIN s : j <= w.regular[n] <=> s[j][2] # Control
  BY <1>13, <1>14 DEF Reading
<1>16. Frame(u, w, n) /\ BoundedBut(w, {}) /\ Reads(w, n, s, {})
  BY <1>15 DEF Editing
<1>17. Frame(v, w, n)
  BY <1>8, <1>16, FrameTrans
<1>18. InputsOk(v, n, s, w.regular[n], {})
  BY <1>3, <1>15, UndoubledOk DEF L
<1>19. InputsOk(w, n, s, w.regular[n], {})
  BY <1>1, <1>17, <1>18, FrameInputs
<1> QED
  BY <1>15, <1>16, <1>17, <1>19 DEF Joined, NodeOk, w

-----------------------------------------------------------------------------
(* A view that is being built: the nodes in D are still to be added.       *)
Building(v, D) ==
  /\ WellTyped(v) /\ BoundedBut(v, {}) /\ NoStray(v)
  /\ \A n \in DOMAIN v.def : n \notin D => NodeOk(v, n, {})
  /\ \A n \in DOMAIN v.def : n \in D => Given(v, n)

(* What is given to a node is not touched when another one is added.       *)
LEMMA FrameGiven ==
  ASSUME NEW v \in Views, NEW w, NEW n, Frame(v, w, n), NEW m \in DOMAIN v.def \ {n},
         Given(v, m)
  PROVE  Given(w, m)
<1>1. w.def[m] = v.def[m] /\ w.regular[m] = v.regular[m]
  BY DEF Frame
<1>2. v.regular[m] = 0 /\ Reads(v, m, <<>>, {}) /\ GivenOk(v, m, v.def[m].input)
  BY DEF Given
<1>3. m \in Ids /\ m # n
  BY ViewParts
<1>4. Reads(w, m, <<>>, {})
  BY <1>2, <1>3, FrameReads
<1>5. SameNodes(v, w)
  BY FrameNodes
<1>6. \A name : GetNode(w, name) = GetNode(v, name) /\ (HasNode(w, name) <=> HasNode(v, name))
  BY <1>5, SameNodesFacts
<1>7. ASSUME NEW i \in DOMAIN v.def[m].input PROVE InputOk(w, m, v.def[m].input[i])
  <2> DEFINE t == v.def[m].input[i]
             f == GetNode(v, t[1])
  <2>1. InputOk(v, m, t)
    BY <1>2 DEF GivenOk
  <2> HIDE DEF t
  <2>2. HasNode(v, t[1]) /\ f # m /\ (t[2] = Control => ~IsSwitch(v, f))
    BY <2>1 DEF InputOk
  <2>3. f \in DOMAIN v.def
    BY <2>2, NodeFound
  <2>4. HasNode(w, t[1]) /\ GetNode(w, t[1]) = f
    BY <1>6, <2>2
  <2> HIDE DEF f
  <2>5. IsSwitch(w, f) <=> IsSwitch(v, f)
    BY <1>5, <2>3 DEF SameNodes, IsSwitch
  <2>6. InputOk(w, m, t)
    BY <2>2, <2>4, <2>5 DEF InputOk
  <2> QED
    BY <2>6 DEF t
<1>8. GivenOk(w, m, w.def[m].input)
  BY <1>1, <1>2, <1>7 DEF GivenOk
<1> QED
  BY <1>1, <1>2, <1>4, <1>8 DEF Given

(* AddAndDedupFanouts adds one of the nodes that are given.                *)
LEMMA BuildStep ==
  ASSUME NEW v, NEW D, Building(v, D), NEW n \in DOMAIN v.def, n \in D,
         NEW E, E = D \ {n}
  PROVE  LET w == AddAndDedupFanouts(v, n) IN Building(w, E) /\ Frame(v, w, n)
<1> DEFINE w == AddAndDedupFanouts(v, n)
<1>1. WellTyped(v) /\ BoundedBut(v, {}) /\ NoStray(v) /\ Given(v, n) /\ v \in Views
  BY DEF Building, WellTyped
<1>2. Joined(v, w, n)
  BY <1>1, AddAndDedupFanoutsFacts
<1> HIDE DEF w
<1>3. Frame(v, w, n) /\ BoundedBut(w, {}) /\ NodeOk(w, n, {})
  BY <1>2 DEF Joined
<1>4. WellTyped(w) /\ NoStray(w) /\ DOMAIN w.def = DOMAIN v.def
  BY <1>1, <1>3, FrameTyped, FrameStray DEF Frame
<1>5. ASSUME NEW m \in DOMAIN v.def, m \notin E PROVE NodeOk(w, m, {})
  <2>1. CASE m = n
    BY <1>3, <2>1
  <2>2. CASE m # n
    <3>1. m \notin D /\ m \in DOMAIN v.def \ {n}
      BY <1>5, <2>2
    <3>2. NodeOk(v, m, {})
      BY <3>1 DEF Building
    <3> QED
      BY <1>1, <1>3, <3>1, <3>2, FrameNode
  <2> QED
    BY <2>1, <2>2
<1>6. ASSUME NEW m \in DOMAIN v.def, m \in E PROVE Given(w, m)
  <2>1. m \in DOMAIN v.def \ {n} /\ m \in D
    BY <1>6
  <2>2. Given(v, m)
    BY <2>1 DEF Building
  <2> QED
    BY <1>1, <1>3, <2>1, <2>2, FrameGiven
<1>7. Building(w, E)
  BY <1>3, <1>4, <1>5, <1>6 DEF Building
<1> QED
  BY <1>3, <1>7 DEF w

(* Nothing is left to be added.                                            *)
LEMMA BuildEnd ==
  ASSUME NEW v, NEW D, Building(v, D), \A n \in DOMAIN v.def : n \notin D
  PROVE  Good(v, {})
  BY DEF Building, Good

(* A function holds what ViewOf has after each address.                    *)
ViewOfSteps(def, run) ==
  /\ run[0] = NoFanouts(def)
  /\ \A k \in 1..MaxNodes : run[k] = AddFanoutsOf(run[k - 1], k)
  /\ ViewOf(def) = run[MaxNodes]

(* Such a function there is.                                               *)
LEMMA ViewOfLoop ==
  ASSUME NEW def
  PROVE  \E run : ViewOfSteps(def, run)
<1> DEFINE L == MaxNodes
           After(x, k) == AddFanoutsOf(x, k)
           Loop(g, m) == g = [k \in 0..m |-> IF k = 0 THEN NoFanouts(def) ELSE After(g[k - 1], k)]
           P == {m \in 0..L : \E g : Loop(g, m)}
<1>0. L \in Nat
  BY BoundsAssumption
<1>1. 0 \in P
  <2> DEFINE g == [k \in 0..0 |-> NoFanouts(def)]
  <2>1. Loop(g, 0)
    OBVIOUS
  <2> HIDE DEF g, Loop, L
  <2> QED
    BY <2>1, <1>0
<1>2. ASSUME NEW m \in 1..L, m - 1 \in P PROVE m \in P
  <2>1. PICK g : Loop(g, m - 1)
    BY <1>2
  <2> HIDE DEF After, L, P
  <2> DEFINE y == After(g[m - 1], m)
             h == [k \in 0..m |-> IF k = m THEN y ELSE g[k]]
  <2>0. m \in Nat /\ m # 0 /\ m - 1 \in 0..(m - 1)
    BY <1>0
  <2>2. h[m] = y /\ \A k \in 0..(m - 1) : h[k] = g[k]
    BY <2>0
  <2>3. \A k \in 0..(m - 1) : k # 0 => k - 1 \in 0..(m - 1)
    BY <2>0
  <2>4. \A k \in 0..m : k \in 0..(m - 1) \/ k = m
    BY <2>0
  <2>5. \A k \in 0..m : h[k] = IF k = 0 THEN NoFanouts(def) ELSE After(h[k - 1], k)
    <3> HIDE DEF h
    <3>1. \A k \in 0..(m - 1) : h[k] = IF k = 0 THEN NoFanouts(def) ELSE After(h[k - 1], k)
      BY <2>1, <2>2, <2>3
    <3>2. h[m] = After(h[m - 1], m)
      BY <2>0, <2>2
    <3> QED
      BY <2>0, <2>4, <3>1, <3>2
  <2>6. Loop(h, m)
    BY <2>5
  <2> HIDE DEF h, Loop
  <2> QED
    BY <2>6 DEF P
<1>3. L \in P
  <2> HIDE DEF P
  <2>1. P \in SUBSET (0..L)
    BY DEF P
  <2>2. P = 0..L
    <3> HIDE DEF L
    <3> QED
      BY <1>0, <1>1, <1>2, <2>1, Throughout
  <2> QED
    BY <1>0, <2>2
<1> DEFINE F == CHOOSE h : Loop(h, L)
<1>4. Loop(F, L)
  <2> HIDE DEF Loop
  <2>1. \E g : Loop(g, L)
    BY <1>3
  <2> HIDE DEF P
  <2> QED
    BY <2>1
<1>5. ViewOf(def) = F[MaxNodes]
  BY DEF ViewOf
<1> HIDE DEF F
<1>6. \A k \in 0..MaxNodes : F[k] = IF k = 0 THEN NoFanouts(def) ELSE AddFanoutsOf(F[k - 1], k)
  BY <1>4
<1>7. \A k \in 1..MaxNodes : k \in 0..MaxNodes /\ k # 0
  BY <1>0
<1>8. 0 \in 0..MaxNodes
  BY <1>0
<1>9. ViewOfSteps(def, F)
  BY <1>5, <1>6, <1>7, <1>8 DEF ViewOfSteps
<1> QED
  BY <1>9

(* The view a graph is given with is one to be built.                      *)
LEMMA NoFanoutsBuilding ==
  ASSUME NEW def, IsGraph(def)
  PROVE  Building(NoFanouts(def), Ids) /\ NoFanouts(def).def = def
<1> DEFINE v == NoFanouts(def)
           none == [p \in {} |-> {}]
           nob == [n \in {} |-> 0]
           reg == [n \in DOMAIN def |-> 0]
<1>1. v = [def |-> def, fanouts |-> none, regular |-> reg, max_out |-> nob]
  BY DEF NoFanouts
<1>2. none \in Partial(Ends, SUBSET Ends) /\ DOMAIN none = {}
  <2>1. DOMAIN none = {} /\ none \in [DOMAIN none -> SUBSET Ends]
    OBVIOUS
  <2> HIDE DEF none
  <2>2. DOMAIN none \in SUBSET Ends
    BY <2>1
  <2> QED
    BY <2>1, <2>2, PartialDef
<1>3. nob \in Partial(Ids, Nat)
  <2>1. DOMAIN nob = {} /\ nob \in [DOMAIN nob -> Nat]
    OBVIOUS
  <2> HIDE DEF nob
  <2>2. DOMAIN nob \in SUBSET Ids
    BY <2>1
  <2> QED
    BY <2>1, <2>2, PartialDef
<1>4. DOMAIN def \in SUBSET Ids
  BY DEF IsGraph
<1>5. reg \in Partial(Ids, Nat) /\ DOMAIN reg = DOMAIN def /\ \A n \in DOMAIN def : reg[n] = 0
  <2>1. DOMAIN reg = DOMAIN def /\ reg \in [DOMAIN reg -> Nat] /\ \A n \in DOMAIN def : reg[n] = 0
    OBVIOUS
  <2> HIDE DEF reg
  <2> QED
    BY <1>4, <2>1, PartialDef
<1>6. ASSUME NEW n \in DOMAIN def
      PROVE  /\ def[n] \in [name : Names, op : Ops, input : Seq(Tensors)]
             /\ def[n] \in NodeDefs /\ def[n].name \in Names
             /\ def[n].input \in Seq(AnyInput)
  <2>1. def[n] \in [name : Names, op : Ops, input : Seq(Tensors)]
    BY DEF IsGraph
  <2>2. def[n].name \in Names /\ def[n].op \in Ops /\ def[n].input \in Seq(Tensors)
    BY <2>1
  <2>3. Names \subseteq AllNames /\ Tensors \subseteq AnyInput
    BY DEF AllNames, AnyInput, Tensors, AnyPort
  <2>4. Seq(Tensors) \subseteq Seq(AnyInput)
    BY <2>3
  <2>5. def[n] = [name |-> def[n].name, op |-> def[n].op, input |-> def[n].input]
    BY <2>1
  <2> QED
    BY <2>1, <2>2, <2>3, <2>4, <2>5 DEF NodeDefs
<1>7. def \in Partial(Ids, NodeDefs)
  <2>0. def = [n \in DOMAIN def |-> def[n]]
    BY DEF IsGraph
  <2>1. def \in [DOMAIN def -> NodeDefs]
    BY <1>6, <2>0
  <2> QED
    BY <1>4, <2>1, PartialDef
<1> HIDE DEF none, nob, reg
<1>8. v \in Views /\ v.def = def /\ v.fanouts = none /\ v.regular = reg
  BY <1>1, <1>2, <1>3, <1>5, <1>7 DEF Views
<1> HIDE DEF v
<1>9. \A port : GetFanout(v, port) = {}
  BY <1>2, <1>8 DEF GetFanout, At
<1>10. UniqueNames(v)
  BY <1>8 DEF IsGraph, UniqueNames
<1>11. AnchorsNamed(v)
  BY <1>6, <1>8 DEF AnchorsNamed
<1>12. WellTyped(v)
  BY <1>5, <1>8, <1>10, <1>11 DEF WellTyped
<1>13. BoundedBut(v, {}) /\ NoStray(v)
  BY <1>9 DEF BoundedBut, NoStray
<1>14. ASSUME NEW n \in DOMAIN def PROVE Given(v, n)
  <2> DEFINE s == def[n].input
  <2>1. v.regular[n] = 0
    BY <1>5, <1>8
  <2>2. Reads(v, n, <<>>, {})
    BY <1>9 DEF Reads
  <2>3. RegularFirst(s)
    BY DEF IsGraph
  <2>4. ASSUME NEW i \in DOMAIN s PROVE InputOk(v, n, s[i])
    <3>1. PICK f \in DOMAIN def \ {n} :
            def[f].name = s[i][1] /\ (s[i][2] = Control => def[f].op # "Switch")
      BY DEF IsGraph
    <3> HIDE DEF s
    <3>2. f \in DOMAIN v.def /\ v.def[f].name = s[i][1]
      BY <1>8, <3>1
    <3>3. GetNode(v, s[i][1]) = f /\ HasNode(v, s[i][1])
      BY <1>8, <1>10, <3>2, NodeNamed
    <3> QED
      BY <1>8, <3>1, <3>3 DEF InputOk, IsSwitch
  <2>5. v.def[n].input = s
    BY <1>8
  <2> HIDE DEF s
  <2>6. GivenOk(v, n, s)
    BY <2>3, <2>4 DEF GivenOk
  <2> QED
    BY <2>1, <2>2, <2>5, <2>6 DEF Given
<1>15. Building(v, Ids)
  BY <1>4, <1>8, <1>12, <1>13, <1>14 DEF Building
<1> QED
  BY <1>8, <1>15 DEF v

(* The constructor makes a view of any graph.                              *)
LEMMA ViewOfGood ==
  ASSUME NEW def, IsGraph(def)
  PROVE  Good(ViewOf(def), {})
<1> DEFINE Left(i) == i + 1..MaxNodes
<1>1. PICK g : ViewOfSteps(def, g)
  BY ViewOfLoop
<1>2. /\ g[0] = NoFanouts(def)
      /\ \A i \in 1..MaxNodes : g[i] = AddFanoutsOf(g[i - 1], i)
      /\ ViewOf(def) = g[MaxNodes]
  BY <1>1 DEF ViewOfSteps
<1>3. MaxNodes \in Nat
  BY BoundsAssumption
<1>4. Building(NoFanouts(def), Ids) /\ NoFanouts(def).def = def
  BY NoFanoutsBuilding
<1>5. Left(0) = Ids
  BY <1>3 DEF Ids
<1>6. \A i \in 1..MaxNodes : Left(i) = Left(i - 1) \ {i} /\ i \in Left(i - 1)
  BY <1>3
<1>7. Left(MaxNodes) = {}
  BY <1>3
<1> HIDE DEF Left
<1> DEFINE P == {i \in 0..MaxNodes : Building(g[i], Left(i)) /\ DOMAIN g[i].def = DOMAIN def}
<1>8. 0 \in P
  BY <1>2, <1>3, <1>4, <1>5
<1>9. ASSUME NEW i \in 1..MaxNodes, i - 1 \in P PROVE i \in P
  <2>1. Building(g[i - 1], Left(i - 1)) /\ DOMAIN g[i - 1].def = DOMAIN def /\ i \in 0..MaxNodes
    BY <1>3, <1>9
  <2>2. g[i] = AddFanoutsOf(g[i - 1], i) /\ Left(i) = Left(i - 1) \ {i} /\ i \in Left(i - 1)
    BY <1>2, <1>6
  <2>3. CASE i \in DOMAIN def
    <3>1. g[i] = AddAndDedupFanouts(g[i - 1], i) /\ i \in DOMAIN g[i - 1].def
      BY <2>1, <2>2, <2>3 DEF AddFanoutsOf
    <3>2. Building(g[i], Left(i)) /\ Frame(g[i - 1], g[i], i)
      BY <2>1, <2>2, <3>1, BuildStep
    <3>3. DOMAIN g[i].def = DOMAIN def
      BY <2>1, <3>2 DEF Frame
    <3> QED
      BY <2>1, <3>2, <3>3
  <2>4. CASE i \notin DOMAIN def
    <3>1. g[i] = g[i - 1]
      BY <2>1, <2>2, <2>4 DEF AddFanoutsOf
    <3>2. \A n \in DOMAIN g[i - 1].def : n \in Left(i - 1) <=> n \in Left(i)
      BY <2>1, <2>2, <2>4
    <3>3. Building(g[i], Left(i))
      BY <2>1, <3>1, <3>2 DEF Building
    <3> QED
      BY <2>1, <3>1, <3>3
  <2> QED
    BY <2>3, <2>4
<1> HIDE DEF P
<1>10. MaxNodes \in P
  <2>1. P \in SUBSET (0..MaxNodes)
    BY DEF P
  <2>2. P = 0..MaxNodes
    BY <1>3, <1>8, <1>9, <2>1, Throughout
  <2> QED
    BY <1>3, <2>2
<1>11. Building(ViewOf(def), Left(MaxNodes))
  BY <1>2, <1>10 DEF P
<1> QED
  BY <1>7, <1>11, BuildEnd

-----------------------------------------------------------------------------
(* u has the nodes of v, as they are, and perhaps more.                    *)
Extends(v, u) ==
  /\ DOMAIN v.def \subseteq DOMAIN u.def
  /\ \A m \in DOMAIN v.def : u.def[m] = v.def[m] /\ u.regular[m] = v.regular[m]

(* The nodes there were are found by their names.                          *)
LEMMA ExtendsNames ==
  ASSUME NEW v \in Views, NEW u \in Views, UniqueNames(u), Extends(v, u),
         NEW name, HasNode(v, name)
  PROVE  HasNode(u, name) /\ GetNode(u, name) = GetNode(v, name)
<1> DEFINE f == GetNode(v, name)
<1>1. f \in DOMAIN v.def /\ v.def[f].name = name
  BY NodeFound
<1> HIDE DEF f
<1>2. f \in DOMAIN u.def /\ u.def[f].name = name
  BY <1>1 DEF Extends
<1>3. GetNode(u, u.def[f].name) = f /\ HasNode(u, u.def[f].name)
  BY <1>2, NodeNamed
<1> QED
  BY <1>2, <1>3 DEF f

(* Extensions follow one another.                                          *)
LEMMA ExtendsTrans ==
  ASSUME NEW u, NEW v, NEW w, Extends(u, v), Extends(v, w)
  PROVE  Extends(u, w)
  BY DEF Extends

(* What was right with the inputs of a node still is.                      *)
LEMMA ExtendsInputs ==
  ASSUME NEW v \in Views, NEW u \in Views, UniqueNames(u), Extends(v, u),
         NEW n, NEW s, NEW k, NEW X, InputsOk(v, n, s, k, X)
  PROVE  InputsOk(u, n, s, k, X)
<1>1. Sound(v, n, s, k) /\ Single(s) /\ NoRepeat(v, s, X)
  BY DEF InputsOk
<1>2. ASSUME NEW i \in DOMAIN s
      PROVE  /\ HasNode(v, s[i][1]) /\ HasNode(u, s[i][1])
             /\ GetNode(u, s[i][1]) = GetNode(v, s[i][1])
             /\ IsSwitch(u, GetNode(v, s[i][1])) <=> IsSwitch(v, GetNode(v, s[i][1]))
             /\ IsIdentity(u, GetNode(v, s[i][1])) <=> IsIdentity(v, GetNode(v, s[i][1]))
  <2>1. HasNode(v, s[i][1])
    BY <1>1 DEF Sound
  <2>2. HasNode(u, s[i][1]) /\ GetNode(u, s[i][1]) = GetNode(v, s[i][1])
    BY <2>1, ExtendsNames
  <2>3. GetNode(v, s[i][1]) \in DOMAIN v.def
    BY <2>1, NodeFound
  <2> QED
    BY <2>1, <2>2, <2>3 DEF Extends, IsSwitch, IsIdentity
<1>3. Sound(u, n, s, k)
  BY <1>1, <1>2 DEF Sound
<1>4. NoRepeat(u, s, X)
  BY <1>1, <1>2 DEF NoRepeat
<1> QED
  BY <1>1, <1>3, <1>4 DEF InputsOk

(* The fanouts hold what a node reads, if its inputs name what they did.   *)
LEMMA ExtendsReads ==
  ASSUME NEW v \in Views, NEW u \in Views, UniqueNames(u), Extends(v, u),
         \A port : GetFanout(u, port) = GetFanout(v, port),
         NEW n, NEW s, NEW k, Sound(v, n, s, k), Reads(v, n, s, {})
  PROVE  Reads(u, n, s, {})
<1>1. \A i \in DOMAIN s : OutputPort(u, s[i]) = OutputPort(v, s[i])
  <2>1. SUFFICES ASSUME NEW i \in DOMAIN s PROVE OutputPort(u, s[i]) = OutputPort(v, s[i])
    OBVIOUS
  <2>2. HasNode(v, s[i][1])
    BY DEF Sound
  <2>3. GetNode(u, s[i][1]) = GetNode(v, s[i][1])
    BY <2>2, ExtendsNames
  <2> QED
    BY <2>3 DEF OutputPort
<1> QED
  BY <1>1 DEF Reads

(* A node to be added, and the view before its inputs are read.            *)
Fresh(v, node) ==
  /\ node \in NodeDefs /\ ~HasNode(v, node.name)
  /\ node.name \in Names \/ node.op = "Identity"
  /\ RegularFirst(node.input)
  /\ \A i \in DOMAIN node.input :
       /\ HasNode(v, node.input[i][1])
       /\ node.input[i][2] = Control => ~IsSwitch(v, GetNode(v, node.input[i][1]))

(* A NodeDef at an address.                                                *)
WithNode(v, n, node) ==
  [v EXCEPT !.def = Put(@, n, node), !.regular = Put(@, n, 0)]

(* A NodeDef is stored at a free address.                                  *)
LEMMA WithNodeFacts ==
  ASSUME NEW v \in Views, DOMAIN v.regular = DOMAIN v.def,
         NEW n \in Ids \ DOMAIN v.def, NEW node \in NodeDefs
  PROVE  LET u == WithNode(v, n, node) IN
         /\ u \in Views /\ DOMAIN u.def = DOMAIN v.def \cup {n}
         /\ DOMAIN u.regular = DOMAIN u.def
         /\ u.def[n] = node /\ u.regular[n] = 0
         /\ u.max_out = v.max_out /\ u.fanouts = v.fanouts
         /\ Extends(v, u)
<1> DEFINE d == Put(v.def, n, node)
           r == Put(v.regular, n, 0)
           u == WithNode(v, n, node)
<1>1. v.def \in Partial(Ids, NodeDefs) /\ v.regular \in Partial(Ids, Nat)
  BY ViewParts
<1>2. d \in Partial(Ids, NodeDefs) /\ DOMAIN d = DOMAIN v.def \cup {n}
  <2>1. DOMAIN v.def \in SUBSET Ids /\ v.def \in [DOMAIN v.def -> NodeDefs]
    BY <1>1, PartialDef
  <2>2. DOMAIN d = DOMAIN v.def \cup {n} /\ DOMAIN d \in SUBSET Ids
    BY <2>1 DEF Put
  <2>3. d \in [DOMAIN v.def \cup {n} -> NodeDefs]
    BY <2>1 DEF Put
  <2> HIDE DEF d
  <2> QED
    BY <2>2, <2>3, PartialDef
<1>3. r \in Partial(Ids, Nat) /\ DOMAIN r = DOMAIN v.def \cup {n}
  <2>1. \A x \in Nat : /\ Put(v.regular, n, x) \in Partial(Ids, Nat)
                      /\ DOMAIN Put(v.regular, n, x) = DOMAIN v.regular \cup {n}
    BY <1>1, PutBound
  <2> QED
    BY <2>1
<1>4. d[n] = node /\ \A m \in DOMAIN v.def : d[m] = v.def[m]
  BY DEF Put
<1>5. r[n] = 0 /\ \A m \in DOMAIN v.def : r[m] = v.regular[m]
  BY DEF Put
<1>6. u = [v EXCEPT !.def = d, !.regular = r]
  BY DEF WithNode
<1> HIDE DEF d, r, u
<1>7. u \in Views /\ u.def = d /\ u.regular = r /\ u.max_out = v.max_out /\ u.fanouts = v.fanouts
  BY <1>2, <1>3, <1>6 DEF Views
<1>8. Extends(v, u)
  BY <1>2, <1>4, <1>5, <1>7 DEF Extends
<1> QED
  BY <1>2, <1>3, <1>4, <1>5, <1>7, <1>8 DEF u

(* What adding a node changes.                                             *)
NodeAdded(v, w, node) ==
  /\ Good(w, {}) /\ Extends(v, w) /\ HasNode(w, node.name)
  /\ \E n \in Ids : n \notin DOMAIN v.def /\ DOMAIN w.def = DOMAIN v.def \cup {n}

(* AddNodeInternal.                                                        *)
LEMMA AddNodeFacts ==
  ASSUME NEW v, Good(v, {}), NEW node, Fresh(v, node), Ids \ DOMAIN v.def # {}
  PROVE  NodeAdded(v, AddNodeInternal(v, node), node)
<1> DEFINE n == Min(Ids \ DOMAIN v.def)
           u == WithNode(v, n, node)
           w == AddAndDedupFanouts(u, n)
           s == node.input
<1>1. WellTyped(v) /\ v \in Views /\ BoundedBut(v, {}) /\ NoStray(v)
      /\ DOMAIN v.regular = DOMAIN v.def /\ \A m \in DOMAIN v.def : NodeOk(v, m, {})
  BY DEF Good, WellTyped
<1>2. n \in Ids \ DOMAIN v.def
  <2> DEFINE free == Ids \ DOMAIN v.def
  <2>1. free \in SUBSET Nat /\ free # {}
    BY IdsAndControl
  <2> HIDE DEF free
  <2>2. Min(free) \in free
    BY <2>1, LeastOf
  <2> QED
    BY <2>2 DEF free
<1>3. AddNodeInternal(v, node) = w
  BY DEF AddNodeInternal, WithNode
<1> HIDE DEF n
<1>4. node \in NodeDefs /\ ~HasNode(v, node.name) /\ node.name \in AllNames
  BY DEF Fresh, NodeDefs
<1>5. /\ u \in Views /\ DOMAIN u.def = DOMAIN v.def \cup {n}
      /\ DOMAIN u.regular = DOMAIN u.def
      /\ u.def[n] = node /\ u.regular[n] = 0
      /\ u.max_out = v.max_out /\ u.fanouts = v.fanouts /\ Extends(v, u)
  BY <1>1, <1>2, <1>4, WithNodeFacts
<1> HIDE DEF u
<1>6. \A port : GetFanout(u, port) = GetFanout(v, port)
  BY <1>5 DEF GetFanout
<1>7. UniqueNames(u)
  <2>1. \A m \in DOMAIN v.def : v.def[m].name # node.name
    BY <1>1, <1>4, NodeFound
  <2>2. \A m \in DOMAIN v.def : u.def[m] = v.def[m]
    BY <1>5 DEF Extends
  <2>3. UniqueNames(v)
    BY <1>1 DEF WellTyped
  <2> QED
    BY <1>5, <2>1, <2>2, <2>3 DEF UniqueNames
<1>8. WellTyped(u)
  <2>1. node.name \in Names \/ node.op = "Identity"
    BY DEF Fresh
  <2>2. AnchorsNamed(u)
    <3>1. \A m \in DOMAIN v.def : u.def[m] = v.def[m]
      BY <1>5 DEF Extends
    <3>2. AnchorsNamed(v)
      BY <1>1 DEF WellTyped
    <3> QED
      BY <1>5, <2>1, <3>1, <3>2 DEF AnchorsNamed
  <2> QED
    BY <1>5, <1>7, <2>2 DEF WellTyped
<1>9. BoundedBut(u, {})
  BY <1>1, <1>5, <1>6 DEF BoundedBut
<1>10. NoStray(u)
  BY <1>1, <1>5, <1>6 DEF NoStray
<1>11. ASSUME NEW m \in DOMAIN v.def PROVE NodeOk(u, m, {})
  <2>1. InputsOk(v, m, v.def[m].input, v.regular[m], {}) /\ Reads(v, m, v.def[m].input, {})
    BY <1>1 DEF NodeOk
  <2>2. u.def[m] = v.def[m] /\ u.regular[m] = v.regular[m]
    BY <1>5 DEF Extends
  <2>3. InputsOk(u, m, v.def[m].input, v.regular[m], {})
    BY <1>1, <1>5, <1>7, <2>1, ExtendsInputs
  <2>4. Sound(v, m, v.def[m].input, v.regular[m])
    BY <2>1 DEF InputsOk
  <2>5. Reads(u, m, v.def[m].input, {})
    BY <1>1, <1>5, <1>6, <1>7, <2>1, <2>4, ExtendsReads
  <2> QED
    BY <2>2, <2>3, <2>5 DEF NodeOk
<1>12. Given(u, n)
  <2>1. Reads(u, n, <<>>, {})
    <3>1. \A port \in Ends, at \in Slots : <<n, at>> \notin GetFanout(u, port)
      <4>1. SUFFICES ASSUME NEW port \in Ends, NEW at \in Slots, <<n, at>> \in GetFanout(v, port)
                     PROVE  FALSE
        BY <1>6
      <4>2. <<n, at>> \in Ends /\ <<n, at>>[1] = n
        BY <1>2 DEF Ends
      <4>3. n \in DOMAIN v.def
        BY <1>1, <4>1, <4>2 DEF NoStray
      <4> QED
        BY <1>2, <4>3
    <3> QED
      BY <3>1 DEF Reads
  <2>2. ASSUME NEW i \in DOMAIN s PROVE InputOk(u, n, s[i])
    <3> DEFINE f == GetNode(v, s[i][1])
    <3>1. HasNode(v, s[i][1]) /\ (s[i][2] = Control => ~IsSwitch(v, f))
      BY DEF Fresh
    <3>2. HasNode(u, s[i][1]) /\ GetNode(u, s[i][1]) = f
      BY <1>1, <1>5, <1>7, <3>1, ExtendsNames
    <3>3. f \in DOMAIN v.def
      BY <1>1, <3>1, NodeFound
    <3> HIDE DEF f
    <3>4. f # n /\ (IsSwitch(u, f) <=> IsSwitch(v, f))
      BY <1>2, <1>5, <3>3 DEF Extends, IsSwitch
    <3> QED
      BY <3>1, <3>2, <3>4 DEF InputOk
  <2>3. RegularFirst(s)
    BY DEF Fresh
  <2>4. u.def[n].input = s
    BY <1>5
  <2> HIDE DEF s
  <2>5. GivenOk(u, n, s)
    BY <2>2, <2>3 DEF GivenOk
  <2> QED
    BY <1>5, <2>1, <2>4, <2>5 DEF Given
<1>13. n \in DOMAIN u.def
  BY <1>5
<1>14. Building(u, {n})
  <2> DEFINE E == {n}
  <2>1. \A m \in DOMAIN u.def : m \notin E => m \in DOMAIN v.def
    BY <1>5
  <2>2. \A m \in DOMAIN u.def : m \in E => m = n
    OBVIOUS
  <2> HIDE DEF E
  <2>3. Building(u, E)
    BY <1>8, <1>9, <1>10, <1>11, <1>12, <2>1, <2>2 DEF Building
  <2> QED
    BY <2>3 DEF E
<1>15. Building(w, {}) /\ Frame(u, w, n)
  <2> DEFINE E == {n}
             Z == {}
  <2>1. n \in E /\ Z = E \ {n}
    OBVIOUS
  <2>2. Building(u, E)
    BY <1>14
  <2> HIDE DEF E, Z
  <2>3. Building(w, Z) /\ Frame(u, w, n)
    BY <1>13, <2>1, <2>2, BuildStep
  <2> QED
    BY <2>3 DEF Z
<1> HIDE DEF w
<1>16. Good(w, {})
  <2>1. \A m \in DOMAIN w.def : m \notin {}
    OBVIOUS
  <2> QED
    BY <1>15, <2>1, BuildEnd
<1>17. /\ DOMAIN w.def = DOMAIN v.def \cup {n} /\ w.def[n].name = node.name
       /\ \A m \in DOMAIN v.def : w.def[m] = u.def[m] /\ w.regular[m] = u.regular[m]
  BY <1>2, <1>5, <1>15 DEF Frame
<1>18. Extends(v, w)
  BY <1>5, <1>17 DEF Extends
<1>19. HasNode(w, node.name)
  <2>1. w \in Views
    BY <1>16 DEF Good, WellTyped
  <2> QED
    BY <1>17, <2>1, NodeFound
<1>20. NodeAdded(v, w, node)
  BY <1>2, <1>16, <1>17, <1>18, <1>19 DEF NodeAdded
<1> QED
  BY <1>3, <1>20

-----------------------------------------------------------------------------
(* The control on a Switch that is added: on which node.                   *)

(* A node there is, or an Identity that is still to be made.               *)
ToBeMade(v, n, port) ==
  /\ port[1] \in DOMAIN v.def /\ v.def[port[1]].name \in Names /\ port[2] \in Ports
  /\ AnchorName(v, port) # v.def[n].name

(* What a control is to be put on.                                         *)
Choice(v, n, port, a) ==
  IF a = Null THEN ToBeMade(v, n, port)
  ELSE a \in DOMAIN v.def /\ a # n /\ ~IsSwitch(v, a)

(* What GetControllingFaninToAdd answers with, if without an error.        *)
LEMMA ChoiceMade ==
  ASSUME NEW v, Good(v, {}), NEW n \in DOMAIN v.def, NEW port \in Ends,
         port[1] \in DOMAIN v.def, port[1] # n, port[2] \in AnyPort,
         NEW a \in ControllingFanins(v, port), ~CannotControl(v, n, port, a)
  PROVE  Choice(v, n, port, a)
<1>1. WellTyped(v) /\ v \in Views /\ NoStray(v)
  BY DEF Good, WellTyped
<1>2. CASE ~IsSwitch(v, port[1])
  <2>1. a = port[1]
    BY <1>2 DEF ControllingFanins
  <2>2. a # Null
    BY <1>1, <2>1, ViewParts, IdsAndControl
  <2> QED
    BY <1>2, <2>1, <2>2 DEF Choice
<1>3. CASE IsSwitch(v, port[1])
  <2>1. port[2] # Control /\ a # n /\ (a = Null => AnchorName(v, port) # v.def[n].name)
    BY <1>3 DEF CannotControl
  <2>2. port[2] \in Ports
    BY <2>1 DEF AnyPort
  <2>3. CASE Anchors(v, port) = {}
    <3>1. a = Null
      BY <1>3, <2>3 DEF ControllingFanins
    <3>2. v.def[port[1]].op = "Switch"
      BY <1>3 DEF IsSwitch
    <3>3. v.def[port[1]].name \in Names
      <4>1. v.def[port[1]].name \in Names \/ v.def[port[1]].op = "Identity"
        BY <1>1 DEF WellTyped, AnchorsNamed
      <4> QED
        BY <3>2, <4>1
    <3> QED
      BY <2>1, <2>2, <3>1, <3>3 DEF Choice, ToBeMade
  <2>4. CASE Anchors(v, port) # {}
    <3>1. a \in Anchors(v, port)
      BY <1>3, <2>4 DEF ControllingFanins
    <3>2. PICK to \in GetFanout(v, port) : a = to[1] /\ IsIdentity(v, a)
      BY <3>1 DEF Anchors
    <3>3. to \in Ends
      BY <1>1, ViewParts
    <3>4. a \in DOMAIN v.def
      BY <1>1, <3>2, <3>3 DEF NoStray
    <3>5. a # Null
      BY <1>1, <3>4, ViewParts, IdsAndControl
    <3>6. ~IsSwitch(v, a)
      BY <3>2 DEF IsIdentity, IsSwitch
    <3> QED
      BY <2>1, <3>4, <3>5, <3>6 DEF Choice
  <2> QED
    BY <2>3, <2>4
<1> QED
  BY <1>2, <1>3

(* The Identity for port is there in w.                                    *)
AnchorMade(v, w, port) ==
  /\ Good(w, {}) /\ Extends(v, w) /\ HasNode(w, AnchorName(v, port))
  /\ HasNode(v, AnchorName(v, port)) => w = v
  /\ \E n \in Ids : DOMAIN w.def \subseteq DOMAIN v.def \cup {n}

(* GetOrCreateIdentityConsumingSwitch.                                     *)
LEMMA AnchorMadeFacts ==
  ASSUME NEW v, Good(v, {}), NEW n \in DOMAIN v.def, NEW port \in Ends,
         ToBeMade(v, n, port),
         HasNode(v, AnchorName(v, port)) \/ Ids \ DOMAIN v.def # {}
  PROVE  AnchorMade(v, GetOrCreateIdentityConsumingSwitch(v, port), port)
<1> DEFINE name == AnchorName(v, port)
           t == <<v.def[port[1]].name, port[2]>>
           in == <<t>>
           node == [name |-> name, op |-> "Identity", input |-> in]
           w == GetOrCreateIdentityConsumingSwitch(v, port)
<1>1. CASE HasNode(v, name)
  <2>1. w = v
    BY <1>1 DEF GetOrCreateIdentityConsumingSwitch
  <2> HIDE DEF name, w
  <2>2. Extends(v, v)
    BY DEF Extends
  <2>3. n \in Ids /\ DOMAIN v.def \subseteq DOMAIN v.def \cup {n}
    BY ViewParts DEF Good, WellTyped
  <2>4. AnchorMade(v, v, port)
    BY <1>1, <2>2, <2>3 DEF AnchorMade, name
  <2> QED
    BY <2>1, <2>4 DEF w
<1>2. CASE ~HasNode(v, name)
  <2>1. w = AddNodeInternal(v, node)
    BY <1>2 DEF GetOrCreateIdentityConsumingSwitch
  <2>2. v.def[port[1]].name \in Names /\ port[2] \in Ports /\ port[1] \in DOMAIN v.def
    BY DEF ToBeMade
  <2>3. name \in AllNames
    BY <2>2 DEF AllNames, AnchorName
  <2>4. t \in AnyInput /\ t[2] # Control /\ t[1] = v.def[port[1]].name
    BY <2>2, IdsAndControl DEF AnyInput, AnyPort, AllNames
  <2>5. HasNode(v, t[1])
    BY <2>2, <2>4, NodeFound DEF Good, WellTyped
  <2> HIDE DEF name, t
  <2>6. /\ node \in NodeDefs /\ node.name = name /\ node.op = "Identity"
        /\ DOMAIN node.input = 1..1 /\ Len(node.input) = 1 /\ node.input[1] = t
    <3>1. in \in Seq(AnyInput) /\ DOMAIN in = 1..1 /\ Len(in) = 1 /\ in[1] = t
      BY <2>4
    <3>2. "Identity" \in Ops
      BY OpsAssumption
    <3> HIDE DEF in
    <3>3. node.name = name /\ node.op = "Identity" /\ node.input = in
      OBVIOUS
    <3>4. node \in NodeDefs
      BY <2>3, <3>1, <3>2 DEF NodeDefs
    <3> QED
      BY <3>1, <3>3, <3>4
  <2> HIDE DEF node
  <2>7. \A i \in DOMAIN node.input : node.input[i] = t
    BY <2>6
  <2>8. RegularFirst(node.input)
    BY <2>4, <2>7 DEF RegularFirst
  <2>9. Fresh(v, node)
    BY <1>2, <2>4, <2>5, <2>6, <2>7, <2>8 DEF Fresh
  <2>10. Ids \ DOMAIN v.def # {}
    BY <1>2 DEF name
  <2>11. NodeAdded(v, w, node)
    BY <2>1, <2>9, <2>10, AddNodeFacts
  <2> HIDE DEF w
  <2>12. AnchorMade(v, w, port)
    BY <1>2, <2>6, <2>11 DEF NodeAdded, AnchorMade, name
  <2> QED
    BY <2>12 DEF w
<1> QED
  BY <1>1, <1>2

(* It is no Switch, and not the node it is made for.                       *)
LEMMA AnchorIsIdentity ==
  ASSUME NEW v, WellTyped(v), NEW n \in DOMAIN v.def, NEW port, ToBeMade(v, n, port),
         NEW w, WellTyped(w), Extends(v, w), HasNode(w, AnchorName(v, port))
  PROVE  LET c == GetNode(w, AnchorName(v, port)) IN
         /\ c \in DOMAIN w.def /\ c # n /\ ~IsSwitch(w, c)
         /\ w.def[c].name = AnchorName(v, port)
<1> DEFINE c == GetNode(w, AnchorName(v, port))
<1>1. w \in Views /\ AnchorsNamed(w)
  BY DEF WellTyped
<1>2. c \in DOMAIN w.def /\ w.def[c].name = AnchorName(v, port)
  BY <1>1, NodeFound
<1> HIDE DEF c
<1>3. AnchorName(v, port) \notin Names
  BY AnchorsAssumption DEF ToBeMade, AnchorName
<1>4. w.def[c].op = "Identity"
  BY <1>1, <1>2, <1>3 DEF AnchorsNamed
<1>5. w.def[n].name = v.def[n].name
  BY DEF Extends
<1>6. c # n
  BY <1>2, <1>5 DEF ToBeMade
<1> QED
  BY <1>2, <1>4, <1>6 DEF IsSwitch, c

-----------------------------------------------------------------------------
(* Calls that add.                                                         *)

(* There is a free address.                                                *)
LEMMA RoomFacts ==
  ASSUME NEW v, Cardinality(Ids \ DOMAIN v.def) >= 1
  PROVE  Ids \ DOMAIN v.def # {}
<1>1. Cardinality({}) = 0
  BY FS_EmptySet
<1> QED
  BY <1>1

(* A name a client uses, and the node that has it.                         *)
LEMMA ClientNode ==
  ASSUME Good(view, {}), NEW name \in Names, Exist({name})
  PROVE  /\ Node(name) \in DOMAIN view.def /\ view.def[Node(name)].name = name
         /\ HasNode(view, name) /\ Node(name) \in Ids
<1>1. view \in Views /\ HasNode(view, name)
  BY DEF Good, WellTyped, Exist
<1> QED
  BY <1>1, NodeFound DEF Node

(* A tensor a client names.                                                *)
LEMMA ClientTensor ==
  ASSUME Good(view, {}), NEW t \in Tensors, Exist({t[1]})
  PROVE  LET port == OutputPort(view, t) IN
         /\ port \in Ends /\ port = <<Node(t[1]), t[2]>>
         /\ port[1] = Node(t[1]) /\ port[2] = t[2]
         /\ Node(t[1]) \in DOMAIN view.def /\ view.def[Node(t[1])].name = t[1]
         /\ t[1] \in Names /\ t[2] \in AnyPort /\ (Regular(t) => t[2] \in Ports)
         /\ t \in AnyInput /\ HasNode(view, t[1])
<1>1. t[1] \in Names /\ t[2] \in AnyPort /\ t \in AnyInput
  BY DEF Tensors, AnyPort, AnyInput, AllNames
<1>2. /\ Node(t[1]) \in DOMAIN view.def /\ view.def[Node(t[1])].name = t[1]
      /\ HasNode(view, t[1]) /\ Node(t[1]) \in Ids
  BY <1>1, ClientNode
<1>3. OutputPort(view, t) = <<Node(t[1]), t[2]>>
  BY DEF OutputPort, Node
<1>4. t[2] \in Slots
  BY <1>1, IdsAndControl
<1>5. OutputPort(view, t) \in Ends
  BY <1>2, <1>3, <1>4 DEF Ends
<1>6. Regular(t) => t[2] \in Ports
  BY <1>1 DEF Regular, AnyPort
<1> QED
  BY <1>1, <1>2, <1>3, <1>5, <1>6

(* AddNode.                                                                *)
LEMMA AddNodeKeeps ==
  ASSUME Good(view, {}), NEW node \in NewNodes, AddNode(node)
  PROVE  Good(view', {})
<1>1. /\ HasRoom(1) /\ ~HasNode(view, node.name)
      /\ \A t \in ToSet(node.input) :
           HasNode(view, t[1]) /\ (Regular(t) \/ ~IsSwitch(view, Node(t[1])))
      /\ view' = AddNodeInternal(view, node)
  BY DEF AddNode, Done
<1>2. node \in [name : Names, op : Ops, input : Seq(Tensors)] /\ RegularFirst(node.input)
  BY NewNodesAssumption
<1>3. node \in NodeDefs /\ node.name \in Names
  <2>1. node.name \in Names /\ node.op \in Ops /\ node.input \in Seq(Tensors)
        /\ node = [name |-> node.name, op |-> node.op, input |-> node.input]
    BY <1>2
  <2>2. Names \subseteq AllNames /\ Tensors \subseteq AnyInput
    BY DEF AllNames, AnyInput, Tensors, AnyPort
  <2>3. Seq(Tensors) \subseteq Seq(AnyInput)
    BY <2>2
  <2> QED
    BY <2>1, <2>2, <2>3 DEF NodeDefs
<1>4. \A i \in DOMAIN node.input : node.input[i] \in ToSet(node.input)
  BY DEF ToSet
<1>5. Fresh(view, node)
  BY <1>1, <1>2, <1>3, <1>4 DEF Fresh, Regular, Node
<1>6. Ids \ DOMAIN view.def # {}
  BY <1>1, RoomFacts DEF HasRoom
<1>7. NodeAdded(view, AddNodeInternal(view, node), node)
  BY <1>5, <1>6, AddNodeFacts
<1> QED
  BY <1>1, <1>7 DEF NodeAdded

(* AddControllingFanin.                                                    *)
LEMMA AddControllingFaninKeeps ==
  ASSUME Good(view, {}), NEW name \in Names, NEW t \in Tensors,
         AddControllingFanin(name, t)
  PROVE  Good(view', {})
<1> DEFINE n == Node(name)
           port == OutputPort(view, t)
<1>1. CASE UNCHANGED view
  BY <1>1
<1>2. CASE ~UNCHANGED view
  <2>1. /\ name # t[1] /\ Exist({name, t[1]})
        /\ \E anchor \in ControllingFanins(view, port) :
             /\ ~CannotControl(view, n, port, anchor)
             /\ LET w == Anchored(view, port, anchor) IN
                /\ anchor = Null => HasRoom(1)
                /\ view' = AddFaninInternal(w, n, <<AnchorNode(w, port, anchor), Control>>)
    BY <1>2 DEF AddControllingFanin, Refuse, Done
  <2>2. Exist({name}) /\ Exist({t[1]})
    BY <2>1 DEF Exist
  <2>3. n \in DOMAIN view.def /\ view.def[n].name = name
    BY <2>2, ClientNode
  <2>4. /\ port \in Ends /\ port[1] \in DOMAIN view.def /\ view.def[port[1]].name = t[1]
        /\ port[2] \in AnyPort
    BY <2>2, ClientTensor
  <2>5. PICK a \in ControllingFanins(view, port) :
             /\ ~CannotControl(view, n, port, a)
             /\ LET w == Anchored(view, port, a) IN
                /\ a = Null => HasRoom(1)
                /\ view' = AddFaninInternal(w, n, <<AnchorNode(w, port, a), Control>>)
    BY <2>1
  <2> DEFINE w == Anchored(view, port, a)
             c == AnchorNode(w, port, a)
  <2> HIDE DEF n, port
  <2>6. (a = Null => HasRoom(1)) /\ view' = AddFaninInternal(w, n, <<c, Control>>)
    BY <2>5
  <2>7. Choice(view, n, port, a)
    BY <2>1, <2>3, <2>4, <2>5, ChoiceMade
  <2>8. CASE a # Null
    <3>1. w = view /\ c = a
      BY <2>8 DEF Anchored, AnchorNode
    <3>2. a \in DOMAIN view.def /\ a # n /\ ~IsSwitch(view, a)
      BY <2>7, <2>8 DEF Choice
    <3>3. AddsControl(view, AddFaninInternal(view, n, <<a, Control>>), n, a)
      BY <2>3, <3>2, AddControlFacts
    <3> QED
      BY <2>6, <3>1, <3>3 DEF AddsControl
  <2>9. CASE a = Null
    <3>1. w = GetOrCreateIdentityConsumingSwitch(view, port)
      BY <2>9 DEF Anchored
    <3>2. ToBeMade(view, n, port)
      BY <2>7, <2>9 DEF Choice
    <3>3. Ids \ DOMAIN view.def # {}
      BY <2>6, <2>9, RoomFacts DEF HasRoom
    <3>4. AnchorMade(view, w, port)
      BY <2>3, <2>4, <3>1, <3>2, <3>3, AnchorMadeFacts
    <3> HIDE DEF w
    <3>5. Good(w, {}) /\ Extends(view, w) /\ HasNode(w, AnchorName(view, port))
      BY <3>4 DEF AnchorMade
    <3>6. AnchorName(w, port) = AnchorName(view, port)
      BY <2>4, <3>5 DEF Extends, AnchorName
    <3>7. c = GetNode(w, AnchorName(view, port))
      BY <2>9, <3>6 DEF AnchorNode
    <3>8. c \in DOMAIN w.def /\ c # n /\ ~IsSwitch(w, c)
      BY <2>3, <3>2, <3>5, <3>7, AnchorIsIdentity DEF Good
    <3> HIDE DEF c
    <3>9. n \in DOMAIN w.def
      BY <2>3, <3>5 DEF Extends
    <3>10. AddsControl(w, AddFaninInternal(w, n, <<c, Control>>), n, c)
      BY <3>5, <3>8, <3>9, AddControlFacts
    <3> QED
      BY <2>6, <3>10 DEF AddsControl
  <2> QED
    BY <2>8, <2>9
<1> QED
  BY <1>1, <1>2

-----------------------------------------------------------------------------
(* All inputs of a node are removed.                                       *)

(* A function holds what RemoveFaninsInternal has after each input.        *)
RemoveFaninsInternalSteps(v, n, keep, run) ==
  /\ run[0] = v
  /\ \A k \in 1..Len(v.def[n].input) : run[k] = DropFanin(run[k - 1], n, k, keep)
  /\ RemoveFaninsInternal(v, n, keep) = SetInputs(run[Len(v.def[n].input)], n, v.def[n].input, 0)

(* Such a function there is.                                               *)
LEMMA RemoveFaninsInternalLoop ==
  ASSUME NEW v, NEW n, NEW keep, v.def[n].input \in Seq(AnyInput)
  PROVE  \E run : RemoveFaninsInternalSteps(v, n, keep, run)
<1> DEFINE L == Len(v.def[n].input)
           After(x, k) == DropFanin(x, n, k, keep)
           Loop(g, m) == g = [k \in 0..m |-> IF k = 0 THEN v ELSE After(g[k - 1], k)]
           P == {m \in 0..L : \E g : Loop(g, m)}
<1>0. L \in Nat
  BY LenProperties
<1>1. 0 \in P
  <2> DEFINE g == [k \in 0..0 |-> v]
  <2>1. Loop(g, 0)
    OBVIOUS
  <2> HIDE DEF g, Loop, L
  <2> QED
    BY <2>1, <1>0
<1>2. ASSUME NEW m \in 1..L, m - 1 \in P PROVE m \in P
  <2>1. PICK g : Loop(g, m - 1)
    BY <1>2
  <2> HIDE DEF After, L, P
  <2> DEFINE y == After(g[m - 1], m)
             h == [k \in 0..m |-> IF k = m THEN y ELSE g[k]]
  <2>0. m \in Nat /\ m # 0 /\ m - 1 \in 0..(m - 1)
    BY <1>0
  <2>2. h[m] = y /\ \A k \in 0..(m - 1) : h[k] = g[k]
    BY <2>0
  <2>3. \A k \in 0..(m - 1) : k # 0 => k - 1 \in 0..(m - 1)
    BY <2>0
  <2>4. \A k \in 0..m : k \in 0..(m - 1) \/ k = m
    BY <2>0
  <2>5. \A k \in 0..m : h[k] = IF k = 0 THEN v ELSE After(h[k - 1], k)
    <3> HIDE DEF h
    <3>1. \A k \in 0..(m - 1) : h[k] = IF k = 0 THEN v ELSE After(h[k - 1], k)
      BY <2>1, <2>2, <2>3
    <3>2. h[m] = After(h[m - 1], m)
      BY <2>0, <2>2
    <3> QED
      BY <2>0, <2>4, <3>1, <3>2
  <2>6. Loop(h, m)
    BY <2>5
  <2> HIDE DEF h, Loop
  <2> QED
    BY <2>6 DEF P
<1>3. L \in P
  <2> HIDE DEF P
  <2>1. P \in SUBSET (0..L)
    BY DEF P
  <2>2. P = 0..L
    <3> HIDE DEF L
    <3> QED
      BY <1>0, <1>1, <1>2, <2>1, Throughout
  <2> QED
    BY <1>0, <2>2
<1> DEFINE F == CHOOSE h : Loop(h, L)
<1>4. Loop(F, L)
  <2> HIDE DEF Loop
  <2>1. \E g : Loop(g, L)
    BY <1>3
  <2> HIDE DEF P
  <2> QED
    BY <2>1
<1>5. RemoveFaninsInternal(v, n, keep) = SetInputs(F[Len(v.def[n].input)], n, v.def[n].input, 0)
  BY DEF RemoveFaninsInternal
<1> HIDE DEF F
<1>6. \A k \in 0..Len(v.def[n].input) : F[k] = IF k = 0 THEN v ELSE DropFanin(F[k - 1], n, k, keep)
  BY <1>4
<1>7. \A k \in 1..Len(v.def[n].input) : k \in 0..Len(v.def[n].input) /\ k # 0
  BY <1>0
<1>8. 0 \in 0..Len(v.def[n].input)
  BY <1>0
<1>9. RemoveFaninsInternalSteps(v, n, keep, F)
  BY <1>5, <1>6, <1>7, <1>8 DEF RemoveFaninsInternalSteps
<1> QED
  BY <1>9

(* The inputs that have been dropped.                                      *)
Dropped(s, i, keep) == {j \in DOMAIN s : j <= i /\ (s[j][2] # Control \/ ~keep)}

(* The inputs of n up to i are dropped.                                    *)
Dropping(v, w, n, i, keep) ==
  /\ Editing(v, w, n, v.def[n].input, Dropped(v.def[n].input, i, keep), {})
  /\ w.def = v.def /\ w.regular = v.regular

(* DropFanin, at one position.                                             *)
LEMMA DropFaninFacts ==
  ASSUME NEW v, Good(v, {}), NEW n \in DOMAIN v.def, NEW keep \in BOOLEAN,
         NEW i \in DOMAIN v.def[n].input, NEW w, Dropping(v, w, n, i - 1, keep)
  PROVE  Dropping(v, DropFanin(w, n, i, keep), n, i, keep)
<1> DEFINE s == v.def[n].input
           H == Dropped(s, i - 1, keep)
           G == Dropped(s, i, keep)
           port == OutputPort(v, s[i])
           at == Slot(s[i], i)
           z == UpdateMaxRegularOutputPortForRemovedFanin(Unlink(w, port, <<n, at>>), port)
           E == {}
<1>1. /\ WellTyped(v) /\ v \in Views /\ s \in Seq(AnyInput)
      /\ InputsOk(v, n, s, v.regular[n], E) /\ n \in Ids
  BY ViewParts DEF Good, WellTyped, NodeOk
<1>2. Editing(v, w, n, s, H, E) /\ w.def = v.def /\ w.regular = v.regular
  BY DEF Dropping
<1>3. Frame(v, w, n) /\ Reads(w, n, s, H)
  BY <1>2 DEF Editing
<1>4. \A t : OutputPort(w, t) = OutputPort(v, t)
  BY <1>1, <1>3, EditingParts
<1>5. i \in Nat /\ DOMAIN s = 1..Len(s) /\ i \notin H
  BY <1>1, LenProperties DEF Dropped
<1>6. /\ HasNode(v, s[i][1])
      /\ port \in Ends /\ port[2] = s[i][2] /\ at \in Slots
      /\ at = IF s[i][2] = Control THEN Control ELSE i
  <2>1. HasNode(v, s[i][1])
    BY <1>1 DEF InputsOk, Sound
  <2>2. i \in DOMAIN s
    OBVIOUS
  <2> HIDE DEF s
  <2>3. port \in Ends /\ port[2] = s[i][2] /\ at \in Slots
    BY <1>1, <2>1, <2>2, InputFacts
  <2>4. at = IF s[i][2] = Control THEN Control ELSE i
    BY DEF Slot
  <2> QED
    BY <2>1, <2>3, <2>4
<1>7. DropFanin(w, n, i, keep) =
        IF (keep /\ at = Control) \/ port \notin DOMAIN w.fanouts THEN w ELSE z
  <2>1. w.def[n].input[i] = s[i]
    BY <1>2
  <2> HIDE DEF s
  <2>2. OutputPort(w, w.def[n].input[i]) = port
    BY <1>4, <2>1
  <2> HIDE DEF port
  <2>3. at = IF port[2] = Control THEN Control ELSE i
    BY <1>6
  <2> HIDE DEF at
  <2> QED
    BY <2>2, <2>3 DEF DropFanin
<1>8. i # Control
  BY <1>5, IdsAndControl
<1>9. CASE keep /\ s[i][2] = Control
  <2>1. G = H
    <3>1. ASSUME NEW j \in DOMAIN s, j <= i, s[j][2] # Control PROVE j <= i - 1
      <4>1. j # i
        BY <1>9, <3>1
      <4>2. j \in Nat
        BY <1>5
      <4> HIDE DEF s
      <4> QED
        BY <1>5, <3>1, <4>1, <4>2
    <3>2. \A j \in DOMAIN s : j <= i - 1 => j <= i
      BY <1>5
    <3> HIDE DEF s
    <3> QED
      BY <1>9, <3>1, <3>2 DEF Dropped
  <2>2. DropFanin(w, n, i, keep) = w
    BY <1>6, <1>7, <1>9
  <2> HIDE DEF G, H
  <2>3. Editing(v, w, n, s, G, E)
    BY <1>2, <2>1
  <2> QED
    BY <1>2, <2>2, <2>3 DEF Dropping, G
<1>10. CASE ~(keep /\ s[i][2] = Control)
  <2>1. G = H \cup {i}
    <3>1. \A j \in DOMAIN s : j <= i <=> j <= i - 1 \/ j = i
      BY <1>5
    <3>2. i \in DOMAIN s
      OBVIOUS
    <3> DEFINE c(j) == s[j][2] # Control \/ ~keep
    <3>3. c(i)
      BY <1>10
    <3>4. G = {j \in DOMAIN s : j <= i /\ c(j)} /\ H = {j \in DOMAIN s : j <= i - 1 /\ c(j)}
      BY DEF Dropped
    <3> HIDE DEF s, c, G, H
    <3> QED
      BY <3>1, <3>2, <3>3, <3>4
  <2>2. Alone(v, s, H, i)
    <3>1. Single(s) /\ \A j \in DOMAIN s : HasNode(v, s[j][1])
      BY <1>1 DEF InputsOk, Sound
    <3> HIDE DEF s, H
    <3> QED
      BY <1>1, <3>1, ControlAlone, RegularAlone DEF s
  <2>3. port \in DOMAIN w.fanouts
    <3>1. <<n, at>> \in GetFanout(w, port)
      <4> HIDE DEF s, H, port, at
      <4>1. i \in DOMAIN s \ H
        BY <1>5 DEF s
      <4> QED
        BY <1>3, <1>4, <1>6, <4>1 DEF Reads, port, at
    <3> QED
      BY <3>1 DEF GetFanout, At
  <2>4. DropFanin(w, n, i, keep) = z
    BY <1>6, <1>7, <1>8, <1>10, <2>3
  <2>5. Rebound(v, w, z, n, s, H \cup {i}, E)
    <3> HIDE DEF s, H, E
    <3>1. i \in DOMAIN s \ H
      BY <1>5 DEF s
    <3> QED
      BY <1>1, <1>2, <1>6, <2>2, <3>1, EditLeave
  <2> HIDE DEF z, G, H
  <2>6. Editing(v, z, n, s, G, E) /\ z.def = v.def /\ z.regular = v.regular
    BY <1>2, <2>1, <2>5 DEF Rebound
  <2> QED
    BY <2>4, <2>6 DEF Dropping, G
<1> QED
  BY <1>9, <1>10

(* RemoveFaninsInternal, with or without the controls.                     *)
FaninsDropped(v, w, n, keep) ==
  /\ Editing(v, w, n, v.def[n].input, {j \in DOMAIN v.def[n].input : j <= v.regular[n] \/ ~keep}, {})
  /\ w.regular[n] = 0

(* RemoveFaninsInternal: what is dropped is not read.                      *)
LEMMA RemoveFaninsFacts ==
  ASSUME NEW v, Good(v, {}), NEW n \in DOMAIN v.def, NEW keep \in BOOLEAN
  PROVE  FaninsDropped(v, RemoveFaninsInternal(v, n, keep), n, keep)
<1> DEFINE s == v.def[n].input
           L == Len(s)
           w == RemoveFaninsInternal(v, n, keep)
<1>1. /\ WellTyped(v) /\ v \in Views /\ s \in Seq(AnyInput)
      /\ InputsOk(v, n, s, v.regular[n], {}) /\ n \in Ids
  BY ViewParts DEF Good, WellTyped, NodeOk
<1>2. L \in Nat /\ DOMAIN s = 1..L
  BY <1>1, LenProperties
<1>3. PICK g : RemoveFaninsInternalSteps(v, n, keep, g)
  BY <1>1, RemoveFaninsInternalLoop
<1>4. /\ g[0] = v
      /\ \A i \in 1..L : g[i] = DropFanin(g[i - 1], n, i, keep)
      /\ w = SetInputs(g[L], n, s, 0)
  BY <1>3 DEF RemoveFaninsInternalSteps
<1> HIDE DEF w
<1>5. Dropped(s, 0, keep) = {}
  <2>1. \A j \in DOMAIN s : ~(j <= 0)
    BY <1>2
  <2> HIDE DEF s
  <2> QED
    BY <2>1 DEF Dropped
<1>6. Dropped(s, L, keep) = {j \in DOMAIN s : j <= v.regular[n] \/ ~keep}
  <2>1. \A j \in DOMAIN s : j <= L /\ (j <= v.regular[n] <=> s[j][2] # Control)
    BY <1>1, <1>2 DEF InputsOk, Sound
  <2> HIDE DEF s, L
  <2> QED
    BY <2>1 DEF Dropped
<1> DEFINE P == {i \in 0..L : Dropping(v, g[i], n, i, keep)}
<1>7. 0 \in P
  <2>1. Editing(v, v, n, s, {}, {})
    BY EditStart
  <2>2. Dropping(v, v, n, 0, keep)
    BY <1>5, <2>1 DEF Dropping
  <2> HIDE DEF L
  <2> QED
    BY <1>2, <1>4, <2>2
<1>8. ASSUME NEW i \in 1..L, i - 1 \in P PROVE i \in P
  <2>1. Dropping(v, g[i - 1], n, i - 1, keep) /\ i \in 0..L /\ i \in DOMAIN s
    BY <1>2, <1>8
  <2>2. g[i] = DropFanin(g[i - 1], n, i, keep)
    BY <1>4
  <2>3. Dropping(v, g[i], n, i, keep)
    BY <2>1, <2>2, DropFaninFacts
  <2> QED
    BY <2>1, <2>3
<1> HIDE DEF P
<1>9. L \in P
  <2>1. P \in SUBSET (0..L)
    BY DEF P
  <2> HIDE DEF L
  <2>2. P = 0..L
    BY <1>2, <1>7, <1>8, <2>1, Throughout
  <2> QED
    BY <1>2, <2>2
<1> DEFINE z == g[L]
           H == {j \in DOMAIN s : j <= v.regular[n] \/ ~keep}
<1>10. Editing(v, z, n, s, H, {})
  BY <1>6, <1>9 DEF P, Dropping
<1> HIDE DEF z, H, L
<1>11. Editing(v, w, n, s, H, {}) /\ w.regular[n] = 0
  <2>1. w = SetInputs(z, n, s, 0)
    BY <1>4 DEF z, L
  <2> HIDE DEF s
  <2> QED
    BY <1>1, <1>10, <2>1, EditSet
<1> QED
  BY <1>11 DEF FaninsDropped, H, w

(* RemoveAllFanins: the controls stay, or nothing does.                    *)
LEMMA RemoveAllFaninsFacts ==
  ASSUME NEW v, Good(v, {}), NEW n \in DOMAIN v.def, NEW keep \in BOOLEAN
  PROVE  LET s == v.def[n].input IN
         Good(SetInput(RemoveFaninsInternal(v, n, keep), n,
                IF keep THEN SubSeq(s, v.regular[n] + 1, Len(s)) ELSE <<>>), {})
<1> DEFINE s == v.def[n].input
           L == Len(s)
           k == v.regular[n]
           w == RemoveFaninsInternal(v, n, keep)
           H == {j \in DOMAIN s : j <= k \/ ~keep}
           t == IF keep THEN SubSeq(s, k + 1, L) ELSE <<>>
           z == SetInput(w, n, t)
           E == {}
<1>1. /\ WellTyped(v) /\ v \in Views /\ s \in Seq(AnyInput)
      /\ InputsOk(v, n, s, k, E) /\ n \in Ids
      /\ k \in Nat
  BY ViewParts DEF Good, WellTyped, NodeOk
<1>2. L \in Nat /\ DOMAIN s = 1..L
  BY <1>1, LenProperties
<1>3. k <= L /\ Single(s) /\ \A j \in DOMAIN s : j <= k <=> s[j][2] # Control
  BY <1>1 DEF InputsOk, Sound
<1>4. Editing(v, w, n, s, H, E) /\ w.regular[n] = 0
  BY RemoveFaninsFacts DEF FaninsDropped
<1> HIDE DEF w
<1> DEFINE M == IF keep THEN L - k ELSE 0
<1>5. /\ t \in Seq(AnyInput) /\ Len(t) = M /\ DOMAIN t = 1..M /\ M \in Nat
      /\ \A j \in 1..M : keep /\ k + j \in 1..L /\ t[j] = s[k + j]
  <2>1. CASE keep
    <3> HIDE DEF s, L, k
    <3>0. t = SubSeq(s, k + 1, L) /\ M = L - k /\ M \in Nat
      BY <1>1, <1>2, <1>3, <2>1
    <3>1. k + 1 \in Int /\ L \in Int /\ \A j \in k + 1..L : s[j] \in AnyInput
      BY <1>1, <1>2 DEF s
    <3>2. /\ SubSeq(s, k + 1, L) \in Seq(AnyInput)
          /\ Len(SubSeq(s, k + 1, L)) = IF k + 1 <= L THEN L - (k + 1) + 1 ELSE 0
          /\ \A j \in 1..(L - (k + 1) + 1) : SubSeq(s, k + 1, L)[j] = s[(k + 1) + j - 1]
      BY <3>1, SubSeqProperties
    <3> HIDE DEF t, M
    <3>3. Len(t) = M
      BY <1>1, <1>2, <1>3, <3>0, <3>2
    <3>4. t \in Seq(AnyInput)
      BY <3>0, <3>2
    <3>5. DOMAIN t = 1..M
      BY <3>3, <3>4, LenProperties
    <3>6. ASSUME NEW j \in 1..M PROVE k + j \in 1..L /\ t[j] = s[k + j]
      <4>1. j \in 1..(L - (k + 1) + 1) /\ (k + 1) + j - 1 = k + j /\ k + j \in 1..L
        BY <1>1, <1>2, <1>3, <3>0
      <4> QED
        BY <3>0, <3>2, <4>1
    <3> QED
      BY <2>1, <3>0, <3>3, <3>4, <3>5, <3>6
  <2>2. CASE ~keep
    <3>1. t = <<>> /\ M = 0
      BY <2>2
    <3> HIDE DEF t, M, L, s
    <3> QED
      BY <3>1
  <2> QED
    BY <2>1, <2>2
<1> HIDE DEF t, M
<1>6. Editing(v, w, n, t, E, E)
  <2>1. ASSUME NEW i \in DOMAIN s \ H
        PROVE  \E j \in DOMAIN t \ E : t[j] = s[i] /\ Slot(t[j], j) = Slot(s[i], i)
    <3>1. i \in 1..L /\ ~(i <= k) /\ keep
      BY <1>2, <2>1
    <3>2. i - k \in 1..M /\ k + (i - k) = i
      <4> HIDE DEF L, k
      <4> QED
        BY <1>1, <1>2, <1>3, <3>1 DEF M
    <3>3. i - k \in DOMAIN t \ E /\ t[i - k] = s[i]
      BY <1>5, <3>2
    <3>4. s[i][2] = Control
      BY <1>3, <3>1
    <3> HIDE DEF s
    <3> QED
      BY <3>3, <3>4 DEF Slot
  <2>2. ASSUME NEW j \in DOMAIN t \ E
        PROVE  \E i \in DOMAIN s \ H : t[j] = s[i] /\ Slot(t[j], j) = Slot(s[i], i)
    <3>1. j \in 1..M /\ keep /\ k + j \in 1..L /\ t[j] = s[k + j]
      BY <1>5
    <3>2. ~(k + j <= k)
      BY <1>1, <1>5, <3>1
    <3>3. k + j \in DOMAIN s \ H
      BY <1>2, <3>1, <3>2
    <3>4. s[k + j][2] = Control
      BY <1>3, <3>2, <3>3
    <3> HIDE DEF s
    <3> QED
      BY <3>1, <3>3, <3>4 DEF Slot
  <2> HIDE DEF s, H, E
  <2> QED
    BY <1>4, <2>1, <2>2, EditMove
<1>7. Editing(v, z, n, t, E, E) /\ z.def[n].input = t /\ z.regular[n] = 0
  <2> HIDE DEF E
  <2> QED
    BY <1>1, <1>4, <1>5, <1>6, EditSet
<1>8. InputsOk(v, n, t, 0, E)
  <2>1. \A j \in DOMAIN t : k + j \in DOMAIN s /\ t[j] = s[k + j] /\ s[k + j][2] = Control
    <3>1. SUFFICES ASSUME NEW j \in DOMAIN t
                   PROVE  k + j \in DOMAIN s /\ t[j] = s[k + j] /\ s[k + j][2] = Control
      OBVIOUS
    <3>2. k + j \in 1..L /\ t[j] = s[k + j] /\ ~(k + j <= k)
      BY <1>1, <1>5
    <3> QED
      BY <1>2, <1>3, <3>2
  <2>2. \A j \in DOMAIN t : j <= 0 <=> t[j][2] # Control
    BY <1>5, <2>1
  <2>3. Single(t)
    <3>1. ASSUME NEW i \in DOMAIN t, NEW j \in DOMAIN t, t[i][1] = t[j][1] PROVE i = j
      <4> DEFINE p == k + i
                 q == k + j
      <4>1. p \in DOMAIN s /\ q \in DOMAIN s /\ s[p][2] = Control /\ s[q][2] = Control
        BY <2>1
      <4>2. s[p][1] = s[q][1]
        BY <2>1, <3>1
      <4>3. Single(s)
        BY <1>3
      <4>4. k \in Nat /\ i \in Nat /\ j \in Nat
        BY <1>1, <1>5
      <4> HIDE DEF s, k, t
      <4>5. p = q
        <5> HIDE DEF p, q
        <5> QED
          BY <4>1, <4>2, <4>3 DEF Single
      <4> QED
        BY <4>4, <4>5
    <3> QED
      BY <3>1 DEF Single
  <2>4. 0 \in Nat /\ 0 <= Len(t)
    BY <1>5
  <2> HIDE DEF s, E
  <2>5. \A j \in DOMAIN t : \E i \in DOMAIN s : t[j] = s[i]
    BY <2>1
  <2> QED
    BY <1>1, <2>2, <2>3, <2>4, <2>5, InputsMoved
<1>9. Good(z, E)
  <2>1. InputsOk(v, n, t, z.regular[n], E)
    BY <1>7, <1>8
  <2>2. Good(v, E) /\ E \subseteq E
    OBVIOUS
  <2>3. Editing(v, z, n, t, {}, {})
    BY <1>7
  <2> HIDE DEF E, z
  <2> QED
    BY <1>7, <2>1, <2>2, <2>3, EditEnd
<1> QED
  BY <1>9 DEF t, w

-----------------------------------------------------------------------------
(* A node that is to be deleted reads nothing any more.                    *)
Clearing(v, w, n, i) ==
  /\ Frame(v, w, n) /\ BoundedBut(w, {}) /\ w.def = v.def /\ w.regular = v.regular
  /\ \A p, to : to \in GetFanout(w, p) => to \in GetFanout(v, p)
  /\ \A j \in DOMAIN v.def[n].input : j <= i =>
       LET t == v.def[n].input[j]
       IN  <<n, Slot(t, j)>> \notin GetFanout(w, OutputPort(v, t))

(* DropFanin, of a node that may be read by nodes that are gone.           *)
LEMMA ClearFanin ==
  ASSUME NEW v \in Views, NEW n \in DOMAIN v.def, NEW i \in DOMAIN v.def[n].input,
         HasNode(v, v.def[n].input[i][1]), NEW w, Clearing(v, w, n, i - 1)
  PROVE  Clearing(v, DropFanin(w, n, i, FALSE), n, i)
<1> DEFINE s == v.def[n].input
           port == OutputPort(v, s[i])
           at == Slot(s[i], i)
           x == Unlink(w, port, <<n, at>>)
           z == UpdateMaxRegularOutputPortForRemovedFanin(x, port)
           y == DropFanin(w, n, i, FALSE)
           Out(u, j) == <<n, Slot(s[j], j)>> \notin GetFanout(u, OutputPort(v, s[j]))
<1>1. s \in Seq(AnyInput) /\ n \in Ids
  BY ViewParts
<1>2. /\ Frame(v, w, n) /\ BoundedBut(w, {}) /\ w.def = v.def /\ w.regular = v.regular
      /\ \A p, to : to \in GetFanout(w, p) => to \in GetFanout(v, p)
      /\ \A j \in DOMAIN s : j <= i - 1 => Out(w, j)
  BY DEF Clearing
<1>3. \A t : OutputPort(w, t) = OutputPort(v, t)
  <2>1. w.def = v.def
    BY <1>2
  <2> QED
    BY <2>1 DEF OutputPort, GetNode
<1>4. i \in Nat /\ \A j \in DOMAIN s : j <= i => j <= i - 1 \/ j = i
  <2>1. DOMAIN s = 1..Len(s) /\ Len(s) \in Nat
    BY <1>1, LenProperties
  <2> HIDE DEF s
  <2> QED
    BY <2>1 DEF s
<1>5. port \in Ends /\ port[2] = s[i][2] /\ at \in Slots
  <2>1. HasNode(v, s[i][1]) /\ i \in DOMAIN s
    OBVIOUS
  <2> HIDE DEF s
  <2> QED
    BY <1>1, <2>1, InputFacts
<1>6. w \in Views
  BY <1>2 DEF Frame
<1>7. y = IF port \notin DOMAIN w.fanouts THEN w ELSE z
  <2>1. w.def[n].input[i] = s[i]
    BY <1>2
  <2> HIDE DEF s
  <2>2. OutputPort(w, w.def[n].input[i]) = port
    BY <1>3, <2>1
  <2>3. at = IF port[2] = Control THEN Control ELSE i
    BY <1>5 DEF Slot
  <2> HIDE DEF port, at
  <2> QED
    BY <2>2, <2>3 DEF DropFanin
<1> HIDE DEF y, s, port, at, Out
<1>8. CASE port \notin DOMAIN w.fanouts
  <2>1. y = w /\ GetFanout(w, port) = {}
    BY <1>7, <1>8 DEF GetFanout, At
  <2>2. Out(w, i)
    BY <2>1 DEF Out, port
  <2>3. \A j \in DOMAIN s : j <= i => Out(w, j)
    BY <1>2, <1>4, <2>2
  <2>4. Clearing(v, w, n, i)
    BY <1>2, <2>3 DEF Clearing, Out, s
  <2> QED
    BY <2>1, <2>4 DEF y
<1>9. CASE port \in DOMAIN w.fanouts
  <2>1. y = z
    BY <1>7, <1>9
  <2>2. <<n, at>> \in Ends
    BY <1>1, <1>5 DEF Ends
  <2>3. /\ x \in Views /\ x.def = w.def /\ x.regular = w.regular /\ x.max_out = w.max_out
        /\ \A p : GetFanout(x, p) = IF p = port THEN GetFanout(w, p) \ {<<n, at>>}
                                    ELSE GetFanout(w, p)
    <3> DEFINE e == <<n, at>>
    <3>1. e \in Ends
      BY <2>2
    <3> HIDE DEF e
    <3>2. /\ Unlink(w, port, e) \in Views
          /\ Unlink(w, port, e).def = w.def /\ Unlink(w, port, e).regular = w.regular
          /\ Unlink(w, port, e).max_out = w.max_out
          /\ \A p : GetFanout(Unlink(w, port, e), p) =
                     IF p = port THEN GetFanout(w, p) \ {e} ELSE GetFanout(w, p)
      BY <1>5, <1>6, <3>1, UnlinkFacts
    <3> QED
      BY <3>2 DEF e
  <2>4. Frame(w, x, n)
    BY <1>1, <1>5, <1>6, LinkFrame
  <2>5. BoundedBut(x, {})
    BY <1>2, <2>3 DEF BoundedBut
  <2> HIDE DEF x
  <2>6. /\ z.def = x.def /\ z.regular = x.regular
        /\ \A p : GetFanout(z, p) = GetFanout(x, p)
        /\ BoundedBut(z, {}) /\ Frame(x, z, n)
    BY <1>5, <2>3, <2>5, RemovedFacts, BoundFrame
  <2> HIDE DEF z
  <2>7. Frame(v, z, n)
    BY <1>2, <2>4, <2>6, FrameTrans
  <2>8. \A p, to : to \in GetFanout(z, p) => to \in GetFanout(w, p)
    BY <2>3, <2>6
  <2>9. <<n, at>> \notin GetFanout(z, port)
    BY <2>3, <2>6
  <2>10. \A j \in DOMAIN s : j <= i => Out(z, j)
    <3>1. Out(z, i)
      BY <2>9 DEF Out, at, port
    <3>2. \A j \in DOMAIN s : Out(w, j) => Out(z, j)
      BY <2>8 DEF Out
    <3> QED
      BY <1>2, <1>4, <3>1, <3>2
  <2>11. \A p, to : to \in GetFanout(z, p) => to \in GetFanout(v, p)
    BY <1>2, <2>8
  <2>12. Clearing(v, z, n, i)
    BY <1>2, <2>3, <2>6, <2>7, <2>10, <2>11 DEF Clearing, Out, s
  <2> QED
    BY <2>1, <2>12 DEF y
<1> QED
  BY <1>8, <1>9

(* The fanouts hold no more than what n reads.                             *)
ReadsAtMost(v, n) ==
  /\ \A i \in DOMAIN v.def[n].input : HasNode(v, v.def[n].input[i][1])
  /\ \A port \in Ends, at \in Slots :
       <<n, at>> \in GetFanout(v, port) =>
         \E i \in DOMAIN v.def[n].input :
           OutputPort(v, v.def[n].input[i]) = port /\ at = Slot(v.def[n].input[i], i)

(* n reads nothing.                                                        *)
ReadsNothing(v, w, n) ==
  /\ Frame(v, w, n) /\ BoundedBut(w, {}) /\ w.def[n].input = v.def[n].input
  /\ \A p, to : to \in GetFanout(w, p) => to \in GetFanout(v, p)
  /\ \A port \in Ends, at \in Slots : <<n, at>> \notin GetFanout(w, port)

(* RemoveFaninsInternal of such a node: it reads nothing.                  *)
LEMMA ClearFaninsFacts ==
  ASSUME NEW v \in Views, DOMAIN v.regular = DOMAIN v.def, BoundedBut(v, {}),
         NEW n \in DOMAIN v.def, ReadsAtMost(v, n)
  PROVE  ReadsNothing(v, RemoveFaninsInternal(v, n, FALSE), n)
<1> DEFINE s == v.def[n].input
           L == Len(s)
           w == RemoveFaninsInternal(v, n, FALSE)
<1>1. s \in Seq(AnyInput) /\ n \in Ids
  BY ViewParts
<1>2. L \in Nat /\ DOMAIN s = 1..L
  BY <1>1, LenProperties
<1>3. PICK g : RemoveFaninsInternalSteps(v, n, FALSE, g)
  BY <1>1, RemoveFaninsInternalLoop
<1>4. /\ g[0] = v
      /\ \A i \in 1..L : g[i] = DropFanin(g[i - 1], n, i, FALSE)
      /\ w = SetInputs(g[L], n, s, 0)
  BY <1>3 DEF RemoveFaninsInternalSteps
<1> HIDE DEF w
<1> DEFINE P == {i \in 0..L : Clearing(v, g[i], n, i)}
<1>5. 0 \in P
  <2>1. \A j \in DOMAIN s : ~(j <= 0)
    BY <1>2
  <2>2. Frame(v, v, n)
    BY FrameSelf
  <2>3. Clearing(v, v, n, 0)
    BY <2>1, <2>2 DEF Clearing
  <2> HIDE DEF L
  <2> QED
    BY <1>2, <1>4, <2>3
<1>6. ASSUME NEW i \in 1..L, i - 1 \in P PROVE i \in P
  <2>1. Clearing(v, g[i - 1], n, i - 1) /\ i \in 0..L /\ i \in DOMAIN s
    BY <1>2, <1>6
  <2>2. g[i] = DropFanin(g[i - 1], n, i, FALSE)
    BY <1>4
  <2>3. HasNode(v, s[i][1])
    BY <2>1 DEF ReadsAtMost
  <2>4. Clearing(v, g[i], n, i)
    BY <2>1, <2>2, <2>3, ClearFanin
  <2> QED
    BY <2>1, <2>4
<1> HIDE DEF P
<1>7. L \in P
  <2>1. P \in SUBSET (0..L)
    BY DEF P
  <2> HIDE DEF L
  <2>2. P = 0..L
    BY <1>2, <1>5, <1>6, <2>1, Throughout
  <2> QED
    BY <1>2, <2>2
<1> DEFINE z == g[L]
<1>8. Clearing(v, z, n, L)
  BY <1>7 DEF P
<1>9. w = SetInputs(z, n, s, 0)
  BY <1>4
<1> HIDE DEF z
<1>10. /\ Frame(v, z, n) /\ BoundedBut(z, {}) /\ z.def = v.def /\ z.regular = v.regular
       /\ \A p, to : to \in GetFanout(z, p) => to \in GetFanout(v, p)
       /\ \A j \in DOMAIN s : j <= L => <<n, Slot(s[j], j)>> \notin GetFanout(z, OutputPort(v, s[j]))
  BY <1>8 DEF Clearing
<1>11. z \in Views
  BY <1>10 DEF Frame
<1>12. \A port \in Ends, at \in Slots : <<n, at>> \notin GetFanout(z, port)
  <2>1. SUFFICES ASSUME NEW port \in Ends, NEW at \in Slots, <<n, at>> \in GetFanout(z, port)
                 PROVE  FALSE
    OBVIOUS
  <2>2. <<n, at>> \in GetFanout(v, port)
    BY <1>10, <2>1
  <2>3. PICK i \in DOMAIN s : OutputPort(v, s[i]) = port /\ at = Slot(s[i], i)
    BY <2>2 DEF ReadsAtMost
  <2>4. i <= L
    BY <1>2
  <2> QED
    BY <1>10, <2>1, <2>3, <2>4
<1> HIDE DEF s, L
<1>13. /\ Frame(z, w, n) /\ w.def[n].input = s /\ w.max_out = z.max_out
       /\ \A p : GetFanout(w, p) = GetFanout(z, p)
  <2>1. n \in DOMAIN z.def /\ DOMAIN z.regular = DOMAIN z.def /\ 0 \in Nat
    BY <1>10
  <2> QED
    BY <1>1, <1>9, <1>11, <2>1, SetsFrame, SetInputsFacts
<1>14. Frame(v, w, n)
  BY <1>10, <1>13, FrameTrans
<1>15. BoundedBut(w, {})
  BY <1>10, <1>13 DEF BoundedBut
<1> QED
  BY <1>10, <1>12, <1>13, <1>14, <1>15 DEF ReadsNothing, w, s

-----------------------------------------------------------------------------
(* A set of nodes is deleted.                                              *)

(* RemoveFanoutsInternal.                                                  *)
LEMMA RemoveFanoutsFacts ==
  ASSUME NEW v \in Views, BoundedBut(v, {}), NEW n \in Ids
  PROVE  LET w == RemoveFanoutsInternal(v, n) IN
         /\ w \in Views /\ w.def = v.def /\ w.regular = v.regular /\ BoundedBut(w, {})
         /\ \A f \in Ids, p \in Slots :
              GetFanout(w, <<f, p>>) = IF f = n THEN {} ELSE GetFanout(v, <<f, p>>)
         /\ \A p, to : to \in GetFanout(w, p) => to \in GetFanout(v, p)
<1> DEFINE K == {n} \X (Control..At(v.max_out, n, -1))
           F == Erase(v.fanouts, K)
           M == Erase(v.max_out, {n})
           w == RemoveFanoutsInternal(v, n)
<1>1. v.fanouts \in Partial(Ends, SUBSET Ends) /\ v.max_out \in Partial(Ids, Nat)
  BY ViewParts
<1>2. w = [v EXCEPT !.fanouts = F, !.max_out = M]
  BY DEF RemoveFanoutsInternal
<1> HIDE DEF K
<1>3. /\ F \in Partial(Ends, SUBSET Ends) /\ DOMAIN F = DOMAIN v.fanouts \ K
      /\ \A j \in DOMAIN v.fanouts \ K : F[j] = v.fanouts[j]
  <2> DEFINE G == v.fanouts
             T == SUBSET Ends
  <2>1. G \in Partial(Ends, T)
    BY <1>1
  <2> HIDE DEF G, T
  <2>2. /\ Erase(G, K) \in Partial(Ends, T) /\ DOMAIN Erase(G, K) = DOMAIN G \ K
        /\ \A j \in DOMAIN G \ K : Erase(G, K)[j] = G[j]
    BY <2>1, EraseFacts
  <2> QED
    BY <2>2 DEF G, T
<1>4. /\ M \in Partial(Ids, Nat) /\ DOMAIN M = DOMAIN v.max_out \ {n}
      /\ \A j \in DOMAIN v.max_out \ {n} : M[j] = v.max_out[j]
  <2> DEFINE G == v.max_out
             E == {n}
  <2>1. G \in Partial(Ids, Nat)
    BY <1>1
  <2> HIDE DEF G, E
  <2>2. /\ Erase(G, E) \in Partial(Ids, Nat) /\ DOMAIN Erase(G, E) = DOMAIN G \ E
        /\ \A j \in DOMAIN G \ E : Erase(G, E)[j] = G[j]
    BY <2>1, EraseBound
  <2> QED
    BY <2>2 DEF G, E
<1> HIDE DEF F, M, w
<1>5. w \in Views /\ w.def = v.def /\ w.regular = v.regular /\ w.fanouts = F /\ w.max_out = M
  BY <1>2, <1>3, <1>4 DEF Views
<1>6. \A p : GetFanout(w, p) = IF p \in K THEN {} ELSE GetFanout(v, p)
  BY <1>3, <1>5 DEF GetFanout, At
<1>7. \A f \in Ids, p \in Slots : <<f, p>> \in K => f = n
  BY DEF K
<1>8. ASSUME NEW p \in Slots, <<n, p>> \notin K PROVE GetFanout(v, <<n, p>>) = {}
  <2> DEFINE a == At(v.max_out, n, -1)
  <2>0. a \in Int /\ a >= -1 /\ (n \in DOMAIN v.max_out => a = v.max_out[n])
    BY ViewParts DEF At
  <2>1. p \notin Control..a
    BY <1>8 DEF K
  <2>2. p = Control \/ p \in Nat
    BY DEF Slots
  <2> HIDE DEF a
  <2>3. p \in Nat /\ ~(p <= a)
    BY <2>0, <2>1, <2>2 DEF Control
  <2> SUFFICES ASSUME GetFanout(v, <<n, p>>) # {} PROVE FALSE
    OBVIOUS
  <2>4. n \in DOMAIN v.max_out /\ p <= v.max_out[n]
    BY <2>3 DEF BoundedBut
  <2> QED
    BY <2>0, <2>3, <2>4
<1>9. \A f \in Ids, p \in Slots :
        GetFanout(w, <<f, p>>) = IF f = n THEN {} ELSE GetFanout(v, <<f, p>>)
  BY <1>6, <1>7, <1>8
<1>10. BoundedBut(w, {})
  <2>1. ASSUME NEW f \in Ids, NEW p \in Nat, GetFanout(w, <<f, p>>) # {}
        PROVE  f \in DOMAIN w.max_out /\ p <= w.max_out[f]
    <3>1. p \in Slots
      BY DEF Slots
    <3>2. f # n /\ GetFanout(v, <<f, p>>) # {}
      BY <1>9, <2>1, <3>1
    <3>3. f \in DOMAIN v.max_out /\ p <= v.max_out[f]
      BY <3>2 DEF BoundedBut
    <3> QED
      BY <1>4, <1>5, <3>2, <3>3
  <2> QED
    BY <2>1 DEF BoundedBut
<1>11. \A p, to : to \in GetFanout(w, p) => to \in GetFanout(v, p)
  BY <1>6
<1> QED
  BY <1>5, <1>9, <1>10, <1>11 DEF w

(* What reads the nodes that go goes too.                                  *)
Unread(v, gone) ==
  \A n \in gone, at \in Slots : \A to \in GetFanout(v, <<n, at>>) : to[1] \in gone

(* CheckNodesCanBeDeleted: nobody who stays reads what goes.               *)
LEMMA CheckFacts ==
  ASSUME NEW v, Good(v, {}), NEW gone \in SUBSET (DOMAIN v.def),
         CheckNodesCanBeDeleted(v, gone)
  PROVE  Unread(v, gone)
<1>1. BoundedBut(v, {}) /\ v \in Views
  BY DEF Good, WellTyped
<1>2. SUFFICES ASSUME NEW n \in gone, NEW at \in Slots, NEW to \in GetFanout(v, <<n, at>>)
               PROVE  to[1] \in gone
  BY DEF Unread
<1> DEFINE a == At(v.max_out, n, Control)
<1>3. a \in Int /\ a >= Control /\ (n \in DOMAIN v.max_out => a = v.max_out[n])
  BY <1>1, ViewParts DEF At, Control
<1>4. at \in Control..a
  <2> HIDE DEF a
  <2>1. CASE at = Control
    BY <1>3, <2>1 DEF Control
  <2>2. CASE at \in Nat
    <3>1. n \in Ids
      BY <1>1, ViewParts
    <3>2. n \in DOMAIN v.max_out /\ at <= v.max_out[n]
      BY <1>1, <1>2, <2>2, <3>1 DEF BoundedBut
    <3> QED
      BY <1>3, <2>2, <3>2 DEF Control
  <2> QED
    BY <2>1, <2>2 DEF Slots
<1> QED
  BY <1>2, <1>4 DEF CheckNodesCanBeDeleted

(* The nodes in gone are about to go; those in D have no edges any more.   *)
Going(v, w, gone, D) ==
  /\ w \in Views /\ DOMAIN w.def = DOMAIN v.def /\ DOMAIN w.regular = DOMAIN v.def
  /\ \A m \in DOMAIN v.def : /\ w.def[m].name = v.def[m].name
                             /\ w.def[m].input = v.def[m].input
  /\ \A m \in DOMAIN v.def \ gone : w.def[m] = v.def[m] /\ w.regular[m] = v.regular[m]
  /\ BoundedBut(w, {})
  /\ \A p, to : to \in GetFanout(w, p) => to \in GetFanout(v, p)
  /\ \A p, to \in Ends : to[1] \notin gone /\ to \in GetFanout(v, p) => to \in GetFanout(w, p)
  /\ \A p, to \in Ends : to[1] \in D => to \notin GetFanout(w, p)

(* The edges of one more node go.                                          *)
LEMMA GoStep ==
  ASSUME NEW v, Good(v, {}), NEW gone \in SUBSET (DOMAIN v.def), Unread(v, gone),
         NEW w, NEW D, Going(v, w, gone, D), NEW n \in gone, NEW E, E = D \cup {n}
  PROVE  Going(v, DropEdges(w, n), gone, E)
<1> DEFINE x == RemoveFaninsInternal(w, n, FALSE)
           z == DropEdges(w, n)
           s == v.def[n].input
<1>1. /\ v \in Views /\ InputsOk(v, n, s, v.regular[n], {}) /\ Reads(v, n, s, {})
      /\ n \in DOMAIN v.def /\ n \in Ids
  BY ViewParts DEF Good, WellTyped, NodeOk
<1>2. /\ w \in Views /\ DOMAIN w.def = DOMAIN v.def /\ DOMAIN w.regular = DOMAIN v.def
      /\ \A m \in DOMAIN v.def : /\ w.def[m].name = v.def[m].name
                                 /\ w.def[m].input = v.def[m].input
      /\ \A m \in DOMAIN v.def \ gone : w.def[m] = v.def[m] /\ w.regular[m] = v.regular[m]
      /\ BoundedBut(w, {})
  BY DEF Going
<1>3. /\ \A p, to : to \in GetFanout(w, p) => to \in GetFanout(v, p)
      /\ \A p, to \in Ends : to[1] \notin gone /\ to \in GetFanout(v, p) => to \in GetFanout(w, p)
      /\ \A p, to \in Ends : to[1] \in D => to \notin GetFanout(w, p)
  BY DEF Going
<1>4. SameNames(v, w)
  BY <1>2 DEF SameNames
<1>5. ReadsAtMost(w, n)
  <2>1. w.def[n].input = s
    BY <1>1, <1>2
  <2>2. \A i \in DOMAIN s : HasNode(w, s[i][1])
    <3>1. \A i \in DOMAIN s : HasNode(v, s[i][1])
      BY <1>1 DEF InputsOk, Sound
    <3> QED
      BY <1>4, <3>1, SameNode
  <2>3. ASSUME NEW port \in Ends, NEW at \in Slots, <<n, at>> \in GetFanout(w, port)
        PROVE  \E i \in DOMAIN s : OutputPort(w, s[i]) = port /\ at = Slot(s[i], i)
    <3>1. <<n, at>> \in GetFanout(v, port)
      BY <1>3, <2>3
    <3>2. PICK i \in DOMAIN s \ {} : OutputPort(v, s[i]) = port /\ at = Slot(s[i], i)
      BY <1>1, <3>1 DEF Reads
    <3>3. OutputPort(w, s[i]) = OutputPort(v, s[i])
      BY <1>4, SamePort
    <3> QED
      BY <3>2, <3>3
  <2> HIDE DEF s
  <2> QED
    BY <2>1, <2>2, <2>3 DEF ReadsAtMost
<1>6. ReadsNothing(w, x, n)
  BY <1>1, <1>2, <1>5, ClearFaninsFacts
<1>7. z = RemoveFanoutsInternal(x, n)
  BY DEF DropEdges
<1> HIDE DEF x, z, s
<1>8. /\ Frame(w, x, n) /\ BoundedBut(x, {}) /\ x.def[n].input = w.def[n].input
      /\ \A p, to : to \in GetFanout(x, p) => to \in GetFanout(w, p)
      /\ \A port \in Ends, at \in Slots : <<n, at>> \notin GetFanout(x, port)
  BY <1>6 DEF ReadsNothing
<1>9. /\ x \in Views /\ DOMAIN x.def = DOMAIN w.def /\ DOMAIN x.regular = DOMAIN w.regular
      /\ \A m \in DOMAIN w.def : x.def[m].name = w.def[m].name
      /\ \A m \in DOMAIN w.def \ {n} : x.def[m] = w.def[m] /\ x.regular[m] = w.regular[m]
      /\ \A p, to \in Ends : to[1] # n => (to \in GetFanout(x, p) <=> to \in GetFanout(w, p))
  BY <1>8 DEF Frame
<1>10. /\ z \in Views /\ z.def = x.def /\ z.regular = x.regular /\ BoundedBut(z, {})
       /\ \A f \in Ids, p \in Slots :
            GetFanout(z, <<f, p>>) = IF f = n THEN {} ELSE GetFanout(x, <<f, p>>)
       /\ \A p, to : to \in GetFanout(z, p) => to \in GetFanout(x, p)
  BY <1>1, <1>7, <1>8, <1>9, RemoveFanoutsFacts
<1>11. /\ DOMAIN z.def = DOMAIN v.def /\ DOMAIN z.regular = DOMAIN v.def
       /\ \A m \in DOMAIN v.def : z.def[m].name = v.def[m].name /\ z.def[m].input = v.def[m].input
       /\ \A m \in DOMAIN v.def \ gone : z.def[m] = v.def[m] /\ z.regular[m] = v.regular[m]
  <2>1. \A m \in DOMAIN w.def : x.def[m].input = w.def[m].input
    BY <1>8, <1>9
  <2> QED
    BY <1>2, <1>9, <1>10, <2>1
<1>12. \A p, to : to \in GetFanout(z, p) => to \in GetFanout(v, p)
  BY <1>3, <1>8, <1>10
<1>13. ASSUME NEW p \in Ends, NEW to \in Ends, to[1] \notin gone, to \in GetFanout(v, p)
       PROVE  to \in GetFanout(z, p)
  <2>1. PICK f \in Ids, q \in Slots : p = <<f, q>>
    BY DEF Ends
  <2>2. f # n
    <3> SUFFICES ASSUME f = n PROVE FALSE
      OBVIOUS
    <3>1. to[1] \in gone
      BY <1>13, <2>1 DEF Unread
    <3> QED
      BY <1>13, <3>1
  <2>3. to \in GetFanout(w, p)
    BY <1>3, <1>13
  <2>4. to[1] # n
    BY <1>13
  <2>5. to \in GetFanout(x, p)
    BY <1>9, <2>3, <2>4
  <2> QED
    BY <1>10, <2>1, <2>2, <2>5
<1>14. ASSUME NEW p \in Ends, NEW to \in Ends, to[1] \in E PROVE to \notin GetFanout(z, p)
  <2>1. CASE to[1] = n
    <3>1. PICK f \in Ids, q \in Slots : to = <<f, q>>
      BY DEF Ends
    <3>2. to = <<n, q>>
      BY <2>1, <3>1
    <3>3. to \notin GetFanout(x, p)
      BY <1>8, <3>2
    <3> QED
      BY <1>10, <3>3
  <2>2. CASE to[1] # n
    <3>1. to[1] \in D
      BY <1>14, <2>2
    <3>2. to \notin GetFanout(w, p)
      BY <1>3, <3>1
    <3> QED
      BY <1>8, <1>10, <3>2
  <2> QED
    BY <2>1, <2>2
<1> QED
  BY <1>10, <1>11, <1>12, <1>13, <1>14 DEF Going, z

(* A function holds what Deleted has after each address.                   *)
DeletedSteps(v, gone, run) ==
  /\ run[0] = v
  /\ \A k \in 1..MaxNodes : run[k] = IF k \in gone THEN DropEdges(run[k - 1], k) ELSE run[k - 1]
  /\ Deleted(v, gone) = [run[MaxNodes] EXCEPT !.def = Erase(@, gone), !.regular = Erase(@, gone)]

(* Such a function there is.                                               *)
LEMMA DeletedLoop ==
  ASSUME NEW v, NEW gone
  PROVE  \E run : DeletedSteps(v, gone, run)
<1> DEFINE L == MaxNodes
           After(x, k) == IF k \in gone THEN DropEdges(x, k) ELSE x
           Loop(g, m) == g = [k \in 0..m |-> IF k = 0 THEN v ELSE After(g[k - 1], k)]
           P == {m \in 0..L : \E g : Loop(g, m)}
<1>0. L \in Nat
  BY BoundsAssumption
<1>1. 0 \in P
  <2> DEFINE g == [k \in 0..0 |-> v]
  <2>1. Loop(g, 0)
    OBVIOUS
  <2> HIDE DEF g, Loop, L
  <2> QED
    BY <2>1, <1>0
<1>2. ASSUME NEW m \in 1..L, m - 1 \in P PROVE m \in P
  <2>1. PICK g : Loop(g, m - 1)
    BY <1>2
  <2> HIDE DEF After, L, P
  <2> DEFINE y == After(g[m - 1], m)
             h == [k \in 0..m |-> IF k = m THEN y ELSE g[k]]
  <2>0. m \in Nat /\ m # 0 /\ m - 1 \in 0..(m - 1)
    BY <1>0
  <2>2. h[m] = y /\ \A k \in 0..(m - 1) : h[k] = g[k]
    BY <2>0
  <2>3. \A k \in 0..(m - 1) : k # 0 => k - 1 \in 0..(m - 1)
    BY <2>0
  <2>4. \A k \in 0..m : k \in 0..(m - 1) \/ k = m
    BY <2>0
  <2>5. \A k \in 0..m : h[k] = IF k = 0 THEN v ELSE After(h[k - 1], k)
    <3> HIDE DEF h
    <3>1. \A k \in 0..(m - 1) : h[k] = IF k = 0 THEN v ELSE After(h[k - 1], k)
      BY <2>1, <2>2, <2>3
    <3>2. h[m] = After(h[m - 1], m)
      BY <2>0, <2>2
    <3> QED
      BY <2>0, <2>4, <3>1, <3>2
  <2>6. Loop(h, m)
    BY <2>5
  <2> HIDE DEF h, Loop
  <2> QED
    BY <2>6 DEF P
<1>3. L \in P
  <2> HIDE DEF P
  <2>1. P \in SUBSET (0..L)
    BY DEF P
  <2>2. P = 0..L
    <3> HIDE DEF L
    <3> QED
      BY <1>0, <1>1, <1>2, <2>1, Throughout
  <2> QED
    BY <1>0, <2>2
<1> DEFINE F == CHOOSE h : Loop(h, L)
<1>4. Loop(F, L)
  <2> HIDE DEF Loop
  <2>1. \E g : Loop(g, L)
    BY <1>3
  <2> HIDE DEF P
  <2> QED
    BY <2>1
<1>5. Deleted(v, gone) = [F[MaxNodes] EXCEPT !.def = Erase(@, gone), !.regular = Erase(@, gone)]
  BY DEF Deleted
<1> HIDE DEF F
<1>6. \A k \in 0..MaxNodes : F[k] = IF k = 0 THEN v ELSE IF k \in gone THEN DropEdges(F[k - 1], k) ELSE F[k - 1]
  BY <1>4
<1>7. \A k \in 1..MaxNodes : k \in 0..MaxNodes /\ k # 0
  BY <1>0
<1>8. 0 \in 0..MaxNodes
  BY <1>0
<1>9. DeletedSteps(v, gone, F)
  BY <1>5, <1>6, <1>7, <1>8 DEF DeletedSteps
<1> QED
  BY <1>9

(* Without their edges, the nodes can go.                                  *)
LEMMA GoneGood ==
  ASSUME NEW v, Good(v, {}), NEW gone \in SUBSET (DOMAIN v.def), Unread(v, gone),
         NEW w, Going(v, w, gone, gone)
  PROVE  Good([w EXCEPT !.def = Erase(@, gone), !.regular = Erase(@, gone)], {})
<1> DEFINE d == Erase(w.def, gone)
           r == Erase(w.regular, gone)
           z == [w EXCEPT !.def = Erase(@, gone), !.regular = Erase(@, gone)]
           E == {}
<1>1. /\ v \in Views /\ UniqueNames(v) /\ AnchorsNamed(v) /\ NoStray(v)
      /\ \A n \in DOMAIN v.def : NodeOk(v, n, E)
  BY DEF Good, WellTyped
<1>2. /\ w \in Views /\ DOMAIN w.def = DOMAIN v.def /\ DOMAIN w.regular = DOMAIN v.def
      /\ \A m \in DOMAIN v.def \ gone : w.def[m] = v.def[m] /\ w.regular[m] = v.regular[m]
      /\ BoundedBut(w, {})
  BY DEF Going
<1>3. /\ \A p, to : to \in GetFanout(w, p) => to \in GetFanout(v, p)
      /\ \A p, to \in Ends : to[1] \notin gone /\ to \in GetFanout(v, p) => to \in GetFanout(w, p)
      /\ \A p, to \in Ends : to[1] \in gone => to \notin GetFanout(w, p)
  BY DEF Going
<1>4. /\ d \in Partial(Ids, NodeDefs) /\ DOMAIN d = DOMAIN v.def \ gone
      /\ \A m \in DOMAIN v.def \ gone : d[m] = v.def[m]
  <2>1. DOMAIN w.def \in SUBSET Ids /\ w.def \in [DOMAIN w.def -> NodeDefs]
    BY <1>2, ViewParts, PartialDef
  <2>2. DOMAIN d = DOMAIN v.def \ gone /\ DOMAIN d \in SUBSET Ids
    BY <1>2, <2>1 DEF Erase, Restrict
  <2>3. d \in [DOMAIN v.def \ gone -> NodeDefs]
    BY <1>2, <2>1 DEF Erase, Restrict
  <2>4. \A m \in DOMAIN v.def \ gone : d[m] = v.def[m]
    BY <1>2 DEF Erase, Restrict
  <2> HIDE DEF d
  <2> QED
    BY <2>2, <2>3, <2>4, PartialDef
<1>5. /\ r \in Partial(Ids, Nat) /\ DOMAIN r = DOMAIN v.def \ gone
      /\ \A m \in DOMAIN v.def \ gone : r[m] = v.regular[m]
  <2>1. w.regular \in Partial(Ids, Nat)
    BY <1>2, ViewParts
  <2>2. /\ Erase(w.regular, gone) \in Partial(Ids, Nat)
        /\ DOMAIN Erase(w.regular, gone) = DOMAIN w.regular \ gone
        /\ \A j \in DOMAIN w.regular \ gone : Erase(w.regular, gone)[j] = w.regular[j]
    BY <2>1, EraseBound
  <2> QED
    BY <1>2, <2>2
<1>6. z = [w EXCEPT !.def = d, !.regular = r]
  OBVIOUS
<1> HIDE DEF d, r, z
<1>7. z \in Views /\ z.def = d /\ z.regular = r /\ z.fanouts = w.fanouts /\ z.max_out = w.max_out
  BY <1>2, <1>4, <1>5, <1>6 DEF Views
<1>8. \A p : GetFanout(z, p) = GetFanout(w, p)
  BY <1>7 DEF GetFanout
<1>9. UniqueNames(z)
  BY <1>1, <1>4, <1>7 DEF UniqueNames
<1>10. AnchorsNamed(z)
  BY <1>1, <1>4, <1>7 DEF AnchorsNamed
<1>11. WellTyped(z)
  BY <1>4, <1>5, <1>7, <1>9, <1>10 DEF WellTyped
<1>12. BoundedBut(z, E)
  BY <1>2, <1>7, <1>8 DEF BoundedBut
<1>13. NoStray(z)
  <2>1. SUFFICES ASSUME NEW p \in Ends, NEW to \in Ends, to \in GetFanout(z, p)
                 PROVE  to[1] \in DOMAIN z.def
    BY DEF NoStray
  <2>2. to \in GetFanout(w, p)
    BY <1>8, <2>1
  <2>3. to[1] \in DOMAIN v.def
    BY <1>1, <1>3, <2>2 DEF NoStray
  <2>4. to[1] \notin gone
    BY <1>3, <2>2
  <2> QED
    BY <1>4, <1>7, <2>3, <2>4
<1>14. Extends(z, v)
  BY <1>4, <1>5, <1>7 DEF Extends
<1>15. ASSUME NEW m \in DOMAIN z.def PROVE NodeOk(z, m, E)
  <2> DEFINE s == v.def[m].input
             k == v.regular[m]
  <2>1. m \in DOMAIN v.def /\ m \notin gone /\ z.def[m].input = s /\ z.regular[m] = k
    BY <1>4, <1>5, <1>7
  <2>2. InputsOk(v, m, s, k, E) /\ Reads(v, m, s, {}) /\ s \in Seq(AnyInput) /\ m \in Ids
    BY <1>1, <2>1, ViewParts DEF NodeOk
  <2> HIDE DEF s, k
  <2>3. Sound(v, m, s, k) /\ Single(s) /\ NoRepeat(v, s, E)
    BY <2>2 DEF InputsOk
  <2>4. ASSUME NEW i \in DOMAIN s
        PROVE  HasNode(z, s[i][1]) /\ GetNode(z, s[i][1]) = GetNode(v, s[i][1])
    <3> DEFINE f == GetNode(v, s[i][1])
    <3>1. HasNode(v, s[i][1])
      BY <2>3 DEF Sound
    <3>2. f \in DOMAIN v.def /\ v.def[f].name = s[i][1] /\ f \in Ids
      BY <1>1, <3>1, NodeFound
    <3>3. /\ OutputPort(v, s[i]) \in Ends /\ OutputPort(v, s[i]) = <<f, s[i][2]>>
          /\ Slot(s[i], i) \in Slots /\ s[i][2] \in AnyPort
      BY <1>1, <2>2, <3>1, InputFacts
    <3> HIDE DEF f
    <3>4. <<m, Slot(s[i], i)>> \in GetFanout(v, <<f, s[i][2]>>)
      BY <2>2, <3>3 DEF Reads
    <3>5. f \notin gone
      <4> SUFFICES ASSUME f \in gone PROVE FALSE
        OBVIOUS
      <4>1. s[i][2] \in Slots
        BY <3>3, IdsAndControl
      <4>2. <<m, Slot(s[i], i)>>[1] \in gone
        BY <3>4, <4>1 DEF Unread
      <4> QED
        BY <2>1, <4>2
    <3>6. f \in DOMAIN z.def /\ z.def[f].name = s[i][1]
      BY <1>4, <1>7, <3>2, <3>5
    <3>7. HasNode(z, s[i][1]) /\ GetNode(z, s[i][1]) = f
      BY <1>7, <1>9, <3>6, NodeNamed
    <3> QED
      BY <3>7 DEF f
  <2>5. ASSUME NEW i \in DOMAIN s
        PROVE  LET f == GetNode(v, s[i][1]) IN
               /\ IsSwitch(z, f) <=> IsSwitch(v, f)
               /\ IsIdentity(z, f) <=> IsIdentity(v, f)
    <3>1. GetNode(v, s[i][1]) \in DOMAIN z.def
      BY <1>7, <2>4, NodeFound
    <3> QED
      BY <1>4, <1>7, <3>1 DEF IsSwitch, IsIdentity
  <2>6. Sound(z, m, s, k)
    BY <2>3, <2>4, <2>5 DEF Sound
  <2>7. NoRepeat(z, s, E)
    BY <2>3, <2>4, <2>5 DEF NoRepeat
  <2>8. Reads(z, m, s, {})
    <3>1. \A i \in DOMAIN s : OutputPort(z, s[i]) = OutputPort(v, s[i])
      BY <2>4 DEF OutputPort
    <3>2. ASSUME NEW port \in Ends, NEW at \in Slots
          PROVE  <<m, at>> \in GetFanout(z, port) <=> <<m, at>> \in GetFanout(v, port)
      <4>1. <<m, at>> \in Ends /\ <<m, at>>[1] = m
        BY <2>2 DEF Ends
      <4> QED
        BY <1>3, <1>8, <2>1, <4>1
    <3> QED
      BY <2>2, <3>1, <3>2 DEF Reads
  <2> HIDE DEF E
  <2> QED
    BY <2>1, <2>3, <2>6, <2>7, <2>8 DEF NodeOk, InputsOk
<1>16. Good(z, E)
  BY <1>11, <1>12, <1>13, <1>15 DEF Good
<1> QED
  BY <1>16 DEF z

(* DeleteNodes, if it does not refuse.                                     *)
LEMMA DeletedGood ==
  ASSUME NEW v, Good(v, {}), NEW gone \in SUBSET (DOMAIN v.def),
         CheckNodesCanBeDeleted(v, gone)
  PROVE  Good(Deleted(v, gone), {})
<1> DEFINE Past(i) == gone \cap (1..i)
<1>0. Unread(v, gone) /\ v \in Views /\ DOMAIN v.regular = DOMAIN v.def /\ BoundedBut(v, {})
  BY CheckFacts DEF Good, WellTyped
<1>1. PICK g : DeletedSteps(v, gone, g)
  BY DeletedLoop
<1>2. /\ g[0] = v
      /\ \A i \in 1..MaxNodes : g[i] = IF i \in gone THEN DropEdges(g[i - 1], i) ELSE g[i - 1]
      /\ Deleted(v, gone) = [g[MaxNodes] EXCEPT !.def = Erase(@, gone), !.regular = Erase(@, gone)]
  BY <1>1 DEF DeletedSteps
<1>3. MaxNodes \in Nat /\ gone \subseteq Ids
  BY <1>0, BoundsAssumption, ViewParts
<1>4. Past(0) = {}
  OBVIOUS
<1>5. \A i \in 1..MaxNodes : Past(i) = IF i \in gone THEN Past(i - 1) \cup {i} ELSE Past(i - 1)
  <2>1. \A i \in 1..MaxNodes : \A j \in Nat : j \in 1..i <=> j \in 1..(i - 1) \/ j = i
    BY <1>3
  <2>2. gone \subseteq Nat
    BY <1>3, IdsAndControl
  <2> QED
    BY <2>1, <2>2
<1>6. Past(MaxNodes) = gone
  BY <1>3 DEF Ids
<1> HIDE DEF Past
<1> DEFINE P == {i \in 0..MaxNodes : Going(v, g[i], gone, Past(i))}
<1>7. 0 \in P
  <2>1. Going(v, v, gone, {})
    BY <1>0 DEF Going
  <2> QED
    BY <1>2, <1>3, <1>4, <2>1
<1>8. ASSUME NEW i \in 1..MaxNodes, i - 1 \in P PROVE i \in P
  <2>1. Going(v, g[i - 1], gone, Past(i - 1)) /\ i \in 0..MaxNodes
    BY <1>3, <1>8
  <2>2. CASE i \in gone
    <3>1. Past(i) = Past(i - 1) \cup {i} /\ g[i] = DropEdges(g[i - 1], i)
      BY <1>2, <1>5, <2>2
    <3>2. Going(v, DropEdges(g[i - 1], i), gone, Past(i))
      BY <1>0, <2>1, <2>2, <3>1, GoStep
    <3> QED
      BY <2>1, <3>1, <3>2
  <2>3. CASE i \notin gone
    BY <1>2, <1>5, <2>1, <2>3
  <2> QED
    BY <2>2, <2>3
<1> HIDE DEF P
<1>9. MaxNodes \in P
  <2>1. P \in SUBSET (0..MaxNodes)
    BY DEF P
  <2>2. P = 0..MaxNodes
    BY <1>3, <1>7, <1>8, <2>1, Throughout
  <2> QED
    BY <1>3, <2>2
<1>10. Going(v, g[MaxNodes], gone, gone)
  BY <1>6, <1>9 DEF P
<1> DEFINE y == g[MaxNodes]
<1>11. Going(v, y, gone, gone) /\ Deleted(v, gone) = [y EXCEPT !.def = Erase(@, gone), !.regular = Erase(@, gone)]
  BY <1>2, <1>10
<1> HIDE DEF y
<1>12. Good([y EXCEPT !.def = Erase(@, gone), !.regular = Erase(@, gone)], {})
  BY <1>0, <1>11, GoneGood
<1> QED
  BY <1>11, <1>12

-----------------------------------------------------------------------------
(* The Identities for the inputs of a node are made.                       *)

(* n may wait for c.                                                       *)
MayControl(u, n, c) == c \in DOMAIN u.def /\ c # n /\ ~IsSwitch(u, c)

(* Of nodes that are free, one may be taken.                               *)
LEMMA OneLess ==
  ASSUME NEW S, IsFiniteSet(S), NEW T, NEW x, S \ {x} \subseteq T, IsFiniteSet(T)
  PROVE  /\ Cardinality(S) \in Nat /\ Cardinality(T) \in Nat
         /\ Cardinality(T) >= Cardinality(S) - 1
         /\ x \in S => Cardinality(S \ {x}) = Cardinality(S) - 1
         /\ x \in S => Cardinality(S) >= 1
<1>1. Cardinality(S) \in Nat /\ Cardinality(T) \in Nat
  BY FS_CardinalityType
<1>2. x \in S => IsFiniteSet(S \ {x}) /\ Cardinality(S \ {x}) = Cardinality(S) - 1
  BY FS_RemoveElement
<1>3. CASE x \in S
  <2> DEFINE R == S \ {x}
  <2>0. IsFiniteSet(R) /\ Cardinality(R) = Cardinality(S) - 1 /\ R \in SUBSET T
    BY <1>2, <1>3
  <2> HIDE DEF R
  <2>1. Cardinality(R) <= Cardinality(T) /\ Cardinality(R) \in Nat
    BY <2>0, FS_Subset, FS_CardinalityType
  <2> QED
    BY <1>1, <1>2, <2>0, <2>1 DEF R
<1>4. CASE x \notin S
  <2>1. S \in SUBSET T
    BY <1>4
  <2>2. Cardinality(S) <= Cardinality(T)
    BY <2>1, FS_Subset
  <2> QED
    BY <1>1, <1>4, <2>2
<1> QED
  BY <1>3, <1>4

(* There are finitely many addresses.                                      *)
LEMMA FreeIsFinite ==
  ASSUME NEW S \in SUBSET Ids
  PROVE  IsFiniteSet(S)
<1>1. IsFiniteSet(Ids)
  <2>1. 1 \in Int /\ MaxNodes \in Int
    BY BoundsAssumption
  <2> QED
    BY <2>1, FS_Interval DEF Ids
<1> QED
  BY <1>1, FS_Subset

(* The port that n reads at position i.                                    *)
PortAt(v, n, i) == OutputPort(v, v.def[n].input[i])

(* The ports that Identities are to be made for, up to i.                  *)
ToMake(v, n, anchor, i) ==
  {PortAt(v, n, j) : j \in {k \in 1..v.regular[n] : k <= i /\ anchor[k] = Null}}

(* The Identities for the inputs of n up to i are there.                   *)
HaveAnchors(v, w, n, anchor, i) ==
  /\ Good(w, {}) /\ Extends(v, w)
  /\ \A j \in 1..v.regular[n] :
       j <= i /\ anchor[j] = Null => HasNode(w, AnchorName(v, PortAt(v, n, j)))
  /\ Cardinality(Ids \ DOMAIN w.def) >=
       Cardinality(ToMake(v, n, anchor, v.regular[n]) \ ToMake(v, n, anchor, i))

(* A function holds what WithAnchors has after each input.                 *)
WithAnchorsSteps(v, n, anchor, run) ==
  /\ run[0] = v
  /\ \A k \in 1..v.regular[n] : run[k] = Anchored(run[k - 1], OutputPort(v, v.def[n].input[k]), anchor[k])
  /\ WithAnchors(v, n, anchor) = run[v.regular[n]]

(* Such a function there is.                                               *)
LEMMA WithAnchorsLoop ==
  ASSUME NEW v, NEW n, NEW anchor, v.regular[n] \in Nat
  PROVE  \E run : WithAnchorsSteps(v, n, anchor, run)
<1> DEFINE L == v.regular[n]
           After(x, k) == Anchored(x, OutputPort(v, v.def[n].input[k]), anchor[k])
           Loop(g, m) == g = [k \in 0..m |-> IF k = 0 THEN v ELSE After(g[k - 1], k)]
           P == {m \in 0..L : \E g : Loop(g, m)}
<1>0. L \in Nat
  OBVIOUS
<1>1. 0 \in P
  <2> DEFINE g == [k \in 0..0 |-> v]
  <2>1. Loop(g, 0)
    OBVIOUS
  <2> HIDE DEF g, Loop, L
  <2> QED
    BY <2>1, <1>0
<1>2. ASSUME NEW m \in 1..L, m - 1 \in P PROVE m \in P
  <2>1. PICK g : Loop(g, m - 1)
    BY <1>2
  <2> HIDE DEF After, L, P
  <2> DEFINE y == After(g[m - 1], m)
             h == [k \in 0..m |-> IF k = m THEN y ELSE g[k]]
  <2>0. m \in Nat /\ m # 0 /\ m - 1 \in 0..(m - 1)
    BY <1>0
  <2>2. h[m] = y /\ \A k \in 0..(m - 1) : h[k] = g[k]
    BY <2>0
  <2>3. \A k \in 0..(m - 1) : k # 0 => k - 1 \in 0..(m - 1)
    BY <2>0
  <2>4. \A k \in 0..m : k \in 0..(m - 1) \/ k = m
    BY <2>0
  <2>5. \A k \in 0..m : h[k] = IF k = 0 THEN v ELSE After(h[k - 1], k)
    <3> HIDE DEF h
    <3>1. \A k \in 0..(m - 1) : h[k] = IF k = 0 THEN v ELSE After(h[k - 1], k)
      BY <2>1, <2>2, <2>3
    <3>2. h[m] = After(h[m - 1], m)
      BY <2>0, <2>2
    <3> QED
      BY <2>0, <2>4, <3>1, <3>2
  <2>6. Loop(h, m)
    BY <2>5
  <2> HIDE DEF h, Loop
  <2> QED
    BY <2>6 DEF P
<1>3. L \in P
  <2> HIDE DEF P
  <2>1. P \in SUBSET (0..L)
    BY DEF P
  <2>2. P = 0..L
    <3> HIDE DEF L
    <3> QED
      BY <1>0, <1>1, <1>2, <2>1, Throughout
  <2> QED
    BY <1>0, <2>2
<1> DEFINE F == CHOOSE h : Loop(h, L)
<1>4. Loop(F, L)
  <2> HIDE DEF Loop
  <2>1. \E g : Loop(g, L)
    BY <1>3
  <2> HIDE DEF P
  <2> QED
    BY <2>1
<1>5. WithAnchors(v, n, anchor) = F[v.regular[n]]
  BY DEF WithAnchors
<1> HIDE DEF F
<1>6. \A k \in 0..v.regular[n] : F[k] = IF k = 0 THEN v ELSE Anchored(F[k - 1], OutputPort(v, v.def[n].input[k]), anchor[k])
  BY <1>4
<1>7. \A k \in 1..v.regular[n] : k \in 0..v.regular[n] /\ k # 0
  BY <1>0
<1>8. 0 \in 0..v.regular[n]
  BY <1>0
<1>9. WithAnchorsSteps(v, n, anchor, F)
  BY <1>5, <1>6, <1>7, <1>8 DEF WithAnchorsSteps
<1> QED
  BY <1>9

(* The Identity for one input is made, if it is to be.                     *)
LEMMA AnchorStep ==
  ASSUME NEW v, Good(v, {}), NEW n \in DOMAIN v.def, NEW anchor,
         NEW i \in 1..v.regular[n], v.regular[n] \in Nat,
         PortAt(v, n, i) \in Ends,
         anchor[i] = Null => ToBeMade(v, n, PortAt(v, n, i)),
         NEW w, HaveAnchors(v, w, n, anchor, i - 1)
  PROVE  HaveAnchors(v, Anchored(w, PortAt(v, n, i), anchor[i]), n, anchor, i)
<1> DEFINE port == PortAt(v, n, i)
           num == v.regular[n]
           z == Anchored(w, port, anchor[i])
           Q == ToMake(v, n, anchor, num)
           R == ToMake(v, n, anchor, i - 1)
           T == ToMake(v, n, anchor, i)
           F == Ids \ DOMAIN w.def
           Fz == Ids \ DOMAIN z.def
<1>1. /\ Good(w, {}) /\ Extends(v, w) /\ Cardinality(F) >= Cardinality(Q \ R)
      /\ \A j \in 1..num : j <= i - 1 /\ anchor[j] = Null => HasNode(w, AnchorName(v, PortAt(v, n, j)))
  BY DEF HaveAnchors
<1>2. i \in Nat /\ i \in 1..num /\ \A j \in 1..num : j <= i <=> j <= i - 1 \/ j = i
  OBVIOUS
<1>3. CASE anchor[i] # Null
  <2>1. z = w
    BY <1>3 DEF Anchored
  <2>2. \A j \in 1..num : j <= i /\ anchor[j] = Null <=> j <= i - 1 /\ anchor[j] = Null
    BY <1>2, <1>3
  <2>3. T = R
    BY <2>2 DEF ToMake
  <2> HIDE DEF z, num, port
  <2>4. HaveAnchors(v, w, n, anchor, i)
    BY <1>1, <2>2, <2>3 DEF HaveAnchors, num
  <2> QED
    BY <2>1, <2>4 DEF z, port
<1>4. CASE anchor[i] = Null
  <2>1. ToBeMade(v, n, port)
    BY <1>4
  <2>2. z = GetOrCreateIdentityConsumingSwitch(w, port)
    BY <1>4 DEF Anchored
  <2>3. \A j \in 1..num : j <= i /\ anchor[j] = Null <=> (j <= i - 1 /\ anchor[j] = Null) \/ j = i
    BY <1>2, <1>4
  <2>4. T = R \cup {port}
    BY <1>2, <2>3 DEF ToMake
  <2>5. port \in Q
    BY <1>2, <1>4 DEF ToMake
  <2>6. AnchorName(w, port) = AnchorName(v, port)
    BY <1>1, <2>1 DEF Extends, ToBeMade, AnchorName
  <2>7. ToBeMade(w, n, port) /\ n \in DOMAIN w.def
    <3>1. /\ port[1] \in DOMAIN w.def /\ w.def[port[1]] = v.def[port[1]]
          /\ n \in DOMAIN w.def /\ w.def[n] = v.def[n]
      BY <1>1, <2>1 DEF Extends, ToBeMade
    <3> HIDE DEF port
    <3> QED
      BY <2>1, <2>6, <3>1 DEF ToBeMade
  <2>8. R \subseteq Q /\ IsFiniteSet(Q)
    <3>1. R \subseteq Q
      BY DEF ToMake
    <3> DEFINE S == {k \in 1..num : k <= num /\ anchor[k] = Null}
               f == [j \in S |-> PortAt(v, n, j)]
    <3>2. IsFiniteSet(S)
      <4>1. 1 \in Int /\ num \in Int
        OBVIOUS
      <4>2. IsFiniteSet(1..num)
        BY <4>1, FS_Interval
      <4>3. S \in SUBSET (1..num)
        OBVIOUS
      <4> HIDE DEF S
      <4> QED
        BY <4>2, <4>3, FS_Subset
    <3>3. Q = {PortAt(v, n, j) : j \in S}
      BY DEF ToMake
    <3> HIDE DEF S, Q
    <3>4. f \in Surjection(S, Q)
      <4>1. f \in [S -> Q] /\ \A t \in Q : \E j \in S : f[j] = t
        BY <3>3
      <4> HIDE DEF f
      <4> QED
        BY <4>1 DEF Surjection
    <3> HIDE DEF f
    <3>5. IsFiniteSet(Q)
      BY <3>2, <3>4, FS_Surjection
    <3> QED
      BY <3>1, <3>5 DEF Q
  <2>9. Extends(w, z) /\ Good(z, {}) /\ HasNode(z, AnchorName(v, port))
        /\ Cardinality(Fz) >= Cardinality(Q \ T)
    <3>1. CASE port \in R
      <4>1. PICK j \in 1..num : j <= i - 1 /\ anchor[j] = Null /\ port = PortAt(v, n, j)
        BY <3>1 DEF ToMake
      <4>2. HasNode(w, AnchorName(v, port))
        BY <1>1, <4>1
      <4>3. z = w
        BY <2>2, <2>6, <4>2 DEF GetOrCreateIdentityConsumingSwitch
      <4>4. T = R
        BY <2>4, <3>1
      <4>5. Extends(w, w)
        BY DEF Extends
      <4> HIDE DEF port, num
      <4> QED
        BY <1>1, <4>2, <4>3, <4>4, <4>5
    <3>2. CASE port \notin R
      <4> DEFINE U == Q \ R
      <4>1. port \in U /\ IsFiniteSet(U) /\ Q \ T = U \ {port} /\ U \ {port} \subseteq U
        <5> HIDE DEF Q, R, T, port
        <5>1. IsFiniteSet(U)
          BY <2>8, FS_Subset
        <5> QED
          BY <2>4, <2>5, <3>2, <5>1
      <4>2. IsFiniteSet(F) /\ IsFiniteSet(Fz)
        BY FreeIsFinite
      <4>3. Cardinality(F) >= Cardinality(U)
        BY <1>1
      <4> HIDE DEF U
      <4>4. Cardinality(U) >= 1 /\ Cardinality(Q \ T) = Cardinality(U) - 1 /\ Cardinality(U) \in Nat
        <5> HIDE DEF Q, T, port
        <5> QED
          BY <4>1, OneLess
      <4>5. Cardinality(F) \in Nat
        BY <4>2, FS_CardinalityType
      <4>6. F # {}
        <5>1. Cardinality({}) = 0
          BY FS_EmptySet
        <5> HIDE DEF F
        <5> QED
          BY <4>3, <4>4, <4>5, <5>1
      <4>7. AnchorMade(w, z, port)
        <5>1. port \in Ends
          OBVIOUS
        <5> HIDE DEF port, z
        <5> QED
          BY <1>1, <2>2, <2>7, <4>6, <5>1, AnchorMadeFacts
      <4> HIDE DEF z
      <4>8. PICK m \in Ids : DOMAIN z.def \subseteq DOMAIN w.def \cup {m}
        BY <4>7 DEF AnchorMade
      <4>9. F \ {m} \subseteq Fz
        BY <4>8
      <4>10. Cardinality(Fz) >= Cardinality(F) - 1 /\ Cardinality(Fz) \in Nat
        <5> HIDE DEF F, Fz
        <5> QED
          BY <4>2, <4>9, OneLess
      <4>11. Cardinality(Fz) >= Cardinality(Q \ T)
        <5> HIDE DEF F, Fz, Q, T
        <5> QED
          BY <4>3, <4>4, <4>5, <4>10
      <4>12. Extends(w, z) /\ Good(z, {}) /\ HasNode(z, AnchorName(w, port))
        BY <4>7 DEF AnchorMade
      <4> QED
        BY <2>6, <4>11, <4>12
    <3> QED
      BY <3>1, <3>2
  <2>10. Extends(v, z)
    <3> HIDE DEF z
    <3> QED
      BY <1>1, <2>9, ExtendsTrans
  <2>11. ASSUME NEW j \in 1..num, j <= i, anchor[j] = Null
         PROVE  HasNode(z, AnchorName(v, PortAt(v, n, j)))
    <3>1. CASE j = i
      BY <2>9, <3>1
    <3>2. CASE j # i
      <4>1. HasNode(w, AnchorName(v, PortAt(v, n, j)))
        BY <1>1, <1>2, <2>11, <3>2
      <4>2. w \in Views /\ z \in Views /\ UniqueNames(z)
        <5> HIDE DEF z
        <5> QED
          BY <1>1, <2>9 DEF Good, WellTyped
      <4> HIDE DEF z
      <4> QED
        BY <2>9, <4>1, <4>2, ExtendsNames
    <3> QED
      BY <3>1, <3>2
  <2> HIDE DEF z, Q, T
  <2>12. HaveAnchors(v, z, n, anchor, i)
    BY <2>9, <2>10, <2>11 DEF HaveAnchors, Q, T
  <2> QED
    BY <2>12 DEF z, port
<1> QED
  BY <1>3, <1>4

(* The node that is waited for instead of input i.                         *)
AnchorAt(v, u, n, anchor, i) == AnchorNode(u, PortAt(v, n, i), anchor[i])

(* All of them are there, and n may wait for each.                         *)
AllAnchored(v, u, n, anchor) ==
  /\ Good(u, {}) /\ Extends(v, u)
  /\ \A i \in 1..v.regular[n] : MayControl(u, n, AnchorAt(v, u, n, anchor, i))

(* WithAnchors: all of them are there, and nothing has changed.            *)
LEMMA WithAnchorsFacts ==
  ASSUME NEW v, Good(v, {}), NEW n \in DOMAIN v.def, NEW anchor,
         \A i \in 1..v.regular[n] :
           PortAt(v, n, i) \in Ends /\ Choice(v, n, PortAt(v, n, i), anchor[i]),
         Cardinality(Ids \ DOMAIN v.def) >=
           Cardinality({PortAt(v, n, i) : i \in {j \in 1..v.regular[n] : anchor[j] = Null}})
  PROVE  AllAnchored(v, WithAnchors(v, n, anchor), n, anchor)
<1> DEFINE num == v.regular[n]
           u == WithAnchors(v, n, anchor)
<1>1. v \in Views /\ num \in Nat /\ n \in Ids /\ WellTyped(v)
  BY ViewParts DEF Good, WellTyped
<1>2. PICK g : WithAnchorsSteps(v, n, anchor, g)
  BY <1>1, WithAnchorsLoop
<1>3. /\ g[0] = v
      /\ \A i \in 1..num : g[i] = Anchored(g[i - 1], PortAt(v, n, i), anchor[i])
      /\ u = g[num]
  BY <1>2 DEF WithAnchorsSteps, PortAt
<1>4. ToMake(v, n, anchor, 0) = {}
  <2>1. \A k \in 1..num : ~(k <= 0)
    BY <1>1
  <2> QED
    BY <2>1 DEF ToMake
<1>5. ToMake(v, n, anchor, num) = {PortAt(v, n, i) : i \in {j \in 1..num : anchor[j] = Null}}
  <2>1. {k \in 1..num : k <= num /\ anchor[k] = Null} = {j \in 1..num : anchor[j] = Null}
    BY <1>1
  <2> QED
    BY <2>1 DEF ToMake
<1> HIDE DEF u
<1> DEFINE P == {i \in 0..num : HaveAnchors(v, g[i], n, anchor, i)}
<1>6. 0 \in P
  <2>1. Extends(v, v)
    BY DEF Extends
  <2> DEFINE Q == ToMake(v, n, anchor, num)
  <2>2. Q \ {} = Q /\ Cardinality(Ids \ DOMAIN v.def) >= Cardinality(Q)
    BY <1>5
  <2> HIDE DEF Q
  <2>3. \A j \in 1..num : ~(j <= 0)
    BY <1>1
  <2>4. HaveAnchors(v, v, n, anchor, 0)
    BY <1>4, <2>1, <2>2, <2>3 DEF HaveAnchors, Q
  <2> HIDE DEF num
  <2> QED
    BY <1>1, <1>3, <2>4
<1>7. ASSUME NEW i \in 1..num, i - 1 \in P PROVE i \in P
  <2>1. HaveAnchors(v, g[i - 1], n, anchor, i - 1) /\ i \in 0..num
    BY <1>1, <1>7
  <2>2. g[i] = Anchored(g[i - 1], PortAt(v, n, i), anchor[i])
    BY <1>3
  <2>3. PortAt(v, n, i) \in Ends /\ (anchor[i] = Null => ToBeMade(v, n, PortAt(v, n, i)))
    BY DEF Choice
  <2>4. HaveAnchors(v, g[i], n, anchor, i)
    BY <1>1, <2>1, <2>2, <2>3, AnchorStep
  <2> QED
    BY <2>1, <2>4
<1> HIDE DEF P
<1>8. num \in P
  <2>1. P \in SUBSET (0..num)
    BY DEF P
  <2> HIDE DEF num
  <2>2. P = 0..num
    BY <1>1, <1>6, <1>7, <2>1, Throughout
  <2> QED
    BY <1>1, <2>2
<1>9. HaveAnchors(v, u, n, anchor, num)
  BY <1>3, <1>8 DEF P
<1>10. /\ Good(u, {}) /\ Extends(v, u) /\ WellTyped(u)
       /\ \A j \in 1..num : anchor[j] = Null => HasNode(u, AnchorName(v, PortAt(v, n, j)))
  BY <1>1, <1>9 DEF HaveAnchors, Good
<1>11. ASSUME NEW i \in 1..num PROVE MayControl(u, n, AnchorAt(v, u, n, anchor, i))
  <2> DEFINE port == PortAt(v, n, i)
             c == AnchorAt(v, u, n, anchor, i)
  <2>1. Choice(v, n, port, anchor[i])
    OBVIOUS
  <2> HIDE DEF port
  <2>2. CASE anchor[i] = Null
    <3>1. ToBeMade(v, n, port)
      BY <2>1, <2>2 DEF Choice
    <3>2. AnchorName(u, port) = AnchorName(v, port)
      BY <1>10, <3>1 DEF Extends, ToBeMade, AnchorName
    <3>3. c = GetNode(u, AnchorName(v, port))
      BY <2>2, <3>2 DEF AnchorAt, AnchorNode, port
    <3>4. HasNode(u, AnchorName(v, port))
      BY <1>10, <2>2 DEF port
    <3>5. c \in DOMAIN u.def /\ c # n /\ ~IsSwitch(u, c)
      BY <1>1, <1>10, <3>1, <3>3, <3>4, AnchorIsIdentity
    <3> QED
      BY <3>5 DEF MayControl
  <2>3. CASE anchor[i] # Null
    <3>1. c = anchor[i]
      BY <2>3 DEF AnchorAt, AnchorNode
    <3>2. c \in DOMAIN v.def /\ c # n /\ ~IsSwitch(v, c)
      BY <2>1, <2>3, <3>1 DEF Choice
    <3> HIDE DEF c
    <3>3. c \in DOMAIN u.def /\ ~IsSwitch(u, c)
      BY <1>10, <3>2 DEF Extends, IsSwitch
    <3>4. MayControl(u, n, c)
      BY <3>2, <3>3 DEF MayControl
    <3> QED
      BY <3>4 DEF c
  <2> QED
    BY <2>2, <2>3
<1> QED
  BY <1>10, <1>11 DEF AllAnchored, u

-----------------------------------------------------------------------------
(* The regular inputs of a node become controls.                           *)

(* The first p - 1 inputs are controls, on the nodes C.                    *)
Turned(u, n, t, p, C) ==
  /\ \A j \in 1..p - 1 :
       /\ t[j][2] = Control /\ HasNode(u, t[j][1])
       /\ MayControl(u, n, GetNode(u, t[j][1])) /\ GetNode(u, t[j][1]) \in C
  /\ \A c \in C : \E j \in 1..p - 1 : GetNode(u, t[j][1]) = c
  /\ \A j, k \in 1..p - 1 : t[j][1] = t[k][1] => j = k

(* One more position is a control.                                         *)
LEMMA TurnOne ==
  ASSUME NEW u \in Views, NEW n, NEW t, NEW p \in Nat, p >= 1, NEW C, Turned(u, n, t, p, C),
         NEW y, \A j \in 1..p - 1 : y[j] = t[j],
         y[p][2] = Control, HasNode(u, y[p][1]), MayControl(u, n, GetNode(u, y[p][1])),
         GetNode(u, y[p][1]) \notin C,
         NEW D, D = C \cup {GetNode(u, y[p][1])}, NEW q, q = p + 1
  PROVE  Turned(u, n, y, q, D)
<1>1. \A j \in 1..q - 1 : j \in 1..p - 1 \/ j = p
  OBVIOUS
<1>2. p \in 1..q - 1 /\ \A j \in 1..p - 1 : j \in 1..q - 1
  OBVIOUS
<1>3. \A j \in 1..p - 1 :
        /\ y[j][2] = Control /\ HasNode(u, y[j][1])
        /\ MayControl(u, n, GetNode(u, y[j][1])) /\ GetNode(u, y[j][1]) \in C
  BY DEF Turned
<1>4. \A c \in C : \E j \in 1..p - 1 : GetNode(u, y[j][1]) = c
  BY DEF Turned
<1>5. \A j, k \in 1..p - 1 : y[j][1] = y[k][1] => j = k
  BY DEF Turned
<1>6. \A j \in 1..p - 1 : y[j][1] # y[p][1]
  BY <1>3
<1>7. \A j \in 1..q - 1 :
        /\ y[j][2] = Control /\ HasNode(u, y[j][1])
        /\ MayControl(u, n, GetNode(u, y[j][1])) /\ GetNode(u, y[j][1]) \in D
  BY <1>1, <1>3
<1>8. \A c \in D : \E j \in 1..q - 1 : GetNode(u, y[j][1]) = c
  BY <1>2, <1>4
<1>9. \A j, k \in 1..q - 1 : y[j][1] = y[k][1] => j = k
  BY <1>1, <1>5, <1>6
<1> QED
  BY <1>7, <1>8, <1>9 DEF Turned

(* The positions from p to i are free.                                     *)
Turning(u, n, s, x, i) ==
  LET t == x.view.def[n].input
  IN  /\ x = [view |-> x.view, pos |-> x.pos, controls |-> x.controls]
      /\ t \in Seq(AnyInput) /\ Len(t) = Len(s)
      /\ x.pos \in 1..i + 1
      /\ Editing(u, x.view, n, t, x.pos..i, {})
      /\ Turned(u, n, t, x.pos, x.controls)
      /\ \A j \in DOMAIN s : j > i => t[j] = s[j]

(* What n holds on the way.                                                *)
LEMMA TurningParts ==
  ASSUME NEW u, WellTyped(u), NEW n \in DOMAIN u.def, NEW s \in Seq(AnyInput),
         NEW i \in DOMAIN s, NEW x, Turning(u, n, s, x, i - 1)
  PROVE  LET t == x.view.def[n].input
             p == x.pos
         IN  /\ x = [view |-> x.view, pos |-> p, controls |-> x.controls]
             /\ t \in Seq(AnyInput) /\ Len(t) = Len(s) /\ DOMAIN t = DOMAIN s
             /\ DOMAIN t = 1..Len(t)
             /\ p \in Nat /\ p >= 1 /\ p <= i /\ i \in Nat /\ p \in DOMAIN t /\ i \in DOMAIN t
             /\ Editing(u, x.view, n, t, p..i - 1, {})
             /\ Turned(u, n, t, p, x.controls)
             /\ \A j \in DOMAIN s : j > i - 1 => t[j] = s[j]
             /\ t[i] = s[i] /\ \A j \in DOMAIN s : j > i => t[j] = s[j]
<1> DEFINE t == x.view.def[n].input
           p == x.pos
<1>1. /\ x = [view |-> x.view, pos |-> p, controls |-> x.controls]
      /\ t \in Seq(AnyInput) /\ Len(t) = Len(s)
      /\ p \in 1..(i - 1) + 1
      /\ Editing(u, x.view, n, t, p..i - 1, {})
      /\ Turned(u, n, t, p, x.controls)
      /\ \A j \in DOMAIN s : j > i - 1 => t[j] = s[j]
  BY DEF Turning
<1> HIDE DEF t, p
<1>2. DOMAIN t = 1..Len(t) /\ DOMAIN s = 1..Len(s) /\ Len(s) \in Nat
  BY <1>1, LenProperties
<1>3. i \in 1..Len(s)
  BY <1>2
<1>4. p \in Nat /\ p >= 1 /\ p <= i /\ i \in Nat /\ p \in 1..Len(s)
  BY <1>2, <1>3, <1>1
<1>5. \A j \in DOMAIN s : j > i => t[j] = s[j]
  BY <1>1, <1>2, <1>4
<1>6. t[i] = s[i]
  BY <1>1, <1>2, <1>4
<1> QED
  BY <1>1, <1>2, <1>3, <1>4, <1>5, <1>6 DEF t, p

(* A regular input gives way to a control, or to none.                     *)
LEMMA TurnRegular ==
  ASSUME NEW u, WellTyped(u), NEW n \in DOMAIN u.def, NEW s \in Seq(AnyInput),
         NEW i \in DOMAIN s, HasNode(u, s[i][1]), s[i][2] # Control,
         NEW x, Turning(u, n, s, x, i - 1), NEW c, MayControl(u, n, c)
  PROVE  Turning(u, n, s, VisitFanin(x, n, i, OutputPort(u, s[i]), c), i)
<1> DEFINE v == x.view
           t == v.def[n].input
           p == x.pos
           C == x.controls
           port == OutputPort(u, s[i])
           w == Unlink(v, port, <<n, i>>)
           E == {}
           y == VisitFanin(x, n, i, port, c)
           H == p..i - 1
           G == p..i
<1>1. /\ x = [view |-> v, pos |-> p, controls |-> C]
      /\ t \in Seq(AnyInput) /\ Len(t) = Len(s) /\ DOMAIN t = DOMAIN s /\ DOMAIN t = 1..Len(t)
      /\ p \in Nat /\ p >= 1 /\ p <= i /\ i \in Nat /\ p \in DOMAIN t /\ i \in DOMAIN t
      /\ Editing(u, v, n, t, H, E)
      /\ Turned(u, n, t, p, C)
      /\ t[i] = s[i] /\ \A j \in DOMAIN s : j > i => t[j] = s[j]
  BY TurningParts
<1>2. u \in Views /\ UniqueNames(u)
  BY DEF WellTyped
<1> HIDE DEF t, p, C, v
<1>3. G = H \cup {i} /\ i \notin H
  BY <1>1
<1>4. Edited(u, v, w, n, t, G, E)
  <2>1. i \in DOMAIN t \ H /\ HasNode(u, t[i][1]) /\ t[i][2] # Control
    BY <1>1, <1>3
  <2> HIDE DEF H, G, E, port
  <2>2. Alone(u, t, H, i)
    BY <1>1, <1>2, <2>1, RegularAlone
  <2>3. Slot(t[i], i) = i /\ OutputPort(u, t[i]) = port
    BY <1>1, <2>1 DEF Slot, port
  <2>4. Edited(u, v, Unlink(v, OutputPort(u, t[i]), <<n, Slot(t[i], i)>>), n, t, H \cup {i}, E)
    BY <1>1, <2>1, <2>2, EditUnlink
  <2> QED
    BY <1>3, <2>3, <2>4
<1> HIDE DEF w
<1>5. Editing(u, w, n, t, G, E) /\ w.def = v.def
  BY <1>4 DEF Edited
<1>6. w.def[n].input = t
  BY <1>5 DEF t
<1>7. y = PutControl([view |-> w, pos |-> p, controls |-> C], n, c)
  BY <1>1 DEF VisitFanin, w
<1> HIDE DEF y, E
<1>8. p \in 1..i + 1 /\ p + 1 \in 1..i + 1
  BY <1>1
<1>9. CASE c \in C
  <2>1. y.view = w /\ y.pos = p /\ y.controls = C /\ y = [view |-> w, pos |-> p, controls |-> C]
    BY <1>7, <1>9 DEF PutControl
  <2>2. Turning(u, n, s, y, i)
    <3>1. y = [view |-> y.view, pos |-> y.pos, controls |-> y.controls]
      BY <2>1
    <3>2. Editing(u, y.view, n, t, y.pos..i, E)
      BY <1>5, <2>1
    <3>3. y.view.def[n].input = t
      BY <1>6, <2>1
    <3>4. y.pos \in 1..i + 1 /\ Turned(u, n, t, y.pos, y.controls)
      BY <1>1, <1>8, <2>1
    <3> QED
      BY <1>1, <3>1, <3>2, <3>3, <3>4 DEF Turning, E
  <2> QED
    BY <2>2 DEF y
<1>10. CASE c \notin C
  <2> DEFINE a == <<u.def[c].name, Control>>
             r == [t EXCEPT ![p] = a]
             K == p + 1..i
             z == Link(w, <<c, Control>>, <<n, Control>>)
             q == SetInput(z, n, r)
  <2>1. c \in DOMAIN u.def /\ Control \in AnyPort
    BY DEF MayControl, AnyPort
  <2>2. a \in AnyInput /\ a[1] = u.def[c].name /\ a[2] = Control
        /\ HasNode(u, a[1]) /\ OutputPort(u, a) = <<c, Control>> /\ GetNode(u, a[1]) = c
    BY <1>2, <2>1, InputOfPort, NodeNamed
  <2>3. w.def[c].name = u.def[c].name
    BY <1>5, <2>1 DEF Editing, Frame
  <2>4. /\ y = [view |-> q, pos |-> p + 1, controls |-> C \cup {c}]
        /\ y.view = q /\ y.pos = p + 1 /\ y.controls = C \cup {c}
    BY <1>6, <1>7, <1>10, <2>3 DEF PutControl
  <2> HIDE DEF a
  <2>5. /\ r \in Seq(AnyInput) /\ Len(r) = Len(t) /\ DOMAIN r = DOMAIN t /\ r[p] = a
        /\ \A j \in DOMAIN t : j # p => r[j] = t[j]
    <3>1. r = [j \in DOMAIN t |-> IF j = p THEN a ELSE t[j]]
      OBVIOUS
    <3>2. r[p] = a /\ \A j \in DOMAIN t : j # p => r[j] = t[j]
      BY <1>1, <3>1
    <3>3. r = [j \in DOMAIN t |-> r[j]]
      BY <3>1
    <3>4. \A j \in DOMAIN t : t[j] \in AnyInput
      BY <1>1
    <3>5. \A j \in DOMAIN t : r[j] \in AnyInput
      BY <2>2, <3>2, <3>4
    <3> HIDE DEF r
    <3> QED
      BY <1>1, <3>2, <3>3, <3>5, SeqInPlace
  <2> HIDE DEF r, z
  <2>6. K = G \ {p} /\ p \in G
    BY <1>1
  <2> HIDE DEF G, K
  <2>7. Editing(u, w, n, r, G, E)
    <3>1. ASSUME NEW j \in DOMAIN t \ G
          PROVE  \E k \in DOMAIN r \ G : r[k] = t[j] /\ Slot(r[k], k) = Slot(t[j], j)
      <4>1. j # p /\ j \in DOMAIN r \ G /\ r[j] = t[j]
        BY <2>5, <2>6
      <4> QED
        BY <4>1
    <3>2. ASSUME NEW j \in DOMAIN r \ G
          PROVE  \E k \in DOMAIN t \ G : r[j] = t[k] /\ Slot(r[j], j) = Slot(t[k], k)
      <4>1. j # p /\ j \in DOMAIN t \ G /\ r[j] = t[j]
        BY <2>5, <2>6
      <4> QED
        BY <4>1
    <3> QED
      BY <1>5, <3>1, <3>2, EditMove
  <2>8. Editing(u, z, n, r, K, E)
    <3>1. p \in DOMAIN r /\ HasNode(u, r[p][1]) /\ OutputPort(u, r[p]) = <<c, Control>>
          /\ Slot(r[p], p) = Control
      BY <1>1, <2>2, <2>5 DEF Slot
    <3> DEFINE o == OutputPort(u, r[p])
               l == Link(w, o, <<n, Slot(r[p], p)>>)
    <3>2. o[2] = Control /\ l = z
      BY <3>1 DEF z
    <3>3. o[2] = Control \/ GetFanout(w, o) # {} => Edited(u, w, l, n, r, G \ {p}, E)
      BY <2>5, <2>7, <3>1, EditLink
    <3> HIDE DEF o, l
    <3> QED
      BY <2>6, <3>2, <3>3 DEF Edited
  <2>9. Editing(u, q, n, r, K, E) /\ q.def[n].input = r
    <3>1. 0 \in Nat
      OBVIOUS
    <3> QED
      BY <2>5, <2>8, <3>1, EditSet
  <2> HIDE DEF q
  <2>10. Turned(u, n, r, p + 1, C \cup {c})
    <3>1. \A j \in 1..p - 1 : r[j] = t[j]
      <4>1. \A j \in 1..p - 1 : j # p /\ j \in 1..Len(t)
        BY <1>1
      <4> QED
        BY <1>1, <2>5, <4>1
    <3>2. r[p][2] = Control /\ HasNode(u, r[p][1]) /\ GetNode(u, r[p][1]) = c
      BY <2>2, <2>5
    <3>3. C \cup {c} = C \cup {GetNode(u, r[p][1])} /\ p + 1 = p + 1
      BY <3>2
    <3>4. MayControl(u, n, GetNode(u, r[p][1])) /\ GetNode(u, r[p][1]) \notin C
      BY <1>10, <3>2
    <3> QED
      BY <1>1, <1>2, <3>1, <3>2, <3>3, <3>4, TurnOne
  <2>11. \A j \in DOMAIN s : j > i => r[j] = s[j]
    <3>1. \A j \in DOMAIN s : j > i => j # p
      BY <1>1
    <3> QED
      BY <1>1, <2>5, <3>1
  <2>12. Turning(u, n, s, y, i)
    <3>1. y = [view |-> y.view, pos |-> y.pos, controls |-> y.controls]
      BY <2>4
    <3>2. Editing(u, y.view, n, r, y.pos..i, E)
      BY <2>4, <2>9 DEF K
    <3>3. y.view.def[n].input = r
      BY <2>4, <2>9
    <3>4. y.pos \in 1..i + 1 /\ Turned(u, n, r, y.pos, y.controls)
      BY <1>8, <2>4, <2>10
    <3> QED
      BY <1>1, <2>5, <2>11, <3>1, <3>2, <3>3, <3>4 DEF Turning, E
  <2> QED
    BY <2>12 DEF y
<1> QED
  BY <1>9, <1>10

(* A control moves up, or is dropped where there is one.                   *)
LEMMA TurnControl ==
  ASSUME NEW u, WellTyped(u), NEW n \in DOMAIN u.def, NEW s \in Seq(AnyInput),
         NEW i \in DOMAIN s, HasNode(u, s[i][1]), s[i][2] = Control,
         MayControl(u, n, GetNode(u, s[i][1])),
         NEW x, Turning(u, n, s, x, i - 1)
  PROVE  Turning(u, n, s, KeepControl(x, n, i), i)
<1> DEFINE v == x.view
           t == v.def[n].input
           p == x.pos
           C == x.controls
           c == GetNode(u, s[i][1])
           E == {}
           y == KeepControl(x, n, i)
           H == p..i - 1
           G == p..i
<1>1. /\ x = [view |-> v, pos |-> p, controls |-> C]
      /\ t \in Seq(AnyInput) /\ Len(t) = Len(s) /\ DOMAIN t = DOMAIN s /\ DOMAIN t = 1..Len(t)
      /\ p \in Nat /\ p >= 1 /\ p <= i /\ i \in Nat /\ p \in DOMAIN t /\ i \in DOMAIN t
      /\ Editing(u, v, n, t, H, E)
      /\ Turned(u, n, t, p, C)
      /\ t[i] = s[i] /\ \A j \in DOMAIN s : j > i => t[j] = s[j]
  BY TurningParts
<1>2. u \in Views /\ UniqueNames(u)
  BY DEF WellTyped
<1> HIDE DEF v
<1>3. G = H \cup {i} /\ i \notin H
  BY <1>1
<1>4. GetNode(v, t[i][1]) = c
  <2>1. Frame(u, v, n)
    BY <1>1 DEF Editing
  <2>2. SameNames(u, v)
    BY <2>1, FrameNames
  <2> QED
    BY <1>1, <2>2, SameNode
<1>5. y = IF c \in C THEN x
          ELSE [view |-> SetInput(v, n, Swap(t, p, i)), pos |-> p + 1, controls |-> C \cup {c}]
  BY <1>4 DEF KeepControl, v
<1> HIDE DEF y, E, t, p, C, c
<1>6. p \in 1..i + 1 /\ p + 1 \in 1..i + 1
  BY <1>1
<1>7. t[i][2] = Control /\ HasNode(u, t[i][1]) /\ GetNode(u, t[i][1]) = c /\ MayControl(u, n, c)
  BY <1>1 DEF c
<1>8. CASE c \in C
  <2>1. y.view = v /\ y.pos = p /\ y.controls = C /\ y = [view |-> v, pos |-> p, controls |-> C]
    BY <1>1, <1>5, <1>8
  <2>2. PICK k \in 1..p - 1 : GetNode(u, t[k][1]) = c
    BY <1>1, <1>8 DEF Turned
  <2>3. t[k][2] = Control /\ HasNode(u, t[k][1])
    BY <1>1, <2>2 DEF Turned
  <2>4. k \in DOMAIN t /\ k \notin G
    BY <1>1, <2>2
  <2>5. t[k] = t[i]
    <3>1. t[k][1] = t[i][1]
      BY <1>2, <1>7, <2>2, <2>3, NodeFound
    <3>2. t[k] \in AnyInput /\ t[i] \in AnyInput
      BY <1>1, <2>4
    <3> QED
      BY <1>7, <2>3, <3>1, <3>2 DEF AnyInput
  <2>6. Slot(t[k], k) = Control /\ Slot(t[i], i) = Control
    BY <1>7, <2>3 DEF Slot
  <2> HIDE DEF G, H
  <2>7. Editing(u, v, n, t, G, E)
    <3>1. ASSUME NEW j \in DOMAIN t \ H
          PROVE  \E m \in DOMAIN t \ G : t[m] = t[j] /\ Slot(t[m], m) = Slot(t[j], j)
      <4>1. CASE j = i
        BY <2>4, <2>5, <2>6, <4>1
      <4>2. CASE j # i
        <5>1. j \in DOMAIN t \ G
          BY <1>3, <4>2
        <5> QED
          BY <5>1
      <4> QED
        BY <4>1, <4>2
    <3>2. ASSUME NEW j \in DOMAIN t \ G
          PROVE  \E m \in DOMAIN t \ H : t[j] = t[m] /\ Slot(t[j], j) = Slot(t[m], m)
      <4>1. j \in DOMAIN t \ H
        BY <1>3
      <4> QED
        BY <4>1
    <3> QED
      BY <1>1, <3>1, <3>2, EditMove
  <2>8. Turning(u, n, s, y, i)
    <3>1. y = [view |-> y.view, pos |-> y.pos, controls |-> y.controls]
      BY <2>1
    <3>2. Editing(u, y.view, n, t, y.pos..i, E)
      BY <2>1, <2>7 DEF G
    <3>3. y.view.def[n].input = t
      BY <2>1 DEF t
    <3>4. y.pos \in 1..i + 1 /\ Turned(u, n, t, y.pos, y.controls)
      BY <1>1, <1>6, <2>1
    <3> QED
      BY <1>1, <3>1, <3>2, <3>3, <3>4 DEF Turning, E
  <2> QED
    BY <2>8 DEF y
<1>9. CASE c \notin C
  <2> DEFINE r == Swap(t, p, i)
             K == p + 1..i
             q == SetInput(v, n, r)
  <2>1. /\ y = [view |-> q, pos |-> p + 1, controls |-> C \cup {c}]
        /\ y.view = q /\ y.pos = p + 1 /\ y.controls = C \cup {c}
    BY <1>5, <1>9
  <2>2. /\ r \in Seq(AnyInput) /\ Len(r) = Len(t) /\ DOMAIN r = DOMAIN t
        /\ r[p] = t[i] /\ r[i] = t[p] /\ \A j \in DOMAIN t : j # p /\ j # i => r[j] = t[j]
    <3>1. r = [j \in DOMAIN t |-> IF j = i THEN t[p] ELSE IF j = p THEN t[i] ELSE t[j]]
      BY <1>1 DEF Swap
    <3>2. r[p] = t[i] /\ r[i] = t[p] /\ \A j \in DOMAIN t : j # p /\ j # i => r[j] = t[j]
      BY <1>1, <3>1
    <3>3. r = [j \in DOMAIN t |-> r[j]] /\ \A j \in DOMAIN t : r[j] \in AnyInput
      BY <1>1, <3>1
    <3> HIDE DEF r
    <3> QED
      BY <1>1, <3>2, <3>3, SeqInPlace
  <2> HIDE DEF r
  <2>3. /\ K = G \ {p} /\ p \in G /\ i \in G /\ (p # i => p \in H /\ i \in K)
        /\ p \notin K /\ (\A j \in DOMAIN t : j # p /\ j # i => (j \in H <=> j \in K))
    BY <1>1
  <2>4. Slot(r[p], p) = Control /\ Slot(t[i], i) = Control
    BY <1>7, <2>2 DEF Slot
  <2> HIDE DEF G, H, K
  <2>5. Editing(u, v, n, r, K, E)
    <3>1. ASSUME NEW j \in DOMAIN t \ H
          PROVE  \E m \in DOMAIN r \ K : r[m] = t[j] /\ Slot(r[m], m) = Slot(t[j], j)
      <4>1. CASE j = i
        <5>1. p \in DOMAIN r \ K
          BY <1>1, <2>2, <2>3
        <5> QED
          BY <2>2, <2>4, <4>1, <5>1
      <4>2. CASE j # i
        <5>1. j # p
          BY <2>3, <4>2
        <5>2. j \in DOMAIN r \ K /\ r[j] = t[j]
          BY <2>2, <2>3, <4>2, <5>1
        <5> QED
          BY <5>2
      <4> QED
        BY <4>1, <4>2
    <3>2. ASSUME NEW j \in DOMAIN r \ K
          PROVE  \E m \in DOMAIN t \ H : r[j] = t[m] /\ Slot(r[j], j) = Slot(t[m], m)
      <4>1. CASE j = p
        <5>1. i \in DOMAIN t \ H
          BY <1>1, <1>3
        <5> QED
          BY <2>2, <2>4, <4>1, <5>1
      <4>2. CASE j # p
        <5>1. j # i
          BY <2>3, <4>2
        <5>2. j \in DOMAIN t \ H /\ r[j] = t[j]
          BY <2>2, <2>3, <4>2, <5>1
        <5> QED
          BY <5>2
      <4> QED
        BY <4>1, <4>2
    <3> QED
      <4>1. Editing(u, v, n, t, H, E)
        BY <1>1
      <4> HIDE DEF t
      <4> QED
        BY <4>1, <3>1, <3>2, EditMove
  <2>6. Editing(u, q, n, r, K, E) /\ q.def[n].input = r
    <3>1. 0 \in Nat
      OBVIOUS
    <3> QED
      BY <2>2, <2>5, <3>1, EditSet
  <2> HIDE DEF q
  <2>7. Turned(u, n, r, p + 1, C \cup {c})
    <3>1. \A j \in 1..p - 1 : r[j] = t[j]
      <4>1. \A j \in 1..p - 1 : j # p /\ j # i /\ j \in 1..Len(t)
        BY <1>1
      <4> QED
        BY <1>1, <2>2, <4>1
    <3>2. r[p][2] = Control /\ HasNode(u, r[p][1]) /\ GetNode(u, r[p][1]) = c
      BY <1>7, <2>2
    <3>3. C \cup {c} = C \cup {GetNode(u, r[p][1])} /\ p + 1 = p + 1
      BY <3>2
    <3>4. MayControl(u, n, GetNode(u, r[p][1])) /\ GetNode(u, r[p][1]) \notin C
      BY <1>7, <1>9, <3>2
    <3> QED
      BY <1>1, <1>2, <3>1, <3>2, <3>3, <3>4, TurnOne
  <2>8. \A j \in DOMAIN s : j > i => r[j] = s[j]
    <3>1. \A j \in DOMAIN s : j > i => j # p /\ j # i
      BY <1>1
    <3> QED
      BY <1>1, <2>2, <3>1
  <2>9. Turning(u, n, s, y, i)
    <3>1. y = [view |-> y.view, pos |-> y.pos, controls |-> y.controls]
      BY <2>1
    <3>2. Editing(u, y.view, n, r, y.pos..i, E)
      BY <2>1, <2>6 DEF K
    <3>3. y.view.def[n].input = r
      BY <2>1, <2>6
    <3>4. y.pos \in 1..i + 1 /\ Turned(u, n, r, y.pos, y.controls)
      BY <1>6, <2>1, <2>7
    <3> QED
      BY <1>1, <2>2, <2>8, <3>1, <3>2, <3>3, <3>4 DEF Turning, E
  <2> QED
    BY <2>9 DEF y
<1> QED
  BY <1>8, <1>9

-----------------------------------------------------------------------------
(* UpdateAllRegularFaninsToControlling.                                    *)

(* A function holds what FaninsToControlling has after each input.         *)
FaninsToControllingSteps(v, n, anchor, run) ==
  /\ run[0] = [view |-> WithAnchors(v, n, anchor), pos |-> 1, controls |-> {}]
  /\ \A k \in 1..Len(v.def[n].input) : run[k] = IF k <= v.regular[n] THEN VisitFanin(run[k - 1], n, k, PortAt(v, n, k), AnchorAt(v, WithAnchors(v, n, anchor), n, anchor, k)) ELSE KeepControl(run[k - 1], n, k)
  /\ FaninsToControlling(v, n, anchor) = SetInputs(run[Len(v.def[n].input)].view, n, SubSeq(run[Len(v.def[n].input)].view.def[n].input, 1, run[Len(v.def[n].input)].pos - 1), 0)

(* Such a function there is.                                               *)
LEMMA FaninsToControllingLoop ==
  ASSUME NEW v, NEW n, NEW anchor, v.def[n].input \in Seq(AnyInput)
  PROVE  \E run : FaninsToControllingSteps(v, n, anchor, run)
<1> DEFINE L == Len(v.def[n].input)
           After(x, k) == IF k <= v.regular[n] THEN VisitFanin(x, n, k, PortAt(v, n, k), AnchorAt(v, WithAnchors(v, n, anchor), n, anchor, k)) ELSE KeepControl(x, n, k)
           Loop(g, m) == g = [k \in 0..m |-> IF k = 0 THEN [view |-> WithAnchors(v, n, anchor), pos |-> 1, controls |-> {}] ELSE After(g[k - 1], k)]
           P == {m \in 0..L : \E g : Loop(g, m)}
<1>0. L \in Nat
  BY LenProperties
<1>1. 0 \in P
  <2> DEFINE g == [k \in 0..0 |-> [view |-> WithAnchors(v, n, anchor), pos |-> 1, controls |-> {}]]
  <2>1. Loop(g, 0)
    OBVIOUS
  <2> HIDE DEF g, Loop, L
  <2> QED
    BY <2>1, <1>0
<1>2. ASSUME NEW m \in 1..L, m - 1 \in P PROVE m \in P
  <2>1. PICK g : Loop(g, m - 1)
    BY <1>2
  <2> HIDE DEF After, L, P
  <2> DEFINE y == After(g[m - 1], m)
             h == [k \in 0..m |-> IF k = m THEN y ELSE g[k]]
  <2>0. m \in Nat /\ m # 0 /\ m - 1 \in 0..(m - 1)
    BY <1>0
  <2>2. h[m] = y /\ \A k \in 0..(m - 1) : h[k] = g[k]
    BY <2>0
  <2>3. \A k \in 0..(m - 1) : k # 0 => k - 1 \in 0..(m - 1)
    BY <2>0
  <2>4. \A k \in 0..m : k \in 0..(m - 1) \/ k = m
    BY <2>0
  <2>5. \A k \in 0..m : h[k] = IF k = 0 THEN [view |-> WithAnchors(v, n, anchor), pos |-> 1, controls |-> {}] ELSE After(h[k - 1], k)
    <3> HIDE DEF h
    <3>1. \A k \in 0..(m - 1) : h[k] = IF k = 0 THEN [view |-> WithAnchors(v, n, anchor), pos |-> 1, controls |-> {}] ELSE After(h[k - 1], k)
      BY <2>1, <2>2, <2>3
    <3>2. h[m] = After(h[m - 1], m)
      BY <2>0, <2>2
    <3> QED
      BY <2>0, <2>4, <3>1, <3>2
  <2>6. Loop(h, m)
    BY <2>5
  <2> HIDE DEF h, Loop
  <2> QED
    BY <2>6 DEF P
<1>3. L \in P
  <2> HIDE DEF P
  <2>1. P \in SUBSET (0..L)
    BY DEF P
  <2>2. P = 0..L
    <3> HIDE DEF L
    <3> QED
      BY <1>0, <1>1, <1>2, <2>1, Throughout
  <2> QED
    BY <1>0, <2>2
<1> DEFINE F == CHOOSE h : Loop(h, L)
<1>4. Loop(F, L)
  <2> HIDE DEF Loop
  <2>1. \E g : Loop(g, L)
    BY <1>3
  <2> HIDE DEF P
  <2> QED
    BY <2>1
<1>5. FaninsToControlling(v, n, anchor) = SetInputs(F[Len(v.def[n].input)].view, n, SubSeq(F[Len(v.def[n].input)].view.def[n].input, 1, F[Len(v.def[n].input)].pos - 1), 0)
  BY DEF FaninsToControlling, PortAt, AnchorAt
<1> HIDE DEF F
<1>6. \A k \in 0..Len(v.def[n].input) : F[k] = IF k = 0 THEN [view |-> WithAnchors(v, n, anchor), pos |-> 1, controls |-> {}] ELSE IF k <= v.regular[n] THEN VisitFanin(F[k - 1], n, k, PortAt(v, n, k), AnchorAt(v, WithAnchors(v, n, anchor), n, anchor, k)) ELSE KeepControl(F[k - 1], n, k)
  BY <1>4
<1>7. \A k \in 1..Len(v.def[n].input) : k \in 0..Len(v.def[n].input) /\ k # 0
  BY <1>0
<1>8. 0 \in 0..Len(v.def[n].input)
  BY <1>0
<1>9. FaninsToControllingSteps(v, n, anchor, F)
  BY <1>5, <1>6, <1>7, <1>8 DEF FaninsToControllingSteps
<1> QED
  BY <1>9

(* Only controls are left, each on one node.                               *)
LEMMA TurnedOk ==
  ASSUME NEW u, WellTyped(u), NEW n \in DOMAIN u.def, NEW t \in Seq(AnyInput), NEW C,
         Turned(u, n, t, Len(t) + 1, C), NEW X
  PROVE  InputsOk(u, n, t, 0, X)
<1>1. Len(t) \in Nat /\ DOMAIN t = 1..Len(t) /\ 1..(Len(t) + 1) - 1 = DOMAIN t
  BY LenProperties
<1>2. /\ \A j \in DOMAIN t :
           /\ t[j][2] = Control /\ HasNode(u, t[j][1])
           /\ MayControl(u, n, GetNode(u, t[j][1]))
      /\ \A j, k \in DOMAIN t : t[j][1] = t[k][1] => j = k
  BY <1>1 DEF Turned
<1>3. 0 <= Len(t) /\ \A j \in DOMAIN t : ~(j <= 0)
  BY <1>1
<1>4. Sound(u, n, t, 0)
  BY <1>2, <1>3 DEF Sound, MayControl
<1>5. Single(t)
  BY <1>2 DEF Single
<1>6. NoRepeat(u, t, X)
  BY <1>2 DEF NoRepeat
<1> QED
  BY <1>4, <1>5, <1>6 DEF InputsOk

(* Once all positions have been seen, what is free is cut off.             *)
LEMMA TurnedGood ==
  ASSUME NEW u, Good(u, {}), NEW n \in DOMAIN u.def, NEW s \in Seq(AnyInput),
         NEW x, Turning(u, n, s, x, Len(s))
  PROVE  Good(SetInputs(x.view, n, SubSeq(x.view.def[n].input, 1, x.pos - 1), 0), {})
<1> DEFINE v == x.view
           t == v.def[n].input
           p == x.pos
           L == Len(s)
           r == SubSeq(t, 1, p - 1)
           w == SetInputs(v, n, r, 0)
           E == {}
<1>1. /\ t \in Seq(AnyInput) /\ Len(t) = L /\ p \in 1..L + 1
      /\ Editing(u, v, n, t, p..L, E) /\ Turned(u, n, t, p, x.controls)
  BY DEF Turning
<1>2. L \in Nat /\ WellTyped(u)
  BY LenProperties DEF Good
<1>3. p \in Nat /\ p >= 1 /\ p <= L + 1 /\ DOMAIN t = 1..L
  BY <1>1, <1>2, LenProperties
<1> HIDE DEF t, p, L, v
<1>4. /\ r \in Seq(AnyInput) /\ Len(r) = p - 1 /\ DOMAIN r = 1..p - 1
      /\ \A j \in 1..p - 1 : r[j] = t[j]
  <2>1. 1 \in Int /\ p - 1 \in Int /\ \A j \in 1..p - 1 : t[j] \in AnyInput
    <3>1. \A j \in 1..p - 1 : j \in 1..L
      BY <1>2, <1>3
    <3> QED
      BY <1>1, <1>3, <3>1
  <2>2. /\ SubSeq(t, 1, p - 1) \in Seq(AnyInput)
        /\ Len(SubSeq(t, 1, p - 1)) = IF 1 <= p - 1 THEN (p - 1) - 1 + 1 ELSE 0
        /\ \A j \in 1..((p - 1) - 1 + 1) : SubSeq(t, 1, p - 1)[j] = t[1 + j - 1]
    BY <2>1, SubSeqProperties
  <2> HIDE DEF r
  <2>3. Len(r) = p - 1
    BY <1>3, <2>2 DEF r
  <2>4. \A j \in 1..p - 1 : r[j] = t[j]
    <3>1. \A j \in 1..p - 1 : j \in 1..((p - 1) - 1 + 1) /\ 1 + j - 1 = j
      BY <1>3
    <3> QED
      BY <2>2, <3>1 DEF r
  <2>5. r \in Seq(AnyInput)
    BY <2>2 DEF r
  <2> QED
    BY <2>3, <2>4, <2>5, LenProperties
<1> HIDE DEF r
<1>5. Turned(u, n, r, Len(r) + 1, x.controls)
  <2>1. 1..(Len(r) + 1) - 1 = 1..p - 1
    BY <1>3, <1>4
  <2> QED
    BY <1>1, <1>4, <2>1 DEF Turned
<1>6. InputsOk(u, n, r, 0, E)
  BY <1>2, <1>4, <1>5, TurnedOk
<1>7. Editing(u, v, n, r, E, E)
  <2> DEFINE H == p..L
  <2>1. \A j \in 1..L : j \notin H <=> j \in 1..p - 1
    BY <1>2, <1>3
  <2>2. DOMAIN r \ E = 1..p - 1 /\ 1..p - 1 \subseteq DOMAIN t
    BY <1>2, <1>3, <1>4
  <2>3. Editing(u, v, n, t, H, E)
    BY <1>1
  <2>4. \A j \in 1..p - 1 : Slot(r[j], j) = Slot(t[j], j)
    BY <1>4
  <2> HIDE DEF H, E
  <2>5. ASSUME NEW i \in DOMAIN t \ H
        PROVE  \E j \in DOMAIN r \ E : r[j] = t[i] /\ Slot(r[j], j) = Slot(t[i], i)
    BY <1>3, <1>4, <2>1, <2>2, <2>4, <2>5
  <2>6. ASSUME NEW j \in DOMAIN r \ E
        PROVE  \E i \in DOMAIN t \ H : r[j] = t[i] /\ Slot(r[j], j) = Slot(t[i], i)
    BY <1>3, <1>4, <2>1, <2>2, <2>4, <2>6
  <2> QED
    BY <2>3, <2>5, <2>6, EditMove
<1>8. Editing(u, w, n, r, E, E) /\ w.def[n].input = r /\ w.regular[n] = 0
  <2>1. 0 \in Nat
    OBVIOUS
  <2> HIDE DEF E
  <2> QED
    BY <1>2, <1>4, <1>7, <2>1, EditSet
<1> HIDE DEF w
<1>9. Good(w, E)
  <2>1. InputsOk(u, n, r, w.regular[n], E) /\ E \subseteq E /\ Good(u, E)
    BY <1>6, <1>8
  <2>2. Editing(u, w, n, r, {}, {})
    BY <1>8
  <2> HIDE DEF E
  <2> QED
    BY <1>8, <2>1, <2>2, EditEnd
<1> QED
  BY <1>9 DEF w, r, v, t, p

(* UpdateAllRegularFaninsToControlling, if it does not refuse.             *)
LEMMA FaninsToControllingGood ==
  ASSUME NEW v, Good(v, {}), NEW n \in DOMAIN v.def, NEW anchor,
         \A i \in 1..v.regular[n] : Choice(v, n, PortAt(v, n, i), anchor[i]),
         Cardinality(Ids \ DOMAIN v.def) >=
           Cardinality({PortAt(v, n, i) : i \in {j \in 1..v.regular[n] : anchor[j] = Null}})
  PROVE  Good(FaninsToControlling(v, n, anchor), {})
<1> DEFINE s == v.def[n].input
           L == Len(s)
           num == v.regular[n]
           u == WithAnchors(v, n, anchor)
           w == FaninsToControlling(v, n, anchor)
           start == [view |-> u, pos |-> 1, controls |-> {}]
<1>1. /\ v \in Views /\ s \in Seq(AnyInput) /\ Sound(v, n, s, num) /\ num \in Nat
  BY ViewParts DEF Good, WellTyped, NodeOk, InputsOk
<1>2. L \in Nat /\ DOMAIN s = 1..L
  BY <1>1, LenProperties
<1>3. num <= L /\ \A i \in DOMAIN s :
        /\ HasNode(v, s[i][1]) /\ GetNode(v, s[i][1]) # n
        /\ i <= num <=> s[i][2] # Control
        /\ s[i][2] = Control => ~IsSwitch(v, GetNode(v, s[i][1]))
  BY <1>1 DEF Sound
<1>4. PICK g : FaninsToControllingSteps(v, n, anchor, g)
  BY <1>1, FaninsToControllingLoop
<1>5. /\ g[0] = start
      /\ \A i \in 1..L : g[i] = IF i <= num
           THEN VisitFanin(g[i - 1], n, i, PortAt(v, n, i), AnchorAt(v, u, n, anchor, i))
           ELSE KeepControl(g[i - 1], n, i)
      /\ w = SetInputs(g[L].view, n, SubSeq(g[L].view.def[n].input, 1, g[L].pos - 1), 0)
  BY <1>4 DEF FaninsToControllingSteps
<1> HIDE DEF w
<1>6. \A i \in 1..num : PortAt(v, n, i) \in Ends
  <2>1. SUFFICES ASSUME NEW i \in 1..num PROVE PortAt(v, n, i) \in Ends
    OBVIOUS
  <2> HIDE DEF s, L, num
  <2>2. i \in DOMAIN s
    BY <1>1, <1>2, <1>3
  <2>3. HasNode(v, s[i][1])
    BY <1>3, <2>2
  <2>4. OutputPort(v, s[i]) \in Ends
    BY <1>1, <2>2, <2>3, InputFacts
  <2> QED
    BY <2>4 DEF PortAt, s
<1>7. AllAnchored(v, u, n, anchor)
  BY <1>6, WithAnchorsFacts
<1> HIDE DEF u
<1>8. /\ Good(u, {}) /\ Extends(v, u) /\ WellTyped(u) /\ u \in Views /\ UniqueNames(u)
      /\ \A i \in 1..num : MayControl(u, n, AnchorAt(v, u, n, anchor, i))
  BY <1>7 DEF AllAnchored, Good, WellTyped
<1>9. n \in DOMAIN u.def /\ u.def[n].input = s
  BY <1>8 DEF Extends
<1>10. ASSUME NEW i \in DOMAIN s
       PROVE  /\ HasNode(u, s[i][1]) /\ GetNode(u, s[i][1]) = GetNode(v, s[i][1])
              /\ OutputPort(u, s[i]) = PortAt(v, n, i)
              /\ s[i][2] = Control => MayControl(u, n, GetNode(u, s[i][1]))
  <2> DEFINE f == GetNode(v, s[i][1])
  <2>1. HasNode(v, s[i][1])
    BY <1>3
  <2>2. HasNode(u, s[i][1]) /\ GetNode(u, s[i][1]) = f
    BY <1>1, <1>8, <2>1, ExtendsNames
  <2>3. OutputPort(u, s[i]) = PortAt(v, n, i)
    BY <2>2 DEF OutputPort, PortAt
  <2>4. f \in DOMAIN v.def /\ f # n
    BY <1>1, <1>3, <2>1, NodeFound
  <2>5. s[i][2] = Control => ~IsSwitch(v, f)
    BY <1>3
  <2> HIDE DEF f
  <2>6. f \in DOMAIN u.def /\ (IsSwitch(u, f) <=> IsSwitch(v, f))
    BY <1>8, <2>4 DEF Extends, IsSwitch
  <2>7. s[i][2] = Control => MayControl(u, n, f)
    BY <2>4, <2>5, <2>6 DEF MayControl
  <2> QED
    BY <2>2, <2>3, <2>7 DEF f
<1> DEFINE P == {i \in 0..L : Turning(u, n, s, g[i], i)}
<1>11. 0 \in P
  <2> HIDE DEF s
  <2>1. Editing(u, u, n, s, {}, {})
    BY <1>8, <1>9, EditStart
  <2>2. start.view = u /\ start.pos = 1 /\ start.controls = {}
    OBVIOUS
  <2>3. 1..0 = {} /\ 1 \in 1..0 + 1 /\ 1..1 - 1 = {}
    OBVIOUS
  <2> HIDE DEF L
  <2>4. Turned(u, n, s, 1, {})
    BY <2>3 DEF Turned
  <2>5. Turning(u, n, s, start, 0)
    <3>1. start.view.def[n].input = s
      BY <1>9, <2>2
    <3>2. start = [view |-> start.view, pos |-> start.pos, controls |-> start.controls]
      OBVIOUS
    <3>3. Editing(u, start.view, n, s, start.pos..0, {})
      BY <2>1, <2>2, <2>3
    <3>4. Turned(u, n, s, start.pos, start.controls) /\ start.pos \in 1..0 + 1
      BY <2>2, <2>3, <2>4
    <3> HIDE DEF start
    <3> QED
      BY <1>1, <3>1, <3>2, <3>3, <3>4 DEF Turning
  <2> HIDE DEF start
  <2> QED
    BY <1>2, <1>5, <2>5
<1>12. ASSUME NEW i \in 1..L, i - 1 \in P PROVE i \in P
  <2> HIDE DEF s
  <2>1. Turning(u, n, s, g[i - 1], i - 1) /\ i \in 0..L /\ i \in DOMAIN s
    BY <1>2, <1>12
  <2>2. HasNode(u, s[i][1]) /\ OutputPort(u, s[i]) = PortAt(v, n, i)
    BY <1>10, <2>1
  <2>3. CASE i <= num
    <3>1. g[i] = VisitFanin(g[i - 1], n, i, OutputPort(u, s[i]), AnchorAt(v, u, n, anchor, i))
      BY <1>5, <2>2, <2>3
    <3>2. i \in 1..num
      BY <1>1, <1>2, <2>3
    <3>3. s[i][2] # Control /\ MayControl(u, n, AnchorAt(v, u, n, anchor, i))
      BY <1>3, <1>8, <2>1, <2>3, <3>2
    <3> DEFINE c == AnchorAt(v, u, n, anchor, i)
               x == g[i - 1]
    <3>4. MayControl(u, n, c) /\ Turning(u, n, s, x, i - 1)
          /\ g[i] = VisitFanin(x, n, i, OutputPort(u, s[i]), c)
      BY <2>1, <3>1, <3>3
    <3> HIDE DEF c, x
    <3>5. Turning(u, n, s, g[i], i)
      BY <1>1, <1>8, <1>9, <2>1, <2>2, <3>3, <3>4, TurnRegular
    <3> QED
      BY <2>1, <3>5
  <2>4. CASE ~(i <= num)
    <3>1. g[i] = KeepControl(g[i - 1], n, i)
      BY <1>5, <2>4
    <3>2. s[i][2] = Control
      BY <1>3, <2>1, <2>4
    <3>3. MayControl(u, n, GetNode(u, s[i][1]))
      BY <1>10, <2>1, <3>2
    <3>4. Turning(u, n, s, g[i], i)
      BY <1>1, <1>8, <1>9, <2>1, <2>2, <3>1, <3>2, <3>3, TurnControl
    <3> QED
      BY <2>1, <3>4
  <2> QED
    BY <2>3, <2>4
<1> HIDE DEF P
<1>13. L \in P
  <2>1. P \in SUBSET (0..L)
    BY DEF P
  <2> HIDE DEF L
  <2>2. P = 0..L
    BY <1>2, <1>11, <1>12, <2>1, Throughout
  <2> QED
    BY <1>2, <2>2
<1> DEFINE x == g[L]
<1>14. Turning(u, n, s, x, Len(s))
  BY <1>13 DEF P
<1>15. w = SetInputs(x.view, n, SubSeq(x.view.def[n].input, 1, x.pos - 1), 0)
  BY <1>5
<1> HIDE DEF x, s
<1>16. Good(w, {})
  BY <1>1, <1>8, <1>9, <1>14, <1>15, TurnedGood
<1> QED
  BY <1>16 DEF w

-----------------------------------------------------------------------------
(* The calls keep the view good.                                           *)

(* A node a client names, and a tensor of another node.                    *)
LEMMA ClientPair ==
  ASSUME Good(view, {}), NEW name \in Names, NEW t \in Tensors,
         name # t[1], Exist({name, t[1]})
  PROVE  /\ Node(name) \in DOMAIN view.def /\ view.def[Node(name)].name = name
         /\ Node(t[1]) \in DOMAIN view.def /\ Node(t[1]) # Node(name)
         /\ OutputPort(view, t) = <<Node(t[1]), t[2]>>
         /\ t[2] \in AnyPort
         /\ Regular(t) => t[2] \in Ports /\ MayRead(view, Node(name), t)
<1>1. Exist({name}) /\ Exist({t[1]})
  BY DEF Exist
<1>2. Node(name) \in DOMAIN view.def /\ view.def[Node(name)].name = name
  BY <1>1, ClientNode
<1>3. /\ OutputPort(view, t) = <<Node(t[1]), t[2]>>
      /\ Node(t[1]) \in DOMAIN view.def /\ view.def[Node(t[1])].name = t[1]
      /\ t[2] \in AnyPort /\ (Regular(t) => t[2] \in Ports)
      /\ t \in AnyInput /\ HasNode(view, t[1])
  BY <1>1, ClientTensor
<1>4. Node(t[1]) # Node(name)
  BY <1>2, <1>3
<1>5. Regular(t) => MayRead(view, Node(name), t)
  BY <1>3, <1>4 DEF MayRead, Regular, Node
<1> QED
  BY <1>2, <1>3, <1>4, <1>5

(* UpdateNode.                                                             *)
LEMMA UpdateNodeKeeps ==
  ASSUME Good(view, {}), NEW name \in Names, NEW op \in Ops, UpdateNode(name, op)
  PROVE  Good(view', {})
<1> DEFINE n == Node(name)
           w == [view EXCEPT !.def[n].op = op]
<1>1. CASE UNCHANGED view
  BY <1>1
<1>2. CASE ~UNCHANGED view
  <2>1. /\ Exist({name}) /\ ~(op = "Switch" /\ GetFanout(view, <<n, Control>>) # {})
        /\ view' = DedupControlFanouts(w, n)
    BY <1>2 DEF UpdateNode, Refuse, Done
  <2>2. n \in DOMAIN view.def /\ view.def[n].name \in Names
    BY <2>1, ClientNode
  <2> HIDE DEF n
  <2>3. Good(DedupControlFanouts(w, n), {})
    BY <2>1, <2>2, UpdateNodeFacts
  <2> QED
    BY <2>1, <2>3
<1> QED
  BY <1>1, <1>2

(* AddRegularFanin.                                                        *)
LEMMA AddRegularFaninKeeps ==
  ASSUME Good(view, {}), NEW name \in Names, NEW t \in Tensors, AddRegularFanin(name, t)
  PROVE  Good(view', {})
<1>1. CASE UNCHANGED view
  BY <1>1
<1>2. CASE ~UNCHANGED view
  <2>1. /\ Regular(t) /\ name # t[1] /\ Exist({name, t[1]})
        /\ view' = AddFaninInternal(view, Node(name), OutputPort(view, t))
    BY <1>2 DEF AddRegularFanin, Refuse, Done
  <2>2. /\ Node(name) \in DOMAIN view.def /\ Node(t[1]) \in DOMAIN view.def
        /\ Node(t[1]) # Node(name) /\ t[2] \in Ports
        /\ OutputPort(view, t) = <<Node(t[1]), t[2]>>
    BY <2>1, ClientPair
  <2>3. Good(AddFaninInternal(view, Node(name), <<Node(t[1]), t[2]>>), {})
    BY <2>2, AddRegularFacts
  <2> QED
    BY <2>1, <2>2, <2>3
<1> QED
  BY <1>1, <1>2

(* AddRegularFaninByPort.                                                  *)
LEMMA AddRegularFaninByPortKeeps ==
  ASSUME Good(view, {}), NEW name \in Names, NEW p, NEW t \in Tensors,
         AddRegularFaninByPort(name, p, t)
  PROVE  Good(view', {})
<1>1. CASE UNCHANGED view
  BY <1>1
<1>2. CASE ~UNCHANGED view
  <2>1. /\ Regular(t) /\ name # t[1] /\ Exist({name, t[1]})
        /\ p \in 1..view.regular[Node(name)] + 1
        /\ view' = InsertRegularFanin(view, Node(name), p, t)
    BY <1>2 DEF AddRegularFaninByPort, Refuse, Done, InRange
  <2>2. Node(name) \in DOMAIN view.def /\ MayRead(view, Node(name), t)
    BY <2>1, ClientPair
  <2>3. Good(InsertRegularFanin(view, Node(name), p, t), {})
    BY <2>1, <2>2, InsertRegularFacts
  <2> QED
    BY <2>1, <2>3
<1> QED
  BY <1>1, <1>2

(* RemoveRegularFanin.                                                     *)
LEMMA RemoveRegularFaninKeeps ==
  ASSUME Good(view, {}), NEW name \in Names, NEW t \in Tensors, RemoveRegularFanin(name, t)
  PROVE  Good(view', {})
<1>1. CASE UNCHANGED view
  BY <1>1
<1>2. CASE ~UNCHANGED view
  <2>1. /\ Regular(t) /\ name # t[1] /\ Exist({name, t[1]})
        /\ view' = RemoveRegularFaninInternal(view, Node(name), OutputPort(view, t))
    BY <1>2 DEF RemoveRegularFanin, Refuse, Done
  <2>2. /\ Node(name) \in DOMAIN view.def /\ Node(t[1]) \in DOMAIN view.def /\ t[2] \in Ports
        /\ OutputPort(view, t) = <<Node(t[1]), t[2]>>
    BY <2>1, ClientPair
  <2>3. Good(RemoveRegularFaninInternal(view, Node(name), <<Node(t[1]), t[2]>>), {})
    BY <2>2, RemoveRegularFacts
  <2> QED
    BY <2>1, <2>2, <2>3
<1> QED
  BY <1>1, <1>2

(* RemoveRegularFaninByPort.                                               *)
LEMMA RemoveRegularFaninByPortKeeps ==
  ASSUME Good(view, {}), NEW name \in Names, NEW p, RemoveRegularFaninByPort(name, p)
  PROVE  Good(view', {})
<1>1. CASE UNCHANGED view
  BY <1>1
<1>2. CASE ~UNCHANGED view
  <2>1. /\ Exist({name}) /\ p \in 1..view.regular[Node(name)]
        /\ view' = RemoveRegularFaninAt(view, Node(name), p)
    BY <1>2 DEF RemoveRegularFaninByPort, Refuse, Done, InRange
  <2>2. Node(name) \in DOMAIN view.def
    BY <2>1, ClientNode
  <2>3. Good(RemoveRegularFaninAt(view, Node(name), p), {})
    BY <2>1, <2>2, RemoveRegularAtFacts
  <2> QED
    BY <2>1, <2>3
<1> QED
  BY <1>1, <1>2

(* RemoveControllingFanin.                                                 *)
LEMMA RemoveControllingFaninKeeps ==
  ASSUME Good(view, {}), NEW name \in Names, NEW fanin \in Names,
         RemoveControllingFanin(name, fanin)
  PROVE  Good(view', {})
<1> DEFINE X == {}
<1>1. CASE UNCHANGED view
  BY <1>1
<1>2. CASE ~UNCHANGED view
  <2>1. /\ Exist({name}) /\ Exist({fanin})
        /\ view' = RemoveControllingFaninInternal(view, Node(name), Node(fanin))
    BY <1>2 DEF RemoveControllingFanin, Refuse, Done, Exist
  <2>2. Node(name) \in DOMAIN view.def /\ Node(fanin) \in DOMAIN view.def
    BY <2>1, ClientNode
  <2>3. Good(view, X)
    OBVIOUS
  <2> HIDE DEF X
  <2>4. Good(RemoveControllingFaninInternal(view, Node(name), Node(fanin)), X)
    BY <2>2, <2>3, RemoveControllingGood
  <2> QED
    BY <2>1, <2>4 DEF X
<1> QED
  BY <1>1, <1>2

(* RemoveAllFanins.                                                        *)
LEMMA RemoveAllFaninsKeeps ==
  ASSUME Good(view, {}), NEW name \in Names, NEW keep \in BOOLEAN, RemoveAllFanins(name, keep)
  PROVE  Good(view', {})
<1> DEFINE n == Node(name)
           s == view.def[n].input
           t == IF keep THEN SubSeq(s, view.regular[n] + 1, Len(s)) ELSE <<>>
<1>1. CASE UNCHANGED view
  BY <1>1
<1>2. CASE ~UNCHANGED view
  <2>1. /\ Exist({name})
        /\ view' = SetInput(RemoveFaninsInternal(view, n, keep), n, t)
    BY <1>2 DEF RemoveAllFanins, Refuse, Done
  <2>2. n \in DOMAIN view.def
    BY <2>1, ClientNode
  <2> HIDE DEF n
  <2>3. Good(SetInput(RemoveFaninsInternal(view, n, keep), n, t), {})
    BY <2>2, RemoveAllFaninsFacts
  <2> QED
    BY <2>1, <2>3
<1> QED
  BY <1>1, <1>2

(* UpdateRegularFaninByPort.                                               *)
LEMMA UpdateRegularFaninByPortKeeps ==
  ASSUME Good(view, {}), NEW name \in Names, NEW p, NEW t \in Tensors,
         UpdateRegularFaninByPort(name, p, t)
  PROVE  Good(view', {})
<1>1. CASE UNCHANGED view
  BY <1>1
<1>2. CASE ~UNCHANGED view
  <2>1. /\ Regular(t) /\ name # t[1] /\ Exist({name, t[1]})
        /\ p \in 1..view.regular[Node(name)]
        /\ view' = ReplaceRegularFanin(view, Node(name), p, t)
    BY <1>2 DEF UpdateRegularFaninByPort, Refuse, Done, InRange
  <2>2. Node(name) \in DOMAIN view.def /\ MayRead(view, Node(name), t)
    BY <2>1, ClientPair
  <2>3. Good(ReplaceRegularFanin(view, Node(name), p, t), {})
    BY <2>1, <2>2, ReplaceRegularFacts
  <2> QED
    BY <2>1, <2>3
<1> QED
  BY <1>1, <1>2

(* SwapRegularFaninsByPorts.                                               *)
LEMMA SwapRegularFaninsByPortsKeeps ==
  ASSUME Good(view, {}), NEW name \in Names, NEW p, NEW q, SwapRegularFaninsByPorts(name, p, q)
  PROVE  Good(view', {})
<1> DEFINE n == Node(name)
           from == OutputPort(view, view.def[n].input[p])
           to   == OutputPort(view, view.def[n].input[q])
           w == SetInput(Link(Unlink(Link(Unlink(view, from, <<n, p>>), from, <<n, q>>),
                                     to, <<n, q>>), to, <<n, p>>),
                         n, Swap(view.def[n].input, p, q))
<1>1. CASE UNCHANGED view
  BY <1>1
<1>2. CASE ~UNCHANGED view
  <2>1. /\ Exist({name}) /\ p \in 1..view.regular[n] /\ q \in 1..view.regular[n]
        /\ p # q /\ from # to /\ view' = w
    BY <1>2 DEF SwapRegularFaninsByPorts, Refuse, Done, InRange
  <2>2. n \in DOMAIN view.def
    BY <2>1, ClientNode
  <2> HIDE DEF n
  <2>3. Good(w, {})
    BY <2>1, <2>2, SwapRegularFacts
  <2> QED
    BY <2>1, <2>3
<1> QED
  BY <1>1, <1>2

(* DeleteNodes.                                                            *)
LEMMA DeleteNodesKeeps ==
  ASSUME Good(view, {}), NEW names, DeleteNodes(names)
  PROVE  Good(view', {})
<1> DEFINE gone == {n \in DOMAIN view.def : view.def[n].name \in names}
<1>1. CASE UNCHANGED view
  BY <1>1
<1>2. CASE ~UNCHANGED view
  <2>1. CheckNodesCanBeDeleted(view, gone) /\ view' = Deleted(view, gone)
    BY <1>2 DEF DeleteNodes, Refuse, Done
  <2>2. gone \in SUBSET (DOMAIN view.def)
    OBVIOUS
  <2> HIDE DEF gone
  <2>3. Good(Deleted(view, gone), {})
    BY <2>1, <2>2, DeletedGood
  <2> QED
    BY <2>1, <2>3
<1> QED
  BY <1>1, <1>2

-----------------------------------------------------------------------------
(* The calls that name nodes anew.                                         *)

(* Nobody reads an output port that no client uses.                        *)
LEMMA OnlyPortsRead ==
  ASSUME NEW v, NEW X, Good(v, X), NEW f \in DOMAIN v.def, NEW i \in Nat, i \notin Ports
  PROVE  GetFanout(v, <<f, i>>) = {}
<1>1. SUFFICES ASSUME NEW to \in GetFanout(v, <<f, i>>) PROVE FALSE
  OBVIOUS
<1>2. v \in Views /\ f \in Ids /\ NoStray(v) /\ GetFanout(v, <<f, i>>) \in SUBSET Ends
  BY ViewParts DEF Good, WellTyped
<1>3. <<f, i>> \in Ends /\ to \in Ends
  BY <1>2 DEF Ends, Slots
<1>4. to[1] \in DOMAIN v.def /\ to = <<to[1], to[2]>> /\ to[2] \in Slots
  BY <1>2, <1>3 DEF NoStray, Ends
<1> DEFINE s == v.def[to[1]].input
<1>5. s \in Seq(AnyInput) /\ Reads(v, to[1], s, {})
  BY <1>2, <1>4, ViewParts DEF Good, NodeOk
<1>6. PICK j \in DOMAIN s : OutputPort(v, s[j]) = <<f, i>>
  BY <1>3, <1>4, <1>5 DEF Reads
<1>7. s[j][2] = i
  BY <1>6 DEF OutputPort
<1> HIDE DEF s
<1>8. s[j][2] \in AnyPort
  BY <1>2, <1>5, <1>6, InputFacts
<1> QED
  BY <1>7, <1>8, IdsAndControl DEF AnyPort

(* A node without fanouts is nobody's input.                               *)
LEMMA NoFanoutsNoReaders ==
  ASSUME NEW v, Good(v, {}), NEW f \in DOMAIN v.def,
         f \notin DOMAIN v.max_out, GetFanout(v, <<f, Control>>) = {}, NEW name
  PROVE  Renames(v, v, f, name)
<1>1. v \in Views /\ BoundedBut(v, {}) /\ f \in Ids
  BY ViewParts DEF Good, WellTyped
<1>2. ASSUME NEW n \in DOMAIN v.def, NEW i \in DOMAIN v.def[n].input
      PROVE  GetNode(v, v.def[n].input[i][1]) # f
  <2> DEFINE s == v.def[n].input
             at == Slot(s[i], i)
             q == s[i][2]
  <2>1. s \in Seq(AnyInput) /\ Reads(v, n, s, {}) /\ HasNode(v, s[i][1])
    BY <1>1, <1>2, ViewParts DEF Good, NodeOk, InputsOk, Sound
  <2>2. SUFFICES ASSUME GetNode(v, s[i][1]) = f PROVE FALSE
    OBVIOUS
  <2>3. i \in DOMAIN s
    BY <1>2
  <2> HIDE DEF s
  <2>4. /\ OutputPort(v, s[i]) \in Ends /\ OutputPort(v, s[i]) = <<f, q>>
        /\ at \in Slots /\ q \in AnyPort
    BY <1>1, <2>1, <2>2, <2>3, InputFacts
  <2>5. <<n, at>> \in GetFanout(v, <<f, q>>)
    BY <2>1, <2>3, <2>4 DEF Reads
  <2>6. q = Control \/ q \in Nat
    BY <2>4, IdsAndControl DEF AnyPort
  <2> HIDE DEF at, q
  <2>7. CASE q = Control
    BY <2>5, <2>7
  <2>8. CASE q \in Nat
    <3>1. GetFanout(v, <<f, q>>) # {} /\ <<f, q>> \notin {}
      BY <2>5
    <3> QED
      BY <1>1, <2>8, <3>1 DEF BoundedBut
  <2> QED
    BY <2>6, <2>7, <2>8
<1>3. SameLinks(v, v)
  BY <1>1 DEF SameLinks, SameNodes
<1> QED
  BY <1>2, <1>3 DEF Renames

(* UpdateNodeName.                                                         *)
LEMMA UpdateNodeNameKeeps ==
  ASSUME Good(view, {}), NEW from \in Names, NEW to \in Names, NEW update_fanouts \in BOOLEAN,
         UpdateNodeName(from, to, update_fanouts)
  PROVE  Good(view', {})
<1> DEFINE n == Node(from)
           z == IF update_fanouts THEN RenameFanouts(view, n, to) ELSE view
<1>1. CASE UNCHANGED view
  BY <1>1
<1>2. CASE ~UNCHANGED view
  <2>1. /\ Exist({from}) /\ ~HasNode(view, to)
        /\ update_fanouts \/ (n \notin DOMAIN view.max_out /\ GetFanout(view, <<n, Control>>) = {})
        /\ view' = [z EXCEPT !.def[n].name = to]
    BY <1>2 DEF UpdateNodeName, Refuse, Done
  <2>2. n \in DOMAIN view.def
    BY <2>1, ClientNode
  <2>3. to \in AllNames
    BY DEF AllNames
  <2> HIDE DEF n
  <2>4. Renames(view, z, n, to)
    BY <2>1, <2>2, <2>3, RenameFanoutsFacts, NoFanoutsNoReaders
  <2> HIDE DEF z
  <2>5. Good([z EXCEPT !.def[n].name = to], {})
    BY <2>1, <2>2, <2>4, NewNameFacts
  <2> QED
    BY <2>1, <2>5
<1> QED
  BY <1>1, <1>2

(* No fanout is lost where Next says so.                                   *)
LEMMA NoneLost ==
  ASSUME Good(view, {}), NEW m \in DOMAIN view.def, NEW n \in DOMAIN view.def, m # n,
         \A i \in Ports : i > At(view.max_out, n, -1) /\ <<n, i>> \in DOMAIN view.fanouts =>
                            <<m, i>> \notin DOMAIN view.fanouts,
         \A i \in Ports : i > At(view.max_out, m, -1) /\ <<m, i>> \in DOMAIN view.fanouts =>
                            <<n, i>> \notin DOMAIN view.fanouts
  PROVE  NothingLost(view, m, n)
<1> DEFINE X == {}
<1>1. Good(view, X) /\ view \in Views /\ m \in Ids /\ n \in Ids
  BY ViewParts DEF Good, WellTyped
<1> HIDE DEF X
<1>2. SUFFICES ASSUME NEW a \in {m, n}, NEW i \in Nat, i > At(view.max_out, a, -1),
                      <<a, i>> \in DOMAIN view.fanouts,
                      <<OtherNode(a, m, n), i>> \in DOMAIN view.fanouts
               PROVE  GetFanout(view, <<OtherNode(a, m, n), i>>) = {}
  BY DEF NothingLost
<1>3. OtherNode(m, m, n) = n /\ OtherNode(n, m, n) = m
  BY <1>1, OtherNodeFacts
<1>4. CASE i \in Ports
  BY <1>2, <1>3, <1>4
<1>5. CASE i \notin Ports
  <2>1. OtherNode(a, m, n) \in DOMAIN view.def
    BY <1>2, <1>3
  <2> QED
    BY <1>1, <1>5, <2>1, OnlyPortsRead
<1> QED
  BY <1>4, <1>5

(* SwapNodeNames, where Next has it.                                       *)
LEMMA SwapNodeNamesKeeps ==
  ASSUME Good(view, {}), NEW from \in Names, NEW to \in Names, NEW update_fanouts \in BOOLEAN,
         ~LosesFanouts(from, to), ~LosesFanouts(to, from),
         SwapNodeNames(from, to, update_fanouts)
  PROVE  Good(view', {})
<1> DEFINE m == Node(from)
           n == Node(to)
<1>1. CASE UNCHANGED view
  BY <1>1
<1>2. CASE ~UNCHANGED view
  <2>1. /\ Exist({from}) /\ Exist({to}) /\ from # to
        /\ \/ view' = SwapNames(SwapFanoutInputs(view, m, n), m, n)
           \/ /\ ~(IsSwitch(view, m) /\ GetFanout(view, <<n, Control>>) # {})
              /\ ~(IsSwitch(view, n) /\ GetFanout(view, <<m, Control>>) # {})
              /\ view' = SwapNodes(view, m, n)
    BY <1>2 DEF SwapNodeNames, Refuse, Done
  <2>2. /\ m \in DOMAIN view.def /\ view.def[m].name = from
        /\ n \in DOMAIN view.def /\ view.def[n].name = to
    BY <2>1, ClientNode
  <2>3. /\ \A i \in Ports : i > At(view.max_out, n, -1) /\ <<n, i>> \in DOMAIN view.fanouts =>
                            <<m, i>> \notin DOMAIN view.fanouts
        /\ \A i \in Ports : i > At(view.max_out, m, -1) /\ <<m, i>> \in DOMAIN view.fanouts =>
                            <<n, i>> \notin DOMAIN view.fanouts
    BY DEF LosesFanouts
  <2> HIDE DEF m, n
  <2>4. m # n /\ view.def[m].name \in Names /\ view.def[n].name \in Names
    BY <2>1, <2>2
  <2>5. NothingLost(view, m, n)
    BY <2>2, <2>3, <2>4, NoneLost
  <2>6. Good(SwapNames(SwapFanoutInputs(view, m, n), m, n), {})
    BY <2>2, <2>4, SwapNodeNamesFacts
  <2>7. ~(IsSwitch(view, m) /\ GetFanout(view, <<n, Control>>) # {})
        /\ ~(IsSwitch(view, n) /\ GetFanout(view, <<m, Control>>) # {}) =>
          Good(SwapNodes(view, m, n), {})
    BY <2>2, <2>4, <2>5, SwapNodesGood
  <2> QED
    BY <2>1, <2>6, <2>7
<1> QED
  BY <1>1, <1>2

(* UpdateFanouts, where Next has it.                                       *)
LEMMA UpdateFanoutsKeeps ==
  ASSUME Good(view, {}), NEW from \in Names, NEW to \in Names,
         ~LowersBound(from, to), UpdateFanouts(from, to)
  PROVE  Good(view', {})
<1> DEFINE m == Node(from)
           n == Node(to)
<1>1. CASE UNCHANGED view
  BY <1>1
<1>2. CASE ~UNCHANGED view
  <2>1. /\ Exist({from}) /\ Exist({to}) /\ Exist({from, to}) /\ m # n
        /\ IsSwitch(view, n) => \A c \in GetFanout(view, <<m, Control>>) : c[1] = n
        /\ view' = MoveFanouts(view, m, n)
    BY <1>2 DEF UpdateFanouts, Refuse, Done, Exist
  <2>2. m \in DOMAIN view.def /\ n \in DOMAIN view.def
    BY <2>1, ClientNode
  <2>3. ~(At(view.max_out, n, -1) > At(view.max_out, m, 0))
    BY <2>1 DEF LowersBound
  <2>4. view \in Views
    BY DEF Good, WellTyped
  <2> HIDE DEF m, n
  <2>5. At(view.max_out, n, -1) \in Int /\ At(view.max_out, m, 0) \in Int
    BY <2>4, ViewParts DEF At
  <2>6. At(view.max_out, n, -1) <= At(view.max_out, m, 0)
    BY <2>3, <2>5
  <2>7. Good(MoveFanouts(view, m, n), {})
    BY <2>1, <2>2, <2>6, MoveFanoutsGood
  <2> QED
    BY <2>1, <2>7
<1> QED
  BY <1>1, <1>2

-----------------------------------------------------------------------------
(* The calls that change several inputs, and the specification.            *)

(* UpdateFanin.                                                            *)
LEMMA UpdateFaninKeeps ==
  ASSUME Good(view, {}), NEW name \in Names, NEW from \in Tensors, NEW to \in Tensors,
         UpdateFanin(name, from, to)
  PROVE  Good(view', {})
<1> DEFINE n == Node(name)
           w == IF Regular(from)
                THEN RemoveRegularFaninInternal(view, n, OutputPort(view, from))
                ELSE RemoveControllingFaninInternal(view, n, Node(from[1]))
           X == {}
<1>1. CASE UNCHANGED view
  BY <1>1
<1>2. CASE ~UNCHANGED view
  <2>1. /\ Exist({name, from[1]}) /\ Exist({name, to[1]}) /\ name # from[1] /\ name # to[1]
        /\ Regular(to) \/ ~IsSwitch(view, Node(to[1]))
        /\ \/ /\ Regular(from) /\ Regular(to)
              /\ view' = ReplaceRegularFaninEverywhere(view, n, from, to)
           \/ view' = w
           \/ view' = AddFaninInternal(w, n, OutputPort(view, to))
    BY <1>2 DEF UpdateFanin, Refuse, Done, Exist
  <2>2. /\ n \in DOMAIN view.def
        /\ OutputPort(view, from) = <<Node(from[1]), from[2]>>
        /\ Node(from[1]) \in DOMAIN view.def
        /\ Regular(from) => from[2] \in Ports /\ MayRead(view, n, from)
    BY <2>1, ClientPair
  <2>3. /\ OutputPort(view, to) = <<Node(to[1]), to[2]>>
        /\ Node(to[1]) \in DOMAIN view.def /\ Node(to[1]) # n
        /\ Regular(to) => to[2] \in Ports /\ MayRead(view, n, to)
    BY <2>1, ClientPair
  <2>4. ~Regular(to) => to[2] = Control
    BY DEF Regular
  <2>5. Good(view, X)
    OBVIOUS
  <2> DEFINE f == Node(from[1])
             g == Node(to[1])
             p == from[2]
             q == to[2]
  <2> HIDE DEF n, X
  <2>6. Good(w, X) /\ Frame(view, w, n)
    <3>1. CASE Regular(from)
      <4>1. w = RemoveRegularFaninInternal(view, n, <<f, p>>)
        BY <2>2, <3>1
      <4>2. f \in DOMAIN view.def /\ p \in Ports
        BY <2>2, <3>1
      <4> HIDE DEF f, p, w
      <4>3. /\ Good(RemoveRegularFaninInternal(view, n, <<f, p>>), {})
            /\ Frame(view, RemoveRegularFaninInternal(view, n, <<f, p>>), n)
        BY <2>2, <4>2, RemoveRegularFacts
      <4> QED
        BY <4>1, <4>3 DEF X
    <3>2. CASE ~Regular(from)
      <4>1. w = RemoveControllingFaninInternal(view, n, f)
        BY <3>2
      <4>2. f \in DOMAIN view.def
        BY <2>2
      <4> HIDE DEF f, w
      <4> QED
        BY <2>2, <2>5, <4>1, <4>2, RemoveControllingGood
    <3> QED
      BY <3>1, <3>2
  <2>7. CASE Regular(from) /\ Regular(to) /\ view' = ReplaceRegularFaninEverywhere(view, n, from, to)
    <3>1. Good(ReplaceRegularFaninEverywhere(view, n, from, to), {})
      BY <2>2, <2>3, <2>7, ReplaceEverywhereFacts
    <3> QED
      BY <2>7, <3>1
  <2>8. CASE view' = w
    BY <2>6, <2>8 DEF X
  <2>9. CASE view' = AddFaninInternal(w, n, OutputPort(view, to))
    <3>1. view' = AddFaninInternal(w, n, <<g, q>>)
      BY <2>3, <2>9
    <3>2. g \in DOMAIN view.def /\ g # n /\ (Regular(to) => q \in Ports)
          /\ (~Regular(to) => q = Control /\ ~IsSwitch(view, g))
      BY <2>1, <2>3, <2>4
    <3> HIDE DEF w, g, q
    <3>3. /\ Good(w, {}) /\ n \in DOMAIN w.def /\ g \in DOMAIN w.def
          /\ IsSwitch(w, g) <=> IsSwitch(view, g)
      BY <2>2, <2>6, <3>2 DEF Frame, IsSwitch, X
    <3>4. CASE Regular(to)
      <4>1. q \in Ports
        BY <3>2, <3>4
      <4>2. Good(AddFaninInternal(w, n, <<g, q>>), {})
        BY <3>2, <3>3, <4>1, AddRegularFacts
      <4> QED
        BY <3>1, <4>2
    <3>5. CASE ~Regular(to)
      <4>1. q = Control /\ ~IsSwitch(w, g)
        BY <3>2, <3>3, <3>5
      <4>2. AddsControl(w, AddFaninInternal(w, n, <<g, Control>>), n, g)
        BY <3>2, <3>3, <4>1, AddControlFacts
      <4> QED
        BY <3>1, <4>1, <4>2 DEF AddsControl
    <3> QED
      BY <3>4, <3>5
  <2> QED
    BY <2>1, <2>7, <2>8, <2>9
<1> QED
  BY <1>1, <1>2

(* UpdateAllRegularFaninsToControlling.                                    *)
LEMMA UpdateAllRegularFaninsToControllingKeeps ==
  ASSUME Good(view, {}), NEW name \in Names, UpdateAllRegularFaninsToControlling(name)
  PROVE  Good(view', {})
<1> DEFINE n == Node(name)
           s == view.def[n].input
           num == view.regular[n]
           fanins == 1..num
           Port(i) == OutputPort(view, s[i])
           choices == {c \in [fanins -> Ids \cup {Null}] :
                         /\ \A i \in fanins : c[i] \in ControllingFanins(view, Port(i))
                         /\ \A i, j \in fanins : Port(i) = Port(j) => c[i] = c[j]}
<1>1. CASE UNCHANGED view
  BY <1>1
<1>2. CASE ~UNCHANGED view
  <2>1. /\ Exist({name})
        /\ \E anchor \in choices :
             /\ \A i \in fanins : ~CannotControl(view, n, Port(i), anchor[i])
             /\ HasRoom(Cardinality({Port(i) : i \in {j \in fanins : anchor[j] = Null}}))
             /\ view' = FaninsToControlling(view, n, anchor)
    BY <1>2 DEF UpdateAllRegularFaninsToControlling, Refuse, Done
  <2>2. n \in DOMAIN view.def
    BY <2>1, ClientNode
  <2>3. PICK anchor \in choices :
             /\ \A i \in fanins : ~CannotControl(view, n, Port(i), anchor[i])
             /\ HasRoom(Cardinality({Port(i) : i \in {j \in fanins : anchor[j] = Null}}))
             /\ view' = FaninsToControlling(view, n, anchor)
    BY <2>1
  <2>4. \A i \in fanins : anchor[i] \in ControllingFanins(view, Port(i))
    BY <2>3
  <2> HIDE DEF n
  <2>5. \A i \in fanins : Port(i) = PortAt(view, n, i)
    BY DEF PortAt
  <2>6. /\ view \in Views /\ s \in Seq(AnyInput) /\ Sound(view, n, s, num) /\ num \in Nat
    BY <2>2, ViewParts DEF Good, WellTyped, NodeOk, InputsOk
  <2>7. ASSUME NEW i \in fanins
        PROVE  Choice(view, n, PortAt(view, n, i), anchor[i])
    <3> DEFINE port == PortAt(view, n, i)
               a == anchor[i]
    <3>1. i \in DOMAIN s
      <4>1. Len(s) \in Nat /\ DOMAIN s = 1..Len(s) /\ num <= Len(s)
        BY <2>6, LenProperties DEF Sound
      <4> HIDE DEF s, num
      <4> QED
        BY <2>6, <4>1
    <3>2. HasNode(view, s[i][1]) /\ GetNode(view, s[i][1]) # n
      BY <2>6, <3>1 DEF Sound
    <3>3. port = OutputPort(view, s[i])
      BY DEF PortAt
    <3>4. a \in ControllingFanins(view, port) /\ ~CannotControl(view, n, port, a)
      BY <2>3, <2>4, <3>3
    <3>5. GetNode(view, s[i][1]) \in DOMAIN view.def
      BY <2>6, <3>2, NodeFound
    <3> HIDE DEF s
    <3>6. /\ OutputPort(view, s[i]) \in Ends /\ OutputPort(view, s[i])[1] = GetNode(view, s[i][1])
          /\ OutputPort(view, s[i])[2] = s[i][2] /\ s[i][2] \in AnyPort
      BY <2>6, <3>1, <3>2, InputFacts
    <3> HIDE DEF port, a
    <3>7. port \in Ends /\ port[1] \in DOMAIN view.def /\ port[1] # n /\ port[2] \in AnyPort
      BY <3>2, <3>3, <3>5, <3>6
    <3>8. Choice(view, n, port, a)
      BY <2>2, <3>4, <3>7, ChoiceMade
    <3> QED
      BY <3>8 DEF port, a
  <2>8. Cardinality(Ids \ DOMAIN view.def) >=
          Cardinality({PortAt(view, n, i) : i \in {j \in 1..view.regular[n] : anchor[j] = Null}})
    BY <2>3 DEF HasRoom, PortAt
  <2>9. \A i \in 1..view.regular[n] : Choice(view, n, PortAt(view, n, i), anchor[i])
    BY <2>7
  <2>10. view' = FaninsToControlling(view, n, anchor)
    BY <2>3
  <2> HIDE DEF s, num, fanins, Port, choices
  <2>11. Good(FaninsToControlling(view, n, anchor), {})
    BY <2>2, <2>8, <2>9, FaninsToControllingGood
  <2> QED
    BY <2>10, <2>11
<1> QED
  BY <1>1, <1>2

(* Every call of Next keeps the view good, in whatever order they come.    *)
LEMMA NextKeeps ==
  ASSUME Good(view, {}), [Next]_vars
  PROVE  Good(view', {})
<1>1. CASE UNCHANGED vars
  BY <1>1 DEF vars
<1>2. ASSUME NEW node \in NewNodes, AddNode(node)
      PROVE  Good(view', {})
  BY <1>2, AddNodeKeeps
<1>3. ASSUME NEW n \in Names, NEW op \in Ops, UpdateNode(n, op)
      PROVE  Good(view', {})
  BY <1>3, UpdateNodeKeeps
<1>4. ASSUME NEW n \in Names, NEW m \in Names, NEW u \in BOOLEAN, UpdateNodeName(n, m, u)
      PROVE  Good(view', {})
  BY <1>4, UpdateNodeNameKeeps
<1>5. ASSUME NEW n \in Names, NEW t \in Tensors, AddRegularFanin(n, t)
      PROVE  Good(view', {})
  BY <1>5, AddRegularFaninKeeps
<1>6. ASSUME NEW n \in Names, NEW p \in Places, NEW t \in Tensors, AddRegularFaninByPort(n, p, t)
      PROVE  Good(view', {})
  BY <1>6, AddRegularFaninByPortKeeps
<1>7. ASSUME NEW n \in Names, NEW t \in Tensors, AddControllingFanin(n, t)
      PROVE  Good(view', {})
  BY <1>7, AddControllingFaninKeeps
<1>8. ASSUME NEW n \in Names, NEW t \in Tensors, RemoveRegularFanin(n, t)
      PROVE  Good(view', {})
  BY <1>8, RemoveRegularFaninKeeps
<1>9. ASSUME NEW n \in Names, NEW p \in Places, RemoveRegularFaninByPort(n, p)
      PROVE  Good(view', {})
  BY <1>9, RemoveRegularFaninByPortKeeps
<1>10. ASSUME NEW n \in Names, NEW m \in Names, RemoveControllingFanin(n, m)
       PROVE  Good(view', {})
  BY <1>10, RemoveControllingFaninKeeps
<1>11. ASSUME NEW n \in Names, NEW keep \in BOOLEAN, RemoveAllFanins(n, keep)
       PROVE  Good(view', {})
  BY <1>11, RemoveAllFaninsKeeps
<1>12. ASSUME NEW n \in Names, NEW t \in Tensors, NEW u \in Tensors, UpdateFanin(n, t, u)
       PROVE  Good(view', {})
  BY <1>12, UpdateFaninKeeps
<1>13. ASSUME NEW n \in Names, NEW p \in Places, NEW t \in Tensors, UpdateRegularFaninByPort(n, p, t)
       PROVE  Good(view', {})
  BY <1>13, UpdateRegularFaninByPortKeeps
<1>14. ASSUME NEW n \in Names, NEW p \in Places, NEW q \in Places, SwapRegularFaninsByPorts(n, p, q)
       PROVE  Good(view', {})
  BY <1>14, SwapRegularFaninsByPortsKeeps
<1>15. ASSUME NEW n \in Names, UpdateAllRegularFaninsToControlling(n)
       PROVE  Good(view', {})
  BY <1>15, UpdateAllRegularFaninsToControllingKeeps
<1>16. ASSUME NEW S \in SUBSET Names, DeleteNodes(S)
       PROVE  Good(view', {})
  BY <1>16, DeleteNodesKeeps
<1>17. ASSUME NEW n \in Names, NEW m \in Names, ~LowersBound(n, m), UpdateFanouts(n, m)
       PROVE  Good(view', {})
  BY <1>17, UpdateFanoutsKeeps
<1>18. ASSUME NEW n \in Names, NEW m \in Names, NEW u \in BOOLEAN,
              ~LosesFanouts(n, m), ~LosesFanouts(m, n), SwapNodeNames(n, m, u)
       PROVE  Good(view', {})
  BY <1>18, SwapNodeNamesKeeps
<1>19. CASE Next
  <2>1. Edit \/ (\E n, m \in Names : ~LowersBound(n, m) /\ UpdateFanouts(n, m))
        \/ (\E n, m \in Names, u \in BOOLEAN :
              ~LosesFanouts(n, m) /\ ~LosesFanouts(m, n) /\ SwapNodeNames(n, m, u))
    BY <1>19 DEF Next
  <2>2. CASE Edit
    BY <2>2, <1>2, <1>3, <1>4, <1>5, <1>6, <1>7, <1>8, <1>9, <1>10, <1>11, <1>12, <1>13,
       <1>14, <1>15, <1>16 DEF Edit
  <2> QED
    BY <2>1, <2>2, <1>17, <1>18
<1> QED
  BY <1>1, <1>19

-----------------------------------------------------------------------------
(* What the invariant says to those who read the graph.                    *)

(* The inputs of a good view are well-formed.                              *)
LEMMA GoodIsWellFormed ==
  ASSUME Good(view, {})
  PROVE  InputsWellFormed
<1>1. view \in Views /\ UniqueNames(view)
  BY DEF Good, WellTyped
<1>2. ASSUME NEW n \in Nodes
      PROVE  /\ InputsOf(n) \in Seq(AnyInput)
             /\ Sound(view, n, InputsOf(n), view.regular[n])
             /\ Single(InputsOf(n)) /\ NoRepeat(view, InputsOf(n), {})
  BY <1>1, <1>2, ViewParts DEF Good, NodeOk, InputsOk, Nodes, InputsOf
<1>3. NothingDangles
  BY <1>2 DEF NothingDangles, Sound
<1>4. \A m, n \in Nodes : view.def[m].name = view.def[n].name => m = n
  BY <1>1 DEF UniqueNames, Nodes
<1>5. ASSUME NEW n \in Nodes, NEW i \in DOMAIN InputsOf(n)
      PROVE  LET t == InputsOf(n)[i]
                 f == GetNode(view, t[1])
             IN  /\ f # n
                 /\ i <= view.regular[n] <=> t[2] # Control
                 /\ t[2] = Control =>
                      /\ ~IsSwitch(view, f)
                      /\ \A j \in 1..i - 1 :
                           InputsOf(n)[j][1] = t[1] =>
                             InputsOf(n)[j][2] # Control /\ IsIdentity(view, f)
  <2> DEFINE s == InputsOf(n)
             t == s[i]
             f == GetNode(view, t[1])
  <2>1. f # n /\ (i <= view.regular[n] <=> t[2] # Control) /\ (t[2] = Control => ~IsSwitch(view, f))
    BY <1>2, <1>5 DEF Sound
  <2>2. ASSUME t[2] = Control, NEW j \in 1..i - 1, s[j][1] = t[1]
        PROVE  s[j][2] # Control /\ IsIdentity(view, f)
    <3>1. s \in Seq(AnyInput) /\ Single(s) /\ NoRepeat(view, s, {})
      BY <1>2
    <3>2. Len(s) \in Nat /\ DOMAIN s = 1..Len(s)
      BY <3>1, LenProperties
    <3>3. i \in DOMAIN s
      BY <1>5
    <3> HIDE DEF s
    <3>4. j \in DOMAIN s /\ j # i
      BY <3>2, <3>3
    <3>5. s[j][2] # Control
      BY <2>2, <3>1, <3>3, <3>4 DEF Single
    <3>6. IsIdentity(view, GetNode(view, s[i][1]))
      BY <2>2, <3>1, <3>3, <3>4, <3>5 DEF NoRepeat
    <3> QED
      BY <3>5, <3>6
  <2> QED
    BY <2>1, <2>2
<1> QED
  BY <1>3, <1>4, <1>5 DEF InputsWellFormed

(* The inputs that name port p of n.                                       *)
ReadersOf(v, n, p) ==
  UNION { {<<m, i>> : i \in {j \in DOMAIN v.def[m].input :
                               v.def[m].input[j] = <<v.def[n].name, p>>}} :
          m \in DOMAIN v.def }

(* An input names a port of n if it is found there.                        *)
LEMMA InputNames ==
  ASSUME NEW v, Good(v, {}), NEW n \in DOMAIN v.def, NEW m \in DOMAIN v.def,
         NEW i \in DOMAIN v.def[m].input, NEW p
  PROVE  /\ v.def[m].input[i] = <<v.def[n].name, p>> <=>
              GetNode(v, v.def[m].input[i][1]) = n /\ v.def[m].input[i][2] = p
         /\ v.def[m].input[i] = <<v.def[n].name, p>> <=>
              OutputPort(v, v.def[m].input[i]) = <<n, p>>
<1> DEFINE s == v.def[m].input
           t == s[i]
<1>1. WellTyped(v) /\ v \in Views /\ s \in Seq(AnyInput) /\ HasNode(v, t[1]) /\ i \in DOMAIN s
  BY ViewParts DEF Good, WellTyped, NodeOk, InputsOk, Sound
<1> HIDE DEF s
<1>2. t = <<t[1], t[2]>> /\ OutputPort(v, t) = <<GetNode(v, t[1]), t[2]>>
  BY <1>1, InputFacts
<1>3. t[1] = v.def[n].name <=> n = GetNode(v, t[1])
  BY <1>1, NameOfInput
<1> HIDE DEF t
<1>4. t = <<v.def[n].name, p>> <=> t[1] = v.def[n].name /\ t[2] = p
  BY <1>2
<1>5. OutputPort(v, t) = <<n, p>> <=> GetNode(v, t[1]) = n /\ t[2] = p
  BY <1>2
<1> QED
  BY <1>3, <1>4, <1>5 DEF t, s

(* The readers of a port, one by one.                                      *)
LEMMA ReadersAre ==
  ASSUME NEW v, NEW n, NEW p, NEW x
  PROVE  x \in ReadersOf(v, n, p) <=>
           \E m \in DOMAIN v.def : \E i \in DOMAIN v.def[m].input :
             x = <<m, i>> /\ v.def[m].input[i] = <<v.def[n].name, p>>
  BY DEF ReadersOf

(* The same, of one reader,                                                *)
LEMMA ReadsIn ==
  ASSUME NEW v, NEW n, NEW p, NEW m \in DOMAIN v.def, NEW i \in DOMAIN v.def[m].input,
         v.def[m].input[i] = <<v.def[n].name, p>>
  PROVE  <<m, i>> \in ReadersOf(v, n, p)
  BY DEF ReadersOf

(* and the other way around.                                               *)
LEMMA ReadBy ==
  ASSUME NEW v, NEW n, NEW p, NEW x \in ReadersOf(v, n, p)
  PROVE  \E m \in DOMAIN v.def : \E i \in DOMAIN v.def[m].input :
           x = <<m, i>> /\ v.def[m].input[i] = <<v.def[n].name, p>>
  BY DEF ReadersOf

(* GetFanout at a regular port, and at the control port.                   *)
LEMMA FanoutIsReaders ==
  ASSUME NEW v, Good(v, {}), NEW n \in DOMAIN v.def, NEW p \in AnyPort
  PROVE  /\ p # Control => GetFanout(v, <<n, p>>) = ReadersOf(v, n, p)
         /\ p = Control => {to[1] : to \in GetFanout(v, <<n, p>>)} =
                           {r[1] : r \in ReadersOf(v, n, p)}
<1>1. /\ v \in Views /\ n \in Ids /\ p \in Slots /\ <<n, p>> \in Ends /\ NoStray(v)
      /\ GetFanout(v, <<n, p>>) \in SUBSET Ends
  BY ViewParts, IdsAndControl DEF Good, WellTyped, Ends
<1>2. ASSUME NEW m \in DOMAIN v.def
      PROVE  /\ v.def[m].input \in Seq(AnyInput) /\ Reads(v, m, v.def[m].input, {})
  BY <1>1, ViewParts DEF Good, NodeOk
<1>3. ASSUME NEW m \in DOMAIN v.def, NEW at \in Slots
      PROVE  <<m, at>> \in GetFanout(v, <<n, p>>) <=>
               \E i \in DOMAIN v.def[m].input :
                 v.def[m].input[i] = <<v.def[n].name, p>> /\ at = Slot(v.def[m].input[i], i)
  <2>1. Reads(v, m, v.def[m].input, {})
    BY <1>2
  <2>2. <<m, at>> \in GetFanout(v, <<n, p>>) <=>
          \E i \in DOMAIN v.def[m].input :
            OutputPort(v, v.def[m].input[i]) = <<n, p>> /\ at = Slot(v.def[m].input[i], i)
    BY <1>1, <1>3, <2>1 DEF Reads
  <2>3. \A i \in DOMAIN v.def[m].input :
          v.def[m].input[i] = <<v.def[n].name, p>> <=> OutputPort(v, v.def[m].input[i]) = <<n, p>>
    BY InputNames
  <2> QED
    BY <2>2, <2>3
<1>4. ASSUME NEW m \in DOMAIN v.def, NEW i \in DOMAIN v.def[m].input,
             v.def[m].input[i] = <<v.def[n].name, p>>
      PROVE  /\ Slot(v.def[m].input[i], i) = IF p = Control THEN Control ELSE i
             /\ Slot(v.def[m].input[i], i) \in Slots
             /\ <<m, Slot(v.def[m].input[i], i)>> \in GetFanout(v, <<n, p>>)
  <2>1. Slot(v.def[m].input[i], i) = IF p = Control THEN Control ELSE i
    BY <1>4 DEF Slot
  <2>2. Slot(v.def[m].input[i], i) \in Slots
    BY <1>1, <1>2, InputFacts
  <2> QED
    BY <1>3, <1>4, <2>1, <2>2
<1>5. ASSUME NEW x \in GetFanout(v, <<n, p>>)
      PROVE  /\ x[1] \in DOMAIN v.def
             /\ \E i \in DOMAIN v.def[x[1]].input :
                  /\ v.def[x[1]].input[i] = <<v.def[n].name, p>>
                  /\ x = <<x[1], Slot(v.def[x[1]].input[i], i)>>
  <2>1. x \in Ends /\ x = <<x[1], x[2]>> /\ x[2] \in Slots /\ x[1] \in DOMAIN v.def
    BY <1>1, <1>5 DEF NoStray, Ends
  <2>2. <<x[1], x[2]>> \in GetFanout(v, <<n, p>>)
    BY <1>5, <2>1
  <2>3. PICK i \in DOMAIN v.def[x[1]].input :
          v.def[x[1]].input[i] = <<v.def[n].name, p>> /\ x[2] = Slot(v.def[x[1]].input[i], i)
    BY <1>3, <2>1, <2>2
  <2> QED
    BY <2>1, <2>3
<1>6. CASE p # Control
  <2>1. ASSUME NEW x \in GetFanout(v, <<n, p>>) PROVE x \in ReadersOf(v, n, p)
    <3>1. PICK i \in DOMAIN v.def[x[1]].input :
            /\ v.def[x[1]].input[i] = <<v.def[n].name, p>>
            /\ x = <<x[1], Slot(v.def[x[1]].input[i], i)>>
      BY <1>5
    <3>2. x[1] \in DOMAIN v.def
      BY <1>5
    <3>3. x = <<x[1], i>>
      BY <1>4, <1>6, <3>1, <3>2
    <3> QED
      BY <3>1, <3>2, <3>3, ReadsIn
  <2>2. ASSUME NEW x \in ReadersOf(v, n, p) PROVE x \in GetFanout(v, <<n, p>>)
    <3>1. PICK m \in DOMAIN v.def : \E i \in DOMAIN v.def[m].input :
            x = <<m, i>> /\ v.def[m].input[i] = <<v.def[n].name, p>>
      BY ReadBy
    <3>2. PICK i \in DOMAIN v.def[m].input :
            x = <<m, i>> /\ v.def[m].input[i] = <<v.def[n].name, p>>
      BY <3>1
    <3> QED
      BY <1>4, <1>6, <3>2
  <2> QED
    BY <1>6, <2>1, <2>2
<1>7. CASE p = Control
  <2>1. ASSUME NEW x \in GetFanout(v, <<n, p>>)
        PROVE  \E r \in ReadersOf(v, n, p) : r[1] = x[1]
    <3>1. PICK i \in DOMAIN v.def[x[1]].input : v.def[x[1]].input[i] = <<v.def[n].name, p>>
      BY <1>5
    <3>2. <<x[1], i>> \in ReadersOf(v, n, p)
      BY <1>5, <3>1, ReadsIn
    <3> QED
      BY <3>2
  <2>2. ASSUME NEW r \in ReadersOf(v, n, p)
        PROVE  \E x \in GetFanout(v, <<n, p>>) : x[1] = r[1]
    <3>1. PICK m \in DOMAIN v.def : \E i \in DOMAIN v.def[m].input :
            r = <<m, i>> /\ v.def[m].input[i] = <<v.def[n].name, p>>
      BY ReadBy
    <3>2. PICK i \in DOMAIN v.def[m].input :
            r = <<m, i>> /\ v.def[m].input[i] = <<v.def[n].name, p>>
      BY <3>1
    <3>3. <<m, Slot(v.def[m].input[i], i)>> \in GetFanout(v, <<n, p>>)
      BY <1>4, <3>2
    <3> QED
      BY <3>2, <3>3
  <2>3. {to[1] : to \in GetFanout(v, <<n, p>>)} = {r[1] : r \in ReadersOf(v, n, p)}
    BY <2>1, <2>2
  <2> QED
    BY <1>7, <2>3
<1> QED
  BY <1>6, <1>7

(* GetFanoutEdges finds the readers of the regular ports.                  *)
LEMMA EdgesAreReaders ==
  ASSUME NEW v, Good(v, {}), NEW n \in DOMAIN v.def
  PROVE  GetFanoutEdges(v, n) = UNION { {p} \X ReadersOf(v, n, p) : p \in Ports }
<1> DEFINE X == {}
<1>1. /\ Good(v, X) /\ v \in Views /\ n \in Ids /\ NoStray(v)
      /\ \A port : GetFanout(v, port) \in SUBSET Ends
  BY ViewParts DEF Good, WellTyped
<1> HIDE DEF X
<1>2. ASSUME NEW e \in GetFanoutEdges(v, n)
      PROVE  e \in UNION { {p} \X ReadersOf(v, n, p) : p \in Ports }
  <2>1. e = <<e[1], e[2]>> /\ e[2] \in GetFanout(v, <<n, e[1]>>)
    BY <1>2 DEF GetFanoutEdges
  <2>2. e[2] = <<e[2][1], e[2][2]>> /\ e[2] \in Ends
    BY <1>1, <2>1 DEF Ends
  <2>3. e[2][1] \in DOMAIN v.def
    BY <1>1, <1>2, EdgesReachNodes
  <2> DEFINE q == e[1]
             m == e[2][1]
             i == e[2][2]
  <2>4. e = <<q, <<m, i>>>>
    BY <2>1, <2>2
  <2> HIDE DEF q, m, i
  <2>5. m \in DOMAIN v.def
    BY <2>3 DEF m
  <2>6. <<q, <<m, i>>>> \in GetFanoutEdges(v, n)
    BY <1>2, <2>4
  <2>7. /\ i \in DOMAIN v.def[m].input /\ i \in 1..v.regular[m]
        /\ v.def[m].input[i][2] = q /\ GetNode(v, v.def[m].input[i][1]) = n
    BY <1>1, <2>5, <2>6, EdgesAreInputs
  <2>8. v.def[m].input[i] = <<v.def[n].name, q>>
    <3>1. i \in DOMAIN v.def[m].input
      BY <2>7
    <3>2. GetNode(v, v.def[m].input[i][1]) = n /\ v.def[m].input[i][2] = q
      BY <2>7
    <3>3. v.def[m].input[i] = <<v.def[n].name, q>> <=>
            GetNode(v, v.def[m].input[i][1]) = n /\ v.def[m].input[i][2] = q
      BY <2>5, <3>1, InputNames
    <3> QED
      BY <3>2, <3>3
  <2>9. <<m, i>> \in ReadersOf(v, n, q)
    BY <2>5, <2>7, <2>8, ReadsIn
  <2>10. q \in Ports
    <3> DEFINE s == v.def[m].input
    <3>1. s \in Seq(AnyInput) /\ Sound(v, m, s, v.regular[m])
      BY <1>1, <2>5, ViewParts DEF Good, NodeOk, InputsOk
    <3>2. i \in DOMAIN s /\ i <= v.regular[m] /\ s[i][2] = q
      <4>1. v.regular[m] \in Nat
        BY <1>1, <2>5, ViewParts DEF Good, WellTyped
      <4> QED
        BY <2>7, <4>1
    <3> HIDE DEF s
    <3>3. s[i][2] \in AnyPort /\ s[i][2] # Control
      BY <1>1, <3>1, <3>2, InputFacts DEF Sound
    <3> QED
      BY <3>2, <3>3 DEF AnyPort
  <2> QED
    BY <2>4, <2>9, <2>10
<1>3. ASSUME NEW p \in Ports, NEW x \in ReadersOf(v, n, p)
      PROVE  <<p, x>> \in GetFanoutEdges(v, n)
  <2>1. PICK m \in DOMAIN v.def : \E i \in DOMAIN v.def[m].input :
          x = <<m, i>> /\ v.def[m].input[i] = <<v.def[n].name, p>>
    BY <1>3, ReadBy
  <2>2. PICK i \in DOMAIN v.def[m].input :
          x = <<m, i>> /\ v.def[m].input[i] = <<v.def[n].name, p>>
    BY <2>1
  <2>3. GetNode(v, v.def[m].input[i][1]) = n /\ v.def[m].input[i][2] = p
    <3>1. v.def[m].input[i] = <<v.def[n].name, p>> <=>
            GetNode(v, v.def[m].input[i][1]) = n /\ v.def[m].input[i][2] = p
      BY InputNames
    <3> QED
      BY <2>2, <3>1
  <2>4. i \in 1..v.regular[m]
    <3> DEFINE s == v.def[m].input
    <3>1. s \in Seq(AnyInput) /\ Sound(v, m, s, v.regular[m]) /\ i \in DOMAIN s /\ s[i][2] = p
      BY <1>1, <2>2, <2>3, ViewParts DEF Good, NodeOk, InputsOk
    <3>2. v.regular[m] \in Nat
      BY <1>1, ViewParts DEF Good, WellTyped
    <3> HIDE DEF s
    <3>3. i \in 1..Len(s) /\ Len(s) \in Nat
      BY <1>1, <3>1, InputFacts, LenProperties
    <3>4. i <= v.regular[m]
      BY <3>1, PortFacts DEF Sound
    <3> QED
      BY <3>2, <3>3, <3>4
  <2>5. <<p, <<m, i>>>> \in GetFanoutEdges(v, n)
    BY <1>1, <2>2, <2>3, <2>4, EdgesAreInputs
  <2> QED
    BY <2>2, <2>5
<1> QED
  BY <1>2, <1>3

(* The fanouts of a good view are found.                                   *)
LEMMA GoodFindsFanouts ==
  ASSUME Good(view, {})
  PROVE  FanoutsAreFound
<1>1. ASSUME NEW n \in DOMAIN view.def, NEW p
      PROVE  ReadersOf(view, n, p) =
               UNION { {<<m, i>> : i \in {j \in DOMAIN InputsOf(m) :
                                            InputsOf(m)[j] = <<view.def[n].name, p>>}} :
                       m \in Nodes }
  BY DEF ReadersOf, InputsOf, Nodes
<1>2. SUFFICES ASSUME NEW n \in DOMAIN view.def
               PROVE  /\ GetFanoutEdges(view, n) =
                           UNION { {p} \X ReadersOf(view, n, p) : p \in Ports }
                      /\ \A p \in Ports : GetFanout(view, <<n, p>>) = ReadersOf(view, n, p)
                      /\ {to[1] : to \in GetFanout(view, <<n, Control>>)} =
                           {r[1] : r \in ReadersOf(view, n, Control)}
  BY <1>1 DEF FanoutsAreFound, Nodes, InputsOf, ReadersOf
<1>3. GetFanoutEdges(view, n) = UNION { {p} \X ReadersOf(view, n, p) : p \in Ports }
  BY EdgesAreReaders
<1>4. ASSUME NEW p \in Ports PROVE GetFanout(view, <<n, p>>) = ReadersOf(view, n, p)
  BY PortFacts, FanoutIsReaders
<1>5. {to[1] : to \in GetFanout(view, <<n, Control>>)} = {r[1] : r \in ReadersOf(view, n, Control)}
  <2>1. Control \in AnyPort
    BY DEF AnyPort
  <2> QED
    BY <2>1, FanoutIsReaders
<1> QED
  BY <1>3, <1>4, <1>5

-----------------------------------------------------------------------------
(* The invariant and what it is for.                                       *)

(* The view starts good, on any of the graphs.                             *)
LEMMA InitIsGood ==
  ASSUME Init
  PROVE  Good(view, {})
<1>1. PICK def \in InitDefs : view = ViewOf(def)
  BY DEF Init
<1>2. IsGraph(def)
  BY InitDefsAssumption
<1> QED
  BY <1>1, <1>2, ViewOfGood

(* The invariant.                                                          *)
ViewIsGood == Good(view, {})

(* Names are unique and name nodes; the fanouts are those of the inputs of *)
(* the NodeDefs and of nothing else, within the bounds; whatever the calls *)
(* of Next and their order, and however many.  Next leaves out the calls   *)
(* of UpdateFanouts and SwapNodeNames that break the view.                 *)
THEOREM ViewStaysGood == Spec => []ViewIsGood
<1>1. Init => ViewIsGood
  BY InitIsGood DEF ViewIsGood
<1>2. ViewIsGood /\ [Next]_vars => ViewIsGood'
  BY NextKeeps DEF ViewIsGood
<1> QED
  BY <1>1, <1>2, PTL DEF Spec

(* Every pass finds the inputs as it relies on them, after any calls of    *)
(* Next.                                                                   *)
THEOREM InputsStayWellFormed == Spec => []InputsWellFormed
<1>1. ViewIsGood => InputsWellFormed
  BY GoodIsWellFormed DEF ViewIsGood
<1> QED
  BY <1>1, ViewStaysGood, PTL

(* From a node, a pass finds exactly the inputs that read it, after any    *)
(* calls of Next.                                                          *)
THEOREM FanoutsStayFound == Spec => []FanoutsAreFound
<1>1. ViewIsGood => FanoutsAreFound
  BY GoodFindsFanouts DEF ViewIsGood
<1> QED
  BY <1>1, ViewStaysGood, PTL
=============================================================================
