--------------------- MODULE AutoMixedPrecision_proofs ---------------------
(***************************************************************************)
(* Proofs about AutoMixedPrecision, for any graphs, op definitions, lists  *)
(* and kernels, and any number of runs: whatever the passes have painted,  *)
(* the edges of the graph agree in type when the pass is done, the nodes   *)
(* read what they have read, loops have no Cast in their back edges, the   *)
(* nodes that share a list agree on the type of its elements, and what     *)
(* lies between dangerous ops is float as it was.                          *)
(***************************************************************************)
EXTENDS AutoMixedPrecision, SequenceTheorems, FiniteSetTheorems,
        WellFoundedInduction, TLAPS

-----------------------------------------------------------------------------
(* Loops.                                                                  *)

(* A set of natural numbers that is not empty has a least one. *)
LEMMA LeastNumber ==
  ASSUME NEW W \in SUBSET Nat, W # {}
  PROVE  \E x \in W : \A y \in W : x <= y
<1>1. PICK x \in W : \A y \in W : ~(<<y, x>> \in OpToRel(<, Nat))
  BY NatLessThanWellFounded, WFMin
<1>2. \A y \in W : ~(y < x)
  BY <1>1 DEF OpToRel
<1> QED
  BY <1>2

(* What holds before a loop and is kept by each step holds throughout. *)
LEMMA Throughout ==
  ASSUME NEW L \in Nat, NEW P \in SUBSET (0..L), 0 \in P,
         \A d \in 1..L : d - 1 \in P => d \in P
  PROVE  P = 0..L
<1> DEFINE W == (0..L) \ P
<1> SUFFICES ASSUME W # {} PROVE FALSE
  OBVIOUS
<1>1. PICK x \in W : \A y \in W : x <= y
  <2>1. W \in SUBSET Nat
    OBVIOUS
  <2> HIDE DEF W
  <2> QED
    BY <2>1, LeastNumber
<1>2. x \in 1..L /\ x - 1 \in 0..L
  BY <1>1
<1>3. x - 1 \in P
  BY <1>1, <1>2
<1> QED
  BY <1>1, <1>2, <1>3

(* The steps of a loop of length L over values of S, and what such a loop  *)
(* may pass through from a on.                                             *)
Steps(L, S) == [1..L -> [S -> S]]
Runs(F, a, L, S) ==
  {g \in [0..L -> S] : g[0] = a /\ \A d \in 1..L : g[d] = F[d][g[d - 1]]}

(* A loop can be run. *)
LEMMA Iterates ==
  ASSUME NEW L \in Nat, NEW S, NEW a \in S, NEW F \in Steps(L, S)
  PROVE  Runs(F, a, L, S) # {}
<1> DEFINE Loop(g, k) == g[0] = a /\ \A d \in 1..k : g[d] = F[d][g[d - 1]]
           P == {k \in 0..L : \E g \in [0..k -> S] : Loop(g, k)}
<1>0. F \in [1..L -> [S -> S]]
  BY DEF Steps
<1>1. 0 \in P
  <2> DEFINE g == [d \in 0..0 |-> a]
  <2>1. g \in [0..0 -> S] /\ Loop(g, 0)
    OBVIOUS
  <2> HIDE DEF g, Loop
  <2> QED
    BY <2>1
<1>2. ASSUME NEW k \in 1..L, k - 1 \in P PROVE k \in P
  <2>1. PICK g \in [0..(k - 1) -> S] : Loop(g, k - 1)
    BY <1>2
  <2> DEFINE v == F[k][g[k - 1]]
             h == [d \in 0..k |-> IF d = k THEN v ELSE g[d]]
  <2>2. v \in S
    BY <2>1, <1>0
  <2> HIDE DEF v
  <2>3. h \in [0..k -> S]
    BY <2>1, <2>2
  <2>4. \A d \in 0..(k - 1) : h[d] = g[d]
    OBVIOUS
  <2>5. h[k] = v
    OBVIOUS
  <2> HIDE DEF h
  <2>6. h[0] = a
    BY <2>1, <2>4
  <2>7. ASSUME NEW d \in 1..k PROVE h[d] = F[d][h[d - 1]]
    <3>1. CASE d = k
      BY <2>4, <2>5, <3>1 DEF v
    <3>2. CASE d # k
      <4>1. d \in 1..(k - 1) /\ d \in 0..(k - 1) /\ d - 1 \in 0..(k - 1)
        BY <3>2
      <4> QED
        BY <4>1, <2>1, <2>4
    <3> QED
      BY <3>1, <3>2
  <2>8. \E f \in [0..k -> S] : Loop(f, k)
    BY <2>3, <2>6, <2>7
  <2> HIDE DEF Loop
  <2> QED
    BY <2>8
<1>3. P = 0..L
  <2> HIDE DEF P
  <2>1. P \in SUBSET (0..L)
    BY DEF P
  <2> QED
    BY <1>1, <1>2, <2>1, Throughout
<1>4. \E g \in [0..L -> S] : Loop(g, L)
  BY <1>3
<1> QED
  BY <1>4 DEF Runs

-----------------------------------------------------------------------------
(* Ports.                                                                  *)

(* The type attributes of nodes, and those that are no type fixed by the   *)
(* op definition.                                                          *)
Ids == {id \in [attr_name : Strings, type_index : Int, fixed_type : Strings] :
          id.attr_name # "" => id.fixed_type = "invalid"}
Settable == {id \in Ids : id.attr_name # ""}

(* The ports of all arguments, one after the other. *)
LEMMA JoinedLoop ==
  ASSUME NEW S, NEW parts \in Seq(Seq(S))
  PROVE  \E f \in [0..Len(parts) -> Seq(S)] :
           /\ f[0] = <<>>
           /\ \A k \in 1..Len(parts) : f[k] = f[k - 1] \o parts[k]
           /\ Joined(parts) = f[Len(parts)]
<1> DEFINE L == Len(parts)
           F == [d \in 1..L |-> [s \in Seq(S) |-> s \o parts[d]]]
           Loop(g) == g = [k \in 0..L |-> IF k = 0 THEN <<>>
                                          ELSE g[k - 1] \o parts[k]]
           f == CHOOSE h : Loop(h)
<1>1. L \in Nat /\ \A d \in 1..L : parts[d] \in Seq(S)
  OBVIOUS
<1>2. F \in [1..L -> [Seq(S) -> Seq(S)]]
  <2>1. \A d \in 1..L : \A s \in Seq(S) : s \o parts[d] \in Seq(S)
    BY <1>1
  <2> HIDE DEF L
  <2> QED
    BY <2>1
<1>9. Joined(parts) = f[L]
  BY DEF Joined
<1> HIDE DEF L
<1>3. PICK none \in Seq(S) : none = <<>>
  <2>1. <<>> \in Seq(S)
    BY EmptySeq
  <2> QED
    BY <2>1, Zenon
<1>5. PICK g \in [0..L -> Seq(S)] :
        g[0] = none /\ \A d \in 1..L : g[d] = F[d][g[d - 1]]
  <2> HIDE DEF F
  <2>1. F \in Steps(L, Seq(S))
    BY <1>2 DEF Steps
  <2>2. Runs(F, none, L, Seq(S)) # {}
    BY <1>1, <2>1, Iterates
  <2> QED
    BY <2>2 DEF Runs
<1>6. \A d \in 1..L : g[d] = g[d - 1] \o parts[d]
  <2> TAKE d \in 1..L
  <2>1. d - 1 \in 0..L
    BY <1>1
  <2>2. g[d - 1] \in Seq(S)
    BY <2>1, <1>5
  <2>3. g[d] = F[d][g[d - 1]]
    BY <1>5
  <2> QED
    BY <2>2, <2>3
<1>7. Loop(g)
  <2> HIDE DEF F
  <2>1. g[0] = <<>>
    BY <1>3, <1>5
  <2>2. g = [k \in 0..L |-> g[k]]
    BY <1>5
  <2>3. ASSUME NEW k \in 0..L
        PROVE  g[k] = IF k = 0 THEN <<>> ELSE g[k - 1] \o parts[k]
    <3>1. CASE k = 0
      BY <3>1, <2>1
    <3>2. CASE k # 0
      <4>1. k \in 1..L
        BY <3>2, <1>1
      <4> QED
        BY <3>2, <4>1, <1>6
    <3> QED
      BY <3>1, <3>2
  <2> QED
    BY <2>2, <2>3
<1>8. Loop(f)
  <2> HIDE DEF Loop
  <2> QED
    BY <1>7
<1> HIDE DEF f, F
<1>10. f = [k \in 0..L |-> f[k]] /\ f[0] = <<>>
  BY <1>1, <1>8
<1>11. ASSUME NEW k \in 1..L PROVE f[k] = f[k - 1] \o parts[k]
  <2>1. k \in 0..L /\ k # 0
    BY <1>1
  <2> QED
    BY <2>1, <1>8
<1> HIDE DEF Loop
<1> DEFINE P == {k \in 0..L : f[k] \in Seq(S)}
<1>12. P = 0..L
  <2>1. 0 \in P
    <3>1. f[0] = none /\ 0 \in 0..L
      BY <1>1, <1>10, <1>3
    <3> QED
      BY <3>1
  <2>2. ASSUME NEW d \in 1..L, d - 1 \in P PROVE d \in P
    <3>1. f[d - 1] \in Seq(S) /\ parts[d] \in Seq(S) /\ d \in 0..L
      BY <2>2, <1>1
    <3>2. f[d] = f[d - 1] \o parts[d]
      BY <1>11
    <3>3. f[d - 1] \o parts[d] \in Seq(S)
      BY <3>1, ConcatProperties
    <3> QED
      BY <3>1, <3>2, <3>3
  <2>3. P \in SUBSET (0..L)
    OBVIOUS
  <2> HIDE DEF P
  <2> QED
    BY <1>1, <2>1, <2>2, <2>3, Throughout
<1>13. f \in [0..L -> Seq(S)]
  <2>1. \A k \in 0..L : f[k] \in Seq(S)
    BY <1>12
  <2> QED
    BY <1>10, <2>1
<1> QED
  BY <1>9, <1>10, <1>11, <1>13 DEF L

LEMMA JoinedIsSeq ==
  ASSUME NEW S, NEW parts \in Seq(Seq(S))
  PROVE  Joined(parts) \in Seq(S)
<1>1. Len(parts) \in 0..Len(parts)
  BY LenProperties
<1>2. PICK f \in [0..Len(parts) -> Seq(S)] : Joined(parts) = f[Len(parts)]
  BY JoinedLoop
<1> QED
  BY <1>1, <1>2

LEMMA JoinedOfOne ==
  ASSUME NEW S, NEW parts \in Seq(Seq(S)), Len(parts) = 1
  PROVE  Joined(parts) = parts[1]
<1>1. 1 \in 1..Len(parts) /\ 1 - 1 = 0 /\ parts[1] \in Seq(S)
  OBVIOUS
<1>2. PICK f \in [0..Len(parts) -> Seq(S)] :
        /\ f[0] = <<>>
        /\ \A k \in 1..Len(parts) : f[k] = f[k - 1] \o parts[k]
        /\ Joined(parts) = f[Len(parts)]
  BY JoinedLoop
<1>3. f[1] = f[1 - 1] \o parts[1]
  BY <1>1, <1>2
<1>4. Joined(parts) = <<>> \o parts[1]
  BY <1>1, <1>2, <1>3
<1>5. <<>> \o parts[1] = parts[1]
  BY <1>1, ConcatEmptySeq
<1> QED
  BY <1>4, <1>5

LEMMA IdForms ==
  ASSUME NEW a \in Strings
  PROVE  /\ TypeAttr(a) \in Ids /\ FixedType(a) \in Ids
         /\ \A k \in Int : TypeAttrAt(a, k) \in Ids
<1> DEFINE All == [attr_name : Strings, type_index : Int, fixed_type : Strings]
<1>1. TypeAttr(a) \in All /\ TypeAttr(a).fixed_type = "invalid"
  <2>1. "invalid" \in Strings
    BY DEF Strings
  <2> QED
    BY <2>1 DEF TypeAttr, kSingleType
<1>2. FixedType(a) \in All /\ FixedType(a).attr_name = ""
  <2>1. "" \in Strings
    BY DEF Strings
  <2>2. FixedType(a) \in All
    <3>1. PICK e \in Strings : e = ""
      BY <2>1
    <3>2. FixedType(a) = [attr_name |-> e, type_index |-> -1, fixed_type |-> a]
      BY <3>1 DEF FixedType, kSingleType
    <3>3. [attr_name |-> e, type_index |-> -1, fixed_type |-> a] \in All
      OBVIOUS
    <3> QED
      BY <3>2, <3>3
  <2>3. FixedType(a).attr_name = ""
    BY DEF FixedType
  <2> QED
    BY <2>2, <2>3
<1>3. \A k \in Int : TypeAttrAt(a, k) \in All /\ TypeAttrAt(a, k).fixed_type = "invalid"
  <2>1. "invalid" \in Strings
    BY DEF Strings
  <2> QED
    BY <2>1 DEF TypeAttrAt
<1>4. \A id \in All : id.fixed_type = "invalid" \/ id.attr_name = "" => id \in Ids
  BY DEF Ids
<1> HIDE DEF All
<1> QED
  BY <1>1, <1>2, <1>3, <1>4

LEMMA ListPorts ==
  ASSUME NEW a \in Strings, NEW n \in Nat
  PROVE  [k \in 1..n |-> TypeAttrAt(a, k)] \in Seq(Ids)
<1>1. \A k \in 1..n : k \in Int
  OBVIOUS
<1>2. \A k \in 1..n : TypeAttrAt(a, k) \in Ids
  BY <1>1, IdForms
<1> DEFINE f == [k \in 1..n |-> TypeAttrAt(a, k)]
<1>3. f \in [1..n -> Ids]
  BY <1>2
<1> HIDE DEF f
<1>4. f \in Seq(Ids)
  BY <1>3, SeqDef
<1> QED
  BY <1>4 DEF f

LEMMA ArgPorts ==
  ASSUME NEW node, HasValues(node.attr), NEW arg \in ArgDef,
         arg.type_list_attr \in DOMAIN node.attr \cup {""}
  PROVE  ArgDefIndexes(node, arg) \in Seq(Ids)
<1>1. CASE arg.type_list_attr # ""
  <2> DEFINE a == arg.type_list_attr
             n == Len(node.attr[a].value)
  <2>1. a \in Strings /\ a # "" /\ n \in Nat
    <3>1. a \in Strings /\ a # "" /\ a \in DOMAIN node.attr
      BY <1>1 DEF ArgDef
    <3>2. node.attr[a].value \in Seq(Strings)
      BY <3>1 DEF HasValues
    <3> HIDE DEF a
    <3> QED
      BY <3>1, <3>2, LenProperties
  <2>2. ArgDefIndexes(node, arg) = [k \in 1..n |-> TypeAttrAt(a, k)]
    BY <1>1 DEF ArgDefIndexes
  <2> QED
    BY <2>1, <2>2, ListPorts
<1>2. CASE arg.type_list_attr = ""
  <2> DEFINE n == IF arg.number_attr \in DOMAIN node.attr
                  THEN node.attr[arg.number_attr].i ELSE 1
             id == IF arg.type_attr # "" THEN TypeAttr(arg.type_attr)
                                         ELSE FixedType(arg.type)
             f == [k \in 1..n |-> id]
  <2>1. n \in Nat
    BY DEF HasValues
  <2>2. ArgDefIndexes(node, arg) = f
    BY <1>2 DEF ArgDefIndexes
  <2>3. id \in Ids
    <3>1. arg.type_attr \in Strings /\ arg.type \in Strings
      BY DEF ArgDef
    <3> QED
      BY <3>1, IdForms
  <2> HIDE DEF n, id
  <2>4. f \in [1..n -> Ids]
    BY <2>3
  <2> HIDE DEF f
  <2>5. f \in Seq(Ids)
    BY <2>1, <2>4, SeqDef
  <2> QED
    BY <2>2, <2>5
<1> QED
  BY <1>1, <1>2

LEMMA PortsAreIds ==
  ASSUME NEW node, HasValues(node.attr), NEW args \in Seq(ArgDef),
         ListAttrsPresent(node, args)
  PROVE  PortTypes(node, args) \in Seq(Ids)
<1> DEFINE n == Len(args)
           parts == [k \in DOMAIN args |-> ArgDefIndexes(node, args[k])]
<1>1. n \in Nat /\ DOMAIN args = 1..n
  OBVIOUS
<1>2. ASSUME NEW k \in 1..n PROVE ArgDefIndexes(node, args[k]) \in Seq(Ids)
  <2>1. args[k] \in ArgDef
    OBVIOUS
  <2>2. args[k].type_list_attr \in DOMAIN node.attr \cup {""}
    BY <1>1 DEF ListAttrsPresent
  <2> QED
    BY <2>1, <2>2, ArgPorts
<1> HIDE DEF n
<1>3. parts \in [1..n -> Seq(Ids)]
  BY <1>1, <1>2
<1>4. PortTypes(node, args) = Joined(parts)
  BY DEF PortTypes
<1> HIDE DEF parts
<1>5. parts \in Seq(Seq(Ids))
  BY <1>1, <1>3
<1> QED
  BY <1>4, <1>5, JoinedIsSeq

(* What a node that fits its op definition has at its ports. *)
LEMMA NodePorts ==
  ASSUME NEW node, HasValues(node.attr), AddNode(node) = "OK"
  PROVE  /\ node.op \in DOMAIN OpDefs
         /\ ListAttrsPresent(node, OpDefs[node.op].input_arg)
         /\ ListAttrsPresent(node, OpDefs[node.op].output_arg)
         /\ InputPortTypes(node) \in Seq(Ids)
         /\ OutputPortTypes(node) \in Seq(Ids)
         /\ GetTypeAttrs(node) \subseteq Ids
         /\ Len(node.input) = Len(InputPortTypes(node))
<1>1. /\ node.op \in DOMAIN OpDefs
      /\ ListAttrsPresent(node, OpDefs[node.op].input_arg)
      /\ ListAttrsPresent(node, OpDefs[node.op].output_arg)
      /\ Len(node.input) = Len(InputPortTypes(node))
  BY DEF AddNode
<1>2. /\ OpDefs[node.op].input_arg \in Seq(ArgDef)
      /\ OpDefs[node.op].output_arg \in Seq(ArgDef)
  BY <1>1, OpsAssumption
<1>3. InputPortTypes(node) \in Seq(Ids) /\ OutputPortTypes(node) \in Seq(Ids)
  BY <1>1, <1>2, PortsAreIds DEF InputPortTypes, OutputPortTypes
<1>4. GetTypeAttrs(node) \subseteq Ids
  <2>1. Range(InputPortTypes(node)) \subseteq Ids /\ Range(OutputPortTypes(node)) \subseteq Ids
    BY <1>3 DEF Range
  <2>2. \A a \in DOMAIN node.attr : TypeAttr(a) \in Ids
    BY IdForms DEF HasValues
  <2>3. \A a \in DOMAIN node.attr : \A k \in DOMAIN node.attr[a].value :
          TypeAttrAt(a, k) \in Ids
    <3> TAKE a \in DOMAIN node.attr
    <3> DEFINE s == node.attr[a].value
    <3>1. a \in Strings /\ s \in Seq(Strings)
      BY DEF HasValues
    <3>2. \A k \in DOMAIN s : k \in Int
      <4> HIDE DEF s
      <4> QED
        BY <3>1
    <3> QED
      BY <3>1, <3>2, IdForms
  <2>4. \A kind : AttrsOfKind(node, kind) \subseteq DOMAIN node.attr
    BY DEF AttrsOfKind
  <2>5. {TypeAttr(a) : a \in AttrsOfKind(node, "type")} \subseteq Ids
    BY <2>2, <2>4
  <2>6. UNION {{TypeAttrAt(a, k) : k \in DOMAIN node.attr[a].value} :
                 a \in AttrsOfKind(node, "list(type)")} \subseteq Ids
    BY <2>3, <2>4
  <2> QED
    BY <2>1, <2>5, <2>6 DEF GetTypeAttrs
<1> QED
  BY <1>1, <1>3, <1>4

(* The ports depend on the attributes, but not on the types they give.     *)
Alike(attr, other) ==
  /\ DOMAIN other = DOMAIN attr
  /\ \A a \in DOMAIN attr : /\ other[a].i = attr[a].i
                            /\ Len(other[a].value) = Len(attr[a].value)
                            /\ DOMAIN other[a].value = DOMAIN attr[a].value

LEMMA SamePorts ==
  ASSUME NEW x, NEW y, y.op = x.op, Alike(x.attr, y.attr),
         HasValues(x.attr), AddNode(x) = "OK"
  PROVE  /\ InputPortTypes(y) = InputPortTypes(x)
         /\ OutputPortTypes(y) = OutputPortTypes(x)
         /\ GetTypeAttrs(y) = GetTypeAttrs(x)
<1>1. /\ x.op \in DOMAIN OpDefs
      /\ ListAttrsPresent(x, OpDefs[x.op].input_arg)
      /\ ListAttrsPresent(x, OpDefs[x.op].output_arg)
  BY NodePorts
<1>2. ASSUME NEW args, ListAttrsPresent(x, args)
      PROVE  PortTypes(y, args) = PortTypes(x, args)
  <2>1. ASSUME NEW k \in DOMAIN args
        PROVE  ArgDefIndexes(y, args[k]) = ArgDefIndexes(x, args[k])
    <3>1. args[k].type_list_attr \in DOMAIN x.attr \cup {""}
      BY <1>2 DEF ListAttrsPresent
    <3>2. CASE args[k].type_list_attr # ""
      <4>1. Len(y.attr[args[k].type_list_attr].value)
              = Len(x.attr[args[k].type_list_attr].value)
        BY <3>1, <3>2 DEF Alike
      <4> QED
        BY <3>2, <4>1 DEF ArgDefIndexes
    <3>3. CASE args[k].type_list_attr = ""
      <4>1. (IF args[k].number_attr \in DOMAIN y.attr
             THEN y.attr[args[k].number_attr].i ELSE 1)
            = (IF args[k].number_attr \in DOMAIN x.attr
               THEN x.attr[args[k].number_attr].i ELSE 1)
        BY DEF Alike
      <4> QED
        BY <3>3, <4>1 DEF ArgDefIndexes
    <3> QED
      BY <3>2, <3>3
  <2>2. [k \in DOMAIN args |-> ArgDefIndexes(y, args[k])]
          = [k \in DOMAIN args |-> ArgDefIndexes(x, args[k])]
    BY <2>1
  <2> QED
    BY <2>2, Zenon DEF PortTypes
<1>3. /\ InputPortTypes(y) = InputPortTypes(x)
      /\ OutputPortTypes(y) = OutputPortTypes(x)
  BY <1>1, <1>2 DEF InputPortTypes, OutputPortTypes
<1>4. GetTypeAttrs(y) = GetTypeAttrs(x)
  <2>1. \A kind : AttrsOfKind(y, kind) = AttrsOfKind(x, kind)
    BY DEF AttrsOfKind, Alike
  <2>2. \A a \in AttrsOfKind(x, "list(type)") : DOMAIN y.attr[a].value = DOMAIN x.attr[a].value
    BY DEF AttrsOfKind, Alike
  <2> QED
    BY <1>3, <2>1, <2>2 DEF GetTypeAttrs
<1> QED
  BY <1>3, <1>4

-----------------------------------------------------------------------------
(* Types.                                                                  *)

FloatIds(node) == {id \in Ids : GetDataType(node, id) = "float"}

(* What SetDataTypes makes of an attribute. *)
LEMMA NewValues ==
  ASSUME NEW attr, HasValues(attr), NEW P, NEW type \in Strings
  PROVE  LET new == SetDataTypes(attr, P, type)
         IN  /\ HasValues(new)
             /\ Alike(attr, new)
             /\ \A a \in DOMAIN attr :
                  /\ new[a].kind = attr[a].kind
                  /\ \A k \in DOMAIN attr[a].value :
                       new[a].value[k] =
                         IF TypeAttr(a) \in P \/ TypeAttrAt(a, k) \in P
                         THEN type ELSE attr[a].value[k]
<1> DEFINE new == SetDataTypes(attr, P, type)
           Value(a) == [k \in DOMAIN attr[a].value |->
                          IF TypeAttr(a) \in P \/ TypeAttrAt(a, k) \in P
                          THEN type ELSE attr[a].value[k]]
<1>1. new = [a \in DOMAIN attr |-> [attr[a] EXCEPT !.value = Value(a)]]
  BY DEF SetDataTypes
<1>2. \A a \in DOMAIN attr : attr[a] \in [kind : Strings, value : Seq(Strings), i : Nat]
  BY DEF HasValues
<1>3. ASSUME NEW a \in DOMAIN attr
      PROVE  /\ Value(a) \in Seq(Strings)
             /\ DOMAIN Value(a) = DOMAIN attr[a].value
             /\ Len(Value(a)) = Len(attr[a].value)
             /\ \A k \in DOMAIN attr[a].value :
                  Value(a)[k] = IF TypeAttr(a) \in P \/ TypeAttrAt(a, k) \in P
                                THEN type ELSE attr[a].value[k]
  <2> DEFINE v == attr[a].value
             w == Value(a)
  <2>1. v \in Seq(Strings)
    BY <1>2
  <2>2. PICK n \in Nat : n = Len(v) /\ DOMAIN v = 1..n
    <3> HIDE DEF v
    <3> QED
      BY <2>1, LenProperties
  <2>3. \A k \in 1..n : v[k] \in Strings
    <3> HIDE DEF v
    <3> QED
      BY <2>1, <2>2
  <2>4. w = [k \in 1..n |-> IF TypeAttr(a) \in P \/ TypeAttrAt(a, k) \in P
                            THEN type ELSE v[k]]
    BY <2>2
  <2> HIDE DEF v, w
  <2>5. w \in [1..n -> Strings]
    BY <2>3, <2>4
  <2>6. w \in Seq(Strings) /\ Len(w) = n /\ DOMAIN w = 1..n
    BY <2>5, SeqDef
  <2>8. \A k \in 1..n : w[k] = IF TypeAttr(a) \in P \/ TypeAttrAt(a, k) \in P
                                THEN type ELSE v[k]
    BY <2>4
  <2>9. /\ w \in Seq(Strings) /\ DOMAIN w = DOMAIN v /\ Len(w) = Len(v)
        /\ \A k \in DOMAIN v : w[k] = IF TypeAttr(a) \in P \/ TypeAttrAt(a, k) \in P
                                       THEN type ELSE v[k]
    BY <2>2, <2>6, <2>8
  <2> QED
    BY <2>9 DEF v, w
<1> HIDE DEF Value
<1>4. DOMAIN new = DOMAIN attr
  BY <1>1
<1>5. ASSUME NEW a \in DOMAIN attr
      PROVE  new[a] = [kind |-> attr[a].kind, value |-> Value(a), i |-> attr[a].i]
  <2>1. new[a] = [attr[a] EXCEPT !.value = Value(a)]
    BY <1>1
  <2> QED
    BY <1>2, <2>1
<1> HIDE DEF new
<1>6. HasValues(new)
  <2>1. DOMAIN new \subseteq Strings \ {""} /\ IsFiniteSet(DOMAIN new)
    BY <1>4 DEF HasValues
  <2>2. ASSUME NEW a \in DOMAIN new
        PROVE  /\ new[a] \in [kind : Strings, value : Seq(Strings), i : Nat]
               /\ new[a].kind = "type" => Len(new[a].value) = 1 /\ new[a].i = 0
    <3>1. /\ a \in DOMAIN attr
          /\ attr[a].kind = "type" => Len(attr[a].value) = 1 /\ attr[a].i = 0
      BY <1>4 DEF HasValues
    <3>2. attr[a].kind \in Strings /\ attr[a].i \in Nat
      BY <1>2, <3>1
    <3>3. Value(a) \in Seq(Strings) /\ Len(Value(a)) = Len(attr[a].value)
      BY <1>3, <3>1
    <3>4. new[a] = [kind |-> attr[a].kind, value |-> Value(a), i |-> attr[a].i]
      BY <1>5, <3>1
    <3>5. new[a] \in [kind : Strings, value : Seq(Strings), i : Nat]
      BY <3>2, <3>3, <3>4
    <3>6. new[a].kind = attr[a].kind /\ new[a].value = Value(a) /\ new[a].i = attr[a].i
      BY <3>4
    <3> QED
      BY <3>1, <3>3, <3>5, <3>6
  <2> QED
    BY <2>1, <2>2 DEF HasValues
<1>7. Alike(attr, new)
  BY <1>3, <1>4, <1>5 DEF Alike
<1>8. ASSUME NEW a \in DOMAIN attr
      PROVE  /\ new[a].kind = attr[a].kind
             /\ \A k \in DOMAIN attr[a].value :
                  new[a].value[k] = IF TypeAttr(a) \in P \/ TypeAttrAt(a, k) \in P
                                    THEN type ELSE attr[a].value[k]
  <2>1. new[a] = [kind |-> attr[a].kind, value |-> Value(a), i |-> attr[a].i]
    BY <1>5
  <2>2. new[a].kind = attr[a].kind /\ new[a].value = Value(a)
    BY <2>1
  <2> QED
    BY <1>3, <2>2
<1> QED
  BY <1>6, <1>7, <1>8 DEF new

(* Changing float type attributes changes these, and no other. *)
LEMMA NewTypes ==
  ASSUME NEW x, NEW y, HasValues(x.attr), NEW P \in SUBSET (FloatIds(x) \cap Settable),
         NEW type \in Strings, y.attr = SetDataTypes(x.attr, P, type),
         NEW id \in Ids
  PROVE  GetDataType(y, id) = IF id \in P THEN type ELSE GetDataType(x, id)
<1> DEFINE a == id.attr_name
<1>1. /\ Alike(x.attr, y.attr)
      /\ \A b \in DOMAIN x.attr :
           /\ y.attr[b].kind = x.attr[b].kind
           /\ \A k \in DOMAIN x.attr[b].value :
                y.attr[b].value[k] =
                  IF TypeAttr(b) \in P \/ TypeAttrAt(b, k) \in P
                  THEN type ELSE x.attr[b].value[k]
  BY NewValues
<1>2. DOMAIN y.attr = DOMAIN x.attr
  BY <1>1 DEF Alike
<1>3. CASE a = ""
  BY <1>3 DEF GetDataType, Settable
<1>4. CASE a # "" /\ a \notin DOMAIN x.attr
  BY <1>2, <1>4 DEF GetDataType, FloatIds
<1>5. CASE a # "" /\ a \in DOMAIN x.attr
  <2> DEFINE v == x.attr[a].value
             w == y.attr[a].value
             kind == x.attr[a].kind
  <2>1. v \in Seq(Strings) /\ (kind = "type" => Len(v) = 1)
    BY <1>5 DEF HasValues
  <2>2. DOMAIN w = DOMAIN v /\ y.attr[a].kind = kind
    BY <1>1, <1>5 DEF Alike
  <2>3. \A k \in DOMAIN v : w[k] = IF TypeAttr(a) \in P \/ TypeAttrAt(a, k) \in P
                                   THEN type ELSE v[k]
    BY <1>1, <1>5
  <2>4. a # "" /\ id.fixed_type = "invalid"
    BY <1>5 DEF Ids
  <2>5. TypeAttr(a) \in P => kind = "type"
    BY <1>5 DEF TypeAttr, GetDataType, FloatIds
  <2>6. \A k \in DOMAIN v : TypeAttrAt(a, k) \in P => kind = "list(type)"
    <3> TAKE k \in DOMAIN v
    <3>1. k # kSingleType
      <4>1. PICK n \in Nat : DOMAIN v = 1..n
        <5> HIDE DEF v
        <5> QED
          BY <2>1, LenProperties
      <4> QED
        BY <4>1 DEF kSingleType
    <3> QED
      BY <1>5, <3>1 DEF TypeAttrAt, GetDataType, FloatIds
  <2>7. GetDataType(x, id) =
          IF id.type_index = kSingleType
          THEN IF kind = "type" THEN v[1] ELSE "invalid"
          ELSE IF kind = "list(type)" /\ id.type_index \in DOMAIN v
          THEN v[id.type_index] ELSE "invalid"
    BY <1>5 DEF GetDataType
  <2>8. GetDataType(y, id) =
          IF id.type_index = kSingleType
          THEN IF kind = "type" THEN w[1] ELSE "invalid"
          ELSE IF kind = "list(type)" /\ id.type_index \in DOMAIN v
          THEN w[id.type_index] ELSE "invalid"
    BY <1>2, <1>5, <2>2 DEF GetDataType
  <2>9. id \in P => GetDataType(x, id) = "float"
    BY DEF FloatIds
  <2>10. CASE id.type_index = kSingleType
    <3>1. id = TypeAttr(a)
      BY <2>4, <2>10 DEF Ids, TypeAttr
    <3>2. kind = "type" => 1 \in DOMAIN v
      <4> HIDE DEF v, kind
      <4> QED
        BY <2>1, EmptySeq, LenProperties
    <3> HIDE DEF a, v, w, kind
    <3> QED
      BY <2>3, <2>5, <2>6, <2>7, <2>8, <2>9, <2>10, <3>1, <3>2
  <2>11. CASE id.type_index # kSingleType
    <3>1. id = TypeAttrAt(a, id.type_index)
      BY <2>4 DEF Ids, TypeAttrAt
    <3> HIDE DEF a, v, w, kind
    <3> QED
      BY <2>3, <2>5, <2>6, <2>7, <2>8, <2>9, <2>11, <3>1
  <2> QED
    BY <2>10, <2>11
<1> QED
  BY <1>3, <1>4, <1>5
-----------------------------------------------------------------------------
(***************************************************************************)
(* The inductive invariant, over graphs and painted vertices as constants. *)
(***************************************************************************)

(* What GraphStatus checks. *)
Fits(S) ==
  /\ IsGraphDef(S)
  /\ \A n \in DOMAIN S : AddNode(S[n]) = "OK"
  /\ \A n \in DOMAIN S : \A k \in DOMAIN S[n].input :
       /\ S[n].input[k].node \in DOMAIN S
       /\ S[n].input[k].port \in DOMAIN OutputPortTypes(S[S[n].input[k].node])

(* The graph that SelectNodes leaves. *)
Convertible(it, x) ==
  x.name \notin it.preserve /\ IsOnDevice(x) /\ x.op \in BatchNormOps

Selected(it) ==
  [n \in DOMAIN it.graph |-> IF Convertible(it, it.graph[n])
                             THEN BatchNormV2(it.graph[n]) ELSE it.graph[n]]

(* What the optimizer is given. *)
ItemFits(it) ==
  /\ {"graph", "preserve"} \subseteq DOMAIN it
  /\ IsGraphDef(it.graph)
  /\ GraphStatus(it.graph) = "OK" => EdgesAgree(it.graph)
  /\ OneBackEdge(it.graph)
  /\ \A n \in DOMAIN it.graph :
       LET x == it.graph[n]
       IN  Convertible(it, x) =>
             /\ AddNode(x) = "OK"
             /\ "U" \notin DOMAIN x.attr
             /\ InputTypes(BatchNormV2(x)) = InputTypes(x)
             /\ OutputTypes(BatchNormV2(x)) = OutputTypes(x)

(* The vertices at the ends of an edge: a port, and an input that reads it. *)
Out(S, i) == <<i.node, OutputPortTypes(S[i.node])[i.port]>>
In(S, d, k) == <<d, InputPortTypes(S[d])[k]>>

IsFloat(S, v) == GetDataType(S[v[1]], v[2]) = "float"

(* An edge that needs a Cast once the vertices of A are painted. *)
Crosses(S, A, d, k) ==
  LET out == Out(S, S[d].input[k])
  IN  IsFloat(S, out) /\ (In(S, d, k) \in A) # (out \in A)

(* The attributes of a node with those in A painted. *)
ToPaint(S, A, d) ==
  {id \in GetTypeAttrs(S[d]) : IsFloat(S, <<d, id>>) /\ <<d, id>> \in A}
Paint(S, A, d) == SetDataTypes(S[d].attr, ToPaint(S, A, d), "bfloat16")

(* A Cast of what a port gives. *)
IsCastOf(S, A, x, i) ==
  LET to_f16 == Out(S, i) \notin A
  IN  x = [name   |-> x.name,
           op     |-> "Cast",
           device |-> x.device,
           attr   |-> [SrcT |-> SingleType(IF to_f16 THEN "float" ELSE "bfloat16"),
                       DstT |-> SingleType(IF to_f16 THEN "bfloat16" ELSE "float")],
           input  |-> <<i>>]

(* A port that ChangeTypeAttrsAndAddCasts has come to, at port p of node n. *)
Reached(i, n, p) == i.node < n \/ (i.node = n /\ i.port <= p)

(* An input of the graph S as it is in g. *)
Read(S, A, g, d, k, n, p) ==
  LET i == S[d].input[k]
  IN  IF Reached(i, n, p) /\ Crosses(S, A, d, k)
      THEN \E c \in (Len(S) + 1)..Len(g) :
             /\ g[d].input[k] = [node |-> c, port |-> 1]
             /\ IsCastOf(S, A, g[c], i)
      ELSE g[d].input[k] = i

(* The graph S with its first m nodes painted, and Casts for the ports     *)
(* before port p of node n and for this one.                               *)
Kept(S, A, g, d, m) ==
  g[d] = [name |-> S[d].name, op |-> S[d].op, device |-> S[d].device,
          attr |-> IF d <= m THEN Paint(S, A, d) ELSE S[d].attr,
          input |-> g[d].input]

InputsKept(S, A, g, d, n, p) ==
  /\ g[d].input \in Seq([node : 1..Len(g), port : Nat \ {0}])
  /\ DOMAIN g[d].input = DOMAIN S[d].input
  /\ Len(g[d].input) = Len(S[d].input)
  /\ \A k \in DOMAIN S[d].input : Read(S, A, g, d, k, n, p)

Added(S, A, x, n, p) ==
  \E a \in DOMAIN S : \E q \in DOMAIN OutputPortTypes(S[a]) :
    LET i == [node |-> a, port |-> q]
    IN  Reached(i, n, p) /\ IsFloat(S, Out(S, i)) /\ IsCastOf(S, A, x, i)

Halfway(S, A, g, m, n, p) ==
  /\ g \in Seq(Range(g))
  /\ Len(g) \in Nat /\ Len(S) <= Len(g) /\ DOMAIN g = 1..Len(g)
  /\ \A d \in DOMAIN S : Kept(S, A, g, d, m) /\ InputsKept(S, A, g, d, n, p)
  /\ \A c \in (Len(S) + 1)..Len(g) : Added(S, A, g[c], n, p)

(* What is painted can be set, and loops agree. *)
CanBeSet(S, v) ==
  GetDataType(S[v[1]], v[2]) = "float" => CanSetDataType(S[v[1]], v[2])

Settled(S, A) == \A v \in A : CanBeSet(S, v)

Paintable(it, S, A) ==
  \A v \in A : S[v[1]].op \in Lists(it.update)["ALLOWLIST"] \/ CanBeSet(S, v)

LoopsAgree(S, A) ==
  \A n \in DOMAIN S : S[n].op = "NextIteration" =>
    \A d \in DOMAIN S : \A k \in DOMAIN S[d].input :
      S[d].input[k] = [node |-> n, port |-> 1] =>
        S[d].op = "Merge" /\ (T(d) \in A <=> T(n) \in A)

InputsRead(old, g) ==
  \A n \in DOMAIN old : \A k \in DOMAIN old[n].input :
    LET i == g[n].input[k]
    IN  /\ old[n].input[k] = IF i.node <= Len(old) THEN i ELSE g[i.node].input[1]
        /\ g[old[n].input[k].node].op = "NextIteration" => i = old[n].input[k]

Finished(it, g) ==
  /\ IsGraphDef(g) /\ EdgesAgree(g) /\ OneBackEdge(g)
  /\ \A n \in DOMAIN g : ~Convertible(it, g[n])
  /\ InputsRead(it.graph, g)

Unpainted == {"options", "types", "lists", "allowlist"}
Painting  == {"deny", "match", "between", "infer", "clear", "fp32"}
Matching  == {"match again", "recurrent", "casts"}

GraphAt ==
  /\ phase = "options" => graph = item.graph
  /\ phase = "types" => graph = Selected(item)
  /\ phase \in {"lists", "allowlist"} \cup Painting \cup Matching =>
       graph = Selected(item) /\ Fits(graph)
  /\ phase \in Unpainted \cup Painting \cup Matching => node_idx = 1

PaintAt ==
  /\ phase \in Unpainted => allow_set = {}
  /\ phase \in Painting => Paintable(item, graph, allow_set)
  /\ phase \in Matching \cup {"change"} => Settled(Selected(item), allow_set)
  /\ phase \in {"casts", "change"} => LoopsAgree(Selected(item), allow_set)

ChangeAt ==
  phase = "change" =>
    /\ Fits(Selected(item)) /\ node_idx \in 1..(Len(item.graph) + 1)
    /\ Halfway(Selected(item), allow_set, graph, node_idx - 1, node_idx, 0)

IInv ==
  /\ ItemFits(item) /\ GraphAt /\ PaintAt /\ ChangeAt
  /\ Done => Finished(item, graph)

(* What is in a graph. *)
LEMMA GraphOf ==
  ASSUME NEW g, IsGraphDef(g)
  PROVE  /\ Len(g) \in Nat /\ DOMAIN g = 1..Len(g)
         /\ \A n \in DOMAIN g : IsNodeDef(g[n], Len(g)) /\ HasValues(g[n].attr)
<1>1. g \in Seq(Range(g))
  BY DEF IsGraphDef
<1>2. Len(g) \in Nat /\ DOMAIN g = 1..Len(g)
  BY <1>1, LenProperties
<1> QED
  BY <1>2 DEF IsGraphDef, IsNodeDef

LEMMA InputOf ==
  ASSUME NEW x, NEW size \in Nat, IsNodeDef(x, size)
  PROVE  /\ Len(x.input) \in Nat /\ DOMAIN x.input = 1..Len(x.input)
         /\ \A k \in DOMAIN x.input :
              /\ x.input[k].node \in 0..size /\ x.input[k].port \in Nat \ {0}
              /\ x.input[k] = [node |-> x.input[k].node, port |-> x.input[k].port]
<1> DEFINE I == [node : 0..size, port : Nat \ {0}]
           s == x.input
<1>1. s \in Seq(I)
  BY DEF IsNodeDef
<1>2. \A i \in I : /\ i.node \in 0..size /\ i.port \in Nat \ {0}
                   /\ i = [node |-> i.node, port |-> i.port]
  OBVIOUS
<1> HIDE DEF I, s
<1>3. Len(s) \in Nat /\ DOMAIN s = 1..Len(s) /\ \A k \in DOMAIN s : s[k] \in I
  BY <1>1
<1>4. \A k \in DOMAIN s : /\ s[k].node \in 0..size /\ s[k].port \in Nat \ {0}
                          /\ s[k] = [node |-> s[k].node, port |-> s[k].port]
  BY <1>2, <1>3
<1> QED
  BY <1>3, <1>4 DEF s

LEMMA FitsMeans ==
  ASSUME NEW S, IsGraphDef(S)
  PROVE  GraphStatus(S) = "OK" <=> Fits(S)
<1> DEFINE nodes == [n \in DOMAIN S |-> AddNode(S[n])]
           wrong == {n \in DOMAIN nodes : nodes[n] # "OK"}
           least == CHOOSE n \in wrong : \A m \in wrong : n <= m
           ins   == UNION {Range(S[n].input) : n \in DOMAIN S}
<1>1. GraphStatus(S) = IF wrong # {} THEN nodes[least]
                       ELSE IF \E i \in ins : i.node = 0 THEN "InvalidArgument"
                       ELSE IF \E i \in ins : i.port > Len(OutputPortTypes(S[i.node]))
                       THEN "aborted" ELSE "OK"
  BY DEF GraphStatus
<1>2. wrong # {} => nodes[least] # "OK"
  <2> SUFFICES ASSUME wrong # {} PROVE nodes[least] # "OK"
    OBVIOUS
  <2>1. wrong \in SUBSET Nat
    BY GraphOf
  <2> HIDE DEF wrong
  <2>2. \E n \in wrong : \A m \in wrong : n <= m
    BY <2>1, LeastNumber
  <2>3. least \in wrong
    BY <2>2
  <2> QED
    BY <2>3 DEF wrong
<1>3. wrong = {} <=> \A n \in DOMAIN S : AddNode(S[n]) = "OK"
  OBVIOUS
<1>4. \A i : i \in ins <=> \E n \in DOMAIN S : \E k \in DOMAIN S[n].input : i = S[n].input[k]
  BY DEF Range
<1> HIDE DEF nodes, wrong, least, ins
<1>5. GraphStatus(S) = "OK" <=>
        /\ \A n \in DOMAIN S : AddNode(S[n]) = "OK"
        /\ \A i \in ins : i.node # 0 /\ ~(i.port > Len(OutputPortTypes(S[i.node])))
  BY <1>1, <1>2, <1>3
<1>6. ASSUME \A n \in DOMAIN S : AddNode(S[n]) = "OK",
             NEW n \in DOMAIN S, NEW k \in DOMAIN S[n].input
      PROVE  LET i == S[n].input[k]
             IN  i.node # 0 /\ ~(i.port > Len(OutputPortTypes(S[i.node])))
                 <=> i.node \in DOMAIN S /\ i.port \in DOMAIN OutputPortTypes(S[i.node])
  <2> DEFINE i == S[n].input[k]
  <2>1. i.node \in 0..Len(S) /\ i.port \in Nat \ {0}
    BY GraphOf, InputOf
  <2>2. DOMAIN S = 1..Len(S) /\ Len(S) \in Nat
    BY GraphOf
  <2>3. CASE i.node = 0
    BY <2>2, <2>3
  <2>4. CASE i.node # 0
    <3>1. i.node \in DOMAIN S
      BY <2>1, <2>2, <2>4
    <3>2. OutputPortTypes(S[i.node]) \in Seq(Ids)
      BY <1>6, <3>1, GraphOf, NodePorts
    <3> DEFINE ports == OutputPortTypes(S[i.node])
    <3> HIDE DEF ports, i
    <3>3. ports \in Seq(Ids)
      BY <3>2 DEF ports
    <3>4. ~(i.port > Len(ports)) <=> i.port \in DOMAIN ports
      BY <2>1, <3>3
    <3> QED
      BY <2>4, <3>1, <3>4 DEF ports, i
  <2> QED
    BY <2>3, <2>4
<1>7. Fits(S) <=> /\ \A n \in DOMAIN S : AddNode(S[n]) = "OK"
                  /\ \A n \in DOMAIN S : \A k \in DOMAIN S[n].input :
                       /\ S[n].input[k].node \in DOMAIN S
                       /\ S[n].input[k].port \in DOMAIN OutputPortTypes(S[S[n].input[k].node])
  BY DEF Fits
<1>8. GraphStatus(S) = "OK" <=>
        /\ \A n \in DOMAIN S : AddNode(S[n]) = "OK"
        /\ \A n \in DOMAIN S : \A k \in DOMAIN S[n].input :
             /\ S[n].input[k].node # 0
             /\ ~(S[n].input[k].port > Len(OutputPortTypes(S[S[n].input[k].node])))
  BY <1>4, <1>5
<1> QED
  BY <1>6, <1>7, <1>8

LEMMA SingleTypeOf ==
  ASSUME NEW t \in Strings
  PROVE  /\ SingleType(t) \in [kind : Strings, value : Seq(Strings), i : Nat]
         /\ SingleType(t).kind = "type"
         /\ SingleType(t).value = <<t>> /\ Len(SingleType(t).value) = 1
         /\ SingleType(t).i = 0
<1>1. PICK kind \in Strings : kind = "type"
  <2>1. "type" \in Strings
    BY DEF Strings
  <2> QED
    BY <2>1
<1>2. PICK v \in Seq(Strings) : v = <<t>>
  <2>1. <<t>> \in Seq(Strings)
    OBVIOUS
  <2> QED
    BY <2>1
<1>3. SingleType(t) = [kind |-> kind, value |-> v, i |-> 0]
  BY <1>1, <1>2 DEF SingleType
<1>4. SingleType(t) \in [kind : Strings, value : Seq(Strings), i : Nat]
  BY <1>3
<1>5. SingleType(t).kind = "type" /\ SingleType(t).value = v /\ SingleType(t).i = 0
  BY <1>1, <1>3
<1>6. Len(v) = 1
  BY <1>2
<1> QED
  BY <1>2, <1>4, <1>5, <1>6

(* What ConvertBatchNormOpsToV2 makes of a node. *)
LEMMA BatchNormOf ==
  ASSUME NEW x, NEW size, IsNodeDef(x, size)
  PROVE  LET y == BatchNormV2(x)
         IN  /\ IsNodeDef(y, size)
             /\ y.name = x.name /\ y.device = x.device /\ y.input = x.input
             /\ y.op \notin BatchNormOps
             /\ y.op \in {"FusedBatchNormV2", "FusedBatchNormGradV2"}
<1> DEFINE y == BatchNormV2(x)
           op == IF x.op = "FusedBatchNorm" THEN "FusedBatchNormV2"
                                            ELSE "FusedBatchNormGradV2"
           attr == [a \in DOMAIN x.attr \cup {"U"} |->
                      IF a = "U" THEN SingleType("float") ELSE x.attr[a]]
<1>1. x = [name |-> x.name, op |-> x.op, device |-> x.device,
           attr |-> x.attr, input |-> x.input]
  BY DEF IsNodeDef
<1>2. y = [name |-> x.name, op |-> op, device |-> x.device,
           attr |-> attr, input |-> x.input]
  <2>1. y = [x EXCEPT !.op = op, !.attr = attr]
    BY <1>1 DEF BatchNormV2
  <2> HIDE DEF op, attr, y
  <2> QED
    BY <1>1, <2>1
<1>3. op \notin BatchNormOps /\ op \in {"FusedBatchNormV2", "FusedBatchNormGradV2"}
  BY DEF BatchNormOps
<1>4. HasValues(attr)
  <2>1. DOMAIN attr \subseteq Strings \ {""} /\ IsFiniteSet(DOMAIN attr)
    <3>1. "U" \in Strings \ {""}
      BY DEF Strings
    <3>2. DOMAIN x.attr \subseteq Strings \ {""} /\ IsFiniteSet(DOMAIN x.attr)
      BY DEF IsNodeDef, HasValues
    <3>3. IsFiniteSet(DOMAIN x.attr \cup {"U"})
      BY <3>2, FS_AddElement
    <3> QED
      BY <3>1, <3>2, <3>3
  <2>2. ASSUME NEW a \in DOMAIN attr
        PROVE  /\ attr[a] \in [kind : Strings, value : Seq(Strings), i : Nat]
               /\ attr[a].kind = "type" => Len(attr[a].value) = 1 /\ attr[a].i = 0
    <3>1. CASE a = "U"
      <4>1. "float" \in Strings
        BY DEF Strings
      <4>2. attr[a] = SingleType("float")
        BY <3>1
      <4> HIDE DEF attr
      <4> QED
        BY <4>1, <4>2, SingleTypeOf
    <3>2. CASE a # "U"
      <4>1. attr[a] = x.attr[a] /\ a \in DOMAIN x.attr
        BY <3>2
      <4> HIDE DEF attr
      <4> QED
        BY <4>1 DEF IsNodeDef, HasValues
    <3> QED
      BY <3>1, <3>2
  <2> HIDE DEF attr
  <2> QED
    BY <2>1, <2>2 DEF HasValues
<1> HIDE DEF op, attr, y
<1>5. /\ y.name = x.name /\ y.op = op /\ y.device = x.device
      /\ y.attr = attr /\ y.input = x.input
      /\ y = [name |-> y.name, op |-> y.op, device |-> y.device,
              attr |-> y.attr, input |-> y.input]
  BY <1>2
<1>6. IsNodeDef(y, size)
  BY <1>4, <1>5 DEF IsNodeDef
<1> QED
  BY <1>3, <1>5, <1>6 DEF y

LEMMA SelectedIsGraphDef ==
  ASSUME NEW it, ItemFits(it)
  PROVE  /\ IsGraphDef(Selected(it))
         /\ DOMAIN Selected(it) = DOMAIN it.graph /\ Len(Selected(it)) = Len(it.graph)
         /\ \A n \in DOMAIN it.graph :
              LET x == it.graph[n]
                  y == Selected(it)[n]
              IN  /\ y.input = x.input /\ y.name = x.name /\ y.device = x.device
                  /\ y.op = "NextIteration" <=> x.op = "NextIteration"
                  /\ ~Convertible(it, y)
<1> DEFINE S == Selected(it)
           g == it.graph
<1>1. Len(g) \in Nat /\ DOMAIN g = 1..Len(g) /\ \A n \in DOMAIN g : IsNodeDef(g[n], Len(g))
  BY GraphOf DEF ItemFits
<1>2. DOMAIN S = 1..Len(g)
  BY <1>1 DEF Selected
<1>3. S \in Seq(Range(S)) /\ Len(S) = Len(g)
  <2>1. S \in [1..Len(g) -> Range(S)]
    <3>1. S = [n \in 1..Len(g) |-> S[n]]
      BY <1>1 DEF Selected
    <3> HIDE DEF S
    <3> QED
      BY <1>2, <3>1 DEF Range
  <2> HIDE DEF S
  <2> QED
    BY <1>1, <2>1, SeqDef
<1>4. ASSUME NEW n \in DOMAIN g
      PROVE  /\ IsNodeDef(S[n], Len(g))
             /\ S[n].input = g[n].input /\ S[n].name = g[n].name
             /\ S[n].device = g[n].device
             /\ S[n].op = "NextIteration" <=> g[n].op = "NextIteration"
             /\ ~Convertible(it, S[n])
  <2>1. CASE Convertible(it, g[n])
    <3>1. S[n] = BatchNormV2(g[n])
      BY <2>1 DEF Selected
    <3>2. /\ IsNodeDef(S[n], Len(g))
          /\ S[n].name = g[n].name /\ S[n].device = g[n].device /\ S[n].input = g[n].input
          /\ S[n].op \notin BatchNormOps
          /\ S[n].op \in {"FusedBatchNormV2", "FusedBatchNormGradV2"}
      <4>1. IsNodeDef(g[n], Len(g))
        BY <1>1
      <4> QED
        BY <3>1, <4>1, BatchNormOf
    <3>3. g[n].op \in BatchNormOps
      BY <2>1 DEF Convertible
    <3> QED
      BY <3>2, <3>3 DEF Convertible, BatchNormOps
  <2>2. CASE ~Convertible(it, g[n])
    <3>1. S[n] = g[n]
      BY <2>2 DEF Selected
    <3> QED
      BY <1>1, <2>2, <3>1
  <2> QED
    BY <2>1, <2>2
<1>5. IsGraphDef(S)
  <2> HIDE DEF S, g
  <2> QED
    BY <1>1, <1>2, <1>3, <1>4 DEF IsGraphDef
<1> QED
  BY <1>1, <1>2, <1>3, <1>4, <1>5

LEMMA SelectedAgrees ==
  ASSUME NEW it, ItemFits(it), Fits(Selected(it))
  PROVE  EdgesAgree(Selected(it)) /\ OneBackEdge(Selected(it))
<1> DEFINE S == Selected(it)
           g == it.graph
<1>1. /\ DOMAIN S = DOMAIN g /\ Len(S) = Len(g)
      /\ \A n \in DOMAIN g : /\ S[n].input = g[n].input
                             /\ S[n].op = "NextIteration" <=> g[n].op = "NextIteration"
  BY SelectedIsGraphDef
<1>2. ASSUME NEW n \in DOMAIN g
      PROVE  /\ InputTypes(S[n]) = InputTypes(g[n])
             /\ OutputTypes(S[n]) = OutputTypes(g[n])
             /\ AddNode(g[n]) = "OK"
  <2>1. CASE Convertible(it, g[n])
    BY <2>1 DEF Selected, ItemFits
  <2>2. CASE ~Convertible(it, g[n])
    <3>1. S[n] = g[n]
      BY <2>2 DEF Selected
    <3>2. AddNode(S[n]) = "OK"
      BY <1>1 DEF Fits
    <3> QED
      BY <3>1, <3>2
  <2> QED
    BY <2>1, <2>2
<1>3. \A x : DOMAIN OutputPortTypes(x) = DOMAIN OutputTypes(x)
  BY DEF OutputTypes
<1>4. IsGraphDef(g)
  BY DEF ItemFits
<1>5. Fits(g)
  <2>1. ASSUME NEW n \in DOMAIN g, NEW k \in DOMAIN g[n].input
        PROVE  /\ g[n].input[k].node \in DOMAIN g
               /\ g[n].input[k].port \in DOMAIN OutputPortTypes(g[g[n].input[k].node])
    <3>1. /\ S[n].input[k].node \in DOMAIN S
          /\ S[n].input[k].port \in DOMAIN OutputPortTypes(S[S[n].input[k].node])
      BY <1>1 DEF Fits
    <3> HIDE DEF S, g
    <3>2. S[n].input[k] = g[n].input[k]
      BY <1>1
    <3> QED
      BY <1>1, <1>2, <1>3, <3>1, <3>2
  <2> HIDE DEF S, g
  <2> QED
    BY <1>2, <1>4, <2>1 DEF Fits
<1>6. EdgesAgree(g)
  <2>1. GraphStatus(g) = "OK"
    BY <1>4, <1>5, FitsMeans
  <2> QED
    BY <2>1 DEF ItemFits
<1>7. EdgesAgree(S)
  <2>1. ASSUME NEW n \in DOMAIN S, NEW k \in DOMAIN S[n].input
        PROVE  InputTypes(S[n])[k] = OutputTypes(S[S[n].input[k].node])[S[n].input[k].port]
    <3>1. InputTypes(g[n])[k] = OutputTypes(g[g[n].input[k].node])[g[n].input[k].port]
      BY <1>1, <1>6 DEF EdgesAgree
    <3>2. g[n].input[k].node \in DOMAIN g
      BY <1>1, <1>5 DEF Fits
    <3> HIDE DEF S, g
    <3> QED
      BY <1>1, <1>2, <3>1, <3>2
  <2> HIDE DEF S
  <2> QED
    BY <2>1 DEF EdgesAgree
<1>8. OneBackEdge(S)
  <2>1. OneBackEdge(g)
    BY DEF ItemFits
  <2> HIDE DEF S, g
  <2> QED
    BY <1>1, <2>1 DEF OneBackEdge
<1> QED
  BY <1>7, <1>8

-----------------------------------------------------------------------------
(* A painted graph.                                                        *)

(* The ports of a node are among its type attributes. *)
LEMMA PortsAreAttrs ==
  ASSUME NEW x
  PROVE  /\ \A k \in DOMAIN InputPortTypes(x) : InputPortTypes(x)[k] \in GetTypeAttrs(x)
         /\ \A p \in DOMAIN OutputPortTypes(x) : OutputPortTypes(x)[p] \in GetTypeAttrs(x)
BY DEF GetTypeAttrs, Range

(* What a node that fits gives and takes. *)
LEMMA NodeOf ==
  ASSUME NEW S, Fits(S), NEW d \in DOMAIN S
  PROVE  /\ HasValues(S[d].attr) /\ AddNode(S[d]) = "OK"
         /\ GetTypeAttrs(S[d]) \subseteq Ids
         /\ InputPortTypes(S[d]) \in Seq(Ids) /\ OutputPortTypes(S[d]) \in Seq(Ids)
         /\ DOMAIN InputPortTypes(S[d]) = DOMAIN S[d].input
<1>1. IsNodeDef(S[d], Len(S)) /\ HasValues(S[d].attr) /\ AddNode(S[d]) = "OK" /\ Len(S) \in Nat
  BY GraphOf DEF Fits
<1>2. /\ GetTypeAttrs(S[d]) \subseteq Ids /\ Len(S[d].input) = Len(InputPortTypes(S[d]))
      /\ InputPortTypes(S[d]) \in Seq(Ids) /\ OutputPortTypes(S[d]) \in Seq(Ids)
  BY <1>1, NodePorts
<1>3. DOMAIN S[d].input = 1..Len(S[d].input)
  BY <1>1, InputOf
<1>4. DOMAIN InputPortTypes(S[d]) = 1..Len(InputPortTypes(S[d]))
  BY <1>2, LenProperties
<1> QED
  BY <1>1, <1>2, <1>3, <1>4

(* A painted node has the ports of the node, and their types but for those *)
(* that are painted.                                                       *)
LEMMA PaintedNode ==
  ASSUME NEW S, Fits(S), NEW A, Settled(S, A), NEW d \in DOMAIN S,
         NEW x, x.op = S[d].op, x.attr = Paint(S, A, d)
  PROVE  /\ HasValues(x.attr)
         /\ InputPortTypes(x) = InputPortTypes(S[d])
         /\ OutputPortTypes(x) = OutputPortTypes(S[d])
         /\ GetTypeAttrs(x) = GetTypeAttrs(S[d])
         /\ \A id \in GetTypeAttrs(S[d]) :
              GetDataType(x, id) = IF IsFloat(S, <<d, id>>) /\ <<d, id>> \in A
                                   THEN "bfloat16" ELSE GetDataType(S[d], id)
<1> DEFINE P == ToPaint(S, A, d)
<1>1. /\ HasValues(S[d].attr) /\ AddNode(S[d]) = "OK" /\ GetTypeAttrs(S[d]) \subseteq Ids
  BY NodeOf
<1>2. P \subseteq FloatIds(S[d]) \cap Settable
  <2> SUFFICES ASSUME NEW id \in P PROVE id \in FloatIds(S[d]) /\ id \in Settable
    OBVIOUS
  <2>1. id \in Ids /\ GetDataType(S[d], id) = "float" /\ <<d, id>> \in A
    BY <1>1 DEF ToPaint, IsFloat
  <2>2. CanSetDataType(S[d], id)
    BY <2>1 DEF Settled, CanBeSet
  <2>3. id.attr_name # ""
    BY <1>1, <2>2 DEF CanSetDataType, HasValues
  <2> QED
    BY <2>1, <2>3 DEF FloatIds, Settable
<1>3. PICK type \in Strings : type = "bfloat16"
  <2>1. "bfloat16" \in Strings
    BY DEF Strings
  <2> QED
    BY <2>1
<1>4. x.attr = SetDataTypes(S[d].attr, P, type)
  BY <1>3 DEF Paint
<1> HIDE DEF P
<1>5. HasValues(x.attr) /\ Alike(S[d].attr, x.attr)
  BY <1>1, <1>4, NewValues
<1>6. /\ InputPortTypes(x) = InputPortTypes(S[d])
      /\ OutputPortTypes(x) = OutputPortTypes(S[d])
      /\ GetTypeAttrs(x) = GetTypeAttrs(S[d])
  BY <1>1, <1>5, SamePorts
<1>7. \A id \in GetTypeAttrs(S[d]) :
        GetDataType(x, id) = IF id \in P THEN "bfloat16" ELSE GetDataType(S[d], id)
  BY <1>1, <1>2, <1>3, <1>4, NewTypes
<1>8. \A id \in GetTypeAttrs(S[d]) :
        id \in P <=> IsFloat(S, <<d, id>>) /\ <<d, id>> \in A
  BY DEF P, ToPaint
<1> QED
  BY <1>5, <1>6, <1>7, <1>8

-----------------------------------------------------------------------------
(* ChangeTypeAttrsAndAddCasts.                                             *)

(* On the way, a node is what it was but for types and inputs. *)
LEMMA HalfwayNode ==
  ASSUME NEW S, Fits(S), NEW A, Settled(S, A), NEW g, NEW m, NEW n, NEW p,
         Halfway(S, A, g, m, n, p), NEW d \in DOMAIN S
  PROVE  /\ InputPortTypes(g[d]) = InputPortTypes(S[d])
         /\ OutputPortTypes(g[d]) = OutputPortTypes(S[d])
         /\ GetTypeAttrs(g[d]) = GetTypeAttrs(S[d])
         /\ g[d].name = S[d].name /\ g[d].op = S[d].op /\ g[d].device = S[d].device
         /\ g[d].attr = (IF d <= m THEN Paint(S, A, d) ELSE S[d].attr)
         /\ HasValues(g[d].attr)
<1>1. Kept(S, A, g, d, m)
  BY DEF Halfway
<1>2. /\ g[d].name = S[d].name /\ g[d].op = S[d].op /\ g[d].device = S[d].device
      /\ g[d].attr = (IF d <= m THEN Paint(S, A, d) ELSE S[d].attr)
  <2> DEFINE attr == IF d <= m THEN Paint(S, A, d) ELSE S[d].attr
  <2>1. g[d] = [name |-> S[d].name, op |-> S[d].op, device |-> S[d].device,
                attr |-> attr, input |-> g[d].input]
    BY <1>1 DEF Kept
  <2> HIDE DEF attr
  <2>2. g[d].name = S[d].name /\ g[d].op = S[d].op /\ g[d].device = S[d].device
        /\ g[d].attr = attr
    BY <2>1
  <2> QED
    BY <2>2 DEF attr
<1>3. CASE d <= m
  BY <1>2, <1>3, PaintedNode
<1>4. CASE ~(d <= m)
  <2>1. HasValues(S[d].attr) /\ AddNode(S[d]) = "OK"
    BY NodeOf
  <2>2. g[d].attr = S[d].attr
    BY <1>2, <1>4
  <2>3. Alike(S[d].attr, g[d].attr)
    BY <2>2 DEF Alike
  <2> QED
    BY <1>2, <2>1, <2>2, <2>3, SamePorts
<1> QED
  BY <1>3, <1>4

(* What reads a port of the node that is next. *)
LEMMA FanoutIs ==
  ASSUME NEW S, Fits(S), NEW A, NEW n \in DOMAIN S, NEW m,
         Halfway(S, A, graph, m, n, 0), NEW p \in Nat \ {0}
  PROVE  /\ \A d \in DOMAIN S : \A k \in DOMAIN S[d].input :
              <<d, k>> \in Fanout(n, p) <=> S[d].input[k] = [node |-> n, port |-> p]
         /\ \A v \in Fanout(n, p) :
              v[1] \in DOMAIN S /\ v[2] \in DOMAIN S[v[1]].input /\ v = <<v[1], v[2]>>
<1> DEFINE L == Len(S)
<1>1. L \in Nat /\ DOMAIN S = 1..L /\ \A d \in DOMAIN S : IsNodeDef(S[d], L)
  BY GraphOf DEF Fits
<1>2. Len(graph) \in Nat /\ L <= Len(graph) /\ DOMAIN graph = 1..Len(graph)
  BY DEF Halfway
<1>3. \A v : v \in Fanout(n, p) <=>
        \E d \in DOMAIN graph : \E k \in DOMAIN graph[d].input :
          v = <<d, k>> /\ graph[d].input[k] = [node |-> n, port |-> p]
  BY DEF Fanout
<1>4. ASSUME NEW d \in DOMAIN S, NEW k \in DOMAIN S[d].input
      PROVE  /\ d \in DOMAIN graph /\ k \in DOMAIN graph[d].input
             /\ graph[d].input[k] = [node |-> n, port |-> p]
                  <=> S[d].input[k] = [node |-> n, port |-> p]
  <2> DEFINE i == S[d].input[k]
  <2>1. i.node \in Nat /\ i.port \in Nat \ {0}
    <3>1. IsNodeDef(S[d], L) /\ L \in Nat
      BY <1>1
    <3>2. i.node \in 0..L /\ i.port \in Nat \ {0}
      BY <3>1, InputOf
    <3> QED
      BY <3>1, <3>2
  <2>2. Read(S, A, graph, d, k, n, 0) /\ k \in DOMAIN graph[d].input
    BY DEF Halfway, InputsKept
  <2>3. n \in 1..L
    BY <1>1
  <2>4. CASE Reached(i, n, 0) /\ Crosses(S, A, d, k)
    <3>1. PICK c \in (L + 1)..Len(graph) : graph[d].input[k] = [node |-> c, port |-> 1]
      BY <2>2, <2>4 DEF Read
    <3>2. c # n
      BY <1>1, <2>3
    <3>3. graph[d].input[k].node = c /\ [node |-> n, port |-> p].node = n
      BY <3>1
    <3>4. i.node # n
      BY <2>1, <2>3, <2>4 DEF Reached
    <3> QED
      BY <1>1, <1>2, <2>2, <3>2, <3>3, <3>4
  <2>5. CASE ~(Reached(i, n, 0) /\ Crosses(S, A, d, k))
    <3>1. graph[d].input[k] = i
      BY <2>2, <2>5 DEF Read
    <3> QED
      BY <1>1, <1>2, <2>2, <3>1
  <2> QED
    BY <2>4, <2>5
<1>5. ASSUME NEW d \in DOMAIN graph, NEW k \in DOMAIN graph[d].input,
             graph[d].input[k] = [node |-> n, port |-> p]
      PROVE  d \in DOMAIN S /\ k \in DOMAIN S[d].input
  <2>1. CASE d \in DOMAIN S
    BY <2>1 DEF Halfway, InputsKept
  <2>2. CASE d \notin DOMAIN S
    <3>1. d \in (L + 1)..Len(graph)
      BY <1>1, <1>2, <2>2
    <3>0. PICK a \in DOMAIN S : \E q \in DOMAIN OutputPortTypes(S[a]) :
            LET i == [node |-> a, port |-> q]
            IN  Reached(i, n, 0) /\ IsCastOf(S, A, graph[d], i)
      BY <3>1 DEF Halfway, Added
    <3>2. PICK q \in DOMAIN OutputPortTypes(S[a]) :
            LET i == [node |-> a, port |-> q]
            IN  Reached(i, n, 0) /\ IsCastOf(S, A, graph[d], i)
      BY <3>0
    <3> DEFINE i == [node |-> a, port |-> q]
    <3>3. graph[d].input = <<i>>
      <4>1. IsCastOf(S, A, graph[d], i)
        BY <3>2
      <4> HIDE DEF i
      <4> QED
        BY <4>1 DEF IsCastOf
    <3>4. k = 1 /\ graph[d].input[k] = i
      <4> HIDE DEF i
      <4>1. DOMAIN <<i>> = {1} /\ <<i>>[1] = i
        OBVIOUS
      <4> QED
        BY <3>3, <4>1
    <3>5. i.node = n
      BY <1>5, <3>4
    <3>6. q \in Nat \ {0}
      <4>1. OutputPortTypes(S[a]) \in Seq(Ids)
        BY NodeOf
      <4> QED
        BY <4>1, LenProperties
    <3>7. Reached(i, n, 0) /\ i.port = q
      BY <3>2
    <3>8. FALSE
      BY <1>1, <3>5, <3>6, <3>7 DEF Reached
    <3> QED
      BY <3>8
  <2> QED
    BY <2>1, <2>2
<1>6. ASSUME NEW d \in DOMAIN S, NEW k \in DOMAIN S[d].input
      PROVE  <<d, k>> \in Fanout(n, p) <=> S[d].input[k] = [node |-> n, port |-> p]
  <2>1. <<d, k>> \in Fanout(n, p) <=> graph[d].input[k] = [node |-> n, port |-> p]
    BY <1>3, <1>4
  <2> QED
    BY <1>4, <2>1
<1>7. \A v \in Fanout(n, p) :
        v[1] \in DOMAIN S /\ v[2] \in DOMAIN S[v[1]].input /\ v = <<v[1], v[2]>>
  <2> SUFFICES ASSUME NEW v \in Fanout(n, p)
               PROVE  v[1] \in DOMAIN S /\ v[2] \in DOMAIN S[v[1]].input /\ v = <<v[1], v[2]>>
    OBVIOUS
  <2>0. PICK d \in DOMAIN graph : \E k \in DOMAIN graph[d].input :
          v = <<d, k>> /\ graph[d].input[k] = [node |-> n, port |-> p]
    BY <1>3
  <2>1. PICK k \in DOMAIN graph[d].input :
          v = <<d, k>> /\ graph[d].input[k] = [node |-> n, port |-> p]
    BY <2>0
  <2>2. d \in DOMAIN S /\ k \in DOMAIN S[d].input
    BY <1>5, <2>1
  <2> QED
    BY <2>1, <2>2
<1> QED
  BY <1>6, <1>7

(* The readers of a port of the node that is next that need a Cast, and    *)
(* the Cast.                                                               *)
LEMMA CrossingIs ==
  ASSUME NEW S, Fits(S), Settled(S, allow_set), NEW n \in DOMAIN S,
         Halfway(S, allow_set, graph, n - 1, n, 0),
         NEW p \in DOMAIN OutputPortTypes(S[n]), NEW i, i = [node |-> n, port |-> p]
  PROVE  /\ Crossing(n, p) # {} => IsFloat(S, Out(S, i))
         /\ \A d \in DOMAIN S : \A k \in DOMAIN S[d].input :
              <<d, k>> \in Crossing(n, p)
                <=> S[d].input[k] = i /\ Crosses(S, allow_set, d, k)
         /\ \A v \in Crossing(n, p) : v[1] \in DOMAIN S
         /\ IsCastOf(S, allow_set, CastOf(n, p), i)
<1> DEFINE A == allow_set
           id == OutputPortTypes(S[n])[p]
<1>1. n \in Nat /\ p \in Nat \ {0}
  <2>1. n \in Nat
    BY GraphOf DEF Fits
  <2>2. OutputPortTypes(S[n]) \in Seq(Ids)
    BY NodeOf
  <2> QED
    BY <2>1, <2>2, LenProperties
<1>2. /\ OutputPortTypes(graph[n]) = OutputPortTypes(S[n])
      /\ GetTypeAttrs(graph[n]) = GetTypeAttrs(S[n])
      /\ graph[n].attr = S[n].attr
  BY <1>1, HalfwayNode
<1>3. id \in FloatAttrs(n) <=> IsFloat(S, <<n, id>>)
  <2>1. id \in GetTypeAttrs(S[n])
    BY PortsAreAttrs
  <2>2. GetDataType(graph[n], id) = GetDataType(S[n], id)
    BY <1>2 DEF GetDataType
  <2> QED
    BY <1>2, <2>1, <2>2 DEF FloatAttrs, IsFloat, IsFloat32
<1>4. Out(S, i) = <<n, id>>
  BY DEF Out
<1>5. /\ \A d \in DOMAIN S : \A k \in DOMAIN S[d].input :
           <<d, k>> \in Fanout(n, p) <=> S[d].input[k] = i
      /\ \A v \in Fanout(n, p) : v[1] \in DOMAIN S
  BY <1>1, FanoutIs
<1>6. Crossing(n, p) = IF id \notin FloatAttrs(n) THEN {}
        ELSE {d \in Fanout(n, p) : (InputVertex(d[1], d[2]) \in A) # (<<n, id>> \in A)}
  BY <1>2 DEF Crossing
<1>7. ASSUME NEW d \in DOMAIN S, NEW k \in DOMAIN S[d].input
      PROVE  <<d, k>> \in Crossing(n, p)
               <=> S[d].input[k] = i /\ Crosses(S, A, d, k)
  <2>1. InputVertex(d, k) = In(S, d, k)
    <3>1. InputPortTypes(graph[d]) = InputPortTypes(S[d])
      BY HalfwayNode
    <3> QED
      BY <3>1 DEF InputVertex, In
  <2>2. <<d, k>> \in Crossing(n, p)
          <=> /\ id \in FloatAttrs(n) /\ <<d, k>> \in Fanout(n, p)
              /\ (InputVertex(d, k) \in A) # (<<n, id>> \in A)
    BY <1>6
  <2>3. S[d].input[k] = i =>
          (Crosses(S, A, d, k)
             <=> IsFloat(S, <<n, id>>) /\ (In(S, d, k) \in A) # (<<n, id>> \in A))
    BY <1>4 DEF Crosses
  <2> QED
    BY <1>3, <1>5, <2>1, <2>2, <2>3
<1>8. IsCastOf(S, A, CastOf(n, p), i)
  <2> DEFINE to_f16 == <<n, id>> \notin A
             attr == [SrcT |-> SingleType(IF to_f16 THEN "float" ELSE "bfloat16"),
                      DstT |-> SingleType(IF to_f16 THEN "bfloat16" ELSE "float")]
  <2>1. CastOf(n, p) = BuildCastNode(n, p, to_f16)
    BY <1>2 DEF CastOf
  <2>2. CastInput(n, p) = <<i>>
    BY DEF CastInput
  <2>3. CastOf(n, p) = [name |-> CastName(n, p, to_f16), op |-> "Cast",
                        device |-> graph[n].device, attr |-> attr, input |-> <<i>>]
    BY <2>1, <2>2 DEF BuildCastNode
  <2>4. IsCastOf(S, A, CastOf(n, p), i)
          <=> CastOf(n, p) = [name |-> CastOf(n, p).name, op |-> "Cast",
                              device |-> CastOf(n, p).device, attr |-> attr,
                              input |-> <<i>>]
    BY <1>4 DEF IsCastOf
  <2> HIDE DEF to_f16, attr
  <2> QED
    BY <2>3, <2>4
<1>9. Crossing(n, p) # {} => IsFloat(S, <<n, id>>)
  BY <1>3, <1>6
<1>10. \A v \in Crossing(n, p) : v[1] \in DOMAIN S
  BY <1>5, <1>6
<1> QED
  BY <1>4, <1>7, <1>8, <1>9, <1>10

(* WithCast: the Cast of one port. *)
LEMMA CastAdded ==
  ASSUME NEW S, Fits(S), Settled(S, allow_set), NEW n \in DOMAIN S,
         Halfway(S, allow_set, graph, n - 1, n, 0),
         NEW p \in DOMAIN OutputPortTypes(S[n]),
         NEW g, Halfway(S, allow_set, g, n, n, p - 1)
  PROVE  Halfway(S, allow_set, WithCast(g, n, p), n, n, p)
<1> DEFINE A == allow_set
           L == Len(S)
           X == Crossing(n, p)
           h == WithCast(g, n, p)
<1>0. PICK i : i = [node |-> n, port |-> p]
  OBVIOUS
<1>1. /\ X # {} => IsFloat(S, Out(S, i))
      /\ \A d \in DOMAIN S : \A k \in DOMAIN S[d].input :
           <<d, k>> \in X <=> S[d].input[k] = i /\ Crosses(S, A, d, k)
      /\ \A v \in X : v[1] \in DOMAIN S
      /\ IsCastOf(S, A, CastOf(n, p), i)
  BY <1>0, CrossingIs
<1>2. L \in Nat /\ DOMAIN S = 1..L /\ n \in 1..L
  BY GraphOf DEF Fits
<1>3. p \in Nat \ {0}
  <2>1. OutputPortTypes(S[n]) \in Seq(Ids)
    BY NodeOf
  <2> QED
    BY <2>1, LenProperties
<1>4. g \in Seq(Range(g)) /\ Len(g) \in Nat /\ L <= Len(g) /\ DOMAIN g = 1..Len(g)
  BY DEF Halfway
<1>5. ASSUME NEW d \in DOMAIN S, NEW k \in DOMAIN S[d].input
      PROVE  LET j == S[d].input[k]
             IN  Reached(j, n, p) <=> Reached(j, n, p - 1) \/ j = i
  <2> DEFINE j == S[d].input[k]
  <2>1. j.node \in Nat /\ j.port \in Nat \ {0} /\ j = [node |-> j.node, port |-> j.port]
    <3>1. IsNodeDef(S[d], L)
      BY GraphOf DEF Fits
    <3>2. /\ j.node \in 0..L /\ j.port \in Nat \ {0}
          /\ j = [node |-> j.node, port |-> j.port]
      BY <1>2, <3>1, InputOf
    <3> QED
      BY <1>2, <3>2
  <2> HIDE DEF j
  <2>2. j = i <=> j.node = n /\ j.port = p
    BY <1>0, <2>1
  <2>3. Reached(j, n, p) <=> Reached(j, n, p - 1) \/ j = i
    BY <1>2, <1>3, <2>1, <2>2 DEF Reached
  <2> QED
    BY <2>3 DEF j
<1>6. \A j : Reached(j, n, p - 1) => j.node < n \/ (j.node = n /\ j.port <= p - 1)
  BY DEF Reached
<1>7. CASE X = {}
  <2>1. h = g
    BY <1>7 DEF WithCast
  <2>2. ASSUME NEW d \in DOMAIN S PROVE Kept(S, A, h, d, n) /\ InputsKept(S, A, h, d, n, p)
    <3>1. Kept(S, A, g, d, n) /\ InputsKept(S, A, g, d, n, p - 1)
      BY DEF Halfway
    <3>2. \A k \in DOMAIN S[d].input : Read(S, A, g, d, k, n, p)
      <4> TAKE k \in DOMAIN S[d].input
      <4>1. Read(S, A, g, d, k, n, p - 1)
        BY <3>1 DEF InputsKept
      <4>2. Reached(S[d].input[k], n, p) /\ Crosses(S, A, d, k)
              <=> Reached(S[d].input[k], n, p - 1) /\ Crosses(S, A, d, k)
        BY <1>1, <1>5, <1>7
      <4> QED
        BY <4>1, <4>2 DEF Read
    <3> HIDE DEF h
    <3> QED
      BY <2>1, <3>1, <3>2 DEF InputsKept
  <2>3. ASSUME NEW c \in (L + 1)..Len(h) PROVE Added(S, A, h[c], n, p)
    <3>1. Added(S, A, g[c], n, p - 1)
      BY <2>1 DEF Halfway
    <3>2. \A a \in DOMAIN S : \A q \in DOMAIN OutputPortTypes(S[a]) :
            Reached([node |-> a, port |-> q], n, p - 1) => Reached([node |-> a, port |-> q], n, p)
      <4> SUFFICES ASSUME NEW a \in DOMAIN S, NEW q \in DOMAIN OutputPortTypes(S[a]),
                          Reached([node |-> a, port |-> q], n, p - 1)
                   PROVE  Reached([node |-> a, port |-> q], n, p)
        OBVIOUS
      <4>1. q \in Nat
        <5>1. OutputPortTypes(S[a]) \in Seq(Ids)
          BY NodeOf
        <5> QED
          BY <5>1, LenProperties
      <4> QED
        BY <1>2, <1>3, <4>1 DEF Reached
    <3> HIDE DEF h
    <3> QED
      BY <2>1, <3>1, <3>2 DEF Added
  <2> HIDE DEF h, X
  <2> QED
    BY <1>4, <2>1, <2>2, <2>3 DEF Halfway, h
<1>8. CASE X # {}
  <2> DEFINE N == Len(g) + 1
             Input(d) == [k \in DOMAIN g[d].input |->
                            IF <<d, k>> \in X THEN [node |-> N, port |-> 1]
                            ELSE g[d].input[k]]
             f == [d \in DOMAIN g |-> [g[d] EXCEPT !.input = Input(d)]]
  <2>1. h = Append(f, CastOf(n, p))
    BY <1>8 DEF WithCast
  <2>2. /\ Len(h) = N /\ N \in Nat /\ DOMAIN h = 1..N
        /\ \A d \in 1..Len(g) : h[d] = f[d]
        /\ h[N] = CastOf(n, p)
        /\ h \in Seq(Range(h))
    <3> HIDE DEF f, h
    <3>1. f \in Seq(Range(f) \cup {CastOf(n, p)}) /\ Len(f) = Len(g)
      <4>1. f \in [1..Len(g) -> Range(f) \cup {CastOf(n, p)}]
        <5>1. f = [d \in 1..Len(g) |-> f[d]]
          BY <1>4 DEF f
        <5> QED
          BY <5>1 DEF Range
      <4> QED
        BY <1>4, <4>1, SeqDef
    <3>2. CastOf(n, p) \in Range(f) \cup {CastOf(n, p)}
      OBVIOUS
    <3>3. h \in Seq(Range(f) \cup {CastOf(n, p)})
      BY <2>1, <3>1, <3>2, AppendProperties
    <3>4. h \in Seq(Range(h))
      BY <3>3, SeqOfRange
    <3> QED
      BY <1>4, <2>1, <3>1, <3>2, <3>4, AppendProperties
  <2>3. \A d \in 1..Len(g) : h[d] = [g[d] EXCEPT !.input = Input(d)]
    BY <1>4, <2>2
  <2> HIDE DEF h, f, N
  <2>4. ASSUME NEW d \in DOMAIN S PROVE Kept(S, A, h, d, n) /\ h[d].input = Input(d)
    <3>1. Kept(S, A, g, d, n)
      BY DEF Halfway
    <3> DEFINE attr == IF d <= n THEN Paint(S, A, d) ELSE S[d].attr
    <3>2. g[d] = [name |-> S[d].name, op |-> S[d].op, device |-> S[d].device,
                  attr |-> attr, input |-> g[d].input]
      BY <3>1 DEF Kept
    <3> HIDE DEF attr, Input
    <3>3. h[d] = [g[d] EXCEPT !.input = Input(d)]
      <4>1. d \in 1..Len(g)
        BY <1>2, <1>4
      <4> QED
        BY <2>3, <4>1
    <3>4. h[d] = [name |-> S[d].name, op |-> S[d].op, device |-> S[d].device,
                  attr |-> attr, input |-> Input(d)]
      BY <3>2, <3>3
    <3>5. h[d].input = Input(d)
      BY <3>4
    <3> QED
      BY <3>4, <3>5 DEF Kept, attr
  <2>5. ASSUME NEW c \in (L + 1)..Len(g) PROVE h[c] = g[c]
    <3>1. c \notin DOMAIN S /\ c \in 1..Len(g)
      BY <1>2, <1>4
    <3>2. Input(c) = [k \in DOMAIN g[c].input |-> g[c].input[k]]
      BY <1>1, <3>1
    <3>3. \E j : IsCastOf(S, A, g[c], j)
      BY DEF Halfway, Added
    <3>4. PICK j : g[c].input = <<j>>
      BY <3>3 DEF IsCastOf
    <3>5. Input(c) = g[c].input
      BY <3>2, <3>4
    <3>6. h[c] = [g[c] EXCEPT !.input = g[c].input]
      BY <2>3, <3>1, <3>5
    <3>7. g[c] = [name |-> g[c].name, op |-> g[c].op, device |-> g[c].device,
                  attr |-> g[c].attr, input |-> g[c].input]
      <4>1. PICK j2, attr2 : g[c] = [name |-> g[c].name, op |-> "Cast", device |-> g[c].device,
                                     attr |-> attr2, input |-> <<j2>>]
        BY <3>3 DEF IsCastOf
      <4> QED
        BY <4>1
    <3> QED
      BY <3>6, <3>7
  <2>6. ASSUME NEW d \in DOMAIN S PROVE InputsKept(S, A, h, d, n, p)
    <3> DEFINE I == [node : 1..Len(g), port : Nat \ {0}]
               J == [node : 1..N, port : Nat \ {0}]
               s == g[d].input
    <3>1. /\ s \in Seq(I) /\ DOMAIN s = DOMAIN S[d].input /\ Len(s) = Len(S[d].input)
          /\ \A k \in DOMAIN S[d].input : Read(S, A, g, d, k, n, p - 1)
      BY DEF Halfway, InputsKept
    <3>2. h[d].input = Input(d)
      BY <2>4
    <3>3. N = Len(g) + 1 /\ 1..Len(g) \subseteq 1..N /\ N \in 1..N
      BY <1>4 DEF N
    <3>4. I \subseteq J /\ [node |-> N, port |-> 1] \in J
      BY <3>3
    <3>5. Input(d) = [k \in DOMAIN s |-> IF <<d, k>> \in X THEN [node |-> N, port |-> 1]
                                         ELSE s[k]]
      OBVIOUS
    <3>6. Input(d) \in Seq(J) /\ Len(Input(d)) = Len(s) /\ DOMAIN Input(d) = DOMAIN s
      <4> DEFINE t == Input(d)
      <4> HIDE DEF I, J, s, t
      <4>1. DOMAIN s = 1..Len(s) /\ Len(s) \in Nat /\ \A k \in 1..Len(s) : s[k] \in J
        BY <3>1, <3>4
      <4>2. t = [k \in 1..Len(s) |-> IF <<d, k>> \in X THEN [node |-> N, port |-> 1]
                                      ELSE s[k]]
        BY <3>5, <4>1 DEF t
      <4>3. t \in [1..Len(s) -> J]
        BY <3>4, <4>1, <4>2
      <4>4. t \in Seq(J) /\ Len(t) = Len(s) /\ DOMAIN t = 1..Len(s)
        BY <4>1, <4>3, SeqDef
      <4> QED
        BY <4>1, <4>4 DEF t
    <3>7. ASSUME NEW k \in DOMAIN S[d].input PROVE Read(S, A, h, d, k, n, p)
      <4> DEFINE j == S[d].input[k]
      <4>1. h[d].input[k] = IF <<d, k>> \in X THEN [node |-> N, port |-> 1] ELSE s[k]
        BY <3>1, <3>2
      <4>2. <<d, k>> \in X <=> j = i /\ Crosses(S, A, d, k)
        BY <1>1
      <4>3. Reached(j, n, p) <=> Reached(j, n, p - 1) \/ j = i
        BY <1>5
      <4>4. Read(S, A, g, d, k, n, p - 1)
        BY <3>1
      <4>5. j = i => ~Reached(j, n, p - 1)
        BY <1>0, <1>2, <1>3 DEF Reached
      <4>6. CASE <<d, k>> \in X
        <5>1. h[d].input[k] = [node |-> N, port |-> 1]
          BY <4>1, <4>6
        <5>2. IsCastOf(S, A, h[N], j)
          BY <1>1, <2>2, <4>2, <4>6
        <5>3. N \in (L + 1)..Len(h)
          BY <1>2, <1>4, <2>2 DEF N
        <5> HIDE DEF L, j
        <5> QED
          BY <4>2, <4>3, <4>6, <5>1, <5>2, <5>3 DEF Read, L, j
      <4>7. CASE <<d, k>> \notin X
        <5>1. h[d].input[k] = g[d].input[k]
          BY <4>1, <4>7
        <5>2. Reached(j, n, p) /\ Crosses(S, A, d, k)
                <=> Reached(j, n, p - 1) /\ Crosses(S, A, d, k)
          BY <4>2, <4>3, <4>7
        <5>3. CASE Reached(j, n, p - 1) /\ Crosses(S, A, d, k)
          <6>1. PICK c \in (L + 1)..Len(g) :
                  g[d].input[k] = [node |-> c, port |-> 1] /\ IsCastOf(S, A, g[c], j)
            BY <4>4, <5>3 DEF Read
          <6>2. c \in (L + 1)..Len(h) /\ h[c] = g[c]
            BY <1>2, <1>4, <2>2, <2>5 DEF N
          <6> HIDE DEF L
          <6> QED
            BY <5>1, <5>2, <5>3, <6>1, <6>2 DEF Read, L
        <5>4. CASE ~(Reached(j, n, p - 1) /\ Crosses(S, A, d, k))
          BY <4>4, <5>1, <5>2, <5>4 DEF Read
        <5> QED
          BY <5>3, <5>4
      <4> QED
        BY <4>6, <4>7
    <3> HIDE DEF Input, s, I
    <3> QED
      BY <2>2, <3>1, <3>2, <3>6, <3>7 DEF InputsKept
  <2>7. ASSUME NEW c \in (L + 1)..Len(h) PROVE Added(S, A, h[c], n, p)
    <3>1. CASE c = N
      <4>1. /\ n \in DOMAIN S /\ p \in DOMAIN OutputPortTypes(S[n])
            /\ IsFloat(S, Out(S, i)) /\ IsCastOf(S, A, h[c], i)
        BY <1>1, <1>8, <2>2, <3>1
      <4>2. Reached(i, n, p)
        BY <1>0, <1>3 DEF Reached
      <4> QED
        BY <1>0, <4>1, <4>2 DEF Added
    <3>2. CASE c # N
      <4>1. c \in (L + 1)..Len(g)
        BY <1>2, <1>4, <2>2, <3>2 DEF N
      <4>2. h[c] = g[c]
        BY <2>5, <4>1
      <4>3. Added(S, A, g[c], n, p - 1)
        BY <4>1 DEF Halfway
      <4>4. PICK a \in DOMAIN S : \E q \in DOMAIN OutputPortTypes(S[a]) :
              LET j == [node |-> a, port |-> q]
              IN  Reached(j, n, p - 1) /\ IsFloat(S, Out(S, j)) /\ IsCastOf(S, A, g[c], j)
        BY <4>3 DEF Added
      <4>5. PICK q \in DOMAIN OutputPortTypes(S[a]) :
              LET j == [node |-> a, port |-> q]
              IN  Reached(j, n, p - 1) /\ IsFloat(S, Out(S, j)) /\ IsCastOf(S, A, g[c], j)
        BY <4>4
      <4>6. Reached([node |-> a, port |-> q], n, p)
        <5>1. OutputPortTypes(S[a]) \in Seq(Ids)
          BY NodeOf
        <5>2. q \in Nat
          BY <5>1, LenProperties
        <5> QED
          BY <1>2, <1>3, <4>5, <5>2 DEF Reached
      <4> QED
        BY <4>2, <4>5, <4>6 DEF Added
    <3> QED
      BY <3>1, <3>2
  <2>8. /\ h \in Seq(Range(h)) /\ Len(h) \in Nat
        /\ L <= Len(h) /\ DOMAIN h = 1..Len(h)
    BY <1>2, <1>4, <2>2 DEF N
  <2>9. \A d \in DOMAIN S : Kept(S, A, h, d, n) /\ InputsKept(S, A, h, d, n, p)
    BY <2>4, <2>6
  <2> HIDE DEF X
  <2> QED
    BY <2>7, <2>8, <2>9 DEF Halfway, h
<1> QED
  BY <1>7, <1>8

(* The loop over the ports of a node. *)
LEMMA ChangedLoop ==
  ASSUME NEW n, NEW N \in Nat, N = Len(OutputPortTypes(graph[n]))
  PROVE  \E f : /\ f[0] = [graph EXCEPT ![n].attr = Painted(n)]
                /\ \A p \in 1..N : f[p] = WithCast(f[p - 1], n, p)
                /\ Changed(n) = f[N]
<1> DEFINE start == [graph EXCEPT ![n].attr = Painted(n)]
           Loop(g, k) == g = [p \in 0..k |-> IF p = 0 THEN start
                                             ELSE WithCast(g[p - 1], n, p)]
           P == {k \in 0..N : \E g : Loop(g, k)}
           f == CHOOSE g : Loop(g, N)
<1>1. Changed(n) = f[N]
  BY DEF Changed
<1> HIDE DEF start
<1>2. 0 \in P
  <2> DEFINE g == [p \in 0..0 |-> start]
  <2>1. g = [p \in 0..0 |-> IF p = 0 THEN start ELSE WithCast(g[p - 1], n, p)]
    OBVIOUS
  <2>2. Loop(g, 0)
    BY <2>1
  <2> HIDE DEF Loop
  <2> QED
    BY <2>2
<1>3. ASSUME NEW k \in 1..N, k - 1 \in P PROVE k \in P
  <2>1. PICK g : Loop(g, k - 1)
    BY <1>3
  <2> DEFINE v == WithCast(g[k - 1], n, k)
             h == [p \in 0..k |-> IF p = k THEN v ELSE g[p]]
  <2>2. \A p \in 0..(k - 1) : h[p] = g[p]
    OBVIOUS
  <2>3. ASSUME NEW p \in 0..k
        PROVE  h[p] = IF p = 0 THEN start ELSE WithCast(h[p - 1], n, p)
    <3>1. CASE p = k
      <4>1. h[p] = v /\ p - 1 \in 0..(k - 1) /\ p # 0
        BY <3>1
      <4>2. h[p - 1] = g[k - 1]
        BY <2>2, <3>1, <4>1
      <4> HIDE DEF h
      <4> QED
        BY <3>1, <4>1, <4>2
    <3>2. CASE p # k
      <4>1. p \in 0..(k - 1) /\ (p # 0 => p - 1 \in 0..(k - 1))
        BY <3>2
      <4>2. g[p] = IF p = 0 THEN start ELSE WithCast(g[p - 1], n, p)
        BY <2>1, <4>1
      <4>3. h[p] = g[p] /\ (p # 0 => h[p - 1] = g[p - 1])
        BY <2>2, <4>1
      <4> HIDE DEF h, Loop
      <4> QED
        BY <4>2, <4>3
    <3> QED
      BY <3>1, <3>2
  <2>4. h = [p \in 0..k |-> h[p]]
    OBVIOUS
  <2> HIDE DEF h, v
  <2>5. h = [p \in 0..k |-> IF p = 0 THEN start ELSE WithCast(h[p - 1], n, p)]
    BY <2>3, <2>4
  <2>6. Loop(h, k)
    BY <2>5
  <2> HIDE DEF Loop
  <2> QED
    BY <2>6
<1>4. P = 0..N
  <2>1. P \in SUBSET (0..N)
    OBVIOUS
  <2> HIDE DEF P
  <2> QED
    BY <1>2, <1>3, <2>1, Throughout
<1>5. Loop(f, N)
  <2>1. \E g : Loop(g, N)
    BY <1>4
  <2> HIDE DEF Loop
  <2> QED
    BY <2>1
<1> HIDE DEF f
<1>6. f[0] = start
  BY <1>5
<1>7. \A p \in 1..N : f[p] = WithCast(f[p - 1], n, p)
  BY <1>5
<1> QED
  BY <1>1, <1>6, <1>7 DEF start

(* One node: it is painted, and its ports get their Casts. *)
LEMMA NodeChanged ==
  ASSUME NEW S, Fits(S), Settled(S, allow_set), NEW n \in DOMAIN S,
         Halfway(S, allow_set, graph, n - 1, n, 0)
  PROVE  Halfway(S, allow_set, Changed(n), n, n + 1, 0)
<1> DEFINE A == allow_set
           L == Len(S)
           N == Len(OutputPortTypes(S[n]))
<1>1. L \in Nat /\ DOMAIN S = 1..L /\ n \in 1..L
  BY GraphOf DEF Fits
<1>2. N \in Nat /\ DOMAIN OutputPortTypes(S[n]) = 1..N
  <2>1. OutputPortTypes(S[n]) \in Seq(Ids)
    BY NodeOf
  <2> QED
    BY <2>1, LenProperties
<1>3. N = Len(OutputPortTypes(graph[n]))
  BY HalfwayNode
<1> HIDE DEF N
<1>4. PICK f : /\ f[0] = [graph EXCEPT ![n].attr = Painted(n)]
               /\ \A p \in 1..N : f[p] = WithCast(f[p - 1], n, p)
               /\ Changed(n) = f[N]
  <2>1. N \in Nat
    BY <1>2
  <2> HIDE DEF A, L
  <2> QED
    BY <2>1, <1>3, ChangedLoop
<1>5. Halfway(S, A, f[0], n, n, 0)
  <2> DEFINE h == [graph EXCEPT ![n].attr = Painted(n)]
  <2>1. Len(graph) \in Nat /\ L <= Len(graph) /\ DOMAIN graph = 1..Len(graph)
    BY DEF Halfway
  <2>2. Painted(n) = Paint(S, A, n)
    <3>1. /\ GetTypeAttrs(graph[n]) = GetTypeAttrs(S[n])
          /\ graph[n].attr = S[n].attr
      BY <1>1, HalfwayNode
    <3>2. \A id : GetDataType(graph[n], id) = GetDataType(S[n], id)
      BY <3>1 DEF GetDataType
    <3>3. {id \in FloatAttrs(n) : <<n, id>> \in A} = ToPaint(S, A, n)
      <4>1. \A id : id \in FloatAttrs(n)
                      <=> id \in GetTypeAttrs(S[n]) /\ GetDataType(S[n], id) = "float"
        BY <3>1, <3>2 DEF FloatAttrs, IsFloat32
      <4>2. \A id : id \in ToPaint(S, A, n)
                      <=> /\ id \in GetTypeAttrs(S[n]) /\ GetDataType(S[n], id) = "float"
                          /\ <<n, id>> \in A
        BY DEF ToPaint, IsFloat
      <4> QED
        BY <4>1, <4>2
    <3> QED
      BY <3>1, <3>3 DEF Painted, Paint
  <2>3. DOMAIN h = 1..Len(graph) /\ Len(h) = Len(graph) /\ h \in Seq(Range(h))
    <3>1. DOMAIN h = 1..Len(graph)
      BY <2>1
    <3>2. h \in Seq(Range(h))
      <4>1. h \in [1..Len(graph) -> Range(h)]
        <5>1. h = [d \in 1..Len(graph) |-> h[d]]
          BY <2>1
        <5> HIDE DEF h
        <5> QED
          BY <3>1, <5>1 DEF Range
      <4> HIDE DEF h
      <4> QED
        BY <2>1, <4>1, SeqDef
    <3> HIDE DEF h
    <3> QED
      BY <2>1, <3>1, <3>2, LenProperties
  <2>4. \A d \in DOMAIN graph : d # n => h[d] = graph[d]
    OBVIOUS
  <2>5. h[n] = [graph[n] EXCEPT !.attr = Paint(S, A, n)]
    BY <1>1, <2>1, <2>2
  <2> HIDE DEF h
  <2>6. ASSUME NEW d \in DOMAIN S
        PROVE  Kept(S, A, h, d, n) /\ h[d].input = graph[d].input
    <3> DEFINE attr(m) == IF d <= m THEN Paint(S, A, d) ELSE S[d].attr
    <3>1. graph[d] = [name |-> S[d].name, op |-> S[d].op, device |-> S[d].device,
                      attr |-> attr(n - 1), input |-> graph[d].input]
      BY DEF Halfway, Kept
    <3>2. d # n => attr(n - 1) = attr(n)
      BY <1>1
    <3>3. d = n => attr(n) = Paint(S, A, n)
      BY <1>1
    <3> HIDE DEF attr
    <3>4. h[d] = [name |-> S[d].name, op |-> S[d].op, device |-> S[d].device,
                  attr |-> attr(n), input |-> graph[d].input]
      <4>1. CASE d = n
        BY <2>5, <3>1, <3>3, <4>1
      <4>2. CASE d # n
        <5>1. h[d] = graph[d]
          BY <1>1, <2>1, <2>4, <4>2
        <5> QED
          BY <3>1, <3>2, <4>2, <5>1
      <4> QED
        BY <4>1, <4>2
    <3>5. h[d].input = graph[d].input
      BY <3>4
    <3> QED
      BY <3>4, <3>5 DEF Kept, attr
  <2>7. ASSUME NEW c \in (L + 1)..Len(graph) PROVE h[c] = graph[c]
    BY <1>1, <2>1, <2>4
  <2>8. ASSUME NEW d \in DOMAIN S PROVE InputsKept(S, A, h, d, n, 0)
    <3>1. InputsKept(S, A, graph, d, n, 0)
      BY DEF Halfway
    <3>2. ASSUME NEW k \in DOMAIN S[d].input PROVE Read(S, A, h, d, k, n, 0)
      <4>1. Read(S, A, graph, d, k, n, 0) /\ h[d].input = graph[d].input
        BY <2>6, <3>1 DEF InputsKept
      <4>2. CASE Reached(S[d].input[k], n, 0) /\ Crosses(S, A, d, k)
        <5>1. PICK c \in (L + 1)..Len(graph) :
                /\ graph[d].input[k] = [node |-> c, port |-> 1]
                /\ IsCastOf(S, A, graph[c], S[d].input[k])
          BY <4>1, <4>2 DEF Read
        <5>2. h[c] = graph[c] /\ Len(h) = Len(graph)
          BY <2>3, <2>7
        <5> HIDE DEF L
        <5> QED
          BY <4>1, <4>2, <5>1, <5>2 DEF Read, L
      <4>3. CASE ~(Reached(S[d].input[k], n, 0) /\ Crosses(S, A, d, k))
        BY <4>1, <4>3 DEF Read
      <4> QED
        BY <4>2, <4>3
    <3> QED
      BY <2>3, <2>6, <3>1, <3>2 DEF InputsKept
  <2>9. ASSUME NEW c \in (L + 1)..Len(h) PROVE Added(S, A, h[c], n, 0)
    <3>1. c \in (L + 1)..Len(graph)
      BY <2>3
    <3>2. Added(S, A, graph[c], n, 0) /\ h[c] = graph[c]
      BY <2>7, <3>1 DEF Halfway
    <3> QED
      BY <3>2
  <2>10. Halfway(S, A, h, n, n, 0)
    BY <2>1, <2>3, <2>6, <2>8, <2>9 DEF Halfway
  <2> QED
    BY <1>4, <2>10 DEF h
<1>6. Halfway(S, A, f[N], n, n, N)
  <2> DEFINE P == {p \in 0..N : Halfway(S, A, f[p], n, n, p)}
  <2>1. 0 \in P
    BY <1>2, <1>5
  <2>2. ASSUME NEW p \in 1..N, p - 1 \in P PROVE p \in P
    <3>1. Halfway(S, A, f[p - 1], n, n, p - 1) /\ p \in DOMAIN OutputPortTypes(S[n])
      BY <1>2, <2>2
    <3>2. Halfway(S, A, WithCast(f[p - 1], n, p), n, n, p)
      BY <3>1, CastAdded
    <3> QED
      BY <1>4, <3>2
  <2>3. P \in SUBSET (0..N)
    OBVIOUS
  <2>4. P = 0..N
    <3> HIDE DEF P
    <3> QED
      BY <1>2, <2>1, <2>2, <2>3, Throughout
  <2> QED
    BY <1>2, <2>4
<1>7. ASSUME NEW a \in DOMAIN S, NEW q \in DOMAIN OutputPortTypes(S[a]),
             NEW i, i.node = a, i.port = q
      PROVE  Reached(i, n, N) <=> Reached(i, n + 1, 0)
  <2>1. OutputPortTypes(S[a]) \in Seq(Ids)
    BY NodeOf
  <2>2. q \in Nat \ {0} /\ q \in 1..Len(OutputPortTypes(S[a]))
    BY <2>1, LenProperties
  <2>3. i.node = n => i.port <= N
    BY <1>2, <1>7
  <2> QED
    BY <1>1, <1>2, <1>7, <2>2, <2>3 DEF Reached
<1> DEFINE h == Changed(n)
<1>8. Halfway(S, A, h, n, n, N)
  BY <1>4, <1>6
<1> HIDE DEF h
<1>9. ASSUME NEW d \in DOMAIN S PROVE InputsKept(S, A, h, d, n + 1, 0)
  <2>1. InputsKept(S, A, h, d, n, N)
    BY <1>8 DEF Halfway
  <2>2. ASSUME NEW k \in DOMAIN S[d].input PROVE Read(S, A, h, d, k, n + 1, 0)
    <3>1. Reached(S[d].input[k], n, N) <=> Reached(S[d].input[k], n + 1, 0)
      BY <1>7 DEF Fits
    <3>2. Read(S, A, h, d, k, n, N)
      BY <2>1 DEF InputsKept
    <3> QED
      BY <3>1, <3>2 DEF Read
  <2> QED
    BY <2>1, <2>2 DEF InputsKept
<1>10. ASSUME NEW c \in (L + 1)..Len(h) PROVE Added(S, A, h[c], n + 1, 0)
  <2>1. Added(S, A, h[c], n, N)
    BY <1>8 DEF Halfway
  <2>2. \A a \in DOMAIN S : \A q \in DOMAIN OutputPortTypes(S[a]) :
          Reached([node |-> a, port |-> q], n, N)
            <=> Reached([node |-> a, port |-> q], n + 1, 0)
    BY <1>7
  <2> QED
    BY <2>1, <2>2 DEF Added
<1> QED
  BY <1>8, <1>9, <1>10 DEF Halfway, h

-----------------------------------------------------------------------------
(* Casts and loops.                                                        *)

AttrNames == Strings \ {""}

(* The ports of an op whose one argument has a type attribute. *)
LEMMA TypeAttrPorts ==
  ASSUME NEW node, HasValues(node.attr), NEW args \in Seq(ArgDef),
         NEW t \in AttrNames, PortsOfType(args, t)
  PROVE  /\ \A k \in DOMAIN PortTypes(node, args) : PortTypes(node, args)[k] = TypeAttr(t)
         /\ OnePortOfType(args, t) => /\ DOMAIN PortTypes(node, args) = {1}
                                      /\ PortTypes(node, args)[1] = TypeAttr(t)
<1> DEFINE n == IF args[1].number_attr \in DOMAIN node.attr
                THEN node.attr[args[1].number_attr].i ELSE 1
           part == [k \in 1..n |-> TypeAttr(t)]
           parts == [k \in DOMAIN args |-> ArgDefIndexes(node, args[k])]
<1>1. Len(args) = 1 /\ DOMAIN args = {1}
  <2>1. Len(args) = 1
    BY DEF PortsOfType
  <2> QED
    BY <2>1
<1>2. n \in Nat
  BY DEF HasValues
<1>3. ArgDefIndexes(node, args[1]) = part
  BY DEF ArgDefIndexes, PortsOfType, AttrNames
<1>4. OnePortOfType(args, t) => n = 1
  BY DEF HasValues, OnePortOfType
<1>5. TypeAttr(t) \in Ids
  BY IdForms DEF AttrNames
<1> HIDE DEF n
<1>6. part \in Seq(Ids) /\ DOMAIN part = 1..n
  <2>1. part \in [1..n -> Ids]
    BY <1>5
  <2> HIDE DEF part
  <2> QED
    BY <1>2, <2>1, SeqDef
<1>7. \A k \in DOMAIN part : part[k] = TypeAttr(t)
  OBVIOUS
<1> HIDE DEF part
<1>8. PortTypes(node, args) = part
  <2>1. DOMAIN parts = {1} /\ parts[1] = part
    BY <1>1, <1>3
  <2>2. PortTypes(node, args) = Joined(parts)
    BY DEF PortTypes
  <2>3. parts = [k \in {1} |-> parts[k]]
    BY <1>1
  <2> HIDE DEF parts
  <2>4. parts \in [1..1 -> Seq(Ids)]
    BY <1>6, <2>1, <2>3
  <2>5. parts \in Seq(Seq(Ids)) /\ Len(parts) = 1
    <3> DEFINE Part == Seq(Ids)
    <3> HIDE DEF Part
    <3>1. parts \in Seq(Part)
      <4>1. 1 \in Nat /\ parts \in [1..1 -> Part]
        BY <2>4 DEF Part
      <4> QED
        BY <4>1, SeqDef, ZenonT(60)
    <3>2. Len(parts) = 1
      <4>1. DOMAIN parts = 1..1
        BY <2>4
      <4> QED
        BY <3>1, <4>1, LenProperties
    <3> QED
      BY <3>1, <3>2 DEF Part
  <2> QED
    BY <2>1, <2>2, <2>5, JoinedOfOne
<1>9. OnePortOfType(args, t) => DOMAIN part = {1} /\ part[1] = TypeAttr(t)
  BY <1>4, <1>6, <1>7
<1> QED
  BY <1>7, <1>8, <1>9

LEMMA CastTypes ==
  ASSUME NEW S, NEW A, NEW x, NEW i, IsCastOf(S, A, x, i)
  PROVE  /\ x = [name |-> x.name, op |-> "Cast", device |-> x.device,
                 attr |-> x.attr, input |-> <<i>>]
         /\ x.op = "Cast" /\ HasValues(x.attr) /\ x.input = <<i>>
         /\ DOMAIN InputTypes(x) = {1} /\ DOMAIN OutputTypes(x) = {1}
         /\ InputTypes(x)[1] = (IF Out(S, i) \notin A THEN "float" ELSE "bfloat16")
         /\ OutputTypes(x)[1] = (IF Out(S, i) \notin A THEN "bfloat16" ELSE "float")
<1> DEFINE src == IF Out(S, i) \notin A THEN "float" ELSE "bfloat16"
           dst == IF Out(S, i) \notin A THEN "bfloat16" ELSE "float"
           attr == [SrcT |-> SingleType(src), DstT |-> SingleType(dst)]
<1>1. src \in Strings /\ dst \in Strings
  <2>1. "float" \in Strings /\ "bfloat16" \in Strings
    BY DEF Strings
  <2> QED
    BY <2>1
<1>2. x = [name |-> x.name, op |-> "Cast", device |-> x.device,
           attr |-> attr, input |-> <<i>>]
  BY DEF IsCastOf
<1> HIDE DEF src, dst
<1>3. DOMAIN attr = {"SrcT", "DstT"} /\ attr["SrcT"] = SingleType(src)
      /\ attr["DstT"] = SingleType(dst)
  OBVIOUS
<1> HIDE DEF attr
<1>4. x.op = "Cast" /\ x.attr = attr /\ x.input = <<i>>
  BY <1>2
<1>5. HasValues(attr)
  <2>1. "SrcT" \in Strings \ {""} /\ "DstT" \in Strings \ {""}
    BY DEF Strings
  <2>2. ASSUME NEW a \in DOMAIN attr
        PROVE  /\ attr[a] \in [kind : Strings, value : Seq(Strings), i : Nat]
               /\ Len(attr[a].value) = 1 /\ attr[a].i = 0
    BY <1>1, <1>3, SingleTypeOf
  <2>3. IsFiniteSet(DOMAIN attr)
    <3>1. IsFiniteSet({"SrcT"} \cup {"DstT"})
      BY FS_Singleton, FS_AddElement
    <3>2. {"SrcT"} \cup {"DstT"} = DOMAIN attr
      BY <1>3
    <3> QED
      BY <3>1, <3>2
  <2> QED
    BY <1>3, <2>1, <2>2, <2>3 DEF HasValues
<1>6. /\ OpDefs["Cast"].input_arg \in Seq(ArgDef)
      /\ OpDefs["Cast"].output_arg \in Seq(ArgDef)
      /\ OnePortOfType(OpDefs["Cast"].input_arg, "SrcT")
      /\ OnePortOfType(OpDefs["Cast"].output_arg, "DstT")
  BY OpsAssumption
<1>7. DOMAIN InputPortTypes(x) = {1} /\ InputPortTypes(x)[1] = TypeAttr("SrcT")
  <2>1. "SrcT" \in AttrNames /\ PortsOfType(OpDefs["Cast"].input_arg, "SrcT")
    BY <1>6 DEF Strings, AttrNames, OnePortOfType
  <2> QED
    BY <1>4, <1>5, <1>6, <2>1, TypeAttrPorts DEF InputPortTypes
<1>8. DOMAIN OutputPortTypes(x) = {1} /\ OutputPortTypes(x)[1] = TypeAttr("DstT")
  <2>1. "DstT" \in AttrNames /\ PortsOfType(OpDefs["Cast"].output_arg, "DstT")
    BY <1>6 DEF Strings, AttrNames, OnePortOfType
  <2> QED
    BY <1>4, <1>5, <1>6, <2>1, TypeAttrPorts DEF OutputPortTypes
<1>9. GetDataType(x, TypeAttr("SrcT")) = src
  <2>1. GetDataType(x, TypeAttr("SrcT")) =
          IF SingleType(src).kind = "type" THEN SingleType(src).value[1] ELSE "invalid"
    BY <1>3, <1>4 DEF GetDataType, TypeAttr
  <2>2. SingleType(src).kind = "type" /\ SingleType(src).value = <<src>>
    BY <1>1, SingleTypeOf
  <2> QED
    BY <2>1, <2>2
<1>10. GetDataType(x, TypeAttr("DstT")) = dst
  <2>1. GetDataType(x, TypeAttr("DstT")) =
          IF SingleType(dst).kind = "type" THEN SingleType(dst).value[1] ELSE "invalid"
    BY <1>3, <1>4 DEF GetDataType, TypeAttr
  <2>2. SingleType(dst).kind = "type" /\ SingleType(dst).value = <<dst>>
    BY <1>1, SingleTypeOf
  <2> QED
    BY <2>1, <2>2
<1>11. DOMAIN InputTypes(x) = {1} /\ InputTypes(x)[1] = src
  <2>1. DOMAIN x.input = {1}
    BY <1>4
  <2> QED
    BY <1>7, <1>9, <2>1 DEF InputTypes
<1>12. DOMAIN OutputTypes(x) = {1} /\ OutputTypes(x)[1] = dst
  BY <1>8, <1>10 DEF OutputTypes
<1> QED
  BY <1>2, <1>4, <1>5, <1>11, <1>12 DEF src, dst

(* The ends of a loop that has been matched need no Cast. *)
LEMMA NoCastInLoop ==
  ASSUME NEW S, Fits(S), NEW A, LoopsAgree(S, A),
         NEW d \in DOMAIN S, NEW k \in DOMAIN S[d].input,
         S[S[d].input[k].node].op = "NextIteration"
  PROVE  ~Crosses(S, A, d, k)
<1> DEFINE i == S[d].input[k]
           n == i.node
<1>1. n \in DOMAIN S /\ i.port \in DOMAIN OutputPortTypes(S[n])
  BY DEF Fits
<1>2. HasValues(S[n].attr) /\ HasValues(S[d].attr)
  BY <1>1, NodeOf
<1>3. DOMAIN OutputPortTypes(S[n]) = {1} /\ OutputPortTypes(S[n])[1] = TypeAttr("T")
  <2>1. "T" \in AttrNames
    BY DEF Strings, AttrNames
  <2>2. /\ OpDefs["NextIteration"].output_arg \in Seq(ArgDef)
        /\ OnePortOfType(OpDefs["NextIteration"].output_arg, "T")
        /\ PortsOfType(OpDefs["NextIteration"].output_arg, "T")
    BY OpsAssumption DEF OnePortOfType
  <2> QED
    BY <1>2, <2>1, <2>2, TypeAttrPorts DEF OutputPortTypes
<1>4. i = [node |-> n, port |-> 1]
  <2>1. i = [node |-> i.node, port |-> i.port]
    <3>1. IsNodeDef(S[d], Len(S)) /\ Len(S) \in Nat
      BY GraphOf DEF Fits
    <3> QED
      BY <3>1, InputOf
  <2> HIDE DEF i
  <2>2. i.port = 1
    BY <1>1, <1>3
  <2> QED
    BY <2>1, <2>2
<1>5. S[d].op = "Merge" /\ (T(d) \in A <=> T(n) \in A)
  BY <1>1, <1>4 DEF LoopsAgree
<1>6. In(S, d, k) = T(d)
  <2>1. "T" \in AttrNames
    BY DEF Strings, AttrNames
  <2>2. /\ OpDefs["Merge"].input_arg \in Seq(ArgDef)
        /\ PortsOfType(OpDefs["Merge"].input_arg, "T")
    BY OpsAssumption
  <2>3. \A j \in DOMAIN InputPortTypes(S[d]) : InputPortTypes(S[d])[j] = TypeAttr("T")
    BY <1>2, <1>5, <2>1, <2>2, TypeAttrPorts DEF InputPortTypes
  <2>4. k \in DOMAIN InputPortTypes(S[d])
    BY NodeOf
  <2> QED
    BY <2>3, <2>4 DEF In, T
<1>7. Out(S, i) = T(n)
  <2> HIDE DEF i
  <2>1. OutputPortTypes(S[n])[i.port] = TypeAttr("T")
    BY <1>1, <1>3
  <2> QED
    BY <2>1 DEF Out, T
<1> QED
  BY <1>5, <1>6, <1>7 DEF Crosses

-----------------------------------------------------------------------------
(* The graph that is left.                                                 *)

(* What the ports of its nodes give and take. *)
LEMMA PaintedTypes ==
  ASSUME NEW S, Fits(S), NEW A, Settled(S, A), NEW g,
         Halfway(S, A, g, Len(S), Len(S) + 1, 0), NEW d \in DOMAIN S
  PROVE  /\ \A k \in DOMAIN S[d].input :
              InputTypes(g[d])[k] =
                IF IsFloat(S, In(S, d, k)) /\ In(S, d, k) \in A
                THEN "bfloat16" ELSE InputTypes(S[d])[k]
         /\ DOMAIN OutputTypes(g[d]) = DOMAIN OutputPortTypes(S[d])
         /\ \A p \in DOMAIN OutputPortTypes(S[d]) : \A i : i.node = d /\ i.port = p =>
              OutputTypes(g[d])[p] =
                IF IsFloat(S, Out(S, i)) /\ Out(S, i) \in A
                THEN "bfloat16" ELSE OutputTypes(S[d])[p]
<1>1. d <= Len(S)
  <2>1. Len(S) \in Nat /\ DOMAIN S = 1..Len(S)
    BY GraphOf DEF Fits
  <2> QED
    BY <2>1
<1>2. /\ InputPortTypes(g[d]) = InputPortTypes(S[d])
      /\ OutputPortTypes(g[d]) = OutputPortTypes(S[d])
      /\ g[d].op = S[d].op /\ g[d].attr = Paint(S, A, d)
      /\ DOMAIN g[d].input = DOMAIN S[d].input
  <2>1. DOMAIN g[d].input = DOMAIN S[d].input
    BY DEF Halfway, InputsKept
  <2>2. /\ InputPortTypes(g[d]) = InputPortTypes(S[d])
        /\ OutputPortTypes(g[d]) = OutputPortTypes(S[d])
        /\ g[d].op = S[d].op
        /\ g[d].attr = IF d <= Len(S) THEN Paint(S, A, d) ELSE S[d].attr
    BY HalfwayNode
  <2> QED
    BY <1>1, <2>1, <2>2
<1>3. \A id \in GetTypeAttrs(S[d]) :
        GetDataType(g[d], id) = IF IsFloat(S, <<d, id>>) /\ <<d, id>> \in A
                                THEN "bfloat16" ELSE GetDataType(S[d], id)
  BY <1>2, PaintedNode
<1>4. ASSUME NEW k \in DOMAIN S[d].input
      PROVE  InputTypes(g[d])[k] =
               IF IsFloat(S, In(S, d, k)) /\ In(S, d, k) \in A
               THEN "bfloat16" ELSE InputTypes(S[d])[k]
  <2> DEFINE id == InputPortTypes(S[d])[k]
  <2>1. id \in GetTypeAttrs(S[d])
    BY NodeOf, PortsAreAttrs
  <2>2. InputTypes(g[d])[k] = GetDataType(g[d], id)
    BY <1>2 DEF InputTypes
  <2>3. InputTypes(S[d])[k] = GetDataType(S[d], id)
    BY DEF InputTypes
  <2>4. In(S, d, k) = <<d, id>>
    BY DEF In
  <2> QED
    BY <1>3, <2>1, <2>2, <2>3, <2>4
<1>5. ASSUME NEW p \in DOMAIN OutputPortTypes(S[d]), NEW i, i.node = d, i.port = p
      PROVE  OutputTypes(g[d])[p] =
               IF IsFloat(S, Out(S, i)) /\ Out(S, i) \in A
               THEN "bfloat16" ELSE OutputTypes(S[d])[p]
  <2> DEFINE id == OutputPortTypes(S[d])[p]
  <2>1. id \in GetTypeAttrs(S[d])
    BY PortsAreAttrs
  <2>2. OutputTypes(g[d])[p] = GetDataType(g[d], id)
    BY <1>2 DEF OutputTypes
  <2>3. OutputTypes(S[d])[p] = GetDataType(S[d], id)
    BY DEF OutputTypes
  <2>4. Out(S, i) = <<d, id>>
    BY <1>5 DEF Out
  <2> QED
    BY <1>3, <2>1, <2>2, <2>3, <2>4
<1>6. DOMAIN OutputTypes(g[d]) = DOMAIN OutputPortTypes(S[d])
  BY <1>2 DEF OutputTypes
<1> QED
  BY <1>4, <1>5, <1>6

LEMMA GraphLeft ==
  ASSUME NEW S, Fits(S), NEW A, Settled(S, A), NEW g,
         Halfway(S, A, g, Len(S), Len(S) + 1, 0)
  PROVE  /\ Len(S) \in Nat /\ DOMAIN S = 1..Len(S)
         /\ g \in Seq(Range(g))
         /\ Len(g) \in Nat /\ Len(S) <= Len(g) /\ DOMAIN g = 1..Len(g)
         /\ \A d \in DOMAIN S : \A k \in DOMAIN S[d].input :
              IF Crosses(S, A, d, k)
              THEN \E c \in (Len(S) + 1)..Len(g) :
                     /\ g[d].input[k] = [node |-> c, port |-> 1]
                     /\ IsCastOf(S, A, g[c], S[d].input[k])
              ELSE g[d].input[k] = S[d].input[k]
         /\ \A c \in (Len(S) + 1)..Len(g) : \E i :
              /\ i.node \in DOMAIN S /\ i.port \in DOMAIN OutputPortTypes(S[i.node])
              /\ i = [node |-> i.node, port |-> i.port] /\ i.port \in Nat \ {0}
              /\ IsFloat(S, Out(S, i)) /\ IsCastOf(S, A, g[c], i)
<1> DEFINE L == Len(S)
<1>1. L \in Nat /\ DOMAIN S = 1..L
  BY GraphOf DEF Fits
<1>2. g \in Seq(Range(g)) /\ Len(g) \in Nat /\ L <= Len(g) /\ DOMAIN g = 1..Len(g)
  BY DEF Halfway
<1>3. ASSUME NEW d \in DOMAIN S, NEW k \in DOMAIN S[d].input
      PROVE  Reached(S[d].input[k], L + 1, 0)
  <2>1. S[d].input[k].node \in DOMAIN S
    BY DEF Fits
  <2> QED
    BY <1>1, <2>1 DEF Reached
<1>4. ASSUME NEW d \in DOMAIN S, NEW k \in DOMAIN S[d].input
      PROVE  IF Crosses(S, A, d, k)
             THEN \E c \in (L + 1)..Len(g) :
                    /\ g[d].input[k] = [node |-> c, port |-> 1]
                    /\ IsCastOf(S, A, g[c], S[d].input[k])
             ELSE g[d].input[k] = S[d].input[k]
  <2>1. Read(S, A, g, d, k, L + 1, 0)
    BY DEF Halfway, InputsKept
  <2> QED
    BY <1>3, <2>1 DEF Read
<1>5. ASSUME NEW c \in (L + 1)..Len(g)
      PROVE  \E i : /\ i.node \in DOMAIN S /\ i.port \in DOMAIN OutputPortTypes(S[i.node])
                    /\ i = [node |-> i.node, port |-> i.port] /\ i.port \in Nat \ {0}
                    /\ IsFloat(S, Out(S, i)) /\ IsCastOf(S, A, g[c], i)
  <2>1. Added(S, A, g[c], L + 1, 0)
    BY DEF Halfway
  <2>2. PICK a \in DOMAIN S : \E q \in DOMAIN OutputPortTypes(S[a]) :
          LET i == [node |-> a, port |-> q]
          IN  IsFloat(S, Out(S, i)) /\ IsCastOf(S, A, g[c], i)
    BY <2>1 DEF Added
  <2>3. PICK q \in DOMAIN OutputPortTypes(S[a]) :
          LET i == [node |-> a, port |-> q]
          IN  IsFloat(S, Out(S, i)) /\ IsCastOf(S, A, g[c], i)
    BY <2>2
  <2>4. PICK i : i = [node |-> a, port |-> q]
    OBVIOUS
  <2>5. i.node = a /\ i.port = q /\ i = [node |-> i.node, port |-> i.port]
    BY <2>4
  <2>6. q \in Nat \ {0}
    <3>1. OutputPortTypes(S[a]) \in Seq(Ids)
      BY NodeOf
    <3> QED
      BY <3>1, LenProperties
  <2>7. IsFloat(S, Out(S, i)) /\ IsCastOf(S, A, g[c], i)
    BY <2>3, <2>4
  <2> QED
    BY <2>5, <2>6, <2>7
<1> QED
  BY <1>1, <1>2, <1>4, <1>5

(* Its edges join equal types. *)
LEMMA AgreeLeft ==
  ASSUME NEW S, Fits(S), EdgesAgree(S), NEW A, Settled(S, A), NEW g,
         Halfway(S, A, g, Len(S), Len(S) + 1, 0)
  PROVE  EdgesAgree(g)
<1> DEFINE L == Len(S)
<1>1. L \in Nat /\ DOMAIN S = 1..L /\ Len(g) \in Nat /\ L <= Len(g) /\ DOMAIN g = 1..Len(g)
  BY GraphLeft
<1>2. ASSUME NEW d \in DOMAIN S, NEW k \in DOMAIN S[d].input
      PROVE  InputTypes(g[d])[k] = OutputTypes(g[g[d].input[k].node])[g[d].input[k].port]
  <2> DEFINE i == S[d].input[k]
             t == InputTypes(S[d])[k]
  <2>1. /\ i.node \in DOMAIN S /\ i.port \in DOMAIN OutputPortTypes(S[i.node])
        /\ t = OutputTypes(S[i.node])[i.port]
    BY DEF Fits, EdgesAgree
  <2>2. IsFloat(S, In(S, d, k)) <=> t = "float"
    BY DEF IsFloat, In, InputTypes
  <2>3. IsFloat(S, Out(S, i)) <=> t = "float"
    BY <2>1 DEF IsFloat, Out, OutputTypes
  <2>4. InputTypes(g[d])[k] = IF t = "float" /\ In(S, d, k) \in A THEN "bfloat16" ELSE t
    BY <2>2, PaintedTypes
  <2>5. OutputTypes(g[i.node])[i.port] = IF t = "float" /\ Out(S, i) \in A
                                          THEN "bfloat16" ELSE t
    BY <2>1, <2>3, PaintedTypes
  <2>6. Crosses(S, A, d, k) <=> t = "float" /\ (In(S, d, k) \in A) # (Out(S, i) \in A)
    BY <2>3 DEF Crosses
  <2> HIDE DEF t, i
  <2>7. CASE Crosses(S, A, d, k)
    <3>1. PICK c \in (L + 1)..Len(g) :
            g[d].input[k] = [node |-> c, port |-> 1] /\ IsCastOf(S, A, g[c], i)
      BY <2>7, GraphLeft DEF i
    <3>2. OutputTypes(g[c])[1] = IF Out(S, i) \notin A THEN "bfloat16" ELSE "float"
      BY <3>1, CastTypes
    <3>3. g[d].input[k].node = c /\ g[d].input[k].port = 1
      BY <3>1
    <3> QED
      BY <2>4, <2>6, <2>7, <3>2, <3>3
  <2>8. CASE ~Crosses(S, A, d, k)
    <3>1. g[d].input[k] = i
      BY <2>8, GraphLeft DEF i
    <3> QED
      BY <2>4, <2>5, <2>6, <2>8, <3>1
  <2> QED
    BY <2>7, <2>8
<1>3. ASSUME NEW c \in (L + 1)..Len(g), NEW k \in DOMAIN g[c].input
      PROVE  InputTypes(g[c])[k] = OutputTypes(g[g[c].input[k].node])[g[c].input[k].port]
  <2>1. PICK i : /\ i.node \in DOMAIN S /\ i.port \in DOMAIN OutputPortTypes(S[i.node])
                 /\ IsFloat(S, Out(S, i)) /\ IsCastOf(S, A, g[c], i)
    BY GraphLeft
  <2>2. /\ g[c].input = <<i>>
        /\ InputTypes(g[c])[1] = (IF Out(S, i) \notin A THEN "float" ELSE "bfloat16")
    BY <2>1, CastTypes
  <2>3. k = 1 /\ g[c].input[k] = i
    BY <2>2
  <2>4. OutputTypes(S[i.node])[i.port] = "float"
    BY <2>1 DEF IsFloat, Out, OutputTypes
  <2>5. OutputTypes(g[i.node])[i.port] = IF Out(S, i) \in A THEN "bfloat16" ELSE "float"
    BY <2>1, <2>4, PaintedTypes
  <2> QED
    BY <2>2, <2>3, <2>5
<1>4. ASSUME NEW n \in DOMAIN g, NEW k \in DOMAIN g[n].input
      PROVE  InputTypes(g[n])[k] = OutputTypes(g[g[n].input[k].node])[g[n].input[k].port]
  <2>1. CASE n \in DOMAIN S
    <3>1. k \in DOMAIN S[n].input
      BY <2>1 DEF Halfway, InputsKept
    <3> QED
      BY <1>2, <2>1, <3>1
  <2>2. CASE n \notin DOMAIN S
    <3>1. n \in (L + 1)..Len(g)
      BY <1>1, <2>2
    <3> QED
      BY <1>3, <3>1
  <2> QED
    BY <2>1, <2>2
<1> QED
  BY <1>4 DEF EdgesAgree

LEMMA DefLeft ==
  ASSUME NEW S, Fits(S), NEW A, Settled(S, A), NEW g,
         Halfway(S, A, g, Len(S), Len(S) + 1, 0)
  PROVE  IsGraphDef(g)
<1> DEFINE L == Len(S)
           I == [node : 0..Len(g), port : Nat \ {0}]
<1>1. L \in Nat /\ DOMAIN S = 1..L /\ Len(g) \in Nat /\ L <= Len(g) /\ DOMAIN g = 1..Len(g)
  BY GraphLeft
<1>2. ASSUME NEW d \in DOMAIN S PROVE IsNodeDef(g[d], Len(g))
  <2> DEFINE attr == IF d <= L THEN Paint(S, A, d) ELSE S[d].attr
  <2>1. g[d] = [name |-> S[d].name, op |-> S[d].op, device |-> S[d].device,
                attr |-> attr, input |-> g[d].input]
    BY DEF Halfway, Kept
  <2> HIDE DEF attr
  <2>2. g[d] = [name |-> g[d].name, op |-> g[d].op, device |-> g[d].device,
                attr |-> g[d].attr, input |-> g[d].input]
    BY <2>1
  <2>3. g[d].input \in Seq(I)
    <3> DEFINE J == [node : 1..Len(g), port : Nat \ {0}]
               s == g[d].input
    <3>1. s \in Seq(J)
      BY DEF Halfway, InputsKept
    <3>2. J \subseteq I
      BY <1>1
    <3> HIDE DEF I, J, s
    <3>3. s \in Seq(I)
      BY <3>1, <3>2
    <3> QED
      BY <3>3 DEF s
  <2>4. HasValues(g[d].attr)
    BY HalfwayNode
  <2> QED
    BY <2>2, <2>3, <2>4 DEF IsNodeDef
<1>3. ASSUME NEW c \in (L + 1)..Len(g) PROVE IsNodeDef(g[c], Len(g))
  <2>1. PICK i : /\ i.node \in DOMAIN S /\ i.port \in Nat \ {0}
                 /\ i = [node |-> i.node, port |-> i.port] /\ IsCastOf(S, A, g[c], i)
    BY GraphLeft
  <2>2. /\ g[c] = [name |-> g[c].name, op |-> "Cast", device |-> g[c].device,
                   attr |-> g[c].attr, input |-> <<i>>]
        /\ HasValues(g[c].attr) /\ g[c].op = "Cast" /\ g[c].input = <<i>>
    BY <2>1, CastTypes
  <2>3. i \in I
    BY <1>1, <2>1
  <2>4. <<i>> \in Seq(I)
    <3> HIDE DEF I
    <3> QED
      BY <2>3
  <2> QED
    BY <2>2, <2>4 DEF IsNodeDef
<1>4. \A n \in DOMAIN g : IsNodeDef(g[n], Len(g))
  <2> SUFFICES ASSUME NEW n \in DOMAIN g PROVE IsNodeDef(g[n], Len(g))
    OBVIOUS
  <2>1. n \in DOMAIN S \/ n \in (L + 1)..Len(g)
    BY <1>1
  <2> QED
    BY <1>2, <1>3, <2>1
<1>5. g \in Seq(Range(g))
  BY GraphLeft
<1> QED
  BY <1>4, <1>5 DEF IsGraphDef

(* What the changes leave is what the optimizer promises. *)
LEMMA FinishedLeft ==
  ASSUME NEW it, ItemFits(it), NEW S, S = Selected(it), Fits(S),
         NEW A, Settled(S, A), LoopsAgree(S, A), NEW g,
         Halfway(S, A, g, Len(S), Len(S) + 1, 0)
  PROVE  Finished(it, g)
<1> DEFINE L == Len(S)
<1>1. L \in Nat /\ DOMAIN S = 1..L /\ Len(g) \in Nat /\ L <= Len(g) /\ DOMAIN g = 1..Len(g)
  BY GraphLeft
<1>2. EdgesAgree(S) /\ OneBackEdge(S)
  BY SelectedAgrees
<1>3. /\ DOMAIN S = DOMAIN it.graph /\ L = Len(it.graph)
      /\ \A n \in DOMAIN S : S[n].input = it.graph[n].input /\ ~Convertible(it, S[n])
  BY SelectedIsGraphDef
<1>4. \A d \in DOMAIN S : /\ g[d].name = S[d].name /\ g[d].op = S[d].op
                          /\ g[d].device = S[d].device
                          /\ DOMAIN g[d].input = DOMAIN S[d].input
  <2> SUFFICES ASSUME NEW d \in DOMAIN S
               PROVE  /\ g[d].name = S[d].name /\ g[d].op = S[d].op
                      /\ g[d].device = S[d].device
                      /\ DOMAIN g[d].input = DOMAIN S[d].input
    OBVIOUS
  <2>1. DOMAIN g[d].input = DOMAIN S[d].input
    BY DEF Halfway, InputsKept
  <2> QED
    BY <2>1, HalfwayNode
<1>5. \A c \in (L + 1)..Len(g) : g[c].op = "Cast" /\ DOMAIN g[c].input = {1}
  <2> SUFFICES ASSUME NEW c \in (L + 1)..Len(g)
               PROVE  g[c].op = "Cast" /\ DOMAIN g[c].input = {1}
    OBVIOUS
  <2>1. \E i : IsCastOf(S, A, g[c], i)
    BY GraphLeft
  <2>2. PICK i : g[c].op = "Cast" /\ g[c].input = <<i>>
    BY <2>1, CastTypes
  <2> QED
    BY <2>2
<1>6. \A n \in DOMAIN g : n \in DOMAIN S \/ n \in (L + 1)..Len(g)
  BY <1>1
<1>7. ASSUME NEW d \in DOMAIN S, NEW k \in DOMAIN S[d].input
      PROVE  LET i   == g[d].input[k]
                 old == S[d].input[k]
             IN  /\ i = old \/ /\ i.node \in (L + 1)..Len(g) /\ g[i.node].input[1] = old
                               /\ S[old.node].op # "NextIteration"
                 /\ old.node \in DOMAIN S
  <2> DEFINE i == g[d].input[k]
             old == S[d].input[k]
  <2>1. old.node \in DOMAIN S
    BY DEF Fits
  <2>2. CASE Crosses(S, A, d, k)
    <3>1. PICK c \in (L + 1)..Len(g) :
            g[d].input[k] = [node |-> c, port |-> 1] /\ IsCastOf(S, A, g[c], old)
      BY <2>2, GraphLeft
    <3>2. g[c].input = <<old>>
      BY <3>1, CastTypes
    <3>3. i.node = c
      BY <3>1
    <3>4. S[old.node].op # "NextIteration"
      BY <2>2, NoCastInLoop
    <3> HIDE DEF i, old
    <3> QED
      BY <2>1, <3>2, <3>3, <3>4 DEF i, old
  <2>3. CASE ~Crosses(S, A, d, k)
    <3>1. i = old
      BY <2>3, GraphLeft
    <3> QED
      BY <2>1, <3>1
  <2> QED
    BY <2>2, <2>3
<1>8. IsGraphDef(g) /\ EdgesAgree(g)
  BY <1>2, AgreeLeft, DefLeft
<1>9. OneBackEdge(g)
  <2> DEFINE Back(h, n, k) == h[n].input[k].node \in DOMAIN h
                               /\ h[h[n].input[k].node].op = "NextIteration"
  <2>1. ASSUME NEW n \in DOMAIN S, NEW k \in DOMAIN S[n].input, Back(g, n, k)
        PROVE  Back(S, n, k) /\ g[n].input[k].node = S[n].input[k].node
    <3> DEFINE m == g[n].input[k].node
               old == S[n].input[k]
    <3>1. /\ g[n].input[k] = old \/ m \in (L + 1)..Len(g)
          /\ old.node \in DOMAIN S
      BY <1>7
    <3>2. m \notin (L + 1)..Len(g)
      BY <1>5, <2>1
    <3>3. g[n].input[k] = old
      BY <3>1, <3>2
    <3> QED
      BY <1>4, <2>1, <3>1, <3>3
  <2>2. ASSUME NEW n \in DOMAIN g, NEW j \in DOMAIN g[n].input, NEW k \in DOMAIN g[n].input,
               Back(g, n, j), Back(g, n, k)
        PROVE  g[n].input[j].node = g[n].input[k].node
    <3>1. CASE n \in DOMAIN S
      <4>1. j \in DOMAIN S[n].input /\ k \in DOMAIN S[n].input
        BY <1>4, <3>1
      <4>2. /\ Back(S, n, j) /\ g[n].input[j].node = S[n].input[j].node
            /\ Back(S, n, k) /\ g[n].input[k].node = S[n].input[k].node
        BY <2>1, <2>2, <3>1, <4>1
      <4>3. S[n].input[j].node = S[n].input[k].node
        BY <1>2, <3>1, <4>1, <4>2 DEF OneBackEdge
      <4> QED
        BY <4>2, <4>3
    <3>2. CASE n \in (L + 1)..Len(g)
      <4>1. j = 1 /\ k = 1
        BY <1>5, <3>2
      <4> QED
        BY <4>1
    <3> QED
      BY <1>6, <3>1, <3>2
  <2> QED
    BY <2>2 DEF OneBackEdge
<1>10. ASSUME NEW n \in DOMAIN g PROVE ~Convertible(it, g[n])
  <2>1. CASE n \in DOMAIN S
    BY <1>3, <1>4, <2>1 DEF Convertible, IsOnDevice
  <2>2. CASE n \in (L + 1)..Len(g)
    BY <1>5, <2>2 DEF Convertible, BatchNormOps
  <2> QED
    BY <1>6, <2>1, <2>2
<1>11. InputsRead(it.graph, g)
  <2> DEFINE old == it.graph
  <2>1. ASSUME NEW n \in DOMAIN old, NEW k \in DOMAIN old[n].input
        PROVE  LET i == g[n].input[k]
               IN  /\ old[n].input[k] = IF i.node <= Len(old) THEN i ELSE g[i.node].input[1]
                   /\ g[old[n].input[k].node].op = "NextIteration" => i = old[n].input[k]
    <3> DEFINE i == g[n].input[k]
               j == S[n].input[k]
    <3>1. /\ n \in DOMAIN S /\ k \in DOMAIN S[n].input /\ j = old[n].input[k]
          /\ Len(old) = L
      BY <1>3
    <3>2. /\ i = j \/ /\ i.node \in (L + 1)..Len(g) /\ g[i.node].input[1] = j
                      /\ S[j.node].op # "NextIteration"
          /\ j.node \in DOMAIN S
      BY <1>7, <3>1
    <3>3. g[j.node].op = S[j.node].op
      BY <1>4, <3>2
    <3> HIDE DEF i, j
    <3>4. CASE i = j
      <4>1. i.node <= L
        BY <1>1, <3>2, <3>4
      <4> QED
        BY <3>1, <3>4, <4>1 DEF i, j
    <3>5. CASE /\ i.node \in (L + 1)..Len(g) /\ g[i.node].input[1] = j
               /\ S[j.node].op # "NextIteration"
      <4>1. ~(i.node <= L)
        BY <1>1, <3>5
      <4> QED
        BY <3>1, <3>3, <3>5, <4>1 DEF i, j
    <3> QED
      BY <3>2, <3>4, <3>5
  <2> QED
    BY <2>1 DEF InputsRead
<1> QED
  BY <1>8, <1>9, <1>10, <1>11 DEF Finished

(* So is what is left when there is nothing to paint. *)
LEMMA FinishedSelected ==
  ASSUME NEW it, ItemFits(it), Fits(Selected(it))
  PROVE  Finished(it, Selected(it))
<1> DEFINE S == Selected(it)
<1>1. EdgesAgree(S) /\ OneBackEdge(S) /\ IsGraphDef(S)
  BY SelectedAgrees, SelectedIsGraphDef
<1>2. /\ DOMAIN S = DOMAIN it.graph /\ Len(S) = Len(it.graph)
      /\ \A n \in DOMAIN S : S[n].input = it.graph[n].input /\ ~Convertible(it, S[n])
  BY SelectedIsGraphDef
<1>3. Len(S) \in Nat /\ DOMAIN S = 1..Len(S)
  BY <1>1, GraphOf
<1>4. InputsRead(it.graph, S)
  <2> DEFINE old == it.graph
  <2> HIDE DEF S
  <2>1. ASSUME NEW n \in DOMAIN old, NEW k \in DOMAIN old[n].input
        PROVE  LET i == S[n].input[k]
               IN  i = old[n].input[k] /\ i.node <= Len(old)
    <3>1. S[n].input[k] = old[n].input[k] /\ n \in DOMAIN S /\ k \in DOMAIN S[n].input
      BY <1>2
    <3>2. S[n].input[k].node \in DOMAIN S
      BY <3>1 DEF Fits, S
    <3> QED
      BY <1>2, <1>3, <3>1, <3>2
  <2> QED
    BY <2>1 DEF InputsRead
<1> HIDE DEF S
<1>5. Finished(it, S)
  BY <1>1, <1>2, <1>4 DEF Finished
<1> QED
  BY <1>5 DEF S

(* The optimizer may be run over it again. *)
LEMMA FinishedFits ==
  ASSUME NEW it, ItemFits(it), NEW g, Finished(it, g)
  PROVE  ItemFits([it EXCEPT !.graph = g])
<1> DEFINE next == [it EXCEPT !.graph = g]
<1>1. /\ next.graph = g /\ next.preserve = it.preserve
      /\ {"graph", "preserve"} \subseteq DOMAIN next
  BY DEF ItemFits
<1> HIDE DEF next
<1>2. \A x : Convertible(next, x) <=> Convertible(it, x)
  BY <1>1 DEF Convertible
<1>3. ItemFits(next)
  BY <1>1, <1>2 DEF ItemFits, Finished
<1> QED
  BY <1>3 DEF next

(* A graph and its first node are on the way before the first step. *)
LEMMA HalfwayStart ==
  ASSUME NEW S, Fits(S), NEW A
  PROVE  Halfway(S, A, S, 0, 1, 0)
<1>1. Len(S) \in Nat /\ DOMAIN S = 1..Len(S) /\ S \in Seq(Range(S))
  BY GraphOf DEF Fits, IsGraphDef
<1>2. ASSUME NEW d \in DOMAIN S PROVE Kept(S, A, S, d, 0) /\ InputsKept(S, A, S, d, 1, 0)
  <2>1. IsNodeDef(S[d], Len(S))
    BY GraphOf DEF Fits
  <2>2. ~(d <= 0)
    BY <1>1
  <2>3. Kept(S, A, S, d, 0)
    BY <2>1, <2>2 DEF Kept, IsNodeDef
  <2>4. \A k \in DOMAIN S[d].input : Read(S, A, S, d, k, 1, 0)
    <3> TAKE k \in DOMAIN S[d].input
    <3>1. S[d].input[k].node \in DOMAIN S
      BY DEF Fits
    <3>2. S[d].input[k].port \in Nat \ {0}
      BY <1>1, <2>1, InputOf
    <3>3. ~Reached(S[d].input[k], 1, 0)
      BY <1>1, <3>1, <3>2 DEF Reached
    <3> QED
      BY <3>3 DEF Read
  <2>5. S[d].input \in Seq([node : 1..Len(S), port : Nat \ {0}])
    <3> DEFINE s == S[d].input
               I == [node : 0..Len(S), port : Nat \ {0}]
               J == [node : 1..Len(S), port : Nat \ {0}]
    <3>1. \A k \in DOMAIN s : s[k].node \in 1..Len(S)
      BY <1>1 DEF Fits
    <3>2. s \in Seq(I)
      BY <2>1 DEF IsNodeDef
    <3>3. \A i \in I : i.node \in 1..Len(S) => i \in J
      OBVIOUS
    <3> HIDE DEF s, I, J
    <3>4. s \in Seq(J)
      BY <3>1, <3>2, <3>3
    <3> QED
      BY <3>4 DEF s, J
  <2> QED
    BY <2>3, <2>4, <2>5 DEF InputsKept
<1>3. \A c \in (Len(S) + 1)..Len(S) : FALSE
  BY <1>1
<1> QED
  BY <1>1, <1>2, <1>3 DEF Halfway

-----------------------------------------------------------------------------
(* Painting.                                                               *)

(* A traversal meets its roots and what it may enter. *)
LEMMA TraversalStays ==
  ASSUME NEW roots, NEW E, NEW enter, NEW v \in FromAll(roots, E, enter)
  PROVE  v \in roots \/ v \in enter
<1>1. PICK r \in roots : v \in DfsTypeTraversal(r, E, enter)
  BY DEF FromAll
<1>2. v = r \/ v \in enter
  BY <1>1, Zenon DEF DfsTypeTraversal
<1> QED
  BY <1>1, <1>2

LEMMA SupportedCanBeSet ==
  ASSUME NEW v, SupportsF16(v)
  PROVE  CanBeSet(graph, v)
BY DEF SupportsF16, NodeHasF16Kernel, CanBeSet

(* A float type that is no element of a list and not fixed can be set. *)
LEMMA SingleCanBeSet ==
  ASSUME NEW S, NEW n, NEW id, id.type_index = kSingleType,
         id.attr_name = "" => id.fixed_type # "float"
  PROVE  CanBeSet(S, <<n, id>>)
BY DEF CanBeSet, CanSetDataType, GetDataType

LEMMA ListValuesCanBeSet ==
  ASSUME NEW cs, NEW v \in UNION {Values(c) : c \in cs}
  PROVE  CanBeSet(graph, v)
<1>1. PICK c \in cs : v \in Values(c)
  OBVIOUS
<1>2. PICK n \in c : v \in TensorListFloat32(n)
  BY <1>1 DEF Values
<1>3. PICK id : v = <<n, id>> /\ id.fixed_type = "invalid" /\ id.type_index = kSingleType
  BY <1>2 DEF TensorListFloat32
<1> QED
  BY <1>3, SingleCanBeSet

LEMMA LoopTypesCanBeSet ==
  ASSUME NEW S, NEW n
  PROVE  CanBeSet(S, T(n)) /\ CanBeSet(S, DstT(n))
<1>1. /\ TypeAttr("T").type_index = kSingleType /\ TypeAttr("T").attr_name = "T"
      /\ TypeAttr("DstT").type_index = kSingleType /\ TypeAttr("DstT").attr_name = "DstT"
  BY DEF TypeAttr
<1>2. "T" # "" /\ "DstT" # ""
  OBVIOUS
<1> QED
  BY <1>1, <1>2, SingleCanBeSet DEF T, DstT

(* The loop of AddInferToAllowIfFollowAllow. *)
LEMMA FollowersMayBeAllowed ==
  ASSUME Len(graph) \in Nat, NEW v \in Followers
  PROVE  v \in allow_set \/ MayBeAllowed(v)
<1> DEFINE L == Len(graph)
           Next_(k, before) ==
             before \cup {u \in view.vertices : u[1] = k /\ FollowsAllow(u, before)}
           Loop(g, k) == g = [n \in 0..k |-> IF n = 0 THEN allow_set ELSE Next_(n, g[n - 1])]
           P == {k \in 0..L : \E g : Loop(g, k)}
           f == CHOOSE g : Loop(g, L)
<1>1. Followers = f[L]
  BY DEF Followers
<1> HIDE DEF Next_
<1>2. 0 \in P
  <2> DEFINE g == [n \in 0..0 |-> allow_set]
  <2>1. g = [n \in 0..0 |-> IF n = 0 THEN allow_set ELSE Next_(n, g[n - 1])]
    OBVIOUS
  <2>2. Loop(g, 0)
    BY <2>1
  <2> HIDE DEF Loop
  <2> QED
    BY <2>2
<1>3. ASSUME NEW k \in 1..L, k - 1 \in P PROVE k \in P
  <2>1. PICK g : Loop(g, k - 1)
    BY <1>3
  <2> DEFINE w == Next_(k, g[k - 1])
             h == [n \in 0..k |-> IF n = k THEN w ELSE g[n]]
  <2>2. \A n \in 0..(k - 1) : h[n] = g[n]
    OBVIOUS
  <2>3. ASSUME NEW n \in 0..k
        PROVE  h[n] = IF n = 0 THEN allow_set ELSE Next_(n, h[n - 1])
    <3>1. CASE n = k
      <4>1. h[n] = w /\ n - 1 \in 0..(k - 1) /\ n # 0
        BY <3>1
      <4>2. h[n - 1] = g[k - 1]
        BY <2>2, <3>1, <4>1
      <4> HIDE DEF h
      <4> QED
        BY <3>1, <4>1, <4>2
    <3>2. CASE n # k
      <4>1. n \in 0..(k - 1) /\ (n # 0 => n - 1 \in 0..(k - 1))
        BY <3>2
      <4>2. g[n] = IF n = 0 THEN allow_set ELSE Next_(n, g[n - 1])
        BY <2>1, <4>1
      <4>3. h[n] = g[n] /\ (n # 0 => h[n - 1] = g[n - 1])
        BY <2>2, <4>1
      <4> HIDE DEF h, Loop
      <4> QED
        BY <4>2, <4>3
    <3> QED
      BY <3>1, <3>2
  <2>4. h = [n \in 0..k |-> h[n]]
    OBVIOUS
  <2> HIDE DEF h, w
  <2>5. h = [n \in 0..k |-> IF n = 0 THEN allow_set ELSE Next_(n, h[n - 1])]
    BY <2>3, <2>4
  <2>6. Loop(h, k)
    BY <2>5
  <2> HIDE DEF Loop
  <2> QED
    BY <2>6
<1>4. P = 0..L
  <2>1. P \in SUBSET (0..L)
    OBVIOUS
  <2> HIDE DEF P
  <2> QED
    BY <1>2, <1>3, <2>1, Throughout
<1>5. Loop(f, L)
  <2>1. \E g : Loop(g, L)
    BY <1>4
  <2> HIDE DEF Loop
  <2> QED
    BY <2>1
<1> HIDE DEF f
<1>6. f[0] = allow_set /\ \A n \in 1..L : f[n] = Next_(n, f[n - 1])
  <2>1. f[0] = allow_set
    BY <1>5
  <2>2. \A n \in 1..L : f[n] = Next_(n, f[n - 1])
    BY <1>5
  <2> QED
    BY <2>1, <2>2
<1> DEFINE Q == {k \in 0..L : \A u \in f[k] : u \in allow_set \/ MayBeAllowed(u)}
<1>7. Q = 0..L
  <2>1. 0 \in Q
    BY <1>6
  <2>2. ASSUME NEW k \in 1..L, k - 1 \in Q PROVE k \in Q
    <3>1. \A u \in f[k - 1] : u \in allow_set \/ MayBeAllowed(u)
      BY <2>2
    <3>2. \A u \in f[k] : u \in f[k - 1] \/ FollowsAllow(u, f[k - 1])
      BY <1>6 DEF Next_
    <3>3. \A u : FollowsAllow(u, f[k - 1]) => MayBeAllowed(u)
      BY DEF FollowsAllow
    <3>4. \A u \in f[k] : u \in allow_set \/ MayBeAllowed(u)
      BY <3>1, <3>2, <3>3
    <3> QED
      BY <3>4
  <2>3. Q \in SUBSET (0..L)
    OBVIOUS
  <2> HIDE DEF Q
  <2> QED
    BY <2>1, <2>2, <2>3, Throughout
<1>8. L \in 0..L
  OBVIOUS
<1>9. \A u \in f[L] : u \in allow_set \/ MayBeAllowed(u)
  BY <1>7, <1>8
<1> QED
  BY <1>1, <1>9

(* The loop of ForceColorMatchOnRecurrentEdges. *)
LEMMA RecurrentLoop ==
  ASSUME Len(graph) \in Nat
  PROVE  \E f : /\ f[0] = [allow |-> allow_set, status |-> "OK"]
                /\ \A n \in 1..Len(graph) : f[n] = MatchRecurrentEdges(n, f[n - 1])
                /\ Recurrent = f[Len(graph)]
<1> DEFINE L == Len(graph)
           start == [allow |-> allow_set, status |-> "OK"]
           Loop(g, k) == g = [n \in 0..k |-> IF n = 0 THEN start
                                             ELSE MatchRecurrentEdges(n, g[n - 1])]
           P == {k \in 0..L : \E g : Loop(g, k)}
           f == CHOOSE g : Loop(g, L)
<1>1. Recurrent = f[L]
  BY DEF Recurrent
<1> HIDE DEF start
<1>2. 0 \in P
  <2> DEFINE g == [n \in 0..0 |-> start]
  <2>1. g = [n \in 0..0 |-> IF n = 0 THEN start ELSE MatchRecurrentEdges(n, g[n - 1])]
    OBVIOUS
  <2>2. Loop(g, 0)
    BY <2>1
  <2> HIDE DEF Loop
  <2> QED
    BY <2>2
<1>3. ASSUME NEW k \in 1..L, k - 1 \in P PROVE k \in P
  <2>1. PICK g : Loop(g, k - 1)
    BY <1>3
  <2> DEFINE w == MatchRecurrentEdges(k, g[k - 1])
             h == [n \in 0..k |-> IF n = k THEN w ELSE g[n]]
  <2>2. \A n \in 0..(k - 1) : h[n] = g[n]
    OBVIOUS
  <2>3. ASSUME NEW n \in 0..k
        PROVE  h[n] = IF n = 0 THEN start ELSE MatchRecurrentEdges(n, h[n - 1])
    <3>1. CASE n = k
      <4>1. h[n] = w /\ n - 1 \in 0..(k - 1) /\ n # 0
        BY <3>1
      <4>2. h[n - 1] = g[k - 1]
        BY <2>2, <3>1, <4>1
      <4> HIDE DEF h
      <4> QED
        BY <3>1, <4>1, <4>2
    <3>2. CASE n # k
      <4>1. n \in 0..(k - 1) /\ (n # 0 => n - 1 \in 0..(k - 1))
        BY <3>2
      <4>2. g[n] = IF n = 0 THEN start ELSE MatchRecurrentEdges(n, g[n - 1])
        BY <2>1, <4>1
      <4>3. h[n] = g[n] /\ (n # 0 => h[n - 1] = g[n - 1])
        BY <2>2, <4>1
      <4> HIDE DEF h, Loop
      <4> QED
        BY <4>2, <4>3
    <3> QED
      BY <3>1, <3>2
  <2>4. h = [n \in 0..k |-> h[n]]
    OBVIOUS
  <2> HIDE DEF h, w
  <2>5. h = [n \in 0..k |-> IF n = 0 THEN start ELSE MatchRecurrentEdges(n, h[n - 1])]
    BY <2>3, <2>4
  <2>6. Loop(h, k)
    BY <2>5
  <2> HIDE DEF Loop
  <2> QED
    BY <2>6
<1>4. P = 0..L
  <2>1. P \in SUBSET (0..L)
    OBVIOUS
  <2> HIDE DEF P
  <2> QED
    BY <1>2, <1>3, <2>1, Throughout
<1>5. Loop(f, L)
  <2>1. \E g : Loop(g, L)
    BY <1>4
  <2> HIDE DEF Loop
  <2> QED
    BY <2>1
<1> HIDE DEF f
<1>6. f[0] = start /\ \A n \in 1..L : f[n] = MatchRecurrentEdges(n, f[n - 1])
  <2>1. f[0] = start
    BY <1>5
  <2>2. \A n \in 1..L : f[n] = MatchRecurrentEdges(n, f[n - 1])
    BY <1>5
  <2> QED
    BY <2>1, <2>2
<1> QED
  BY <1>1, <1>6 DEF start

(* Loops of which the NextIterations up to node m have been matched. *)
LoopsAgreeUpTo(S, A, m) ==
  \A n \in DOMAIN S : n <= m /\ S[n].op = "NextIteration" =>
    \A d \in DOMAIN S : \A k \in DOMAIN S[d].input :
      S[d].input[k] = [node |-> n, port |-> 1] =>
        S[d].op = "Merge" /\ (T(d) \in A <=> T(n) \in A)

LEMMA OneLoopMatched ==
  ASSUME NEW S, S = graph, Fits(S), OneBackEdge(S), NEW n \in DOMAIN S,
         NEW before, before.status = "OK",
         before = [allow |-> before.allow, status |-> before.status],
         Settled(S, before.allow), LoopsAgreeUpTo(S, before.allow, n - 1),
         MatchRecurrentEdges(n, before).status = "OK"
  PROVE  /\ Settled(S, MatchRecurrentEdges(n, before).allow)
         /\ LoopsAgreeUpTo(S, MatchRecurrentEdges(n, before).allow, n)
<1> DEFINE merges == {d[1] : d \in Fanout(n, 1)}
           loop == {T(m) : m \in merges}
           after == MatchRecurrentEdges(n, before)
           A == before.allow
           B == after.allow
<1>1. \A d \in DOMAIN S : \A k \in DOMAIN S[d].input :
        S[d].input[k] = [node |-> n, port |-> 1] => d \in merges
  <2> SUFFICES ASSUME NEW d \in DOMAIN S, NEW k \in DOMAIN S[d].input,
                      S[d].input[k] = [node |-> n, port |-> 1]
               PROVE  d \in merges
    OBVIOUS
  <2>1. <<d, k>> \in Fanout(n, 1)
    BY DEF Fanout
  <2>2. <<d, k>>[1] = d
    OBVIOUS
  <2> QED
    BY <2>1, <2>2
<1>2. \A m \in merges : m \in DOMAIN S /\ \E k \in DOMAIN S[m].input :
                           S[m].input[k] = [node |-> n, port |-> 1]
  <2> SUFFICES ASSUME NEW v \in Fanout(n, 1)
               PROVE  v[1] \in DOMAIN S /\ \E k \in DOMAIN S[v[1]].input :
                           S[v[1]].input[k] = [node |-> n, port |-> 1]
    OBVIOUS
  <2>1. PICK d \in DOMAIN graph :
          v \in {d} \X {k \in DOMAIN graph[d].input :
                          graph[d].input[k] = [node |-> n, port |-> 1]}
    BY DEF Fanout
  <2> QED
    BY <2>1
<1>3. \A a, b : T(a) = T(b) => a = b
  BY DEF T
<1>4. CASE S[n].op # "NextIteration"
  <2>1. after = before
    BY <1>4 DEF MatchRecurrentEdges
  <2>2. ASSUME NEW m \in DOMAIN S, m <= n, S[m].op = "NextIteration"
        PROVE  m <= n - 1
    <3>1. m # n /\ m \in Int /\ n \in Int
      BY <1>4, <2>2, GraphOf DEF Fits
    <3> QED
      BY <2>2, <3>1
  <2>3. LoopsAgreeUpTo(S, A, n)
    BY <2>2 DEF LoopsAgreeUpTo
  <2> QED
    BY <2>1, <2>3
<1>5. CASE S[n].op = "NextIteration"
  <2>1. /\ \A m \in merges : S[m].op = "Merge"
        /\ \/ loop \subseteq A /\ B = A \cup {T(n)}
           \/ ~(loop \subseteq A) /\ B = A \ (loop \cup {T(n)})
    <3>1. ~(before.status # "OK" \/ graph[n].op # "NextIteration")
      BY <1>5
    <3>2. ~(\E m \in merges : graph[m].op # "Merge")
      BY <3>1 DEF MatchRecurrentEdges
    <3>3. loop \cup {T(n)} \subseteq view.vertices
      BY <3>1, <3>2 DEF MatchRecurrentEdges
    <3>4. after = IF loop \subseteq A THEN [before EXCEPT !.allow = @ \cup {T(n)}]
                  ELSE [before EXCEPT !.allow = @ \ (loop \cup {T(n)})]
      BY <3>1, <3>2, <3>3 DEF MatchRecurrentEdges
    <3> HIDE DEF after, merges, loop
    <3>5. CASE loop \subseteq A
      <4>1. after = [allow |-> A \cup {T(n)}, status |-> before.status]
        BY <3>4, <3>5
      <4> QED
        BY <3>2, <3>5, <4>1
    <3>6. CASE ~(loop \subseteq A)
      <4>1. after = [allow |-> A \ (loop \cup {T(n)}), status |-> before.status]
        BY <3>4, <3>6
      <4> QED
        BY <3>2, <3>6, <4>1
    <3> QED
      BY <3>5, <3>6
  <2> HIDE DEF after, B, merges
  <2>2. \A m \in merges : T(m) \in B <=> T(n) \in B
    BY <2>1
  <2>3. ASSUME NEW x, x \notin merges, x # n
        PROVE  T(x) \in B <=> T(x) \in A
    <3>1. T(x) # T(n) /\ T(x) \notin loop
      BY <1>3, <2>3
    <3> HIDE DEF loop
    <3> QED
      BY <2>1, <3>1
  <2>4. Settled(S, B)
    <3>1. \A v \in B : v \in A \/ v = T(n)
      <4> HIDE DEF loop
      <4> QED
        BY <2>1
    <3>2. CanBeSet(S, T(n))
      BY LoopTypesCanBeSet
    <3> QED
      BY <3>1, <3>2 DEF Settled
  <2>5. ASSUME NEW m \in DOMAIN S, m <= n, S[m].op = "NextIteration",
               NEW d \in DOMAIN S, NEW k \in DOMAIN S[d].input,
               S[d].input[k] = [node |-> m, port |-> 1]
        PROVE  S[d].op = "Merge" /\ (T(d) \in B <=> T(m) \in B)
    <3>1. CASE m = n
      <4>1. d \in merges
        BY <1>1, <2>5, <3>1
      <4> QED
        BY <2>1, <2>2, <3>1, <4>1
    <3>2. CASE m # n
      <4>1. m <= n - 1
        <5>1. m \in Int /\ n \in Int
          BY GraphOf DEF Fits
        <5> QED
          BY <2>5, <3>2, <5>1
      <4>2. S[d].op = "Merge" /\ (T(d) \in A <=> T(m) \in A)
        BY <2>5, <4>1 DEF LoopsAgreeUpTo
      <4>3. d # n /\ m \notin merges
        BY <1>5, <2>1, <2>5, <4>2
      <4>4. d \notin merges
        <5>1. SUFFICES ASSUME d \in merges PROVE FALSE
          OBVIOUS
        <5>2. PICK j \in DOMAIN S[d].input : S[d].input[j] = [node |-> n, port |-> 1]
          BY <1>2, <5>1
        <5>3. S[d].input[j].node = n /\ S[d].input[k].node = m
          BY <2>5, <5>2
        <5>4. S[d].input[j].node = S[d].input[k].node
          BY <1>5, <2>5, <5>3 DEF OneBackEdge
        <5> QED
          BY <3>2, <5>3, <5>4
      <4>5. T(d) \in B <=> T(d) \in A
        BY <2>3, <4>3, <4>4
      <4>6. T(m) \in B <=> T(m) \in A
        BY <2>3, <3>2, <4>3
      <4> QED
        BY <4>2, <4>5, <4>6
    <3> QED
      BY <3>1, <3>2
  <2>6. LoopsAgreeUpTo(S, B, n)
    BY <2>5 DEF LoopsAgreeUpTo
  <2> QED
    BY <2>4, <2>6 DEF B, after
<1> QED
  BY <1>4, <1>5

(* Matching all of them, if none is refused. *)
LEMMA LoopsMatched ==
  ASSUME NEW S, S = graph, Fits(S), OneBackEdge(S), Settled(S, allow_set),
         Recurrent.status = "OK"
  PROVE  Settled(S, Recurrent.allow) /\ LoopsAgree(S, Recurrent.allow)
<1> DEFINE L == Len(graph)
<1>1. L \in Nat /\ DOMAIN S = 1..L
  BY GraphOf DEF Fits
<1>2. PICK f : /\ f[0] = [allow |-> allow_set, status |-> "OK"]
               /\ \A n \in 1..L : f[n] = MatchRecurrentEdges(n, f[n - 1])
               /\ Recurrent = f[L]
  BY <1>1, RecurrentLoop
<1> HIDE DEF L
<1> DEFINE Good(x, n) == Settled(S, x.allow) /\ LoopsAgreeUpTo(S, x.allow, n)
           P == {n \in 0..L : /\ f[n] = [allow |-> f[n].allow, status |-> f[n].status]
                              /\ f[n].status = "OK" => Good(f[n], n)}
<1>3. 0 \in P
  <2>1. f[0] = [allow |-> allow_set, status |-> "OK"]
    BY <1>2
  <2>2. f[0] = [allow |-> f[0].allow, status |-> f[0].status] /\ f[0].allow = allow_set
    BY <2>1
  <2>3. LoopsAgreeUpTo(S, allow_set, 0)
    BY <1>1 DEF LoopsAgreeUpTo
  <2>4. Good(f[0], 0)
    BY <2>2, <2>3
  <2>5. 0 \in 0..L
    BY <1>1
  <2> HIDE DEF Good
  <2> QED
    BY <2>2, <2>4, <2>5
<1>4. ASSUME NEW n \in 1..L, n - 1 \in P PROVE n \in P
  <2> DEFINE before == f[n - 1]
             after == MatchRecurrentEdges(n, before)
  <2>1. f[n] = after /\ n \in 0..L /\ n \in DOMAIN S
    BY <1>1, <1>2
  <2>2. /\ before = [allow |-> before.allow, status |-> before.status]
        /\ before.status = "OK" => Good(before, n - 1)
    BY <1>4
  <2> HIDE DEF before
  <2>3. after = [allow |-> after.allow, status |-> after.status]
    <3> DEFINE loop == {T(m) : m \in {d[1] : d \in Fanout(n, 1)}}
    <3>1. \/ after = before
          \/ after = [before EXCEPT !.status = "FailedPrecondition"]
          \/ after = [before EXCEPT !.status = "Internal"]
          \/ after = [before EXCEPT !.allow = @ \cup {T(n)}]
          \/ after = [before EXCEPT !.allow = @ \ (loop \cup {T(n)})]
      BY DEF MatchRecurrentEdges
    <3> HIDE DEF loop, after
    <3> QED
      BY <2>2, <3>1
  <2>4. ASSUME after.status = "OK" PROVE before.status = "OK"
    <3>1. before.status # "OK" => after = before
      BY DEF MatchRecurrentEdges
    <3> QED
      BY <2>4, <3>1
  <2>5. ASSUME after.status = "OK" PROVE Good(after, n)
    BY <2>1, <2>2, <2>4, <2>5, OneLoopMatched
  <2> HIDE DEF after, Good
  <2> QED
    BY <2>1, <2>3, <2>5
<1>5. P = 0..L
  <2>1. P \in SUBSET (0..L)
    OBVIOUS
  <2> HIDE DEF P
  <2> QED
    BY <1>1, <1>3, <1>4, <2>1, Throughout
<1>6. Good(f[L], L)
  <2>1. L \in P /\ f[L].status = "OK"
    BY <1>1, <1>2, <1>5
  <2> HIDE DEF Good
  <2> QED
    BY <2>1
<1>7. LoopsAgree(S, f[L].allow)
  <2>1. \A n \in DOMAIN S : n <= L
    BY <1>1
  <2> QED
    BY <1>6, <2>1 DEF LoopsAgree, LoopsAgreeUpTo
<1> QED
  BY <1>2, <1>6, <1>7

(* Painting what Casts give leaves loops alone. *)
LEMMA CastsLeaveLoops ==
  ASSUME NEW S, NEW A, LoopsAgree(S, A), NEW C,
         \A v \in C : \E n : v = DstT(n)
  PROVE  LoopsAgree(S, A \cup C)
<1>1. \A n, m : T(n) # DstT(m)
  BY DEF T, DstT, TypeAttr
<1>2. \A n : T(n) \in A \cup C <=> T(n) \in A
  BY <1>1
<1> QED
  BY <1>2 DEF LoopsAgree

-----------------------------------------------------------------------------
(* The invariant holds, step by step.                                      *)

LEMMA InitFits == Init => IInv
<1> SUFFICES ASSUME Init PROVE IInv
  OBVIOUS
<1>1. /\ item \in Items /\ graph = item.graph /\ phase = "options"
      /\ allow_set = {} /\ node_idx = 1
  BY DEF Init
<1>2. ItemFits(item)
  <2>1. /\ {"graph", "preserve"} \subseteq DOMAIN item
        /\ IsGraphDef(item.graph)
        /\ GraphStatus(item.graph) = "OK" => EdgesAgree(item.graph)
        /\ OneBackEdge(item.graph)
    BY <1>1, GraphsAssumption
  <2>2. \A n \in DOMAIN item.graph :
          LET x == item.graph[n]
          IN  x.op \in BatchNormOps =>
                /\ AddNode(x) = "OK"
                /\ "U" \notin DOMAIN x.attr
                /\ InputTypes(BatchNormV2(x)) = InputTypes(x)
                /\ OutputTypes(BatchNormV2(x)) = OutputTypes(x)
    BY <1>1, GraphsAssumption
  <2> QED
    BY <2>1, <2>2 DEF ItemFits, Convertible
<1>3. GraphAt
  BY <1>1 DEF GraphAt, Painting, Matching
<1>4. PaintAt
  BY <1>1 DEF PaintAt, Painting, Matching
<1>5. ChangeAt /\ ~Done
  BY <1>1 DEF ChangeAt, Done
<1> QED
  BY <1>2, <1>3, <1>4, <1>5 DEF IInv

LEMMA Stutters == IInv /\ UNCHANGED vars => IInv'
<1> SUFFICES ASSUME IInv, UNCHANGED vars PROVE IInv'
  OBVIOUS
<1>1. /\ item' = item /\ graph' = graph /\ phase' = phase /\ status' = status
      /\ allow_set' = allow_set /\ node_idx' = node_idx
  BY DEF vars
<1>2. GraphAt' /\ PaintAt'
  BY <1>1 DEF IInv, GraphAt, PaintAt
<1>3. ChangeAt' /\ (Done => Finished(item, graph))'
  BY <1>1 DEF IInv, ChangeAt, Done
<1> QED
  BY <1>1, <1>2, <1>3 DEF IInv

(* A pass that fails. *)
LEMMA ReturnKeeps ==
  ASSUME IInv, NEW s, s # "OK", Return(s)
  PROVE  IInv'
<1>1. item' = item /\ phase' = "done" /\ status' # "OK"
  BY DEF Return
<1>2. GraphAt' /\ PaintAt'
  BY <1>1 DEF GraphAt, PaintAt, Unpainted, Painting, Matching
<1>3. ChangeAt' /\ ~Done'
  BY <1>1 DEF ChangeAt, Done
<1> QED
  BY <1>1, <1>2, <1>3 DEF IInv

(* A step that finds out what to paint. *)
LEMMA GraphIsSelected ==
  ASSUME IInv, phase \in {"lists", "allowlist"} \cup Painting \cup Matching
  PROVE  ItemFits(item) /\ graph = Selected(item) /\ Fits(graph) /\ node_idx = 1
<1>1. phase \in Unpainted \cup Painting \cup Matching
  BY DEF Unpainted
<1> QED
  BY <1>1 DEF IInv, GraphAt

LEMMA PaintingKeeps ==
  ASSUME IInv, phase \in {"lists", "allowlist"} \cup Painting \cup Matching,
         phase' \in {"allowlist"} \cup Painting \cup Matching,
         item' = item, graph' = graph, node_idx' = node_idx, PaintAt'
  PROVE  IInv'
<1>1. ItemFits(item) /\ graph = Selected(item) /\ Fits(graph) /\ node_idx = 1
  BY GraphIsSelected
<1>2. phase' \notin {"options", "types", "change", "done"}
  BY DEF Painting, Matching
<1>3. GraphAt'
  BY <1>1, <1>2 DEF GraphAt
<1>4. ChangeAt' /\ ~Done'
  BY <1>2 DEF ChangeAt, Done
<1> QED
  BY <1>1, <1>3, <1>4 DEF IInv

(* What it has to show. *)
LEMMA PaintableKept ==
  ASSUME phase' \in Painting, Paintable(item', graph', allow_set')
  PROVE  PaintAt'
<1>1. phase' \notin Unpainted \cup Matching \cup {"change", "casts"}
  BY DEF Painting, Unpainted, Matching
<1> QED
  BY <1>1 DEF PaintAt, Matching

LEMMA SettledKept ==
  ASSUME phase' \in Matching \cup {"change"}, Settled(Selected(item)', allow_set'),
         phase' \in {"casts", "change"} => LoopsAgree(Selected(item)', allow_set')
  PROVE  PaintAt'
<1>1. phase' \notin Unpainted \cup Painting
  BY DEF Painting, Unpainted, Matching
<1> QED
  BY <1>1 DEF PaintAt

LEMMA SelectNodesKeeps == IInv /\ SelectNodes => IInv'
<1> SUFFICES ASSUME IInv, SelectNodes PROVE IInv'
  OBVIOUS
<1>1. /\ phase = "options" /\ phase' = "types" /\ item' = item
      /\ node_idx' = node_idx /\ allow_set' = allow_set
  BY DEF SelectNodes, GoTo
<1>2. ItemFits(item) /\ graph = item.graph /\ node_idx = 1 /\ allow_set = {}
  BY <1>1 DEF IInv, GraphAt, PaintAt, Unpainted
<1>3. graph' = Selected(item)
  <2>1. should_process' = {n \in DOMAIN graph : /\ ~MustPreserve(graph[n])
                                                /\ IsOnDevice(graph[n])}
    BY DEF SelectNodes
  <2>2. \A n \in DOMAIN graph :
          Convertible(item, graph[n]) <=>
            n \in should_process' /\ graph[n].op \in BatchNormOps
    BY <2>1 DEF Convertible, MustPreserve
  <2>3. graph' = [n \in DOMAIN graph |->
                    IF n \in should_process' /\ graph[n].op \in BatchNormOps
                    THEN BatchNormV2(graph[n]) ELSE graph[n]]
    BY DEF SelectNodes
  <2> QED
    BY <1>2, <2>2, <2>3 DEF Selected
<1>4. GraphAt'
  BY <1>1, <1>2, <1>3 DEF GraphAt, Painting, Matching
<1>5. PaintAt'
  BY <1>1, <1>2 DEF PaintAt, Painting, Matching
<1>6. ChangeAt' /\ ~Done'
  BY <1>1 DEF ChangeAt, Done
<1> QED
  BY <1>1, <1>2, <1>4, <1>5, <1>6 DEF IInv

LEMMA InitializeTypesKeeps == IInv /\ InitializeTypes => IInv'
<1> SUFFICES ASSUME IInv, InitializeTypes PROVE IInv'
  OBVIOUS
<1>1. /\ phase = "types" /\ phase' = "lists" /\ item' = item /\ graph' = graph
      /\ node_idx' = node_idx /\ allow_set' = allow_set /\ GraphStatus(graph) = "OK"
  BY DEF InitializeTypes, GoTo
<1>2. ItemFits(item) /\ graph = Selected(item) /\ node_idx = 1 /\ allow_set = {}
  BY <1>1 DEF IInv, GraphAt, PaintAt, Unpainted
<1>3. Fits(graph)
  <2>1. IsGraphDef(graph)
    BY <1>2, SelectedIsGraphDef
  <2> QED
    BY <1>1, <2>1, FitsMeans
<1>4. GraphAt'
  BY <1>1, <1>2, <1>3 DEF GraphAt
<1>5. PaintAt'
  BY <1>1, <1>2 DEF PaintAt, Painting, Matching
<1>6. ChangeAt' /\ ~Done'
  BY <1>1 DEF ChangeAt, Done
<1> QED
  BY <1>1, <1>2, <1>4, <1>5, <1>6 DEF IInv

LEMMA FindTensorListsKeeps == IInv /\ FindTensorLists => IInv'
<1> SUFFICES ASSUME IInv, FindTensorLists PROVE IInv'
  OBVIOUS
<1>1. /\ phase = "lists" /\ phase' = "allowlist" /\ item' = item /\ graph' = graph
      /\ node_idx' = node_idx /\ allow_set' = allow_set
  BY DEF FindTensorLists, GoTo
<1>2. allow_set = {}
  BY <1>1 DEF IInv, PaintAt, Unpainted
<1>3. PaintAt'
  BY <1>1, <1>2 DEF PaintAt, Painting, Matching
<1> QED
  BY <1>1, <1>3, PaintingKeeps

LEMMA SkipOptimizationKeeps == IInv /\ SkipOptimization => IInv'
<1> SUFFICES ASSUME IInv, SkipOptimization PROVE IInv'
  OBVIOUS
<1>1. phase = "allowlist" /\ phase' = "done" /\ item' = item /\ graph' = graph
  BY DEF SkipOptimization
<1>2. ItemFits(item) /\ graph = Selected(item) /\ Fits(graph)
  BY <1>1, GraphIsSelected
<1>3. Finished(item, graph)
  BY <1>2, FinishedSelected
<1>4. GraphAt' /\ PaintAt' /\ ChangeAt'
  BY <1>1 DEF GraphAt, PaintAt, ChangeAt, Unpainted, Painting, Matching
<1> QED
  BY <1>1, <1>2, <1>3, <1>4 DEF IInv

LEMMA AddAllowlistOpsKeeps == IInv /\ AddAllowlistOps => IInv'
<1> SUFFICES ASSUME IInv, AddAllowlistOps PROVE IInv'
  OBVIOUS
<1>1. /\ phase = "allowlist" /\ phase' = "deny" /\ item' = item /\ graph' = graph
      /\ node_idx' = node_idx /\ allow_set' = allow_set \cup AllowlistVertices
  BY DEF AddAllowlistOps, GoTo
<1>2. allow_set = {}
  BY <1>1 DEF IInv, PaintAt, Unpainted
<1>3. Paintable(item, graph, allow_set')
  BY <1>1, <1>2 DEF Paintable, AllowlistVertices, On, Op
<1>4. phase' \in Painting
  BY <1>1 DEF Painting
<1>5. PaintAt'
  BY <1>1, <1>3, <1>4, PaintableKept
<1> QED
  BY <1>1, <1>4, <1>5, PaintingKeeps

(* A step that adds vertices that can be set. *)
LEMMA AddedKeeps ==
  ASSUME IInv, phase \in Painting, phase' \in Painting, item' = item, graph' = graph,
         node_idx' = node_idx,
         \A v \in allow_set' : v \in allow_set \cup AllowlistVertices \/ CanBeSet(graph, v)
  PROVE  IInv'
<1>1. Paintable(item, graph, allow_set)
  BY DEF IInv, PaintAt
<1>2. \A v \in AllowlistVertices : graph[v[1]].op \in Lists(item.update)["ALLOWLIST"]
  BY DEF AllowlistVertices, On, Op
<1>3. Paintable(item, graph, allow_set')
  BY <1>1, <1>2 DEF Paintable
<1>4. PaintAt'
  BY <1>3, PaintableKept
<1> QED
  BY <1>4, PaintingKeeps

LEMMA MayBeSet ==
  ASSUME NEW v, MayBeAllowed(v)
  PROVE  CanBeSet(graph, v)
BY SupportedCanBeSet DEF MayBeAllowed

LEMMA PropagateDenyKeeps == IInv /\ PropagateDenyFwdThroughClearAndInfer => IInv'
<1> SUFFICES ASSUME IInv, PropagateDenyFwdThroughClearAndInfer PROVE IInv'
  OBVIOUS
<1>1. /\ phase = "deny" /\ phase' = "match" /\ item' = item /\ graph' = graph
      /\ node_idx' = node_idx /\ allow_set' = allow_set
  BY DEF PropagateDenyFwdThroughClearAndInfer, GoTo
<1>2. phase \in Painting /\ phase' \in Painting
  BY <1>1 DEF Painting
<1> QED
  BY <1>1, <1>2, AddedKeeps

LEMMA ForceColorMatchKeeps == IInv /\ ForceColorMatchBetweenTensorListOps => IInv'
<1> SUFFICES ASSUME IInv, ForceColorMatchBetweenTensorListOps PROVE IInv'
  OBVIOUS
<1>1. /\ \/ phase = "match" /\ phase' = "between"
         \/ phase = "match again" /\ phase' = "recurrent"
      /\ item' = item /\ graph' = graph /\ node_idx' = node_idx
  BY DEF ForceColorMatchBetweenTensorListOps, GoTo
<1>2. \A v \in allow_set' : v \in allow_set \/ CanBeSet(graph, v)
  <2>1. allow_set' = (allow_set \ UNION {Values(c) : c \in DeniedLists})
                       \cup UNION {Values(c) : c \in AllowedLists}
    BY DEF ForceColorMatchBetweenTensorListOps
  <2>2. \A v \in UNION {Values(c) : c \in AllowedLists} : CanBeSet(graph, v)
    BY ListValuesCanBeSet
  <2> QED
    BY <2>1, <2>2
<1>3. CASE phase = "match" /\ phase' = "between"
  <2>1. phase \in Painting /\ phase' \in Painting
    BY <1>3 DEF Painting
  <2> QED
    BY <1>1, <1>2, <2>1, AddedKeeps
<1>4. CASE phase = "match again" /\ phase' = "recurrent"
  <2>1. phase \in Matching /\ phase' \in Matching /\ phase' \notin {"casts", "change"}
    BY <1>4 DEF Matching
  <2>2. graph = Selected(item)
    BY <2>1, GraphIsSelected
  <2>3. Settled(graph, allow_set)
    BY <2>1, <2>2 DEF IInv, PaintAt
  <2>4. Settled(graph, allow_set')
    BY <1>2, <2>3 DEF Settled
  <2>5. PaintAt'
    BY <1>1, <2>1, <2>2, <2>4, SettledKept
  <2> QED
    BY <1>1, <2>1, <2>5, PaintingKeeps
<1> QED
  BY <1>1, <1>3, <1>4

LEMMA BetweenKeeps == IInv /\ AddClearAndInferToAllowIfBetweenAllow => IInv'
<1> SUFFICES ASSUME IInv, AddClearAndInferToAllowIfBetweenAllow PROVE IInv'
  OBVIOUS
<1>1. /\ phase = "between" /\ phase' = "infer" /\ item' = item /\ graph' = graph
      /\ node_idx' = node_idx
      /\ allow_set' = allow_set \cup FromAll(AllowlistVertices, ToFanins, DownstreamOfAllow)
  BY DEF AddClearAndInferToAllowIfBetweenAllow, GoTo
<1>2. phase \in Painting /\ phase' \in Painting
  BY <1>1 DEF Painting
<1>3. ASSUME NEW v \in DownstreamOfAllow
      PROVE  v \in AllowlistVertices \/ CanBeSet(graph, v)
  <2> DEFINE between == {u \in view.vertices : /\ ~On(u, "ALLOWLIST")
                                               /\ MayBeAllowed(u)
                                               /\ On(u, "CLEARLIST") \/ On(u, "INFERLIST")}
  <2>1. v \in FromAll(AllowlistVertices, ToFanouts, between)
    BY DEF DownstreamOfAllow
  <2>2. v \in AllowlistVertices \/ v \in between
    <3> HIDE DEF between
    <3> QED
      BY <2>1, TraversalStays
  <2> QED
    BY <2>2, MayBeSet
<1>4. \A v \in FromAll(AllowlistVertices, ToFanins, DownstreamOfAllow) :
        v \in AllowlistVertices \/ CanBeSet(graph, v)
  BY <1>3, TraversalStays
<1>5. \A v \in allow_set' : v \in allow_set \cup AllowlistVertices \/ CanBeSet(graph, v)
  BY <1>1, <1>4
<1> QED
  BY <1>1, <1>2, <1>5, AddedKeeps

LEMMA FollowKeeps == IInv /\ AddInferToAllowIfFollowAllow => IInv'
<1> SUFFICES ASSUME IInv, AddInferToAllowIfFollowAllow PROVE IInv'
  OBVIOUS
<1>1. /\ phase = "infer" /\ phase' = "clear" /\ item' = item /\ graph' = graph
      /\ node_idx' = node_idx /\ allow_set' = Followers
  BY DEF AddInferToAllowIfFollowAllow, GoTo
<1>2. phase \in Painting /\ phase' \in Painting
  BY <1>1 DEF Painting
<1>3. Len(graph) \in Nat
  BY <1>2, GraphIsSelected, GraphOf DEF Fits
<1>4. \A v \in allow_set' : v \in allow_set \/ CanBeSet(graph, v)
  BY <1>1, <1>3, FollowersMayBeAllowed, MayBeSet
<1> QED
  BY <1>1, <1>2, <1>4, AddedKeeps

LEMMA PropagateAllowKeeps == IInv /\ PropagateAllowThroughClear => IInv'
<1> SUFFICES ASSUME IInv, PropagateAllowThroughClear PROVE IInv'
  OBVIOUS
<1> DEFINE roots == {v \in allow_set : ShouldProcess(v)}
           enter == {v \in view.vertices \ allow_set :
                       /\ MayBeAllowed(v) /\ On(v, "CLEARLIST") /\ ~ReadsVariable(v[1])}
<1>1. /\ phase = "clear" /\ phase' = "fp32" /\ item' = item /\ graph' = graph
      /\ node_idx' = node_idx /\ allow_set' = allow_set \cup FromAll(roots, ToAll, enter)
  BY DEF PropagateAllowThroughClear, GoTo
<1>2. phase \in Painting /\ phase' \in Painting
  BY <1>1 DEF Painting
<1>3. \A v \in roots : v \in allow_set
  OBVIOUS
<1>4. \A v \in enter : CanBeSet(graph, v)
  BY MayBeSet
<1> HIDE DEF roots, enter
<1>5. \A v \in allow_set' : v \in allow_set \/ CanBeSet(graph, v)
  BY <1>1, <1>3, <1>4, TraversalStays
<1> QED
  BY <1>1, <1>2, <1>5, AddedKeeps

LEMMA RemoveKeeps == IInv /\ RemoveAllowsetWithFp32 => IInv'
<1> SUFFICES ASSUME IInv, RemoveAllowsetWithFp32 PROVE IInv'
  OBVIOUS
<1>1. /\ phase = "fp32" /\ phase' = "match again" /\ item' = item /\ graph' = graph
      /\ node_idx' = node_idx
      /\ allow_set' = {v \in allow_set : On(v, "ALLOWLIST") => SupportsF16(v)}
  BY DEF RemoveAllowsetWithFp32, GoTo
<1>2. phase \in Painting /\ phase' \in Matching /\ phase' \notin {"casts", "change"}
  BY <1>1 DEF Painting, Matching
<1>3. Paintable(item, graph, allow_set) /\ graph = Selected(item)
  BY <1>2, GraphIsSelected DEF IInv, PaintAt
<1>4. \A v \in allow_set' : CanBeSet(graph, v)
  <2> SUFFICES ASSUME NEW v \in allow_set' PROVE CanBeSet(graph, v)
    OBVIOUS
  <2>1. v \in allow_set /\ (On(v, "ALLOWLIST") => SupportsF16(v))
    BY <1>1
  <2>2. On(v, "ALLOWLIST") \/ CanBeSet(graph, v)
    BY <1>3, <2>1 DEF Paintable, On, Op
  <2> QED
    BY <2>1, <2>2, SupportedCanBeSet
<1>5. Settled(graph, allow_set')
  BY <1>4 DEF Settled
<1>6. PaintAt'
  BY <1>1, <1>2, <1>3, <1>5, SettledKept
<1> QED
  BY <1>1, <1>2, <1>6, PaintingKeeps

LEMMA RecurrentKeeps == IInv /\ ForceColorMatchOnRecurrentEdges => IInv'
<1> SUFFICES ASSUME IInv, ForceColorMatchOnRecurrentEdges PROVE IInv'
  OBVIOUS
<1>1. /\ phase = "recurrent" /\ phase' = "casts" /\ item' = item /\ graph' = graph
      /\ node_idx' = node_idx /\ allow_set' = Recurrent.allow
      /\ Recurrent.status = "OK"
  BY DEF ForceColorMatchOnRecurrentEdges, GoTo
<1>2. phase \in Matching /\ phase' \in Matching
  BY <1>1 DEF Matching
<1>3. ItemFits(item) /\ graph = Selected(item) /\ Fits(graph)
  BY <1>2, GraphIsSelected
<1>4. Settled(graph, allow_set)
  BY <1>2, <1>3 DEF IInv, PaintAt
<1>5. OneBackEdge(graph)
  BY <1>3, SelectedAgrees
<1>6. Settled(graph, allow_set') /\ LoopsAgree(graph, allow_set')
  BY <1>1, <1>3, <1>4, <1>5, LoopsMatched
<1>7. PaintAt'
  BY <1>1, <1>2, <1>3, <1>6, SettledKept
<1> QED
  BY <1>1, <1>2, <1>7, PaintingKeeps

LEMMA MakeCastsKeeps == IInv /\ MakeCastsAllowIfAllOutputsAllow => IInv'
<1> SUFFICES ASSUME IInv, MakeCastsAllowIfAllOutputsAllow PROVE IInv'
  OBVIOUS
<1> DEFINE C == {DstT(n) : n \in {m \in DOMAIN graph :
                                    /\ graph[m].op = "Cast" /\ IsFloat32(DstT(m))
                                    /\ Fanout(m, 1) # {}
                                    /\ \A d \in Fanout(m, 1) :
                                         InputVertex(d[1], d[2]) \in allow_set}}
           S == Selected(item)
<1>1. /\ phase = "casts" /\ phase' = "change" /\ item' = item /\ graph' = graph
      /\ node_idx' = node_idx /\ allow_set' = allow_set \cup C
  BY DEF MakeCastsAllowIfAllOutputsAllow, GoTo
<1>2. \A v \in C : \E n : v = DstT(n)
  OBVIOUS
<1> HIDE DEF C
<1>3. phase \in Matching
  BY <1>1 DEF Matching
<1>4. ItemFits(item) /\ graph = S /\ Fits(S) /\ node_idx = 1
  BY <1>3, GraphIsSelected
<1>5. Settled(S, allow_set) /\ LoopsAgree(S, allow_set)
  BY <1>1, <1>3 DEF IInv, PaintAt
<1> HIDE DEF S
<1>6. Settled(S, allow_set')
  BY <1>1, <1>2, <1>5, LoopTypesCanBeSet DEF Settled
<1>7. LoopsAgree(S, allow_set')
  BY <1>1, <1>2, <1>5, CastsLeaveLoops
<1>8. PaintAt'
  BY <1>1, <1>6, <1>7, SettledKept DEF S
<1>9. GraphAt'
  BY <1>1 DEF GraphAt, Unpainted, Painting, Matching
<1>10. ChangeAt'
  <2>1. Halfway(S, allow_set', S, 0, 1, 0)
    BY <1>4, HalfwayStart
  <2>2. Len(item.graph) \in Nat
    BY <1>4, GraphOf DEF ItemFits
  <2>3. 1 - 1 = 0 /\ 1 \in 1..(Len(item.graph) + 1)
    BY <2>2
  <2> QED
    BY <1>1, <1>4, <2>1, <2>3 DEF ChangeAt, S
<1>11. ~Done'
  BY <1>1 DEF Done
<1> QED
  BY <1>1, <1>4, <1>8, <1>9, <1>10, <1>11 DEF IInv

LEMMA ChangeKeeps == IInv /\ ChangeTypeAttrsAndAddCasts => IInv'
<1> SUFFICES ASSUME IInv, ChangeTypeAttrsAndAddCasts PROVE IInv'
  OBVIOUS
<1> DEFINE S == Selected(item)
           n == node_idx
<1>1. /\ phase = "change" /\ phase' = "change" /\ item' = item /\ status' = status
      /\ graph' = Changed(n) /\ node_idx' = n + 1 /\ allow_set' = allow_set
      /\ n <= Len(item.graph)
  BY DEF ChangeTypeAttrsAndAddCasts
<1>2. /\ ItemFits(item) /\ Fits(S) /\ n \in 1..(Len(item.graph) + 1)
      /\ Halfway(S, allow_set, graph, n - 1, n, 0)
  BY <1>1 DEF IInv, ChangeAt
<1>3. Settled(S, allow_set) /\ LoopsAgree(S, allow_set)
  BY <1>1 DEF IInv, PaintAt
<1>4. Len(item.graph) \in Nat /\ n \in DOMAIN S /\ n + 1 \in 1..(Len(item.graph) + 1)
  <2>1. Len(item.graph) \in Nat /\ DOMAIN item.graph = 1..Len(item.graph)
    BY <1>2, GraphOf DEF ItemFits
  <2>2. DOMAIN S = DOMAIN item.graph
    BY <1>2, SelectedIsGraphDef
  <2> QED
    BY <1>1, <1>2, <2>1, <2>2
<1> HIDE DEF S
<1>5. Halfway(S, allow_set, Changed(n), n, n + 1, 0)
  BY <1>2, <1>3, <1>4, NodeChanged
<1>6. ChangeAt'
  <2>1. (n + 1) - 1 = n
    BY <1>4, <1>2
  <2> QED
    BY <1>1, <1>2, <1>4, <1>5, <2>1 DEF ChangeAt, S
<1>7. GraphAt'
  BY <1>1 DEF GraphAt, Unpainted, Painting, Matching
<1>8. PaintAt'
  BY <1>1, <1>3, SettledKept DEF S
<1>9. ~Done'
  BY <1>1 DEF Done
<1> QED
  BY <1>1, <1>2, <1>6, <1>7, <1>8, <1>9 DEF IInv

LEMMA CompleteKeeps == IInv /\ Complete => IInv'
<1> SUFFICES ASSUME IInv, Complete PROVE IInv'
  OBVIOUS
<1> DEFINE S == Selected(item)
<1>1. /\ phase = "change" /\ phase' = "done" /\ item' = item /\ graph' = graph
      /\ node_idx > Len(item.graph)
  BY DEF Complete
<1>2. /\ ItemFits(item) /\ Fits(S) /\ node_idx \in 1..(Len(item.graph) + 1)
      /\ Halfway(S, allow_set, graph, node_idx - 1, node_idx, 0)
      /\ Settled(S, allow_set) /\ LoopsAgree(S, allow_set)
  BY <1>1 DEF IInv, ChangeAt, PaintAt
<1>3. /\ Len(S) \in Nat /\ Len(S) = Len(item.graph)
      /\ node_idx - 1 = Len(S) /\ node_idx = Len(S) + 1
  <2>1. Len(item.graph) \in Nat /\ Len(S) = Len(item.graph)
    BY <1>2, SelectedIsGraphDef, GraphOf DEF ItemFits
  <2> QED
    BY <1>1, <1>2, <2>1
<1>4. Finished(item, graph)
  <2>1. Halfway(S, allow_set, graph, Len(S), Len(S) + 1, 0)
    BY <1>2, <1>3
  <2> QED
    BY <1>2, <2>1, FinishedLeft
<1>5. GraphAt' /\ PaintAt' /\ ChangeAt'
  BY <1>1 DEF GraphAt, PaintAt, ChangeAt, Unpainted, Painting, Matching
<1> QED
  BY <1>1, <1>2, <1>4, <1>5 DEF IInv

LEMMA RunAgainKeeps == IInv /\ RunAutoMixedPrecision => IInv'
<1> SUFFICES ASSUME IInv, RunAutoMixedPrecision PROVE IInv'
  OBVIOUS
<1>1. /\ Done /\ item' = [item EXCEPT !.graph = graph] /\ graph' = graph
      /\ phase' = "options" /\ allow_set' = {} /\ node_idx' = 1
  BY DEF RunAutoMixedPrecision, Done
<1>2. ItemFits(item) /\ Finished(item, graph)
  BY <1>1 DEF IInv
<1>3. ItemFits(item') /\ item'.graph = graph
  <2>1. "graph" \in DOMAIN item
    BY <1>2 DEF ItemFits
  <2> QED
    BY <1>1, <1>2, <2>1, FinishedFits
<1>4. GraphAt'
  BY <1>1, <1>3 DEF GraphAt, Painting, Matching
<1>5. PaintAt' /\ ChangeAt' /\ ~Done'
  BY <1>1 DEF PaintAt, ChangeAt, Done, Painting, Matching
<1> QED
  BY <1>3, <1>4, <1>5 DEF IInv

LEMMA Keeps == IInv /\ [Next]_vars => IInv'
<1> SUFFICES ASSUME IInv, [Next]_vars PROVE IInv'
  OBVIOUS
<1>1. CASE RefuseOptions
  BY <1>1, ReturnKeeps DEF RefuseOptions
<1>2. CASE RefuseGraph
  BY <1>2, ReturnKeeps DEF RefuseGraph
<1>3. CASE AbortOnWriter
  BY <1>3, ReturnKeeps DEF AbortOnWriter
<1>4. CASE RefuseLoop
  BY <1>4, ReturnKeeps DEF RefuseLoop
<1>5. CASE \/ SelectNodes \/ InitializeTypes \/ FindTensorLists
           \/ SkipOptimization \/ AddAllowlistOps
  BY <1>5, SelectNodesKeeps, InitializeTypesKeeps, FindTensorListsKeeps,
     SkipOptimizationKeeps, AddAllowlistOpsKeeps
<1>6. CASE \/ PropagateDenyFwdThroughClearAndInfer
           \/ ForceColorMatchBetweenTensorListOps
           \/ AddClearAndInferToAllowIfBetweenAllow
           \/ AddInferToAllowIfFollowAllow
           \/ PropagateAllowThroughClear
           \/ RemoveAllowsetWithFp32
  BY <1>6, PropagateDenyKeeps, ForceColorMatchKeeps, BetweenKeeps, FollowKeeps,
     PropagateAllowKeeps, RemoveKeeps
<1>7. CASE \/ ForceColorMatchOnRecurrentEdges
           \/ MakeCastsAllowIfAllOutputsAllow
           \/ ChangeTypeAttrsAndAddCasts \/ Complete
           \/ RunAutoMixedPrecision
  BY <1>7, RecurrentKeeps, MakeCastsKeeps, ChangeKeeps, CompleteKeeps,
     RunAgainKeeps
<1>8. CASE UNCHANGED vars
  BY <1>8, Stutters
<1> QED
  BY <1>1, <1>2, <1>3, <1>4, <1>5, <1>6, <1>7, <1>8 DEF Next

LEMMA Invariant == Spec => []IInv
BY InitFits, Keeps, PTL DEF Spec

-----------------------------------------------------------------------------
(* Whatever the graphs, the op lists, the kernels and the nodes to         *)
(* preserve, and however often the optimizer is run over what it has made: *)
(* when Optimize returns OK, both ends of every edge have one type.  A     *)
(* port that ChangeTypeAttrsAndAddCasts changed and a reader it did not    *)
(* change have a Cast between them, and only those.                        *)
THEOREM EdgesAlwaysAgree == Spec => []TypesAgree
<1>1. IInv => TypesAgree
  BY DEF IInv, TypesAgree, Finished
<1> QED
  BY <1>1, Invariant, PTL

(* When Optimize returns OK every node still reads the port it has read,   *)
(* at most through a Cast of it, and what a NextIteration feeds it feeds   *)
(* without one: ForceColorMatchOnRecurrentEdges leaves no back edge that   *)
(* the change of types would have to cast.                                 *)
THEOREM EdgesAlwaysKept == Spec => []EdgesKept
<1>1. IInv => EdgesKept
  BY DEF IInv, EdgesKept, Finished, InputsRead
<1> QED
  BY <1>1, Invariant, PTL

-----------------------------------------------------------------------------
(* What a traversal meets.                                                 *)

(* E leads from v to w. *)
Joins(E, v, w) == \E e \in E : e[1] = v /\ e[2] = w

(* E leads from M to nothing more that may be entered. *)
Closed(M, E, enter) == \A v \in M : \A w \in enter : Joins(E, v, w) => w \in M

LEMMA BeyondIs ==
  ASSUME NEW E, NEW met, NEW w
  PROVE  w \in Beyond(E, met) <=> \E v \in met : Joins(E, v, w)
BY DEF Beyond, Joins

(* The loop of a traversal, a round for each vertex it may enter. *)
Rounds(f, root, E, enter) ==
  /\ f \in [0..Cardinality(enter) -> SUBSET (enter \cup {root})]
  /\ f[0] = {root}
  /\ \A k \in 1..Cardinality(enter) :
       f[k] = f[k - 1] \cup (enter \cap Beyond(E, f[k - 1]))
  /\ DfsTypeTraversal(root, E, enter) = {root} \cup (enter \cap f[Cardinality(enter)])

LEMMA TraversalLoop ==
  ASSUME NEW root, NEW E, NEW enter, IsFiniteSet(enter)
  PROVE  \E f : Rounds(f, root, E, enter)
<1> DEFINE L == Cardinality(enter)
           S == SUBSET (enter \cup {root})
           Round(met) == met \cup (enter \cap Beyond(E, met))
           F == [d \in 1..L |-> [met \in S |-> Round(met)]]
           Loop(g) == g = [k \in 0..L |-> IF k = 0 THEN {root} ELSE Round(g[k - 1])]
           f == CHOOSE h : Loop(h)
<1>1. L \in Nat
  BY FS_CardinalityType
<1>2. \A met \in S : Round(met) \in S
  OBVIOUS
<1>3. {root} \in S
  OBVIOUS
<1>4. DfsTypeTraversal(root, E, enter) = {root} \cup (enter \cap f[L])
  BY DEF DfsTypeTraversal
<1> HIDE DEF L, S, Round
<1>5. PICK g \in [0..L -> S] : g[0] = {root} /\ \A d \in 1..L : g[d] = F[d][g[d - 1]]
  <2>1. F \in Steps(L, S)
    BY <1>2 DEF Steps
  <2> HIDE DEF F
  <2>2. Runs(F, {root}, L, S) # {}
    BY <1>1, <1>3, <2>1, Iterates
  <2> QED
    BY <2>2 DEF Runs
<1>6. \A d \in 1..L : g[d] = Round(g[d - 1])
  <2> TAKE d \in 1..L
  <2>1. g[d - 1] \in S
    BY <1>1, <1>5
  <2> QED
    BY <1>5, <2>1
<1> HIDE DEF F
<1>7. Loop(g)
  <2>1. g = [k \in 0..L |-> g[k]]
    BY <1>5
  <2>2. \A k \in 0..L : g[k] = IF k = 0 THEN {root} ELSE Round(g[k - 1])
    <3> TAKE k \in 0..L
    <3>1. k = 0 \/ k \in 1..L
      BY <1>1
    <3> QED
      BY <1>1, <1>5, <1>6, <3>1
  <2> QED
    BY <2>1, <2>2
<1>8. Loop(f)
  <2> HIDE DEF Loop
  <2> QED
    BY <1>7
<1> HIDE DEF f
<1>9. f = [k \in 0..L |-> f[k]] /\ f[0] = {root}
  BY <1>1, <1>8
<1>10. \A k \in 1..L : f[k] = Round(f[k - 1])
  <2> TAKE k \in 1..L
  <2>1. k \in 0..L /\ k # 0
    BY <1>1
  <2> QED
    BY <1>8, <2>1
<1> HIDE DEF Loop
<1> DEFINE P == {k \in 0..L : f[k] \in S}
<1>11. P = 0..L
  <2>1. 0 \in P
    <3>1. 0 \in 0..L
      BY <1>1
    <3>2. f[0] = {root}
      BY <1>9
    <3>3. f[0] \in S
      BY <1>3, <3>2, Zenon
    <3> QED
      BY <3>1, <3>3
  <2>2. ASSUME NEW d \in 1..L, d - 1 \in P PROVE d \in P
    <3>1. d \in 0..L /\ f[d] = Round(f[d - 1])
      BY <1>1, <1>10
    <3> QED
      BY <1>2, <2>2, <3>1
  <2>3. P \in SUBSET (0..L)
    OBVIOUS
  <2> HIDE DEF P
  <2> QED
    BY <1>1, <2>1, <2>2, <2>3, Throughout
<1>12. f \in [0..L -> S]
  <2>1. \A k \in 0..L : f[k] \in S
    BY <1>11
  <2> QED
    BY <1>9, <2>1
<1> QED
  BY <1>4, <1>9, <1>10, <1>12 DEF L, S, Round, Rounds

(* A traversal meets its root and all that can be reached from it, for it  *)
(* stops only when a round has met nothing new.                            *)
LEMMA TraversalIs ==
  ASSUME NEW root, NEW E, NEW enter, IsFiniteSet(enter)
  PROVE  LET M == DfsTypeTraversal(root, E, enter)
         IN  /\ root \in M /\ M \subseteq enter \cup {root}
             /\ Closed(M, E, enter)
             /\ \A N : root \in N /\ Closed(N, E, enter) => M \subseteq N
<1> DEFINE L == Cardinality(enter)
           M == DfsTypeTraversal(root, E, enter)
<1>1. L \in Nat
  BY FS_CardinalityType
<1>10. PICK f : Rounds(f, root, E, enter)
  BY TraversalLoop
<1>2. /\ f \in [0..L -> SUBSET (enter \cup {root})] /\ f[0] = {root}
      /\ \A k \in 1..L : f[k] = f[k - 1] \cup (enter \cap Beyond(E, f[k - 1]))
      /\ M = {root} \cup (enter \cap f[L])
  BY <1>10 DEF Rounds
<1> HIDE DEF L, M
<1>3. ASSUME NEW k \in 1..L, NEW w
      PROVE  w \in f[k] <=> \/ w \in f[k - 1]
                            \/ w \in enter /\ \E v \in f[k - 1] : Joins(E, v, w)
  <2>1. f[k] = f[k - 1] \cup (enter \cap Beyond(E, f[k - 1]))
    BY <1>2
  <2>2. w \in Beyond(E, f[k - 1]) <=> \E v \in f[k - 1] : Joins(E, v, w)
    BY BeyondIs
  <2> QED
    BY <2>1, <2>2
<1>4. ASSUME NEW N, root \in N, Closed(N, E, enter)
      PROVE  \A k \in 0..L : f[k] \subseteq N
  <2> DEFINE P == {k \in 0..L : f[k] \subseteq N}
  <2>1. 0 \in P
    BY <1>1, <1>2, <1>4
  <2>2. ASSUME NEW d \in 1..L, d - 1 \in P PROVE d \in P
    <3>1. d \in 0..L /\ f[d - 1] \subseteq N
      BY <1>1, <2>2
    <3>2. ASSUME NEW w \in f[d] PROVE w \in N
      BY <1>3, <1>4, <3>1 DEF Closed
    <3> QED
      BY <3>1, <3>2
  <2>3. P \in SUBSET (0..L)
    OBVIOUS
  <2>4. P = 0..L
    <3> HIDE DEF P
    <3> QED
      BY <1>1, <2>1, <2>2, <2>3, Throughout
  <2> QED
    BY <2>4
<1>5. \A k \in 0..L : /\ root \in f[k]
                      /\ \/ Closed(f[k], E, enter)
                         \/ Cardinality(enter \cap f[k]) >= k
  <2> DEFINE Full(k) == Cardinality(enter \cap f[k]) >= k
             P == {k \in 0..L : root \in f[k] /\ (Closed(f[k], E, enter) \/ Full(k))}
  <2>1. ASSUME NEW k \in 0..L
        PROVE  IsFiniteSet(enter \cap f[k]) /\ Cardinality(enter \cap f[k]) \in Nat
    BY FS_Intersection, FS_CardinalityType
  <2>2. 0 \in P
    <3>1. 0 \in 0..L
      BY <1>1
    <3>2. Full(0)
      BY <2>1, <3>1
    <3> HIDE DEF Full
    <3> QED
      BY <1>2, <3>1, <3>2
  <2>3. ASSUME NEW d \in 1..L, d - 1 \in P PROVE d \in P
    <3>1. d \in 0..L /\ d - 1 \in 0..L /\ d \in Int
      BY <1>1
    <3>2. \A w \in f[d - 1] : w \in f[d]
      BY <1>3
    <3>3. root \in f[d]
      BY <2>3, <3>2
    <3>4. CASE Closed(f[d - 1], E, enter)
      <4>1. \A w \in f[d] : w \in f[d - 1]
        BY <1>3, <3>4 DEF Closed
      <4>2. Closed(f[d], E, enter)
        BY <3>2, <3>4, <4>1 DEF Closed
      <4> HIDE DEF Full
      <4> QED
        BY <3>1, <3>3, <4>2
    <3>5. CASE ~Closed(f[d - 1], E, enter)
      <4>1. PICK w \in enter : w \notin f[d - 1] /\ \E v \in f[d - 1] : Joins(E, v, w)
        BY <3>5 DEF Closed
      <4>2. w \in f[d]
        BY <1>3, <4>1
      <4> DEFINE A == enter \cap f[d - 1]
                 B == enter \cap f[d]
      <4>3. A \in SUBSET B /\ A # B
        BY <3>2, <4>1, <4>2
      <4>4. IsFiniteSet(B) /\ Cardinality(A) \in Nat /\ Cardinality(B) \in Nat
        BY <2>1, <3>1
      <4>5. Cardinality(A) >= d - 1
        BY <2>3, <3>5
      <4> HIDE DEF A, B
      <4>6. Cardinality(A) < Cardinality(B)
        BY <4>3, <4>4, FS_Subset
      <4>7. Cardinality(B) >= d
        BY <3>1, <4>4, <4>5, <4>6
      <4>8. Full(d)
        BY <4>7 DEF B
      <4> HIDE DEF Full
      <4> QED
        BY <3>1, <3>3, <4>8
    <3> QED
      BY <3>4, <3>5
  <2>4. P \in SUBSET (0..L)
    OBVIOUS
  <2>5. P = 0..L
    <3> HIDE DEF P
    <3> QED
      BY <1>1, <2>2, <2>3, <2>4, Throughout
  <2> QED
    BY <2>5
<1>6. L \in 0..L
  BY <1>1
<1>7. Closed(f[L], E, enter)
  <2> SUFFICES ASSUME Cardinality(enter \cap f[L]) >= L PROVE Closed(f[L], E, enter)
    BY <1>5, <1>6
  <2> DEFINE A == enter \cap f[L]
  <2>1. A \in SUBSET enter /\ Cardinality(A) >= L
    OBVIOUS
  <2> HIDE DEF A
  <2>2. Cardinality(A) \in Nat /\ Cardinality(A) <= L /\ (Cardinality(A) = L => A = enter)
    BY <2>1, FS_Subset, FS_CardinalityType DEF L
  <2>3. A = enter
    BY <1>1, <2>1, <2>2
  <2> QED
    BY <2>3 DEF A, Closed
<1>8. M = f[L]
  <2>1. f[L] \subseteq enter \cup {root}
    BY <1>2, <1>6
  <2> QED
    BY <1>2, <1>5, <1>6, <2>1
<1>9. /\ root \in M /\ M \subseteq enter \cup {root} /\ Closed(M, E, enter)
      /\ \A N : root \in N /\ Closed(N, E, enter) => M \subseteq N
  BY <1>2, <1>4, <1>5, <1>6, <1>7, <1>8
<1> QED
  BY <1>9 DEF M

(* Along edges that lead both ways, what one vertex reaches is what every  *)
(* vertex reaches that it reaches.                                         *)
LEMMA SameTraversal ==
  ASSUME NEW E, \A v, w : Joins(E, v, w) => Joins(E, w, v),
         NEW V, IsFiniteSet(V), NEW x \in V, NEW y \in DfsTypeTraversal(x, E, V)
  PROVE  DfsTypeTraversal(y, E, V) = DfsTypeTraversal(x, E, V)
<1> DEFINE R(v) == DfsTypeTraversal(v, E, V)
<1>1. \A v : /\ v \in R(v) /\ R(v) \subseteq V \cup {v} /\ Closed(R(v), E, V)
             /\ \A N : v \in N /\ Closed(N, E, V) => R(v) \subseteq N
  BY TraversalIs
<1> HIDE DEF R
<1>2. R(y) \subseteq R(x)
  BY <1>1 DEF R
<1>3. x \in R(y)
  <2> DEFINE N == {v \in R(x) : x \in R(v)}
  <2>1. x \in N
    BY <1>1
  <2>2. ASSUME NEW v \in N, NEW w \in V, Joins(E, v, w) PROVE w \in N
    <3>1. v \in V /\ v \in R(x) /\ x \in R(v)
      BY <1>1
    <3>2. w \in R(x)
      BY <1>1, <2>2, <3>1 DEF Closed
    <3>3. Joins(E, w, v)
      BY <2>2
    <3>4. v \in R(w)
      BY <1>1, <3>1, <3>3 DEF Closed
    <3>5. R(v) \subseteq R(w)
      BY <1>1, <3>4
    <3> QED
      BY <3>1, <3>2, <3>5
  <2>3. Closed(N, E, V)
    BY <2>2 DEF Closed
  <2> HIDE DEF N
  <2>4. R(x) \subseteq N
    BY <1>1, <2>1, <2>3
  <2> QED
    BY <2>4 DEF N, R
<1>4. R(x) \subseteq R(y)
  BY <1>1, <1>3
<1> QED
  BY <1>2, <1>4 DEF R

-----------------------------------------------------------------------------
(* The type view is finite.                                                *)

LEMMA FiniteRange ==
  ASSUME NEW S, IsFiniteSet(S), NEW f, DOMAIN f = S
  PROVE  IsFiniteSet(Range(f))
<1> DEFINE g == [x \in S |-> f[x]]
<1>1. g \in [S -> Range(f)] /\ \A y \in Range(f) : \E x \in S : g[x] = y
  BY DEF Range
<1>2. g \in Surjection(S, Range(f))
  <2> HIDE DEF g
  <2> QED
    BY <1>1 DEF Surjection
<1> QED
  BY <1>2, FS_Surjection

LEMMA FiniteSeq ==
  ASSUME NEW S, NEW s \in Seq(S)
  PROVE  IsFiniteSet(DOMAIN s) /\ IsFiniteSet(Range(s))
<1>1. Len(s) \in Nat /\ DOMAIN s = 1..Len(s)
  BY LenProperties
<1>2. IsFiniteSet(1..Len(s))
  BY <1>1, FS_Interval
<1> QED
  BY <1>1, <1>2, FiniteRange

LEMMA FiniteUnion ==
  ASSUME NEW A, NEW B, IsFiniteSet(A), IsFiniteSet(B)
  PROVE  IsFiniteSet(A \cup B)
  BY FS_Union

LEMMA FiniteTypeAttrs ==
  ASSUME NEW S, Fits(S), NEW d \in DOMAIN S
  PROVE  IsFiniteSet(GetTypeAttrs(S[d]))
<1> DEFINE x == S[d]
           K == AttrsOfKind(x, "type")
           L == AttrsOfKind(x, "list(type)")
           ElementsOf(a) == {TypeAttrAt(a, k) : k \in DOMAIN x.attr[a].value}
           f == [a \in K |-> TypeAttr(a)]
           h == [a \in L |-> ElementsOf(a)]
<1>1. /\ HasValues(x.attr)
      /\ InputPortTypes(x) \in Seq(Ids) /\ OutputPortTypes(x) \in Seq(Ids)
  BY NodeOf
<1>2. IsFiniteSet(Range(InputPortTypes(x))) /\ IsFiniteSet(Range(OutputPortTypes(x)))
  BY <1>1, FiniteSeq
<1>3. /\ IsFiniteSet(K) /\ IsFiniteSet(L) /\ L \subseteq DOMAIN x.attr
  <2>1. K \in SUBSET DOMAIN x.attr /\ L \in SUBSET DOMAIN x.attr
    BY DEF AttrsOfKind
  <2>2. IsFiniteSet(DOMAIN x.attr)
    BY <1>1 DEF HasValues
  <2> HIDE DEF K, L
  <2> QED
    BY <2>1, <2>2, FS_Subset
<1>4. GetTypeAttrs(x) = Range(InputPortTypes(x)) \cup Range(OutputPortTypes(x))
                          \cup Range(f) \cup UNION Range(h)
  <2>1. Range(f) = {TypeAttr(a) : a \in K}
    BY DEF Range
  <2>2. Range(h) = {ElementsOf(a) : a \in L}
    <3> HIDE DEF ElementsOf, L
    <3> QED
      BY DEF Range
  <2>3. GetTypeAttrs(x) = Range(InputPortTypes(x)) \cup Range(OutputPortTypes(x))
                            \cup {TypeAttr(a) : a \in K}
                            \cup UNION {ElementsOf(a) : a \in L}
    BY DEF GetTypeAttrs
  <2> HIDE DEF f, h, x
  <2> QED
    BY <2>1, <2>2, <2>3
<1>5. ASSUME NEW a \in L PROVE IsFiniteSet(ElementsOf(a))
  <2> DEFINE s == x.attr[a].value
             e == [k \in DOMAIN s |-> TypeAttrAt(a, k)]
  <2>1. s \in Seq(Strings)
    BY <1>1, <1>3 DEF HasValues
  <2>2. IsFiniteSet(DOMAIN s)
    <3> HIDE DEF s
    <3> QED
      BY <2>1, FiniteSeq
  <2>3. Range(e) = ElementsOf(a) /\ DOMAIN e = DOMAIN s
    BY DEF Range
  <2> HIDE DEF e
  <2> QED
    BY <2>2, <2>3, FiniteRange
<1> HIDE DEF ElementsOf, K, L
<1>6. IsFiniteSet(Range(f)) /\ IsFiniteSet(Range(h))
  <2>1. DOMAIN f = K /\ DOMAIN h = L
    OBVIOUS
  <2> HIDE DEF f, h
  <2> QED
    BY <1>3, <2>1, FiniteRange
<1>7. \A T_ \in Range(h) : IsFiniteSet(T_)
  BY <1>5 DEF Range
<1> HIDE DEF f, h
<1>8. IsFiniteSet(UNION Range(h))
  BY <1>6, <1>7, FS_UNION
<1> DEFINE ins == Range(InputPortTypes(x))
           outs == Range(OutputPortTypes(x))
<1> HIDE DEF x, ins, outs
<1>9. IsFiniteSet(ins) /\ IsFiniteSet(outs)
  BY <1>2 DEF ins, outs
<1>10. GetTypeAttrs(x) = ((ins \cup outs) \cup Range(f)) \cup UNION Range(h)
  BY <1>4 DEF ins, outs
<1>11. IsFiniteSet(ins \cup outs)
  BY <1>9, FiniteUnion
<1>12. IsFiniteSet((ins \cup outs) \cup Range(f))
  BY <1>6, <1>11, FiniteUnion
<1>13. IsFiniteSet(GetTypeAttrs(x))
  <2>1. IsFiniteSet(((ins \cup outs) \cup Range(f)) \cup UNION Range(h))
    BY <1>8, <1>12, FiniteUnion, Zenon
  <2> QED
    BY <1>10, <2>1, Zenon
<1> QED
  BY <1>13, Zenon DEF x

(* A graph whose type view has been built. *)
Viewed ==
  /\ Fits(graph) /\ EdgesAgree(graph) /\ ListOpsFit(graph)
  /\ view = TypeView

LEMMA FiniteVertices == Viewed => IsFiniteSet(view.vertices)
<1> SUFFICES ASSUME Viewed PROVE IsFiniteSet(view.vertices)
  OBVIOUS
<1> DEFINE h == [n \in DOMAIN graph |-> {n} \X GetTypeAttrs(graph[n])]
<1>1. view.vertices = UNION Range(h)
  BY DEF Viewed, TypeView, Range
<1>2. IsFiniteSet(DOMAIN graph)
  <2>1. Len(graph) \in Nat /\ DOMAIN graph = 1..Len(graph)
    BY GraphOf DEF Viewed, Fits
  <2> QED
    BY <2>1, FS_Interval
<1>3. ASSUME NEW n \in DOMAIN graph PROVE IsFiniteSet({n} \X GetTypeAttrs(graph[n]))
  <2>1. IsFiniteSet({n}) /\ IsFiniteSet(GetTypeAttrs(graph[n]))
    BY FS_Singleton, FiniteTypeAttrs DEF Viewed
  <2> QED
    BY <2>1, FS_Product
<1>4. \A V \in Range(h) : IsFiniteSet(V)
  BY <1>3 DEF Range
<1>5. DOMAIN h = DOMAIN graph
  OBVIOUS
<1> HIDE DEF h
<1>6. IsFiniteSet(Range(h))
  BY <1>2, <1>5, FiniteRange
<1> QED
  BY <1>1, <1>4, <1>6, FS_UNION

-----------------------------------------------------------------------------
(* Tensor lists.                                                           *)

Element(n) == <<n, TypeAttr("element_dtype")>>

LEMMA VertexOf ==
  ASSUME Viewed, NEW v
  PROVE  v \in view.vertices <=>
           \E n \in DOMAIN graph : \E id \in GetTypeAttrs(graph[n]) : v = <<n, id>>
<1>1. view.vertices = UNION {{n} \X GetTypeAttrs(graph[n]) : n \in DOMAIN graph}
  BY DEF Viewed, TypeView
<1> QED
  BY <1>1

(* The ends of an edge are of one type. *)
LEMMA EdgeTypes ==
  ASSUME Viewed, NEW e \in view.edges
  PROVE  GetDataType(graph[e[1][1]], e[1][2]) = GetDataType(graph[e[2][1]], e[2][2])
<1>0. PICK n \in DOMAIN graph : \E k \in DOMAIN graph[n].input :
        e = <<Out(graph, graph[n].input[k]), InputVertex(n, k)>>
  <2>1. view.edges = UNION {{LET i == graph[n].input[k]
                             IN  <<<<i.node, OutputPortTypes(graph[i.node])[i.port]>>,
                                   InputVertex(n, k)>> : k \in DOMAIN graph[n].input}
                              : n \in DOMAIN graph}
    BY DEF Viewed, TypeView
  <2> QED
    BY <2>1 DEF Out
<1>1. PICK k \in DOMAIN graph[n].input :
        e = <<Out(graph, graph[n].input[k]), InputVertex(n, k)>>
  BY <1>0
<1> DEFINE i == graph[n].input[k]
<1>2. InputTypes(graph[n])[k] = OutputTypes(graph[i.node])[i.port]
  BY DEF Viewed, EdgesAgree
<1>3. i.port \in DOMAIN OutputPortTypes(graph[i.node])
  BY DEF Viewed, Fits
<1>4. InputTypes(graph[n])[k] = GetDataType(graph[n], InputPortTypes(graph[n])[k])
  BY DEF InputTypes
<1>5. OutputTypes(graph[i.node])[i.port]
        = GetDataType(graph[i.node], OutputPortTypes(graph[i.node])[i.port])
  BY <1>3 DEF OutputTypes
<1>6. /\ e[1] = <<i.node, OutputPortTypes(graph[i.node])[i.port]>>
      /\ e[2] = <<n, InputPortTypes(graph[n])[k]>>
  BY <1>1 DEF InputVertex, Out
<1>7. /\ e[1][1] = i.node /\ e[1][2] = OutputPortTypes(graph[i.node])[i.port]
      /\ e[2][1] = n /\ e[2][2] = InputPortTypes(graph[n])[k]
  <2> HIDE DEF i
  <2> QED
    BY <1>6
<1> HIDE DEF i
<1>8. GetDataType(graph[e[1][1]], e[1][2]) = OutputTypes(graph[i.node])[i.port]
  BY <1>5, <1>7
<1>9. GetDataType(graph[e[2][1]], e[2][2]) = InputTypes(graph[n])[k]
  BY <1>4, <1>7
<1> QED
  BY <1>2, <1>8, <1>9 DEF i

LEMMA BothWays == \A v, w : Joins(ToAll, v, w) => Joins(ToAll, w, v)
<1> SUFFICES ASSUME NEW v, NEW w, Joins(ToAll, v, w) PROVE Joins(ToAll, w, v)
  OBVIOUS
<1>1. PICK e \in ToAll : e[1] = v /\ e[2] = w
  BY DEF Joins
<1>2. CASE e \in view.edges
  <2> DEFINE back == <<e[2], e[1]>>
  <2>1. back \in ToAll
    BY <1>2 DEF ToAll, ToFanouts, ToFanins
  <2>2. back[1] = w /\ back[2] = v
    BY <1>1
  <2> QED
    BY <2>1, <2>2 DEF Joins
<1>3. CASE e \in ToFanins
  <2>1. PICK f \in view.edges : e = <<f[2], f[1]>>
    BY <1>3 DEF ToFanins
  <2>2. f[1] = w /\ f[2] = v
    BY <1>1, <2>1
  <2>3. f \in ToAll
    BY DEF ToAll, ToFanouts
  <2> QED
    BY <2>2, <2>3 DEF Joins
<1> QED
  BY <1>1, <1>2, <1>3 DEF ToAll, ToFanouts

(* What a list may come through is a variant. *)
LEMMA HandlesAreVariants ==
  ASSUME Viewed, NEW root \in Roots, NEW v \in Handles(root)
  PROVE  v \in view.vertices /\ GetDataType(graph[v[1]], v[2]) = "variant"
<1> DEFINE N == {u \in view.vertices : GetDataType(graph[u[1]], u[2]) = "variant"}
<1>1. HandleOf(root) \in N
  BY DEF Roots, HandleOf, GetDataType, FixedType
<1>2. ASSUME NEW u \in N, NEW w \in view.vertices, Joins(ToAll, u, w) PROVE w \in N
  <2>1. PICK e \in ToAll : e[1] = u /\ e[2] = w
    BY <1>2 DEF Joins
  <2>2. \/ e \in view.edges
        \/ \E f \in view.edges : f[1] = w /\ f[2] = u
    <3>1. CASE e \in ToFanins
      <4>1. PICK f \in view.edges : e = <<f[2], f[1]>>
        BY <3>1 DEF ToFanins
      <4>2. f[1] = w /\ f[2] = u
        BY <2>1, <4>1
      <4> QED
        BY <4>2
    <3> QED
      BY <3>1 DEF ToAll, ToFanouts
  <2>3. GetDataType(graph[w[1]], w[2]) = GetDataType(graph[u[1]], u[2])
    BY <2>1, <2>2, EdgeTypes
  <2> QED
    BY <2>3
<1>3. Closed(N, ToAll, view.vertices)
  <2> HIDE DEF N
  <2> QED
    BY <1>2 DEF Closed
<1>4. Handles(root) \subseteq N
  <2> HIDE DEF N
  <2> QED
    BY <1>1, <1>3, FiniteVertices, TraversalIs DEF Handles
<1> QED
  BY <1>4

(* A list op that may hold floats has one handle, and one vertex for what  *)
(* is in the list.                                                         *)
LEMMA ListOpIs ==
  ASSUME Viewed, NEW n \in DOMAIN graph, TensorListFloat32(n) # {}
  PROVE  /\ IsTensorListOp(graph[n].op)
         /\ TensorListFloat32(n) = {Element(n)}
         /\ TypeAttr("element_dtype") \in GetTypeAttrs(graph[n])
         /\ IsFloat(graph, Element(n))
         /\ \A id \in GetTypeAttrs(graph[n]) :
              GetDataType(graph[n], id) = "variant" => id = FixedType("variant")
<1> DEFINE ids == GetTypeAttrs(graph[n])
           elt == TypeAttr("element_dtype")
<1>1. IsTensorListOp(graph[n].op)
  BY DEF TensorListFloat32
<1>2. \A id \in ids : GetDataType(graph[n], id) \in {"float", "variant"} =>
                        id \in {elt, FixedType("variant")}
  <2>1. AddNode(graph[n]) = "OK" /\ ListOpsFit(graph)
    BY DEF Viewed, Fits
  <2> QED
    BY <1>1, <2>1 DEF ListOpsFit
<1>3. \A v : v \in TensorListFloat32(n) <=>
               \E id \in ids : /\ v = <<n, id>>
                               /\ id.fixed_type = "invalid" /\ id.type_index = kSingleType
                               /\ GetDataType(graph[n], id) = "float"
  BY <1>1 DEF TensorListFloat32, IsFloat32
<1>4. FixedType("variant").fixed_type = "variant"
  BY DEF FixedType
<1>5. elt.fixed_type = "invalid" /\ elt.type_index = kSingleType
  BY DEF TypeAttr
<1> HIDE DEF ids, elt
<1>6. \A v \in TensorListFloat32(n) :
        v = <<n, elt>> /\ elt \in ids /\ GetDataType(graph[n], elt) = "float"
  BY <1>2, <1>3, <1>4
<1>7. elt \in ids /\ GetDataType(graph[n], elt) = "float"
  BY <1>6
<1>8. TensorListFloat32(n) = {<<n, elt>>}
  BY <1>3, <1>5, <1>6, <1>7
<1>9. \A id \in ids : GetDataType(graph[n], id) = "variant" => id = FixedType("variant")
  BY <1>2, <1>7
<1> QED
  BY <1>1, <1>7, <1>8, <1>9 DEF ids, elt, Element, IsFloat

LEMMA ClusterIs ==
  ASSUME Viewed, NEW root \in Roots, NEW n
  PROVE  n \in ClusterOf(root) <=> /\ n \in DOMAIN graph /\ TensorListFloat32(n) # {}
                                   /\ HandleOf(n) \in Handles(root)
<1>1. HandleOf(root) \in view.vertices /\ TensorListFloat32(root) # {}
  BY DEF Roots
<1>2. HandleOf(root) \in Handles(root)
  BY FiniteVertices, TraversalIs DEF Handles
<1>3. root \in DOMAIN graph
  BY <1>1, VertexOf DEF HandleOf
<1>4. ASSUME NEW v \in Handles(root), TensorListFloat32(v[1]) # {}
      PROVE  v = HandleOf(v[1]) /\ v[1] \in DOMAIN graph
  <2>1. v \in view.vertices /\ GetDataType(graph[v[1]], v[2]) = "variant"
    BY HandlesAreVariants
  <2>2. PICK d \in DOMAIN graph : \E id \in GetTypeAttrs(graph[d]) : v = <<d, id>>
    BY <2>1, VertexOf
  <2>3. v[1] = d /\ v = <<d, v[2]>> /\ v[2] \in GetTypeAttrs(graph[d])
    BY <2>2
  <2>4. v[2] = FixedType("variant")
    BY <1>4, <2>1, <2>3, ListOpIs
  <2> QED
    BY <2>2, <2>3, <2>4 DEF HandleOf
<1>5. HandleOf(n)[1] = n
  BY DEF HandleOf
<1>6. n \in ClusterOf(root) <=>
        n = root \/ \E v \in Handles(root) : TensorListFloat32(v[1]) # {} /\ n = v[1]
  BY DEF ClusterOf
<1> QED
  BY <1>1, <1>2, <1>3, <1>4, <1>5, <1>6

(* Clusters that share a node are one and the same. *)
LEMMA ClustersApart ==
  ASSUME Viewed, NEW r \in Roots, NEW s \in Roots,
         NEW n \in ClusterOf(r), n \in ClusterOf(s)
  PROVE  ClusterOf(r) = ClusterOf(s)
<1>1. \A root \in Roots : HandleOf(root) \in view.vertices
  BY DEF Roots
<1>2. HandleOf(n) \in Handles(r) /\ HandleOf(n) \in Handles(s)
  BY ClusterIs
<1>3. /\ DfsTypeTraversal(HandleOf(n), ToAll, view.vertices) = Handles(r)
      /\ DfsTypeTraversal(HandleOf(n), ToAll, view.vertices) = Handles(s)
  BY <1>1, <1>2, BothWays, FiniteVertices, SameTraversal DEF Handles
<1>4. \A m : m \in ClusterOf(r) <=> m \in ClusterOf(s)
  BY <1>3, ClusterIs
<1>5. ClusterOf(r) \subseteq ClusterOf(s) /\ ClusterOf(s) \subseteq ClusterOf(r)
  BY <1>4
<1> QED
  BY <1>5

-----------------------------------------------------------------------------
(* All nodes that may hold the same list agree on what is in it: what the  *)
(* invariant says of lists.                                                *)

Held(S, c) ==
  \A a \in c : /\ a \in DOMAIN S /\ IsTensorListOp(S[a].op)
               /\ TypeAttr("element_dtype") \in GetTypeAttrs(S[a])
               /\ IsFloat(S, Element(a))

OneColor(A, c) == \A a, b \in c : Element(a) \in A <=> Element(b) \in A

Listed == {"allowlist", "change"} \cup Painting \cup Matching
Colored == {"recurrent", "casts", "change"}

ListsAt ==
  /\ ListOpsFit(item.graph)
  /\ phase = "lists" => view = TypeView
  /\ phase \in Listed => /\ \A c \in clusters : Held(Selected(item), c)
                         /\ \A c, d \in clusters : c \cap d # {} => c = d
  /\ phase \in Colored => \A c \in clusters : OneColor(allow_set, c)
  /\ Done => ListOpsFit(graph) /\ OneColorPerList

LEMMA SameOne ==
  ASSUME NEW S, NEW v \in Seq(S), NEW w \in Seq(S), Len(v) = 1, Len(w) = 1, v[1] = w[1]
  PROVE  v = w
<1>1. \A k \in 1..Len(v) : v[k] = w[k]
  OBVIOUS
<1> QED
  BY <1>1, SeqEqual

(* A list op has the type of its elements as an attribute, which is that   *)
(* type and nothing else.                                                  *)
Elements(x, t) ==
  HasValues(x.attr) /\ GetDataType(x, TypeAttr("element_dtype")) = t

LEMMA ElementsAttr ==
  ASSUME NEW x, NEW t, t # "invalid", Elements(x, t)
  PROVE  LET a == x.attr["element_dtype"]
         IN  /\ a = [kind |-> "type", value |-> a.value, i |-> 0]
             /\ a.value \in Seq(Strings) /\ Len(a.value) = 1 /\ a.value[1] = t
<1> DEFINE a == x.attr["element_dtype"]
<1>1. GetDataType(x, TypeAttr("element_dtype"))
        = IF "element_dtype" \notin DOMAIN x.attr THEN "invalid"
          ELSE IF a.kind = "type" THEN a.value[1] ELSE "invalid"
  BY DEF GetDataType, TypeAttr
<1>2. "element_dtype" \in DOMAIN x.attr /\ a.kind = "type" /\ a.value[1] = t
  <2> HIDE DEF a
  <2> QED
    BY <1>1 DEF Elements
<1>3. /\ a \in [kind : Strings, value : Seq(Strings), i : Nat]
      /\ Len(a.value) = 1 /\ a.i = 0
  BY <1>2 DEF Elements, HasValues
<1> HIDE DEF a
<1>4. a = [kind |-> "type", value |-> a.value, i |-> 0]
  BY <1>2, <1>3
<1> QED
  BY <1>2, <1>3, <1>4 DEF a

LEMMA SameElements ==
  ASSUME NEW x, NEW y, NEW t, t # "invalid", Elements(x, t), Elements(y, t)
  PROVE  x.attr["element_dtype"] = y.attr["element_dtype"]
<1> DEFINE a == x.attr["element_dtype"]
           b == y.attr["element_dtype"]
<1>1. /\ a = [kind |-> "type", value |-> a.value, i |-> 0]
      /\ a.value \in Seq(Strings) /\ Len(a.value) = 1 /\ a.value[1] = t
  BY ElementsAttr
<1>2. /\ b = [kind |-> "type", value |-> b.value, i |-> 0]
      /\ b.value \in Seq(Strings) /\ Len(b.value) = 1 /\ b.value[1] = t
  BY ElementsAttr
<1> HIDE DEF a, b
<1>3. a.value = b.value
  BY <1>1, <1>2, SameOne
<1> QED
  BY <1>1, <1>2, <1>3 DEF a, b

LEMMA SelectedLists ==
  ASSUME NEW it, ItemFits(it), ListOpsFit(it.graph)
  PROVE  ListOpsFit(Selected(it))
<1> DEFINE S == Selected(it)
<1>1. ASSUME NEW n \in DOMAIN S, IsTensorListOp(S[n].op)
      PROVE  S[n] = it.graph[n] /\ n \in DOMAIN it.graph
  <2>1. n \in DOMAIN it.graph
    BY SelectedIsGraphDef
  <2>2. CASE Convertible(it, it.graph[n])
    <3>1. S[n] = BatchNormV2(it.graph[n])
      BY <2>1, <2>2 DEF Selected
    <3>2. IsNodeDef(it.graph[n], Len(it.graph))
      BY <2>1, GraphOf DEF ItemFits
    <3>3. S[n].op \in {"FusedBatchNormV2", "FusedBatchNormGradV2"}
      BY <3>1, <3>2, BatchNormOf
    <3> QED
      BY <1>1, <3>3 DEF IsTensorListOp, tensor_list_ops
  <2>3. CASE ~Convertible(it, it.graph[n])
    BY <2>1, <2>3 DEF Selected
  <2> QED
    BY <2>1, <2>2, <2>3
<1> HIDE DEF S
<1>2. ListOpsFit(S)
  BY <1>1 DEF ListOpsFit
<1> QED
  BY <1>2 DEF S

(* A node when all has been painted. *)
LEMMA FinishedNode ==
  ASSUME NEW S, Fits(S), NEW A, Settled(S, A), NEW g,
         Halfway(S, A, g, Len(S), Len(S) + 1, 0), NEW d \in DOMAIN S
  PROVE  /\ g[d].op = S[d].op /\ HasValues(g[d].attr)
         /\ GetTypeAttrs(g[d]) = GetTypeAttrs(S[d])
         /\ \A id \in GetTypeAttrs(S[d]) :
              GetDataType(g[d], id) = IF IsFloat(S, <<d, id>>) /\ <<d, id>> \in A
                                      THEN "bfloat16" ELSE GetDataType(S[d], id)
<1>1. Len(S) \in Nat /\ DOMAIN S = 1..Len(S)
  BY GraphLeft
<1>2. d <= Len(S)
  BY <1>1
<1>3. g[d].op = S[d].op /\ g[d].attr = Paint(S, A, d)
  BY <1>2, HalfwayNode
<1> QED
  BY <1>3, PaintedNode

LEMMA FinishedLists ==
  ASSUME NEW S, Fits(S), ListOpsFit(S), NEW A, Settled(S, A), NEW g,
         Halfway(S, A, g, Len(S), Len(S) + 1, 0)
  PROVE  ListOpsFit(g)
<1> SUFFICES ASSUME NEW n \in DOMAIN g, IsTensorListOp(g[n].op),
                    NEW id \in GetTypeAttrs(g[n]),
                    GetDataType(g[n], id) \in {"float", "variant"}
             PROVE  id \in {TypeAttr("element_dtype"), FixedType("variant")}
  BY DEF ListOpsFit
<1>1. n \in DOMAIN S
  <2>1. n \in DOMAIN S \/ n \in (Len(S) + 1)..Len(g)
    BY GraphLeft
  <2>2. ASSUME n \in (Len(S) + 1)..Len(g) PROVE FALSE
    <3>1. PICK i : IsCastOf(S, A, g[n], i)
      BY <2>2, GraphLeft
    <3>2. g[n].op = "Cast"
      BY <3>1, CastTypes
    <3> QED
      BY <3>2 DEF IsTensorListOp, tensor_list_ops
  <2> QED
    BY <2>1, <2>2
<1>2. /\ IsTensorListOp(S[n].op) /\ AddNode(S[n]) = "OK" /\ id \in GetTypeAttrs(S[n])
      /\ GetDataType(S[n], id) \in {"float", "variant"}
  <2>1. AddNode(S[n]) = "OK"
    BY <1>1 DEF Fits
  <2>2. /\ g[n].op = S[n].op /\ GetTypeAttrs(g[n]) = GetTypeAttrs(S[n])
        /\ GetDataType(g[n], id) = IF IsFloat(S, <<n, id>>) /\ <<n, id>> \in A
                                   THEN "bfloat16" ELSE GetDataType(S[n], id)
    BY <1>1, FinishedNode
  <2> QED
    BY <2>1, <2>2
<1> QED
  BY <1>1, <1>2 DEF ListOpsFit

LEMMA FinishedColor ==
  ASSUME NEW S, Fits(S), NEW A, Settled(S, A), NEW g,
         Halfway(S, A, g, Len(S), Len(S) + 1, 0),
         NEW c, Held(S, c), OneColor(A, c), NEW a \in c, NEW b \in c
  PROVE  g[a].attr["element_dtype"] = g[b].attr["element_dtype"]
<1> DEFINE Color(d) == IF Element(d) \in A THEN "bfloat16" ELSE "float"
<1>1. ASSUME NEW d \in c PROVE Elements(g[d], Color(d))
  <2> DEFINE elt == TypeAttr("element_dtype")
  <2>1. d \in DOMAIN S /\ elt \in GetTypeAttrs(S[d]) /\ IsFloat(S, <<d, elt>>)
    BY DEF Held, Element
  <2>2. GetDataType(S[d], elt) = "float"
    BY <2>1 DEF IsFloat
  <2> HIDE DEF elt
  <2>3. HasValues(g[d].attr) /\ GetDataType(g[d], elt) = Color(d)
    BY <2>1, <2>2, FinishedNode DEF Element, elt
  <2> QED
    BY <2>3 DEF Elements, elt
<1>2. Color(a) = Color(b) /\ Color(a) # "invalid"
  BY DEF OneColor
<1> HIDE DEF Color
<1> QED
  BY <1>1, <1>2, SameElements

LEMMA SelectedColor ==
  ASSUME NEW S, Fits(S), NEW c, Held(S, c), NEW a \in c, NEW b \in c
  PROVE  S[a].attr["element_dtype"] = S[b].attr["element_dtype"]
<1>1. ASSUME NEW d \in c PROVE Elements(S[d], "float")
  <2>1. d \in DOMAIN S /\ IsFloat(S, Element(d))
    BY DEF Held
  <2>2. HasValues(S[d].attr)
    BY <2>1, NodeOf
  <2> QED
    BY <2>1, <2>2 DEF IsFloat, Element, Elements
<1> QED
  BY <1>1, SameElements

-----------------------------------------------------------------------------
(* Lists keep one color.                                                   *)

(* What a list op holds is neither what a loop matches nor what a Cast     *)
(* gives.                                                                  *)
LEMMA ElementsApart ==
  /\ \A a, n : Element(a) # T(n) /\ Element(a) # DstT(n)
  /\ \A a, b : Element(a) = Element(b) => a = b
<1>1. TypeAttr("element_dtype").attr_name = "element_dtype"
  BY DEF TypeAttr
<1>2. TypeAttr("T").attr_name = "T" /\ TypeAttr("DstT").attr_name = "DstT"
  BY DEF TypeAttr
<1>3. "element_dtype" # "T" /\ "element_dtype" # "DstT"
  OBVIOUS
<1>4. /\ TypeAttr("element_dtype") # TypeAttr("T")
      /\ TypeAttr("element_dtype") # TypeAttr("DstT")
  BY <1>1, <1>2, <1>3
<1> QED
  BY <1>4 DEF Element, T, DstT

LEMMA MatchedElements ==
  ASSUME Len(graph) \in Nat, NEW a
  PROVE  Element(a) \in Recurrent.allow <=> Element(a) \in allow_set
<1> DEFINE L == Len(graph)
           v == Element(a)
<1>1. PICK f : /\ f[0] = [allow |-> allow_set, status |-> "OK"]
               /\ \A n \in 1..L : f[n] = MatchRecurrentEdges(n, f[n - 1])
               /\ Recurrent = f[L]
  BY RecurrentLoop
<1>2. L \in Nat
  OBVIOUS
<1>3. \A n : v # T(n)
  BY ElementsApart
<1> HIDE DEF L, v
<1> DEFINE Whole(x) == x = [allow |-> x.allow, status |-> x.status]
           P == {n \in 0..L : Whole(f[n]) /\ (v \in f[n].allow <=> v \in allow_set)}
<1>4. 0 \in P
  <2>1. f[0] = [allow |-> allow_set, status |-> "OK"] /\ 0 \in 0..L
    BY <1>1, <1>2
  <2>2. f[0].allow = allow_set /\ f[0].status = "OK"
    BY <2>1
  <2>3. Whole(f[0])
    BY <2>1, <2>2
  <2> HIDE DEF Whole
  <2> QED
    BY <2>1, <2>2, <2>3
<1>5. ASSUME NEW n \in 1..L, n - 1 \in P PROVE n \in P
  <2> DEFINE before == f[n - 1]
             after == MatchRecurrentEdges(n, before)
             loop == {T(m) : m \in {d[1] : d \in Fanout(n, 1)}}
  <2>1. f[n] = after /\ n \in 0..L
    BY <1>1, <1>2
  <2>2. Whole(before) /\ (v \in before.allow <=> v \in allow_set)
    BY <1>5
  <2>3. v \notin loop /\ v # T(n)
    BY <1>3
  <2>4. \/ after = before
        \/ after = [before EXCEPT !.status = "FailedPrecondition"]
        \/ after = [before EXCEPT !.status = "Internal"]
        \/ after = [before EXCEPT !.allow = @ \cup {T(n)}]
        \/ after = [before EXCEPT !.allow = @ \ (loop \cup {T(n)})]
    BY DEF MatchRecurrentEdges
  <2> HIDE DEF loop, after, before
  <2>5. Whole(after) /\ \/ after.allow = before.allow
                        \/ after.allow = before.allow \cup {T(n)}
                        \/ after.allow = before.allow \ (loop \cup {T(n)})
    BY <2>2, <2>4
  <2>6. v \in after.allow <=> v \in before.allow
    BY <2>3, <2>5
  <2> HIDE DEF Whole
  <2> QED
    BY <2>1, <2>2, <2>5, <2>6
<1>6. P = 0..L
  <2>1. P \in SUBSET (0..L)
    OBVIOUS
  <2> HIDE DEF P
  <2> QED
    BY <1>2, <1>4, <1>5, <2>1, Throughout
<1>7. L \in P
  <2>1. L \in 0..L
    BY <1>2
  <2> HIDE DEF P
  <2> QED
    BY <1>6, <2>1
<1>8. v \in f[L].allow <=> v \in allow_set
  <2> HIDE DEF Whole
  <2> QED
    BY <1>7
<1> QED
  BY <1>1, <1>8 DEF v

(* The values of the lists of a cluster. *)
LEMMA ValuesAre ==
  ASSUME Fits(graph), ListOpsFit(graph), NEW c, Held(graph, c)
  PROVE  Values(c) = {Element(a) : a \in c}
<1>1. ASSUME NEW a \in c PROVE TensorListFloat32(a) = {Element(a)}
  <2> DEFINE elt == TypeAttr("element_dtype")
             ids == {i \in GetTypeAttrs(graph[a]) : /\ i.fixed_type = "invalid"
                                                    /\ i.type_index = kSingleType
                                                    /\ IsFloat32(<<a, i>>)}
  <2>1. /\ a \in DOMAIN graph /\ IsTensorListOp(graph[a].op)
        /\ elt \in GetTypeAttrs(graph[a]) /\ GetDataType(graph[a], elt) = "float"
    BY DEF Held, Element, IsFloat
  <2>2. elt.fixed_type = "invalid" /\ elt.type_index = kSingleType
    BY DEF TypeAttr
  <2>3. TensorListFloat32(a) = {<<a, id>> : id \in ids}
    BY <2>1 DEF TensorListFloat32
  <2>4. AddNode(graph[a]) = "OK"
    BY <2>1 DEF Fits
  <2>5. \A id \in ids : id = elt
    <3> SUFFICES ASSUME NEW id \in ids PROVE id = elt
      OBVIOUS
    <3>1. /\ id \in GetTypeAttrs(graph[a]) /\ GetDataType(graph[a], id) = "float"
          /\ id.fixed_type = "invalid"
      BY DEF IsFloat32
    <3>2. id \in {elt, FixedType("variant")}
      BY <2>1, <2>4, <3>1 DEF ListOpsFit
    <3>3. FixedType("variant").fixed_type # "invalid"
      BY DEF FixedType
    <3> QED
      BY <3>1, <3>2, <3>3
  <2>6. elt \in ids
    BY <2>1, <2>2 DEF IsFloat32
  <2> HIDE DEF elt, ids
  <2>7. {<<a, id>> : id \in ids} = {<<a, elt>>}
    BY <2>5, <2>6
  <2> QED
    BY <2>3, <2>7 DEF Element, elt
<1> QED
  BY <1>1 DEF Values

(* What the last ForceColorMatchBetweenTensorListOps leaves. *)
LEMMA MatchColors ==
  ASSUME Fits(graph), ListOpsFit(graph), \A c \in clusters : Held(graph, c),
         \A c, d \in clusters : c \cap d # {} => c = d,
         ForceColorMatchBetweenTensorListOps, NEW c \in clusters
  PROVE  OneColor(allow_set', c)
<1>1. \A d \in clusters : Values(d) = {Element(a) : a \in d}
  BY ValuesAre
<1>2. \A d \in clusters : \A a : Element(a) \in Values(d) <=> a \in d
  BY <1>1, ElementsApart
<1>3. DeniedLists \subseteq clusters /\ AllowedLists \subseteq clusters
  BY DEF DeniedLists, AllowedLists
<1>4. allow_set' = (allow_set \ UNION {Values(d) : d \in DeniedLists})
                     \cup UNION {Values(d) : d \in AllowedLists}
  BY DEF ForceColorMatchBetweenTensorListOps
<1>5. ASSUME NEW a \in c
      PROVE  Element(a) \in allow_set' <=>
               \/ Element(a) \in allow_set /\ c \notin DeniedLists
               \/ c \in AllowedLists
  <2>1. \A d \in clusters : a \in d <=> d = c
    BY <1>5
  <2>2. Element(a) \in UNION {Values(d) : d \in DeniedLists} <=> c \in DeniedLists
    BY <1>2, <1>3, <2>1
  <2>3. Element(a) \in UNION {Values(d) : d \in AllowedLists} <=> c \in AllowedLists
    BY <1>2, <1>3, <2>1
  <2> QED
    BY <1>4, <2>2, <2>3
<1>6. ASSUME NEW a \in c, Element(a) \in allow_set, c \notin DeniedLists
      PROVE  c \in AllowedLists
  BY <1>2, <1>6 DEF AllowedLists
<1>7. \A a \in c : Element(a) \in allow_set' <=> c \in AllowedLists
  BY <1>5, <1>6
<1> QED
  BY <1>7 DEF OneColor

LEMMA ListsInit == Init => ListsAt
<1> SUFFICES ASSUME Init PROVE ListsAt
  OBVIOUS
<1>1. item \in Items /\ phase = "options"
  BY DEF Init
<1>2. ListOpsFit(item.graph)
  BY <1>1, ListsAssumption
<1> QED
  BY <1>1, <1>2 DEF ListsAt, Listed, Colored, Painting, Matching, Done

LEMMA ListsStutter == ListsAt /\ UNCHANGED vars => ListsAt'
<1> SUFFICES ASSUME ListsAt, UNCHANGED vars PROVE ListsAt'
  OBVIOUS
<1>1. /\ item' = item /\ graph' = graph /\ phase' = phase /\ status' = status
      /\ view' = view /\ clusters' = clusters /\ allow_set' = allow_set
  BY DEF vars
<1>2. TypeView' = TypeView
  BY <1>1 DEF TypeView, InputVertex
<1>3. OneColorPerList' <=> OneColorPerList
  BY <1>1 DEF OneColorPerList, Done
<1> QED
  BY <1>1, <1>2, <1>3 DEF ListsAt, Done

(* A pass that has come to no lists, or fails. *)
LEMMA ListsLeft ==
  ASSUME ListsAt, item' = item,
         phase' = "types" \/ (phase' = "done" /\ status' # "OK")
  PROVE  ListsAt'
<1>1. phase' \notin Listed \cup Colored \cup {"lists"} /\ ~Done'
  BY DEF Listed, Colored, Painting, Matching, Done
<1> QED
  BY <1>1 DEF ListsAt

(* A step that finds out what to paint, or paints. *)
LEMMA ListsCarried ==
  ASSUME ListsAt, phase \in Listed, phase' \in Listed, item' = item,
         clusters' = clusters,
         phase' \in Colored => \A c \in clusters : OneColor(allow_set', c)
  PROVE  ListsAt'
<1>1. phase' # "lists" /\ ~Done'
  BY DEF Listed, Painting, Matching, Done
<1>2. ListOpsFit(item.graph) /\ \A c \in clusters : Held(Selected(item), c)
  BY DEF ListsAt
<1>3. \A c, d \in clusters : c \cap d # {} => c = d
  BY DEF ListsAt
<1>4. Selected(item)' = Selected(item)
  OBVIOUS
<1> QED
  BY <1>1, <1>2, <1>3, <1>4 DEF ListsAt

LEMMA ListsColoredKept ==
  ASSUME ListsAt, phase \in Colored, phase' \in Listed, item' = item,
         clusters' = clusters,
         \A a : Element(a) \in allow_set' <=> Element(a) \in allow_set
  PROVE  ListsAt'
<1>1. phase \in Listed
  BY DEF Listed, Colored, Matching
<1>2. \A c \in clusters : OneColor(allow_set, c)
  BY DEF ListsAt
<1>3. \A c \in clusters : OneColor(allow_set', c)
  BY <1>2 DEF OneColor
<1> QED
  BY <1>1, <1>3, ListsCarried

LEMMA ListsSeen == IInv /\ ListsAt /\ InitializeTypes => ListsAt'
<1> SUFFICES ASSUME IInv, ListsAt, InitializeTypes PROVE ListsAt'
  OBVIOUS
<1>1. phase' = "lists" /\ item' = item /\ graph' = graph /\ view' = TypeView
  BY DEF InitializeTypes, GoTo
<1>2. phase' \notin Listed \cup Colored /\ ~Done'
  BY <1>1 DEF Listed, Colored, Painting, Matching, Done
<1>3. TypeView' = TypeView
  BY <1>1 DEF TypeView, InputVertex
<1> QED
  BY <1>1, <1>2, <1>3 DEF ListsAt

LEMMA ListsFound == IInv /\ ListsAt /\ FindTensorLists => ListsAt'
<1> SUFFICES ASSUME IInv, ListsAt, FindTensorLists PROVE ListsAt'
  OBVIOUS
<1>1. /\ phase = "lists" /\ phase' = "allowlist" /\ item' = item /\ graph' = graph
      /\ clusters' = {ClusterOf(root) : root \in Roots}
  BY DEF FindTensorLists, GoTo
<1>2. ItemFits(item) /\ graph = Selected(item) /\ Fits(graph)
  BY <1>1, GraphIsSelected
<1>3. ListOpsFit(item.graph) /\ view = TypeView
  BY <1>1 DEF ListsAt
<1>4. Viewed
  <2>1. EdgesAgree(graph) /\ ListOpsFit(graph)
    BY <1>2, <1>3, SelectedAgrees, SelectedLists
  <2> QED
    BY <1>2, <1>3, <2>1 DEF Viewed
<1>5. ASSUME NEW c \in clusters' PROVE Held(graph, c)
  <2>1. PICK root \in Roots : c = ClusterOf(root)
    BY <1>1
  <2>2. \A a \in c : a \in DOMAIN graph /\ TensorListFloat32(a) # {}
    BY <1>4, <2>1, ClusterIs
  <2> QED
    BY <1>4, <2>2, ListOpIs DEF Held
<1>6. ASSUME NEW c \in clusters', NEW d \in clusters', c \cap d # {}
      PROVE  c = d
  <2>1. PICK r \in Roots : c = ClusterOf(r)
    BY <1>1
  <2>2. PICK s \in Roots : d = ClusterOf(s)
    BY <1>1
  <2>3. PICK n \in c : n \in d
    BY <1>6
  <2> QED
    BY <1>4, <2>1, <2>2, <2>3, ClustersApart
<1>7. phase' \notin Colored \cup {"lists"} /\ ~Done'
  BY <1>1 DEF Colored, Done
<1>8. Selected(item)' = graph
  BY <1>1, <1>2
<1> QED
  BY <1>1, <1>3, <1>5, <1>6, <1>7, <1>8 DEF ListsAt

LEMMA ListsSkipped == IInv /\ ListsAt /\ SkipOptimization => ListsAt'
<1> SUFFICES ASSUME IInv, ListsAt, SkipOptimization PROVE ListsAt'
  OBVIOUS
<1>1. /\ phase = "allowlist" /\ phase' = "done" /\ item' = item /\ graph' = graph
      /\ clusters' = clusters
  BY DEF SkipOptimization, sets
<1>2. ItemFits(item) /\ graph = Selected(item) /\ Fits(graph)
  BY <1>1, GraphIsSelected
<1>3. ListOpsFit(item.graph) /\ \A c \in clusters : Held(graph, c)
  BY <1>1, <1>2 DEF ListsAt, Listed
<1>4. ListOpsFit(graph)
  BY <1>2, <1>3, SelectedLists
<1>5. OneColorPerList'
  BY <1>1, <1>2, <1>3, SelectedColor DEF OneColorPerList
<1>6. phase' \notin Listed \cup Colored \cup {"lists"}
  BY <1>1 DEF Listed, Colored, Painting, Matching
<1> QED
  BY <1>1, <1>3, <1>4, <1>5, <1>6 DEF ListsAt

LEMMA ListsMatched == IInv /\ ListsAt /\ ForceColorMatchBetweenTensorListOps => ListsAt'
<1> SUFFICES ASSUME IInv, ListsAt, ForceColorMatchBetweenTensorListOps PROVE ListsAt'
  OBVIOUS
<1>1. /\ \/ phase = "match" /\ phase' = "between"
         \/ phase = "match again" /\ phase' = "recurrent"
      /\ item' = item /\ clusters' = clusters
  BY DEF ForceColorMatchBetweenTensorListOps, GoTo
<1>2. phase \in Painting \cup Matching /\ phase \in Listed /\ phase' \in Listed
  BY <1>1 DEF Listed, Painting, Matching
<1>3. ItemFits(item) /\ graph = Selected(item) /\ Fits(graph)
  BY <1>2, GraphIsSelected
<1>4. ListOpsFit(graph)
  BY <1>3, SelectedLists DEF ListsAt
<1>5. /\ \A c \in clusters : Held(graph, c)
      /\ \A c, d \in clusters : c \cap d # {} => c = d
  BY <1>2, <1>3 DEF ListsAt
<1>6. \A c \in clusters : OneColor(allow_set', c)
  BY <1>3, <1>4, <1>5, MatchColors
<1> QED
  BY <1>1, <1>2, <1>6, ListsCarried

LEMMA ListsInLoops == IInv /\ ListsAt /\ ForceColorMatchOnRecurrentEdges => ListsAt'
<1> SUFFICES ASSUME IInv, ListsAt, ForceColorMatchOnRecurrentEdges PROVE ListsAt'
  OBVIOUS
<1>1. /\ phase = "recurrent" /\ phase' = "casts" /\ item' = item
      /\ clusters' = clusters /\ allow_set' = Recurrent.allow
  BY DEF ForceColorMatchOnRecurrentEdges, GoTo
<1>2. phase \in Matching /\ phase \in Colored /\ phase' \in Listed
  BY <1>1 DEF Matching, Colored, Listed
<1>3. Len(graph) \in Nat
  BY <1>2, GraphIsSelected, GraphOf DEF Fits
<1>4. \A a : Element(a) \in allow_set' <=> Element(a) \in allow_set
  BY <1>1, <1>3, MatchedElements
<1> QED
  BY <1>1, <1>2, <1>4, ListsColoredKept

LEMMA ListsWithCasts == IInv /\ ListsAt /\ MakeCastsAllowIfAllOutputsAllow => ListsAt'
<1> SUFFICES ASSUME IInv, ListsAt, MakeCastsAllowIfAllOutputsAllow PROVE ListsAt'
  OBVIOUS
<1> DEFINE M == {m \in DOMAIN graph :
                   /\ graph[m].op = "Cast" /\ IsFloat32(DstT(m)) /\ Fanout(m, 1) # {}
                   /\ \A d \in Fanout(m, 1) : InputVertex(d[1], d[2]) \in allow_set}
<1>1. /\ phase = "casts" /\ phase' = "change" /\ item' = item /\ clusters' = clusters
      /\ allow_set' = allow_set \cup {DstT(n) : n \in M}
  BY DEF MakeCastsAllowIfAllOutputsAllow, GoTo
<1>2. phase \in Colored /\ phase' \in Listed
  BY <1>1 DEF Colored, Listed
<1> HIDE DEF M
<1>3. \A a : Element(a) \notin {DstT(n) : n \in M}
  BY ElementsApart
<1> QED
  BY <1>1, <1>2, <1>3, ListsColoredKept

LEMMA ListsChanged == IInv /\ ListsAt /\ Complete => ListsAt'
<1> SUFFICES ASSUME IInv, ListsAt, Complete PROVE ListsAt'
  OBVIOUS
<1> DEFINE S == Selected(item)
<1>1. /\ phase = "change" /\ phase' = "done" /\ item' = item /\ graph' = graph
      /\ clusters' = clusters /\ node_idx > Len(item.graph)
  BY DEF Complete, sets
<1>2. /\ ItemFits(item) /\ Fits(S) /\ node_idx \in 1..(Len(item.graph) + 1)
      /\ Halfway(S, allow_set, graph, node_idx - 1, node_idx, 0)
      /\ Settled(S, allow_set)
  BY <1>1 DEF IInv, ChangeAt, PaintAt
<1>3. node_idx - 1 = Len(S) /\ node_idx = Len(S) + 1
  <2>1. Len(item.graph) \in Nat /\ Len(S) = Len(item.graph)
    BY <1>2, SelectedIsGraphDef, GraphOf DEF ItemFits
  <2> QED
    BY <1>1, <1>2, <2>1
<1>4. Halfway(S, allow_set, graph, Len(S), Len(S) + 1, 0)
  BY <1>2, <1>3
<1>5. /\ ListOpsFit(item.graph)
      /\ \A c \in clusters : Held(S, c) /\ OneColor(allow_set, c)
  BY <1>1 DEF ListsAt, Listed, Colored
<1>6. ListOpsFit(S)
  BY <1>2, <1>5, SelectedLists
<1> HIDE DEF S
<1>7. ListOpsFit(graph)
  BY <1>2, <1>4, <1>6, FinishedLists
<1>8. \A c \in clusters : \A a, b \in c :
        graph[a].attr["element_dtype"] = graph[b].attr["element_dtype"]
  BY <1>2, <1>4, <1>5, FinishedColor
<1>9. OneColorPerList'
  BY <1>1, <1>8 DEF OneColorPerList
<1>10. phase' \notin Listed \cup Colored \cup {"lists"}
  BY <1>1 DEF Listed, Colored, Painting, Matching
<1> QED
  BY <1>1, <1>5, <1>7, <1>9, <1>10 DEF ListsAt

LEMMA ListsAgain == IInv /\ ListsAt /\ RunAutoMixedPrecision => ListsAt'
<1> SUFFICES ASSUME IInv, ListsAt, RunAutoMixedPrecision PROVE ListsAt'
  OBVIOUS
<1>1. Done /\ item' = [item EXCEPT !.graph = graph] /\ phase' = "options"
  BY DEF RunAutoMixedPrecision, Done
<1>2. "graph" \in DOMAIN item
  BY DEF IInv, ItemFits
<1>3. item'.graph = graph
  BY <1>1, <1>2
<1>4. ListOpsFit(item'.graph)
  BY <1>1, <1>3 DEF ListsAt
<1>5. phase' \notin Listed \cup Colored \cup {"lists"} /\ ~Done'
  BY <1>1 DEF Listed, Colored, Painting, Matching, Done
<1> QED
  BY <1>4, <1>5 DEF ListsAt

LEMMA ListsKept == IInv /\ ListsAt /\ [Next]_vars => ListsAt'
<1> SUFFICES ASSUME IInv, ListsAt, [Next]_vars PROVE ListsAt'
  OBVIOUS
<1>1. CASE RefuseOptions \/ AbortOnWriter
  <2>1. item' = item /\ phase' = "done" /\ status' # "OK"
    BY <1>1 DEF RefuseOptions, AbortOnWriter, Return
  <2> QED
    BY <2>1, ListsLeft
<1>2. CASE RefuseGraph \/ RefuseLoop
  <2>1. item' = item /\ phase' = "done" /\ status' # "OK"
    BY <1>2 DEF RefuseGraph, RefuseLoop, Return
  <2> QED
    BY <2>1, ListsLeft
<1>3. CASE SelectNodes
  <2>1. item' = item /\ phase' = "types"
    BY <1>3 DEF SelectNodes, GoTo
  <2> QED
    BY <2>1, ListsLeft
<1>4. CASE \/ AddAllowlistOps
           \/ PropagateDenyFwdThroughClearAndInfer
           \/ AddClearAndInferToAllowIfBetweenAllow
           \/ AddInferToAllowIfFollowAllow
           \/ PropagateAllowThroughClear
           \/ RemoveAllowsetWithFp32
  <2>1. /\ phase \in {"allowlist", "deny", "between", "infer", "clear", "fp32"}
        /\ phase' \in {"deny", "match", "infer", "clear", "fp32", "match again"}
        /\ item' = item /\ clusters' = clusters
    BY <1>4 DEF AddAllowlistOps, PropagateDenyFwdThroughClearAndInfer,
                AddClearAndInferToAllowIfBetweenAllow, AddInferToAllowIfFollowAllow,
                PropagateAllowThroughClear, RemoveAllowsetWithFp32, GoTo
  <2>2. phase \in Listed /\ phase' \in Listed /\ phase' \notin Colored
    BY <2>1 DEF Listed, Colored, Painting, Matching
  <2> QED
    BY <2>1, <2>2, ListsCarried
<1>5. CASE ChangeTypeAttrsAndAddCasts
  <2>1. /\ phase = "change" /\ phase' = "change" /\ item' = item
        /\ clusters' = clusters /\ allow_set' = allow_set
    BY <1>5 DEF ChangeTypeAttrsAndAddCasts
  <2>2. phase \in Colored /\ phase' \in Listed
    BY <2>1 DEF Colored, Listed
  <2> QED
    BY <2>1, <2>2, ListsColoredKept
<1>6. CASE UNCHANGED vars
  BY <1>6, ListsStutter
<1>7. CASE \/ InitializeTypes \/ FindTensorLists \/ SkipOptimization
           \/ ForceColorMatchBetweenTensorListOps
           \/ ForceColorMatchOnRecurrentEdges
           \/ MakeCastsAllowIfAllOutputsAllow
           \/ Complete \/ RunAutoMixedPrecision
  BY <1>7, ListsSeen, ListsFound, ListsSkipped, ListsMatched, ListsInLoops,
     ListsWithCasts, ListsChanged, ListsAgain
<1> QED
  BY <1>1, <1>2, <1>3, <1>4, <1>5, <1>6, <1>7 DEF Next

-----------------------------------------------------------------------------
(* When Optimize returns OK, all nodes that FindTensorListImplicitFloat32- *)
(* Edges has found to share a list agree on the type of its elements,      *)
(* however the passes between the two of ForceColorMatchBetweenTensorList- *)
(* Ops, the matching of loops and of Casts have painted them, and however  *)
(* often the optimizer is run over what it has made.                       *)
THEOREM ListsKeepOneColor == Spec => []OneColorPerList
<1>1. Init => IInv /\ ListsAt
  BY InitFits, ListsInit
<1>2. IInv /\ ListsAt /\ [Next]_vars => (IInv /\ ListsAt)'
  BY Keeps, ListsKept
<1>3. ListsAt => OneColorPerList
  BY DEF ListsAt, OneColorPerList
<1> QED
  BY <1>1, <1>2, <1>3, PTL DEF Spec
-----------------------------------------------------------------------------
(* What must stay float.                                                   *)

LEMMA FromAllIs ==
  ASSUME NEW roots, NEW E, NEW enter, IsFiniteSet(enter)
  PROVE  LET M == FromAll(roots, E, enter)
         IN  /\ roots \subseteq M /\ M \subseteq roots \cup enter
             /\ Closed(M, E, enter)
             /\ \A N : roots \subseteq N /\ Closed(N, E, enter) => M \subseteq N
<1> DEFINE R(r) == DfsTypeTraversal(r, E, enter)
           M == FromAll(roots, E, enter)
<1>1. \A v : v \in M <=> \E r \in roots : v \in R(r)
  BY DEF FromAll
<1>2. \A r : /\ r \in R(r) /\ R(r) \subseteq enter \cup {r} /\ Closed(R(r), E, enter)
             /\ \A N : r \in N /\ Closed(N, E, enter) => R(r) \subseteq N
  BY TraversalIs
<1> HIDE DEF R, M
<1>3. roots \subseteq M /\ M \subseteq roots \cup enter
  BY <1>1, <1>2
<1>4. Closed(M, E, enter)
  BY <1>1, <1>2 DEF Closed
<1>5. \A N : roots \subseteq N /\ Closed(N, E, enter) => M \subseteq N
  BY <1>1, <1>2
<1> QED
  BY <1>3, <1>4, <1>5 DEF M

(* What is met and is no root was met along an edge.                       *)
LEMMA MetByEdge ==
  ASSUME NEW roots, NEW E, NEW enter, IsFiniteSet(enter),
         NEW v \in FromAll(roots, E, enter), v \notin roots
  PROVE  \E u \in FromAll(roots, E, enter) : Joins(E, u, v)
<1> DEFINE M == FromAll(roots, E, enter)
           N == roots \cup {w \in M : \E u \in M : Joins(E, u, w)}
<1>1. /\ roots \subseteq M /\ Closed(M, E, enter)
      /\ \A X : roots \subseteq X /\ Closed(X, E, enter) => M \subseteq X
  BY FromAllIs
<1>2. v \in M
  OBVIOUS
<1> HIDE DEF M
<1>3. \A w : w \in N <=> w \in roots \/ (w \in M /\ \E u \in M : Joins(E, u, w))
  OBVIOUS
<1> HIDE DEF N
<1>4. Closed(N, E, enter)
  BY <1>1, <1>3 DEF Closed
<1>5. v \in N
  BY <1>1, <1>2, <1>3, <1>4
<1> QED
  BY <1>3, <1>5 DEF M

(* Dangerous, for the lists of an update, a type view and the ops of a     *)
(* graph.                                                                  *)
OnList(u, S, v, list) == S[v[1]].op \in Lists(u)[list]
Back(E) == {<<e[2], e[1]>> : e \in E}

Between(u, V, S) ==
  {v \in V.vertices : \/ OnList(u, S, v, "DENYLIST")
                      \/ OnList(u, S, v, "INFERLIST")
                      \/ OnList(u, S, v, "CLEARLIST")}
Denies(u, V, S) == {v \in Between(u, V, S) : OnList(u, S, v, "DENYLIST")}
Affected(u, V, S) == {v \in Between(u, V, S) : ~OnList(u, S, v, "CLEARLIST")}
Behind(u, V, S) == FromAll(Denies(u, V, S), V.edges, Between(u, V, S))
Ahead(u, V, S) == FromAll(Affected(u, V, S), Back(V.edges), Between(u, V, S))
Danger(u, V, S) == Behind(u, V, S) \cap Ahead(u, V, S)

LEMMA DangerousIs == Dangerous = Danger(item.update, view, graph)
BY DEF Dangerous, Danger, Behind, Ahead, Affected, Denies, Between, Back, OnList,
       On, Op, ToFanouts, ToFanins

(* It is a matter of the ops alone.                                        *)
LEMMA SameDanger ==
  ASSUME NEW u, NEW V, NEW S, NEW g, \A v \in V.vertices : g[v[1]].op = S[v[1]].op
  PROVE  Danger(u, V, g) = Danger(u, V, S)
<1>1. Between(u, V, g) = Between(u, V, S)
  BY DEF Between, OnList
<1>2. \A v \in Between(u, V, S) : g[v[1]].op = S[v[1]].op
  BY DEF Between
<1>3. Denies(u, V, g) = Denies(u, V, S) /\ Affected(u, V, g) = Affected(u, V, S)
  BY <1>1, <1>2 DEF Denies, Affected, OnList
<1> QED
  BY <1>1, <1>3 DEF Danger, Behind, Ahead

LEMMA JoinsBack ==
  ASSUME NEW E, NEW v, NEW w
  PROVE  Joins(Back(E), v, w) <=> Joins(E, w, v)
<1>1. ASSUME Joins(Back(E), v, w) PROVE Joins(E, w, v)
  <2>1. PICK b \in Back(E) : b[1] = v /\ b[2] = w
    BY <1>1 DEF Joins
  <2>2. PICK e \in E : b = <<e[2], e[1]>>
    BY DEF Back
  <2>3. e[1] = w /\ e[2] = v
    BY <2>1, <2>2
  <2> QED
    BY <2>3 DEF Joins
<1>2. ASSUME Joins(E, w, v) PROVE Joins(Back(E), v, w)
  <2>1. PICK e \in E : e[1] = w /\ e[2] = v
    BY <1>2 DEF Joins
  <2> DEFINE b == <<e[2], e[1]>>
  <2>2. b \in Back(E) /\ b[1] = v /\ b[2] = w
    BY <2>1 DEF Back
  <2> HIDE DEF b
  <2> QED
    BY <2>2 DEF Joins
<1> QED
  BY <1>1, <1>2

(* The two searches of Dangerous.                                          *)
LEMMA DangerSearches ==
  ASSUME NEW u, NEW V, NEW S, IsFiniteSet(V.vertices)
  PROVE  LET W == Between(u, V, S)
             F == Behind(u, V, S)
             B == Ahead(u, V, S)
         IN  /\ IsFiniteSet(W) /\ W \subseteq V.vertices
             /\ Denies(u, V, S) \subseteq F /\ F \subseteq W /\ Closed(F, V.edges, W)
             /\ Affected(u, V, S) \subseteq B /\ B \subseteq W
             /\ Closed(B, Back(V.edges), W)
             /\ \A N : Denies(u, V, S) \subseteq N /\ Closed(N, V.edges, W) => F \subseteq N
             /\ \A N : Affected(u, V, S) \subseteq N /\ Closed(N, Back(V.edges), W)
                       => B \subseteq N
<1>1. Between(u, V, S) \subseteq V.vertices
  BY DEF Between
<1>2. IsFiniteSet(Between(u, V, S))
  BY <1>1, FS_Subset
<1>3. Denies(u, V, S) \subseteq Between(u, V, S) /\ Affected(u, V, S) \subseteq Between(u, V, S)
  BY DEF Denies, Affected
<1> QED
  BY <1>1, <1>2, <1>3, FromAllIs DEF Behind, Ahead

(* From a dangerous vertex that neither denies nor infers an edge leads to *)
(* another one.                                                            *)
LEMMA DangerGoesOn ==
  ASSUME NEW u, NEW V, NEW S, IsFiniteSet(V.vertices), NEW v \in Danger(u, V, S),
         ~OnList(u, S, v, "DENYLIST"), ~OnList(u, S, v, "INFERLIST")
  PROVE  \E w \in Danger(u, V, S) : Joins(V.edges, v, w)
<1>1. v \in Behind(u, V, S) /\ v \in Ahead(u, V, S)
  BY DEF Danger
<1>2. v \in Between(u, V, S)
  BY <1>1, DangerSearches
<1>3. v \notin Affected(u, V, S)
  BY <1>2 DEF Affected, Between
<1>4. PICK w \in Ahead(u, V, S) : Joins(Back(V.edges), w, v)
  BY <1>1, <1>3, DangerSearches, MetByEdge DEF Ahead
<1>5. Joins(V.edges, v, w)
  BY <1>4, JoinsBack
<1>6. w \in Between(u, V, S) /\ Closed(Behind(u, V, S), V.edges, Between(u, V, S))
  BY DangerSearches
<1>7. w \in Behind(u, V, S)
  BY <1>1, <1>5, <1>6 DEF Closed
<1> QED
  BY <1>5, <1>7 DEF Danger

(* What lies between dangerous ops is what the propagation of denial       *)
(* reaches, though it searches in two stages and may leave out what is     *)
(* denied before.                                                          *)
LEMMA DangerIsDenied ==
  ASSUME IsFiniteSet(view.vertices), PropagateDenyFwdThroughClearAndInfer,
         deny_set \cap Dangerous = {}
  PROVE  Dangerous \subseteq deny_set'
<1> DEFINE u == item.update
           W == Between(u, view, graph)
           F == Behind(u, view, graph)
           B == Ahead(u, view, graph)
           U == UpstreamOfDenyOrInfer
           clear == {v \in view.vertices : On(v, "CLEARLIST")}
           ends == {v \in view.vertices : On(v, "DENYLIST") \/ On(v, "INFERLIST")}
           denies == {v \in view.vertices \ deny_set : On(v, "DENYLIST")}
           M == FromAll(denies, ToFanouts, U \ deny_set)
<1>1. /\ IsFiniteSet(W) /\ W \subseteq view.vertices
      /\ Denies(u, view, graph) \subseteq F /\ F \subseteq W /\ Closed(F, view.edges, W)
      /\ B \subseteq W /\ Closed(B, Back(view.edges), W)
      /\ \A N : Denies(u, view, graph) \subseteq N /\ Closed(N, view.edges, W)
                => F \subseteq N
      /\ \A N : Affected(u, view, graph) \subseteq N /\ Closed(N, Back(view.edges), W)
                => B \subseteq N
  BY DangerSearches
<1>2. /\ \A v : v \in W <=> v \in clear \cup ends
      /\ Affected(u, view, graph) \subseteq ends
      /\ \A v : v \in Denies(u, view, graph) => v \in view.vertices /\ On(v, "DENYLIST")
  BY DEF Between, Affected, Denies, OnList, On, Op
<1>3. ToFanouts = view.edges /\ ToFanins = Back(view.edges)
  BY DEF ToFanouts, ToFanins, Back
<1>4. Dangerous = F \cap B
  BY DangerousIs DEF Danger
<1>5. IsFiniteSet(clear) /\ clear \subseteq view.vertices
  <2>1. clear \subseteq view.vertices
    OBVIOUS
  <2> HIDE DEF clear
  <2> QED
    BY <2>1, FS_Subset
<1>6. deny_set' = deny_set \cup M
  BY DEF PropagateDenyFwdThroughClearAndInfer
<1>7. U = FromAll(ends, Back(view.edges), clear)
  BY <1>3 DEF UpstreamOfDenyOrInfer
<1>8. ends \subseteq view.vertices
  OBVIOUS
<1>9. \A v : v \in denies <=> v \in view.vertices /\ v \notin deny_set /\ On(v, "DENYLIST")
  OBVIOUS
<1> HIDE DEF W, F, B, U, clear, ends, denies, u
<1>10. ends \subseteq U /\ U \subseteq ends \cup clear /\ Closed(U, Back(view.edges), clear)
  BY <1>5, <1>7, FromAllIs
<1>11. B \subseteq U
  <2>1. Affected(u, view, graph) \subseteq U
    BY <1>2, <1>10
  <2>2. Closed(U, Back(view.edges), W)
    BY <1>2, <1>10 DEF Closed
  <2> QED
    BY <1>1, <2>1, <2>2
<1>12. IsFiniteSet(U \ deny_set)
  <2>1. U \ deny_set \subseteq view.vertices
    BY <1>5, <1>8, <1>10
  <2> QED
    BY <2>1, FS_Subset
<1>13. denies \subseteq M /\ Closed(M, view.edges, U \ deny_set)
  BY <1>3, <1>12, FromAllIs
<1> HIDE DEF M
<1>14. ASSUME NEW w \in F, w \in B PROVE w \notin deny_set
  BY <1>4, <1>14
<1> DEFINE N == {v \in F : v \in M \/ v \notin B}
<1>15. Denies(u, view, graph) \subseteq N
  BY <1>1, <1>2, <1>9, <1>13, <1>14
<1>16. ASSUME NEW v \in N, NEW w \in W, Joins(view.edges, v, w) PROVE w \in N
  <2>1. w \in F /\ v \in W
    BY <1>1, <1>16 DEF Closed
  <2>2. CASE w \in B
    <3>1. v \in B
      BY <1>1, <1>16, <2>1, <2>2, JoinsBack DEF Closed
    <3>2. v \in M /\ w \in U \ deny_set
      BY <1>11, <1>14, <2>1, <2>2, <3>1
    <3>3. w \in M
      BY <1>13, <1>16, <3>2 DEF Closed
    <3> QED
      BY <2>1, <3>3
  <2> QED
    BY <2>1, <2>2
<1>17. F \subseteq N
  <2> HIDE DEF N
  <2>1. Closed(N, view.edges, W)
    BY <1>16 DEF Closed
  <2> QED
    BY <1>1, <1>15, <2>1
<1> QED
  BY <1>4, <1>6, <1>17

-----------------------------------------------------------------------------
(* What must stay float stays so: what the invariant says of it.           *)

(* No configuration denies or infers the Casts that the pass repaints and  *)
(* the NextIterations it matches in the end, whatever the lists say.       *)
LeavesCastsAndLoops(u) ==
  \A list \in {"DENYLIST", "INFERLIST"} :
    {"Cast", "NextIteration"} \cap Lists(u)[list] = {}

(* No list is denied in advance, as unsafe, that lies between dangerous    *)
(* ops: the propagation of deny ops would stop there.                      *)
ListsOutOfDanger == phase = "deny" => deny_set \cap Dangerous = {}

(* The type view of S, with the implicit edges of lists.                   *)
ViewFits(V, S) ==
  /\ IsFiniteSet(V.vertices)
  /\ \A v \in V.vertices :
       v = <<v[1], v[2]>> /\ v[1] \in DOMAIN S /\ v[2] \in GetTypeAttrs(S[v[1]])
  /\ \A e \in V.edges :
       \/ IsTensorListOp(S[e[1][1]].op)
       \/ \E d \in DOMAIN S : \E k \in DOMAIN S[d].input :
            e = <<Out(S, S[d].input[k]), In(S, d, k)>>

Denied == {"match", "between", "infer", "clear", "fp32", "match again"}

Spared(u, V, S, A) == A \cap Danger(u, V, S) = {}

DangerAt ==
  /\ LeavesCastsAndLoops(item.update)
  /\ phase \in {"types", "lists"} \cup Listed => ValidateLists(Lists(item.update))
  /\ phase \in Listed => /\ ViewFits(view, Selected(item))
                         /\ Spared(item.update, view, Selected(item), allow_set)
  /\ phase \in Denied => Danger(item.update, view, Selected(item)) \subseteq deny_set
  /\ Done => DangerKeepsFloat

LEMMA BatchNormKeepsFloats ==
  ASSUME NEW it, ItemFits(it), NEW n \in DOMAIN it.graph, NEW id,
         GetDataType(it.graph[n], id) = "float"
  PROVE  GetDataType(Selected(it)[n], id) = "float"
<1> DEFINE x == it.graph[n]
           y == Selected(it)[n]
<1>1. CASE Convertible(it, x)
  <2>1. y = BatchNormV2(x) /\ "U" \notin DOMAIN x.attr /\ IsNodeDef(x, Len(it.graph))
    BY <1>1, GraphOf DEF Selected, ItemFits
  <2> HIDE DEF x, y
  <2>2. y.attr = [a \in DOMAIN x.attr \cup {"U"} |->
                    IF a = "U" THEN SingleType("float") ELSE x.attr[a]]
    <3>1. x = [name |-> x.name, op |-> x.op, device |-> x.device,
               attr |-> x.attr, input |-> x.input]
      BY <2>1 DEF IsNodeDef
    <3> QED
      BY <2>1, <3>1 DEF BatchNormV2
  <2>3. GetDataType(x, id) = "float"
    BY DEF x
  <2>4. CASE id.attr_name = ""
    BY <2>3, <2>4 DEF GetDataType, y
  <2>5. CASE id.attr_name # ""
    <3>1. id.attr_name \in DOMAIN x.attr
      BY <2>3, <2>5 DEF GetDataType
    <3>2. id.attr_name \in DOMAIN y.attr /\ y.attr[id.attr_name] = x.attr[id.attr_name]
      BY <2>1, <2>2, <3>1
    <3>3. GetDataType(y, id) = GetDataType(x, id)
      BY <2>5, <3>1, <3>2 DEF GetDataType
    <3> QED
      BY <2>3, <3>3 DEF y
  <2> QED
    BY <2>4, <2>5
<1>2. CASE ~Convertible(it, x)
  BY <1>2 DEF Selected
<1> QED
  BY <1>1, <1>2

(* The ports of the ops that are matched.                                  *)
LEMMA OneOutput ==
  ASSUME NEW x, HasValues(x.attr), x.op \in {"Cast", "NextIteration"}
  PROVE  DOMAIN OutputPortTypes(x) = {1}
<1>1. "DstT" \in AttrNames /\ "T" \in AttrNames
  BY DEF Strings, AttrNames
<1>2. /\ OpDefs["Cast"].output_arg \in Seq(ArgDef)
      /\ OpDefs["NextIteration"].output_arg \in Seq(ArgDef)
      /\ OnePortOfType(OpDefs["Cast"].output_arg, "DstT")
      /\ OnePortOfType(OpDefs["NextIteration"].output_arg, "T")
  BY OpsAssumption
<1>3. CASE x.op = "Cast"
  <2>1. PortsOfType(OpDefs["Cast"].output_arg, "DstT")
    BY <1>2 DEF OnePortOfType
  <2> QED
    BY <1>1, <1>2, <1>3, <2>1, TypeAttrPorts DEF OutputPortTypes
<1>4. CASE x.op = "NextIteration"
  <2>1. PortsOfType(OpDefs["NextIteration"].output_arg, "T")
    BY <1>2 DEF OnePortOfType
  <2> QED
    BY <1>1, <1>2, <1>4, <2>1, TypeAttrPorts DEF OutputPortTypes
<1> QED
  BY <1>3, <1>4

LEMMA MergeInputs ==
  ASSUME NEW x, HasValues(x.attr), x.op = "Merge"
  PROVE  \A j \in DOMAIN InputPortTypes(x) : InputPortTypes(x)[j] = TypeAttr("T")
<1>1. "T" \in AttrNames
  BY DEF Strings, AttrNames
<1>2. /\ OpDefs["Merge"].input_arg \in Seq(ArgDef)
      /\ PortsOfType(OpDefs["Merge"].input_arg, "T")
  BY OpsAssumption
<1> QED
  BY <1>1, <1>2, TypeAttrPorts DEF InputPortTypes

(* What a NextIteration or a Cast gives goes on, where it is dangerous, to *)
(* a dangerous reader.                                                     *)
LEMMA DangerRead ==
  ASSUME NEW u, LeavesCastsAndLoops(u), NEW V, NEW S, S = graph, Fits(S), ViewFits(V, S),
         NEW n \in DOMAIN S, S[n].op \in {"Cast", "NextIteration"},
         NEW id, <<n, id>> \in Danger(u, V, S)
  PROVE  \E d \in DOMAIN S : \E k \in DOMAIN S[d].input :
           <<d, k>> \in Fanout(n, 1) /\ In(S, d, k) \in Danger(u, V, S)
<1> DEFINE v == <<n, id>>
<1>1. IsFiniteSet(V.vertices)
  BY DEF ViewFits
<1>2. v[1] = n
  OBVIOUS
<1>3. ~OnList(u, S, v, "DENYLIST") /\ ~OnList(u, S, v, "INFERLIST")
  BY <1>2 DEF OnList, LeavesCastsAndLoops
<1>4. v \in Danger(u, V, S)
  OBVIOUS
<1> HIDE DEF v
<1>5. PICK w \in Danger(u, V, S) : Joins(V.edges, v, w)
  BY <1>1, <1>3, <1>4, DangerGoesOn
<1>6. PICK e \in V.edges : e[1] = v /\ e[2] = w
  BY <1>5 DEF Joins
<1>7. ~IsTensorListOp(S[e[1][1]].op)
  BY <1>2, <1>6 DEF IsTensorListOp, tensor_list_ops
<1>8. PICK d \in DOMAIN S : \E k \in DOMAIN S[d].input :
        e = <<Out(S, S[d].input[k]), In(S, d, k)>>
  BY <1>7 DEF ViewFits
<1>9. PICK k \in DOMAIN S[d].input : e = <<Out(S, S[d].input[k]), In(S, d, k)>>
  BY <1>8
<1> DEFINE i == S[d].input[k]
<1>10. Out(S, i) = v /\ In(S, d, k) = w
  BY <1>6, <1>9
<1>11. i.node = n
  BY <1>2, <1>10 DEF Out
<1>12. /\ i.port \in DOMAIN OutputPortTypes(S[n])
       /\ i = [node |-> i.node, port |-> i.port]
  <2>1. i.port \in DOMAIN OutputPortTypes(S[i.node])
    BY DEF Fits
  <2>2. IsNodeDef(S[d], Len(S)) /\ Len(S) \in Nat
    BY GraphOf DEF Fits
  <2>3. i = [node |-> i.node, port |-> i.port]
    BY <2>2, InputOf
  <2> QED
    BY <1>11, <2>1, <2>3
<1>13. DOMAIN OutputPortTypes(S[n]) = {1}
  BY NodeOf, OneOutput
<1>14. S[d].input[k] = [node |-> n, port |-> 1]
  BY <1>11, <1>12, <1>13
<1>15. <<d, k>> \in Fanout(n, 1)
  BY <1>14 DEF Fanout
<1> QED
  BY <1>5, <1>10, <1>15

(* Matching a loop paints nothing dangerous.                               *)
LEMMA LoopSpares ==
  ASSUME NEW u, LeavesCastsAndLoops(u), NEW V, NEW S, S = graph, Fits(S), ViewFits(V, S),
         NEW n \in DOMAIN S, NEW before,
         before = [allow |-> before.allow, status |-> before.status],
         Spared(u, V, S, before.allow)
  PROVE  LET after == MatchRecurrentEdges(n, before)
         IN  /\ after = [allow |-> after.allow, status |-> after.status]
             /\ Spared(u, V, S, after.allow)
<1> DEFINE merges == {d[1] : d \in Fanout(n, 1)}
           loop == {T(m) : m \in merges}
           after == MatchRecurrentEdges(n, before)
<1>1. \/ after = before
      \/ after = [before EXCEPT !.status = "FailedPrecondition"]
      \/ after = [before EXCEPT !.status = "Internal"]
      \/ /\ after = [before EXCEPT !.allow = @ \cup {T(n)}]
         /\ graph[n].op = "NextIteration" /\ loop \subseteq before.allow
         /\ \A m \in merges : graph[m].op = "Merge"
      \/ after = [before EXCEPT !.allow = @ \ (loop \cup {T(n)})]
  BY DEF MatchRecurrentEdges
<1>2. ASSUME graph[n].op = "NextIteration", loop \subseteq before.allow,
             \A m \in merges : graph[m].op = "Merge", T(n) \in Danger(u, V, S)
      PROVE  FALSE
  <2>1. PICK d \in DOMAIN S : \E k \in DOMAIN S[d].input :
          <<d, k>> \in Fanout(n, 1) /\ In(S, d, k) \in Danger(u, V, S)
    BY <1>2, DangerRead DEF T
  <2>2. PICK k \in DOMAIN S[d].input :
          <<d, k>> \in Fanout(n, 1) /\ In(S, d, k) \in Danger(u, V, S)
    BY <2>1
  <2>3. d \in merges
    <3>1. <<d, k>>[1] = d
      OBVIOUS
    <3> QED
      BY <2>2, <3>1
  <2>4. In(S, d, k) = T(d)
    <3>1. HasValues(S[d].attr)
      BY NodeOf
    <3>2. S[d].op = "Merge"
      BY <1>2, <2>3
    <3>3. \A j \in DOMAIN InputPortTypes(S[d]) : InputPortTypes(S[d])[j] = TypeAttr("T")
      BY <3>1, <3>2, MergeInputs
    <3>4. k \in DOMAIN InputPortTypes(S[d])
      BY NodeOf
    <3> QED
      BY <3>3, <3>4 DEF In, T
  <2>5. T(d) \in loop
    BY <2>3
  <2> HIDE DEF loop
  <2> QED
    BY <1>2, <2>2, <2>4, <2>5 DEF Spared
<1> HIDE DEF loop, after
<1>3. /\ after = [allow |-> after.allow, status |-> after.status]
      /\ \/ after.allow = before.allow
         \/ /\ after.allow = before.allow \cup {T(n)}
            /\ graph[n].op = "NextIteration" /\ loop \subseteq before.allow
            /\ \A m \in merges : graph[m].op = "Merge"
         \/ after.allow = before.allow \ (loop \cup {T(n)})
  <2> HIDE DEF merges
  <2> QED
    BY <1>1
<1>4. Spared(u, V, S, after.allow)
  <2> HIDE DEF merges
  <2> QED
    BY <1>2, <1>3 DEF Spared
<1> QED
  BY <1>3, <1>4 DEF after

-----------------------------------------------------------------------------
(* The steps.                                                              *)

(* A pass that has seen no types, or fails.                                *)
LEMMA DangerLeft ==
  ASSUME DangerAt, item' = item, phase' = "done" /\ status' # "OK"
  PROVE  DangerAt'
<1>1. phase' \notin {"types", "lists"} \cup Listed \cup Denied /\ ~Done'
  BY DEF Listed, Denied, Painting, Matching, Done
<1> QED
  BY <1>1 DEF DangerAt

LEMMA NoneIsDone == "done" \notin Listed
BY Zenon DEF Listed, Painting, Matching

(* A step that paints.                                                     *)
LEMMA DangerCarried ==
  ASSUME DangerAt, phase \in Listed, phase' \in Listed, item' = item, view' = view,
         Spared(item.update, view, Selected(item), allow_set'),
         phase' \in Denied => Danger(item.update, view, Selected(item)) \subseteq deny_set'
  PROVE  DangerAt'
<1>1. ~Done'
  <2>1. phase' # "done"
    BY NoneIsDone
  <2> QED
    BY <2>1 DEF Done
<1>2. phase' \in {"types", "lists"} \cup Listed
  OBVIOUS
<1> QED
  BY <1>1, <1>2 DEF DangerAt

(* What is where in these steps.                                           *)
LEMMA DangerNow ==
  ASSUME IInv, DangerAt, phase \in {"allowlist"} \cup Painting \cup Matching
  PROVE  /\ phase \in Listed /\ graph = Selected(item) /\ Fits(graph)
         /\ ViewFits(view, graph) /\ ValidateLists(Lists(item.update))
         /\ LeavesCastsAndLoops(item.update)
         /\ Spared(item.update, view, graph, allow_set)
         /\ Dangerous = Danger(item.update, view, graph)
         /\ phase \in Denied => Dangerous \subseteq deny_set
<1>1. phase \in Listed
  BY DEF Listed
<1>2. graph = Selected(item) /\ Fits(graph)
  BY GraphIsSelected
<1> QED
  BY <1>1, <1>2, DangerousIs DEF DangerAt

(* Allowlist ops are on none of the lists that make up a dangerous way.    *)
LEMMA AllowlistSpared ==
  ASSUME ValidateLists(Lists(item.update)), IsFiniteSet(view.vertices), NEW v \in Dangerous
  PROVE  v \notin AllowlistVertices
<1>1. v \in Between(item.update, view, graph)
  BY DangerousIs, DangerSearches DEF Danger
<1>2. PICK list \in {"DENYLIST", "INFERLIST", "CLEARLIST"} :
        graph[v[1]].op \in Lists(item.update)[list]
  BY <1>1 DEF Between, OnList
<1>3. {"ALLOWLIST", list} \subseteq ListNames /\ list # "ALLOWLIST"
  BY DEF ListNames
<1>4. Lists(item.update)["ALLOWLIST"] \cap Lists(item.update)[list] = {}
  BY <1>3 DEF ValidateLists
<1>5. ~On(v, "ALLOWLIST")
  BY <1>2, <1>4 DEF On, Op
<1> QED
  BY <1>5 DEF AllowlistVertices

(* A list op has the float it holds.                                       *)
LEMMA FloatOfList ==
  ASSUME NEW n, NEW v \in TensorListFloat32(n)
  PROVE  IsTensorListOp(graph[v[1]].op)
<1>1. IsTensorListOp(graph[n].op)
  BY DEF TensorListFloat32
<1>2. PICK id : v = <<n, id>>
  BY <1>1 DEF TensorListFloat32
<1>3. v[1] = n
  BY <1>2
<1> QED
  BY <1>1, <1>3

LEMMA DangerInit == Init /\ LeavesCastsAndLoops(item.update) => DangerAt
<1> SUFFICES ASSUME Init, LeavesCastsAndLoops(item.update) PROVE DangerAt
  OBVIOUS
<1>1. phase = "options"
  BY DEF Init
<1> QED
  BY <1>1 DEF DangerAt, Listed, Denied, Painting, Matching, Done

LEMMA DangerStutter == DangerAt /\ UNCHANGED vars => DangerAt'
<1> SUFFICES ASSUME DangerAt, UNCHANGED vars PROVE DangerAt'
  OBVIOUS
<1>1. /\ item' = item /\ graph' = graph /\ phase' = phase /\ status' = status
      /\ view' = view /\ allow_set' = allow_set /\ deny_set' = deny_set
  BY DEF vars
<1>2. DangerKeepsFloat' <=> DangerKeepsFloat
  BY <1>1 DEF DangerKeepsFloat, Dangerous, Converted, Done, IsFloat32, On, Op,
              ToFanouts, ToFanins
<1> QED
  BY <1>1, <1>2 DEF DangerAt, Done

LEMMA DangerSelects == DangerAt /\ SelectNodes => DangerAt'
<1> SUFFICES ASSUME DangerAt, SelectNodes PROVE DangerAt'
  OBVIOUS
<1>1. item' = item /\ phase' = "types" /\ ValidateLists(Lists(item.update))
  BY DEF SelectNodes, GoTo, OptionsRefused
<1>2. phase' \notin Listed \cup Denied /\ ~Done'
  BY <1>1 DEF Listed, Denied, Painting, Matching, Done
<1> QED
  BY <1>1, <1>2 DEF DangerAt

LEMMA DangerSeen == DangerAt /\ InitializeTypes => DangerAt'
<1> SUFFICES ASSUME DangerAt, InitializeTypes PROVE DangerAt'
  OBVIOUS
<1>1. item' = item /\ phase = "types" /\ phase' = "lists"
  BY DEF InitializeTypes, GoTo
<1>2. phase' \notin Listed \cup Denied /\ ~Done' /\ ValidateLists(Lists(item.update))
  BY <1>1 DEF DangerAt, Listed, Denied, Painting, Matching, Done
<1> QED
  BY <1>1, <1>2 DEF DangerAt

LEMMA DangerFound == IInv /\ ListsAt /\ DangerAt /\ FindTensorLists => DangerAt'
<1> SUFFICES ASSUME IInv, ListsAt, DangerAt, FindTensorLists PROVE DangerAt'
  OBVIOUS
<1>1. /\ phase = "lists" /\ phase' = "allowlist" /\ item' = item
      /\ allow_set' = allow_set /\ clusters' = {ClusterOf(root) : root \in Roots}
      /\ view' = [view EXCEPT !.edges = @ \cup UNION {ImplicitEdges(c) : c \in clusters'}]
  BY DEF FindTensorLists, GoTo
<1>2. ItemFits(item) /\ graph = Selected(item) /\ Fits(graph)
  BY <1>1, GraphIsSelected
<1>3. ListOpsFit(item.graph) /\ view = TypeView
  BY <1>1 DEF ListsAt
<1>4. Viewed
  <2>1. EdgesAgree(graph) /\ ListOpsFit(graph)
    BY <1>2, <1>3, SelectedAgrees, SelectedLists
  <2> QED
    BY <1>2, <1>3, <2>1 DEF Viewed
<1>5. /\ view'.vertices = view.vertices
      /\ view'.edges = view.edges \cup UNION {ImplicitEdges(c) : c \in clusters'}
  BY <1>1, <1>3 DEF TypeView
<1>6. ViewFits(view', graph)
  <2>1. IsFiniteSet(view'.vertices)
    BY <1>4, <1>5, FiniteVertices
  <2>2. ASSUME NEW v \in view'.vertices
        PROVE  v = <<v[1], v[2]>> /\ v[1] \in DOMAIN graph
               /\ v[2] \in GetTypeAttrs(graph[v[1]])
    BY <1>4, <1>5, VertexOf
  <2>3. ASSUME NEW e \in view'.edges
        PROVE  \/ IsTensorListOp(graph[e[1][1]].op)
               \/ \E d \in DOMAIN graph : \E k \in DOMAIN graph[d].input :
                    e = <<Out(graph, graph[d].input[k]), In(graph, d, k)>>
    <3>1. CASE e \in view.edges
      BY <1>3, <3>1 DEF TypeView, Out, In, InputVertex
    <3>2. CASE e \notin view.edges
      <4>1. PICK c \in clusters' : e \in ImplicitEdges(c)
        BY <1>5, <3>2
      <4>2. PICK r \in Readers(c) :
              e \in UNION {TensorListFloat32(w) \X TensorListFloat32(r) : w \in Writers(r)}
        BY <4>1 DEF ImplicitEdges
      <4>3. PICK w \in Writers(r) : e \in TensorListFloat32(w) \X TensorListFloat32(r)
        BY <4>2
      <4>4. e[1] \in TensorListFloat32(w)
        BY <4>3
      <4>5. IsTensorListOp(graph[e[1][1]].op)
        BY <4>4, FloatOfList
      <4> QED
        BY <4>5
    <3> QED
      BY <3>1, <3>2
  <2> QED
    BY <2>1, <2>2, <2>3 DEF ViewFits
<1>7. allow_set' = {}
  BY <1>1 DEF IInv, PaintAt, Unpainted
<1>8. Spared(item.update, view', Selected(item), allow_set')
  BY <1>7 DEF Spared
<1>9. phase' \in Listed /\ phase' \notin Denied /\ ~Done'
  BY <1>1 DEF Listed, Denied, Done
<1>10. ValidateLists(Lists(item.update)) /\ LeavesCastsAndLoops(item.update)
  BY <1>1 DEF DangerAt
<1> QED
  BY <1>1, <1>2, <1>6, <1>8, <1>9, <1>10 DEF DangerAt

(* Nothing is converted.                                                   *)
LEMMA DangerSkipped == IInv /\ DangerAt /\ SkipOptimization => DangerAt'
<1> SUFFICES ASSUME IInv, DangerAt, SkipOptimization PROVE DangerAt'
  OBVIOUS
<1>1. /\ phase = "allowlist" /\ phase' = "done" /\ item' = item /\ graph' = graph
      /\ view' = view
  BY DEF SkipOptimization, sets
<1>2. ItemFits(item) /\ graph = Selected(item) /\ ViewFits(view, graph)
  BY <1>1, GraphIsSelected, DangerNow
<1>3. DOMAIN graph = DOMAIN item.graph
  BY <1>2, SelectedIsGraphDef
<1>4. ASSUME NEW v \in view.vertices, GetDataType(item.graph[v[1]], v[2]) = "float"
      PROVE  IsFloat32(v)
  <2>1. v[1] \in DOMAIN item.graph
    BY <1>2, <1>3 DEF ViewFits
  <2> QED
    BY <1>2, <1>4, <2>1, BatchNormKeepsFloats DEF IsFloat32
<1>5. Converted = {}
  BY <1>4 DEF Converted
<1>6. Converted' = {}
  BY <1>1, <1>5 DEF Converted, IsFloat32
<1>7. DangerKeepsFloat'
  BY <1>6 DEF DangerKeepsFloat
<1>8. phase' \notin {"types", "lists"} \cup Listed \cup Denied
  BY <1>1 DEF Listed, Denied, Painting, Matching
<1> QED
  BY <1>1, <1>7, <1>8 DEF DangerAt

LEMMA DangerAllowed == IInv /\ DangerAt /\ AddAllowlistOps => DangerAt'
<1> SUFFICES ASSUME IInv, DangerAt, AddAllowlistOps PROVE DangerAt'
  OBVIOUS
<1>1. /\ phase = "allowlist" /\ phase' = "deny" /\ item' = item /\ view' = view
      /\ allow_set' = allow_set \cup AllowlistVertices
  BY DEF AddAllowlistOps, GoTo
<1>2. /\ phase \in Listed /\ graph = Selected(item) /\ IsFiniteSet(view.vertices)
      /\ ValidateLists(Lists(item.update))
      /\ Spared(item.update, view, graph, allow_set)
      /\ Dangerous = Danger(item.update, view, graph)
  BY <1>1, DangerNow DEF ViewFits
<1>3. Spared(item.update, view, Selected(item), allow_set')
  BY <1>1, <1>2, AllowlistSpared DEF Spared
<1>4. phase' \in Listed /\ phase' \notin Denied
  BY <1>1 DEF Listed, Denied, Painting
<1> QED
  BY <1>1, <1>2, <1>3, <1>4, DangerCarried

LEMMA DangerPropagated ==
  IInv /\ DangerAt /\ ListsOutOfDanger /\ PropagateDenyFwdThroughClearAndInfer => DangerAt'
<1> SUFFICES ASSUME IInv, DangerAt, ListsOutOfDanger, PropagateDenyFwdThroughClearAndInfer
             PROVE  DangerAt'
  OBVIOUS
<1>1. /\ phase = "deny" /\ phase' = "match" /\ item' = item /\ view' = view
      /\ allow_set' = allow_set
  BY DEF PropagateDenyFwdThroughClearAndInfer, GoTo
<1>2. phase \in Painting /\ deny_set \cap Dangerous = {}
  BY <1>1 DEF Painting, ListsOutOfDanger
<1>3. /\ phase \in Listed /\ graph = Selected(item) /\ IsFiniteSet(view.vertices)
      /\ Spared(item.update, view, graph, allow_set)
      /\ Dangerous = Danger(item.update, view, graph)
  BY <1>2, DangerNow DEF ViewFits
<1>4. Dangerous \subseteq deny_set'
  BY <1>2, <1>3, DangerIsDenied
<1>5. phase' \in Listed
  BY <1>1 DEF Listed, Painting
<1> QED
  BY <1>1, <1>3, <1>4, <1>5, DangerCarried

(* A step that allows nothing dangerous.                                   *)
LEMMA DangerPainted ==
  ASSUME IInv, DangerAt, phase \in {"allowlist"} \cup Painting \cup Matching,
         phase' \in Listed, item' = item, view' = view,
         \A v \in allow_set' : v \in allow_set \/ v \notin Dangerous,
         phase' \in Denied => phase \in Denied /\ deny_set \subseteq deny_set'
  PROVE  DangerAt'
<1>1. /\ phase \in Listed /\ graph = Selected(item)
      /\ Spared(item.update, view, graph, allow_set)
      /\ Dangerous = Danger(item.update, view, graph)
      /\ phase \in Denied => Dangerous \subseteq deny_set
  BY DangerNow
<1>2. Spared(item.update, view, Selected(item), allow_set')
  BY <1>1 DEF Spared
<1>3. phase' \in Denied => Danger(item.update, view, Selected(item)) \subseteq deny_set'
  BY <1>1
<1> QED
  BY <1>1, <1>2, <1>3, DangerCarried

LEMMA DangerMatched == IInv /\ DangerAt /\ ForceColorMatchBetweenTensorListOps => DangerAt'
<1> SUFFICES ASSUME IInv, DangerAt, ForceColorMatchBetweenTensorListOps PROVE DangerAt'
  OBVIOUS
<1>1. /\ \/ phase = "match" /\ phase' = "between"
         \/ phase = "match again" /\ phase' = "recurrent"
      /\ item' = item
  BY DEF ForceColorMatchBetweenTensorListOps, GoTo
<1>2. /\ phase \in {"allowlist"} \cup Painting \cup Matching
      /\ phase \in Denied /\ phase' \in Listed
  <2>1. phase \in Painting \cup Matching
    BY <1>1, Zenon DEF Painting, Matching
  <2>2. phase \in Denied
    BY <1>1, Zenon DEF Denied
  <2>3. phase' \in Listed
    BY <1>1, Zenon DEF Listed, Painting, Matching
  <2> QED
    BY <2>1, <2>2, <2>3
<1>0. /\ item' = item /\ view' = view
      /\ deny_set' = deny_set \cup UNION {Values(c) : c \in DeniedLists}
      /\ allow_set' = (allow_set \ UNION {Values(c) : c \in DeniedLists})
                        \cup UNION {Values(c) : c \in AllowedLists}
  <2>1. item' = item
    BY <1>1, Zenon
  <2>2. /\ deny_set' = deny_set \cup UNION {Values(c) : c \in DeniedLists}
        /\ allow_set' = (allow_set \ UNION {Values(c) : c \in DeniedLists})
                          \cup UNION {Values(c) : c \in AllowedLists}
        /\ UNCHANGED <<graph, should_process, view, clusters, node_idx>>
    BY Zenon DEF ForceColorMatchBetweenTensorListOps
  <2> QED
    BY <2>1, <2>2
<1>3. Dangerous \subseteq deny_set
  BY <1>2, DangerNow
<1>4. ASSUME NEW v \in UNION {Values(c) : c \in AllowedLists} PROVE v \notin Dangerous
  <2>1. PICK c \in AllowedLists : v \in Values(c)
    OBVIOUS
  <2>2. Values(c) \cap deny_set = {}
    BY <2>1 DEF AllowedLists, DeniedLists
  <2> QED
    BY <1>3, <2>1, <2>2
<1>5. \A v \in allow_set' : v \in allow_set \/ v \notin Dangerous
  BY <1>0, <1>4
<1>6. deny_set \subseteq deny_set'
  BY <1>0
<1> QED
  BY <1>0, <1>2, <1>5, <1>6, DangerPainted

(* The steps that allow what is not denied.                                *)
LEMMA DangerNotAllowed ==
  ASSUME IInv, DangerAt, phase \in Painting, phase \in Denied, phase' \in Listed,
         item' = item, view' = view, deny_set' = deny_set,
         \A v \in allow_set' : \/ v \in allow_set \cup AllowlistVertices
                               \/ v \notin deny_set
  PROVE  DangerAt'
<1>1. phase \in {"allowlist"} \cup Painting \cup Matching
  OBVIOUS
<1>2. /\ Dangerous \subseteq deny_set /\ ValidateLists(Lists(item.update))
      /\ IsFiniteSet(view.vertices)
  BY <1>1, DangerNow DEF ViewFits
<1>3. \A v \in allow_set' : v \in allow_set \/ v \notin Dangerous
  BY <1>2, AllowlistSpared
<1>4. deny_set \subseteq deny_set'
  OBVIOUS
<1> QED
  BY <1>1, <1>3, <1>4, DangerPainted

LEMMA DangerBetween == IInv /\ DangerAt /\ AddClearAndInferToAllowIfBetweenAllow => DangerAt'
<1> SUFFICES ASSUME IInv, DangerAt, AddClearAndInferToAllowIfBetweenAllow PROVE DangerAt'
  OBVIOUS
<1>1. /\ phase = "between" /\ phase' = "infer" /\ item' = item /\ view' = view
      /\ deny_set' = deny_set
      /\ allow_set' = allow_set \cup FromAll(AllowlistVertices, ToFanins, DownstreamOfAllow)
  BY DEF AddClearAndInferToAllowIfBetweenAllow, GoTo
<1>0. phase \in Painting /\ phase \in Denied /\ phase' \in Listed
  BY <1>1, Zenon DEF Painting, Denied, Listed, Matching
<1>2. ASSUME NEW v \in DownstreamOfAllow PROVE v \in AllowlistVertices \/ v \notin deny_set
  <2> DEFINE between == {u \in view.vertices : /\ ~On(u, "ALLOWLIST")
                                               /\ MayBeAllowed(u)
                                               /\ On(u, "CLEARLIST") \/ On(u, "INFERLIST")}
  <2>1. v \in FromAll(AllowlistVertices, ToFanouts, between)
    BY DEF DownstreamOfAllow
  <2>2. v \in AllowlistVertices \/ v \in between
    <3> HIDE DEF between
    <3> QED
      BY <2>1, TraversalStays
  <2> QED
    BY <2>2 DEF MayBeAllowed
<1>3. \A v \in allow_set' : v \in allow_set \cup AllowlistVertices \/ v \notin deny_set
  BY <1>1, <1>2, TraversalStays
<1> QED
  BY <1>0, <1>1, <1>3, DangerNotAllowed

LEMMA DangerFollowed == IInv /\ DangerAt /\ AddInferToAllowIfFollowAllow => DangerAt'
<1> SUFFICES ASSUME IInv, DangerAt, AddInferToAllowIfFollowAllow PROVE DangerAt'
  OBVIOUS
<1>1. /\ phase = "infer" /\ phase' = "clear" /\ item' = item /\ view' = view
      /\ deny_set' = deny_set /\ allow_set' = Followers
  BY DEF AddInferToAllowIfFollowAllow, GoTo
<1>0. phase \in Painting /\ phase \in Denied /\ phase' \in Listed
  BY <1>1, Zenon DEF Painting, Denied, Listed, Matching
<1>3. Len(graph) \in Nat
  BY <1>0, GraphIsSelected, GraphOf DEF Fits
<1>4. \A v \in allow_set' : v \in allow_set \/ v \notin deny_set
  BY <1>1, <1>3, FollowersMayBeAllowed DEF MayBeAllowed
<1> QED
  BY <1>0, <1>1, <1>4, DangerNotAllowed

LEMMA DangerCleared == IInv /\ DangerAt /\ PropagateAllowThroughClear => DangerAt'
<1> SUFFICES ASSUME IInv, DangerAt, PropagateAllowThroughClear PROVE DangerAt'
  OBVIOUS
<1> DEFINE roots == {v \in allow_set : ShouldProcess(v)}
           enter == {v \in view.vertices \ allow_set :
                       /\ MayBeAllowed(v) /\ On(v, "CLEARLIST") /\ ~ReadsVariable(v[1])}
<1>1. /\ phase = "clear" /\ phase' = "fp32" /\ item' = item /\ view' = view
      /\ deny_set' = deny_set /\ allow_set' = allow_set \cup FromAll(roots, ToAll, enter)
  BY DEF PropagateAllowThroughClear, GoTo
<1>0. phase \in Painting /\ phase \in Denied /\ phase' \in Listed
  BY <1>1, Zenon DEF Painting, Denied, Listed, Matching
<1>2. \A v \in roots : v \in allow_set
  OBVIOUS
<1>3. \A v \in enter : v \notin deny_set
  BY DEF MayBeAllowed
<1> HIDE DEF roots, enter
<1>4. \A v \in allow_set' : v \in allow_set \/ v \notin deny_set
  BY <1>1, <1>2, <1>3, TraversalStays
<1> QED
  BY <1>0, <1>1, <1>4, DangerNotAllowed

LEMMA DangerSupported == IInv /\ DangerAt /\ RemoveAllowsetWithFp32 => DangerAt'
<1> SUFFICES ASSUME IInv, DangerAt, RemoveAllowsetWithFp32 PROVE DangerAt'
  OBVIOUS
<1>1. phase = "fp32" /\ phase' = "match again" /\ item' = item
  BY DEF RemoveAllowsetWithFp32, GoTo
<1>0. phase \in Painting /\ phase \in Denied /\ phase' \in Listed
  BY <1>1, Zenon DEF Painting, Denied, Listed, Matching
<1>2. /\ view' = view /\ deny_set' = deny_set
      /\ allow_set' = {v \in allow_set : On(v, "ALLOWLIST") => SupportsF16(v)}
  <2>1. /\ UNCHANGED <<graph, should_process, view, clusters, deny_set, node_idx>>
        /\ allow_set' = {v \in allow_set : On(v, "ALLOWLIST") => SupportsF16(v)}
    BY Zenon DEF RemoveAllowsetWithFp32
  <2> QED
    BY <2>1
<1>3. \A v \in allow_set' : v \in allow_set
  BY <1>2
<1>4. item' = item
  BY <1>1, Zenon
<1> QED
  BY <1>0, <1>2, <1>3, <1>4, DangerNotAllowed

(* Matching loops.                                                         *)
LEMMA DangerInLoops == IInv /\ DangerAt /\ ForceColorMatchOnRecurrentEdges => DangerAt'
<1> SUFFICES ASSUME IInv, DangerAt, ForceColorMatchOnRecurrentEdges PROVE DangerAt'
  OBVIOUS
<1> DEFINE L == Len(graph)
           u == item.update
<1>1. /\ phase = "recurrent" /\ phase' = "casts" /\ item' = item /\ view' = view
      /\ allow_set' = Recurrent.allow
  BY DEF ForceColorMatchOnRecurrentEdges, GoTo
<1>2. phase \in Matching /\ phase' \in Listed /\ phase' \notin Denied
  BY <1>1 DEF Matching, Listed, Denied
<1>3. /\ Fits(graph) /\ ViewFits(view, graph) /\ LeavesCastsAndLoops(u)
      /\ Spared(u, view, graph, allow_set) /\ graph = Selected(item) /\ phase \in Listed
  BY <1>2, DangerNow
<1>4. L \in Nat /\ DOMAIN graph = 1..L
  BY <1>3, GraphLeft
<1>5. PICK f : /\ f[0] = [allow |-> allow_set, status |-> "OK"]
               /\ \A n \in 1..L : f[n] = MatchRecurrentEdges(n, f[n - 1])
               /\ Recurrent = f[L]
  BY <1>4, RecurrentLoop
<1> DEFINE P == {n \in 0..L : /\ f[n] = [allow |-> f[n].allow, status |-> f[n].status]
                              /\ Spared(u, view, graph, f[n].allow)}
<1> HIDE DEF u
<1>6. 0 \in P
  BY <1>3, <1>4, <1>5
<1>7. ASSUME NEW n \in 1..L, n - 1 \in P PROVE n \in P
  <2> DEFINE before == f[n - 1]
  <2>1. /\ before = [allow |-> before.allow, status |-> before.status]
        /\ Spared(u, view, graph, before.allow)
    BY <1>7
  <2>2. f[n] = MatchRecurrentEdges(n, before) /\ n \in DOMAIN graph
    BY <1>4, <1>5
  <2> HIDE DEF before
  <2>3. /\ f[n] = [allow |-> f[n].allow, status |-> f[n].status]
        /\ Spared(u, view, graph, f[n].allow)
    BY <1>3, <2>1, <2>2, LoopSpares
  <2> QED
    BY <2>3
<1>8. P = 0..L
  <2>1. P \in SUBSET (0..L)
    OBVIOUS
  <2> HIDE DEF P, L
  <2> QED
    BY <1>4, <1>6, <1>7, <2>1, Throughout
<1>9. Spared(u, view, graph, f[L].allow)
  <2>1. L \in P
    <3> HIDE DEF P
    <3> QED
      BY <1>4, <1>8
  <2> QED
    BY <2>1
<1>10. Spared(item.update, view, Selected(item), allow_set')
  BY <1>1, <1>3, <1>5, <1>9 DEF u
<1> QED
  BY <1>1, <1>2, <1>3, <1>10, DangerCarried

(* A Cast between dangerous ops has a dangerous reader, which is not       *)
(* allowed.                                                                *)
LEMMA DangerWithCasts == IInv /\ DangerAt /\ MakeCastsAllowIfAllOutputsAllow => DangerAt'
<1> SUFFICES ASSUME IInv, DangerAt, MakeCastsAllowIfAllOutputsAllow PROVE DangerAt'
  OBVIOUS
<1> DEFINE u == item.update
           casts == {m \in DOMAIN graph :
                       /\ graph[m].op = "Cast" /\ IsFloat32(DstT(m))
                       /\ Fanout(m, 1) # {}
                       /\ \A d \in Fanout(m, 1) : InputVertex(d[1], d[2]) \in allow_set}
<1>1. /\ phase = "casts" /\ phase' = "change" /\ item' = item /\ view' = view
      /\ allow_set' = allow_set \cup {DstT(n) : n \in casts}
  BY DEF MakeCastsAllowIfAllOutputsAllow, GoTo
<1>2. phase \in Matching /\ phase' \in Listed /\ phase' \notin Denied
  BY <1>1 DEF Matching, Listed, Denied
<1>3. /\ Fits(graph) /\ ViewFits(view, graph) /\ LeavesCastsAndLoops(u)
      /\ Spared(u, view, graph, allow_set) /\ graph = Selected(item)
      /\ Dangerous = Danger(u, view, graph)
  BY <1>2, DangerNow
<1>4. ASSUME NEW m \in casts, DstT(m) \in Dangerous PROVE FALSE
  <2>1. m \in DOMAIN graph /\ graph[m].op \in {"Cast", "NextIteration"}
    OBVIOUS
  <2>2. <<m, TypeAttr("DstT")>> \in Danger(u, view, graph)
    BY <1>3, <1>4 DEF DstT
  <2>3. PICK d \in DOMAIN graph : \E k \in DOMAIN graph[d].input :
          <<d, k>> \in Fanout(m, 1) /\ In(graph, d, k) \in Danger(u, view, graph)
    <3> HIDE DEF u, casts
    <3> QED
      BY <1>3, <2>1, <2>2, DangerRead
  <2>4. PICK k \in DOMAIN graph[d].input :
          <<d, k>> \in Fanout(m, 1) /\ In(graph, d, k) \in Danger(u, view, graph)
    BY <2>3
  <2>5. InputVertex(d, k) \in allow_set
    BY <2>4
  <2>6. InputVertex(d, k) = In(graph, d, k)
    BY DEF InputVertex, In
  <2> QED
    BY <1>3, <2>4, <2>5, <2>6 DEF Spared
<1> HIDE DEF casts
<1>5. \A v \in allow_set' : v \in allow_set \/ v \notin Dangerous
  BY <1>1, <1>4
<1> QED
  BY <1>1, <1>2, <1>5, DangerPainted

LEMMA DangerChanging == DangerAt /\ ChangeTypeAttrsAndAddCasts => DangerAt'
<1> SUFFICES ASSUME DangerAt, ChangeTypeAttrsAndAddCasts PROVE DangerAt'
  OBVIOUS
<1>1. /\ phase = "change" /\ phase' = "change" /\ item' = item /\ view' = view
      /\ allow_set' = allow_set
  BY DEF ChangeTypeAttrsAndAddCasts
<1>2. phase \in Listed /\ phase' \in Listed /\ phase' \notin Denied
  BY <1>1 DEF Listed, Denied
<1>3. Spared(item.update, view, Selected(item), allow_set')
  BY <1>1, <1>2 DEF DangerAt
<1> QED
  BY <1>1, <1>2, <1>3, DangerCarried

(* What is converted has been allowed, and so is not dangerous.            *)
LEMMA DangerChanged == IInv /\ DangerAt /\ Complete => DangerAt'
<1> SUFFICES ASSUME IInv, DangerAt, Complete PROVE DangerAt'
  OBVIOUS
<1> DEFINE S == Selected(item)
<1>1. /\ phase = "change" /\ phase' = "done" /\ item' = item /\ graph' = graph
      /\ view' = view /\ node_idx > Len(item.graph)
  BY DEF Complete, sets
<1>2. /\ ItemFits(item) /\ Fits(S) /\ node_idx \in 1..(Len(item.graph) + 1)
      /\ Halfway(S, allow_set, graph, node_idx - 1, node_idx, 0)
      /\ Settled(S, allow_set)
  BY <1>1 DEF IInv, ChangeAt, PaintAt
<1>3. DOMAIN S = DOMAIN item.graph /\ node_idx - 1 = Len(S) /\ node_idx = Len(S) + 1
  <2>1. /\ Len(item.graph) \in Nat /\ Len(S) = Len(item.graph)
        /\ DOMAIN S = DOMAIN item.graph
    BY <1>2, SelectedIsGraphDef, GraphOf DEF ItemFits
  <2> QED
    BY <1>1, <1>2, <2>1
<1>4. Halfway(S, allow_set, graph, Len(S), Len(S) + 1, 0)
  BY <1>2, <1>3
<1>5. /\ ViewFits(view, S) /\ Spared(item.update, view, S, allow_set)
      /\ LeavesCastsAndLoops(item.update)
  BY <1>1 DEF DangerAt, Listed
<1>6. ASSUME NEW n \in DOMAIN S, NEW id, GetDataType(item.graph[n], id) = "float"
      PROVE  GetDataType(S[n], id) = "float"
  BY <1>2, <1>3, <1>6, BatchNormKeepsFloats
<1> HIDE DEF S
<1>7. \A v \in view.vertices :
        /\ v = <<v[1], v[2]>> /\ v[1] \in DOMAIN S /\ v[2] \in GetTypeAttrs(S[v[1]])
        /\ graph[v[1]].op = S[v[1]].op
  BY <1>2, <1>4, <1>5, FinishedNode DEF ViewFits
<1>8. Dangerous = Danger(item.update, view, S)
  BY <1>7, SameDanger, DangerousIs
<1>9. ASSUME NEW v \in Converted PROVE v \in allow_set
  <2>1. /\ v \in view.vertices /\ GetDataType(item.graph[v[1]], v[2]) = "float"
        /\ GetDataType(graph[v[1]], v[2]) # "float"
    BY DEF Converted, IsFloat32
  <2>2. v = <<v[1], v[2]>> /\ v[1] \in DOMAIN S /\ v[2] \in GetTypeAttrs(S[v[1]])
    BY <1>7, <2>1
  <2>3. GetDataType(S[v[1]], v[2]) = "float"
    BY <1>6, <2>1, <2>2
  <2>4. GetDataType(graph[v[1]], v[2])
          = IF IsFloat(S, <<v[1], v[2]>>) /\ <<v[1], v[2]>> \in allow_set
            THEN "bfloat16" ELSE GetDataType(S[v[1]], v[2])
    BY <1>2, <1>4, <2>2, FinishedNode
  <2>5. <<v[1], v[2]>> \in allow_set
    BY <2>1, <2>3, <2>4
  <2> QED
    BY <2>2, <2>5
<1>10. Converted \cap Dangerous = {}
  BY <1>5, <1>8, <1>9 DEF Spared
<1>11. Converted' = Converted /\ Dangerous' = Dangerous
  BY <1>1 DEF Converted, IsFloat32, Dangerous, On, Op, ToFanouts, ToFanins
<1>12. DangerKeepsFloat'
  BY <1>10, <1>11 DEF DangerKeepsFloat
<1>13. phase' \notin {"types", "lists"} \cup Listed \cup Denied
  BY <1>1, Zenon DEF Listed, Denied, Painting, Matching
<1>14. LeavesCastsAndLoops(item'.update)
  BY <1>1, <1>5
<1> QED
  BY <1>12, <1>13, <1>14 DEF DangerAt

LEMMA DangerAgain == IInv /\ DangerAt /\ RunAutoMixedPrecision => DangerAt'
<1> SUFFICES ASSUME IInv, DangerAt, RunAutoMixedPrecision PROVE DangerAt'
  OBVIOUS
<1>1. item' = [item EXCEPT !.graph = graph] /\ phase' = "options"
  BY DEF RunAutoMixedPrecision
<1>2. item'.update = item.update
  BY <1>1
<1>3. LeavesCastsAndLoops(item'.update)
  BY <1>2 DEF DangerAt
<1>4. phase' \notin {"types", "lists"} \cup Listed \cup Denied
  BY <1>1, Zenon DEF Listed, Denied, Painting, Matching
<1>5. ~Done'
  BY <1>1 DEF Done
<1> QED
  BY <1>3, <1>4, <1>5 DEF DangerAt

LEMMA DangerKept ==
  IInv /\ ListsAt /\ DangerAt /\ ListsOutOfDanger /\ [Next]_vars => DangerAt'
<1> SUFFICES ASSUME IInv, ListsAt, DangerAt, ListsOutOfDanger, [Next]_vars PROVE DangerAt'
  OBVIOUS
<1>1. CASE RefuseOptions \/ AbortOnWriter
  <2>1. item' = item /\ phase' = "done" /\ status' # "OK"
    BY <1>1 DEF RefuseOptions, AbortOnWriter, Return
  <2> QED
    BY <2>1, DangerLeft
<1>2. CASE RefuseGraph \/ RefuseLoop
  <2>1. item' = item /\ phase' = "done" /\ status' # "OK"
    BY <1>2 DEF RefuseGraph, RefuseLoop, Return
  <2> QED
    BY <2>1, DangerLeft
<1>3. CASE UNCHANGED vars
  BY <1>3, DangerStutter
<1>4. CASE SelectNodes \/ InitializeTypes \/ FindTensorLists \/ SkipOptimization
  BY <1>4, DangerSelects, DangerSeen, DangerFound, DangerSkipped
<1>5. CASE \/ AddAllowlistOps
           \/ PropagateDenyFwdThroughClearAndInfer
           \/ ForceColorMatchBetweenTensorListOps
           \/ AddClearAndInferToAllowIfBetweenAllow
           \/ AddInferToAllowIfFollowAllow
           \/ PropagateAllowThroughClear
           \/ RemoveAllowsetWithFp32
  BY <1>5, DangerAllowed, DangerPropagated, DangerMatched, DangerBetween,
     DangerFollowed, DangerCleared, DangerSupported
<1>6. CASE \/ ForceColorMatchOnRecurrentEdges
           \/ MakeCastsAllowIfAllOutputsAllow
           \/ ChangeTypeAttrsAndAddCasts
           \/ Complete \/ RunAutoMixedPrecision
  BY <1>6, DangerInLoops, DangerWithCasts, DangerChanging, DangerChanged, DangerAgain
<1> QED
  BY <1>1, <1>2, <1>3, <1>4, <1>5, <1>6 DEF Next

-----------------------------------------------------------------------------
(* When Optimize returns OK, everything between a denied op and a denied   *)
(* or inferred one, on a way of denied, inferred and clear ops only, keeps *)
(* its float: PropagateDenyFwdThroughClearAndInfer, which searches it in   *)
(* two stages, denies all of it, and none of the passes after it, the      *)
(* matching of lists, loops and Casts included, allows any.  This is so    *)
(* unless a list that leaves the graph lies there, which is denied before  *)
(* and stops the search, and as long as the configuration neither denies   *)
(* nor infers Casts and NextIterations, which the last passes allow.       *)
THEOREM DangerStaysFloat ==
  Spec /\ LeavesCastsAndLoops(item.update) /\ []ListsOutOfDanger => []DangerKeepsFloat
<1>1. Init /\ LeavesCastsAndLoops(item.update) => IInv /\ ListsAt /\ DangerAt
  BY InitFits, ListsInit, DangerInit
<1>2. IInv /\ ListsAt /\ DangerAt /\ ListsOutOfDanger /\ [Next]_vars
        => (IInv /\ ListsAt /\ DangerAt)'
  BY Keeps, ListsKept, DangerKept
<1>3. DangerAt => DangerKeepsFloat
  BY DEF DangerAt, DangerKeepsFloat
<1> QED
  BY <1>1, <1>2, <1>3, PTL DEF Spec
=============================================================================
