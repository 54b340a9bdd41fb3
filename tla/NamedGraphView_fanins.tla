------------------------ MODULE NamedGraphView_fanins ------------------------
(***************************************************************************)
(* Proofs about NamedGraphView: the invariant of a view, and that it stays *)
(* when the inputs of a node are edited. NamedGraphView_proofs goes on     *)
(* with names, fanouts and nodes, and has the theorems.                    *)
(***************************************************************************)
EXTENDS NamedGraphView, FiniteSetTheorems, SequenceTheorems,
        WellFoundedInduction, TLAPS

-----------------------------------------------------------------------------
(* Views, and the invariant.                                               *)

(* Names of a client, and those made up for the ports of its nodes.        *)
AllNames == Names \cup {SwitchAnchor(name, p) : name \in Names, p \in Ports}
AnyPort  == Ports \cup {Control}
AnyInput == AllNames \X AnyPort
NodeDefs == [name : AllNames, op : Ops, input : Seq(AnyInput)]

(* Ends of edges: an output port of a node, or an input port.              *)
Slots == Nat \cup {Control}
Ends  == Ids \X Slots

(* Partial functions.                                                      *)
Partial(S, T) == UNION {[K -> T] : K \in SUBSET S}

Views == [def     : Partial(Ids, NodeDefs),
          fanouts : Partial(Ends, SUBSET Ends),
          regular : Partial(Ids, Nat),
          max_out : Partial(Ids, Nat)]

(* Where the input t at position i is entered.                             *)
Slot(t, i) == IF t[2] = Control THEN Control ELSE i

(* The fanouts hold what n reads with inputs s, but for those at positions *)
(* in H.                                                                   *)
Reads(v, n, s, H) ==
  \A port \in Ends, at \in Slots :
    <<n, at>> \in GetFanout(v, port) <=>
      \E i \in DOMAIN s \ H : OutputPort(v, s[i]) = port /\ at = Slot(s[i], i)

(* The output ports that are read, but for those in P, are within bounds.  *)
BoundedBut(v, P) ==
  \A f \in Ids, p \in Nat :
    GetFanout(v, <<f, p>>) # {} /\ <<f, p>> \notin P =>
      f \in DOMAIN v.max_out /\ p <= v.max_out[f]

(* No two nodes have the same name.                                        *)
UniqueNames(v) ==
  \A m, n \in DOMAIN v.def : v.def[m].name = v.def[n].name => m = n

(* Made-up names are those of Identities.                                  *)
AnchorsNamed(v) ==
  \A n \in DOMAIN v.def : v.def[n].name \in Names \/ v.def[n].op = "Identity"

(* The inputs s of n, k of them regular, name other nodes, the regular     *)
(* ones first; n waits for no Switch.                                      *)
Sound(v, n, s, k) ==
  /\ k <= Len(s)
  /\ \A i \in DOMAIN s :
       /\ HasNode(v, s[i][1])
       /\ GetNode(v, s[i][1]) # n
       /\ i <= k <=> s[i][2] # Control
       /\ s[i][2] = Control => ~IsSwitch(v, GetNode(v, s[i][1]))

(* No node is waited for twice.                                            *)
Single(s) ==
  \A i, j \in DOMAIN s :
    s[i][2] = Control /\ s[j][2] = Control /\ s[i][1] = s[j][1] => i = j

(* Nor is one that is read, but for Identities and the nodes in X.         *)
NoRepeat(v, s, X) ==
  \A i, j \in DOMAIN s :
    s[i][2] = Control /\ s[j][2] # Control /\ s[i][1] = s[j][1] =>
      \/ IsIdentity(v, GetNode(v, s[i][1]))
      \/ GetNode(v, s[i][1]) \in X

(* Inputs as passes rely on them.                                          *)
InputsOk(v, n, s, k, X) == Sound(v, n, s, k) /\ Single(s) /\ NoRepeat(v, s, X)

(* A node whose inputs are, and are those the fanouts tell of.             *)
NodeOk(v, n, X) ==
  /\ InputsOk(v, n, v.def[n].input, v.regular[n], X)
  /\ Reads(v, n, v.def[n].input, {})

(* Nothing reads but nodes there are.                                      *)
NoStray(v) ==
  \A port \in Ends, to \in Ends : to \in GetFanout(v, port) => to[1] \in DOMAIN v.def

(* The types, and the names.                                               *)
WellTyped(v) ==
  v \in Views /\ DOMAIN v.regular = DOMAIN v.def /\ UniqueNames(v) /\ AnchorsNamed(v)

(* The invariant, but for controls on nodes in X that are read too.        *)
Good(v, X) ==
  /\ WellTyped(v)
  /\ BoundedBut(v, {})
  /\ NoStray(v)
  /\ \A n \in DOMAIN v.def : NodeOk(v, n, X)

(* w differs from v in the inputs of n and in what reads for n.            *)
Frame(v, w, n) ==
  /\ w \in Views
  /\ DOMAIN w.def = DOMAIN v.def
  /\ DOMAIN w.regular = DOMAIN v.regular
  /\ \A m \in DOMAIN v.def : w.def[m].name = v.def[m].name /\ w.def[m].op = v.def[m].op
  /\ \A m \in DOMAIN v.def \ {n} : w.def[m] = v.def[m] /\ w.regular[m] = v.regular[m]
  /\ \A port, to \in Ends :
       to[1] # n => (to \in GetFanout(w, port) <=> to \in GetFanout(v, port))

-----------------------------------------------------------------------------
(* Loops.                                                                  *)

(* A set of natural numbers that is not empty has a least one. *)
LEMMA LeastNumber ==
  ASSUME NEW T \in SUBSET Nat, T # {}
  PROVE  \E x \in T : \A y \in T : x <= y
<1>1. PICK x \in T : \A y \in T : ~(<<y, x>> \in OpToRel(<, Nat))
  BY NatLessThanWellFounded, WFMin
<1>2. \A y \in T : ~(y < x)
  BY <1>1 DEF OpToRel
<1> QED
  BY <1>2

(* What holds before a loop and is kept by each step holds throughout. *)
LEMMA Throughout ==
  ASSUME NEW L \in Nat, NEW P \in SUBSET (0..L), 0 \in P,
         \A d \in 1..L : d - 1 \in P => d \in P
  PROVE  P = 0..L
<1> DEFINE T == (0..L) \ P
<1> SUFFICES ASSUME T # {} PROVE FALSE
  OBVIOUS
<1>1. PICK x \in T : \A y \in T : x <= y
  <2>1. T \in SUBSET Nat
    OBVIOUS
  <2> HIDE DEF T
  <2> QED
    BY <2>1, LeastNumber
<1>2. x \in 1..L /\ x - 1 \in 0..L
  BY <1>1
<1>3. x - 1 \in P
  BY <1>1, <1>2
<1> QED
  BY <1>1, <1>2, <1>3

-----------------------------------------------------------------------------
(* Numbers and maps.                                                       *)

(* Null is no address, Control is no port.                                 *)
LEMMA IdsAndControl ==
  /\ Null \notin Ids /\ Control \notin Nat /\ Control \notin Ports
  /\ Ids \subseteq Nat /\ \A n \in Ids : n # Null
  /\ Ports \subseteq Nat /\ AnyPort \subseteq Slots
  BY PortsAssumption, BoundsAssumption DEF Ids, Null, Control, AnyPort, Slots

(* A bounded set of natural numbers has a greatest one.                    *)
LEMMA GreatestNumber ==
  ASSUME NEW b \in Nat, NEW T \in SUBSET (0..b), T # {}
  PROVE  Max(T) \in T /\ \A y \in T : y <= Max(T)
<1> DEFINE U == {b - x : x \in T}
<1>1. U \in SUBSET Nat /\ U # {}
  <2>1. \A x \in T : x \in Nat /\ b - x \in Nat
    OBVIOUS
  <2>2. PICK x \in T : TRUE
    OBVIOUS
  <2>3. b - x \in U
    BY <2>2
  <2> QED
    BY <2>1, <2>3
<1>2. PICK u \in U : \A y \in U : u <= y
  <2> HIDE DEF U
  <2> QED
    BY <1>1, LeastNumber
<1>3. PICK x \in T : u = b - x
  BY <1>2
<1>4. \A y \in T : x >= y
  BY <1>2, <1>3
<1> QED
  BY <1>4 DEF Max

(* A set of natural numbers has a least one.                               *)
LEMMA LeastOf ==
  ASSUME NEW T \in SUBSET Nat, T # {}
  PROVE  Min(T) \in T /\ \A y \in T : Min(T) <= y
<1>1. \E x \in T : \A y \in T : x <= y
  BY LeastNumber
<1> QED
  BY <1>1 DEF Min

(* Max of two numbers.                                                     *)
LEMMA MaxOfTwo ==
  ASSUME NEW x \in Int, NEW y \in Int
  PROVE  Max({x, y}) = IF x >= y THEN x ELSE y
<1>1. CASE x >= y
  BY <1>1 DEF Max
<1>2. CASE ~(x >= y)
  BY <1>2 DEF Max
<1> QED
  BY <1>1, <1>2

(* Min of two numbers.                                                     *)
LEMMA MinOfTwo ==
  ASSUME NEW x \in Int, NEW y \in Int
  PROVE  Min({x, y}) = IF x <= y THEN x ELSE y
<1>1. CASE x <= y
  BY <1>1 DEF Min
<1>2. CASE ~(x <= y)
  BY <1>2 DEF Min
<1> QED
  BY <1>1, <1>2

(* What a partial function is.                                             *)
LEMMA PartialDef ==
  ASSUME NEW S, NEW T, NEW f
  PROVE  f \in Partial(S, T) <=> DOMAIN f \in SUBSET S /\ f \in [DOMAIN f -> T]
  BY DEF Partial

(* A function on some of the keys is a partial one.                        *)
LEMMA IsPartial ==
  ASSUME NEW S, NEW T, NEW K \in SUBSET S, NEW f \in [K -> T]
  PROVE  f \in Partial(S, T)
  BY DEF Partial

(* operator[] keeps the type of a map.                                     *)
LEMMA PutFacts ==
  ASSUME NEW S, NEW T, NEW f \in Partial(S, T), NEW k \in S, NEW x \in T
  PROVE  Put(f, k, x) \in Partial(S, T) /\ DOMAIN Put(f, k, x) = DOMAIN f \cup {k}
<1>1. DOMAIN f \in SUBSET S /\ f \in [DOMAIN f -> T]
  BY PartialDef
<1>2. DOMAIN Put(f, k, x) = DOMAIN f \cup {k}
  BY DEF Put
<1>3. Put(f, k, x) \in [DOMAIN f \cup {k} -> T]
  BY <1>1 DEF Put
<1> QED
  BY <1>1, <1>2, <1>3, PartialDef

(* The same, for a map of bounds.                                          *)
LEMMA PutBound ==
  ASSUME NEW f \in Partial(Ids, Nat), NEW k \in Ids, NEW x \in Nat
  PROVE  Put(f, k, x) \in Partial(Ids, Nat) /\ DOMAIN Put(f, k, x) = DOMAIN f \cup {k}
<1>1. DOMAIN f \in SUBSET Ids /\ f \in [DOMAIN f -> Nat]
  BY PartialDef
<1>2. DOMAIN Put(f, k, x) = DOMAIN f \cup {k}
  BY DEF Put
<1>3. Put(f, k, x) \in [DOMAIN f \cup {k} -> Nat]
  BY <1>1 DEF Put
<1> QED
  BY <1>1, <1>2, <1>3, PartialDef

(* erase keeps the type of a map, and its other entries.                   *)
LEMMA EraseFacts ==
  ASSUME NEW S, NEW T, NEW f \in Partial(S, T), NEW K
  PROVE  /\ Erase(f, K) \in Partial(S, T)
         /\ DOMAIN Erase(f, K) = DOMAIN f \ K
         /\ \A j \in DOMAIN f \ K : Erase(f, K)[j] = f[j]
<1>1. DOMAIN f \in SUBSET S /\ f \in [DOMAIN f -> T]
  BY PartialDef
<1>2. DOMAIN Erase(f, K) = DOMAIN f \ K
  BY DEF Erase, Restrict
<1>3. Erase(f, K) \in [DOMAIN f \ K -> T]
  BY <1>1 DEF Erase, Restrict
<1>5. \A j \in DOMAIN f \ K : Erase(f, K)[j] = f[j]
  BY DEF Erase, Restrict
<1> QED
  BY <1>1, <1>2, <1>3, <1>5, PartialDef

(* The same, for a map of bounds.                                          *)
LEMMA EraseBound ==
  ASSUME NEW f \in Partial(Ids, Nat), NEW K
  PROVE  /\ Erase(f, K) \in Partial(Ids, Nat)
         /\ DOMAIN Erase(f, K) = DOMAIN f \ K
         /\ \A j \in DOMAIN f \ K : Erase(f, K)[j] = f[j]
<1>1. DOMAIN f \in SUBSET Ids /\ f \in [DOMAIN f -> Nat]
  BY PartialDef
<1>2. DOMAIN Erase(f, K) = DOMAIN f \ K
  BY DEF Erase, Restrict
<1>3. Erase(f, K) \in [DOMAIN f \ K -> Nat]
  BY <1>1 DEF Erase, Restrict
<1>4. \A j \in DOMAIN f \ K : Erase(f, K)[j] = f[j]
  BY DEF Erase, Restrict
<1> QED
  BY <1>1, <1>2, <1>3, <1>4, PartialDef

(* What a view is made of.                                                 *)
LEMMA ViewParts ==
  ASSUME NEW v \in Views
  PROVE  /\ v.def \in Partial(Ids, NodeDefs)
         /\ v.fanouts \in Partial(Ends, SUBSET Ends)
         /\ v.regular \in Partial(Ids, Nat)
         /\ v.max_out \in Partial(Ids, Nat)
         /\ DOMAIN v.def \in SUBSET Ids
         /\ \A n \in DOMAIN v.def :
              /\ v.def[n] \in NodeDefs
              /\ v.def[n].name \in AllNames
              /\ v.def[n].op \in Ops
              /\ v.def[n].input \in Seq(AnyInput)
         /\ \A n \in DOMAIN v.regular : v.regular[n] \in Nat
         /\ \A n \in DOMAIN v.max_out : n \in Ids /\ v.max_out[n] \in Nat
         /\ \A port : GetFanout(v, port) \in SUBSET Ends
<1>1. /\ v.def \in Partial(Ids, NodeDefs)
      /\ v.fanouts \in Partial(Ends, SUBSET Ends)
      /\ v.regular \in Partial(Ids, Nat)
      /\ v.max_out \in Partial(Ids, Nat)
  BY DEF Views
<1>2. DOMAIN v.def \in SUBSET Ids /\ v.def \in [DOMAIN v.def -> NodeDefs]
  BY <1>1, PartialDef
<1>3. \A n \in DOMAIN v.def : v.def[n] \in NodeDefs
  BY <1>2
<1>4. \A d \in NodeDefs : d.name \in AllNames /\ d.op \in Ops /\ d.input \in Seq(AnyInput)
  BY DEF NodeDefs
<1>5. v.regular \in [DOMAIN v.regular -> Nat]
  BY <1>1, PartialDef
<1>6. DOMAIN v.max_out \in SUBSET Ids /\ v.max_out \in [DOMAIN v.max_out -> Nat]
  BY <1>1, PartialDef
<1>7. v.fanouts \in [DOMAIN v.fanouts -> SUBSET Ends]
  BY <1>1, PartialDef
<1>8. \A port : GetFanout(v, port) \in SUBSET Ends
  BY <1>7 DEF GetFanout, At
<1> QED
  BY <1>1, <1>2, <1>3, <1>4, <1>5, <1>6, <1>8

-----------------------------------------------------------------------------
(* The steps all calls are made of.                                        *)

(* A reader is added at one port, and nothing else changes.                *)
LEMMA LinkFacts ==
  ASSUME NEW v \in Views, NEW from \in Ends, NEW to \in Ends
  PROVE  /\ Link(v, from, to) \in Views
         /\ Link(v, from, to).def = v.def
         /\ Link(v, from, to).regular = v.regular
         /\ Link(v, from, to).max_out = v.max_out
         /\ \A port : GetFanout(Link(v, from, to), port) =
                        IF port = from THEN GetFanout(v, port) \cup {to}
                        ELSE GetFanout(v, port)
<1> DEFINE x == At(v.fanouts, from, {}) \cup {to}
           F == Put(v.fanouts, from, x)
<1>1. x \in SUBSET Ends /\ v.fanouts \in Partial(Ends, SUBSET Ends)
  BY ViewParts DEF GetFanout
<1> HIDE DEF x
<1>2. F \in Partial(Ends, SUBSET Ends)
  BY <1>1, PutFacts
<1>3. \A j, d : At(F, j, d) = IF j = from THEN x ELSE At(v.fanouts, j, d)
  BY DEF Put, At
<1>4. Link(v, from, to) = [v EXCEPT !.fanouts = F]
  BY DEF Link, x
<1> HIDE DEF F
<1>5. /\ [v EXCEPT !.fanouts = F] \in Views
      /\ [v EXCEPT !.fanouts = F].fanouts = F
      /\ [v EXCEPT !.fanouts = F].def = v.def
      /\ [v EXCEPT !.fanouts = F].regular = v.regular
      /\ [v EXCEPT !.fanouts = F].max_out = v.max_out
  BY <1>2 DEF Views
<1> QED
  BY <1>3, <1>4, <1>5 DEF GetFanout, x

(* A reader is taken from one port, and nothing else changes.              *)
LEMMA UnlinkFacts ==
  ASSUME NEW v \in Views, NEW from \in Ends, NEW to \in Ends
  PROVE  /\ Unlink(v, from, to) \in Views
         /\ Unlink(v, from, to).def = v.def
         /\ Unlink(v, from, to).regular = v.regular
         /\ Unlink(v, from, to).max_out = v.max_out
         /\ \A port : GetFanout(Unlink(v, from, to), port) =
                        IF port = from THEN GetFanout(v, port) \ {to}
                        ELSE GetFanout(v, port)
<1> DEFINE x == At(v.fanouts, from, {}) \ {to}
           F == Put(v.fanouts, from, x)
<1>1. x \in SUBSET Ends /\ v.fanouts \in Partial(Ends, SUBSET Ends)
  BY ViewParts DEF GetFanout
<1> HIDE DEF x
<1>2. F \in Partial(Ends, SUBSET Ends)
  BY <1>1, PutFacts
<1>3. \A j, d : At(F, j, d) = IF j = from THEN x ELSE At(v.fanouts, j, d)
  BY DEF Put, At
<1>4. Unlink(v, from, to) = [v EXCEPT !.fanouts = F]
  BY DEF Unlink, x
<1> HIDE DEF F
<1>5. /\ [v EXCEPT !.fanouts = F] \in Views
      /\ [v EXCEPT !.fanouts = F].fanouts = F
      /\ [v EXCEPT !.fanouts = F].def = v.def
      /\ [v EXCEPT !.fanouts = F].regular = v.regular
      /\ [v EXCEPT !.fanouts = F].max_out = v.max_out
  BY <1>2 DEF Views
<1> QED
  BY <1>3, <1>4, <1>5 DEF GetFanout, x

(* The inputs of one node and their number change.                         *)
LEMMA SetInputsFacts ==
  ASSUME NEW v \in Views, NEW n \in DOMAIN v.def, NEW s \in Seq(AnyInput),
         NEW k \in Nat, DOMAIN v.regular = DOMAIN v.def
  PROVE  LET w == SetInputs(v, n, s, k) IN
         /\ w \in Views
         /\ DOMAIN w.def = DOMAIN v.def /\ DOMAIN w.regular = DOMAIN v.def
         /\ w.fanouts = v.fanouts /\ w.max_out = v.max_out
         /\ \A port : GetFanout(w, port) = GetFanout(v, port)
         /\ \A m \in DOMAIN v.def : w.def[m].name = v.def[m].name /\ w.def[m].op = v.def[m].op
         /\ w.def[n].input = s /\ w.regular[n] = k
         /\ \A m \in DOMAIN v.def \ {n} : w.def[m] = v.def[m] /\ w.regular[m] = v.regular[m]
<1> DEFINE d == [v.def[n] EXCEPT !.input = s]
           D == [v.def EXCEPT ![n] = d]
           R == [v.regular EXCEPT ![n] = k]
           w == SetInputs(v, n, s, k)
<1>1. /\ v.def \in [DOMAIN v.def -> NodeDefs] /\ DOMAIN v.def \in SUBSET Ids
      /\ v.regular \in [DOMAIN v.regular -> Nat] /\ v.def[n] \in NodeDefs
  BY ViewParts, PartialDef
<1>2. d \in NodeDefs /\ d.input = s /\ d.name = v.def[n].name /\ d.op = v.def[n].op
  BY <1>1 DEF NodeDefs
<1>3. w = [v EXCEPT !.def = D, !.regular = R]
  BY DEF SetInputs
<1> HIDE DEF d, w
<1>4. /\ D \in [DOMAIN v.def -> NodeDefs] /\ R \in [DOMAIN v.def -> Nat]
      /\ D[n] = d /\ R[n] = k
      /\ \A m \in DOMAIN v.def \ {n} : D[m] = v.def[m] /\ R[m] = v.regular[m]
  BY <1>1, <1>2
<1> HIDE DEF D, R
<1>5. D \in Partial(Ids, NodeDefs) /\ R \in Partial(Ids, Nat)
  <2>1. D \in Partial(Ids, NodeDefs)
    BY <1>1, <1>4, IsPartial
  <2>2. R \in Partial(Ids, Nat)
    BY <1>1, <1>4, IsPartial
  <2> QED
    BY <2>1, <2>2
<1>6. /\ w \in Views /\ w.def = D /\ w.regular = R
      /\ w.fanouts = v.fanouts /\ w.max_out = v.max_out
  BY <1>3, <1>5 DEF Views
<1>7. DOMAIN D = DOMAIN v.def /\ DOMAIN R = DOMAIN v.def
  BY <1>4
<1>8. \A port : GetFanout(w, port) = GetFanout(v, port)
  BY <1>6 DEF GetFanout
<1>9. \A m \in DOMAIN v.def : D[m].name = v.def[m].name /\ D[m].op = v.def[m].op
  BY <1>2, <1>4
<1> QED
  BY <1>2, <1>4, <1>6, <1>7, <1>8, <1>9 DEF w

(* The inputs of one node change.                                          *)
LEMMA SetInputFacts ==
  ASSUME NEW v \in Views, NEW n \in DOMAIN v.def, NEW s \in Seq(AnyInput)
  PROVE  LET w == SetInput(v, n, s) IN
         /\ w \in Views
         /\ DOMAIN w.def = DOMAIN v.def
         /\ w.regular = v.regular
         /\ w.fanouts = v.fanouts /\ w.max_out = v.max_out
         /\ \A port : GetFanout(w, port) = GetFanout(v, port)
         /\ \A m \in DOMAIN v.def : w.def[m].name = v.def[m].name /\ w.def[m].op = v.def[m].op
         /\ w.def[n].input = s
         /\ \A m \in DOMAIN v.def \ {n} : w.def[m] = v.def[m]
<1> DEFINE d == [v.def[n] EXCEPT !.input = s]
           D == [v.def EXCEPT ![n] = d]
           w == SetInput(v, n, s)
<1>1. /\ v.def \in [DOMAIN v.def -> NodeDefs] /\ DOMAIN v.def \in SUBSET Ids
      /\ v.def[n] \in NodeDefs
  BY ViewParts, PartialDef
<1>2. d \in NodeDefs /\ d.input = s /\ d.name = v.def[n].name /\ d.op = v.def[n].op
  BY <1>1 DEF NodeDefs
<1>3. w = [v EXCEPT !.def = D]
  BY DEF SetInput
<1> HIDE DEF d, w
<1>4. /\ D \in [DOMAIN v.def -> NodeDefs]
      /\ D[n] = d
      /\ \A m \in DOMAIN v.def \ {n} : D[m] = v.def[m]
  BY <1>1, <1>2
<1> HIDE DEF D
<1>5. D \in Partial(Ids, NodeDefs)
  BY <1>1, <1>4, IsPartial
<1>6. /\ w \in Views /\ w.def = D /\ w.regular = v.regular
      /\ w.fanouts = v.fanouts /\ w.max_out = v.max_out
  BY <1>3, <1>5 DEF Views
<1>7. DOMAIN D = DOMAIN v.def
  BY <1>4
<1>8. \A port : GetFanout(w, port) = GetFanout(v, port)
  BY <1>6 DEF GetFanout
<1>9. \A m \in DOMAIN v.def : D[m].name = v.def[m].name /\ D[m].op = v.def[m].op
  BY <1>2, <1>4
<1> QED
  BY <1>2, <1>4, <1>6, <1>7, <1>8, <1>9 DEF w

(* A bound that is raised, or left where it was.                           *)
LEMMA RaiseFacts ==
  ASSUME NEW v \in Views, NEW f \in Ids, NEW q \in Slots
  PROVE  LET b == Max({At(v.max_out, f, 0), q}) IN
         /\ b \in Nat /\ q <= b /\ At(v.max_out, f, 0) <= b
         /\ Put(v.max_out, f, b) \in Partial(Ids, Nat)
         /\ f \in DOMAIN Put(v.max_out, f, b) /\ Put(v.max_out, f, b)[f] = b
         /\ \A g \in DOMAIN v.max_out : /\ g \in DOMAIN Put(v.max_out, f, b)
                                        /\ v.max_out[g] <= Put(v.max_out, f, b)[g]
<1> DEFINE a == At(v.max_out, f, 0)
           b == Max({a, q})
           M == Put(v.max_out, f, b)
<1>1. a \in Nat /\ (f \in DOMAIN v.max_out => a = v.max_out[f])
  BY ViewParts DEF At
<1>2. q \in Int /\ q >= -1
  BY DEF Slots, Control
<1> HIDE DEF a
<1>3. b \in Nat /\ q <= b /\ a <= b
  <2>1. b = IF a >= q THEN a ELSE q
    BY <1>1, <1>2, MaxOfTwo
  <2> HIDE DEF b
  <2> QED
    BY <2>1, <1>1, <1>2
<1> HIDE DEF b
<1>4. M \in Partial(Ids, Nat) /\ DOMAIN M = DOMAIN v.max_out \cup {f}
  <2>1. v.max_out \in Partial(Ids, Nat)
    BY ViewParts
  <2> QED
    BY <1>3, <2>1, PutBound
<1>5. M[f] = b /\ \A g \in DOMAIN v.max_out \ {f} : M[g] = v.max_out[g]
  BY DEF Put
<1>6. \A g \in DOMAIN v.max_out : v.max_out[g] \in Nat
  BY ViewParts
<1> HIDE DEF M
<1>7. \A g \in DOMAIN v.max_out : g \in DOMAIN M /\ v.max_out[g] <= M[g]
  BY <1>1, <1>3, <1>4, <1>5, <1>6
<1>8. f \in DOMAIN M
  BY <1>4
<1> QED
  BY <1>3, <1>4, <1>5, <1>7, <1>8 DEF a, b, M

(* A new reader of a port brings its bound up to date.                     *)
LEMMA AddedFacts ==
  ASSUME NEW v \in Views, NEW port \in Ends
  PROVE  LET w == UpdateMaxRegularOutputPortForAddedFanin(v, port) IN
         /\ w \in Views
         /\ w.def = v.def /\ w.regular = v.regular /\ w.fanouts = v.fanouts
         /\ \A p : GetFanout(w, p) = GetFanout(v, p)
         /\ \A P : BoundedBut(v, P) => BoundedBut(w, P \ {port})
<1> DEFINE f == port[1]
           b == Max({At(v.max_out, f, 0), port[2]})
           M == Put(v.max_out, f, b)
           w == UpdateMaxRegularOutputPortForAddedFanin(v, port)
<1>1. f \in Ids /\ port[2] \in Slots /\ port = <<f, port[2]>>
  BY DEF Ends
<1>2. /\ M \in Partial(Ids, Nat) /\ f \in DOMAIN M /\ port[2] <= M[f]
      /\ \A g \in DOMAIN v.max_out : g \in DOMAIN M /\ v.max_out[g] <= M[g]
  BY <1>1, RaiseFacts
<1>3. w = [v EXCEPT !.max_out = M]
  BY DEF UpdateMaxRegularOutputPortForAddedFanin
<1> HIDE DEF M, w, f
<1>4. w \in Views /\ w.def = v.def /\ w.regular = v.regular /\ w.fanouts = v.fanouts /\ w.max_out = M
  BY <1>2, <1>3 DEF Views
<1>5. \A p : GetFanout(w, p) = GetFanout(v, p)
  BY <1>4 DEF GetFanout
<1>6. ASSUME NEW P, BoundedBut(v, P) PROVE BoundedBut(w, P \ {port})
  <2> SUFFICES ASSUME NEW g \in Ids, NEW p \in Nat,
                      GetFanout(v, <<g, p>>) # {}, <<g, p>> \notin P \ {port}
               PROVE  g \in DOMAIN M /\ p <= M[g]
    BY <1>4, <1>5 DEF BoundedBut
  <2>1. CASE <<g, p>> = port
    BY <2>1, <1>1, <1>2
  <2>2. CASE <<g, p>> # port
    <3>1. g \in DOMAIN v.max_out /\ p <= v.max_out[g]
      BY <2>2, <1>6 DEF BoundedBut
    <3>2. v.max_out[g] \in Nat /\ M[g] \in Nat /\ g \in DOMAIN M /\ v.max_out[g] <= M[g]
      BY <3>1, <1>2, <1>4, ViewParts
    <3> QED
      BY <3>1, <3>2
  <2> QED
    BY <2>1, <2>2
<1> QED
  BY <1>4, <1>5, <1>6 DEF w

(* The bound that is looked for is one: no port above it is read.          *)
LEMMA RemovedFacts ==
  ASSUME NEW v \in Views, NEW port \in Ends
  PROVE  LET w == UpdateMaxRegularOutputPortForRemovedFanin(v, port) IN
         /\ w \in Views
         /\ w.def = v.def /\ w.regular = v.regular
         /\ \A p : GetFanout(w, p) = GetFanout(v, p)
         /\ \A P : BoundedBut(v, P) => BoundedBut(w, P)
<1> DEFINE n    == port[1]
           max  == At(v.max_out, n, 0)
           used == {i \in 0..port[2] - 1 : GetFanout(v, <<n, i>>) # {}}
           low  == IF used = {} THEN 0 ELSE Max(used)
           w    == UpdateMaxRegularOutputPortForRemovedFanin(v, port)
<1>1. n \in Ids /\ port[2] \in Slots /\ port = <<n, port[2]>> /\ port[2] \in Int /\ port[2] >= -1
  BY DEF Ends, Slots, Control
<1>2. max \in Nat /\ (n \in DOMAIN v.max_out => max = v.max_out[n])
  BY ViewParts DEF At
<1> HIDE DEF max
<1>3. CASE GetFanout(v, port) # {} \/ max # port[2]
  <2> DEFINE M == Put(v.max_out, n, max)
  <2>1. w = [v EXCEPT !.max_out = M]
    BY <1>3 DEF UpdateMaxRegularOutputPortForRemovedFanin, max
  <2>2. /\ M \in Partial(Ids, Nat) /\ DOMAIN M = DOMAIN v.max_out \cup {n}
    <3>1. v.max_out \in Partial(Ids, Nat)
      BY ViewParts
    <3>2. n \in Ids
      BY <1>1
    <3> HIDE DEF n
    <3> QED
      BY <3>1, <3>2, <1>2, PutBound
  <2>3. \A g \in DOMAIN v.max_out : g \in DOMAIN M /\ M[g] = v.max_out[g]
    BY <1>2 DEF Put
  <2> HIDE DEF M, w
  <2>4. w \in Views /\ w.def = v.def /\ w.regular = v.regular /\ w.fanouts = v.fanouts /\ w.max_out = M
    BY <2>1, <2>2 DEF Views
  <2>5. \A p : GetFanout(w, p) = GetFanout(v, p)
    BY <2>4 DEF GetFanout
  <2>6. ASSUME NEW P, BoundedBut(v, P) PROVE BoundedBut(w, P)
    BY <2>3, <2>4, <2>5, <2>6 DEF BoundedBut
  <2> QED
    BY <2>4, <2>5, <2>6 DEF w
<1>4. CASE GetFanout(v, port) = {} /\ max = port[2]
  <2> DEFINE M == IF used = {} THEN Erase(v.max_out, {n}) ELSE Put(v.max_out, n, low)
             F == [p \in DOMAIN v.fanouts \cup {n} \X (low..port[2] - 1) |-> At(v.fanouts, p, {})]
  <2>1. w = [v EXCEPT !.max_out = M, !.fanouts = F]
    BY <1>4 DEF UpdateMaxRegularOutputPortForRemovedFanin, max
  <2>2. port[2] \in Nat
    BY <1>2, <1>4
  <2>3. /\ used # {} => low \in used /\ \A i \in used : i <= low
        /\ low \in Nat
    <3> HIDE DEF used
    <3>1. CASE used = {}
      BY <3>1
    <3>2. CASE used # {}
      <4>1. used \in SUBSET (0..port[2])
        BY <2>2 DEF used
      <4>2. Max(used) \in used /\ \A i \in used : i <= Max(used)
        BY <4>1, <3>2, <2>2, GreatestNumber
      <4>3. low = Max(used)
        BY <3>2
      <4> HIDE DEF low
      <4>4. low \in used /\ \A i \in used : i <= low
        BY <4>2, <4>3
      <4>5. \A i \in used : i \in 0..port[2]
        BY <4>1
      <4>6. \A i \in 0..port[2] : i \in Nat
        BY <2>2
      <4> QED
        BY <4>4, <4>5, <4>6
    <3> QED
      BY <3>1, <3>2
  <2> HIDE DEF low
  <2>4. {n} \X (low..port[2] - 1) \in SUBSET Ends
    BY <1>1, <2>2, <2>3 DEF Ends, Slots
  <2>5. F \in Partial(Ends, SUBSET Ends) /\ \A p : At(F, p, {}) = At(v.fanouts, p, {})
    <3> DEFINE K == DOMAIN v.fanouts \cup {n} \X (low..port[2] - 1)
    <3>1. DOMAIN v.fanouts \in SUBSET Ends /\ \A p : At(v.fanouts, p, {}) \in SUBSET Ends
      <4>1. v.fanouts \in Partial(Ends, SUBSET Ends)
        BY ViewParts
      <4>2. DOMAIN v.fanouts \in SUBSET Ends
        BY <4>1, PartialDef
      <4>3. \A p : At(v.fanouts, p, {}) \in SUBSET Ends
        BY ViewParts DEF GetFanout
      <4> QED
        BY <4>2, <4>3
    <3>2. K \in SUBSET Ends
      BY <3>1, <2>4
    <3>3. \A p : p \notin K => At(v.fanouts, p, {}) = {}
      BY DEF At
    <3> HIDE DEF K
    <3>4. F = [p \in K |-> At(v.fanouts, p, {})]
      BY DEF K
    <3> HIDE DEF F
    <3>5. F \in [K -> SUBSET Ends] /\ DOMAIN F = K
      BY <3>1, <3>4
    <3>6. \A p : At(F, p, {}) = At(v.fanouts, p, {})
      <4>1. \A p : At(F, p, {}) = IF p \in DOMAIN F THEN F[p] ELSE {}
        BY DEF At
      <4> QED
        BY <4>1, <3>3, <3>4, <3>5
    <3> QED
      BY <3>2, <3>5, <3>6, PartialDef
  <2>6. /\ M \in Partial(Ids, Nat)
        /\ \A g \in DOMAIN v.max_out \ {n} : g \in DOMAIN M /\ M[g] = v.max_out[g]
        /\ used # {} => n \in DOMAIN M /\ M[n] = low
    <3>1. CASE used = {}
      <4>1. M = Erase(v.max_out, {n})
        BY <3>1
      <4>2. v.max_out \in Partial(Ids, Nat)
        BY ViewParts
      <4> HIDE DEF M
      <4>3. /\ Erase(v.max_out, {n}) \in Partial(Ids, Nat)
            /\ DOMAIN Erase(v.max_out, {n}) = DOMAIN v.max_out \ {n}
            /\ \A j \in DOMAIN v.max_out \ {n} : Erase(v.max_out, {n})[j] = v.max_out[j]
        <5> DEFINE K == {n}
        <5> HIDE DEF K, n
        <5>1. /\ Erase(v.max_out, K) \in Partial(Ids, Nat)
              /\ DOMAIN Erase(v.max_out, K) = DOMAIN v.max_out \ K
              /\ \A j \in DOMAIN v.max_out \ K : Erase(v.max_out, K)[j] = v.max_out[j]
          BY <4>2, EraseBound
        <5> QED
          BY <5>1 DEF K
      <4> QED
        BY <4>1, <4>3, <3>1
    <3>2. CASE used # {}
      <4>1. M = Put(v.max_out, n, low)
        BY <3>2
      <4>2. v.max_out \in Partial(Ids, Nat)
        BY ViewParts
      <4>3. M \in Partial(Ids, Nat)
        <5>1. n \in Ids /\ low \in Nat
          BY <1>1, <2>3
        <5> HIDE DEF n, M
        <5> QED
          BY <4>1, <4>2, <5>1, PutBound
      <4> HIDE DEF M
      <4> QED
        BY <4>1, <4>3 DEF Put
    <3> QED
      BY <3>1, <3>2
  <2> HIDE DEF M, F, w
  <2>7. w \in Views /\ w.def = v.def /\ w.regular = v.regular /\ w.fanouts = F /\ w.max_out = M
    BY <2>1, <2>5, <2>6 DEF Views
  <2>8. \A p : GetFanout(w, p) = GetFanout(v, p)
    BY <2>5, <2>7 DEF GetFanout
  <2>9. ASSUME NEW P, BoundedBut(v, P) PROVE BoundedBut(w, P)
    <3> SUFFICES ASSUME NEW g \in Ids, NEW p \in Nat,
                        GetFanout(v, <<g, p>>) # {}, <<g, p>> \notin P
                 PROVE  g \in DOMAIN M /\ p <= M[g]
      BY <2>7, <2>8 DEF BoundedBut
    <3>1. g \in DOMAIN v.max_out /\ p <= v.max_out[g]
      BY <2>9 DEF BoundedBut
    <3>2. CASE g # n
      BY <3>1, <3>2, <2>6
    <3>3. CASE g = n
      <4>1. p <= port[2] /\ p # port[2]
        BY <3>1, <3>3, <1>1, <1>2, <1>4
      <4>2. p \in used
        BY <4>1, <3>3, <2>2
      <4> HIDE DEF used
      <4> QED
        BY <4>2, <2>3, <2>6, <3>3
    <3> QED
      BY <3>2, <3>3
  <2> QED
    BY <2>7, <2>8, <2>9 DEF w
<1> QED
  BY <1>3, <1>4

-----------------------------------------------------------------------------
(* Nodes and names.                                                        *)

(* A name is found if a node has it.                                       *)
LEMMA NodeFound ==
  ASSUME NEW v \in Views, NEW name
  PROVE  /\ HasNode(v, name) <=> \E n \in DOMAIN v.def : v.def[n].name = name
         /\ HasNode(v, name) => /\ GetNode(v, name) \in DOMAIN v.def
                                /\ GetNode(v, name) \in Ids
                                /\ v.def[GetNode(v, name)].name = name
<1> DEFINE at == {n \in DOMAIN v.def : v.def[n].name = name}
<1>1. GetNode(v, name) = IF at = {} THEN Null ELSE CHOOSE n \in at : TRUE
  BY DEF GetNode
<1>2. DOMAIN v.def \in SUBSET Ids /\ Null \notin Ids
  BY ViewParts, IdsAndControl
<1>3. CASE at = {}
  BY <1>1, <1>3 DEF HasNode
<1>4. CASE at # {}
  <2>1. GetNode(v, name) \in at
    <3> HIDE DEF at
    <3> QED
      BY <1>1, <1>4
  <2> QED
    BY <2>1, <1>2, <1>4 DEF HasNode
<1> QED
  BY <1>3, <1>4

(* A node is found by its name.                                            *)
LEMMA NodeNamed ==
  ASSUME NEW v \in Views, UniqueNames(v), NEW n \in DOMAIN v.def
  PROVE  GetNode(v, v.def[n].name) = n /\ HasNode(v, v.def[n].name)
<1>1. HasNode(v, v.def[n].name)
  BY NodeFound
<1>2. GetNode(v, v.def[n].name) \in DOMAIN v.def
      /\ v.def[GetNode(v, v.def[n].name)].name = v.def[n].name
  BY <1>1, NodeFound
<1> QED
  BY <1>1, <1>2 DEF UniqueNames

(* No node comes, goes or changes its name.                                *)
SameNames(v, w) ==
  DOMAIN w.def = DOMAIN v.def /\ \A m \in DOMAIN v.def : w.def[m].name = v.def[m].name

(* Where no node changes its name, the same nodes are found.               *)
LEMMA SameNode ==
  ASSUME NEW v, NEW w, SameNames(v, w), NEW name
  PROVE  GetNode(w, name) = GetNode(v, name) /\ (HasNode(w, name) <=> HasNode(v, name))
<1> DEFINE at == {n \in DOMAIN v.def : v.def[n].name = name}
<1>1. {n \in DOMAIN w.def : w.def[n].name = name} = at
  BY DEF SameNames
<1>2. GetNode(v, name) = IF at = {} THEN Null ELSE CHOOSE n \in at : TRUE
  BY DEF GetNode
<1>3. GetNode(w, name) = IF at = {} THEN Null ELSE CHOOSE n \in at : TRUE
  <2> DEFINE of == {n \in DOMAIN w.def : w.def[n].name = name}
  <2>1. GetNode(w, name) = IF of = {} THEN Null ELSE CHOOSE n \in of : TRUE
    BY DEF GetNode
  <2>2. of = at
    BY <1>1
  <2> HIDE DEF of, at
  <2> QED
    BY <2>1, <2>2, Zenon
<1>4. GetNode(w, name) = GetNode(v, name)
  BY <1>2, <1>3
<1> QED
  BY <1>4 DEF HasNode

(* So are the same ports.                                                  *)
LEMMA SamePort ==
  ASSUME NEW v, NEW w, SameNames(v, w), NEW t
  PROVE  OutputPort(w, t) = OutputPort(v, t)
  BY SameNode DEF OutputPort

(* The port of an input that names a node.                                 *)
LEMMA PortOfInput ==
  ASSUME NEW v \in Views, NEW t \in AnyInput, HasNode(v, t[1])
  PROVE  /\ OutputPort(v, t) \in Ends
         /\ OutputPort(v, t) = <<GetNode(v, t[1]), t[2]>>
         /\ OutputPort(v, t)[1] = GetNode(v, t[1])
         /\ OutputPort(v, t)[2] = t[2]
<1>1. GetNode(v, t[1]) \in Ids
  BY NodeFound
<1>2. t[2] \in Slots
  BY IdsAndControl DEF AnyInput
<1>3. OutputPort(v, t) = <<GetNode(v, t[1]), t[2]>>
  BY DEF OutputPort
<1> QED
  BY <1>1, <1>2, <1>3 DEF Ends

(* The input that reads a port is named after its node.                    *)
LEMMA InputOfPort ==
  ASSUME NEW v \in Views, UniqueNames(v), NEW f \in DOMAIN v.def, NEW p \in AnyPort
  PROVE  /\ <<v.def[f].name, p>> \in AnyInput
         /\ HasNode(v, v.def[f].name)
         /\ OutputPort(v, <<v.def[f].name, p>>) = <<f, p>>
<1>1. v.def[f].name \in AllNames
  BY ViewParts
<1> QED
  BY <1>1, NodeNamed DEF AnyInput, OutputPort

-----------------------------------------------------------------------------
(* Steps on one node.                                                      *)

(* Edits of one node change no names.                                      *)
LEMMA FrameNames ==
  ASSUME NEW v, NEW w, NEW n, Frame(v, w, n)
  PROVE  SameNames(v, w)
  BY DEF Frame, SameNames

(* No edit is an edit.                                                     *)
LEMMA FrameSelf ==
  ASSUME NEW v \in Views, NEW n
  PROVE  Frame(v, v, n)
  BY DEF Frame

(* Edits follow one another.                                               *)
LEMMA FrameTrans ==
  ASSUME NEW u, NEW v, NEW w, NEW n, Frame(u, v, n), Frame(v, w, n)
  PROVE  Frame(u, w, n)
<1>1. /\ w \in Views /\ DOMAIN w.def = DOMAIN u.def /\ DOMAIN w.regular = DOMAIN u.regular
      /\ \A m \in DOMAIN u.def : w.def[m].name = u.def[m].name /\ w.def[m].op = u.def[m].op
      /\ \A m \in DOMAIN u.def \ {n} : w.def[m] = u.def[m] /\ w.regular[m] = u.regular[m]
  BY DEF Frame
<1>2. \A port, to \in Ends :
        to[1] # n => (to \in GetFanout(w, port) <=> to \in GetFanout(u, port))
  BY DEF Frame
<1> QED
  BY <1>1, <1>2 DEF Frame

(* The edits of the fanouts for n are edits of n,                          *)
LEMMA LinkFrame ==
  ASSUME NEW v \in Views, NEW from \in Ends, NEW n \in Ids, NEW at \in Slots
  PROVE  Frame(v, Link(v, from, <<n, at>>), n) /\ Frame(v, Unlink(v, from, <<n, at>>), n)
<1>1. <<n, at>> \in Ends
  BY DEF Ends
<1>2. ASSUME NEW w \in Views, w.def = v.def, w.regular = v.regular,
             \A port, to \in Ends :
               to # <<n, at>> => (to \in GetFanout(w, port) <=> to \in GetFanout(v, port))
      PROVE  Frame(v, w, n)
  <2>1. \A to \in Ends : to[1] # n => to # <<n, at>>
    OBVIOUS
  <2> QED
    BY <1>2, <2>1 DEF Frame
<1>3. Frame(v, Link(v, from, <<n, at>>), n)
  <2> DEFINE w == Link(v, from, <<n, at>>)
  <2>1. /\ w \in Views /\ w.def = v.def /\ w.regular = v.regular
        /\ \A port : GetFanout(w, port) = IF port = from THEN GetFanout(v, port) \cup {<<n, at>>}
                                          ELSE GetFanout(v, port)
    <3> HIDE DEF w
    <3>1. ASSUME NEW x \in Ends, w = Link(v, from, x)
          PROVE  /\ w \in Views /\ w.def = v.def /\ w.regular = v.regular
                 /\ \A port : GetFanout(w, port) = IF port = from THEN GetFanout(v, port) \cup {x}
                                                   ELSE GetFanout(v, port)
      BY <3>1, LinkFacts
    <3>2. w = Link(v, from, <<n, at>>)
      BY DEF w
    <3> QED
      BY <1>1, <3>1, <3>2
  <2> HIDE DEF w
  <2>2. \A port, to \in Ends :
          to # <<n, at>> => (to \in GetFanout(w, port) <=> to \in GetFanout(v, port))
    BY <2>1
  <2>3. Frame(v, w, n)
    BY <1>2, <2>1, <2>2
  <2> QED
    BY <2>3 DEF w
<1>4. Frame(v, Unlink(v, from, <<n, at>>), n)
  <2> DEFINE w == Unlink(v, from, <<n, at>>)
  <2>1. /\ w \in Views /\ w.def = v.def /\ w.regular = v.regular
        /\ \A port : GetFanout(w, port) = IF port = from THEN GetFanout(v, port) \ {<<n, at>>}
                                          ELSE GetFanout(v, port)
    <3> HIDE DEF w
    <3>1. ASSUME NEW x \in Ends, w = Unlink(v, from, x)
          PROVE  /\ w \in Views /\ w.def = v.def /\ w.regular = v.regular
                 /\ \A port : GetFanout(w, port) = IF port = from THEN GetFanout(v, port) \ {x}
                                                   ELSE GetFanout(v, port)
      BY <3>1, UnlinkFacts
    <3>2. w = Unlink(v, from, <<n, at>>)
      BY DEF w
    <3> QED
      BY <1>1, <3>1, <3>2
  <2> HIDE DEF w
  <2>2. \A port, to \in Ends :
          to # <<n, at>> => (to \in GetFanout(w, port) <=> to \in GetFanout(v, port))
    BY <2>1
  <2>3. Frame(v, w, n)
    BY <1>2, <2>1, <2>2
  <2> QED
    BY <2>3 DEF w
<1> QED
  BY <1>3, <1>4

(* so are those of the bound on any port,                                  *)
LEMMA BoundFrame ==
  ASSUME NEW v \in Views, NEW port \in Ends, NEW n
  PROVE  /\ Frame(v, UpdateMaxRegularOutputPortForAddedFanin(v, port), n)
         /\ Frame(v, UpdateMaxRegularOutputPortForRemovedFanin(v, port), n)
<1>1. ASSUME NEW w \in Views, w.def = v.def, w.regular = v.regular,
             \A p : GetFanout(w, p) = GetFanout(v, p)
      PROVE  Frame(v, w, n)
  BY <1>1 DEF Frame
<1> QED
  BY <1>1, AddedFacts, RemovedFacts

(* of its inputs,                                                          *)
LEMMA SetFrame ==
  ASSUME NEW v \in Views, NEW n \in DOMAIN v.def, NEW s \in Seq(AnyInput)
  PROVE  Frame(v, SetInput(v, n, s), n)
<1> DEFINE w == SetInput(v, n, s)
<1>1. /\ w \in Views /\ DOMAIN w.def = DOMAIN v.def /\ w.regular = v.regular
      /\ \A port : GetFanout(w, port) = GetFanout(v, port)
      /\ \A m \in DOMAIN v.def : w.def[m].name = v.def[m].name /\ w.def[m].op = v.def[m].op
      /\ \A m \in DOMAIN v.def \ {n} : w.def[m] = v.def[m]
  BY SetInputFacts
<1> HIDE DEF w
<1>2. Frame(v, w, n)
  BY <1>1 DEF Frame
<1> QED
  BY <1>2 DEF w

(* and of their number.                                                    *)
LEMMA SetsFrame ==
  ASSUME NEW v \in Views, NEW n \in DOMAIN v.def, NEW s \in Seq(AnyInput),
         NEW k \in Nat, DOMAIN v.regular = DOMAIN v.def
  PROVE  Frame(v, SetInputs(v, n, s, k), n)
<1> DEFINE w == SetInputs(v, n, s, k)
<1>1. /\ w \in Views /\ DOMAIN w.def = DOMAIN v.def /\ DOMAIN w.regular = DOMAIN v.def
      /\ \A port : GetFanout(w, port) = GetFanout(v, port)
      /\ \A m \in DOMAIN v.def : w.def[m].name = v.def[m].name /\ w.def[m].op = v.def[m].op
      /\ \A m \in DOMAIN v.def \ {n} : w.def[m] = v.def[m] /\ w.regular[m] = v.regular[m]
  BY SetInputsFacts
<1> HIDE DEF w
<1>2. Frame(v, w, n)
  BY <1>1 DEF Frame
<1> QED
  BY <1>2 DEF w

(* What is right with inputs depends on the names and kinds of nodes only. *)
LEMMA SameInputs ==
  ASSUME NEW v \in Views, NEW w, SameNames(v, w),
         \A m \in DOMAIN v.def : w.def[m].op = v.def[m].op,
         NEW n, NEW s, NEW k, NEW X, InputsOk(v, n, s, k, X)
  PROVE  InputsOk(w, n, s, k, X)
<1>1. Sound(w, n, s, k)
  <2> SUFFICES ASSUME NEW i \in DOMAIN s
               PROVE  /\ HasNode(w, s[i][1])
                      /\ GetNode(w, s[i][1]) # n
                      /\ i <= k <=> s[i][2] # Control
                      /\ s[i][2] = Control => ~IsSwitch(w, GetNode(w, s[i][1]))
    BY DEF InputsOk, Sound
  <2>1. /\ HasNode(v, s[i][1])
        /\ GetNode(v, s[i][1]) # n
        /\ i <= k <=> s[i][2] # Control
        /\ s[i][2] = Control => ~IsSwitch(v, GetNode(v, s[i][1]))
    BY DEF InputsOk, Sound
  <2>2. GetNode(v, s[i][1]) \in DOMAIN v.def
    BY <2>1, NodeFound
  <2>3. GetNode(w, s[i][1]) = GetNode(v, s[i][1]) /\ HasNode(w, s[i][1])
    BY <2>1, SameNode
  <2> QED
    BY <2>1, <2>2, <2>3 DEF IsSwitch
<1>2. NoRepeat(w, s, X)
  <2> SUFFICES ASSUME NEW i \in DOMAIN s, NEW j \in DOMAIN s,
                      s[i][2] = Control, s[j][2] # Control, s[i][1] = s[j][1]
               PROVE  \/ IsIdentity(w, GetNode(w, s[i][1]))
                      \/ GetNode(w, s[i][1]) \in X
    BY DEF NoRepeat
  <2>1. HasNode(v, s[i][1])
    BY DEF InputsOk, Sound
  <2>2. GetNode(v, s[i][1]) \in DOMAIN v.def
    BY <2>1, NodeFound
  <2>3. GetNode(w, s[i][1]) = GetNode(v, s[i][1])
    BY SameNode
  <2>4. IsIdentity(v, GetNode(v, s[i][1])) \/ GetNode(v, s[i][1]) \in X
    BY DEF InputsOk, NoRepeat
  <2> QED
    BY <2>2, <2>3, <2>4 DEF IsIdentity
<1> QED
  BY <1>1, <1>2 DEF InputsOk

(* What is right for a node stays so when another one is edited.           *)
LEMMA FrameInputs ==
  ASSUME NEW v \in Views, NEW w, NEW m, Frame(v, w, m),
         NEW n, NEW s, NEW k, NEW X, InputsOk(v, n, s, k, X)
  PROVE  InputsOk(w, n, s, k, X)
<1>1. SameNames(v, w)
  BY FrameNames
<1>2. \A x \in DOMAIN v.def : w.def[x].op = v.def[x].op
  BY DEF Frame
<1> QED
  BY <1>1, <1>2, SameInputs

(* What n reads is not touched by steps on others.                         *)
LEMMA FrameReads ==
  ASSUME NEW v \in Views, NEW w, NEW m, Frame(v, w, m), NEW n \in Ids, n # m,
         NEW s, NEW H, Reads(v, n, s, H)
  PROVE  Reads(w, n, s, H)
<1>1. SameNames(v, w)
  BY FrameNames
<1>2. \A t : OutputPort(w, t) = OutputPort(v, t)
  BY <1>1, SamePort
<1>3. \A port \in Ends, at \in Slots :
        <<n, at>> \in GetFanout(w, port) <=> <<n, at>> \in GetFanout(v, port)
  <2> TAKE port \in Ends, at \in Slots
  <2>1. <<n, at>> \in Ends /\ <<n, at>>[1] # m
    BY DEF Ends
  <2> QED
    BY <2>1 DEF Frame
<1> QED
  BY <1>2, <1>3 DEF Reads

(* Nor does an edit of one node disturb another.                           *)
LEMMA FrameNode ==
  ASSUME NEW v \in Views, NEW w, NEW m, Frame(v, w, m), NEW n \in DOMAIN v.def \ {m},
         NEW X, NodeOk(v, n, X)
  PROVE  NodeOk(w, n, X)
<1>1. w.def[n] = v.def[n] /\ w.regular[n] = v.regular[n]
  BY DEF Frame
<1>2. InputsOk(v, n, v.def[n].input, v.regular[n], X) /\ Reads(v, n, v.def[n].input, {})
  BY DEF NodeOk
<1>3. n \in Ids /\ n # m
  BY ViewParts
<1>4. InputsOk(w, n, v.def[n].input, v.regular[n], X)
  BY <1>2, FrameInputs
<1>5. Reads(w, n, v.def[n].input, {})
  BY <1>2, <1>3, FrameReads
<1> QED
  BY <1>1, <1>4, <1>5 DEF NodeOk

(* An edit of a node keeps the types.                                      *)
LEMMA FrameTyped ==
  ASSUME NEW v, NEW w, NEW n, WellTyped(v), Frame(v, w, n)
  PROVE  WellTyped(w)
  BY DEF WellTyped, Frame, UniqueNames, AnchorsNamed

(* An edit of a node adds no reader that is none.                          *)
LEMMA FrameStray ==
  ASSUME NEW v, NEW w, NEW n \in DOMAIN v.def, NoStray(v), Frame(v, w, n)
  PROVE  NoStray(w)
  BY DEF NoStray, Frame

(* A step on one node that leaves it right leaves all right.               *)
LEMMA StepOnNode ==
  ASSUME NEW v, NEW w, NEW n \in DOMAIN v.def, NEW X, Good(v, X), Frame(v, w, n),
         BoundedBut(w, {}), NodeOk(w, n, X)
  PROVE  Good(w, X)
<1>1. WellTyped(v) /\ v \in Views /\ NoStray(v) /\ DOMAIN w.def = DOMAIN v.def
  BY DEF Good, WellTyped, Frame
<1>2. WellTyped(w) /\ NoStray(w)
  BY <1>1, FrameTyped, FrameStray
<1>3. \A m \in DOMAIN v.def \ {n} : NodeOk(w, m, X)
  BY <1>1, FrameNode DEF Good
<1> QED
  BY <1>1, <1>2, <1>3 DEF Good

-----------------------------------------------------------------------------
(* What a node reads.                                                      *)

(* What the positions of a node's inputs hold.                             *)
LEMMA InputFacts ==
  ASSUME NEW v \in Views, NEW s \in Seq(AnyInput), NEW i \in DOMAIN s
  PROVE  /\ i \in Nat /\ i \in 1..Len(s) /\ i # Control /\ s[i] \in AnyInput
         /\ s[i][2] \in AnyPort /\ s[i] = <<s[i][1], s[i][2]>>
         /\ Slot(s[i], i) \in Slots
         /\ s[i][2] = Control => Slot(s[i], i) = Control
         /\ s[i][2] # Control => Slot(s[i], i) = i
         /\ HasNode(v, s[i][1]) =>
              /\ OutputPort(v, s[i]) \in Ends
              /\ OutputPort(v, s[i]) = <<GetNode(v, s[i][1]), s[i][2]>>
              /\ OutputPort(v, s[i])[1] = GetNode(v, s[i][1])
              /\ OutputPort(v, s[i])[2] = s[i][2]
<1>1. i \in 1..Len(s) /\ s[i] \in AnyInput
  OBVIOUS
<1>2. i \in Nat /\ i # Control
  BY <1>1 DEF Control
<1>3. s[i][2] \in AnyPort /\ s[i] = <<s[i][1], s[i][2]>>
  BY <1>1 DEF AnyInput
<1>4. HasNode(v, s[i][1]) =>
              /\ OutputPort(v, s[i]) \in Ends
              /\ OutputPort(v, s[i]) = <<GetNode(v, s[i][1]), s[i][2]>>
              /\ OutputPort(v, s[i])[1] = GetNode(v, s[i][1])
              /\ OutputPort(v, s[i])[2] = s[i][2]
  BY <1>1, PortOfInput
<1> QED
  BY <1>1, <1>2, <1>3, <1>4 DEF Slot, Slots

(* The readers of all ports after one is taken from a port.                *)
LEMMA UnlinkReaders ==
  ASSUME NEW v \in Views, NEW from \in Ends, NEW x \in Ends
  PROVE  LET w == Unlink(v, from, x) IN
         /\ w \in Views /\ w.def = v.def /\ w.regular = v.regular /\ w.max_out = v.max_out
         /\ \A p, to : to \in GetFanout(w, p) <=>
                         to \in GetFanout(v, p) /\ ~(p = from /\ to = x)
  BY UnlinkFacts

(* No other input, but for those in H, has the fanout of the one at i.     *)
Alone(v, s, H, i) ==
  \A j \in DOMAIN s \ H :
    OutputPort(v, s[j]) = OutputPort(v, s[i]) /\ Slot(s[j], j) = Slot(s[i], i) => j = i

(* An input is taken out of the fanouts.                                   *)
LEMMA ReadsUnlink ==
  ASSUME NEW v \in Views, NEW n \in Ids, NEW s \in Seq(AnyInput), NEW H,
         Reads(v, n, s, H), NEW i \in DOMAIN s \ H, HasNode(v, s[i][1]),
         Alone(v, s, H, i)
  PROVE  Reads(Unlink(v, OutputPort(v, s[i]), <<n, Slot(s[i], i)>>), n, s, H \cup {i})
<1> DEFINE from == OutputPort(v, s[i])
           x == Slot(s[i], i)
           w == Unlink(v, from, <<n, x>>)
<1>1. from \in Ends /\ x \in Slots /\ <<n, x>> \in Ends
  BY InputFacts DEF Ends
<1> HIDE DEF from, x
<1>2. /\ w \in Views /\ w.def = v.def
      /\ \A p, to : to \in GetFanout(w, p) <=>
                      to \in GetFanout(v, p) /\ ~(p = from /\ to = <<n, x>>)
  BY <1>1, UnlinkReaders
<1> HIDE DEF w
<1>3. \A t : OutputPort(w, t) = OutputPort(v, t)
  <2>1. SameNames(v, w)
    BY <1>2 DEF SameNames
  <2> QED
    BY <2>1, SamePort
<1>4. ASSUME NEW port \in Ends, NEW at \in Slots
      PROVE  <<n, at>> \in GetFanout(w, port) <=>
               \E j \in DOMAIN s \ (H \cup {i}) : OutputPort(v, s[j]) = port /\ at = Slot(s[j], j)
  <2>1. <<n, at>> \in GetFanout(v, port) <=>
           \E j \in DOMAIN s \ H : OutputPort(v, s[j]) = port /\ at = Slot(s[j], j)
    BY DEF Reads
  <2>2. \A j \in DOMAIN s \ H : OutputPort(v, s[j]) = from /\ Slot(s[j], j) = x => j = i
    BY DEF from, x, Alone
  <2>3. OutputPort(v, s[i]) = from /\ Slot(s[i], i) = x
    BY DEF from, x
  <2>4. CASE port = from /\ at = x
    <3>1. <<n, at>> \notin GetFanout(w, port)
      BY <1>2, <2>4
    <3> QED
      BY <3>1, <2>2, <2>4
  <2>5. CASE ~(port = from /\ at = x)
    <3>1. <<n, at>> \in GetFanout(w, port) <=> <<n, at>> \in GetFanout(v, port)
      BY <1>2, <2>5
    <3> QED
      BY <3>1, <2>1, <2>3, <2>5
  <2> QED
    BY <2>4, <2>5
<1>5. Reads(w, n, s, H \cup {i})
  BY <1>3, <1>4 DEF Reads
<1> QED
  BY <1>5 DEF w, from, x

(* A regular input is the only one at its position.                        *)
LEMMA OnlyRegular ==
  ASSUME NEW v \in Views, NEW s \in Seq(AnyInput), NEW i \in DOMAIN s, s[i][2] # Control,
         NEW j \in DOMAIN s, Slot(s[j], j) = Slot(s[i], i)
  PROVE  j = i
  BY InputFacts

(* An input is entered in the fanouts.                                     *)
LEMMA ReadsLink ==
  ASSUME NEW v \in Views, NEW n \in Ids, NEW s \in Seq(AnyInput), NEW H,
         Reads(v, n, s, H), NEW i \in DOMAIN s, HasNode(v, s[i][1])
  PROVE  Reads(Link(v, OutputPort(v, s[i]), <<n, Slot(s[i], i)>>), n, s, H \ {i})
<1> DEFINE to == OutputPort(v, s[i])
           x == Slot(s[i], i)
           w == Link(v, to, <<n, x>>)
<1>1. to \in Ends /\ x \in Slots /\ <<n, x>> \in Ends
  BY InputFacts DEF Ends
<1>0. OutputPort(v, s[i]) = to /\ Slot(s[i], i) = x
  OBVIOUS
<1> HIDE DEF to, x
<1>2. /\ w \in Views /\ w.def = v.def
      /\ \A port : GetFanout(w, port) = IF port = to THEN GetFanout(v, port) \cup {<<n, x>>}
                                        ELSE GetFanout(v, port)
  BY <1>1, LinkFacts
<1> HIDE DEF w
<1>3. \A t : OutputPort(w, t) = OutputPort(v, t)
  <2>1. SameNames(v, w)
    BY <1>2 DEF SameNames
  <2> QED
    BY <2>1, SamePort
<1>4. ASSUME NEW port \in Ends, NEW at \in Slots
      PROVE  <<n, at>> \in GetFanout(w, port) <=>
               \E j \in DOMAIN s \ (H \ {i}) : OutputPort(v, s[j]) = port /\ at = Slot(s[j], j)
  <2>1. <<n, at>> \in GetFanout(v, port) <=>
           \E j \in DOMAIN s \ H : OutputPort(v, s[j]) = port /\ at = Slot(s[j], j)
    BY DEF Reads
  <2>2. i \in DOMAIN s \ (H \ {i})
    OBVIOUS
  <2>3. \A j : j \in DOMAIN s \ (H \ {i}) <=> j = i \/ j \in DOMAIN s \ H
    OBVIOUS
  <2>4. <<n, at>> \in GetFanout(w, port) <=>
          <<n, at>> \in GetFanout(v, port) \/ (port = to /\ at = x)
    BY <1>2
  <2> QED
    BY <2>1, <2>2, <2>3, <2>4, <1>0
<1>5. Reads(w, n, s, H \ {i})
  BY <1>3, <1>4 DEF Reads
<1> QED
  BY <1>5 DEF w, to, x

(* Inputs change places: what the fanouts tell of them stays the same.     *)
LEMMA ReadsEdit ==
  ASSUME NEW v, NEW n, NEW s, NEW H, Reads(v, n, s, H), NEW t, NEW G,
         \A i \in DOMAIN s \ H : \E j \in DOMAIN t \ G :
           t[j] = s[i] /\ Slot(t[j], j) = Slot(s[i], i),
         \A j \in DOMAIN t \ G : \E i \in DOMAIN s \ H :
           t[j] = s[i] /\ Slot(t[j], j) = Slot(s[i], i)
  PROVE  Reads(v, n, t, G)
<1> SUFFICES ASSUME NEW port \in Ends, NEW at \in Slots
             PROVE  <<n, at>> \in GetFanout(v, port) <=>
               \E j \in DOMAIN t \ G : OutputPort(v, t[j]) = port /\ at = Slot(t[j], j)
  BY DEF Reads
<1>1. <<n, at>> \in GetFanout(v, port) <=>
         \E i \in DOMAIN s \ H : OutputPort(v, s[i]) = port /\ at = Slot(s[i], i)
  BY DEF Reads
<1>2. ASSUME NEW i \in DOMAIN s \ H, OutputPort(v, s[i]) = port, at = Slot(s[i], i)
      PROVE  \E j \in DOMAIN t \ G : OutputPort(v, t[j]) = port /\ at = Slot(t[j], j)
  <2>1. PICK j \in DOMAIN t \ G : t[j] = s[i] /\ Slot(t[j], j) = Slot(s[i], i)
    OBVIOUS
  <2> QED
    BY <2>1, <1>2
<1>3. ASSUME NEW j \in DOMAIN t \ G, OutputPort(v, t[j]) = port, at = Slot(t[j], j)
      PROVE  \E i \in DOMAIN s \ H : OutputPort(v, s[i]) = port /\ at = Slot(s[i], i)
  <2>1. PICK i \in DOMAIN s \ H : t[j] = s[i] /\ Slot(t[j], j) = Slot(s[i], i)
    OBVIOUS
  <2> QED
    BY <2>1, <1>3
<1> QED
  BY <1>1, <1>2, <1>3

(* The readers are those of the inputs as long as neither change.          *)
LEMMA ReadsSame ==
  ASSUME NEW v, NEW w, SameNames(v, w), \A port : GetFanout(w, port) = GetFanout(v, port),
         NEW n, NEW s, NEW H, Reads(v, n, s, H)
  PROVE  Reads(w, n, s, H)
<1>1. \A t : OutputPort(w, t) = OutputPort(v, t)
  BY SamePort
<1> QED
  BY <1>1 DEF Reads

-----------------------------------------------------------------------------
(* The edits of one node: v came from u, the node n reads with inputs s    *)
(* but for those in H, and the ports in P are not within bounds yet.       *)

(* On the way, what reads for n are the inputs s but those in H; the       *)
(* bounds hold but for P.                                                  *)
Editing(u, v, n, s, H, P) == Frame(u, v, n) /\ BoundedBut(v, P) /\ Reads(v, n, s, H)

(* An edit of the fanouts only.                                            *)
Edited(u, v, w, n, s, H, P) ==
  /\ Editing(u, w, n, s, H, P)
  /\ w.def = v.def /\ w.regular = v.regular /\ w.max_out = v.max_out

(* What does not change while a node is edited.                            *)
LEMMA EditingParts ==
  ASSUME NEW u, WellTyped(u), NEW n \in DOMAIN u.def, NEW v, Frame(u, v, n)
  PROVE  /\ u \in Views /\ n \in Ids
         /\ v \in Views /\ WellTyped(v)
         /\ n \in DOMAIN v.def /\ DOMAIN v.def = DOMAIN u.def
         /\ DOMAIN v.regular = DOMAIN v.def
         /\ \A t : OutputPort(v, t) = OutputPort(u, t)
         /\ \A name : GetNode(v, name) = GetNode(u, name) /\ (HasNode(v, name) <=> HasNode(u, name))
         /\ \A m \in DOMAIN u.def : v.def[m].name = u.def[m].name /\ v.def[m].op = u.def[m].op
<1>1. u \in Views /\ DOMAIN u.regular = DOMAIN u.def
  BY DEF WellTyped
<1>2. n \in Ids
  BY <1>1, ViewParts
<1>3. v \in Views /\ DOMAIN v.def = DOMAIN u.def /\ DOMAIN v.regular = DOMAIN v.def
      /\ \A m \in DOMAIN u.def : v.def[m].name = u.def[m].name /\ v.def[m].op = u.def[m].op
  BY <1>1 DEF Frame
<1>4. WellTyped(v)
  BY FrameTyped
<1>5. SameNames(u, v)
  BY FrameNames
<1>6. \A t : OutputPort(v, t) = OutputPort(u, t)
  BY <1>5, SamePort
<1>7. \A name : GetNode(v, name) = GetNode(u, name) /\ (HasNode(v, name) <=> HasNode(u, name))
  BY <1>5, SameNode
<1> QED
  BY <1>1, <1>2, <1>3, <1>4, <1>6, <1>7

(* An edit starts with what the node reads.                                *)
LEMMA EditStart ==
  ASSUME NEW u, NEW X, Good(u, X), NEW n \in DOMAIN u.def
  PROVE  Editing(u, u, n, u.def[n].input, {}, {})
<1>1. u \in Views /\ BoundedBut(u, {}) /\ NodeOk(u, n, X)
  BY DEF Good, WellTyped
<1>2. Frame(u, u, n)
  BY <1>1, FrameSelf
<1> QED
  BY <1>1, <1>2 DEF Editing, NodeOk

(* An input is no longer read.                                             *)
LEMMA EditUnlink ==
  ASSUME NEW u, WellTyped(u), NEW n \in DOMAIN u.def, NEW v, NEW s \in Seq(AnyInput),
         NEW H, NEW P, Editing(u, v, n, s, H, P),
         NEW i \in DOMAIN s \ H, HasNode(u, s[i][1]),
         Alone(u, s, H, i)
  PROVE  Edited(u, v, Unlink(v, OutputPort(u, s[i]), <<n, Slot(s[i], i)>>), n, s,
                H \cup {i}, P)
<1> DEFINE port == OutputPort(u, s[i])
           x == Slot(s[i], i)
           w == Unlink(v, port, <<n, x>>)
<1>1. /\ v \in Views /\ n \in Ids /\ u \in Views
      /\ \A t : OutputPort(v, t) = OutputPort(u, t)
      /\ HasNode(v, s[i][1])
  BY EditingParts DEF Editing
<1>2. port \in Ends /\ x \in Slots /\ <<n, x>> \in Ends
  BY <1>1, InputFacts DEF Ends
<1>3. Reads(w, n, s, H \cup {i})
  <2>1. Reads(v, n, s, H) /\ port = OutputPort(v, s[i])
        /\ Alone(v, s, H, i)
    BY <1>1 DEF Editing, Alone
  <2>2. Reads(Unlink(v, OutputPort(v, s[i]), <<n, Slot(s[i], i)>>), n, s, H \cup {i})
    BY <1>1, <2>1, ReadsUnlink
  <2> QED
    BY <2>1, <2>2
<1> HIDE DEF port, x
<1>4. /\ w.def = v.def /\ w.regular = v.regular /\ w.max_out = v.max_out
      /\ \A p, to : to \in GetFanout(w, p) <=>
                      to \in GetFanout(v, p) /\ ~(p = port /\ to = <<n, x>>)
  <2>1. v \in Views /\ port \in Ends /\ <<n, x>> \in Ends
    BY <1>1, <1>2
  <2> QED
    BY <2>1, UnlinkReaders
<1>5. Frame(v, w, n)
  BY <1>1, <1>2, LinkFrame
<1> HIDE DEF w
<1>6. Frame(u, w, n)
  BY <1>5, FrameTrans DEF Editing
<1>7. BoundedBut(w, P)
  <2>1. BoundedBut(v, P)
    BY DEF Editing
  <2>2. \A p : GetFanout(w, p) # {} => GetFanout(v, p) # {}
    BY <1>4
  <2> QED
    BY <2>1, <2>2, <1>4 DEF BoundedBut
<1>8. Editing(u, w, n, s, H \cup {i}, P)
  BY <1>3, <1>6, <1>7 DEF Editing
<1> QED
  BY <1>4, <1>8 DEF w, port, x, Edited

(* An input is read, beyond the bound perhaps.                             *)
LEMMA EditLink ==
  ASSUME NEW u, WellTyped(u), NEW n \in DOMAIN u.def, NEW v, NEW s \in Seq(AnyInput),
         NEW H, NEW P, Editing(u, v, n, s, H, P),
         NEW i \in DOMAIN s, HasNode(u, s[i][1])
  PROVE  LET port == OutputPort(u, s[i])
             w == Link(v, port, <<n, Slot(s[i], i)>>) IN
         /\ Edited(u, v, w, n, s, H \ {i}, P \cup {port})
         /\ port[2] = Control \/ GetFanout(v, port) # {} => Edited(u, v, w, n, s, H \ {i}, P)
<1> DEFINE port == OutputPort(u, s[i])
           x == Slot(s[i], i)
           w == Link(v, port, <<n, x>>)
<1>1. /\ v \in Views /\ n \in Ids /\ u \in Views
      /\ \A t : OutputPort(v, t) = OutputPort(u, t)
      /\ HasNode(v, s[i][1])
  BY EditingParts DEF Editing
<1>2. port \in Ends /\ x \in Slots /\ <<n, x>> \in Ends
  BY <1>1, InputFacts DEF Ends
<1>3. Reads(w, n, s, H \ {i})
  <2>1. Reads(v, n, s, H) /\ port = OutputPort(v, s[i])
    BY <1>1 DEF Editing
  <2>2. Reads(Link(v, OutputPort(v, s[i]), <<n, Slot(s[i], i)>>), n, s, H \ {i})
    BY <1>1, <2>1, ReadsLink
  <2> QED
    BY <2>1, <2>2
<1> HIDE DEF port, x
<1>4. /\ w.def = v.def /\ w.regular = v.regular /\ w.max_out = v.max_out
      /\ \A p : GetFanout(w, p) = IF p = port THEN GetFanout(v, p) \cup {<<n, x>>}
                                  ELSE GetFanout(v, p)
  <2> DEFINE to == <<n, x>>
  <2>1. to \in Ends /\ v \in Views /\ port \in Ends
    BY <1>1, <1>2
  <2> HIDE DEF to
  <2>2. /\ Link(v, port, to).def = v.def /\ Link(v, port, to).regular = v.regular
        /\ Link(v, port, to).max_out = v.max_out
    BY <2>1, LinkFacts
  <2>3. \A p : GetFanout(Link(v, port, to), p) =
                 IF p = port THEN GetFanout(v, p) \cup {to} ELSE GetFanout(v, p)
    BY <2>1, LinkFacts
  <2> QED
    BY <2>2, <2>3 DEF to
<1>5. Frame(v, w, n)
  BY <1>1, <1>2, LinkFrame
<1> HIDE DEF w
<1>6. Frame(u, w, n)
  BY <1>5, FrameTrans DEF Editing
<1>7. BoundedBut(v, P)
  BY DEF Editing
<1>8. BoundedBut(w, P \cup {port})
  BY <1>7, <1>4 DEF BoundedBut
<1>9. ASSUME port[2] = Control PROVE BoundedBut(w, P)
  <2>1. \A f \in Ids, p \in Nat : <<f, p>> # port
    BY <1>9, IdsAndControl
  <2> QED
    BY <1>7, <1>4, <2>1 DEF BoundedBut
<1>10. ASSUME GetFanout(v, port) # {} PROVE BoundedBut(w, P)
  BY <1>7, <1>4, <1>10 DEF BoundedBut
<1>11. /\ Editing(u, w, n, s, H \ {i}, P \cup {port})
       /\ port[2] = Control => Editing(u, w, n, s, H \ {i}, P)
       /\ GetFanout(v, port) # {} => Editing(u, w, n, s, H \ {i}, P)
  BY <1>3, <1>6, <1>8, <1>9, <1>10 DEF Editing
<1>12. /\ Edited(u, v, w, n, s, H \ {i}, P \cup {port})
       /\ port[2] = Control \/ GetFanout(v, port) # {} => Edited(u, v, w, n, s, H \ {i}, P)
  BY <1>4, <1>11 DEF Edited
<1> QED
  BY <1>12 DEF w, port, x

(* An edit of the fanouts and the bounds.                                  *)
Rebound(u, v, w, n, s, H, P) ==
  Editing(u, w, n, s, H, P) /\ w.def = v.def /\ w.regular = v.regular

(* The bounds are brought up to date.                                      *)
LEMMA EditBound ==
  ASSUME NEW u, WellTyped(u), NEW n \in DOMAIN u.def, NEW v, NEW s, NEW H, NEW P,
         Editing(u, v, n, s, H, P), NEW port \in Ends
  PROVE  LET a == UpdateMaxRegularOutputPortForAddedFanin(v, port)
             r == UpdateMaxRegularOutputPortForRemovedFanin(v, port) IN
         /\ Rebound(u, v, a, n, s, H, P \ {port})
         /\ Rebound(u, v, r, n, s, H, P)
         /\ \A p : GetFanout(a, p) = GetFanout(v, p) /\ GetFanout(r, p) = GetFanout(v, p)
<1>1. v \in Views
  BY EditingParts DEF Editing
<1>2. ASSUME NEW w, Frame(v, w, n), w.def = v.def, \A p : GetFanout(w, p) = GetFanout(v, p),
             NEW Q, BoundedBut(w, Q)
      PROVE  Editing(u, w, n, s, H, Q)
  <2>1. Frame(u, w, n)
    BY <1>2, FrameTrans DEF Editing
  <2>2. SameNames(v, w)
    BY <1>2 DEF SameNames
  <2>3. Reads(w, n, s, H)
    BY <1>2, <2>2, ReadsSame DEF Editing
  <2> QED
    BY <1>2, <2>1, <2>3 DEF Editing
<1>3. BoundedBut(v, P)
  BY DEF Editing
<1>4. LET a == UpdateMaxRegularOutputPortForAddedFanin(v, port) IN
      /\ a.def = v.def /\ a.regular = v.regular
      /\ \A p : GetFanout(a, p) = GetFanout(v, p)
      /\ BoundedBut(a, P \ {port}) /\ Frame(v, a, n)
  BY <1>1, <1>3, AddedFacts, BoundFrame
<1>5. LET r == UpdateMaxRegularOutputPortForRemovedFanin(v, port) IN
      /\ r.def = v.def /\ r.regular = v.regular
      /\ \A p : GetFanout(r, p) = GetFanout(v, p)
      /\ BoundedBut(r, P) /\ Frame(v, r, n)
  BY <1>1, <1>3, RemovedFacts, BoundFrame
<1>6. Editing(u, UpdateMaxRegularOutputPortForAddedFanin(v, port), n, s, H, P \ {port})
  BY <1>2, <1>4
<1>7. Editing(u, UpdateMaxRegularOutputPortForRemovedFanin(v, port), n, s, H, P)
  BY <1>2, <1>5
<1> QED
  BY <1>4, <1>5, <1>6, <1>7 DEF Rebound

(* The inputs, or their number, are stored.                                *)
LEMMA EditSet ==
  ASSUME NEW u, WellTyped(u), NEW n \in DOMAIN u.def, NEW v, NEW s, NEW H, NEW P,
         Editing(u, v, n, s, H, P), NEW t \in Seq(AnyInput), NEW k \in Nat
  PROVE  LET w == SetInput(v, n, t)
             z == SetInputs(v, n, t, k) IN
         /\ Editing(u, w, n, s, H, P) /\ w.def[n].input = t
         /\ w.regular = v.regular /\ w.max_out = v.max_out
         /\ Editing(u, z, n, s, H, P) /\ z.def[n].input = t
         /\ z.regular[n] = k /\ z.max_out = v.max_out
         /\ \A p : GetFanout(w, p) = GetFanout(v, p) /\ GetFanout(z, p) = GetFanout(v, p)
<1> DEFINE w == SetInput(v, n, t)
           z == SetInputs(v, n, t, k)
<1>1. v \in Views /\ n \in DOMAIN v.def /\ DOMAIN v.regular = DOMAIN v.def
  BY EditingParts DEF Editing
<1>2. ASSUME NEW x, Frame(v, x, n), \A p : GetFanout(x, p) = GetFanout(v, p),
             x.max_out = v.max_out
      PROVE  Editing(u, x, n, s, H, P)
  <2>1. Frame(u, x, n)
    BY <1>2, FrameTrans DEF Editing
  <2>2. SameNames(v, x)
    BY <1>2, FrameNames
  <2>3. Reads(x, n, s, H)
    BY <1>2, <2>2, ReadsSame DEF Editing
  <2>4. BoundedBut(x, P)
    BY <1>2 DEF Editing, BoundedBut
  <2> QED
    BY <2>1, <2>3, <2>4 DEF Editing
<1>3. /\ w.def[n].input = t /\ w.regular = v.regular /\ w.max_out = v.max_out
      /\ \A p : GetFanout(w, p) = GetFanout(v, p)
  BY <1>1, SetInputFacts
<1>4. /\ z.def[n].input = t /\ z.regular[n] = k /\ z.max_out = v.max_out
      /\ \A p : GetFanout(z, p) = GetFanout(v, p)
  BY <1>1, SetInputsFacts
<1>5. Frame(v, w, n) /\ Frame(v, z, n)
  BY <1>1, SetFrame, SetsFrame
<1> HIDE DEF w, z
<1>6. Editing(u, w, n, s, H, P) /\ Editing(u, z, n, s, H, P)
  BY <1>2, <1>3, <1>4, <1>5
<1> QED
  BY <1>3, <1>4, <1>6 DEF w, z

(* Inputs that keep their port and their slot may change places.           *)
LEMMA EditMove ==
  ASSUME NEW u, NEW n, NEW v, NEW s, NEW H, NEW P, Editing(u, v, n, s, H, P), NEW t, NEW G,
         \A i \in DOMAIN s \ H : \E j \in DOMAIN t \ G :
           t[j] = s[i] /\ Slot(t[j], j) = Slot(s[i], i),
         \A j \in DOMAIN t \ G : \E i \in DOMAIN s \ H :
           t[j] = s[i] /\ Slot(t[j], j) = Slot(s[i], i)
  PROVE  Editing(u, v, n, t, G, P)
<1>1. Reads(v, n, s, H)
  BY DEF Editing
<1>2. Reads(v, n, t, G)
  BY <1>1, ReadsEdit
<1> QED
  BY <1>2 DEF Editing

(* When the edits are done, and the inputs are right, all is right.        *)
LEMMA EditEnd ==
  ASSUME NEW u, NEW X, Good(u, X), NEW n \in DOMAIN u.def, NEW v, NEW s,
         Editing(u, v, n, s, {}, {}), v.def[n].input = s,
         NEW Y, InputsOk(u, n, s, v.regular[n], Y)
  PROVE  /\ NodeOk(v, n, Y)
         /\ Y \subseteq X => Good(v, X)
<1>1. u \in Views /\ Frame(u, v, n) /\ BoundedBut(v, {}) /\ Reads(v, n, s, {})
  BY DEF Good, WellTyped, Editing
<1>2. InputsOk(v, n, s, v.regular[n], Y)
  BY <1>1, FrameInputs
<1>3. NodeOk(v, n, Y)
  BY <1>1, <1>2 DEF NodeOk
<1>4. ASSUME Y \subseteq X PROVE NodeOk(v, n, X)
  BY <1>3, <1>4 DEF NodeOk, InputsOk, NoRepeat
<1>5. ASSUME Y \subseteq X PROVE Good(v, X)
  BY <1>1, <1>4, <1>5, StepOnNode
<1> QED
  BY <1>3, <1>5

-----------------------------------------------------------------------------
(* Inputs that stay right.                                                 *)

(* Regular inputs that n may have, from nodes in Z.                        *)
NewRegular(v, n, Y, Z) ==
  \A y \in Y : /\ y[2] # Control /\ HasNode(v, y[1]) /\ GetNode(v, y[1]) # n
               /\ GetNode(v, y[1]) \in Z

(* Inputs taken from right ones, and new regular ones.                     *)
TakenFrom(t, s, Y) == \A j \in DOMAIN t : t[j] \in Y \/ \E i \in DOMAIN s : t[j] = s[i]

(* Inputs from those there were, and some that are known to be right.      *)
LEMMA InputsKept ==
  ASSUME NEW v, NEW n, NEW s, NEW k, NEW X, InputsOk(v, n, s, k, X),
         NEW t, NEW l \in Nat, l <= Len(t), Single(t),
         \A j \in DOMAIN t : j <= l <=> t[j][2] # Control,
         NEW Z, X \subseteq Z, NEW Y, NewRegular(v, n, Y, Z), TakenFrom(t, s, Y)
  PROVE  InputsOk(v, n, t, l, Z)
<1>0. /\ \A y \in Y : /\ y[2] # Control /\ HasNode(v, y[1]) /\ GetNode(v, y[1]) # n
                      /\ GetNode(v, y[1]) \in Z
      /\ \A j \in DOMAIN t : t[j] \in Y \/ \E i \in DOMAIN s : t[j] = s[i]
  BY DEF NewRegular, TakenFrom
<1>1. \A i \in DOMAIN s :
       /\ HasNode(v, s[i][1])
       /\ GetNode(v, s[i][1]) # n
       /\ s[i][2] = Control => ~IsSwitch(v, GetNode(v, s[i][1]))
  BY DEF InputsOk, Sound
<1>2. Sound(v, n, t, l)
  <2> SUFFICES ASSUME NEW j \in DOMAIN t
               PROVE  /\ HasNode(v, t[j][1])
                      /\ GetNode(v, t[j][1]) # n
                      /\ j <= l <=> t[j][2] # Control
                      /\ t[j][2] = Control => ~IsSwitch(v, GetNode(v, t[j][1]))
    BY DEF Sound
  <2>1. CASE t[j] \in Y
    BY <2>1, <1>0
  <2>2. CASE \E i \in DOMAIN s : t[j] = s[i]
    BY <2>2, <1>1
  <2> QED
    BY <2>1, <2>2, <1>0
<1>3. NoRepeat(v, t, Z)
  <2> SUFFICES ASSUME NEW i \in DOMAIN t, NEW j \in DOMAIN t,
                      t[i][2] = Control, t[j][2] # Control, t[i][1] = t[j][1]
               PROVE  \/ IsIdentity(v, GetNode(v, t[i][1]))
                      \/ GetNode(v, t[i][1]) \in Z
    BY DEF NoRepeat
  <2>1. PICK a \in DOMAIN s : t[i] = s[a]
    BY <1>0
  <2>2. CASE t[j] \in Y
    BY <2>2, <1>0
  <2>3. ASSUME NEW b \in DOMAIN s, t[j] = s[b]
        PROVE  IsIdentity(v, GetNode(v, t[i][1])) \/ GetNode(v, t[i][1]) \in Z
    BY <2>1, <2>3 DEF InputsOk, NoRepeat
  <2> QED
    BY <2>2, <2>3, <1>0
<1> QED
  BY <1>2, <1>3 DEF InputsOk

(* Inputs from those there were, in another order.                         *)
LEMMA InputsMoved ==
  ASSUME NEW v, NEW n, NEW s, NEW k, NEW X, InputsOk(v, n, s, k, X),
         NEW t, NEW l \in Nat, l <= Len(t), Single(t),
         \A j \in DOMAIN t : j <= l <=> t[j][2] # Control,
         \A j \in DOMAIN t : \E i \in DOMAIN s : t[j] = s[i]
  PROVE  InputsOk(v, n, t, l, X)
<1> DEFINE Y == {}
<1>1. NewRegular(v, n, Y, X) /\ X \subseteq X
  BY DEF NewRegular
<1> HIDE DEF Y
<1>2. TakenFrom(t, s, Y)
  BY DEF TakenFrom
<1> QED
  BY <1>1, <1>2, InputsKept

(* A control input does not come twice if no position is used twice.       *)
LEMMA SingleKept ==
  ASSUME NEW s, Single(s), NEW t, NEW pi,
         \A j \in DOMAIN t : t[j][2] = Control => pi[j] \in DOMAIN s /\ t[j] = s[pi[j]],
         \A i, j \in DOMAIN t :
           t[i][2] = Control /\ t[j][2] = Control /\ pi[i] = pi[j] => i = j
  PROVE  Single(t)
  BY DEF Single

(* More nodes may be waited for although they are read.                    *)
LEMMA MoreExempt ==
  ASSUME NEW v, NEW n, NEW s, NEW k, NEW X, InputsOk(v, n, s, k, X), NEW Z, X \subseteq Z
  PROVE  InputsOk(v, n, s, k, Z)
  BY DEF InputsOk, NoRepeat

-----------------------------------------------------------------------------
(* Redundant control inputs.                                               *)

(* A state between edits of n, but for the ports in P and repeats on X.    *)
Settled(u, v, n, P, X) ==
  /\ Editing(u, v, n, v.def[n].input, {}, P)
  /\ InputsOk(u, n, v.def[n].input, v.regular[n], X)

(* What the inputs hold after an edit.                                     *)
LEMMA SettledParts ==
  ASSUME NEW u, WellTyped(u), NEW n \in DOMAIN u.def, NEW v, NEW P, NEW X,
         Settled(u, v, n, P, X)
  PROVE  /\ v.def[n].input \in Seq(AnyInput) /\ v.regular[n] \in Nat
         /\ v.regular[n] <= Len(v.def[n].input)
         /\ \A i \in DOMAIN v.def[n].input :
              /\ i \in 1..Len(v.def[n].input) /\ v.def[n].input[i] \in AnyInput
              /\ HasNode(u, v.def[n].input[i][1])
              /\ GetNode(u, v.def[n].input[i][1]) # n
              /\ i <= v.regular[n] <=> v.def[n].input[i][2] # Control
              /\ v.def[n].input[i][2] = Control =>
                   ~IsSwitch(u, GetNode(u, v.def[n].input[i][1]))
<1>1. v \in Views /\ n \in DOMAIN v.def /\ DOMAIN v.regular = DOMAIN v.def
  BY EditingParts DEF Settled, Editing
<1>2. v.def[n].input \in Seq(AnyInput) /\ v.regular[n] \in Nat
  BY <1>1, ViewParts
<1>3. Sound(u, n, v.def[n].input, v.regular[n])
  BY DEF Settled, InputsOk
<1>4. v.regular[n] <= Len(v.def[n].input)
  BY <1>3 DEF Sound
<1>5. \A i \in DOMAIN v.def[n].input :
        i \in 1..Len(v.def[n].input) /\ v.def[n].input[i] \in AnyInput
  BY <1>2
<1> QED
  BY <1>2, <1>3, <1>4, <1>5 DEF Sound

(* The name of an input is that of the node it reads.                      *)
LEMMA NameOfInput ==
  ASSUME NEW u, WellTyped(u), NEW name, HasNode(u, name)
  PROVE  /\ GetNode(u, name) \in DOMAIN u.def /\ u.def[GetNode(u, name)].name = name
         /\ \A f \in DOMAIN u.def : name = u.def[f].name <=> f = GetNode(u, name)
<1>1. u \in Views /\ UniqueNames(u)
  BY DEF WellTyped
<1>2. GetNode(u, name) \in DOMAIN u.def /\ u.def[GetNode(u, name)].name = name
  BY <1>1, NodeFound
<1> QED
  BY <1>1, <1>2 DEF UniqueNames

(* A control input is the only one that its entry stands for,              *)
LEMMA ControlAlone ==
  ASSUME NEW u, WellTyped(u), NEW s \in Seq(AnyInput), Single(s), NEW H, NEW i \in DOMAIN s,
         s[i][2] = Control, \A j \in DOMAIN s : HasNode(u, s[j][1])
  PROVE  Alone(u, s, H, i)
<1> SUFFICES ASSUME NEW j \in DOMAIN s \ H,
                    OutputPort(u, s[j]) = OutputPort(u, s[i])
             PROVE  j = i
  BY DEF Alone
<1>0. u \in Views
  BY DEF WellTyped
<1>1. /\ OutputPort(u, s[j]) = <<GetNode(u, s[j][1]), s[j][2]>>
      /\ OutputPort(u, s[i]) = <<GetNode(u, s[i][1]), s[i][2]>>
  BY DEF OutputPort
<1>2. GetNode(u, s[j][1]) = GetNode(u, s[i][1]) /\ s[j][2] = Control
  <2>1. <<GetNode(u, s[j][1]), s[j][2]>> = <<GetNode(u, s[i][1]), s[i][2]>>
    BY <1>1
  <2>2. \A a, b, c, d : <<a, b>> = <<c, d>> => a = c /\ b = d
    OBVIOUS
  <2>3. GetNode(u, s[j][1]) = GetNode(u, s[i][1]) /\ s[j][2] = s[i][2]
    BY <2>1, <2>2, Zenon
  <2> QED
    BY <2>3
<1>3. s[j][1] = s[i][1]
  BY <1>2, NameOfInput
<1> QED
  BY <1>2, <1>3 DEF Single

(* and so is a regular one.                                                *)
LEMMA RegularAlone ==
  ASSUME NEW u \in Views, NEW s \in Seq(AnyInput), NEW H, NEW i \in DOMAIN s, s[i][2] # Control
  PROVE  Alone(u, s, H, i)
  BY OnlyRegular DEF Alone

(* The last element takes the place of one that goes.                      *)
LEMMA SwapOutFacts ==
  ASSUME NEW T, NEW s \in Seq(T), NEW i \in 1..Len(s)
  PROVE  /\ SwapOut(s, i) \in Seq(T) /\ Len(SwapOut(s, i)) = Len(s) - 1
         /\ DOMAIN SwapOut(s, i) = 1..Len(s) - 1
         /\ \A j \in 1..Len(s) - 1 : SwapOut(s, i)[j] = IF j = i THEN s[Len(s)] ELSE s[j]
<1>1. \A j \in 1..Len(s) - 1 : s[j] \in T /\ s[Len(s)] \in T
  OBVIOUS
<1>2. Len(s) - 1 \in Nat
  OBVIOUS
<1> DEFINE t == SwapOut(s, i)
           m == Len(s) - 1
<1>3. t = [j \in 1..m |-> IF j = i THEN s[Len(s)] ELSE s[j]]
  BY DEF SwapOut
<1> HIDE DEF t
<1>4. t \in [1..m -> T]
  BY <1>1, <1>3
<1>5. t \in Seq(T) /\ DOMAIN t = 1..m
  BY <1>2, <1>4
<1>6. Len(t) = m
  BY <1>2, <1>5
<1>7. \A j \in 1..m : t[j] = IF j = i THEN s[Len(s)] ELSE s[j]
  BY <1>3
<1> QED
  BY <1>5, <1>6, <1>7 DEF t

(* A node that waits for f does so no more, and is otherwise as it was.    *)
WaitsNoMore(u, v, w, n, f, P, X) ==
  LET s == v.def[n].input
      t == w.def[n].input
  IN  /\ Settled(u, w, n, P, X \ {f})
      /\ w.regular = v.regular /\ w.max_out = v.max_out
      /\ \A i \in DOMAIN t : t[i][2] = Control => t[i][1] # u.def[f].name
      /\ \A i \in DOMAIN t : \E j \in DOMAIN s : t[i] = s[j]
      /\ \A i \in 1..v.regular[n] : t[i] = s[i]
      /\ \A p, to : to \in GetFanout(w, p) => to \in GetFanout(v, p)

(* RemoveControllingFaninInternal, after the edits of a node.              *)
LEMMA RemoveControlFacts ==
  ASSUME NEW u, WellTyped(u), NEW n \in DOMAIN u.def, NEW v, NEW P, NEW X,
         Settled(u, v, n, P, X), NEW f \in DOMAIN u.def
  PROVE  WaitsNoMore(u, v, RemoveControllingFaninInternal(v, n, f), n, f, P, X)
<1> DEFINE w == RemoveControllingFaninInternal(v, n, f)
           s == v.def[n].input
           k == v.regular[n]
           at == {i \in 1..Len(s) : /\ s[i][1] = v.def[f].name
                                    /\ \A j \in i..Len(s) : s[j][2] = Control}
<1>1. /\ s \in Seq(AnyInput) /\ k \in Nat /\ k <= Len(s)
      /\ \A i \in DOMAIN s :
              /\ i \in 1..Len(s) /\ s[i] \in AnyInput
              /\ HasNode(u, s[i][1])
              /\ i <= k <=> s[i][2] # Control
  BY SettledParts
<1>2. /\ v \in Views /\ n \in Ids /\ u \in Views /\ v.def[f].name = u.def[f].name
      /\ n \in DOMAIN v.def
      /\ \A t : OutputPort(v, t) = OutputPort(u, t)
  BY EditingParts DEF Settled, Editing
<1>3. w = IF at = {} THEN v
          ELSE SetInput(Unlink(v, <<f, Control>>, <<n, Control>>), n, SwapOut(s, Max(at)))
  BY DEF RemoveControllingFaninInternal
<1>4. \A i \in DOMAIN s : s[i][2] = Control /\ s[i][1] = u.def[f].name => i \in at
  <2> TAKE i \in DOMAIN s
  <2> HAVE s[i][2] = Control /\ s[i][1] = u.def[f].name
  <2>1. i \in 1..Len(s) /\ k < i
    BY <1>1
  <2>2. \A j \in i..Len(s) : j \in DOMAIN s /\ ~(j <= k)
    BY <2>1, <1>1
  <2>3. \A j \in i..Len(s) : s[j][2] = Control
    BY <2>2, <1>1
  <2> QED
    BY <2>1, <2>3, <1>2
<1>5. Editing(u, v, n, s, {}, P) /\ InputsOk(u, n, s, k, X) /\ Single(s)
  BY DEF Settled, InputsOk
<1> HIDE DEF w, s, k
<1>6. CASE at = {}
  <2>1. w = v
    BY <1>3, <1>6
  <2>2. \A i \in DOMAIN s : s[i][2] = Control => s[i][1] # u.def[f].name
    BY <1>4, <1>6
  <2>3. NoRepeat(u, s, X \ {f})
    <3> SUFFICES ASSUME NEW i \in DOMAIN s, NEW j \in DOMAIN s,
                        s[i][2] = Control, s[j][2] # Control, s[i][1] = s[j][1]
                 PROVE  \/ IsIdentity(u, GetNode(u, s[i][1]))
                        \/ GetNode(u, s[i][1]) \in X \ {f}
      BY DEF NoRepeat
    <3>1. IsIdentity(u, GetNode(u, s[i][1])) \/ GetNode(u, s[i][1]) \in X
      BY <1>5 DEF InputsOk, NoRepeat
    <3>2. GetNode(u, s[i][1]) # f
      BY <1>1, <2>2, NameOfInput
    <3> QED
      BY <3>1, <3>2
  <2>4. Settled(u, w, n, P, X \ {f})
    BY <2>1, <2>3, <1>5 DEF Settled, InputsOk, s, k
  <2>5. \A i \in DOMAIN w.def[n].input : \E j \in DOMAIN s : w.def[n].input[i] = s[j]
    BY <2>1 DEF s
  <2>6. \A i \in 1..k : w.def[n].input[i] = s[i]
    BY <2>1 DEF s
  <2> QED
    BY <2>1, <2>2, <2>4, <2>5, <2>6 DEF w, s, k, WaitsNoMore
<1>7. CASE at # {}
  <2> DEFINE i == Max(at)
             t == SwapOut(s, i)
             x == Unlink(v, <<f, Control>>, <<n, Control>>)
  <2>1. i \in at
    <3>1. at \in SUBSET (0..Len(s)) /\ Len(s) \in Nat
      BY <1>1
    <3> HIDE DEF at
    <3> QED
      BY <3>1, <1>7, GreatestNumber
  <2>2. w = SetInput(x, n, t)
    BY <1>3, <1>7
  <2> HIDE DEF i
  <2>3. i \in 1..Len(s) /\ i \in DOMAIN s /\ s[i][1] = u.def[f].name /\ s[i][2] = Control
    BY <2>1, <1>1, <1>2
  <2> HIDE DEF at
  <2>4. ~(i <= k) /\ s[Len(s)][2] = Control /\ Len(s) \in DOMAIN s /\ ~(Len(s) <= k)
    BY <2>1, <2>3, <1>1 DEF at
  <2>5. /\ t \in Seq(AnyInput) /\ Len(t) = Len(s) - 1 /\ DOMAIN t = 1..Len(s) - 1
        /\ \A j \in 1..Len(s) - 1 : t[j] = IF j = i THEN s[Len(s)] ELSE s[j]
    <3>1. s \in Seq(AnyInput) /\ i \in 1..Len(s)
      BY <1>1, <2>3
    <3>2. SwapOut(s, i) \in Seq(AnyInput) /\ Len(SwapOut(s, i)) = Len(s) - 1
      BY <3>1, SwapOutFacts, Zenon
    <3>3. DOMAIN SwapOut(s, i) = 1..Len(s) - 1
      BY <3>1, SwapOutFacts, Zenon
    <3>4. \A j \in 1..Len(s) - 1 : SwapOut(s, i)[j] = IF j = i THEN s[Len(s)] ELSE s[j]
      BY <3>1, SwapOutFacts, Zenon
    <3> QED
      BY <3>2, <3>3, <3>4, Zenon
  <2>6. OutputPort(u, s[i]) = <<f, Control>> /\ Slot(s[i], i) = Control
    <3>1. GetNode(u, s[i][1]) = f
      BY <2>3, <1>1, NameOfInput
    <3> QED
      BY <2>3, <3>1 DEF OutputPort, Slot
  <2>7. Alone(u, s, {}, i)
    BY <1>1, <1>5, <2>3, ControlAlone
  <2>8. /\ Editing(u, x, n, s, {i}, P)
        /\ x.def = v.def /\ x.regular = v.regular /\ x.max_out = v.max_out
    <3> DEFINE H == {}
    <3>1. i \in DOMAIN s \ H /\ HasNode(u, s[i][1]) /\ Editing(u, v, n, s, H, P) /\ Alone(u, s, H, i)
      BY <2>3, <2>7, <1>1, <1>5
    <3>3. H \cup {i} = {i}
      OBVIOUS
    <3> HIDE DEF H
    <3>2. Edited(u, v, Unlink(v, OutputPort(u, s[i]), <<n, Slot(s[i], i)>>), n, s,
                 H \cup {i}, P)
      BY <1>1, <3>1, EditUnlink
    <3> QED
      BY <3>2, <3>3, <2>6 DEF x, Edited
  <2> HIDE DEF t, x
  <2>9. Editing(u, x, n, t, {}, P)
    <3>1. \A a \in DOMAIN s \ {i} : \E b \in DOMAIN t \ {} :
            t[b] = s[a] /\ Slot(t[b], b) = Slot(s[a], a)
      <4> TAKE a \in DOMAIN s \ {i}
      <4>1. CASE a = Len(s)
        <5>1. i \in DOMAIN t \ {} /\ t[i] = s[a]
          BY <4>1, <2>3, <2>5
        <5>2. Slot(t[i], i) = Control /\ Slot(s[a], a) = Control
          BY <5>1, <4>1, <2>4 DEF Slot
        <5> QED
          BY <5>1, <5>2
      <4>2. CASE a # Len(s)
        <5>1. a \in DOMAIN t \ {} /\ t[a] = s[a]
          BY <4>2, <2>5, <1>1
        <5> QED
          BY <5>1
      <4> QED
        BY <4>1, <4>2
    <3>2. \A b \in DOMAIN t \ {} : \E a \in DOMAIN s \ {i} :
            t[b] = s[a] /\ Slot(t[b], b) = Slot(s[a], a)
      <4> TAKE b \in DOMAIN t \ {}
      <4>1. CASE b = i
        <5>1. Len(s) \in DOMAIN s \ {i} /\ t[b] = s[Len(s)]
          BY <4>1, <2>3, <2>4, <2>5
        <5>2. Slot(t[b], b) = Control /\ Slot(s[Len(s)], Len(s)) = Control
          BY <5>1, <2>4 DEF Slot
        <5> QED
          BY <5>1, <5>2
      <4>2. CASE b # i
        <5>1. b \in DOMAIN s \ {i} /\ t[b] = s[b]
          BY <4>2, <2>5, <1>1
        <5> QED
          BY <5>1
      <4> QED
        BY <4>1, <4>2
    <3> QED
      BY <2>8, <3>1, <3>2, EditMove
  <2>10. /\ Editing(u, w, n, t, {}, P) /\ w.def[n].input = t
         /\ w.regular = v.regular /\ w.max_out = v.max_out
         /\ \A p : GetFanout(w, p) = GetFanout(x, p)
    BY <2>2, <2>5, <2>8, <2>9, EditSet
  <2>11. \A j \in DOMAIN t : \E a \in DOMAIN s : t[j] = s[a] /\ a # i /\ (a = j \/ (a = Len(s) /\ j = i))
    BY <2>3, <2>4, <2>5, <1>1
  <2>12. \A j \in DOMAIN t : t[j][2] = Control => t[j][1] # u.def[f].name
    <3> TAKE j \in DOMAIN t
    <3> HAVE t[j][2] = Control
    <3>1. PICK a \in DOMAIN s : t[j] = s[a] /\ a # i
      BY <2>11
    <3> QED
      BY <3>1, <2>3, <1>5 DEF Single
  <2>13. Single(t)
    <3> DEFINE pi == [j \in DOMAIN t |-> IF j = i THEN Len(s) ELSE j]
    <3>1. \A j \in DOMAIN t : pi[j] \in DOMAIN s /\ t[j] = s[pi[j]]
      BY <2>4, <2>5, <1>1
    <3>2. \A a, b \in DOMAIN t : pi[a] = pi[b] => a = b
      BY <2>5
    <3> HIDE DEF pi
    <3> QED
      BY <3>1, <3>2, <1>5, SingleKept
  <2>14. InputsOk(u, n, t, k, X)
    <3>1. k <= Len(t)
      BY <2>3, <2>4, <2>5, <1>1
    <3>2. \A j \in DOMAIN t : j <= k <=> t[j][2] # Control
      BY <2>3, <2>4, <2>5, <1>1
    <3>3. \A j \in DOMAIN t : \E a \in DOMAIN s : t[j] = s[a]
      BY <2>11
    <3> QED
      BY <3>1, <3>2, <3>3, <2>13, <1>1, <1>5, InputsMoved
  <2>15. NoRepeat(u, t, X \ {f})
    <3> SUFFICES ASSUME NEW a \in DOMAIN t, NEW b \in DOMAIN t,
                        t[a][2] = Control, t[b][2] # Control, t[a][1] = t[b][1]
                 PROVE  \/ IsIdentity(u, GetNode(u, t[a][1]))
                        \/ GetNode(u, t[a][1]) \in X \ {f}
      BY DEF NoRepeat
    <3>1. IsIdentity(u, GetNode(u, t[a][1])) \/ GetNode(u, t[a][1]) \in X
      BY <2>14 DEF InputsOk, NoRepeat
    <3>2. HasNode(u, t[a][1])
      BY <2>14 DEF InputsOk, Sound
    <3>3. GetNode(u, t[a][1]) # f
      BY <3>2, <2>12, NameOfInput
    <3> QED
      BY <3>1, <3>3
  <2>16. Settled(u, w, n, P, X \ {f})
    BY <2>10, <2>14, <2>15 DEF Settled, InputsOk, k
  <2>17. \A j \in 1..k : t[j] = s[j]
    BY <2>3, <2>4, <2>5, <1>1
  <2>18. \A p, to : to \in GetFanout(w, p) => to \in GetFanout(v, p)
    <3>1. <<f, Control>> \in Ends /\ <<n, Control>> \in Ends
      BY <1>2, ViewParts DEF Ends, Slots
    <3>2. \A p, to : to \in GetFanout(x, p) => to \in GetFanout(v, p)
      BY <3>1, <1>2, UnlinkReaders DEF x
    <3> QED
      BY <3>2, <2>10
  <2>19. \A j \in DOMAIN t : \E a \in DOMAIN s : t[j] = s[a]
    BY <2>11
  <2> QED
    BY <2>10, <2>12, <2>16, <2>17, <2>18, <2>19 DEF w, s, k, WaitsNoMore
<1> QED
  BY <1>6, <1>7

-----------------------------------------------------------------------------
(* One node at a time.                                                     *)

(* A node that is not edited is settled.                                   *)
LEMMA SettledStart ==
  ASSUME NEW u, NEW X, Good(u, X), NEW n \in DOMAIN u.def
  PROVE  Settled(u, u, n, {}, X)
<1>1. Editing(u, u, n, u.def[n].input, {}, {})
  BY EditStart
<1>2. NodeOk(u, n, X)
  BY DEF Good
<1> QED
  BY <1>1, <1>2 DEF Settled, NodeOk

(* A view in which a node is settled is good if it was.                    *)
LEMMA SettledGood ==
  ASSUME NEW u, NEW X, Good(u, X), NEW n \in DOMAIN u.def, NEW v, Settled(u, v, n, {}, X)
  PROVE  Good(v, X)
<1>1. Editing(u, v, n, v.def[n].input, {}, {}) /\ InputsOk(u, n, v.def[n].input, v.regular[n], X)
  BY DEF Settled
<1>2. X \subseteq X => Good(v, X)
  BY <1>1, EditEnd
<1> QED
  BY <1>2

(* A repeat on an Identity is none.                                        *)
LEMMA IdentityExempt ==
  ASSUME NEW u, WellTyped(u), NEW n \in DOMAIN u.def, NEW v, NEW P, NEW X,
         Settled(u, v, n, P, X), NEW f \in DOMAIN u.def, IsIdentity(u, f)
  PROVE  Settled(u, v, n, P, X \ {f})
<1>1. NoRepeat(u, v.def[n].input, X)
  BY DEF Settled, InputsOk
<1>2. NoRepeat(u, v.def[n].input, X \ {f})
  BY <1>1 DEF NoRepeat
<1> QED
  BY <1>2 DEF Settled, InputsOk

(* The deduping after the edit of a regular input.                         *)
LEMMA DedupFacts ==
  ASSUME NEW u, WellTyped(u), NEW n \in DOMAIN u.def, NEW v, NEW P, NEW X,
         Settled(u, v, n, P, X), NEW f \in DOMAIN u.def
  PROVE  Settled(u, DedupControl(v, n, f), n, P, X \ {f})
<1>1. CASE CanDedupControlWithRegularInput(v, f)
  <2>1. WaitsNoMore(u, v, RemoveControllingFaninInternal(v, n, f), n, f, P, X)
    BY RemoveControlFacts
  <2> QED
    BY <2>1, <1>1 DEF WaitsNoMore, DedupControl
<1>2. CASE ~CanDedupControlWithRegularInput(v, f)
  <2>1. IsIdentity(v, f)
    BY <1>2 DEF CanDedupControlWithRegularInput, IsIdentityConsumingSwitch
  <2>2. v.def[f].op = u.def[f].op
    BY EditingParts DEF Settled, Editing
  <2>3. IsIdentity(u, f)
    BY <2>1, <2>2 DEF IsIdentity
  <2>4. Settled(u, v, n, P, X \ {f})
    BY <2>3, IdentityExempt
  <2> QED
    BY <2>4, <1>2 DEF DedupControl
<1> QED
  BY <1>1, <1>2

(* It makes the view good.                                                 *)
LEMMA DedupGood ==
  ASSUME NEW u, Good(u, {}), NEW n \in DOMAIN u.def, NEW v, NEW f \in DOMAIN u.def,
         Settled(u, v, n, {}, {f})
  PROVE  Good(DedupControl(v, n, f), {})
<1>1. WellTyped(u)
  BY DEF Good
<1>2. Settled(u, DedupControl(v, n, f), n, {}, {f} \ {f})
  BY <1>1, DedupFacts
<1>3. Settled(u, DedupControl(v, n, f), n, {}, {})
  <2>1. {f} \ {f} = {}
    OBVIOUS
  <2> QED
    BY <1>2, <2>1
<1> QED
  BY <1>3, SettledGood

-----------------------------------------------------------------------------
(* Sequences.                                                              *)

(* t is s with two elements swapped.                                       *)
IsSwap(t, s, i, j, T) ==
  /\ t \in Seq(T) /\ Len(t) = Len(s) /\ DOMAIN t = 1..Len(s)
  /\ \A m \in 1..Len(s) : t[m] = IF m = i THEN s[j] ELSE IF m = j THEN s[i] ELSE s[m]

(* Two elements change places.                                             *)
LEMMA SwapFacts ==
  ASSUME NEW T, NEW s \in Seq(T), NEW i \in 1..Len(s), NEW j \in 1..Len(s)
  PROVE  IsSwap(Swap(s, i, j), s, i, j, T)
<1> DEFINE t == Swap(s, i, j)
<1>1. \A m \in 1..Len(s) : s[m] \in T
  OBVIOUS
<1>2. t = [m \in 1..Len(s) |-> IF m = i THEN s[j] ELSE IF m = j THEN s[i] ELSE s[m]]
  BY DEF Swap
<1> HIDE DEF t
<1>3. t \in [1..Len(s) -> T] /\ Len(s) \in Nat
  BY <1>1, <1>2
<1>4. t \in Seq(T) /\ DOMAIN t = 1..Len(s)
  BY <1>3
<1>5. Len(t) = Len(s)
  BY <1>3, <1>4
<1>6. \A m \in 1..Len(s) : t[m] = IF m = i THEN s[j] ELSE IF m = j THEN s[i] ELSE s[m]
  BY <1>2
<1> QED
  BY <1>4, <1>5, <1>6 DEF t, IsSwap

(* x becomes the last regular input; the control input there goes last.    *)
WithRegular(s, k, x) == Swap(Append(s, x), k + 1, Len(s) + 1)

(* A new regular input goes before the control inputs.                     *)
LEMMA WithRegularFacts ==
  ASSUME NEW T, NEW s \in Seq(T), NEW x \in T, NEW k \in Nat, k <= Len(s)
  PROVE  LET t == WithRegular(s, k, x) IN
         /\ t \in Seq(T) /\ Len(t) = Len(s) + 1 /\ DOMAIN t = 1..Len(s) + 1
         /\ k + 1 \in DOMAIN t /\ t[k + 1] = x
         /\ \A j \in 1..Len(s) : j # k + 1 => t[j] = s[j]
         /\ k < Len(s) => t[Len(s) + 1] = s[k + 1]
<1> DEFINE a == Append(s, x)
           t == Swap(a, k + 1, Len(s) + 1)
<1>1. a \in Seq(T) /\ Len(a) = Len(s) + 1 /\ a[Len(s) + 1] = x
      /\ \A j \in 1..Len(s) : a[j] = s[j]
  OBVIOUS
<1>2. k + 1 \in 1..Len(s) + 1 /\ Len(s) + 1 \in 1..Len(s) + 1
  OBVIOUS
<1> HIDE DEF a, t
<1>3. /\ t \in Seq(T) /\ Len(t) = Len(s) + 1 /\ DOMAIN t = 1..Len(s) + 1
      /\ \A m \in 1..Len(s) + 1 : t[m] =
              IF m = k + 1 THEN a[Len(s) + 1] ELSE IF m = Len(s) + 1 THEN a[k + 1] ELSE a[m]
  <2> DEFINE i == k + 1
             j == Len(s) + 1
  <2>1. a \in Seq(T) /\ i \in 1..Len(a) /\ j \in 1..Len(a) /\ Len(a) = Len(s) + 1
    BY <1>1, <1>2
  <2>2. t = Swap(a, i, j)
    BY DEF t
  <2> HIDE DEF i, j
  <2>3. IsSwap(Swap(a, i, j), a, i, j, T)
    BY <2>1, SwapFacts
  <2> QED
    BY <2>1, <2>2, <2>3 DEF i, j, IsSwap
<1>4. t[k + 1] = x
  BY <1>1, <1>2, <1>3
<1>5. \A j \in 1..Len(s) : j # k + 1 => t[j] = s[j]
  BY <1>1, <1>3
<1>6. k < Len(s) => t[Len(s) + 1] = s[k + 1]
  BY <1>1, <1>2, <1>3
<1> QED
  BY <1>2, <1>3, <1>4, <1>5, <1>6 DEF t, a, WithRegular

(* A regular input that n may have.                                        *)
MayRead(u, n, x) ==
  x \in AnyInput /\ x[2] # Control /\ HasNode(u, x[1]) /\ GetNode(u, x[1]) # n

(* With it the inputs are right, but for a control on the same node.       *)
LEMMA WithRegularOk ==
  ASSUME NEW u, NEW n, NEW s \in Seq(AnyInput), NEW k \in Nat, NEW X,
         InputsOk(u, n, s, k, X), NEW x, MayRead(u, n, x)
  PROVE  InputsOk(u, n, WithRegular(s, k, x), k + 1, X \cup {GetNode(u, x[1])})
<1> DEFINE t == WithRegular(s, k, x)
           Y == {x}
           Z == X \cup {GetNode(u, x[1])}
<1>1. k <= Len(s) /\ Len(s) \in Nat /\ \A i \in DOMAIN s : i \in 1..Len(s) /\ (i <= k <=> s[i][2] # Control)
  BY DEF InputsOk, Sound
<1>2. /\ t \in Seq(AnyInput) /\ Len(t) = Len(s) + 1 /\ DOMAIN t = 1..Len(s) + 1
      /\ k + 1 \in DOMAIN t /\ t[k + 1] = x
      /\ \A j \in 1..Len(s) : j # k + 1 => t[j] = s[j]
      /\ k < Len(s) => t[Len(s) + 1] = s[k + 1]
  BY <1>1, WithRegularFacts DEF MayRead
<1>3. NewRegular(u, n, Y, Z) /\ X \subseteq Z
  BY DEF MayRead, NewRegular
<1> HIDE DEF t
<1>4. \A j \in DOMAIN t : t[j] \in Y \/ \E i \in DOMAIN s : t[j] = s[i]
  <2> TAKE j \in DOMAIN t
  <2>1. CASE j = k + 1
    BY <2>1, <1>2
  <2>2. CASE j # k + 1 /\ j \in 1..Len(s)
    BY <2>2, <1>2
  <2>3. CASE j # k + 1 /\ j = Len(s) + 1
    <3>1. k < Len(s) /\ k + 1 \in DOMAIN s
      BY <2>3, <1>1
    <3> QED
      BY <3>1, <2>3, <1>2
  <2> QED
    BY <2>1, <2>2, <2>3, <1>2
<1>5. \A j \in DOMAIN t : j <= k + 1 <=> t[j][2] # Control
  <2> TAKE j \in DOMAIN t
  <2>1. CASE j = k + 1
    BY <2>1, <1>2 DEF MayRead
  <2>2. CASE j # k + 1 /\ j \in 1..Len(s)
    BY <2>2, <1>1, <1>2
  <2>3. CASE j # k + 1 /\ j = Len(s) + 1
    <3>1. k < Len(s) /\ k + 1 \in DOMAIN s
      BY <2>3, <1>1
    <3> QED
      BY <3>1, <2>3, <1>1, <1>2
  <2> QED
    BY <2>1, <2>2, <2>3, <1>2
<1>6. Single(t)
  <2> DEFINE pi == [j \in DOMAIN t |-> IF j = Len(s) + 1 THEN k + 1 ELSE j]
  <2>0. \A j \in DOMAIN t : t[j][2] = Control => j # k + 1
    BY <1>2 DEF MayRead
  <2>1. \A j \in DOMAIN t : t[j][2] = Control => pi[j] \in DOMAIN s /\ t[j] = s[pi[j]]
    <3> TAKE j \in DOMAIN t
    <3> HAVE t[j][2] = Control
    <3>1. j # k + 1
      BY <2>0
    <3>2. CASE j = Len(s) + 1
      <4>1. k < Len(s) /\ k + 1 \in DOMAIN s /\ pi[j] = k + 1
        BY <3>1, <3>2, <1>1
      <4> QED
        BY <4>1, <3>2, <1>2
    <3>3. CASE j # Len(s) + 1
      <4>1. j \in 1..Len(s) /\ pi[j] = j /\ j \in DOMAIN s
        BY <3>3, <1>2, <1>1
      <4> QED
        BY <4>1, <3>1, <1>2
    <3> QED
      BY <3>2, <3>3
  <2>2. \A i, j \in DOMAIN t :
          t[i][2] = Control /\ t[j][2] = Control /\ pi[i] = pi[j] => i = j
    BY <2>0
  <2>3. Single(s)
    BY DEF InputsOk
  <2> HIDE DEF pi
  <2> QED
    BY <2>1, <2>2, <2>3, SingleKept
<1>8. TakenFrom(t, s, Y)
  BY <1>4 DEF TakenFrom
<1> HIDE DEF Y, Z
<1>7. InputsOk(u, n, t, k + 1, Z)
  <2>1. k + 1 \in Nat /\ k + 1 <= Len(t)
    BY <1>1, <1>2
  <2> QED
    BY <1>3, <1>8, <1>5, <1>6, <2>1, InputsKept
<1> QED
  BY <1>7 DEF t, Z

(* The fanouts tell of all inputs but the new one.                         *)
LEMMA WithRegularReads ==
  ASSUME NEW u, NEW n, NEW v, NEW s \in Seq(AnyInput), NEW k \in Nat, NEW X, NEW P,
         InputsOk(u, n, s, k, X), Editing(u, v, n, s, {}, P), NEW x, MayRead(u, n, x)
  PROVE  Editing(u, v, n, WithRegular(s, k, x), {k + 1}, P)
<1> DEFINE t == WithRegular(s, k, x)
           H == {}
           G == {k + 1}
<1>1. k <= Len(s) /\ Len(s) \in Nat /\ \A i \in DOMAIN s : i \in 1..Len(s) /\ (i <= k <=> s[i][2] # Control)
  BY DEF InputsOk, Sound
<1>2. /\ t \in Seq(AnyInput) /\ Len(t) = Len(s) + 1 /\ DOMAIN t = 1..Len(s) + 1
      /\ \A j \in 1..Len(s) : j # k + 1 => t[j] = s[j]
      /\ k < Len(s) => t[Len(s) + 1] = s[k + 1]
  BY <1>1, WithRegularFacts DEF MayRead
<1> HIDE DEF t
<1>3. k < Len(s) => /\ k + 1 \in DOMAIN s /\ Len(s) + 1 \in DOMAIN t
                    /\ Len(s) + 1 # k + 1
                    /\ Slot(s[k + 1], k + 1) = Control
                    /\ Slot(t[Len(s) + 1], Len(s) + 1) = Control
  BY <1>1, <1>2 DEF Slot
<1>4. \A i \in DOMAIN s \ H : \E j \in DOMAIN t \ G :
           t[j] = s[i] /\ Slot(t[j], j) = Slot(s[i], i)
  <2> TAKE i \in DOMAIN s \ H
  <2>1. CASE i = k + 1
    <3>1. k < Len(s)
      BY <2>1, <1>1
    <3> QED
      BY <3>1, <2>1, <1>2, <1>3
  <2>2. CASE i # k + 1
    <3>1. i \in DOMAIN t \ G /\ t[i] = s[i]
      BY <2>2, <1>1, <1>2
    <3> QED
      BY <3>1
  <2> QED
    BY <2>1, <2>2
<1>5. \A j \in DOMAIN t \ G : \E i \in DOMAIN s \ H :
           t[j] = s[i] /\ Slot(t[j], j) = Slot(s[i], i)
  <2> TAKE j \in DOMAIN t \ G
  <2>1. CASE j = Len(s) + 1
    <3>1. k < Len(s)
      BY <2>1, <1>1
    <3> QED
      BY <3>1, <2>1, <1>2, <1>3
  <2>2. CASE j # Len(s) + 1
    <3>1. j \in DOMAIN s \ H /\ t[j] = s[j]
      BY <2>2, <1>1, <1>2
    <3> QED
      BY <3>1
  <2> QED
    BY <2>1, <2>2
<1>6. Editing(u, v, n, s, H, P)
  OBVIOUS
<1> HIDE DEF H, G
<1>7. Editing(u, v, n, t, G, P)
  BY <1>4, <1>5, <1>6, EditMove
<1> QED
  BY <1>7 DEF t, G

-----------------------------------------------------------------------------
(* Inputs that come and go.                                                *)

(* A bound that holds but for some ports does so but for more.             *)
LEMMA MoreUnbounded ==
  ASSUME NEW v, NEW P, BoundedBut(v, P), NEW Q, P \subseteq Q
  PROVE  BoundedBut(v, Q)
  BY DEF BoundedBut

(* What is entered in the fanouts is within bounds then.                   *)
LEMMA EditEnter ==
  ASSUME NEW u, WellTyped(u), NEW n \in DOMAIN u.def, NEW v, NEW s \in Seq(AnyInput),
         NEW H, NEW P, Editing(u, v, n, s, H, P),
         NEW i \in DOMAIN s, HasNode(u, s[i][1])
  PROVE  LET port == OutputPort(u, s[i])
             x == Link(v, port, <<n, Slot(s[i], i)>>)
             w == UpdateMaxRegularOutputPortForAddedFanin(x, port) IN
         Rebound(u, v, w, n, s, H \ {i}, P)
<1> DEFINE port == OutputPort(u, s[i])
           x == Link(v, port, <<n, Slot(s[i], i)>>)
           w == UpdateMaxRegularOutputPortForAddedFanin(x, port)
           G == H \ {i}
           Q == P \cup {port}
<1>1. Edited(u, v, x, n, s, G, Q)
  BY EditLink
<1>2. port \in Ends
  <2>1. u \in Views
    BY DEF WellTyped
  <2> QED
    BY <2>1, InputFacts
<1> HIDE DEF x, G, Q, port
<1>3. Editing(u, x, n, s, G, Q) /\ x.def = v.def /\ x.regular = v.regular
  BY <1>1 DEF Edited
<1>4. Editing(u, w, n, s, G, Q \ {port}) /\ w.def = x.def /\ w.regular = x.regular
  <2>1. Rebound(u, x, w, n, s, G, Q \ {port})
    BY <1>2, <1>3, EditBound
  <2> QED
    BY <2>1 DEF Rebound
<1> HIDE DEF w
<1>5. BoundedBut(w, P)
  <2>1. BoundedBut(w, Q \ {port}) /\ Q \ {port} \subseteq P
    BY <1>4 DEF Editing, Q
  <2> QED
    BY <2>1, MoreUnbounded
<1>6. Editing(u, w, n, s, G, P)
  BY <1>4, <1>5 DEF Editing
<1> QED
  BY <1>3, <1>4, <1>6 DEF w, x, G, port, Rebound

(* What is taken out of the fanouts lowers the bound, perhaps.             *)
LEMMA EditLeave ==
  ASSUME NEW u, WellTyped(u), NEW n \in DOMAIN u.def, NEW v, NEW s \in Seq(AnyInput),
         NEW H, NEW P, Editing(u, v, n, s, H, P),
         NEW i \in DOMAIN s \ H, HasNode(u, s[i][1]), Alone(u, s, H, i)
  PROVE  LET port == OutputPort(u, s[i])
             x == Unlink(v, port, <<n, Slot(s[i], i)>>)
             w == UpdateMaxRegularOutputPortForRemovedFanin(x, port) IN
         Rebound(u, v, w, n, s, H \cup {i}, P)
<1> DEFINE port == OutputPort(u, s[i])
           x == Unlink(v, port, <<n, Slot(s[i], i)>>)
           w == UpdateMaxRegularOutputPortForRemovedFanin(x, port)
           G == H \cup {i}
<1>1. Edited(u, v, x, n, s, G, P)
  BY EditUnlink
<1>2. port \in Ends
  <2>1. u \in Views
    BY DEF WellTyped
  <2> QED
    BY <2>1, InputFacts
<1> HIDE DEF x, G, port
<1>3. Editing(u, x, n, s, G, P) /\ x.def = v.def /\ x.regular = v.regular
  BY <1>1 DEF Edited
<1>4. Editing(u, w, n, s, G, P) /\ w.def = x.def /\ w.regular = x.regular
  <2>1. Rebound(u, x, w, n, s, G, P)
    BY <1>2, <1>3, EditBound
  <2> QED
    BY <2>1 DEF Rebound
<1> QED
  BY <1>3, <1>4 DEF w, x, G, port, Rebound

-----------------------------------------------------------------------------
(* New inputs.                                                             *)

(* The input by which another node f is read, or waited for.               *)
LEMMA InputFrom ==
  ASSUME NEW v, WellTyped(v), NEW n \in DOMAIN v.def, NEW f \in DOMAIN v.def, f # n,
         NEW p \in AnyPort
  PROVE  LET x == <<v.def[f].name, p>> IN
         /\ x \in AnyInput /\ x[1] = v.def[f].name /\ x[2] = p
         /\ HasNode(v, x[1]) /\ GetNode(v, x[1]) = f
         /\ OutputPort(v, x) = <<f, p>>
         /\ p # Control => MayRead(v, n, x)
<1> DEFINE x == <<v.def[f].name, p>>
<1>1. v \in Views /\ UniqueNames(v)
  BY DEF WellTyped
<1>2. x \in AnyInput /\ HasNode(v, v.def[f].name) /\ OutputPort(v, x) = <<f, p>>
  BY <1>1, InputOfPort
<1>3. x[1] = v.def[f].name /\ x[2] = p
  OBVIOUS
<1>4. GetNode(v, v.def[f].name) = f
  BY <1>1, NodeNamed
<1> QED
  BY <1>2, <1>3, <1>4 DEF MayRead

(* The ports of a client are regular ones.                                 *)
LEMMA PortFacts ==
  ASSUME NEW p \in Ports
  PROVE  p \in AnyPort /\ p # Control /\ p \in Nat
  BY IdsAndControl DEF AnyPort

(* AddFaninInternal, with a regular input.                                 *)
LEMMA AddRegularFacts ==
  ASSUME NEW v, Good(v, {}), NEW n \in DOMAIN v.def, NEW f \in DOMAIN v.def, f # n,
         NEW p \in Ports
  PROVE  Good(AddFaninInternal(v, n, <<f, p>>), {})
<1> DEFINE s == v.def[n].input
           k == v.regular[n]
           x == <<v.def[f].name, p>>
           t == WithRegular(s, k, x)
           port == <<f, p>>
           linked == UpdateMaxRegularOutputPortForAddedFanin(Link(v, port, <<n, k + 1>>), port)
           w == SetInputs(linked, n, t, k + 1)
<1>1. WellTyped(v) /\ Settled(v, v, n, {}, {}) /\ p # Control /\ p \in AnyPort
  BY SettledStart, PortFacts DEF Good
<1>2. s \in Seq(AnyInput) /\ k \in Nat /\ k <= Len(s)
  BY <1>1, SettledParts
<1>3. Editing(v, v, n, s, {}, {}) /\ InputsOk(v, n, s, k, {})
  BY <1>1 DEF Settled
<1>4. AddFaninInternal(v, n, port) = DedupControl(w, n, f)
  <2>1. port[1] = f /\ port[2] = p
    OBVIOUS
  <2>2. t = Swap(Append(s, x), k + 1, Len(Append(s, x)))
    BY <1>2 DEF WithRegular
  <2> QED
    BY <1>1, <2>1, <2>2 DEF AddFaninInternal, UpdateMaxRegularOutputPortForAddedFanin
<1>5. /\ HasNode(v, x[1]) /\ GetNode(v, x[1]) = f /\ x \in AnyInput
      /\ OutputPort(v, x) = port /\ x[2] = p /\ MayRead(v, n, x)
  BY <1>1, InputFrom
<1> HIDE DEF s, k, x, port
<1>6. /\ t \in Seq(AnyInput) /\ k + 1 \in DOMAIN t /\ t[k + 1] = x
  BY <1>2, <1>5, WithRegularFacts
<1>7. InputsOk(v, n, t, k + 1, {f})
  <2>1. InputsOk(v, n, t, k + 1, {} \cup {GetNode(v, x[1])})
    BY <1>2, <1>3, <1>5, WithRegularOk
  <2>2. {} \cup {GetNode(v, x[1])} = {f}
    BY <1>5
  <2> QED
    BY <2>1, <2>2
<1>8. Editing(v, v, n, t, {k + 1}, {})
  BY <1>2, <1>3, <1>5, WithRegularReads
<1> HIDE DEF t
<1>9. Editing(v, linked, n, t, {}, {}) /\ linked.def = v.def
  <2> DEFINE H == {k + 1}
             i == k + 1
  <2>1. i \in DOMAIN t /\ HasNode(v, t[i][1]) /\ Editing(v, v, n, t, H, {}) /\ t[i] = x
    BY <1>5, <1>6, <1>8
  <2>2. Slot(t[i], i) = k + 1 /\ H \ {i} = {}
    BY <1>1, <1>5, <2>1 DEF Slot
  <2> HIDE DEF H, i
  <2>3. LET q == OutputPort(v, t[i])
            y == Link(v, q, <<n, Slot(t[i], i)>>)
            z == UpdateMaxRegularOutputPortForAddedFanin(y, q) IN
         Rebound(v, v, z, n, t, H \ {i}, {})
    BY <1>1, <1>6, <2>1, EditEnter
  <2>4. OutputPort(v, t[i]) = port
    BY <2>1, <1>5
  <2> QED
    BY <2>2, <2>3, <2>4 DEF Rebound
<1> HIDE DEF linked
<1>10. Editing(v, w, n, t, {}, {}) /\ w.def[n].input = t /\ w.regular[n] = k + 1
  <2>1. k + 1 \in Nat
    BY <1>2
  <2> QED
    BY <1>1, <1>6, <1>9, <2>1, EditSet
<1> HIDE DEF w
<1>11. Settled(v, w, n, {}, {f})
  BY <1>7, <1>10 DEF Settled
<1>12. Good(DedupControl(w, n, f), {})
  BY <1>11, DedupGood
<1> QED
  BY <1>4, <1>12 DEF port

(* What adding a control on f to n changes.                                *)
AddsControl(v, w, n, f) ==
  /\ Good(w, {}) /\ Frame(v, w, n) /\ w.regular = v.regular
  /\ w.max_out = v.max_out \/ w.max_out = Put(v.max_out, f, At(v.max_out, f, 0))

(* A control input is added if the node does not wait, or read, already.   *)
LEMMA AddControlFacts ==
  ASSUME NEW v, Good(v, {}), NEW n \in DOMAIN v.def, NEW f \in DOMAIN v.def, f # n,
         ~IsSwitch(v, f)
  PROVE  AddsControl(v, AddFaninInternal(v, n, <<f, Control>>), n, f)
<1> DEFINE s == v.def[n].input
           k == v.regular[n]
           x == <<v.def[f].name, Control>>
           t == Append(s, x)
           port == <<f, Control>>
           start == IF CanDedupControlWithRegularInput(v, f) THEN 0 ELSE k
           linked == UpdateMaxRegularOutputPortForAddedFanin(Link(v, port, <<n, Control>>), port)
           w == SetInput(linked, n, t)
           known == \E i \in start + 1..Len(s) : s[i][1] = v.def[f].name
<1>1. WellTyped(v) /\ Settled(v, v, n, {}, {}) /\ v \in Views
  BY SettledStart DEF Good, WellTyped
<1>2. /\ s \in Seq(AnyInput) /\ k \in Nat /\ k <= Len(s)
      /\ \A i \in DOMAIN s : i \in 1..Len(s) /\ (i <= k <=> s[i][2] # Control)
  BY <1>1, SettledParts
<1>3. Editing(v, v, n, s, {}, {}) /\ InputsOk(v, n, s, k, {})
  BY <1>1 DEF Settled
<1>4. AddFaninInternal(v, n, port) = IF known THEN v ELSE w
  <2>1. port[1] = f /\ port[2] = Control
    OBVIOUS
  <2> QED
    BY <2>1 DEF AddFaninInternal, UpdateMaxRegularOutputPortForAddedFanin
<1>5. Control \in AnyPort
  BY DEF AnyPort
<1>6. /\ HasNode(v, x[1]) /\ GetNode(v, x[1]) = f /\ x \in AnyInput
      /\ OutputPort(v, x) = port /\ x[2] = Control /\ x[1] = v.def[f].name
  BY <1>1, <1>5, InputFrom
<1>7. CASE known
  <2>1. Frame(v, v, n)
    BY <1>1, FrameSelf
  <2> QED
    BY <1>4, <1>7, <2>1 DEF AddsControl
<1>8. CASE ~known
  <2> HIDE DEF s, k, x, port
  <2>1. start \in Nat /\ start <= k /\ \A i \in start + 1..Len(s) : s[i][1] # v.def[f].name
    BY <1>8, <1>2
  <2>2. \A i \in 1..Len(s) : s[i][2] = Control => s[i][1] # v.def[f].name
    <3> TAKE i \in 1..Len(s)
    <3> HAVE s[i][2] = Control
    <3>1. i \in start + 1..Len(s)
      <4> HIDE DEF start
      <4>1. i \in DOMAIN s /\ ~(i <= k)
        BY <1>2
      <4> QED
        BY <4>1, <2>1, <1>2
    <3> QED
      BY <3>1, <2>1
  <2>3. IsIdentity(v, f) \/ \A i \in 1..Len(s) : s[i][1] # v.def[f].name
    <3>1. CASE CanDedupControlWithRegularInput(v, f)
      BY <3>1, <2>1, <1>2
    <3>2. CASE ~CanDedupControlWithRegularInput(v, f)
      BY <3>2 DEF CanDedupControlWithRegularInput, IsIdentityConsumingSwitch
    <3> QED
      BY <3>1, <3>2
  <2> HIDE DEF start, known
  <2>4. /\ t \in Seq(AnyInput) /\ Len(t) = Len(s) + 1 /\ DOMAIN t = 1..Len(s) + 1
        /\ t[Len(s) + 1] = x /\ \A i \in 1..Len(s) : t[i] = s[i]
    BY <1>2, <1>6
  <2> HIDE DEF t
  <2>5. InputsOk(v, n, t, k, {})
    <3>1. Sound(v, n, t, k)
      <4>1. k <= Len(t)
        BY <1>2, <2>4
      <4>2. ASSUME NEW i \in DOMAIN t
            PROVE  /\ HasNode(v, t[i][1]) /\ GetNode(v, t[i][1]) # n
                   /\ i <= k <=> t[i][2] # Control
                   /\ t[i][2] = Control => ~IsSwitch(v, GetNode(v, t[i][1]))
        <5>1. CASE i = Len(s) + 1
          BY <5>1, <1>2, <1>6, <2>4
        <5>2. CASE i \in 1..Len(s)
          <6>1. t[i] = s[i] /\ i \in DOMAIN s
            BY <5>2, <2>4, <1>2
          <6> QED
            BY <6>1, <1>3 DEF InputsOk, Sound
        <5> QED
          BY <5>1, <5>2, <2>4, <1>2
      <4> QED
        BY <4>1, <4>2 DEF Sound
    <3>2. Single(t)
      <4> SUFFICES ASSUME NEW i \in DOMAIN t, NEW j \in DOMAIN t,
                          t[i][2] = Control, t[j][2] = Control, t[i][1] = t[j][1]
                   PROVE  i = j
        BY DEF Single
      <4>1. i \in 1..Len(s) \/ i = Len(s) + 1
        BY <2>4, <1>2
      <4>2. j \in 1..Len(s) \/ j = Len(s) + 1
        BY <2>4, <1>2
      <4>3. CASE i \in 1..Len(s) /\ j \in 1..Len(s)
        <5>1. i \in DOMAIN s /\ j \in DOMAIN s
          BY <4>3, <1>2
        <5> QED
          BY <4>3, <5>1, <2>4, <1>3 DEF InputsOk, Single
      <4>4. CASE i \in 1..Len(s) /\ j = Len(s) + 1
        BY <4>4, <2>2, <2>4, <1>6
      <4>5. CASE i = Len(s) + 1 /\ j \in 1..Len(s)
        BY <4>5, <2>2, <2>4, <1>6
      <4> QED
        BY <4>1, <4>2, <4>3, <4>4, <4>5
    <3>3. NoRepeat(v, t, {})
      <4> SUFFICES ASSUME NEW i \in DOMAIN t, NEW j \in DOMAIN t,
                          t[i][2] = Control, t[j][2] # Control, t[i][1] = t[j][1]
                   PROVE  IsIdentity(v, GetNode(v, t[i][1])) \/ GetNode(v, t[i][1]) \in {}
        BY DEF NoRepeat
      <4>1. i \in 1..Len(s) \/ i = Len(s) + 1
        BY <2>4, <1>2
      <4>2. j \in 1..Len(s)
        BY <2>4, <1>2, <1>6
      <4>3. CASE i \in 1..Len(s)
        <5>1. i \in DOMAIN s /\ j \in DOMAIN s
          BY <4>3, <4>2, <1>2
        <5> QED
          BY <4>2, <4>3, <5>1, <2>4, <1>3 DEF InputsOk, NoRepeat
      <4>4. CASE i = Len(s) + 1
        BY <4>2, <4>4, <2>3, <2>4, <1>6
      <4> QED
        BY <4>1, <4>3, <4>4
    <3> QED
      BY <3>1, <3>2, <3>3 DEF InputsOk
  <2>6. Editing(v, v, n, t, {Len(s) + 1}, {})
    <3> DEFINE H == {}
               G == {Len(s) + 1}
    <3>1. \A i \in DOMAIN s \ H : i \in DOMAIN t \ G /\ t[i] = s[i]
      BY <2>4, <1>2
    <3>2. \A j \in DOMAIN t \ G : j \in DOMAIN s \ H /\ t[j] = s[j]
      BY <2>4, <1>2
    <3>3. \A i \in DOMAIN s \ H : \E j \in DOMAIN t \ G :
           t[j] = s[i] /\ Slot(t[j], j) = Slot(s[i], i)
      BY <3>1
    <3>4. \A j \in DOMAIN t \ G : \E i \in DOMAIN s \ H :
           t[j] = s[i] /\ Slot(t[j], j) = Slot(s[i], i)
      BY <3>2
    <3>5. Editing(v, v, n, s, H, {})
      BY <1>3
    <3> HIDE DEF H, G
    <3>6. Editing(v, v, n, t, G, {})
      BY <3>3, <3>4, <3>5, EditMove
    <3> QED
      BY <3>6 DEF G
  <2>7. /\ Editing(v, linked, n, t, {}, {})
        /\ linked.def = v.def /\ linked.regular = v.regular
    <3> DEFINE i == Len(s) + 1
               H == {i}
    <3>1. i \in DOMAIN t /\ HasNode(v, t[i][1]) /\ Editing(v, v, n, t, H, {}) /\ t[i] = x
      BY <2>4, <2>6, <1>2, <1>6
    <3>2. Slot(t[i], i) = Control /\ H \ {i} = {}
      BY <1>6, <3>1 DEF Slot
    <3> HIDE DEF H, i
    <3>3. LET q == OutputPort(v, t[i])
              y == Link(v, q, <<n, Slot(t[i], i)>>)
              z == UpdateMaxRegularOutputPortForAddedFanin(y, q) IN
           Rebound(v, v, z, n, t, H \ {i}, {})
      BY <1>1, <2>4, <3>1, EditEnter
    <3>4. OutputPort(v, t[i]) = port
      BY <3>1, <1>6
    <3> QED
      BY <3>2, <3>3, <3>4 DEF Rebound
  <2>8. linked.max_out = Put(v.max_out, f, At(v.max_out, f, 0))
    <3> DEFINE y == Link(v, port, <<n, Control>>)
    <3>1. n \in Ids /\ f \in Ids /\ port \in Ends /\ <<n, Control>> \in Ends
          /\ port[1] = f /\ port[2] = Control
      BY <1>1, ViewParts DEF Ends, Slots, port
    <3>2. y \in Views /\ y.max_out = v.max_out
      BY <1>1, <3>1, LinkFacts
    <3>3. At(v.max_out, f, 0) \in Nat
      BY <1>1, ViewParts DEF At
    <3>4. Max({At(v.max_out, f, 0), Control}) = At(v.max_out, f, 0)
      <4> DEFINE b == At(v.max_out, f, 0)
      <4> HIDE DEF b
      <4>1. b \in Nat /\ b \in Int /\ Control \in Int /\ b >= Control
        BY <3>3 DEF b, Control
      <4> QED
        BY <4>1, MaxOfTwo DEF b
    <3> HIDE DEF y
    <3>5. linked = [y EXCEPT !.max_out = Put(v.max_out, f, At(v.max_out, f, 0))]
      BY <3>1, <3>2, <3>4 DEF UpdateMaxRegularOutputPortForAddedFanin, y
    <3> QED
      BY <3>2, <3>5 DEF Views
  <2> HIDE DEF linked
  <2>9. /\ Editing(v, w, n, t, {}, {}) /\ w.def[n].input = t
        /\ w.regular = linked.regular /\ w.max_out = linked.max_out
    BY <1>1, <1>2, <2>4, <2>7, EditSet
  <2> HIDE DEF w
  <2>10. Settled(v, w, n, {}, {})
    BY <2>5, <2>7, <2>9 DEF Settled, k
  <2>11. Good(w, {})
    BY <2>10, SettledGood
  <2>12. Frame(v, w, n)
    BY <2>9 DEF Editing
  <2>13. AddsControl(v, w, n, f)
    BY <2>7, <2>8, <2>9, <2>11, <2>12 DEF AddsControl
  <2> QED
    BY <2>13, <1>4, <1>8 DEF port
<1> QED
  BY <1>7, <1>8

(* A node does not wait for another one any more.                          *)
LEMMA RemoveControllingGood ==
  ASSUME NEW v, NEW X, Good(v, X), NEW n \in DOMAIN v.def, NEW f \in DOMAIN v.def
  PROVE  LET w == RemoveControllingFaninInternal(v, n, f) IN
         /\ Good(w, X) /\ Frame(v, w, n) /\ w.regular = v.regular /\ w.max_out = v.max_out
         /\ NodeOk(w, n, X \ {f})
         /\ \A p, to : to \in GetFanout(w, p) => to \in GetFanout(v, p)
<1> DEFINE w == RemoveControllingFaninInternal(v, n, f)
<1>1. WellTyped(v) /\ Settled(v, v, n, {}, X)
  BY SettledStart DEF Good
<1>2. WaitsNoMore(v, v, w, n, f, {}, X)
  BY <1>1, RemoveControlFacts
<1> HIDE DEF w
<1>3. /\ Settled(v, w, n, {}, X \ {f}) /\ w.regular = v.regular /\ w.max_out = v.max_out
      /\ \A p, to : to \in GetFanout(w, p) => to \in GetFanout(v, p)
  BY <1>2 DEF WaitsNoMore
<1>4. /\ Editing(v, w, n, w.def[n].input, {}, {})
      /\ InputsOk(v, n, w.def[n].input, w.regular[n], X \ {f})
  BY <1>3 DEF Settled
<1>5. NodeOk(w, n, X \ {f}) /\ (X \ {f} \subseteq X => Good(w, X))
  BY <1>4, EditEnd
<1>6. Frame(v, w, n)
  BY <1>4 DEF Editing
<1> QED
  BY <1>3, <1>5, <1>6 DEF w

-----------------------------------------------------------------------------
(* Inputs that change.                                                     *)

(* Some regular inputs become x.                                           *)
LEMMA ReplacedOk ==
  ASSUME NEW u, NEW n, NEW s \in Seq(AnyInput), NEW k \in Nat, NEW X,
         InputsOk(u, n, s, k, X), NEW x, MayRead(u, n, x),
         NEW A \in SUBSET (1..k), NEW t \in Seq(AnyInput), Len(t) = Len(s),
         \A i \in DOMAIN s : t[i] = IF i \in A THEN x ELSE s[i]
  PROVE  InputsOk(u, n, t, k, X \cup {GetNode(u, x[1])})
<1> DEFINE Y == {x}
           Z == X \cup {GetNode(u, x[1])}
<1>1. k <= Len(s) /\ DOMAIN t = DOMAIN s /\ \A i \in DOMAIN s : (i <= k <=> s[i][2] # Control)
  BY DEF InputsOk, Sound
<1>2. NewRegular(u, n, Y, Z) /\ X \subseteq Z /\ x[2] # Control
  BY DEF MayRead, NewRegular
<1>3. TakenFrom(t, s, Y)
  BY <1>1 DEF TakenFrom
<1>4. \A i \in A : i <= k
  <2>1. \A i \in A : i \in 1..k
    OBVIOUS
  <2>2. \A i \in 1..k : i <= k
    OBVIOUS
  <2> QED
    BY <2>1, <2>2
<1>5. \A j \in DOMAIN t : j <= k <=> t[j][2] # Control
  BY <1>1, <1>2, <1>4
<1>6. Single(t)
  <2> SUFFICES ASSUME NEW i \in DOMAIN t, NEW j \in DOMAIN t,
                      t[i][2] = Control, t[j][2] = Control, t[i][1] = t[j][1]
               PROVE  i = j
    BY DEF Single
  <2>1. t[i] = s[i] /\ t[j] = s[j] /\ i \in DOMAIN s /\ j \in DOMAIN s
    BY <1>1, <1>2
  <2> QED
    BY <2>1 DEF InputsOk, Single
<1>7. k <= Len(t)
  BY <1>1
<1> HIDE DEF Y, Z
<1>8. InputsOk(u, n, t, k, Z)
  BY <1>2, <1>3, <1>5, <1>6, <1>7, InputsKept
<1> QED
  BY <1>8 DEF Z

(* UpdateRegularFaninByPort, where it changes the input.                   *)
LEMMA ReplaceRegularFacts ==
  ASSUME NEW v, Good(v, {}), NEW n \in DOMAIN v.def, NEW p \in 1..v.regular[n],
         NEW x, MayRead(v, n, x)
  PROVE  Good(ReplaceRegularFanin(v, n, p, x), {})
<1> DEFINE s == v.def[n].input
           k == v.regular[n]
           from == OutputPort(v, s[p])
           to == OutputPort(v, x)
           freed == UpdateMaxRegularOutputPortForRemovedFanin(Unlink(v, from, <<n, p>>), from)
           w == UpdateMaxRegularOutputPortForAddedFanin(Link(freed, to, <<n, p>>), to)
           t == [s EXCEPT ![p] = x]
           z == SetInput(w, n, t)
<1>1. WellTyped(v) /\ Settled(v, v, n, {}, {}) /\ v \in Views
  BY SettledStart DEF Good, WellTyped
<1>2. /\ s \in Seq(AnyInput) /\ k \in Nat /\ k <= Len(s)
      /\ \A i \in DOMAIN s : i \in 1..Len(s) /\ HasNode(v, s[i][1]) /\ (i <= k <=> s[i][2] # Control)
  BY <1>1, SettledParts
<1>3. Editing(v, v, n, s, {}, {}) /\ InputsOk(v, n, s, k, {})
  BY <1>1 DEF Settled
<1>4. ReplaceRegularFanin(v, n, p, x) = DedupControl(SetInput(w, n, [w.def[n].input EXCEPT ![p] = x]), n, to[1])
  BY DEF ReplaceRegularFanin
<1>5. to[1] = GetNode(v, x[1]) /\ HasNode(v, x[1]) /\ x \in AnyInput /\ x[2] # Control
  BY DEF OutputPort, MayRead
<1>6. to[1] \in DOMAIN v.def
  BY <1>1, <1>5, NodeFound
<1> HIDE DEF s, k
<1>7. p \in DOMAIN s /\ p \in 1..Len(s) /\ p <= k /\ s[p][2] # Control
  <2>1. p \in 1..k
    BY DEF k
  <2> QED
    BY <2>1, <1>2
<1>8. Slot(s[p], p) = p
  BY <1>7 DEF Slot
<1>9. Editing(v, freed, n, s, {p}, {}) /\ freed.def = v.def /\ freed.regular = v.regular
  <2> DEFINE H == {}
  <2>1. p \in DOMAIN s \ H /\ HasNode(v, s[p][1]) /\ Editing(v, v, n, s, H, {})
    BY <1>2, <1>3, <1>7
  <2>2. H \cup {p} = {p}
    OBVIOUS
  <2> HIDE DEF H
  <2>3. Alone(v, s, H, p)
    BY <1>1, <1>2, <1>7, RegularAlone
  <2>4. LET port == OutputPort(v, s[p])
            y == Unlink(v, port, <<n, Slot(s[p], p)>>)
            r == UpdateMaxRegularOutputPortForRemovedFanin(y, port) IN
         Rebound(v, v, r, n, s, H \cup {p}, {})
    BY <1>1, <1>2, <2>1, <2>3, EditLeave
  <2> QED
    BY <2>2, <2>4, <1>8 DEF Rebound
<1> HIDE DEF freed
<1>10. /\ t \in Seq(AnyInput) /\ Len(t) = Len(s) /\ DOMAIN t = DOMAIN s
       /\ \A i \in DOMAIN s : t[i] = IF i = p THEN x ELSE s[i]
  BY <1>2, <1>5, <1>7
<1>11. InputsOk(v, n, t, k, {to[1]})
  <2> DEFINE A == {p}
  <2>1. A \in SUBSET (1..k)
    BY <1>7
  <2>2. \A i \in DOMAIN s : t[i] = IF i \in A THEN x ELSE s[i]
    BY <1>10
  <2> HIDE DEF A, t
  <2>3. InputsOk(v, n, t, k, {} \cup {GetNode(v, x[1])})
    BY <1>2, <1>3, <1>10, <2>1, <2>2, ReplacedOk
  <2>4. {} \cup {GetNode(v, x[1])} = {to[1]}
    BY <1>5
  <2> QED
    BY <2>3, <2>4
<1> HIDE DEF t
<1>12. Editing(v, freed, n, t, {p}, {})
  <2> DEFINE H == {p}
  <2>1. \A i \in DOMAIN s \ H : i \in DOMAIN t \ H /\ t[i] = s[i]
    BY <1>10
  <2>2. \A j \in DOMAIN t \ H : j \in DOMAIN s \ H /\ t[j] = s[j]
    BY <1>10
  <2>3. \A i \in DOMAIN s \ H : \E j \in DOMAIN t \ H :
           t[j] = s[i] /\ Slot(t[j], j) = Slot(s[i], i)
    BY <2>1
  <2>4. \A j \in DOMAIN t \ H : \E i \in DOMAIN s \ H :
           t[j] = s[i] /\ Slot(t[j], j) = Slot(s[i], i)
    BY <2>2
  <2>5. Editing(v, freed, n, s, H, {})
    BY <1>9
  <2> HIDE DEF H
  <2>6. Editing(v, freed, n, t, H, {})
    BY <2>3, <2>4, <2>5, EditMove
  <2> QED
    BY <2>6 DEF H
<1>13. Editing(v, w, n, t, {}, {}) /\ w.def = v.def /\ w.regular = v.regular
  <2> DEFINE H == {p}
  <2>1. p \in DOMAIN t /\ t[p] = x /\ HasNode(v, t[p][1]) /\ Editing(v, freed, n, t, H, {})
    BY <1>5, <1>7, <1>10, <1>12
  <2>2. Slot(t[p], p) = p /\ H \ {p} = {} /\ OutputPort(v, t[p]) = to
    BY <1>5, <2>1 DEF Slot
  <2> HIDE DEF H
  <2>3. LET q == OutputPort(v, t[p])
            y == Link(freed, q, <<n, Slot(t[p], p)>>)
            r == UpdateMaxRegularOutputPortForAddedFanin(y, q) IN
         Rebound(v, freed, r, n, t, H \ {p}, {})
    BY <1>1, <1>10, <2>1, EditEnter
  <2> QED
    BY <2>2, <2>3, <1>9 DEF Rebound
<1> HIDE DEF w, to
<1>14. Editing(v, z, n, t, {}, {}) /\ z.def[n].input = t /\ z.regular = w.regular
  <2>1. 0 \in Nat
    OBVIOUS
  <2> QED
    BY <1>1, <1>10, <1>13, <2>1, EditSet
<1>15. DedupControl(z, n, to[1]) = ReplaceRegularFanin(v, n, p, x)
  <2>1. t = [w.def[n].input EXCEPT ![p] = x]
    BY <1>13 DEF t, s
  <2> QED
    BY <2>1, <1>4
<1> HIDE DEF z
<1>16. Settled(v, z, n, {}, {to[1]})
  BY <1>11, <1>13, <1>14 DEF Settled, k
<1>17. Good(DedupControl(z, n, to[1]), {})
  BY <1>6, <1>16, DedupGood
<1> QED
  BY <1>15, <1>17

-----------------------------------------------------------------------------
(* Edits of several fanouts in one.                                        *)

(* What tells the same of fanouts, under the same bounds.                  *)
LEMMA EditSame ==
  ASSUME NEW u, WellTyped(u), NEW n \in DOMAIN u.def, NEW z, NEW s, NEW H, NEW P,
         Editing(u, z, n, s, H, P), NEW w \in Views,
         w.def = z.def, w.regular = z.regular,
         \A p, e : e \in GetFanout(w, p) <=> e \in GetFanout(z, p),
         NEW Q, BoundedBut(w, Q)
  PROVE  Editing(u, w, n, s, H, Q)
<1>1. \A p : GetFanout(w, p) = GetFanout(z, p)
  <2> TAKE p
  <2>1. \A e : e \in GetFanout(w, p) <=> e \in GetFanout(z, p)
    OBVIOUS
  <2>2. z \in Views
    BY EditingParts DEF Editing
  <2>3. GetFanout(w, p) \in SUBSET Ends /\ GetFanout(z, p) \in SUBSET Ends
    BY <2>2, ViewParts
  <2> QED
    BY <2>1, <2>3
<1>2. SameNames(z, w)
  BY DEF SameNames
<1>3. Reads(z, n, s, H) /\ Frame(u, z, n)
  BY DEF Editing
<1>4. Reads(w, n, s, H)
  BY <1>1, <1>2, <1>3, ReadsSame
<1>5. Frame(z, w, n)
  BY <1>1 DEF Frame
<1>6. Frame(u, w, n)
  BY <1>3, <1>5, FrameTrans
<1> QED
  BY <1>4, <1>6 DEF Editing

(* One reader more, or one less.                                           *)
Linked(v, w, from, x) ==
  /\ w \in Views /\ w.def = v.def /\ w.regular = v.regular /\ w.max_out = v.max_out
  /\ \A p, e : e \in GetFanout(w, p) <=> e \in GetFanout(v, p) \/ (p = from /\ e = x)

(* The readers after one is taken away.                                    *)
Unlinked(v, w, from, x) ==
  /\ w \in Views /\ w.def = v.def /\ w.regular = v.regular /\ w.max_out = v.max_out
  /\ \A p, e : e \in GetFanout(w, p) <=> e \in GetFanout(v, p) /\ ~(p = from /\ e = x)

(* Link, reader by reader.                                                 *)
LEMMA LinkIsLinked ==
  ASSUME NEW v \in Views, NEW from \in Ends, NEW x \in Ends
  PROVE  Linked(v, Link(v, from, x), from, x)
  BY LinkFacts DEF Linked

(* Unlink, reader by reader.                                               *)
LEMMA UnlinkIsUnlinked ==
  ASSUME NEW v \in Views, NEW from \in Ends, NEW x \in Ends
  PROVE  Unlinked(v, Unlink(v, from, x), from, x)
  BY UnlinkReaders DEF Unlinked

(* SwapRegularFaninsByPorts, where the ports differ.                       *)
LEMMA SwapRegularFacts ==
  ASSUME NEW v, Good(v, {}), NEW n \in DOMAIN v.def,
         NEW p \in 1..v.regular[n], NEW q \in 1..v.regular[n], p # q,
         NEW from, from = OutputPort(v, v.def[n].input[p]),
         NEW to, to = OutputPort(v, v.def[n].input[q]), from # to
  PROVE  Good(SetInput(Link(Unlink(Link(Unlink(v, from, <<n, p>>), from, <<n, q>>),
                                   to, <<n, q>>), to, <<n, p>>),
                       n, Swap(v.def[n].input, p, q)), {})
<1> DEFINE s == v.def[n].input
           k == v.regular[n]
           t == Swap(s, p, q)
           a1 == Unlink(v, from, <<n, p>>)
           a2 == Link(a1, from, <<n, q>>)
           a3 == Unlink(a2, to, <<n, q>>)
           w == Link(a3, to, <<n, p>>)
           b2 == Unlink(a1, to, <<n, q>>)
           b3 == Link(b2, from, <<n, q>>)
           z == Link(b3, to, <<n, p>>)
           r == SetInput(w, n, t)
<1>1. WellTyped(v) /\ Settled(v, v, n, {}, {}) /\ v \in Views
  BY SettledStart DEF Good, WellTyped
<1>2. /\ s \in Seq(AnyInput) /\ k \in Nat /\ k <= Len(s) /\ Len(s) \in Nat
      /\ \A i \in DOMAIN s : i \in 1..Len(s) /\ HasNode(v, s[i][1]) /\ (i <= k <=> s[i][2] # Control)
  <2>1. s \in Seq(AnyInput) /\ k \in Nat /\ k <= Len(s)
    BY <1>1, SettledParts
  <2>2. \A i \in DOMAIN s :
          i \in 1..Len(s) /\ HasNode(v, s[i][1]) /\ (i <= k <=> s[i][2] # Control)
    BY <1>1, SettledParts
  <2> HIDE DEF s, k
  <2> QED
    BY <2>1, <2>2
<1>3. Editing(v, v, n, s, {}, {}) /\ InputsOk(v, n, s, k, {})
  BY <1>1 DEF Settled
<1>4. from = OutputPort(v, s[p]) /\ to = OutputPort(v, s[q]) /\ p \in 1..k /\ q \in 1..k
  OBVIOUS
<1> HIDE DEF s, k
<1>5. /\ p \in DOMAIN s /\ q \in DOMAIN s /\ p <= k /\ q <= k
      /\ s[p][2] # Control /\ s[q][2] # Control /\ Slot(s[p], p) = p /\ Slot(s[q], q) = q
      /\ HasNode(v, s[p][1]) /\ HasNode(v, s[q][1])
      /\ p \in 1..Len(s) /\ q \in 1..Len(s)
  BY <1>2, <1>4 DEF Slot
<1>6. /\ from \in Ends /\ to \in Ends /\ <<n, p>> \in Ends /\ <<n, q>> \in Ends
  <2>1. p \in Nat /\ q \in Nat /\ n \in Ids
    BY <1>1, <1>5, ViewParts
  <2>2. from \in Ends /\ to \in Ends
    BY <1>1, <1>2, <1>4, <1>5, InputFacts
  <2> QED
    BY <2>1, <2>2 DEF Ends, Slots
<1>7. /\ t \in Seq(AnyInput) /\ Len(t) = Len(s) /\ DOMAIN t = 1..Len(s)
      /\ \A m \in 1..Len(s) : t[m] = IF m = p THEN s[q] ELSE IF m = q THEN s[p] ELSE s[m]
  <2>1. IsSwap(Swap(s, p, q), s, p, q, AnyInput)
    BY <1>2, <1>5, SwapFacts
  <2> QED
    BY <2>1 DEF IsSwap
<1> HIDE DEF t
<1>8. t[p] = s[q] /\ t[q] = s[p] /\ p \in DOMAIN t /\ q \in DOMAIN t
      /\ Slot(t[p], p) = p /\ Slot(t[q], q) = q
  BY <1>5, <1>7 DEF Slot
<1>9. InputsOk(v, n, t, k, {})
  <2>1. Single(t)
    <3> SUFFICES ASSUME NEW i \in DOMAIN t, NEW j \in DOMAIN t,
                        t[i][2] = Control, t[j][2] = Control, t[i][1] = t[j][1]
                 PROVE  i = j
      BY DEF Single
    <3>1. t[i] = s[i] /\ t[j] = s[j] /\ i \in DOMAIN s /\ j \in DOMAIN s
      BY <1>2, <1>5, <1>7
    <3> QED
      BY <3>1, <1>3 DEF InputsOk, Single
  <2>2. \A j \in DOMAIN t : j <= k <=> t[j][2] # Control
    BY <1>2, <1>5, <1>7
  <2>3. \A j \in DOMAIN t : \E i \in DOMAIN s : t[j] = s[i]
    BY <1>2, <1>5, <1>7
  <2>4. k <= Len(t)
    BY <1>2, <1>7
  <2> QED
    BY <2>1, <2>2, <2>3, <2>4, <1>2, <1>3, InputsMoved
<1>10. Edited(v, v, a1, n, s, {p}, {})
  <2> DEFINE H == {}
  <2>1. p \in DOMAIN s \ H /\ Editing(v, v, n, s, H, {}) /\ H \cup {p} = {p}
    BY <1>3, <1>5
  <2> HIDE DEF H
  <2>2. Alone(v, s, H, p)
    BY <1>1, <1>2, <1>5, RegularAlone
  <2>3. Edited(v, v, Unlink(v, OutputPort(v, s[p]), <<n, Slot(s[p], p)>>), n, s, H \cup {p}, {})
    BY <1>1, <1>2, <1>5, <2>1, <2>2, EditUnlink
  <2> QED
    BY <2>1, <2>3, <1>4, <1>5
<1> DEFINE H == {p, q}
<1>11. Edited(v, a1, b2, n, s, H, {})
  <2> DEFINE G == {p}
  <2>1. q \in DOMAIN s \ G /\ Editing(v, a1, n, s, G, {}) /\ G \cup {q} = H
    BY <1>5, <1>10 DEF Edited
  <2> HIDE DEF G, H, a1
  <2>2. Alone(v, s, G, q)
    BY <1>1, <1>2, <1>5, RegularAlone
  <2>3. Edited(v, a1, Unlink(a1, OutputPort(v, s[q]), <<n, Slot(s[q], q)>>), n, s, G \cup {q}, {})
    BY <1>1, <1>2, <1>5, <2>1, <2>2, EditUnlink
  <2> QED
    BY <2>1, <2>3, <1>4, <1>5
<1>12. Editing(v, b2, n, t, H, {})
  <2>1. \A i \in DOMAIN s \ H : i \in DOMAIN t \ H /\ t[i] = s[i]
    BY <1>2, <1>7
  <2>2. \A j \in DOMAIN t \ H : j \in DOMAIN s \ H /\ t[j] = s[j]
    BY <1>2, <1>7
  <2>3. \A i \in DOMAIN s \ H : \E j \in DOMAIN t \ H :
           t[j] = s[i] /\ Slot(t[j], j) = Slot(s[i], i)
    BY <2>1
  <2>4. \A j \in DOMAIN t \ H : \E i \in DOMAIN s \ H :
           t[j] = s[i] /\ Slot(t[j], j) = Slot(s[i], i)
    BY <2>2
  <2>5. Editing(v, b2, n, s, H, {})
    BY <1>11 DEF Edited
  <2> HIDE DEF H, b2
  <2> QED
    BY <2>3, <2>4, <2>5, EditMove
<1>13. Edited(v, b2, b3, n, t, {p}, {from})
  <2>1. q \in DOMAIN t /\ HasNode(v, t[q][1]) /\ H \ {q} = {p} /\ {} \cup {from} = {from}
        /\ OutputPort(v, t[q]) = from
    BY <1>4, <1>5, <1>8
  <2> HIDE DEF H, b2
  <2>2. LET port == OutputPort(v, t[q])
            y == Link(b2, port, <<n, Slot(t[q], q)>>) IN
         Edited(v, b2, y, n, t, H \ {q}, {} \cup {port})
    BY <1>1, <1>7, <1>12, <2>1, EditLink
  <2> QED
    BY <2>1, <2>2, <1>8
<1>14. Edited(v, b3, z, n, t, {}, {from, to})
  <2> DEFINE G == {p}
             Q == {from}
  <2>1. p \in DOMAIN t /\ HasNode(v, t[p][1]) /\ G \ {p} = {} /\ Q \cup {to} = {from, to}
        /\ OutputPort(v, t[p]) = to /\ Editing(v, b3, n, t, G, Q)
    BY <1>4, <1>5, <1>8, <1>13 DEF Edited
  <2> HIDE DEF G, Q, b3
  <2>2. LET port == OutputPort(v, t[p])
            y == Link(b3, port, <<n, Slot(t[p], p)>>) IN
         Edited(v, b3, y, n, t, G \ {p}, Q \cup {port})
    BY <1>1, <1>7, <2>1, EditLink
  <2> QED
    BY <2>1, <2>2, <1>8
<1> HIDE DEF H
<1> DEFINE x == <<n, p>>
           y == <<n, q>>
<1>15. x \in Ends /\ y \in Ends
  BY <1>6
<1>A. /\ a1 = Unlink(v, from, x) /\ a2 = Link(a1, from, y) /\ a3 = Unlink(a2, to, y)
      /\ w = Link(a3, to, x) /\ b2 = Unlink(a1, to, y) /\ b3 = Link(b2, from, y)
      /\ z = Link(b3, to, x)
  OBVIOUS
<1>B. x = <<n, p>> /\ y = <<n, q>> /\ r = SetInput(w, n, t)
  OBVIOUS
<1> HIDE DEF x, y, a1, a2, a3, w, b2, b3, z
<1>16. Unlinked(v, a1, from, x)
  BY <1>1, <1>6, <1>15, <1>A, UnlinkIsUnlinked
<1>17. Linked(a1, a2, from, y)
  BY <1>6, <1>15, <1>16, <1>A, LinkIsLinked DEF Unlinked
<1>18. Unlinked(a2, a3, to, y)
  BY <1>6, <1>15, <1>17, <1>A, UnlinkIsUnlinked DEF Linked
<1>19. Linked(a3, w, to, x)
  BY <1>6, <1>15, <1>18, <1>A, LinkIsLinked DEF Unlinked
<1>20. Unlinked(a1, b2, to, y)
  <2>1. a1 \in Views
    BY <1>16 DEF Unlinked
  <2> QED
    BY <1>6, <1>15, <2>1, <1>A, UnlinkIsUnlinked
<1>21. Linked(b2, b3, from, y)
  BY <1>6, <1>15, <1>20, <1>A, LinkIsLinked DEF Unlinked
<1>22. Linked(b3, z, to, x)
  <2>1. b3 \in Views
    BY <1>21 DEF Linked
  <2> QED
    BY <1>6, <1>15, <2>1, <1>A, LinkIsLinked
<1>C. w \in Views /\ w.def = v.def /\ w.regular = v.regular /\ w.max_out = v.max_out
      /\ z.def = v.def /\ z.regular = v.regular
  BY <1>16, <1>17, <1>18, <1>19, <1>20, <1>21, <1>22 DEF Linked, Unlinked
<1>23. \A port, e : e \in GetFanout(w, port) <=> e \in GetFanout(z, port)
  BY <1>16, <1>17, <1>18, <1>19, <1>20, <1>21, <1>22 DEF Linked, Unlinked
<1>24. BoundedBut(w, {})
  <2>1. BoundedBut(v, {})
    BY DEF Good
  <2>2. x \in GetFanout(v, from) /\ y \in GetFanout(v, to)
    <3>1. Reads(v, n, s, {}) /\ n \in Ids
      BY <1>1, <1>3, ViewParts DEF Editing
    <3>2. p \in Slots /\ q \in Slots
      BY <1>5 DEF Slots
    <3> QED
      BY <3>1, <3>2, <1>4, <1>5, <1>6, <1>B DEF Reads
  <2>3. \A port : GetFanout(w, port) # {} => GetFanout(v, port) # {}
    <3> TAKE port
    <3> HAVE GetFanout(w, port) # {}
    <3>1. PICK e : e \in GetFanout(w, port)
      OBVIOUS
    <3> QED
      BY <3>1, <2>2, <1>16, <1>17, <1>18, <1>19 DEF Linked, Unlinked
  <2> QED
    BY <2>1, <2>3, <1>C DEF BoundedBut
<1>25. Editing(v, w, n, t, {}, {})
  <2>1. Editing(v, z, n, t, {}, {from, to})
    BY <1>14 DEF Edited
  <2> QED
    BY <2>1, <1>1, <1>C, <1>23, <1>24, EditSame
<1>26. Editing(v, r, n, t, {}, {}) /\ r.def[n].input = t /\ r.regular = w.regular
  BY <1>1, <1>2, <1>7, <1>25, EditSet
<1> HIDE DEF r
<1>27. Settled(v, r, n, {}, {})
  BY <1>9, <1>C, <1>26 DEF Settled, k
<1>28. Good(r, {})
  BY <1>27, SettledGood
<1> QED
  BY <1>28 DEF r, w, a3, a2, a1, t, s

-----------------------------------------------------------------------------
(* All readers of a port are given at once.                                *)
HasReaders(v, w, from, E) ==
  /\ w \in Views /\ w.def = v.def /\ w.regular = v.regular /\ w.max_out = v.max_out
  /\ \A p : GetFanout(w, p) = IF p = from THEN E ELSE GetFanout(v, p)

(* The readers of a port are replaced.                                     *)
WithReaders(v, from, E) == [v EXCEPT !.fanouts = Put(@, from, E)]

(* The readers of a port are replaced, and nothing else.                   *)
LEMMA WithReadersFacts ==
  ASSUME NEW v \in Views, NEW from \in Ends, NEW E \in SUBSET Ends
  PROVE  HasReaders(v, WithReaders(v, from, E), from, E)
<1> DEFINE F == Put(v.fanouts, from, E)
<1>1. v.fanouts \in Partial(Ends, SUBSET Ends)
  BY ViewParts
<1>2. F \in Partial(Ends, SUBSET Ends)
  BY <1>1, PutFacts
<1>3. \A j, d : At(F, j, d) = IF j = from THEN E ELSE At(v.fanouts, j, d)
  BY DEF Put, At
<1>4. WithReaders(v, from, E) = [v EXCEPT !.fanouts = F]
  BY DEF WithReaders
<1> HIDE DEF F
<1>5. /\ [v EXCEPT !.fanouts = F] \in Views
      /\ [v EXCEPT !.fanouts = F].fanouts = F
      /\ [v EXCEPT !.fanouts = F].def = v.def
      /\ [v EXCEPT !.fanouts = F].regular = v.regular
      /\ [v EXCEPT !.fanouts = F].max_out = v.max_out
  BY <1>2 DEF Views
<1> QED
  BY <1>3, <1>4, <1>5 DEF GetFanout, HasReaders

(* Some inputs of n read to instead of from.                               *)
Replacing(v, w, n, s, t, from, to, at, ends) ==
  /\ to[2] # Control /\ from[2] # Control
  /\ at \in SUBSET (DOMAIN s) /\ \A i \in at : s[i] = from
  /\ DOMAIN t = DOMAIN s /\ \A i \in DOMAIN s : t[i] = IF i \in at THEN to ELSE s[i]
  /\ \A e : e \in ends <=> \E i \in at : e = <<n, i>>
  /\ \A p, e : e \in GetFanout(w, p) <=>
       \/ e \in GetFanout(v, p) /\ ~(p = OutputPort(v, from) /\ e \in ends)
       \/ p = OutputPort(v, to) /\ e \in ends

(* The readers are right when all inputs from a port name another one.     *)
LEMMA ReadsReplaced ==
  ASSUME NEW v \in Views, NEW n \in Ids, NEW s \in Seq(AnyInput), Reads(v, n, s, {}),
         NEW w, SameNames(v, w), NEW t, NEW from, NEW to, NEW at, NEW ends,
         Replacing(v, w, n, s, t, from, to, at, ends)
  PROVE  Reads(w, n, t, {})
<1>0. /\ to[2] # Control /\ from[2] # Control
      /\ at \in SUBSET (DOMAIN s) /\ \A i \in at : s[i] = from
      /\ DOMAIN t = DOMAIN s /\ \A i \in DOMAIN s : t[i] = IF i \in at THEN to ELSE s[i]
      /\ \A e : e \in ends <=> \E i \in at : e = <<n, i>>
      /\ \A p, e : e \in GetFanout(w, p) <=>
           \/ e \in GetFanout(v, p) /\ ~(p = OutputPort(v, from) /\ e \in ends)
           \/ p = OutputPort(v, to) /\ e \in ends
  BY DEF Replacing
<1>1. \A i \in DOMAIN s : i # Control /\ i \in Nat
  BY InputFacts
<1>2. \A p : OutputPort(w, p) = OutputPort(v, p)
  BY SamePort
<1>3. \A i \in at : i \in DOMAIN s /\ t[i] = to /\ Slot(to, i) = i /\ s[i] = from /\ Slot(s[i], i) = i
  BY <1>0 DEF Slot
<1>4. \A i \in DOMAIN s \ at : t[i] = s[i]
  BY <1>0
<1>5. \A b : <<n, b>> \in ends <=> b \in at
  <2> TAKE b
  <2>1. <<n, b>> \in ends => b \in at
    <3> HAVE <<n, b>> \in ends
    <3>1. PICK i \in at : <<n, b>> = <<n, i>>
      BY <1>0
    <3> QED
      BY <3>1
  <2>2. b \in at => <<n, b>> \in ends
    BY <1>0
  <2> QED
    BY <2>1, <2>2
<1> SUFFICES ASSUME NEW port \in Ends, NEW b \in Slots
             PROVE  <<n, b>> \in GetFanout(w, port) <=>
                      \E i \in DOMAIN t : OutputPort(v, t[i]) = port /\ b = Slot(t[i], i)
  BY <1>2 DEF Reads
<1>6. <<n, b>> \in GetFanout(v, port) <=>
        \E i \in DOMAIN s : OutputPort(v, s[i]) = port /\ b = Slot(s[i], i)
  BY DEF Reads
<1>7. <<n, b>> \in GetFanout(w, port) <=>
        \/ <<n, b>> \in GetFanout(v, port) /\ ~(port = OutputPort(v, from) /\ b \in at)
        \/ port = OutputPort(v, to) /\ b \in at
  BY <1>0, <1>5
<1>8. ASSUME <<n, b>> \in GetFanout(w, port)
      PROVE  \E i \in DOMAIN t : OutputPort(v, t[i]) = port /\ b = Slot(t[i], i)
  <2>1. CASE port = OutputPort(v, to) /\ b \in at
    BY <2>1, <1>0, <1>3
  <2>2. CASE <<n, b>> \in GetFanout(v, port) /\ ~(port = OutputPort(v, from) /\ b \in at)
    <3>1. PICK i \in DOMAIN s : OutputPort(v, s[i]) = port /\ b = Slot(s[i], i)
      BY <2>2, <1>6
    <3>2. i \notin at
      BY <3>1, <2>2, <1>3
    <3> QED
      BY <3>1, <3>2, <1>0, <1>4
  <2> QED
    BY <2>1, <2>2, <1>7, <1>8
<1>9. ASSUME NEW i \in DOMAIN t, OutputPort(v, t[i]) = port /\ b = Slot(t[i], i)
      PROVE  <<n, b>> \in GetFanout(w, port)
  <2>1. CASE i \in at
    BY <2>1, <1>3, <1>7, <1>9
  <2>2. CASE i \notin at
    <3>1. t[i] = s[i] /\ i \in DOMAIN s
      BY <1>0, <2>2
    <3>2. <<n, b>> \in GetFanout(v, port)
      BY <3>1, <1>6, <1>9
    <3>3. b \notin at
      <4>1. b = i \/ b = Control
        BY <1>9 DEF Slot
      <4> QED
        BY <4>1, <2>2, <1>0, <1>1
    <3> QED
      BY <3>2, <3>3, <1>7
  <2> QED
    BY <2>1, <2>2
<1> QED
  BY <1>8, <1>9

(* UpdateFanin, from a regular input to a regular one.                     *)
LEMMA ReplaceEverywhereFacts ==
  ASSUME NEW v, Good(v, {}), NEW n \in DOMAIN v.def,
         NEW from, MayRead(v, n, from), NEW to, MayRead(v, n, to)
  PROVE  Good(ReplaceRegularFaninEverywhere(v, n, from, to), {})
<1> DEFINE s     == v.def[n].input
           k     == v.regular[n]
           at    == {i \in 1..k : s[i] = from}
           ends  == {<<n, i>> : i \in at}
           old   == OutputPort(v, from)
           new   == OutputPort(v, to)
           freed == WithReaders(v, old, GetFanout(v, old) \ ends)
           moved == WithReaders(freed, new, GetFanout(freed, new) \cup ends)
           t     == [i \in DOMAIN s |-> IF i \in at THEN to ELSE s[i]]
           w     == SetInput(moved, n, t)
           x     == UpdateMaxRegularOutputPortForRemovedFanin(w, old)
           z     == UpdateMaxRegularOutputPortForAddedFanin(x, new)
<1>1. WellTyped(v) /\ Settled(v, v, n, {}, {}) /\ v \in Views /\ n \in Ids
  BY SettledStart, ViewParts DEF Good, WellTyped
<1>2. CASE at = {}
  BY <1>2 DEF ReplaceRegularFaninEverywhere
<1>3. CASE at # {}
  <2>1. ReplaceRegularFaninEverywhere(v, n, from, to) = DedupControl(z, n, new[1])
    BY <1>3 DEF ReplaceRegularFaninEverywhere, WithReaders, GetFanout
  <2>2. /\ s \in Seq(AnyInput) /\ k \in Nat /\ k <= Len(s)
        /\ \A i \in DOMAIN s : i \in 1..Len(s) /\ HasNode(v, s[i][1]) /\ s[i] \in AnyInput
    BY <1>1, SettledParts
  <2>3. Editing(v, v, n, s, {}, {}) /\ InputsOk(v, n, s, k, {})
    BY <1>1 DEF Settled
  <2>4. Frame(v, v, n) /\ BoundedBut(v, {}) /\ Reads(v, n, s, {})
    BY <2>3 DEF Editing
  <2>5. new \in Ends /\ new[1] \in DOMAIN v.def /\ new[1] = GetNode(v, to[1])
        /\ old \in Ends /\ from[2] # Control /\ to[2] # Control /\ to \in AnyInput
    <3>1. new[1] = GetNode(v, to[1]) /\ HasNode(v, to[1]) /\ to \in AnyInput
          /\ HasNode(v, from[1]) /\ from \in AnyInput /\ from[2] # Control /\ to[2] # Control
      BY DEF OutputPort, MayRead
    <3> HIDE DEF new, old
    <3>2. new \in Ends /\ old \in Ends
      BY <1>1, <3>1, PortOfInput DEF new, old
    <3> QED
      BY <1>1, <3>1, <3>2, NodeFound
  <2>6. DedupControl(z, n, new[1]) = ReplaceRegularFaninEverywhere(v, n, from, to)
    BY <2>1
  <2> HIDE DEF s, k, old, new
  <2>7. at \in SUBSET (1..k) /\ at \in SUBSET (DOMAIN s) /\ \A i \in at : s[i] = from
    <3>1. DOMAIN s = 1..Len(s) /\ Len(s) \in Nat
      BY <2>2
    <3> QED
      BY <2>2, <3>1
  <2> HIDE DEF at
  <2>8. ends \in SUBSET Ends /\ \A e : e \in ends <=> \E i \in at : e = <<n, i>>
    <3>1. \A i \in at : i \in Nat
      BY <2>2, <2>7
    <3>2. \A i \in at : <<n, i>> \in Ends
      BY <3>1, <1>1 DEF Ends, Slots
    <3> QED
      BY <3>2
  <2>9. /\ t \in Seq(AnyInput) /\ DOMAIN t = DOMAIN s /\ Len(t) = Len(s)
        /\ \A i \in DOMAIN s : t[i] = IF i \in at THEN to ELSE s[i]
    <3>1. DOMAIN s = 1..Len(s) /\ Len(s) \in Nat
      BY <2>2
    <3>2. t \in [1..Len(s) -> AnyInput]
      BY <2>2, <2>5, <3>1
    <3>3. DOMAIN t = DOMAIN s /\ \A i \in DOMAIN s : t[i] = IF i \in at THEN to ELSE s[i]
      OBVIOUS
    <3> HIDE DEF t
    <3> QED
      BY <3>1, <3>2, <3>3
  <2> HIDE DEF ends, t
  <2>10. HasReaders(v, freed, old, GetFanout(v, old) \ ends)
    <3>1. GetFanout(v, old) \ ends \in SUBSET Ends
      BY <1>1, ViewParts
    <3> QED
      BY <1>1, <2>5, <3>1, WithReadersFacts
  <2>11. freed \in Views
    BY <2>10 DEF HasReaders
  <2> HIDE DEF freed
  <2>12. HasReaders(freed, moved, new, GetFanout(freed, new) \cup ends)
    <3>1. GetFanout(freed, new) \cup ends \in SUBSET Ends
      BY <2>8, <2>11, ViewParts
    <3> QED
      BY <2>5, <2>11, <3>1, WithReadersFacts
  <2> HIDE DEF moved
  <2>13. /\ moved \in Views /\ moved.def = v.def /\ moved.regular = v.regular /\ moved.max_out = v.max_out
         /\ \A p, e : e \in GetFanout(moved, p) <=>
              \/ e \in GetFanout(v, p) /\ ~(p = old /\ e \in ends)
              \/ p = new /\ e \in ends
    BY <2>10, <2>12 DEF HasReaders
  <2>14. Frame(v, moved, n)
    <3>1. \A to_ \in Ends : to_[1] # n => to_ \notin ends
      BY <2>8
    <3> QED
      BY <2>13, <3>1 DEF Frame
  <2>15. Reads(moved, n, t, {})
    <3>1. SameNames(v, moved)
      BY <2>14, FrameNames
    <3>2. old = OutputPort(v, from) /\ new = OutputPort(v, to)
      BY DEF old, new
    <3>3. Replacing(v, moved, n, s, t, from, to, at, ends)
      BY <2>5, <2>7, <2>8, <2>9, <2>13, <3>2 DEF Replacing
    <3> QED
      BY <1>1, <2>2, <2>4, <3>1, <3>3, ReadsReplaced
  <2>16. BoundedBut(moved, {new})
    <3>1. \A p : GetFanout(moved, p) # {} /\ p # new => GetFanout(v, p) # {}
      <4> TAKE p
      <4> HAVE GetFanout(moved, p) # {} /\ p # new
      <4>1. PICK e : e \in GetFanout(moved, p)
        OBVIOUS
      <4> QED
        BY <4>1, <2>13
    <3> QED
      BY <3>1, <2>4, <2>13 DEF BoundedBut
  <2> DEFINE H == {}
             P == {new}
  <2>17. Editing(v, moved, n, t, H, P)
    BY <2>14, <2>15, <2>16 DEF Editing
  <2>0. P \ {new} = {}
    OBVIOUS
  <2> HIDE DEF P, H
  <2>18. Editing(v, w, n, t, H, P) /\ w.def[n].input = t /\ w.regular = moved.regular
    <3>1. 0 \in Nat
      OBVIOUS
    <3> QED
      BY <1>1, <2>9, <2>17, <3>1, EditSet
  <2> HIDE DEF w
  <2>19. Rebound(v, w, x, n, t, H, P)
    BY <1>1, <2>5, <2>18, EditBound
  <2> HIDE DEF x
  <2>20. Editing(v, x, n, t, H, P)
    BY <2>19 DEF Rebound
  <2>21. Rebound(v, x, z, n, t, H, P \ {new})
    BY <1>1, <2>5, <2>20, EditBound
  <2> HIDE DEF z
  <2>22. Editing(v, z, n, t, {}, {}) /\ z.def[n].input = t /\ z.regular[n] = k
    BY <2>0, <2>13, <2>18, <2>19, <2>21 DEF Rebound, k, H
  <2>23. InputsOk(v, n, t, k, {new[1]})
    <3>1. InputsOk(v, n, t, k, {} \cup {GetNode(v, to[1])})
      BY <2>2, <2>3, <2>7, <2>9, ReplacedOk
    <3>2. {} \cup {GetNode(v, to[1])} = {new[1]}
      BY <2>5
    <3> QED
      BY <3>1, <3>2
  <2>24. Settled(v, z, n, {}, {new[1]})
    BY <2>22, <2>23 DEF Settled
  <2>25. Good(DedupControl(z, n, new[1]), {})
    BY <2>5, <2>24, DedupGood
  <2> QED
    BY <2>6, <2>25
<1> QED
  BY <1>2, <1>3

-----------------------------------------------------------------------------
(* Inputs that move.                                                       *)

(* Two regular inputs change places.                                       *)
LEMMA SwapOk ==
  ASSUME NEW u, NEW n, NEW s \in Seq(AnyInput), NEW k \in Nat, NEW X,
         InputsOk(u, n, s, k, X), NEW p \in 1..k, NEW q \in 1..k
  PROVE  InputsOk(u, n, Swap(s, p, q), k, X)
<1> DEFINE t == Swap(s, p, q)
<1>1. k <= Len(s) /\ DOMAIN s = 1..Len(s) /\ Len(s) \in Nat
      /\ \A i \in DOMAIN s : (i <= k <=> s[i][2] # Control)
  BY DEF InputsOk, Sound
<1>2. p \in 1..Len(s) /\ q \in 1..Len(s) /\ p <= k /\ q <= k
  BY <1>1
<1>3. IsSwap(Swap(s, p, q), s, p, q, AnyInput)
  BY <1>2, SwapFacts
<1>4. /\ t \in Seq(AnyInput) /\ Len(t) = Len(s) /\ DOMAIN t = 1..Len(s)
      /\ \A m \in 1..Len(s) : t[m] = IF m = p THEN s[q] ELSE IF m = q THEN s[p] ELSE s[m]
  BY <1>3 DEF IsSwap
<1> HIDE DEF t
<1>5. Single(t)
  <2> SUFFICES ASSUME NEW i \in DOMAIN t, NEW j \in DOMAIN t,
                      t[i][2] = Control, t[j][2] = Control, t[i][1] = t[j][1]
               PROVE  i = j
    BY DEF Single
  <2>1. t[i] = s[i] /\ t[j] = s[j] /\ i \in DOMAIN s /\ j \in DOMAIN s
    BY <1>1, <1>2, <1>4
  <2> QED
    BY <2>1 DEF InputsOk, Single
<1>6. \A j \in DOMAIN t : j <= k <=> t[j][2] # Control
  BY <1>1, <1>2, <1>4
<1>7. \A j \in DOMAIN t : \E i \in DOMAIN s : t[j] = s[i]
  BY <1>1, <1>2, <1>4
<1>8. k <= Len(t)
  BY <1>1, <1>4
<1>9. InputsOk(u, n, t, k, X)
  BY <1>5, <1>6, <1>7, <1>8, InputsMoved
<1> QED
  BY <1>9 DEF t

(* The inputs of n at H, all of them x, are not in the fanouts; l, k of    *)
(* them regular, is how many inputs there are.                             *)
Holed(u, v, n, H, x, l, k, X) ==
  LET s == v.def[n].input
  IN  /\ Editing(u, v, n, s, H, {})
      /\ InputsOk(u, n, s, k, X)
      /\ Len(s) = l
      /\ H \in SUBSET (1..k) /\ k \in Nat
      /\ \A h \in H : s[h] = x

(* What that tells.                                                        *)
HoledFacts(u, v, n, H, x, l, k, X) ==
  LET s == v.def[n].input
  IN  /\ s \in Seq(AnyInput) /\ Len(s) = l /\ l \in Nat /\ k \in Nat /\ k <= l
      /\ DOMAIN s = 1..l
      /\ Editing(u, v, n, s, H, {}) /\ InputsOk(u, n, s, k, X)
      /\ H \in SUBSET (1..k) /\ \A h \in H : s[h] = x
      /\ \A i \in DOMAIN s : /\ s[i] \in AnyInput /\ HasNode(u, s[i][1])
                             /\ i <= k <=> s[i][2] # Control

(* What a node with free places holds.                                     *)
LEMMA HoledParts ==
  ASSUME NEW u, WellTyped(u), NEW n \in DOMAIN u.def, NEW v, NEW H, NEW x, NEW l, NEW k, NEW X,
         Holed(u, v, n, H, x, l, k, X)
  PROVE  HoledFacts(u, v, n, H, x, l, k, X)
<1> DEFINE s == v.def[n].input
<1>1. /\ Editing(u, v, n, s, H, {}) /\ InputsOk(u, n, s, k, X) /\ Len(s) = l
      /\ H \in SUBSET (1..k) /\ k \in Nat /\ \A h \in H : s[h] = x
  BY DEF Holed
<1>2. Frame(u, v, n)
  BY <1>1 DEF Editing
<1>3. v \in Views /\ n \in DOMAIN v.def
  BY <1>2, EditingParts
<1>4. s \in Seq(AnyInput)
  BY <1>3, ViewParts
<1>5. Sound(u, n, s, k)
  BY <1>1 DEF InputsOk
<1>6. k <= Len(s) /\ \A i \in DOMAIN s : HasNode(u, s[i][1]) /\ (i <= k <=> s[i][2] # Control)
  BY <1>5 DEF Sound
<1>7. Len(s) \in Nat /\ DOMAIN s = 1..Len(s) /\ \A i \in DOMAIN s : s[i] \in AnyInput
  BY <1>4
<1> QED
  BY <1>1, <1>4, <1>6, <1>7 DEF HoledFacts

(* An input moves to a free place and leaves its own.                      *)
LEMMA MoveInputFacts ==
  ASSUME NEW u, WellTyped(u), NEW n \in DOMAIN u.def, NEW v, NEW H, NEW x, NEW l, NEW k, NEW X,
         Holed(u, v, n, H, x, l, k, X), NEW j \in H, NEW i \in (1..k) \ H,
         NEW G, G = (H \cup {i}) \ {j}
  PROVE  /\ Holed(u, MoveInput(v, n, i, j), n, G, x, l, k, X)
         /\ MoveInput(v, n, i, j).regular = v.regular
<1> DEFINE s == v.def[n].input
           port == OutputPort(v, s[i])
           from == OutputPort(u, s[i])
           t == Swap(s, i, j)
           a == Unlink(v, from, <<n, i>>)
           b == Link(a, from, <<n, j>>)
           w == SetInput(b, n, t)
<1>0. MoveInput(v, n, i, j) = SetInput(Link(Unlink(v, port, <<n, i>>), port, <<n, j>>), n, t)
  BY DEF MoveInput
<1>1. /\ s \in Seq(AnyInput) /\ Len(s) = l /\ l \in Nat /\ k \in Nat /\ k <= l
      /\ DOMAIN s = 1..l
      /\ Editing(u, v, n, s, H, {}) /\ InputsOk(u, n, s, k, X)
      /\ H \in SUBSET (1..k) /\ \A h \in H : s[h] = x
      /\ \A m \in DOMAIN s : /\ s[m] \in AnyInput /\ HasNode(u, s[m][1])
                             /\ m <= k <=> s[m][2] # Control
  <2>1. HoledFacts(u, v, n, H, x, l, k, X)
    BY HoledParts
  <2> QED
    BY <2>1 DEF HoledFacts
<1>2. Frame(u, v, n) /\ BoundedBut(v, {}) /\ Reads(v, n, s, H)
  BY <1>1 DEF Editing
<1>3. u \in Views /\ n \in Ids /\ \A tt : OutputPort(v, tt) = OutputPort(u, tt)
  BY <1>2, EditingParts
<1>4. MoveInput(v, n, i, j) = w
  BY <1>0, <1>3
<1> HIDE DEF s
<1>5. i \in 1..k /\ j \in 1..k /\ i # j /\ i \in DOMAIN s \ H /\ j \in DOMAIN s
      /\ i \in 1..Len(s) /\ j \in 1..Len(s)
  BY <1>1
<1>6. /\ s[i][2] # Control /\ Slot(s[i], i) = i /\ HasNode(u, s[i][1])
      /\ s[j] = x
  BY <1>1, <1>5 DEF Slot
<1>7. from \in Ends
  BY <1>1, <1>3, <1>5, <1>6, InputFacts
<1>8. IsSwap(Swap(s, i, j), s, i, j, AnyInput)
  BY <1>1, <1>5, SwapFacts
<1>9. /\ t \in Seq(AnyInput) /\ Len(t) = Len(s) /\ DOMAIN t = 1..Len(s)
      /\ \A m \in 1..Len(s) : t[m] = IF m = i THEN s[j] ELSE IF m = j THEN s[i] ELSE s[m]
  BY <1>8 DEF IsSwap
<1>10. InputsOk(u, n, t, k, X)
  BY <1>1, <1>5, SwapOk
<1> HIDE DEF t, from
<1> DEFINE K == H \cup {i}
<1>11. Edited(u, v, a, n, s, K, {})
  <2>1. Alone(u, s, H, i)
    BY <1>1, <1>3, <1>5, <1>6, RegularAlone
  <2>2. Edited(u, v, Unlink(v, OutputPort(u, s[i]), <<n, Slot(s[i], i)>>), n, s, H \cup {i}, {})
    BY <1>1, <1>5, <1>6, <2>1, EditUnlink
  <2> QED
    BY <2>2, <1>6 DEF from
<1>12. a.def = v.def /\ a.regular = v.regular /\ a.max_out = v.max_out /\ Editing(u, a, n, s, K, {})
  BY <1>11 DEF Edited
<1> HIDE DEF a
<1>13. Editing(u, a, n, t, K, {})
  <2>1. \A m \in DOMAIN s \ K : m \in DOMAIN t \ K /\ t[m] = s[m]
    BY <1>1, <1>5, <1>9
  <2>2. \A m \in DOMAIN t \ K : m \in DOMAIN s \ K /\ t[m] = s[m]
    BY <1>1, <1>5, <1>9
  <2> HIDE DEF K
  <2>3. \A m \in DOMAIN s \ K : \E o \in DOMAIN t \ K :
           t[o] = s[m] /\ Slot(t[o], o) = Slot(s[m], m)
    BY <2>1
  <2>4. \A o \in DOMAIN t \ K : \E m \in DOMAIN s \ K :
           t[o] = s[m] /\ Slot(t[o], o) = Slot(s[m], m)
    BY <2>2
  <2> QED
    BY <1>12, <2>3, <2>4, EditMove
<1>14. K \ {j} = G
  OBVIOUS
<1>15. t[j] = s[i] /\ j \in DOMAIN t /\ Slot(t[j], j) = j /\ OutputPort(u, t[j]) = from
  BY <1>5, <1>6, <1>9 DEF Slot, from
<1> DEFINE P == {}
           Q == {from}
<1>16. Edited(u, a, b, n, t, G, Q)
  <2>1. Editing(u, a, n, t, K, P) /\ P \cup {from} = Q
    BY <1>13
  <2> HIDE DEF K, P, Q
  <2>2. LET y == OutputPort(u, t[j])
            z == Link(a, y, <<n, Slot(t[j], j)>>) IN
         Edited(u, a, z, n, t, K \ {j}, P \cup {y})
    BY <1>6, <1>9, <1>15, <2>1, EditLink
  <2> QED
    BY <1>14, <1>15, <2>1, <2>2
<1>17. b.def = a.def /\ b.regular = a.regular /\ b.max_out = a.max_out
       /\ Frame(u, b, n) /\ Reads(b, n, t, G) /\ BoundedBut(b, Q)
  BY <1>16 DEF Edited, Editing
<1> HIDE DEF b
<1>18. BoundedBut(b, {})
  <2> SUFFICES ASSUME NEW f \in Ids, NEW p \in Nat, GetFanout(b, <<f, p>>) # {}
               PROVE  f \in DOMAIN b.max_out /\ p <= b.max_out[f]
    BY DEF BoundedBut
  <2>1. CASE <<f, p>> = from
    <3>1. <<n, i>> \in GetFanout(v, from)
      <4>1. i \in Slots
        BY <1>5 DEF Slots
      <4> QED
        BY <1>2, <1>5, <1>6, <1>7, <1>3, <4>1 DEF Reads, from
    <3> QED
      BY <2>1, <3>1, <1>2, <1>12, <1>17 DEF BoundedBut
  <2>2. CASE <<f, p>> # from
    BY <2>2, <1>17 DEF BoundedBut
  <2> QED
    BY <2>1, <2>2
<1>19. Editing(u, b, n, t, G, P)
  BY <1>17, <1>18 DEF Editing
<1>20. Editing(u, w, n, t, G, P) /\ w.def[n].input = t /\ w.regular = b.regular
  <2> HIDE DEF P
  <2>1. 0 \in Nat
    OBVIOUS
  <2> QED
    BY <1>9, <1>19, <2>1, EditSet
<1> HIDE DEF w
<1>21. Holed(u, w, n, G, x, l, k, X)
  <2>1. ASSUME NEW h \in G PROVE t[h] = x
    <3>1. CASE h = i
      BY <3>1, <1>5, <1>6, <1>9
    <3>2. CASE h # i
      <4>1. h \in H /\ h # j /\ h \in 1..Len(s)
        BY <3>2, <1>1
      <4> QED
        BY <4>1, <3>2, <1>1, <1>9
    <3> QED
      BY <3>1, <3>2
  <2>2. G \in SUBSET (1..k)
    BY <1>1, <1>5
  <2> QED
    BY <2>1, <2>2, <1>1, <1>9, <1>10, <1>20 DEF Holed
<1> QED
  BY <1>4, <1>12, <1>17, <1>20, <1>21

-----------------------------------------------------------------------------
(* The free place of a node moves.                                         *)

(* A function holds what ShiftUp has after each move.                      *)
ShiftUpSteps(v, n, p, q, run) ==
  /\ run[0] = v
  /\ \A k \in 1..q - p : run[k] = MoveInput(run[k - 1], n, p + k, p + k - 1)
  /\ ShiftUp(v, n, p, q) = run[q - p]

(* Such a function there is.                                               *)
LEMMA ShiftUpLoop ==
  ASSUME NEW v, NEW n, NEW p \in Nat, NEW q \in Nat, p <= q
  PROVE  \E run : ShiftUpSteps(v, n, p, q, run)
<1> DEFINE L == q - p
           After(x, k) == MoveInput(x, n, p + k, p + k - 1)
           Loop(g, m) == g = [k \in 0..m |-> IF k = 0 THEN v ELSE After(g[k - 1], k)]
           P == {m \in 0..L : \E g : Loop(g, m)}
<1>0. L \in Nat
  OBVIOUS
<1>1. 0 \in P
  <2> DEFINE g == [k \in 0..0 |-> v]
  <2>1. Loop(g, 0)
    OBVIOUS
  <2> HIDE DEF g, Loop, L
  <2> QED
    BY <2>1, <1>0
<1>2. ASSUME NEW m \in 1..L, m - 1 \in P PROVE m \in P
  <2>1. PICK g : Loop(g, m - 1)
    BY <1>2
  <2> HIDE DEF After, L, P
  <2> DEFINE y == After(g[m - 1], m)
             h == [k \in 0..m |-> IF k = m THEN y ELSE g[k]]
  <2>0. m \in Nat /\ m # 0 /\ m - 1 \in 0..(m - 1)
    BY <1>0
  <2>2. h[m] = y /\ \A k \in 0..(m - 1) : h[k] = g[k]
    BY <2>0
  <2>3. \A k \in 0..(m - 1) : k # 0 => k - 1 \in 0..(m - 1)
    BY <2>0
  <2>4. \A k \in 0..m : k \in 0..(m - 1) \/ k = m
    BY <2>0
  <2>5. \A k \in 0..m : h[k] = IF k = 0 THEN v ELSE After(h[k - 1], k)
    <3> HIDE DEF h
    <3>1. \A k \in 0..(m - 1) : h[k] = IF k = 0 THEN v ELSE After(h[k - 1], k)
      BY <2>1, <2>2, <2>3
    <3>2. h[m] = After(h[m - 1], m)
      BY <2>0, <2>2
    <3> QED
      BY <2>0, <2>4, <3>1, <3>2
  <2>6. Loop(h, m)
    BY <2>5
  <2> HIDE DEF h, Loop
  <2> QED
    BY <2>6 DEF P
<1>3. L \in P
  <2> HIDE DEF P
  <2>1. P \in SUBSET (0..L)
    BY DEF P
  <2>2. P = 0..L
    <3> HIDE DEF L
    <3> QED
      BY <1>0, <1>1, <1>2, <2>1, Throughout
  <2> QED
    BY <1>0, <2>2
<1> DEFINE F == CHOOSE h : Loop(h, L)
<1>4. Loop(F, L)
  <2> HIDE DEF Loop
  <2>1. \E g : Loop(g, L)
    BY <1>3
  <2> HIDE DEF P
  <2> QED
    BY <2>1
<1>5. ShiftUp(v, n, p, q) = F[q - p]
  BY DEF ShiftUp
<1> HIDE DEF F
<1>6. \A k \in 0..q - p : F[k] = IF k = 0 THEN v ELSE MoveInput(F[k - 1], n, p + k, p + k - 1)
  BY <1>4
<1>7. \A k \in 1..q - p : k \in 0..q - p /\ k # 0
  BY <1>0
<1>8. 0 \in 0..q - p
  BY <1>0
<1>9. ShiftUpSteps(v, n, p, q, F)
  BY <1>5, <1>6, <1>7, <1>8 DEF ShiftUpSteps
<1> QED
  BY <1>9

(* A function holds what ShiftDown has after each move.                    *)
ShiftDownSteps(v, n, p, q, run) ==
  /\ run[0] = v
  /\ \A k \in 1..p - q : run[k] = MoveInput(run[k - 1], n, p - k, p - k + 1)
  /\ ShiftDown(v, n, p, q) = run[p - q]

(* Such a function there is.                                               *)
LEMMA ShiftDownLoop ==
  ASSUME NEW v, NEW n, NEW p \in Nat, NEW q \in Nat, q <= p
  PROVE  \E run : ShiftDownSteps(v, n, p, q, run)
<1> DEFINE L == p - q
           After(x, k) == MoveInput(x, n, p - k, p - k + 1)
           Loop(g, m) == g = [k \in 0..m |-> IF k = 0 THEN v ELSE After(g[k - 1], k)]
           P == {m \in 0..L : \E g : Loop(g, m)}
<1>0. L \in Nat
  OBVIOUS
<1>1. 0 \in P
  <2> DEFINE g == [k \in 0..0 |-> v]
  <2>1. Loop(g, 0)
    OBVIOUS
  <2> HIDE DEF g, Loop, L
  <2> QED
    BY <2>1, <1>0
<1>2. ASSUME NEW m \in 1..L, m - 1 \in P PROVE m \in P
  <2>1. PICK g : Loop(g, m - 1)
    BY <1>2
  <2> HIDE DEF After, L, P
  <2> DEFINE y == After(g[m - 1], m)
             h == [k \in 0..m |-> IF k = m THEN y ELSE g[k]]
  <2>0. m \in Nat /\ m # 0 /\ m - 1 \in 0..(m - 1)
    BY <1>0
  <2>2. h[m] = y /\ \A k \in 0..(m - 1) : h[k] = g[k]
    BY <2>0
  <2>3. \A k \in 0..(m - 1) : k # 0 => k - 1 \in 0..(m - 1)
    BY <2>0
  <2>4. \A k \in 0..m : k \in 0..(m - 1) \/ k = m
    BY <2>0
  <2>5. \A k \in 0..m : h[k] = IF k = 0 THEN v ELSE After(h[k - 1], k)
    <3> HIDE DEF h
    <3>1. \A k \in 0..(m - 1) : h[k] = IF k = 0 THEN v ELSE After(h[k - 1], k)
      BY <2>1, <2>2, <2>3
    <3>2. h[m] = After(h[m - 1], m)
      BY <2>0, <2>2
    <3> QED
      BY <2>0, <2>4, <3>1, <3>2
  <2>6. Loop(h, m)
    BY <2>5
  <2> HIDE DEF h, Loop
  <2> QED
    BY <2>6 DEF P
<1>3. L \in P
  <2> HIDE DEF P
  <2>1. P \in SUBSET (0..L)
    BY DEF P
  <2>2. P = 0..L
    <3> HIDE DEF L
    <3> QED
      BY <1>0, <1>1, <1>2, <2>1, Throughout
  <2> QED
    BY <1>0, <2>2
<1> DEFINE F == CHOOSE h : Loop(h, L)
<1>4. Loop(F, L)
  <2> HIDE DEF Loop
  <2>1. \E g : Loop(g, L)
    BY <1>3
  <2> HIDE DEF P
  <2> QED
    BY <2>1
<1>5. ShiftDown(v, n, p, q) = F[p - q]
  BY DEF ShiftDown
<1> HIDE DEF F
<1>6. \A k \in 0..p - q : F[k] = IF k = 0 THEN v ELSE MoveInput(F[k - 1], n, p - k, p - k + 1)
  BY <1>4
<1>7. \A k \in 1..p - q : k \in 0..p - q /\ k # 0
  BY <1>0
<1>8. 0 \in 0..p - q
  BY <1>0
<1>9. ShiftDownSteps(v, n, p, q, F)
  BY <1>5, <1>6, <1>7, <1>8 DEF ShiftDownSteps
<1> QED
  BY <1>9

(* A place among the inputs is free: at p of n.                            *)
Free(u, v, n, p, x, l, k, X) == Holed(u, v, n, {p}, x, l, k, X)

(* One step of the free place.                                             *)
LEMMA MoveFree ==
  ASSUME NEW u, WellTyped(u), NEW n \in DOMAIN u.def, NEW v, NEW p, NEW x, NEW l, NEW k, NEW X,
         Free(u, v, n, p, x, l, k, X), NEW q \in 1..k, q # p
  PROVE  /\ Free(u, MoveInput(v, n, q, p), n, q, x, l, k, X)
         /\ MoveInput(v, n, q, p).regular = v.regular
<1> DEFINE H == {p}
           G == {q}
<1>1. Holed(u, v, n, H, x, l, k, X)
  BY DEF Free
<1>2. p \in H /\ q \in (1..k) \ H /\ G = (H \cup {q}) \ {p}
  OBVIOUS
<1> HIDE DEF H, G
<1>3. Holed(u, MoveInput(v, n, q, p), n, G, x, l, k, X) /\ MoveInput(v, n, q, p).regular = v.regular
  BY <1>1, <1>2, MoveInputFacts
<1> QED
  BY <1>3 DEF Free, G

(* The free place goes up to q,                                            *)
LEMMA ShiftUpFacts ==
  ASSUME NEW u, WellTyped(u), NEW n \in DOMAIN u.def, NEW v, NEW p \in Nat, NEW x, NEW l,
         NEW k \in Nat, NEW X, Free(u, v, n, p, x, l, k, X), NEW q \in p..k
  PROVE  /\ Free(u, ShiftUp(v, n, p, q), n, q, x, l, k, X)
         /\ ShiftUp(v, n, p, q).regular = v.regular
<1> DEFINE L == q - p
           Inv(w, d) == Free(u, w, n, p + d, x, l, k, X) /\ w.regular = v.regular
<1>0. p \in Nat /\ q \in Nat /\ p <= q
  OBVIOUS
<1>1. PICK f : ShiftUpSteps(v, n, p, q, f)
  BY <1>0, ShiftUpLoop
<1>2. f[0] = v /\ (\A d \in 1..L : f[d] = MoveInput(f[d - 1], n, p + d, p + d - 1))
      /\ ShiftUp(v, n, p, q) = f[L]
  BY <1>1 DEF ShiftUpSteps
<1>3. L \in Nat /\ p + L = q /\ p + 0 = p
  OBVIOUS
<1> DEFINE P == {d \in 0..L : Inv(f[d], d)}
<1>4. 0 \in P
  BY <1>2, <1>3
<1>5. ASSUME NEW d \in 1..L, d - 1 \in P PROVE d \in P
  <2>1. Free(u, f[d - 1], n, p + (d - 1), x, l, k, X) /\ f[d - 1].regular = v.regular
    BY <1>5
  <2>2. p + (d - 1) = p + d - 1 /\ p + d # p + d - 1 /\ p + d \in 1..k
    BY <1>3
  <2> HIDE DEF L
  <2>3. /\ Free(u, MoveInput(f[d - 1], n, p + d, p + d - 1), n, p + d, x, l, k, X)
        /\ MoveInput(f[d - 1], n, p + d, p + d - 1).regular = f[d - 1].regular
    <3> DEFINE a == p + d - 1
               b == p + d
    <3>1. Free(u, f[d - 1], n, a, x, l, k, X) /\ b \in 1..k /\ b # a
      BY <2>1, <2>2
    <3> HIDE DEF a, b
    <3>2. /\ Free(u, MoveInput(f[d - 1], n, b, a), n, b, x, l, k, X)
          /\ MoveInput(f[d - 1], n, b, a).regular = f[d - 1].regular
      BY <3>1, MoveFree
    <3> QED
      BY <3>2 DEF a, b
  <2> QED
    BY <2>1, <2>3, <1>2, <1>3
<1> HIDE DEF P, L
<1>6. P = 0..L
  <2>1. P \in SUBSET (0..L)
    BY DEF P
  <2> QED
    BY <1>3, <1>4, <1>5, <2>1, Throughout
<1>7. L \in P
  BY <1>3, <1>6
<1> QED
  BY <1>2, <1>3, <1>7 DEF P

(* or down to q.                                                           *)
LEMMA ShiftDownFacts ==
  ASSUME NEW u, WellTyped(u), NEW n \in DOMAIN u.def, NEW v, NEW p, NEW x, NEW l,
         NEW k \in Nat, NEW X, p \in 1..k, Free(u, v, n, p, x, l, k, X), NEW q \in 1..p
  PROVE  /\ Free(u, ShiftDown(v, n, p, q), n, q, x, l, k, X)
         /\ ShiftDown(v, n, p, q).regular = v.regular
<1> DEFINE L == p - q
           Inv(w, d) == Free(u, w, n, p - d, x, l, k, X) /\ w.regular = v.regular
<1>0. p \in Nat /\ q \in Nat /\ q <= p
  OBVIOUS
<1>1. PICK f : ShiftDownSteps(v, n, p, q, f)
  BY <1>0, ShiftDownLoop
<1>2. f[0] = v /\ (\A d \in 1..L : f[d] = MoveInput(f[d - 1], n, p - d, p - d + 1))
      /\ ShiftDown(v, n, p, q) = f[L]
  BY <1>1 DEF ShiftDownSteps
<1>3. L \in Nat /\ p - L = q /\ p - 0 = p
  OBVIOUS
<1> DEFINE P == {d \in 0..L : Inv(f[d], d)}
<1>4. 0 \in P
  BY <1>2, <1>3
<1>5. ASSUME NEW d \in 1..L, d - 1 \in P PROVE d \in P
  <2>1. Free(u, f[d - 1], n, p - (d - 1), x, l, k, X) /\ f[d - 1].regular = v.regular
    BY <1>5
  <2>2. p - (d - 1) = p - d + 1 /\ p - d # p - d + 1 /\ p - d \in 1..k
    BY <1>3
  <2> HIDE DEF L
  <2>3. /\ Free(u, MoveInput(f[d - 1], n, p - d, p - d + 1), n, p - d, x, l, k, X)
        /\ MoveInput(f[d - 1], n, p - d, p - d + 1).regular = f[d - 1].regular
    <3> DEFINE a == p - d + 1
               b == p - d
    <3>1. Free(u, f[d - 1], n, a, x, l, k, X) /\ b \in 1..k /\ b # a
      BY <2>1, <2>2
    <3> HIDE DEF a, b
    <3>2. /\ Free(u, MoveInput(f[d - 1], n, b, a), n, b, x, l, k, X)
          /\ MoveInput(f[d - 1], n, b, a).regular = f[d - 1].regular
      BY <3>1, MoveFree
    <3> QED
      BY <3>2 DEF a, b
  <2> QED
    BY <2>1, <2>3, <1>2, <1>3
<1> HIDE DEF P, L
<1>6. P = 0..L
  <2>1. P \in SUBSET (0..L)
    BY DEF P
  <2> QED
    BY <1>3, <1>4, <1>5, <2>1, Throughout
<1>7. L \in P
  BY <1>3, <1>6
<1> QED
  BY <1>2, <1>3, <1>7 DEF P

-----------------------------------------------------------------------------
(* Regular inputs that come and go at a position.                          *)

(* AddRegularFaninByPort.                                                  *)
LEMMA InsertRegularFacts ==
  ASSUME NEW v, Good(v, {}), NEW n \in DOMAIN v.def, NEW p \in 1..v.regular[n] + 1,
         NEW x, MayRead(v, n, x)
  PROVE  Good(InsertRegularFanin(v, n, p, x), {})
<1> DEFINE s == v.def[n].input
           k == v.regular[n]
           m == k + 1
           l == Len(s) + 1
           t == WithRegular(s, k, x)
           f == GetNode(v, x[1])
           set == SetInput(v, n, t)
           moved == ShiftDown(set, n, m, p)
           port == OutputPort(v, x)
           read == UpdateMaxRegularOutputPortForAddedFanin(Link(moved, port, <<n, p>>), port)
           z == SetInputs(read, n, read.def[n].input, m)
<1>1. WellTyped(v) /\ Settled(v, v, n, {}, {}) /\ v \in Views /\ n \in Ids
  BY SettledStart, ViewParts DEF Good, WellTyped
<1>2. Editing(v, v, n, s, {}, {}) /\ InputsOk(v, n, s, k, {})
  BY <1>1 DEF Settled
<1>3. s \in Seq(AnyInput) /\ k \in Nat /\ k <= Len(s) /\ Len(s) \in Nat
  BY <1>1, SettledParts
<1>4. InsertRegularFanin(v, n, p, x) = DedupControl(z, n, f)
  BY DEF InsertRegularFanin, WithRegular, OutputPort
<1>5. port[1] = f /\ HasNode(v, x[1]) /\ x \in AnyInput /\ x[2] # Control /\ f \in DOMAIN v.def
  BY <1>1, NodeFound DEF OutputPort, MayRead
<1>6. m \in Nat /\ m \in 1..m /\ p \in 1..m /\ l \in Nat /\ p \in Nat
  BY <1>3
<1> HIDE DEF s, k, z
<1>7. InputsOk(v, n, t, m, {f})
  <2>1. InputsOk(v, n, t, m, {} \cup {f})
    BY <1>2, <1>3, WithRegularOk
  <2>2. {} \cup {f} = {f}
    OBVIOUS
  <2> QED
    BY <2>1, <2>2
<1>8. t \in Seq(AnyInput) /\ Len(t) = l /\ t[m] = x
  BY <1>3, <1>5, WithRegularFacts
<1>9. Editing(v, v, n, t, {m}, {})
  BY <1>2, <1>3, WithRegularReads
<1> HIDE DEF t, f, port
<1> DEFINE H == {m}
           X == {f}
<1>10. Editing(v, set, n, t, H, {}) /\ set.def[n].input = t /\ set.regular = v.regular
  <2>1. Editing(v, v, n, t, H, {})
    BY <1>9
  <2> HIDE DEF H
  <2> QED
    BY <1>1, <1>6, <1>8, <2>1, EditSet
<1> HIDE DEF set, l
<1>11. Free(v, set, n, m, x, l, m, X)
  <2>1. H \in SUBSET (1..m) /\ \A h \in H : t[h] = x
    BY <1>6, <1>8
  <2>2. Holed(v, set, n, H, x, l, m, X)
    BY <2>1, <1>6, <1>7, <1>8, <1>10 DEF Holed
  <2> QED
    BY <2>2 DEF Free
<1> HIDE DEF m, X
<1>12. Free(v, moved, n, p, x, l, m, X) /\ moved.regular = set.regular
  BY <1>1, <1>6, <1>11, ShiftDownFacts
<1> HIDE DEF moved
<1> DEFINE G == {p}
           r == moved.def[n].input
<1>13. HoledFacts(v, moved, n, G, x, l, m, X)
  <2>1. Holed(v, moved, n, G, x, l, m, X)
    BY <1>12 DEF Free
  <2> HIDE DEF G
  <2> QED
    BY <1>1, <2>1, HoledParts
<1>14. /\ r \in Seq(AnyInput) /\ p \in DOMAIN r /\ r[p] = x
       /\ Editing(v, moved, n, r, G, {}) /\ InputsOk(v, n, r, m, X)
  <2>1. /\ r \in Seq(AnyInput) /\ DOMAIN r = 1..l /\ l \in Nat /\ m <= l
        /\ Editing(v, moved, n, r, G, {}) /\ InputsOk(v, n, r, m, X)
        /\ \A h \in G : r[h] = x
    BY <1>13 DEF HoledFacts
  <2>2. p \in 1..l
    BY <2>1, <1>6
  <2> QED
    BY <2>1, <2>2
<1>15. Rebound(v, moved, read, n, r, {}, {})
  <2>1. Slot(r[p], p) = p /\ OutputPort(v, r[p]) = port /\ HasNode(v, r[p][1]) /\ G \ {p} = {}
    BY <1>5, <1>14 DEF Slot, port
  <2> HIDE DEF r, G
  <2>2. LET o == OutputPort(v, r[p])
            y == Link(moved, o, <<n, Slot(r[p], p)>>)
            w == UpdateMaxRegularOutputPortForAddedFanin(y, o) IN
         Rebound(v, moved, w, n, r, G \ {p}, {})
    BY <1>1, <1>14, <2>1, EditEnter
  <2> QED
    BY <2>1, <2>2
<1>16. read.def[n].input = r /\ Editing(v, read, n, r, {}, {})
  BY <1>15 DEF Rebound
<1>17. Editing(v, z, n, r, {}, {}) /\ z.def[n].input = r /\ z.regular[n] = m
  <2> HIDE DEF r, read
  <2>1. z = SetInputs(read, n, r, m)
    BY <1>16 DEF z
  <2> QED
    BY <1>1, <1>6, <1>14, <1>16, <2>1, EditSet
<1>18. Settled(v, z, n, {}, {f})
  BY <1>14, <1>17 DEF Settled, X
<1>19. Good(DedupControl(z, n, f), {})
  BY <1>5, <1>18, DedupGood
<1> QED
  BY <1>4, <1>19 DEF z

(* The last regular input goes, and the last of all takes its place.       *)
LEMMA CutLastOk ==
  ASSUME NEW u, NEW n, NEW s \in Seq(AnyInput), NEW k \in 1..Len(s), NEW X,
         InputsOk(u, n, s, k, X)
  PROVE  /\ InputsOk(u, n, SwapOut(s, k), k - 1, X)
         /\ \A v, H, P : H = {k} /\ Editing(u, v, n, s, H, P) =>
              Editing(u, v, n, SwapOut(s, k), {}, P)
<1> DEFINE t == SwapOut(s, k)
<1>1. DOMAIN s = 1..Len(s) /\ Len(s) \in Nat /\ k \in Nat
      /\ \A i \in DOMAIN s : (i <= k <=> s[i][2] # Control)
  BY DEF InputsOk, Sound
<1>2. /\ t \in Seq(AnyInput) /\ Len(t) = Len(s) - 1 /\ DOMAIN t = 1..Len(s) - 1
      /\ \A j \in 1..Len(s) - 1 : t[j] = IF j = k THEN s[Len(s)] ELSE s[j]
  BY SwapOutFacts
<1> HIDE DEF t
<1> DEFINE pi == [j \in DOMAIN t |-> IF j = k THEN Len(s) ELSE j]
<1>3. \A j \in DOMAIN t : pi[j] \in DOMAIN s \ {k} /\ t[j] = s[pi[j]]
  <2> TAKE j \in DOMAIN t
  <2>1. j \in 1..Len(s) - 1 /\ t[j] = IF j = k THEN s[Len(s)] ELSE s[j]
    BY <1>2
  <2>2. CASE j = k
    <3>1. pi[j] = Len(s)
      BY <2>2
    <3>2. Len(s) \in 1..Len(s) /\ Len(s) # k
      <4>1. k >= 1 /\ k <= Len(s) - 1
        BY <2>1, <2>2, <1>1
      <4>2. Len(s) \in Nat /\ k \in Nat
        BY <1>1
      <4>3. Len(s) >= 1 /\ Len(s) # k
        BY <4>1, <4>2
      <4> QED
        BY <4>2, <4>3
    <3> HIDE DEF pi
    <3> QED
      BY <3>1, <3>2, <2>1, <2>2, <1>1
  <2>3. CASE j # k
    <3>1. pi[j] = j
      BY <2>3
    <3>2. j \in 1..Len(s)
      BY <2>1, <1>1
    <3> HIDE DEF pi
    <3> QED
      BY <3>1, <3>2, <2>1, <2>3, <1>1
  <2> QED
    BY <2>2, <2>3
<1>4. \A i, j \in DOMAIN t : pi[i] = pi[j] => i = j
  BY <1>1, <1>2
<1>5. Single(t)
  <2> HIDE DEF pi
  <2>1. Single(s)
    BY DEF InputsOk
  <2> QED
    BY <1>3, <1>4, <2>1, SingleKept
<1>6. k - 1 \in Nat /\ k - 1 <= Len(t)
  BY <1>1, <1>2
<1>7. \A j \in DOMAIN t : j <= k - 1 <=> t[j][2] # Control
  BY <1>1, <1>2
<1>8. InputsOk(u, n, t, k - 1, X)
  <2>1. \A j \in DOMAIN t : \E i \in DOMAIN s : t[j] = s[i]
    BY <1>3
  <2> QED
    BY <1>5, <1>6, <1>7, <2>1, InputsMoved
<1>9. ASSUME NEW v, NEW H, NEW P, H = {k}, Editing(u, v, n, s, H, P)
      PROVE  Editing(u, v, n, t, {}, P)
  <2>1. \A i \in DOMAIN s \ H : \E j \in DOMAIN t \ {} :
           t[j] = s[i] /\ Slot(t[j], j) = Slot(s[i], i)
    <3> TAKE i \in DOMAIN s \ H
    <3>1. i # k /\ i \in DOMAIN s
      BY <1>9
    <3>2. CASE i = Len(s)
      <4>1. k \in DOMAIN t /\ t[k] = s[i] /\ s[i][2] = Control
        BY <3>1, <3>2, <1>1, <1>2
      <4> QED
        BY <4>1 DEF Slot
    <3>3. CASE i # Len(s)
      <4>1. i \in DOMAIN t /\ t[i] = s[i]
        BY <3>1, <3>3, <1>1, <1>2
      <4> QED
        BY <4>1
    <3> QED
      BY <3>2, <3>3
  <2>2. \A j \in DOMAIN t \ {} : \E i \in DOMAIN s \ H :
           t[j] = s[i] /\ Slot(t[j], j) = Slot(s[i], i)
    <3> TAKE j \in DOMAIN t \ {}
    <3>1. pi[j] \in DOMAIN s \ H /\ t[j] = s[pi[j]]
      BY <1>3, <1>9
    <3>2. pi[j] = j \/ (j = k /\ s[pi[j]][2] = Control)
      <4>1. j \in 1..Len(s) - 1
        BY <1>2
      <4>2. CASE j = k
        <5>1. pi[j] = Len(s)
          BY <4>2
        <5>2. Len(s) \in DOMAIN s /\ ~(Len(s) <= k)
          BY <4>1, <4>2, <1>1
        <5> HIDE DEF pi
        <5> QED
          BY <5>1, <5>2, <4>2, <1>1
      <4>3. CASE j # k
        BY <4>3
      <4> QED
        BY <4>2, <4>3
    <3>3. Slot(t[j], j) = Slot(s[pi[j]], pi[j])
      BY <3>1, <3>2 DEF Slot
    <3> QED
      BY <3>1, <3>3
  <2> DEFINE G == {}
  <2> HIDE DEF G
  <2>3. Editing(u, v, n, t, G, P)
    <3>1. G = {}
      BY DEF G
    <3> QED
      BY <3>1, <1>9, <2>1, <2>2, EditMove
  <2> QED
    BY <2>3 DEF G
<1> QED
  BY <1>8, <1>9 DEF t

(* RemoveRegularFaninByPort.                                               *)
LEMMA RemoveRegularAtFacts ==
  ASSUME NEW v, Good(v, {}), NEW n \in DOMAIN v.def, NEW p \in 1..v.regular[n]
  PROVE  Good(RemoveRegularFaninAt(v, n, p), {})
<1> DEFINE s == v.def[n].input
           k == v.regular[n]
           l == Len(s)
           from == OutputPort(v, s[p])
           a == Unlink(v, from, <<n, p>>)
           moved == ShiftUp(a, n, p, k)
           r == moved.def[n].input
           z == SetInputs(moved, n, SwapOut(r, k), k - 1)
           X == {}
<1>1. WellTyped(v) /\ Settled(v, v, n, {}, {}) /\ v \in Views /\ n \in Ids
  BY SettledStart, ViewParts DEF Good, WellTyped
<1>2. Editing(v, v, n, s, {}, {}) /\ InputsOk(v, n, s, k, X)
  BY <1>1 DEF Settled
<1>3. /\ s \in Seq(AnyInput) /\ k \in Nat /\ k <= Len(s) /\ Len(s) \in Nat
      /\ \A i \in DOMAIN s : i \in 1..Len(s) /\ HasNode(v, s[i][1]) /\ (i <= k <=> s[i][2] # Control)
  BY <1>1, SettledParts
<1>4. RemoveRegularFaninAt(v, n, p) = z
  BY DEF RemoveRegularFaninAt
<1>5. p \in 1..k
  OBVIOUS
<1> HIDE DEF s, k, z
<1>6. /\ p \in DOMAIN s /\ s[p][2] # Control /\ HasNode(v, s[p][1]) /\ Slot(s[p], p) = p /\ p \in Nat
      /\ k \in 1..l /\ k \in p..k /\ k \in 1..k /\ p <= k
  BY <1>3, <1>5 DEF Slot
<1> DEFINE G == {p}
<1>7. Edited(v, v, a, n, s, G, {})
  <2> DEFINE H == {}
  <2>1. p \in DOMAIN s \ H /\ Editing(v, v, n, s, H, {}) /\ H \cup {p} = G
    BY <1>2, <1>6
  <2> HIDE DEF H, G
  <2>2. Alone(v, s, H, p)
    BY <1>1, <1>3, <1>6, RegularAlone
  <2>3. Edited(v, v, Unlink(v, OutputPort(v, s[p]), <<n, Slot(s[p], p)>>), n, s, H \cup {p}, {})
    BY <1>1, <1>3, <1>6, <2>1, <2>2, EditUnlink
  <2> QED
    BY <2>1, <2>3, <1>6
<1> HIDE DEF a
<1>8. a.def = v.def /\ a.regular = v.regular /\ Editing(v, a, n, s, G, {})
  BY <1>7 DEF Edited
<1> DEFINE x == s[p]
<1>9. Free(v, a, n, p, x, l, k, X)
  <2>1. G \in SUBSET (1..k) /\ \A h \in G : s[h] = x
    BY <1>5
  <2>2. a.def[n].input = s
    BY <1>8 DEF s
  <2>3. Holed(v, a, n, G, x, l, k, X)
    BY <1>2, <1>3, <1>8, <2>1, <2>2 DEF Holed
  <2> QED
    BY <2>3 DEF Free
<1> HIDE DEF x, X, l
<1>10. Free(v, moved, n, k, x, l, k, X) /\ moved.regular = a.regular
  <2> DEFINE q == k
             y == ShiftUp(a, n, p, q)
  <2>1. q \in p..k /\ q = k /\ moved = y
    BY <1>6
  <2>2. WellTyped(v) /\ n \in DOMAIN v.def /\ p \in Nat /\ k \in Nat
    BY <1>1, <1>3, <1>6
  <2> HIDE DEF q, moved, G
  <2>3. /\ Free(v, ShiftUp(a, n, p, q), n, q, x, l, k, X)
        /\ ShiftUp(a, n, p, q).regular = a.regular
    BY <1>9, <2>1, <2>2, ShiftUpFacts
  <2>4. Free(v, y, n, q, x, l, k, X) /\ y.regular = a.regular
    BY <2>3
  <2> QED
    BY <2>1, <2>4
<1> HIDE DEF moved
<1> DEFINE H == {k}
<1>11. HoledFacts(v, moved, n, H, x, l, k, X)
  <2>1. Holed(v, moved, n, H, x, l, k, X)
    BY <1>10 DEF Free
  <2> HIDE DEF H
  <2> QED
    BY <1>1, <2>1, HoledParts
<1>12. /\ r \in Seq(AnyInput) /\ Len(r) = l
       /\ Editing(v, moved, n, r, H, {}) /\ InputsOk(v, n, r, k, X)
  BY <1>11 DEF HoledFacts
<1> DEFINE t == SwapOut(r, k)
<1> HIDE DEF r
<1>13. k \in 1..Len(r)
  BY <1>6, <1>12
<1>14. InputsOk(v, n, t, k - 1, X) /\ Editing(v, moved, n, t, {}, {})
  BY <1>12, <1>13, CutLastOk
<1>15. t \in Seq(AnyInput) /\ k - 1 \in Nat
  BY <1>12, <1>13, <1>6, SwapOutFacts
<1>16. z = SetInputs(moved, n, t, k - 1)
  BY DEF z, r
<1> DEFINE m == k - 1
<1> HIDE DEF t, m
<1>17. Editing(v, z, n, t, {}, {}) /\ z.def[n].input = t /\ z.regular[n] = m
  <2>1. m \in Nat /\ z = SetInputs(moved, n, t, m)
    BY <1>15, <1>16 DEF m
  <2> QED
    BY <1>1, <1>14, <1>15, <2>1, EditSet
<1>18. Settled(v, z, n, {}, {})
  BY <1>14, <1>17 DEF Settled, X, m
<1>19. Good(z, {})
  BY <1>18, SettledGood
<1> QED
  BY <1>4, <1>19

-----------------------------------------------------------------------------
(* Every input of a node from one port goes.                               *)

(* A sequence without what is between positions a and k.                   *)
CutOut(s, a, k) == SubSeq(s, 1, a) \o SubSeq(s, k + 1, Len(s))

(* t is s without what is after a and up to k.                             *)
IsCutOut(t, s, a, k, T) ==
  /\ t \in Seq(T) /\ Len(t) = a + (Len(s) - k) /\ DOMAIN t = 1..a + (Len(s) - k)
  /\ \A j \in DOMAIN t : t[j] = IF j <= a THEN s[j] ELSE s[j - a + k]

(* A gap in a sequence is closed.                                          *)
LEMMA CutOutFacts ==
  ASSUME NEW T, NEW s \in Seq(T), NEW k \in 0..Len(s), NEW a \in 0..k
  PROVE  IsCutOut(CutOut(s, a, k), s, a, k, T)
<1> DEFINE x == SubSeq(s, 1, a)
           y == SubSeq(s, k + 1, Len(s))
           t == x \o y
<1>1. Len(s) \in Nat /\ k \in Nat /\ a \in Nat /\ a <= k /\ k <= Len(s)
      /\ \A i \in 1..Len(s) : s[i] \in T
  OBVIOUS
<1>2. x \in Seq(T) /\ Len(x) = a /\ \A j \in 1..a : x[j] = s[j]
  <2>1. \A i \in 1..a : s[i] \in T
    BY <1>1
  <2>2. x = [j \in 1..a |-> s[j]]
    BY <1>1
  <2> HIDE DEF x
  <2>3. x \in [1..a -> T]
    BY <2>1, <2>2
  <2>4. x \in Seq(T) /\ Len(x) = a
    BY <1>1, <2>3
  <2> QED
    BY <2>2, <2>4
<1>3. y \in Seq(T) /\ Len(y) = Len(s) - k /\ \A j \in 1..Len(s) - k : y[j] = s[j + k]
  <2> DEFINE b == Len(s) - k
  <2>1. b \in Nat /\ \A i \in 1..b : i + k \in 1..Len(s)
    BY <1>1
  <2>2. y = [j \in 1..b |-> s[j + k]]
    <3>1. Len(s) - (k + 1) + 1 = b
      BY <1>1
    <3>2. \A j \in 1..b : k + 1 + j - 1 = j + k
      BY <1>1
    <3>3. y = [j \in 1..Len(s) - (k + 1) + 1 |-> s[k + 1 + j - 1]]
      BY <1>1, <2>1
    <3> HIDE DEF y, b
    <3> QED
      BY <3>1, <3>2, <3>3
  <2>3. \A i \in 1..b : s[i + k] \in T
    BY <1>1, <2>1
  <2> HIDE DEF y, b
  <2>4. y \in [1..b -> T] /\ \A j \in 1..b : y[j] = s[j + k]
    BY <2>2, <2>3
  <2>5. y \in Seq(T) /\ Len(y) = b
    BY <2>1, <2>4
  <2> QED
    BY <2>4, <2>5 DEF b
<1> HIDE DEF x, y
<1>0. x \in Seq(T) /\ y \in Seq(T)
  BY <1>2, <1>3
<1>5. /\ t \in Seq(T) /\ Len(t) = Len(x) + Len(y)
      /\ \A j \in 1..Len(x) + Len(y) : t[j] = IF j <= Len(x) THEN x[j] ELSE y[j - Len(x)]
  BY <1>0, ConcatProperties
<1>4. t \in Seq(T) /\ Len(t) = a + (Len(s) - k)
  <2> HIDE DEF t
  <2> QED
    BY <1>1, <1>2, <1>3, <1>5
<1> HIDE DEF t
<1>6. ASSUME NEW j \in 1..a + (Len(s) - k) PROVE t[j] = IF j <= a THEN s[j] ELSE s[j - a + k]
  <2>1. t[j] = IF j <= a THEN x[j] ELSE y[j - a]
    BY <1>1, <1>2, <1>3, <1>5
  <2>2. CASE j <= a
    <3>1. j \in 1..a
      BY <1>1, <2>2
    <3> QED
      BY <2>1, <2>2, <3>1, <1>2
  <2>3. CASE ~(j <= a)
    <3>1. j - a \in 1..Len(s) - k
      BY <1>1, <2>3
    <3>2. y[j - a] = s[j - a + k]
      BY <3>1, <1>3
    <3> QED
      BY <2>1, <2>3, <3>2
  <2> QED
    BY <2>2, <2>3
<1>7. DOMAIN t = 1..a + (Len(s) - k)
  BY <1>4
<1> QED
  BY <1>4, <1>6, <1>7 DEF IsCutOut, CutOut, t, x, y

(* Regular inputs from a + 1 to k go, none of which is in the fanouts.     *)
LEMMA CutOutOk ==
  ASSUME NEW u, NEW n, NEW s \in Seq(AnyInput), NEW k \in Nat, NEW X,
         InputsOk(u, n, s, k, X), NEW a \in 0..k,
         NEW H, \A h : h \in H <=> h \in a + 1..k
  PROVE  /\ InputsOk(u, n, CutOut(s, a, k), a, X)
         /\ \A v, P : Editing(u, v, n, s, H, P) =>
              Editing(u, v, n, CutOut(s, a, k), {}, P)
<1> DEFINE t == CutOut(s, a, k)
           l == Len(s)
<1>1. DOMAIN s = 1..l /\ l \in Nat /\ a \in Nat /\ a <= k /\ k <= l
      /\ \A i \in DOMAIN s : (i <= k <=> s[i][2] # Control)
  BY DEF InputsOk, Sound
<1>2. /\ t \in Seq(AnyInput) /\ Len(t) = a + (l - k) /\ DOMAIN t = 1..a + (l - k)
      /\ \A j \in DOMAIN t : t[j] = IF j <= a THEN s[j] ELSE s[j - a + k]
  <2>1. k \in 0..Len(s)
    BY <1>1
  <2>2. IsCutOut(CutOut(s, a, k), s, a, k, AnyInput)
    BY <2>1, CutOutFacts
  <2> QED
    BY <2>2 DEF IsCutOut
<1> HIDE DEF t, l
<1> DEFINE pi == [j \in DOMAIN t |-> IF j <= a THEN j ELSE j - a + k]
<1>3. \A j \in DOMAIN t : /\ pi[j] \in 1..l /\ t[j] = s[pi[j]]
                          /\ j <= a => pi[j] = j
                          /\ ~(j <= a) => pi[j] = j - a + k /\ pi[j] > k
                          /\ j \in Nat
  <2> TAKE j \in DOMAIN t
  <2>1. j \in 1..a + (l - k) /\ j \in Nat
    BY <1>1, <1>2
  <2>2. CASE j <= a
    <3>1. pi[j] = j
      BY <2>2
    <3>2. j \in 1..l
      BY <2>1, <2>2, <1>1
    <3> HIDE DEF pi
    <3> QED
      BY <3>1, <3>2, <2>1, <2>2, <1>2
  <2>3. CASE ~(j <= a)
    <3>1. pi[j] = j - a + k
      BY <2>3
    <3>2. j - a + k \in 1..l /\ j - a + k > k
      BY <2>1, <2>3, <1>1
    <3> HIDE DEF pi
    <3> QED
      BY <3>1, <3>2, <2>1, <2>3, <1>2
  <2> QED
    BY <2>2, <2>3
<1> HIDE DEF pi
<1>4. \A i, j \in DOMAIN t : pi[i] = pi[j] => i = j
  <2> TAKE i, j \in DOMAIN t
  <2> HAVE pi[i] = pi[j]
  <2>1. /\ pi[i] \in 1..l /\ i \in Nat /\ pi[j] \in 1..l /\ j \in Nat
        /\ i <= a => pi[i] = i
        /\ ~(i <= a) => pi[i] = i - a + k /\ pi[i] > k
        /\ j <= a => pi[j] = j
        /\ ~(j <= a) => pi[j] = j - a + k /\ pi[j] > k
    BY <1>3
  <2> QED
    BY <2>1, <1>1
<1>5. Single(t)
  <2>1. Single(s)
    BY DEF InputsOk
  <2>2. \A j \in DOMAIN t : t[j][2] = Control => pi[j] \in DOMAIN s /\ t[j] = s[pi[j]]
    BY <1>1, <1>3
  <2> QED
    BY <1>4, <2>1, <2>2, SingleKept
<1>6. a <= Len(t)
  BY <1>1, <1>2
<1>7. \A j \in DOMAIN t : j <= a <=> t[j][2] # Control
  <2> TAKE j \in DOMAIN t
  <2>1. /\ pi[j] \in 1..l /\ t[j] = s[pi[j]] /\ j \in Nat
        /\ j <= a => pi[j] = j
        /\ ~(j <= a) => pi[j] > k
    BY <1>3
  <2>2. pi[j] <= k <=> s[pi[j]][2] # Control
    BY <2>1, <1>1
  <2> QED
    BY <2>1, <2>2, <1>1
<1>8. InputsOk(u, n, t, a, X)
  <2>1. \A j \in DOMAIN t : \E i \in DOMAIN s : t[j] = s[i]
    BY <1>1, <1>3
  <2> QED
    BY <1>1, <1>5, <1>6, <1>7, <2>1, InputsMoved
<1>9. ASSUME NEW v, NEW P, Editing(u, v, n, s, H, P)
      PROVE  Editing(u, v, n, t, {}, P)
  <2>1. \A i \in DOMAIN s \ H : \E j \in DOMAIN t \ {} :
           t[j] = s[i] /\ Slot(t[j], j) = Slot(s[i], i)
    <3> TAKE i \in DOMAIN s \ H
    <3>1. i \in 1..l /\ i \in Nat /\ (i <= a \/ i > k)
      BY <1>1
    <3>2. CASE i <= a
      <4>1. i \in DOMAIN t /\ t[i] = s[i]
        BY <3>1, <3>2, <1>1, <1>2
      <4> QED
        BY <4>1
    <3>3. CASE i > k
      <4> DEFINE j == i - k + a
      <4>1. j \in 1..a + (l - k) /\ ~(j <= a) /\ j - a + k = i
        BY <3>1, <3>3, <1>1
      <4> HIDE DEF j
      <4>2. j \in DOMAIN t /\ t[j] = s[i]
        BY <4>1, <1>2
      <4>3. s[i][2] = Control
        BY <3>1, <3>3, <1>1
      <4> QED
        BY <4>2, <4>3 DEF Slot
    <3> QED
      BY <3>1, <3>2, <3>3
  <2>2. \A j \in DOMAIN t \ {} : \E i \in DOMAIN s \ H :
           t[j] = s[i] /\ Slot(t[j], j) = Slot(s[i], i)
    <3> TAKE j \in DOMAIN t \ {}
    <3>1. /\ pi[j] \in 1..l /\ t[j] = s[pi[j]] /\ j \in Nat
          /\ j <= a => pi[j] = j
          /\ ~(j <= a) => pi[j] > k
      BY <1>3
    <3>2. pi[j] \in DOMAIN s \ H
      BY <3>1, <1>1
    <3>3. pi[j] = j \/ t[j][2] = Control
      BY <3>1, <1>7
    <3>4. Slot(t[j], j) = Slot(s[pi[j]], pi[j])
      BY <3>1, <3>3 DEF Slot
    <3> QED
      BY <3>1, <3>2, <3>4
  <2> DEFINE G == {}
  <2> HIDE DEF G
  <2>3. Editing(u, v, n, t, G, P)
    <3>1. G = {}
      BY DEF G
    <3> QED
      BY <3>1, <1>9, <2>1, <2>2, EditMove
  <2> QED
    BY <2>3 DEF G
<1> QED
  BY <1>8, <1>9 DEF t

(* A function holds what RemoveRegularFaninInternal has after each input.  *)
RemoveRegularFaninInternalSteps(v, n, fanin, run) ==
  /\ run[0] = [view |-> v, pos |-> 1]
  /\ \A k \in 1..v.regular[n] : run[k] = VisitRegularFanin(run[k - 1], n, fanin, k)
  /\ RemoveRegularFaninInternal(v, n, fanin) = SetInputs(run[v.regular[n]].view, n, SubSeq(run[v.regular[n]].view.def[n].input, 1, run[v.regular[n]].pos - 1) \o
        SubSeq(run[v.regular[n]].view.def[n].input, v.regular[n] + 1, Len(run[v.regular[n]].view.def[n].input)), run[v.regular[n]].pos - 1)

(* Such a function there is.                                               *)
LEMMA RemoveRegularFaninInternalLoop ==
  ASSUME NEW v, NEW n, NEW fanin, v.regular[n] \in Nat
  PROVE  \E run : RemoveRegularFaninInternalSteps(v, n, fanin, run)
<1> DEFINE L == v.regular[n]
           After(x, k) == VisitRegularFanin(x, n, fanin, k)
           Loop(g, m) == g = [k \in 0..m |-> IF k = 0 THEN [view |-> v, pos |-> 1] ELSE After(g[k - 1], k)]
           P == {m \in 0..L : \E g : Loop(g, m)}
<1>0. L \in Nat
  OBVIOUS
<1>1. 0 \in P
  <2> DEFINE g == [k \in 0..0 |-> [view |-> v, pos |-> 1]]
  <2>1. Loop(g, 0)
    OBVIOUS
  <2> HIDE DEF g, Loop, L
  <2> QED
    BY <2>1, <1>0
<1>2. ASSUME NEW m \in 1..L, m - 1 \in P PROVE m \in P
  <2>1. PICK g : Loop(g, m - 1)
    BY <1>2
  <2> HIDE DEF After, L, P
  <2> DEFINE y == After(g[m - 1], m)
             h == [k \in 0..m |-> IF k = m THEN y ELSE g[k]]
  <2>0. m \in Nat /\ m # 0 /\ m - 1 \in 0..(m - 1)
    BY <1>0
  <2>2. h[m] = y /\ \A k \in 0..(m - 1) : h[k] = g[k]
    BY <2>0
  <2>3. \A k \in 0..(m - 1) : k # 0 => k - 1 \in 0..(m - 1)
    BY <2>0
  <2>4. \A k \in 0..m : k \in 0..(m - 1) \/ k = m
    BY <2>0
  <2>5. \A k \in 0..m : h[k] = IF k = 0 THEN [view |-> v, pos |-> 1] ELSE After(h[k - 1], k)
    <3> HIDE DEF h
    <3>1. \A k \in 0..(m - 1) : h[k] = IF k = 0 THEN [view |-> v, pos |-> 1] ELSE After(h[k - 1], k)
      BY <2>1, <2>2, <2>3
    <3>2. h[m] = After(h[m - 1], m)
      BY <2>0, <2>2
    <3> QED
      BY <2>0, <2>4, <3>1, <3>2
  <2>6. Loop(h, m)
    BY <2>5
  <2> HIDE DEF h, Loop
  <2> QED
    BY <2>6 DEF P
<1>3. L \in P
  <2> HIDE DEF P
  <2>1. P \in SUBSET (0..L)
    BY DEF P
  <2>2. P = 0..L
    <3> HIDE DEF L
    <3> QED
      BY <1>0, <1>1, <1>2, <2>1, Throughout
  <2> QED
    BY <1>0, <2>2
<1> DEFINE F == CHOOSE h : Loop(h, L)
<1>4. Loop(F, L)
  <2> HIDE DEF Loop
  <2>1. \E g : Loop(g, L)
    BY <1>3
  <2> HIDE DEF P
  <2> QED
    BY <2>1
<1>5. RemoveRegularFaninInternal(v, n, fanin) = SetInputs(F[v.regular[n]].view, n, SubSeq(F[v.regular[n]].view.def[n].input, 1, F[v.regular[n]].pos - 1) \o
        SubSeq(F[v.regular[n]].view.def[n].input, v.regular[n] + 1, Len(F[v.regular[n]].view.def[n].input)), F[v.regular[n]].pos - 1)
  BY DEF RemoveRegularFaninInternal
<1> HIDE DEF F
<1>6. \A k \in 0..v.regular[n] : F[k] = IF k = 0 THEN [view |-> v, pos |-> 1] ELSE VisitRegularFanin(F[k - 1], n, fanin, k)
  BY <1>4
<1>7. \A k \in 1..v.regular[n] : k \in 0..v.regular[n] /\ k # 0
  BY <1>0
<1>8. 0 \in 0..v.regular[n]
  BY <1>0
<1>9. RemoveRegularFaninInternalSteps(v, n, fanin, F)
  BY <1>5, <1>6, <1>7, <1>8 DEF RemoveRegularFaninInternalSteps
<1> QED
  BY <1>9

-----------------------------------------------------------------------------
(* The inputs of n up to i that are x are behind the others, from s.pos    *)
(* on, and out of the fanouts.                                             *)
Cleared(u, s, n, x, l, k, X, i) ==
  /\ s.pos \in 1..i + 1
  /\ Holed(u, s.view, n, s.pos..i, x, l, k, X)
  /\ s.view.regular = u.regular

(* One input is looked at.                                                 *)
LEMMA VisitRegularFacts ==
  ASSUME NEW u, WellTyped(u), NEW n \in DOMAIN u.def, NEW f \in DOMAIN u.def, NEW p \in Ports,
         NEW s, NEW l, NEW k \in Nat, NEW X, NEW i \in 1..k,
         Cleared(u, s, n, <<u.def[f].name, p>>, l, k, X, i - 1)
  PROVE  Cleared(u, VisitRegularFanin(s, n, <<f, p>>, i), n, <<u.def[f].name, p>>, l, k, X, i)
<1> DEFINE x == <<u.def[f].name, p>>
           fanin == <<f, p>>
           v == s.view
           r == v.def[n].input
           H == s.pos..(i - 1)
           w == UpdateMaxRegularOutputPortForRemovedFanin(Unlink(v, fanin, <<n, i>>), fanin)
           z == VisitRegularFanin(s, n, fanin, i)
<1>1. /\ s.pos \in 1..i /\ i \in Nat /\ s.pos \in Nat
      /\ Holed(u, v, n, H, x, l, k, X) /\ v.regular = u.regular
  BY DEF Cleared
<1>2. HoledFacts(u, v, n, H, x, l, k, X)
  <2> HIDE DEF H, v, x
  <2> QED
    BY <1>1, HoledParts
<1>3. /\ r \in Seq(AnyInput) /\ Len(r) = l /\ l \in Nat /\ k \in Nat /\ k <= l
      /\ DOMAIN r = 1..l
      /\ Editing(u, v, n, r, H, {}) /\ InputsOk(u, n, r, k, X)
      /\ H \in SUBSET (1..k) /\ \A h \in H : r[h] = x
      /\ \A m \in DOMAIN r : /\ r[m] \in AnyInput /\ HasNode(u, r[m][1])
                             /\ m <= k <=> r[m][2] # Control
  BY <1>2 DEF HoledFacts
<1>4. Frame(u, v, n)
  BY <1>3 DEF Editing
<1>5. u \in Views /\ v.def[f].name = u.def[f].name /\ p \in AnyPort
  BY <1>4, EditingParts DEF AnyPort
<1>6. OutputPort(u, x) = fanin /\ HasNode(u, x[1])
  BY <1>5, InputOfPort DEF WellTyped
<1>7. i \in DOMAIN r \ H /\ i \in (1..k) \ H /\ Slot(r[i], i) = i /\ r[i][2] # Control
      /\ HasNode(u, r[i][1])
  <2>1. i \notin H
    BY <1>1
  <2> HIDE DEF H, v, r, x
  <2>2. DOMAIN r = 1..l /\ l \in Nat /\ k <= l
    BY <1>3, Zenon
  <2>3. \A m \in DOMAIN r : HasNode(u, r[m][1]) /\ (m <= k <=> r[m][2] # Control)
    BY <1>3, Zenon
  <2>4. i \in DOMAIN r /\ i \in 1..k /\ i <= k
    BY <2>2
  <2>5. HasNode(u, r[i][1]) /\ r[i][2] # Control
    BY <2>3, <2>4
  <2> QED
    BY <2>1, <2>4, <2>5 DEF Slot
<1> HIDE DEF v
<1>8. CASE r[i] = x
  <2> DEFINE G == s.pos..i
  <2>1. z = [view |-> w, pos |-> s.pos]
    BY <1>5, <1>8 DEF VisitRegularFanin, v
  <2>2. G = H \cup {i}
    BY <1>1
  <2>3. Rebound(u, v, w, n, r, G, {})
    <3> HIDE DEF r, H, G
    <3>1. Alone(u, r, H, i)
      BY <1>3, <1>5, <1>7, RegularAlone
    <3>2. LET port == OutputPort(u, r[i])
              y == Unlink(v, port, <<n, Slot(r[i], i)>>)
              o == UpdateMaxRegularOutputPortForRemovedFanin(y, port) IN
           Rebound(u, v, o, n, r, H \cup {i}, {})
      BY <1>3, <1>7, <3>1, EditLeave
    <3>3. OutputPort(u, r[i]) = fanin /\ Slot(r[i], i) = i
      BY <1>6, <1>7, <1>8
    <3> QED
      BY <2>2, <3>2, <3>3
  <2> HIDE DEF w, x
  <2>4. /\ Editing(u, w, n, r, G, {}) /\ w.def[n].input = r /\ w.regular = u.regular
    BY <1>1, <2>3 DEF Rebound
  <2>5. G \in SUBSET (1..k) /\ \A h \in G : r[h] = x
    <3>1. \A h \in G : h \in H \/ h = i
      BY <2>2
    <3> HIDE DEF G, H, r
    <3> QED
      BY <1>3, <1>7, <1>8, <3>1
  <2>6. Holed(u, w, n, G, x, l, k, X)
    <3> HIDE DEF G
    <3> QED
      BY <1>3, <2>4, <2>5 DEF Holed
  <2>7. s.pos \in 1..i + 1
    BY <1>1
  <2>8. z.view = w /\ z.pos = s.pos
    BY <2>1
  <2> HIDE DEF z
  <2> QED
    BY <2>4, <2>6, <2>7, <2>8 DEF Cleared, z, x
<1>9. CASE r[i] # x
  <2> DEFINE G == (s.pos + 1)..i
             o == IF s.pos = i THEN v ELSE MoveInput(v, n, i, s.pos)
  <2>1. z = [view |-> o, pos |-> s.pos + 1]
    BY <1>5, <1>9 DEF VisitRegularFanin, v
  <2>2. Holed(u, o, n, G, x, l, k, X) /\ o.regular = u.regular
    <3>1. CASE s.pos = i
      <4>1. G = H
        BY <3>1, <1>1
      <4>2. o = v
        BY <3>1
      <4> QED
        BY <4>1, <4>2, <1>1
    <3>2. CASE s.pos # i
      <4>1. s.pos \in H /\ G = (H \cup {i}) \ {s.pos}
        BY <3>2, <1>1
      <4>2. o = MoveInput(v, n, i, s.pos)
        BY <3>2
      <4> DEFINE j == s.pos
      <4> HIDE DEF H, G, j, o, x
      <4>3. j \in H /\ i \in (1..k) \ H /\ G = (H \cup {i}) \ {j}
        BY <4>1, <1>7 DEF j
      <4>4. /\ Holed(u, MoveInput(v, n, i, j), n, G, x, l, k, X)
            /\ MoveInput(v, n, i, j).regular = v.regular
        BY <1>1, <4>3, MoveInputFacts
      <4> QED
        BY <4>2, <4>4, <1>1 DEF j
    <3> QED
      BY <3>1, <3>2
  <2>3. s.pos + 1 \in 1..i + 1
    BY <1>1
  <2>4. z.view = o /\ z.pos = s.pos + 1
    BY <2>1
  <2> HIDE DEF z, o
  <2> QED
    BY <2>2, <2>3, <2>4 DEF Cleared, z
<1> QED
  BY <1>8, <1>9

(* RemoveRegularFaninInternal.                                             *)
LEMMA RemoveRegularFacts ==
  ASSUME NEW v, Good(v, {}), NEW n \in DOMAIN v.def, NEW f \in DOMAIN v.def, NEW p \in Ports
  PROVE  /\ Good(RemoveRegularFaninInternal(v, n, <<f, p>>), {})
         /\ Frame(v, RemoveRegularFaninInternal(v, n, <<f, p>>), n)
<1> DEFINE s == v.def[n].input
           k == v.regular[n]
           l == Len(s)
           fanin == <<f, p>>
           x == <<v.def[f].name, p>>
           X == {}
           z == RemoveRegularFaninInternal(v, n, fanin)
           Inv(y, i) == Cleared(v, y, n, x, l, k, X, i)
<1>1. WellTyped(v) /\ Settled(v, v, n, {}, {}) /\ v \in Views /\ n \in Ids
  BY SettledStart, ViewParts DEF Good, WellTyped
<1>2. Editing(v, v, n, s, {}, {}) /\ InputsOk(v, n, s, k, X)
  BY <1>1 DEF Settled
<1>3. s \in Seq(AnyInput) /\ k \in Nat /\ k <= Len(s) /\ l \in Nat
  BY <1>1, SettledParts
<1>4. PICK g : RemoveRegularFaninInternalSteps(v, n, fanin, g)
  BY <1>3, RemoveRegularFaninInternalLoop
<1> DEFINE e == g[k]
           m == e.pos - 1
           r == e.view.def[n].input
           t == CutOut(r, m, k)
<1>5. /\ g[0] = [view |-> v, pos |-> 1]
      /\ \A i \in 1..k : g[i] = VisitRegularFanin(g[i - 1], n, fanin, i)
      /\ z = SetInputs(e.view, n, t, m)
  BY <1>4 DEF RemoveRegularFaninInternalSteps, CutOut
<1> HIDE DEF z
<1> DEFINE P == {i \in 0..k : Inv(g[i], i)}
<1>6. 0 \in P
  <2>1. 1 \in 1..0 + 1 /\ 1..0 = {}
    OBVIOUS
  <2>2. Holed(v, v, n, 1..0, x, l, k, X)
    <3> DEFINE H == 1..0
    <3>1. H = {}
      OBVIOUS
    <3> HIDE DEF H
    <3>2. Editing(v, v, n, s, H, {}) /\ H \in SUBSET (1..k) /\ \A h \in H : s[h] = x
      BY <1>2, <3>1
    <3>3. Holed(v, v, n, H, x, l, k, X)
      BY <1>2, <1>3, <3>2 DEF Holed
    <3> QED
      BY <3>3 DEF H
  <2>3. g[0].view = v /\ g[0].pos = 1
    BY <1>5
  <2>4. Inv(g[0], 0)
    BY <2>1, <2>2, <2>3 DEF Cleared
  <2> QED
    BY <1>3, <2>4
<1>7. ASSUME NEW i \in 1..k, i - 1 \in P PROVE i \in P
  <2>1. Inv(g[i - 1], i - 1)
    BY <1>7
  <2> HIDE DEF l, X, k
  <2>2. Cleared(v, VisitRegularFanin(g[i - 1], n, fanin, i), n, x, l, k, X, i)
    BY <1>1, <1>3, <2>1, VisitRegularFacts
  <2> QED
    BY <1>3, <1>5, <2>2
<1> HIDE DEF P, k, x, l, X
<1>8. k \in P
  <2>1. P \in SUBSET (0..k)
    BY DEF P
  <2>2. P = 0..k
    BY <1>3, <1>6, <1>7, <2>1, Throughout
  <2> QED
    BY <1>3, <2>2
<1>9. Cleared(v, e, n, x, l, k, X, k)
  BY <1>8 DEF P
<1> DEFINE H == e.pos..k
           w == e.view
<1>10. e.pos \in 1..k + 1 /\ Holed(v, w, n, H, x, l, k, X) /\ w.regular = v.regular
  BY <1>9 DEF Cleared
<1>11. HoledFacts(v, w, n, H, x, l, k, X)
  <2> HIDE DEF H, w
  <2> QED
    BY <1>1, <1>10, HoledParts
<1>12. /\ r \in Seq(AnyInput) /\ Len(r) = l /\ k <= l
       /\ Editing(v, w, n, r, H, {}) /\ InputsOk(v, n, r, k, X)
  BY <1>11 DEF HoledFacts
<1>13. m \in 0..k /\ \A h : h \in H <=> h \in m + 1..k
  BY <1>3, <1>10
<1> HIDE DEF r, m, H, w
<1>14. InputsOk(v, n, t, m, X) /\ Editing(v, w, n, t, {}, {})
  BY <1>3, <1>12, <1>13, CutOutOk
<1>15. t \in Seq(AnyInput) /\ m \in Nat
  <2>1. k \in 0..Len(r) /\ m \in Nat
    BY <1>3, <1>12, <1>13
  <2>2. IsCutOut(CutOut(r, m, k), r, m, k, AnyInput)
    BY <1>12, <1>13, <2>1, CutOutFacts
  <2> QED
    BY <2>1, <2>2 DEF IsCutOut
<1>16. z = SetInputs(w, n, t, m)
  BY <1>5 DEF w, m, r
<1> HIDE DEF t
<1>17. Editing(v, z, n, t, {}, {}) /\ z.def[n].input = t /\ z.regular[n] = m
  BY <1>1, <1>14, <1>15, <1>16, EditSet
<1>18. Settled(v, z, n, {}, {})
  BY <1>14, <1>17 DEF Settled, X
<1>19. Good(z, {})
  BY <1>18, SettledGood
<1>20. Frame(v, z, n)
  BY <1>17 DEF Editing
<1> QED
  BY <1>19, <1>20 DEF z

-----------------------------------------------------------------------------
(* Controls that are redundant.                                            *)

(* w differs from v in inputs and fanouts only.                            *)
SameNodes(v, w) ==
  /\ DOMAIN w.def = DOMAIN v.def
  /\ \A m \in DOMAIN v.def : w.def[m].name = v.def[m].name /\ w.def[m].op = v.def[m].op

(* The same nodes are found by the same names.                             *)
LEMMA SameNodesFacts ==
  ASSUME NEW v, NEW w, SameNodes(v, w)
  PROVE  /\ SameNames(v, w)
         /\ \A name : GetNode(w, name) = GetNode(v, name) /\ (HasNode(w, name) <=> HasNode(v, name))
         /\ \A t : OutputPort(w, t) = OutputPort(v, t)
<1>1. SameNames(v, w)
  BY DEF SameNodes, SameNames
<1> QED
  BY <1>1, SameNode, SamePort

(* Edits of a node keep names and ops.                                     *)
LEMMA FrameNodes ==
  ASSUME NEW v, NEW w, NEW n, Frame(v, w, n)
  PROVE  SameNodes(v, w)
  BY DEF Frame, SameNodes

(* Controls on f are gone, from the nodes in D at least.                   *)
Waning(v, w, X, f, D) ==
  /\ Good(w, X)
  /\ SameNodes(v, w) /\ w.regular = v.regular /\ w.max_out = v.max_out
  /\ \A p, to : to \in GetFanout(w, p) => to \in GetFanout(v, p)
  /\ \A n \in D : NodeOk(w, n, X \ {f})

(* A function holds what RemoveControllingFanins has after each node.      *)
RemoveControllingFaninsSteps(v, C, f, run) ==
  /\ run[0] = v
  /\ \A k \in 1..MaxNodes : run[k] = IF k \in C THEN RemoveControllingFaninInternal(run[k - 1], k, f) ELSE run[k - 1]
  /\ RemoveControllingFanins(v, C, f) = run[MaxNodes]

(* Such a function there is.                                               *)
LEMMA RemoveControllingFaninsLoop ==
  ASSUME NEW v, NEW C, NEW f
  PROVE  \E run : RemoveControllingFaninsSteps(v, C, f, run)
<1> DEFINE L == MaxNodes
           After(x, k) == IF k \in C THEN RemoveControllingFaninInternal(x, k, f) ELSE x
           Loop(g, m) == g = [k \in 0..m |-> IF k = 0 THEN v ELSE After(g[k - 1], k)]
           P == {m \in 0..L : \E g : Loop(g, m)}
<1>0. L \in Nat
  BY BoundsAssumption
<1>1. 0 \in P
  <2> DEFINE g == [k \in 0..0 |-> v]
  <2>1. Loop(g, 0)
    OBVIOUS
  <2> HIDE DEF g, Loop, L
  <2> QED
    BY <2>1, <1>0
<1>2. ASSUME NEW m \in 1..L, m - 1 \in P PROVE m \in P
  <2>1. PICK g : Loop(g, m - 1)
    BY <1>2
  <2> HIDE DEF After, L, P
  <2> DEFINE y == After(g[m - 1], m)
             h == [k \in 0..m |-> IF k = m THEN y ELSE g[k]]
  <2>0. m \in Nat /\ m # 0 /\ m - 1 \in 0..(m - 1)
    BY <1>0
  <2>2. h[m] = y /\ \A k \in 0..(m - 1) : h[k] = g[k]
    BY <2>0
  <2>3. \A k \in 0..(m - 1) : k # 0 => k - 1 \in 0..(m - 1)
    BY <2>0
  <2>4. \A k \in 0..m : k \in 0..(m - 1) \/ k = m
    BY <2>0
  <2>5. \A k \in 0..m : h[k] = IF k = 0 THEN v ELSE After(h[k - 1], k)
    <3> HIDE DEF h
    <3>1. \A k \in 0..(m - 1) : h[k] = IF k = 0 THEN v ELSE After(h[k - 1], k)
      BY <2>1, <2>2, <2>3
    <3>2. h[m] = After(h[m - 1], m)
      BY <2>0, <2>2
    <3> QED
      BY <2>0, <2>4, <3>1, <3>2
  <2>6. Loop(h, m)
    BY <2>5
  <2> HIDE DEF h, Loop
  <2> QED
    BY <2>6 DEF P
<1>3. L \in P
  <2> HIDE DEF P
  <2>1. P \in SUBSET (0..L)
    BY DEF P
  <2>2. P = 0..L
    <3> HIDE DEF L
    <3> QED
      BY <1>0, <1>1, <1>2, <2>1, Throughout
  <2> QED
    BY <1>0, <2>2
<1> DEFINE F == CHOOSE h : Loop(h, L)
<1>4. Loop(F, L)
  <2> HIDE DEF Loop
  <2>1. \E g : Loop(g, L)
    BY <1>3
  <2> HIDE DEF P
  <2> QED
    BY <2>1
<1>5. RemoveControllingFanins(v, C, f) = F[MaxNodes]
  BY DEF RemoveControllingFanins
<1> HIDE DEF F
<1>6. \A k \in 0..MaxNodes : F[k] = IF k = 0 THEN v ELSE IF k \in C THEN RemoveControllingFaninInternal(F[k - 1], k, f) ELSE F[k - 1]
  BY <1>4
<1>7. \A k \in 1..MaxNodes : k \in 0..MaxNodes /\ k # 0
  BY <1>0
<1>8. 0 \in 0..MaxNodes
  BY <1>0
<1>9. RemoveControllingFaninsSteps(v, C, f, F)
  BY <1>5, <1>6, <1>7, <1>8 DEF RemoveControllingFaninsSteps
<1> QED
  BY <1>9

(* One more node waits no more.                                            *)
LEMMA WaneStep ==
  ASSUME NEW v, NEW w, NEW X, NEW f \in DOMAIN v.def, NEW D \in SUBSET (DOMAIN v.def),
         Waning(v, w, X, f, D), NEW n \in DOMAIN v.def, NEW E, E = D \cup {n}
  PROVE  Waning(v, RemoveControllingFaninInternal(w, n, f), X, f, E)
<1> DEFINE z == RemoveControllingFaninInternal(w, n, f)
           Y == X \ {f}
<1>1. /\ Good(w, X) /\ SameNodes(v, w) /\ w.regular = v.regular /\ w.max_out = v.max_out
      /\ \A p, to : to \in GetFanout(w, p) => to \in GetFanout(v, p)
      /\ \A m \in D : NodeOk(w, m, Y)
  BY DEF Waning
<1>2. n \in DOMAIN w.def /\ f \in DOMAIN w.def /\ DOMAIN w.def = DOMAIN v.def /\ w \in Views
  BY <1>1 DEF SameNodes, Good, WellTyped
<1>3. /\ Good(z, X) /\ Frame(w, z, n) /\ z.regular = w.regular /\ z.max_out = w.max_out
      /\ NodeOk(z, n, X \ {f})
      /\ \A p, to : to \in GetFanout(z, p) => to \in GetFanout(w, p)
  BY <1>1, <1>2, RemoveControllingGood
<1> HIDE DEF z, Y
<1>4. \A m \in E : NodeOk(z, m, Y)
  <2> TAKE m \in E
  <2>1. CASE m = n
    BY <2>1, <1>3 DEF Y
  <2>2. CASE m # n
    <3>1. m \in D /\ m \in DOMAIN w.def \ {n}
      BY <2>2, <1>2
    <3> QED
      BY <3>1, <1>1, <1>2, <1>3, FrameNode
  <2> QED
    BY <2>1, <2>2
<1>5. SameNodes(v, z)
  BY <1>1, <1>3 DEF SameNodes, Frame
<1> QED
  BY <1>1, <1>3, <1>4, <1>5 DEF Waning, z, Y

(* RemoveControllingFanins.                                                *)
LEMMA RemoveControllingFaninsFacts ==
  ASSUME NEW v, NEW X, Good(v, X), NEW f \in DOMAIN v.def, NEW C \in SUBSET (DOMAIN v.def),
         NEW D \in SUBSET (DOMAIN v.def), Waning(v, v, X, f, D)
  PROVE  Waning(v, RemoveControllingFanins(v, C, f), X, f, D \cup C)
<1> DEFINE Inv(w, i) == Waning(v, w, X, f, D \cup {n \in C : n <= i})
<1>1. PICK g : RemoveControllingFaninsSteps(v, C, f, g)
  BY RemoveControllingFaninsLoop
<1>2. /\ g[0] = v
      /\ \A i \in 1..MaxNodes : g[i] = IF i \in C THEN RemoveControllingFaninInternal(g[i - 1], i, f)
                                       ELSE g[i - 1]
      /\ RemoveControllingFanins(v, C, f) = g[MaxNodes]
  BY <1>1 DEF RemoveControllingFaninsSteps
<1>3. MaxNodes \in Nat /\ \A n \in C : n \in 1..MaxNodes
  <2>1. v \in Views
    BY DEF Good, WellTyped
  <2> QED
    BY <2>1, BoundsAssumption, ViewParts DEF Ids
<1> DEFINE P == {i \in 0..MaxNodes : Inv(g[i], i)}
<1>4. 0 \in P
  <2>1. {n \in C : n <= 0} = {}
    BY <1>3
  <2>2. D \cup {n \in C : n <= 0} = D
    BY <2>1
  <2>3. Inv(g[0], 0)
    BY <1>2, <2>2
  <2> HIDE DEF Inv
  <2> QED
    BY <1>3, <2>3
<1>5. ASSUME NEW i \in 1..MaxNodes, i - 1 \in P PROVE i \in P
  <2> DEFINE A == D \cup {n \in C : n <= i - 1}
             B == D \cup {n \in C : n <= i}
  <2>1. Waning(v, g[i - 1], X, f, A)
    BY <1>5
  <2>2. i \in 0..MaxNodes
    BY <1>3
  <2>3. CASE i \in C
    <3>1. B = A \cup {i} /\ A \in SUBSET (DOMAIN v.def) /\ i \in DOMAIN v.def
      BY <1>3, <2>3
    <3> HIDE DEF A, B
    <3>2. Waning(v, RemoveControllingFaninInternal(g[i - 1], i, f), X, f, B)
      BY <2>1, <3>1, WaneStep
    <3> QED
      BY <1>2, <2>2, <2>3, <3>2 DEF B
  <2>4. CASE i \notin C
    <3>1. B = A
      BY <1>3, <2>4
    <3>2. Waning(v, g[i - 1], X, f, B)
      BY <2>1, <3>1
    <3> QED
      BY <1>2, <2>2, <2>4, <3>2
  <2> QED
    BY <2>3, <2>4
<1> HIDE DEF P
<1>6. MaxNodes \in P
  <2>1. P \in SUBSET (0..MaxNodes)
    BY DEF P
  <2>2. P = 0..MaxNodes
    BY <1>3, <1>4, <1>5, <2>1, Throughout
  <2> QED
    BY <1>3, <2>2
<1>7. {n \in C : n <= MaxNodes} = C
  BY <1>3
<1> QED
  BY <1>2, <1>6, <1>7 DEF P

(* Who is not exempt need not be.                                          *)
LEMMA LessExempt ==
  ASSUME NEW v, NEW X, Good(v, X), NEW f, \A n \in DOMAIN v.def : NodeOk(v, n, X \ {f})
  PROVE  Good(v, X \ {f})
  BY DEF Good

(* DedupControlFanouts: no node waits for f that reads it.                 *)
LEMMA DedupControlFanoutsFacts ==
  ASSUME NEW v, NEW X, Good(v, X), NEW f \in DOMAIN v.def
  PROVE  LET w == DedupControlFanouts(v, f) IN
         /\ Good(w, X \ {f})
         /\ SameNodes(v, w) /\ w.regular = v.regular /\ w.max_out = v.max_out
         /\ \A p, to : to \in GetFanout(w, p) => to \in GetFanout(v, p)
<1> DEFINE w == DedupControlFanouts(v, f)
           Y == X \ {f}
           C == {n \in DOMAIN v.def : /\ <<n, Control>> \in GetFanout(v, <<f, Control>>)
                                      /\ HasRegularFaninNode(v, n, v.def[f].name)}
           D == DOMAIN v.def \ C
<1>0. /\ WellTyped(v) /\ v \in Views /\ UniqueNames(v)
      /\ \A n \in DOMAIN v.def : NodeOk(v, n, X)
  BY DEF Good, WellTyped
<1>1. SameNodes(v, v)
  BY DEF SameNodes
<1>2. CASE ~CanDedupControlWithRegularInput(v, f)
  <2>1. w = v /\ IsIdentity(v, f)
    BY <1>2 DEF DedupControlFanouts, CanDedupControlWithRegularInput, IsIdentityConsumingSwitch
  <2> HIDE DEF w
  <2>2. ASSUME NEW n \in DOMAIN v.def PROVE NodeOk(v, n, Y)
    <3>1. NodeOk(v, n, X)
      BY <1>0
    <3> QED
      BY <2>1, <3>1 DEF NodeOk, InputsOk, NoRepeat
  <2>3. Good(v, X \ {f})
    BY <2>2, LessExempt
  <2> QED
    BY <1>1, <2>1, <2>3 DEF w
<1>3. CASE CanDedupControlWithRegularInput(v, f)
  <2>1. w = RemoveControllingFanins(v, C, f)
    BY <1>3 DEF DedupControlFanouts
  <2>2. ASSUME NEW n \in D PROVE NodeOk(v, n, Y)
    <3> DEFINE s == v.def[n].input
    <3>1. n \in DOMAIN v.def /\ NodeOk(v, n, X)
      BY <1>0
    <3>2. InputsOk(v, n, s, v.regular[n], X) /\ Reads(v, n, s, {})
      BY <3>1 DEF NodeOk
    <3>3. NoRepeat(v, s, Y)
      <4> SUFFICES ASSUME NEW i \in DOMAIN s, NEW j \in DOMAIN s,
                          s[i][2] = Control, s[j][2] # Control, s[i][1] = s[j][1],
                          GetNode(v, s[i][1]) = f
                   PROVE  FALSE
        BY <3>2 DEF InputsOk, NoRepeat
      <4>1. s \in Seq(AnyInput) /\ n \in Ids
        BY <1>0, <3>1, ViewParts
      <4>2. HasNode(v, s[i][1]) /\ HasNode(v, s[j][1]) /\ (j <= v.regular[n] <=> s[j][2] # Control)
        BY <3>2 DEF InputsOk, Sound
      <4>3. OutputPort(v, s[i]) = <<f, Control>> /\ OutputPort(v, s[i]) \in Ends /\ Slot(s[i], i) = Control
        <5>1. OutputPort(v, s[i]) = <<f, Control>> /\ Slot(s[i], i) = Control
          BY DEF OutputPort, Slot
        <5> QED
          BY <5>1, <1>0, <4>1, <4>2, InputFacts
      <4>4. <<n, Control>> \in GetFanout(v, <<f, Control>>)
        BY <3>2, <4>3 DEF Reads, Slots
      <4>5. s[j][1] = v.def[f].name
        <5> DEFINE name == s[i][1]
        <5>1. HasNode(v, name) /\ GetNode(v, name) = f /\ s[j][1] = name
          BY <4>2
        <5> HIDE DEF s, name
        <5>2. v.def[GetNode(v, name)].name = name
          BY <1>0, <5>1, NodeFound
        <5> QED
          BY <5>1, <5>2
      <4>6. v.regular[n] \in Nat
        BY <1>0, <3>1, ViewParts DEF WellTyped
      <4>7. j \in 1..v.regular[n]
        <5>1. j <= v.regular[n]
          BY <4>2
        <5> HIDE DEF s
        <5>2. j \in Nat /\ 1 <= j
          BY <4>1
        <5> QED
          BY <4>6, <5>1, <5>2
      <4>8. HasRegularFaninNode(v, n, v.def[f].name)
        BY <4>5, <4>7 DEF HasRegularFaninNode
      <4> QED
        BY <3>1, <4>4, <4>8
    <3> QED
      BY <3>2, <3>3 DEF NodeOk, InputsOk
  <2>3. Waning(v, v, X, f, D)
    BY <1>1, <2>2 DEF Waning
  <2>4. C \in SUBSET (DOMAIN v.def) /\ D \in SUBSET (DOMAIN v.def) /\ D \cup C = DOMAIN v.def
    OBVIOUS
  <2> HIDE DEF C, D, w
  <2>5. Waning(v, w, X, f, DOMAIN v.def)
    <3>1. Waning(v, RemoveControllingFanins(v, C, f), X, f, D \cup C)
      BY <2>3, <2>4, RemoveControllingFaninsFacts
    <3> QED
      BY <2>1, <2>4, <3>1
  <2>6. Good(w, X \ {f})
    <3>1. Good(w, X) /\ DOMAIN w.def = DOMAIN v.def /\ \A n \in DOMAIN v.def : NodeOk(w, n, X \ {f})
      BY <2>5 DEF Waning, SameNodes
    <3> QED
      BY <3>1, LessExempt
  <2> QED
    BY <2>5, <2>6 DEF Waning, w
<1> QED
  BY <1>2, <1>3
=============================================================================
