--------------------------- MODULE Kernels_proofs ---------------------------
(***************************************************************************)
(* Batches are broadcast as NumPy has it, whatever the shapes: the lists   *)
(* of MatMulBCast, made from dimensions that are put together, lead from   *)
(* every batch of the output to the batches of the inputs it is made of.   *)
(*                                                                         *)
(* The argument goes through the dimensions from the innermost out, with   *)
(* one index of the output held fixed.                                     *)
(***************************************************************************)
EXTENDS Kernels, SequenceTheorems, WellFoundedInduction, TLAPS

-----------------------------------------------------------------------------
(* Loops.                                                                  *)

(* A set of natural numbers that is not empty has a least one. *)
LEMMA LeastNumber ==
  ASSUME NEW T \in SUBSET Nat, T # {}
  PROVE  \E x \in T : \A y \in T : x <= y
<1>1. PICK x \in T : \A y \in T : ~(<<y, x>> \in OpToRel(<, Nat))
  BY NatLessThanWellFounded, WFMin
<1>2. \A y \in T : ~(y < x)
  BY <1>1 DEF OpToRel
<1> QED
  BY <1>2

(* What holds before a loop and is kept by each step holds throughout. *)
LEMMA Throughout ==
  ASSUME NEW L \in Nat, NEW P \in SUBSET (0..L), 0 \in P,
         \A d \in 1..L : d - 1 \in P => d \in P
  PROVE  P = 0..L
<1> DEFINE T == (0..L) \ P
<1> SUFFICES ASSUME T # {} PROVE FALSE
  OBVIOUS
<1>1. PICK x \in T : \A y \in T : x <= y
  <2>1. T \in SUBSET Nat
    OBVIOUS
  <2> HIDE DEF T
  <2> QED
    BY <2>1, LeastNumber
<1>2. x \in 1..L /\ x - 1 \in 0..L
  BY <1>1
<1>3. x - 1 \in P
  BY <1>1, <1>2
<1> QED
  BY <1>1, <1>2, <1>3

-----------------------------------------------------------------------------
(* The loops can be run: the functions that are defined by recursion are   *)
(* what their definitions say.                                             *)

(* The products of the first sizes of a shape.                             *)
Products(dims, f) ==
  /\ f[0] = 1
  /\ \A k \in 1..Len(dims) : f[k] = f[k - 1] * dims[k]
  /\ NumElements(dims) = f[Len(dims)]

(* A function holds the products NumElements multiplies up.                *)
LEMMA ProductsLoop ==
  ASSUME NEW dims \in Seq(Nat)
  PROVE  \E f : Products(dims, f)
<1> DEFINE L == Len(dims)
           Loop(g, m) == g = [k \in 0..m |-> IF k = 0 THEN 1
                                             ELSE g[k - 1] * dims[k]]
           P == {k \in 0..L : \E g : Loop(g, k)}
<1>1. 0 \in P
  <2> DEFINE g == [k \in 0..0 |-> 1]
  <2>1. Loop(g, 0)
    OBVIOUS
  <2> HIDE DEF g, Loop
  <2> QED
    BY <2>1
<1>2. ASSUME NEW m \in 1..L, m - 1 \in P PROVE m \in P
  <2>1. PICK g : Loop(g, m - 1)
    BY <1>2
  <2> DEFINE v == g[m - 1] * dims[m]
             h == [k \in 0..m |-> IF k = m THEN v ELSE g[k]]
  <2>2. \A k \in 0..m : h[k] = IF k = 0 THEN 1
                             ELSE h[k - 1] * dims[k]
    BY <2>1
  <2>3. Loop(h, m)
    BY <2>2
  <2> HIDE DEF h, Loop
  <2> QED
    BY <2>3
<1>3. L \in P
  <2> HIDE DEF P
  <2>1. P \in SUBSET (0..L)
    BY DEF P
  <2>2. P = 0..L
    BY <1>1, <1>2, <2>1, Throughout
  <2> QED
    BY <2>2
<1> DEFINE F == CHOOSE f : Loop(f, L)
<1>4. Loop(F, L)
  <2> HIDE DEF Loop
  <2>1. \E g : Loop(g, L)
    BY <1>3
  <2> HIDE DEF P
  <2> QED
    BY <2>1
<1>5. NumElements(dims) = F[L]
  BY DEF NumElements
<1> HIDE DEF F
<1>6. \A k \in 0..L : F[k] = IF k = 0 THEN 1
                         ELSE F[k - 1] * dims[k]
  BY <1>4
<1>7. \A k \in 1..L : k \in 0..L /\ k # 0
  OBVIOUS
<1>8. Products(dims, F)
  BY <1>5, <1>6, <1>7 DEF Products
<1> QED
  BY <1>8

(* The batches listed for the innermost dimensions. *)
EachDimension(reshape, bcast, f) ==
  /\ f[0] = FirstBatch
  /\ \A k \in 1..Len(reshape) : f[k] = NextDimension(f[k - 1],
                                                     reshape[Len(reshape) - k + 1],
                                                     bcast[Len(reshape) - k + 1])
  /\ OfDimensions(reshape, bcast) = f[Len(reshape)]

(* A function holds the lists ComputeBatchIndices makes, one per dimension. *)
LEMMA DimensionsLoop ==
  ASSUME NEW reshape \in Seq(Nat), NEW bcast
  PROVE  \E f : EachDimension(reshape, bcast, f)
<1> DEFINE L == Len(reshape)
           Loop(g, m) == g = [k \in 0..m |-> IF k = 0 THEN FirstBatch
                                             ELSE NextDimension(g[k - 1],
                                                                reshape[Len(reshape) - k + 1],
                                                                bcast[Len(reshape) - k + 1])]
           P == {k \in 0..L : \E g : Loop(g, k)}
<1>1. 0 \in P
  <2> DEFINE g == [k \in 0..0 |-> FirstBatch]
  <2>1. Loop(g, 0)
    OBVIOUS
  <2> HIDE DEF g, Loop
  <2> QED
    BY <2>1
<1>2. ASSUME NEW m \in 1..L, m - 1 \in P PROVE m \in P
  <2>1. PICK g : Loop(g, m - 1)
    BY <1>2
  <2> DEFINE v == NextDimension(g[m - 1],
                                reshape[Len(reshape) - m + 1], bcast[Len(reshape) - m + 1])
             h == [k \in 0..m |-> IF k = m THEN v ELSE g[k]]
  <2>2. \A k \in 0..m : h[k] = IF k = 0 THEN FirstBatch
                             ELSE NextDimension(h[k - 1],
                                                reshape[Len(reshape) - k + 1],
                                                bcast[Len(reshape) - k + 1])
    BY <2>1
  <2>3. Loop(h, m)
    BY <2>2
  <2> HIDE DEF h, Loop
  <2> QED
    BY <2>3
<1>3. L \in P
  <2> HIDE DEF P
  <2>1. P \in SUBSET (0..L)
    BY DEF P
  <2>2. P = 0..L
    BY <1>1, <1>2, <2>1, Throughout
  <2> QED
    BY <2>2
<1> DEFINE F == CHOOSE f : Loop(f, L)
<1>4. Loop(F, L)
  <2> HIDE DEF Loop
  <2>1. \E g : Loop(g, L)
    BY <1>3
  <2> HIDE DEF P
  <2> QED
    BY <2>1
<1>5. OfDimensions(reshape, bcast) = F[L]
  BY DEF OfDimensions
<1> HIDE DEF F
<1>6. \A k \in 0..L : F[k] = IF k = 0 THEN FirstBatch
                         ELSE NextDimension(F[k - 1],
                                            reshape[Len(reshape) - k + 1],
                                            bcast[Len(reshape) - k + 1])
  BY <1>4
<1>7. \A k \in 1..L : k \in 0..L /\ k # 0
  OBVIOUS
<1>8. EachDimension(reshape, bcast, F)
  BY <1>5, <1>6, <1>7 DEF EachDimension
<1> QED
  BY <1>8

(* The innermost dimensions of two shapes, broadcast. *)
AllSteps(xs, ys, f) ==
  /\ f[0] = NoDimensionYet
  /\ \A k \in 1..Len(xs) : f[k] = Step(f[k - 1],
                                       xs[Len(xs) - k + 1], ys[Len(xs) - k + 1], Len(xs) - k)
  /\ AllDimensions(xs, ys) = f[Len(xs)]

(* A function holds what BCastList has after each dimension.               *)
LEMMA StepsLoop ==
  ASSUME NEW xs \in Seq(Nat), NEW ys
  PROVE  \E f : AllSteps(xs, ys, f)
<1> DEFINE L == Len(xs)
           Loop(g, m) == g = [k \in 0..m |-> IF k = 0 THEN NoDimensionYet
                                             ELSE Step(g[k - 1],
                                                       xs[Len(xs) - k + 1],
                                                       ys[Len(xs) - k + 1],
                                                       Len(xs) - k)]
           P == {k \in 0..L : \E g : Loop(g, k)}
<1>1. 0 \in P
  <2> DEFINE g == [k \in 0..0 |-> NoDimensionYet]
  <2>1. Loop(g, 0)
    OBVIOUS
  <2> HIDE DEF g, Loop
  <2> QED
    BY <2>1
<1>2. ASSUME NEW m \in 1..L, m - 1 \in P PROVE m \in P
  <2>1. PICK g : Loop(g, m - 1)
    BY <1>2
  <2> DEFINE v == Step(g[m - 1], xs[Len(xs) - m + 1], ys[Len(xs) - m + 1], Len(xs) - m)
             h == [k \in 0..m |-> IF k = m THEN v ELSE g[k]]
  <2>2. \A k \in 0..m : h[k] = IF k = 0 THEN NoDimensionYet
                             ELSE Step(h[k - 1],
                                       xs[Len(xs) - k + 1], ys[Len(xs) - k + 1], Len(xs) - k)
    <3>1. h[m] = v /\ \A k \in 0..(m - 1) : h[k] = g[k]
      OBVIOUS
    <3>2. m - 1 \in 0..(m - 1) /\ m # 0
      OBVIOUS
    <3> HIDE DEF h
    <3>3. \A k \in 0..(m - 1) : k # 0 => k - 1 \in 0..(m - 1)
      <4> HIDE DEF P
      <4> QED
        OBVIOUS
    <3>4. \A k \in 0..(m - 1) : h[k] = IF k = 0 THEN NoDimensionYet
                                      ELSE Step(h[k - 1], xs[Len(xs) - k + 1],
                                                ys[Len(xs) - k + 1], Len(xs) - k)
      BY <2>1, <3>1, <3>3
    <3>5. h[m] = Step(h[m - 1], xs[Len(xs) - m + 1], ys[Len(xs) - m + 1], Len(xs) - m)
      BY <3>1, <3>2
    <3>6. \A k \in 0..m : k \in 0..(m - 1) \/ k = m
      OBVIOUS
    <3> QED
      BY <3>2, <3>4, <3>5, <3>6
  <2>3. Loop(h, m)
    BY <2>2
  <2> HIDE DEF h, Loop
  <2> QED
    BY <2>3
<1>3. L \in P
  <2> HIDE DEF P
  <2>1. P \in SUBSET (0..L)
    BY DEF P
  <2>2. P = 0..L
    BY <1>1, <1>2, <2>1, Throughout
  <2> QED
    BY <2>2
<1> DEFINE F == CHOOSE f : Loop(f, L)
<1>4. Loop(F, L)
  <2> HIDE DEF Loop
  <2>1. \E g : Loop(g, L)
    BY <1>3
  <2> HIDE DEF P
  <2> QED
    BY <2>1
<1>5. AllDimensions(xs, ys) = F[L]
  BY DEF AllDimensions
<1> HIDE DEF F
<1>6. \A k \in 0..L : F[k] = IF k = 0 THEN NoDimensionYet
                         ELSE Step(F[k - 1], xs[Len(xs) - k + 1], ys[Len(xs) - k + 1], Len(xs) - k)
  BY <1>4
<1>7. \A k \in 1..L : k \in 0..L /\ k # 0
  OBVIOUS
<1>8. AllSteps(xs, ys, F)
  BY <1>5, <1>6, <1>7 DEF AllSteps
<1> QED
  BY <1>8

(* The place of the innermost places of an index. *)
Origin == [at |-> 0, size |-> 1]

Places(dims, index, f) ==
  /\ f[0] = Origin
  /\ \A k \in 1..Len(dims) : f[k] = Further(f[k - 1],
                                            dims[Len(dims) - k + 1], index[Len(dims) - k + 1])
  /\ Place(dims, index) = f[Len(dims)].at

(* A function holds the places Place goes through.                         *)
LEMMA PlacesLoop ==
  ASSUME NEW dims \in Seq(Nat), NEW index
  PROVE  \E f : Places(dims, index, f)
<1> DEFINE L == Len(dims)
           Loop(g, m) == g = [k \in 0..m |-> IF k = 0 THEN Origin
                                             ELSE Further(g[k - 1],
                                                          dims[Len(dims) - k + 1],
                                                          index[Len(dims) - k + 1])]
           P == {k \in 0..L : \E g : Loop(g, k)}
<1>1. 0 \in P
  <2> DEFINE g == [k \in 0..0 |-> Origin]
  <2>1. Loop(g, 0)
    OBVIOUS
  <2> HIDE DEF g, Loop
  <2> QED
    BY <2>1
<1>2. ASSUME NEW m \in 1..L, m - 1 \in P PROVE m \in P
  <2>1. PICK g : Loop(g, m - 1)
    BY <1>2
  <2> DEFINE v == Further(g[m - 1], dims[Len(dims) - m + 1], index[Len(dims) - m + 1])
             h == [k \in 0..m |-> IF k = m THEN v ELSE g[k]]
  <2>2. \A k \in 0..m : h[k] = IF k = 0 THEN Origin
                             ELSE Further(h[k - 1],
                                          dims[Len(dims) - k + 1], index[Len(dims) - k + 1])
    BY <2>1
  <2>3. Loop(h, m)
    BY <2>2
  <2> HIDE DEF h, Loop
  <2> QED
    BY <2>3
<1>3. L \in P
  <2> HIDE DEF P
  <2>1. P \in SUBSET (0..L)
    BY DEF P
  <2>2. P = 0..L
    BY <1>1, <1>2, <2>1, Throughout
  <2> QED
    BY <2>2
<1> DEFINE F == CHOOSE f : Loop(f, L)
<1>4. Loop(F, L)
  <2> HIDE DEF Loop
  <2>1. \E g : Loop(g, L)
    BY <1>3
  <2> HIDE DEF P
  <2> QED
    BY <2>1
<1>5. Place(dims, index) = F[L].at
  BY DEF Place, Origin
<1> HIDE DEF F
<1>6. \A k \in 0..L : F[k] = IF k = 0 THEN Origin
                         ELSE Further(F[k - 1], dims[Len(dims) - k + 1], index[Len(dims) - k + 1])
  BY <1>4
<1>7. \A k \in 1..L : k \in 0..L /\ k # 0
  OBVIOUS
<1>8. Places(dims, index, F)
  BY <1>5, <1>6, <1>7 DEF Places
<1> QED
  BY <1>8

(* The indices of the outermost dimensions. *)
NoIndex == {<<>>}

IndexPrefixes(dims, f) ==
  /\ f[0] = NoIndex
  /\ \A k \in 1..Len(dims) : f[k] = Longer(f[k - 1], dims[k])
  /\ Indices(dims) = f[Len(dims)]

(* A function holds the prefixes Indices goes through.                     *)
LEMMA IndicesLoop ==
  ASSUME NEW dims \in Seq(Nat)
  PROVE  \E f : IndexPrefixes(dims, f)
<1> DEFINE L == Len(dims)
           Loop(g, m) == g = [k \in 0..m |-> IF k = 0 THEN NoIndex
                                             ELSE Longer(g[k - 1], dims[k])]
           P == {k \in 0..L : \E g : Loop(g, k)}
<1>1. 0 \in P
  <2> DEFINE g == [k \in 0..0 |-> NoIndex]
  <2>1. Loop(g, 0)
    OBVIOUS
  <2> HIDE DEF g, Loop
  <2> QED
    BY <2>1
<1>2. ASSUME NEW m \in 1..L, m - 1 \in P PROVE m \in P
  <2>1. PICK g : Loop(g, m - 1)
    BY <1>2
  <2> DEFINE v == Longer(g[m - 1], dims[m])
             h == [k \in 0..m |-> IF k = m THEN v ELSE g[k]]
  <2>2. \A k \in 0..m : h[k] = IF k = 0 THEN NoIndex
                             ELSE Longer(h[k - 1], dims[k])
    BY <2>1
  <2>3. Loop(h, m)
    BY <2>2
  <2> HIDE DEF h, Loop
  <2> QED
    BY <2>3
<1>3. L \in P
  <2> HIDE DEF P
  <2>1. P \in SUBSET (0..L)
    BY DEF P
  <2>2. P = 0..L
    BY <1>1, <1>2, <2>1, Throughout
  <2> QED
    BY <2>2
<1> DEFINE F == CHOOSE f : Loop(f, L)
<1>4. Loop(F, L)
  <2> HIDE DEF Loop
  <2>1. \E g : Loop(g, L)
    BY <1>3
  <2> HIDE DEF P
  <2> QED
    BY <2>1
<1>5. Indices(dims) = F[L]
  BY DEF Indices, NoIndex
<1> HIDE DEF F
<1>6. \A k \in 0..L : F[k] = IF k = 0 THEN NoIndex
                         ELSE Longer(F[k - 1], dims[k])
  BY <1>4
<1>7. \A k \in 1..L : k \in 0..L /\ k # 0
  OBVIOUS
<1>8. IndexPrefixes(dims, F)
  BY <1>5, <1>6, <1>7 DEF IndexPrefixes
<1> QED
  BY <1>8

-----------------------------------------------------------------------------
(* A dimension further out: what it does to a shape, to the number of its  *)
(* elements and to the batches listed for it.                              *)

(* A sequence with one element put before it.                              *)
LEMMA OneMore ==
  ASSUME NEW s \in Seq(Nat), NEW d \in Nat
  PROVE  /\ <<d>> \o s \in Seq(Nat) /\ Len(<<d>> \o s) = Len(s) + 1
         /\ (<<d>> \o s)[1] = d
         /\ \A i \in 1..Len(s) : (<<d>> \o s)[i + 1] = s[i]
<1>1. <<d>> \in Seq(Nat) /\ Len(<<d>>) = 1 /\ <<d>>[1] = d
  OBVIOUS
<1> QED
  BY <1>1, ConcatProperties

(* Products of sizes are sizes, and no smaller than their factors.         *)
LEMMA ProductIsNat ==
  ASSUME NEW a \in Nat, NEW b \in Nat
  PROVE  a * b \in Nat /\ (a >= 1 /\ b >= 1 => a * b >= 1 /\ a * b >= a /\ a * b >= b)
OBVIOUS

(* A product may be taken in any order.                                    *)
LEMMA Associative ==
  ASSUME NEW a \in Int, NEW b \in Int, NEW c \in Int
  PROVE  (a * b) * c = a * (b * c) /\ a * b = b * a
OBVIOUS

(* A shape of no dimensions has one element.                               *)
LEMMA ElementsOfNone == NumElements(<<>>) = 1
<1> DEFINE e == <<>>
<1>1. e \in Seq(Nat) /\ Len(e) = 0
  OBVIOUS
<1> HIDE DEF e
<1>2. PICK f : Products(e, f)
  BY <1>1, ProductsLoop
<1>3. NumElements(e) = 1
  BY <1>1, <1>2 DEF Products
<1> QED
  BY <1>3 DEF e

(* One more dimension multiplies the elements by its size.                 *)
LEMMA ElementsOf ==
  ASSUME NEW s \in Seq(Nat), NEW d \in Nat
  PROVE  NumElements(s) \in Nat /\ NumElements(<<d>> \o s) = d * NumElements(s)
<1> DEFINE t == <<d>> \o s
           L == Len(s)
<1>1. /\ t \in Seq(Nat) /\ L \in Nat /\ Len(t) = L + 1 /\ t[1] = d
      /\ \A i \in 1..L : t[i + 1] = s[i] /\ s[i] \in Nat
  BY OneMore
<1> HIDE DEF t
<1>a. PICK f : Products(s, f)
  BY ProductsLoop
<1>b. PICK g : Products(t, g)
  BY <1>1, ProductsLoop
<1>2. f[0] = 1 /\ (\A k \in 1..L : f[k] = f[k - 1] * s[k]) /\ NumElements(s) = f[L]
  BY <1>a DEF Products
<1> HIDE DEF L
<1>3. g[0] = 1 /\ (\A k \in 1..L + 1 : g[k] = g[k - 1] * t[k]) /\ NumElements(t) = g[L + 1]
  BY <1>1, <1>b DEF Products
<1>4. \A k \in 0..L : g[k + 1] = g[k] * t[k + 1]
  <2>1. \A k \in 0..L : k + 1 \in 1..L + 1 /\ (k + 1) - 1 = k
    BY <1>1
  <2> QED
    BY <1>3, <2>1
<1> DEFINE P == {k \in 0..L : f[k] \in Nat /\ g[k + 1] = d * f[k]}
<1>5. 0 \in P
  <2>1. g[0 + 1] = g[0] * t[0 + 1]
    BY <1>1, <1>4
  <2>2. g[0 + 1] = d * f[0]
    BY <1>1, <1>2, <1>3, <2>1
  <2>3. 0 \in 0..L
    BY <1>1
  <2> QED
    BY <1>2, <2>2, <2>3
<1>6. ASSUME NEW k \in 1..L, k - 1 \in P PROVE k \in P
  <2>1. f[k - 1] \in Nat /\ g[(k - 1) + 1] = d * f[k - 1]
    BY <1>6
  <2>2. k \in 0..L /\ (k - 1) + 1 = k
    BY <1>1
  <2>3. f[k] = f[k - 1] * s[k] /\ s[k] \in Nat
    BY <1>1, <1>2
  <2>4. g[k + 1] = g[k] * s[k]
    BY <1>1, <1>4, <2>2
  <2>5. (d * f[k - 1]) * s[k] = d * (f[k - 1] * s[k])
    BY <2>1, <2>3, Associative
  <2>6. f[k] \in Nat
    BY <2>1, <2>3, ProductIsNat
  <2>7. g[k + 1] = d * f[k]
    BY <2>1, <2>2, <2>3, <2>4, <2>5
  <2> QED
    BY <2>2, <2>6, <2>7
<1>7. L \in P
  <2> HIDE DEF P
  <2>1. P \in SUBSET (0..L)
    BY DEF P
  <2>2. P = 0..L
    BY <1>1, <1>5, <1>6, <2>1, Throughout
  <2> QED
    BY <1>1, <2>2
<1>8. f[L] \in Nat /\ g[L + 1] = d * f[L]
  BY <1>7
<1>9. NumElements(t) = d * NumElements(s)
  BY <1>1, <1>2, <1>3, <1>8
<1> QED
  BY <1>2, <1>8, <1>9 DEF t

(* Without dimensions the list has the first batch only.                   *)
LEMMA BatchesOfNone ==
  ASSUME NEW t
  PROVE  OfDimensions(<<>>, t) = FirstBatch
<1> DEFINE e == <<>>
<1>1. e \in Seq(Nat) /\ Len(e) = 0
  OBVIOUS
<1> HIDE DEF e
<1>2. PICK f : EachDimension(e, t, f)
  BY <1>1, DimensionsLoop
<1>3. OfDimensions(e, t) = FirstBatch
  BY <1>1, <1>2 DEF EachDimension
<1> QED
  BY <1>3 DEF e

(* One more dimension moves the list on by that dimension.                 *)
LEMMA BatchesOf ==
  ASSUME NEW s \in Seq(Nat), NEW t \in Seq(Nat), Len(s) = Len(t),
         NEW d \in Nat, NEW b \in Nat
  PROVE  OfDimensions(<<d>> \o s, <<b>> \o t) = NextDimension(OfDimensions(s, t), d, b)
<1> DEFINE ss == <<d>> \o s
           tt == <<b>> \o t
           L == Len(s)
<1>1. /\ ss \in Seq(Nat) /\ L \in Nat /\ Len(ss) = L + 1 /\ ss[1] = d
      /\ \A i \in 1..L : ss[i + 1] = s[i]
  BY OneMore
<1>2. tt[1] = b /\ \A i \in 1..L : tt[i + 1] = t[i]
  BY OneMore
<1> HIDE DEF ss, tt
<1>a. PICK f : EachDimension(s, t, f)
  BY DimensionsLoop
<1>b. PICK g : EachDimension(ss, tt, g)
  BY <1>1, DimensionsLoop
<1>3. /\ f[0] = FirstBatch
      /\ \A k \in 1..L : f[k] = NextDimension(f[k - 1], s[L - k + 1], t[L - k + 1])
      /\ OfDimensions(s, t) = f[L]
  BY <1>a DEF EachDimension
<1> HIDE DEF L
<1>4. g[0] = FirstBatch /\ OfDimensions(ss, tt) = g[L + 1]
  BY <1>1, <1>b DEF EachDimension
<1>5. \A k \in 1..(L + 1) : g[k] = NextDimension(g[k - 1], ss[(L + 1) - k + 1], tt[(L + 1) - k + 1])
  BY <1>1, <1>b DEF EachDimension
<1> DEFINE P == {k \in 0..L : g[k] = f[k]}
<1>6. 0 \in P
  BY <1>1, <1>3, <1>4
<1>7. ASSUME NEW k \in 1..L, k - 1 \in P PROVE k \in P
  <2>1. g[k - 1] = f[k - 1]
    BY <1>7
  <2>2. k \in 1..(L + 1) /\ L - k + 1 \in 1..L /\ (L + 1) - k + 1 = (L - k + 1) + 1 /\ k \in 0..L
    BY <1>1
  <2>3. ss[(L - k + 1) + 1] = s[L - k + 1] /\ tt[(L - k + 1) + 1] = t[L - k + 1]
    BY <1>1, <1>2, <2>2
  <2>4. g[k] = NextDimension(g[k - 1], ss[(L + 1) - k + 1], tt[(L + 1) - k + 1])
    BY <1>5, <2>2
  <2>5. f[k] = NextDimension(f[k - 1], s[L - k + 1], t[L - k + 1])
    BY <1>3
  <2>6. g[k] = f[k]
    BY <2>1, <2>2, <2>3, <2>4, <2>5
  <2> QED
    BY <2>2, <2>6
<1>8. L \in P
  <2> HIDE DEF P
  <2>1. P \in SUBSET (0..L)
    BY DEF P
  <2>2. P = 0..L
    BY <1>1, <1>6, <1>7, <2>1, Throughout
  <2> QED
    BY <1>1, <2>2
<1>9. g[L + 1] = NextDimension(g[L], ss[1], tt[1])
  <2>1. L + 1 \in 1..(L + 1) /\ (L + 1) - 1 = L /\ (L + 1) - (L + 1) + 1 = 1
    BY <1>1
  <2> QED
    BY <1>5, <2>1
<1>10. OfDimensions(ss, tt) = NextDimension(OfDimensions(s, t), d, b)
  BY <1>1, <1>2, <1>3, <1>4, <1>8, <1>9
<1> QED
  BY <1>10 DEF ss, tt

-----------------------------------------------------------------------------
(* Division. *)

(* A number is its quotient's multiple and a remainder.                    *)
LEMMA Division ==
  ASSUME NEW n \in Nat, NEW L \in Nat, L >= 1
  PROVE  /\ n \div L \in Nat /\ n % L \in 0..(L - 1)
         /\ n = L * (n \div L) + (n % L)
OBVIOUS

(* A positive multiple is no smaller than what it is a multiple of.        *)
LEMMA Multiple ==
  ASSUME NEW a \in Int, NEW L \in Nat, a >= 1
  PROVE  L * a >= L
OBVIOUS

(* A product distributes over sums and differences.                        *)
LEMMA Distributive ==
  ASSUME NEW a \in Int, NEW b \in Int, NEW c \in Int
  PROVE  a * (b - c) = a * b - a * c /\ a * (b + c) = a * b + a * c
OBVIOUS

(* Quotient and remainder are determined by the number.                    *)
LEMMA OneQuotient ==
  ASSUME NEW L \in Nat, L >= 1, NEW q \in Nat, NEW p \in Nat,
         NEW m \in 0..(L - 1), NEW r \in 0..(L - 1), L * q + m = L * p + r
  PROVE  q = p /\ m = r
<1>1. L * q \in Int /\ L * p \in Int
  OBVIOUS
<1>2. CASE q > p
  <2>1. L * (q - p) >= L /\ L * (q - p) = L * q - L * p
    BY <1>2, Multiple, Distributive
  <2> QED
    BY <1>1, <2>1
<1>3. CASE q < p
  <2>1. L * (p - q) >= L /\ L * (p - q) = L * p - L * q
    BY <1>3, Multiple, Distributive
  <2> QED
    BY <1>1, <2>1
<1> QED
  BY <1>1, <1>2, <1>3

(* What division by L makes of a quotient and a remainder put together.    *)
LEMMA DivisionOf ==
  ASSUME NEW L \in Nat, L >= 1, NEW q \in Nat, NEW m \in 0..(L - 1)
  PROVE  (L * q + m) \div L = q /\ (L * q + m) % L = m
<1> DEFINE n == L * q + m
           p == n \div L
           r == n % L
<1>1. n \in Nat
  OBVIOUS
<1> HIDE DEF n
<1>2. p \in Nat /\ r \in 0..(L - 1) /\ n = L * p + r
  BY <1>1, Division
<1> HIDE DEF p, r
<1>3. q = p /\ m = r
  BY <1>2, OneQuotient DEF n
<1> QED
  BY <1>3 DEF n, p, r

(* A quotient that is less than what the multiple is made of. *)
LEMMA QuotientBound ==
  ASSUME NEW L \in Nat, NEW dim \in Nat, NEW q \in Nat, NEW m \in Nat,
         L * q + m < L * dim
  PROVE  q < dim
<1>1. SUFFICES ASSUME q >= dim PROVE FALSE
  OBVIOUS
<1>2. L * q = L * dim + L * (q - dim) /\ L * (q - dim) >= 0 /\ L * q \in Int /\ L * dim \in Int
  <2>1. L * (q - dim) = L * q - L * dim
    BY Distributive
  <2>2. L * (q - dim) >= 0
    BY <1>1
  <2> QED
    BY <2>1, <2>2
<1> QED
  BY <1>2

-----------------------------------------------------------------------------
(* Lists of batches.                                                       *)

Listing(b) == b.indices \in Seq(Nat) /\ Len(b.indices) >= 1 /\ b.inner \in Nat

Repeated(d, q, inner) == IF d THEN 0 ELSE inner * q

(* What one more dimension lists: each batch so far, once for each index   *)
(* of the dimension.                                                       *)
LEMMA ListedOnce ==
  ASSUME NEW b, Listing(b), NEW r \in Nat, NEW c \in Nat, Larger(r, c) >= 1
  PROVE  LET L   == Len(b.indices)
             dim == Larger(r, c)
             e   == NextDimension(b, r, c)
         IN  /\ Listing(e) /\ Len(e.indices) = L * dim /\ e.inner = b.inner * r
             /\ \A m \in 0..(L - 1), q \in 0..(dim - 1) :
                  /\ (L * q + m) + 1 \in 1..(L * dim)
                  /\ e.indices[(L * q + m) + 1]
                       = b.indices[m + 1] + Repeated(c > 1, q, b.inner)
<1> DEFINE L   == Len(b.indices)
           dim == Larger(r, c)
           e   == NextDimension(b, r, c)
           incr == IF Increments(r, c) THEN b.inner ELSE 0
           list == [n \in 1..L * dim |->
                      b.indices[((n - 1) % L) + 1] + incr * ((n - 1) \div L)]
<1>1. L \in Nat /\ L >= 1 /\ dim \in Nat /\ dim >= 1 /\ incr \in Nat
  BY DEF Listing, Larger
<1>2. e.indices = list /\ e.inner = b.inner * r
  BY DEF NextDimension, AddDimension
<1>3. \A n \in 1..L : b.indices[n] \in Nat
  BY DEF Listing
<1>4. L * dim \in Nat /\ L * dim >= 1
  BY <1>1, ProductIsNat
<1>b. b.inner \in Nat
  BY DEF Listing
<1> HIDE DEF L, dim, incr
<1>5. ASSUME NEW n \in 1..L * dim
      PROVE  b.indices[((n - 1) % L) + 1] + incr * ((n - 1) \div L) \in Nat
  <2> DEFINE p == n - 1
  <2>a. p \in Nat
    BY <1>4
  <2> HIDE DEF p
  <2>b. p \div L \in Nat /\ p % L \in 0..(L - 1)
    BY <1>1, <2>a, Division
  <2>1. (n - 1) \div L \in Nat /\ (n - 1) % L \in 0..(L - 1)
    BY <2>b DEF p
  <2>2. ((n - 1) % L) + 1 \in 1..L
    BY <1>1, <2>1
  <2>3. incr * ((n - 1) \div L) \in Nat
    BY <1>1, <2>1, ProductIsNat
  <2> QED
    BY <1>3, <2>2, <2>3
<1>6. list \in Seq(Nat) /\ Len(list) = L * dim
  <2>1. list \in [1..L * dim -> Nat]
    BY <1>5
  <2> HIDE DEF list
  <2> QED
    BY <1>4, <2>1
<1>7. b.inner * r \in Nat
  BY <1>b, ProductIsNat
<1>8. ASSUME NEW m \in 0..(L - 1), NEW q \in 0..(dim - 1)
      PROVE  /\ (L * q + m) + 1 \in 1..L * dim
             /\ list[(L * q + m) + 1] = b.indices[m + 1] + incr * q
  <2>1. L * q + m \in Nat
    <3>1. L * q \in Nat
      BY <1>1, ProductIsNat
    <3> QED
      BY <1>1, <3>1
  <2>2. L * q + m < L * dim
    <3>1. L * (dim - q) >= L /\ L * (dim - q) = L * dim - L * q
      BY <1>1, Multiple, Distributive
    <3>2. L * q \in Nat
      BY <1>1, ProductIsNat
    <3> QED
      BY <1>1, <1>4, <3>1, <3>2
  <2>3. (L * q + m) \div L = q /\ (L * q + m) % L = m
    BY <1>1, DivisionOf
  <2> DEFINE n == (L * q + m) + 1
  <2>4. n \in 1..L * dim /\ n - 1 = L * q + m
    BY <1>4, <2>1, <2>2
  <2> HIDE DEF n
  <2>5. list[n] = b.indices[((n - 1) % L) + 1] + incr * ((n - 1) \div L)
    BY <2>4
  <2> QED
    BY <2>3, <2>4, <2>5 DEF n
<1>9. \A q \in Nat : incr * q = Repeated(c > 1, q, b.inner)
  BY <1>b DEF incr, Increments, Repeated
<1>10. /\ Listing(e) /\ Len(e.indices) = L * dim /\ e.inner = b.inner * r
  <2> HIDE DEF list
  <2> QED
    BY <1>2, <1>4, <1>6, <1>7 DEF Listing
<1> HIDE DEF list, e
<1>11. ASSUME NEW m \in 0..(L - 1), NEW q \in 0..(dim - 1)
       PROVE  /\ (L * q + m) + 1 \in 1..(L * dim)
              /\ e.indices[(L * q + m) + 1]
                   = b.indices[m + 1] + Repeated(c > 1, q, b.inner)
  <2>1. q \in Nat
    BY <1>1
  <2>2. incr * q = Repeated(c > 1, q, b.inner)
    BY <1>9, <2>1
  <2> QED
    BY <1>2, <1>8, <2>2
<1> QED
  BY <1>10, <1>11 DEF L, dim, e

(* A dimension out, that is 1 or not: how often the input is repeated.     *)
Times(d, out) == IF d = 1 THEN out ELSE 1

(* A dimension put together with the last, of the same kind, lists what it *)
(* would list by itself.                                                   *)
ListsTogether(b, r, c, d, out, i, m, q) ==
  LET L    == Len(b.indices)
      size == L * Larger(r, c)
      was  == NextDimension(b, r, c)
      e    == NextDimension(b, r * d, c * Times(d, out))
  IN  /\ Listing(e) /\ Len(e.indices) = size * out /\ e.inner = was.inner * d
      /\ e.indices[((L * q + m) + i * size) + 1]
           = was.indices[(L * q + m) + 1] + Repeated(d = 1, i, was.inner)

(* How long the list gets,                                                 *)
LEMMA ListedLength ==
  ASSUME NEW b, Listing(b), NEW r \in Nat, NEW c \in Nat, Larger(r, c) >= 1
  PROVE  /\ Listing(NextDimension(b, r, c))
         /\ Len(NextDimension(b, r, c).indices) = Len(b.indices) * Larger(r, c)
         /\ NextDimension(b, r, c).inner = b.inner * r
<1> DEFINE e == NextDimension(b, r, c)
<1>1. Listing(e) /\ Len(e.indices) = Len(b.indices) * Larger(r, c) /\ e.inner = b.inner * r
  BY ListedOnce, Zenon
<1> QED
  BY <1>1, Zenon

(* and what it has at a place.                                             *)
LEMMA ListedAt ==
  ASSUME NEW b, Listing(b), NEW r \in Nat, NEW c \in Nat, Larger(r, c) >= 1,
         NEW m \in 0..(Len(b.indices) - 1), NEW q \in 0..(Larger(r, c) - 1)
  PROVE  NextDimension(b, r, c).indices[(Len(b.indices) * q + m) + 1]
           = b.indices[m + 1] + Repeated(c > 1, q, b.inner)
<1> DEFINE e == NextDimension(b, r, c)
<1>1. \A k \in 0..(Len(b.indices) - 1), j \in 0..(Larger(r, c) - 1) :
        e.indices[(Len(b.indices) * j + k) + 1] = b.indices[k + 1] + Repeated(c > 1, j, b.inner)
  BY ListedOnce, Zenon
<1> HIDE DEF e
<1>2. e.indices[(Len(b.indices) * q + m) + 1] = b.indices[m + 1] + Repeated(c > 1, q, b.inner)
  BY <1>1, Zenon
<1> QED
  BY <1>2, Zenon DEF e

(* Putting a dimension together with those inside it, as Joined does when  *)
(* both repeat or both do not, lists what the two would list one by one.   *)
LEMMA ListedTogether ==
  ASSUME NEW b, Listing(b), NEW r \in Nat, NEW c \in Nat, r >= 1, c >= 1,
         NEW d \in Nat, NEW out \in Nat, out >= 2, d = 1 \/ d = out,
         IF d = 1 THEN r = 1 ELSE c = 1,
         NEW i \in 0..(out - 1),
         NEW m \in 0..(Len(b.indices) - 1), NEW q \in 0..(Larger(r, c) - 1)
  PROVE  ListsTogether(b, r, c, d, out, i, m, q)
<1> DEFINE L    == Len(b.indices)
           dim  == Larger(r, c)
           size == L * dim
           was  == NextDimension(b, r, c)
           D    == r * d
           C    == c * Times(d, out)
           e    == NextDimension(b, D, C)
           p    == q + i * dim
<1>1. L \in Nat /\ L >= 1 /\ b.inner \in Nat
  BY DEF Listing
<1>2. dim \in Nat /\ dim >= 1 /\ dim = (IF d = 1 THEN c ELSE r)
  BY DEF Larger
<1>3. D \in Nat /\ C \in Nat /\ Larger(D, C) = dim * out /\ (C > 1 <=> d = 1)
  <2>1. CASE d = 1
    <3>1. D = 1 /\ C = c * out
      BY <2>1 DEF Times
    <3>2. c * out \in Nat /\ c * out >= out
      BY ProductIsNat
    <3> HIDE DEF D, C, dim
    <3> QED
      BY <1>2, <2>1, <3>1, <3>2 DEF Larger
  <2>2. CASE d # 1
    <3>1. D = r * out /\ C = 1
      BY <2>2 DEF Times
    <3>2. r * out \in Nat /\ r * out >= out
      BY ProductIsNat
    <3> HIDE DEF D, C, dim
    <3> QED
      BY <1>2, <2>2, <3>1, <3>2 DEF Larger
  <2> QED
    BY <2>1, <2>2
<1>4. q \in 0..(dim - 1)
  OBVIOUS
<1>5. m \in 0..(L - 1)
  OBVIOUS
<1> HIDE DEF L, dim, D, C
<1>6. i \in Nat /\ dim * out \in Nat /\ dim * out >= 1 /\ L * dim \in Nat /\ i * dim \in Nat
  <2>1. i \in Nat
    OBVIOUS
  <2>2. dim * out \in Nat /\ dim * out >= 1
    BY <1>2, ProductIsNat
  <2>3. L * dim \in Nat /\ i * dim \in Nat
    BY <1>1, <1>2, <2>1, ProductIsNat
  <2> QED
    BY <2>1, <2>2, <2>3
<1>7. p \in 0..(dim * out - 1)
  <2>1. dim * (out - i) >= dim /\ dim * (out - i) = dim * out - dim * i /\ dim * i = i * dim
    BY <1>2, <1>6, Multiple, Distributive, Associative
  <2> QED
    BY <1>2, <1>4, <1>6, <2>1
<1>8. L * p + m = (L * q + m) + i * size
  <2>1. L * (q + i * dim) = L * q + L * (i * dim)
    BY <1>1, <1>4, <1>6, Distributive
  <2>2. L * (i * dim) = i * (L * dim)
    <3>1. (L * i) * dim = L * (i * dim)
      BY <1>1, <1>2, <1>6, Associative
    <3>2. (i * L) * dim = i * (L * dim)
      BY <1>1, <1>2, <1>6, Associative
    <3>3. L * i = i * L
      BY <1>1, <1>6, Associative
    <3> QED
      BY <3>1, <3>2, <3>3
  <2>3. L * q \in Nat
    BY <1>1, <1>4, ProductIsNat
  <2>4. i * (L * dim) \in Nat
    BY <1>6, ProductIsNat
  <2> QED
    BY <1>5, <2>1, <2>2, <2>3, <2>4
<1>9. /\ Listing(e) /\ Len(e.indices) = L * (dim * out) /\ e.inner = b.inner * D
      /\ e.indices[(L * p + m) + 1] = b.indices[m + 1] + Repeated(C > 1, p, b.inner)
  <2> HIDE DEF p, e
  <2>1. Larger(D, C) >= 1
    BY <1>3, <1>6
  <2>2. D \in Nat /\ C \in Nat /\ Larger(D, C) = dim * out
    BY <1>3
  <2>3. Listing(e) /\ Len(e.indices) = L * (dim * out) /\ e.inner = b.inner * D
    BY <2>1, <2>2, ListedLength DEF L, e
  <2>4. m \in 0..(Len(b.indices) - 1) /\ p \in 0..(Larger(D, C) - 1)
    BY <1>5, <1>7, <2>2 DEF L
  <2>5. e.indices[(L * p + m) + 1] = b.indices[m + 1] + Repeated(C > 1, p, b.inner)
    <3>1. m \in 0..(Len(b.indices) - 1)
      BY <2>4
    <3>2. p \in 0..(Larger(D, C) - 1)
      BY <2>4
    <3>3. D \in Nat /\ C \in Nat
      BY <2>2
    <3> HIDE DEF p, e, D, C
    <3>4. NextDimension(b, D, C).indices[(Len(b.indices) * p + m) + 1]
            = b.indices[m + 1] + Repeated(C > 1, p, b.inner)
      BY <2>1, <3>1, <3>2, <3>3, ListedAt
    <3> QED
      BY <3>4, Zenon DEF L, D, C, e
  <2> QED
    BY <2>3, <2>5
<1>10. /\ was.inner = b.inner * r
       /\ was.indices[(L * q + m) + 1] = b.indices[m + 1] + Repeated(c > 1, q, b.inner)
  <2>1. Larger(r, c) >= 1
    BY <1>2 DEF dim
  <2>2. was.inner = b.inner * r
    BY <2>1, ListedLength
  <2>3. m \in 0..(Len(b.indices) - 1) /\ q \in 0..(Larger(r, c) - 1)
    BY <1>4, <1>5 DEF L, dim
  <2>4. was.indices[(L * q + m) + 1] = b.indices[m + 1] + Repeated(c > 1, q, b.inner)
    <3>1. m \in 0..(Len(b.indices) - 1)
      BY <2>3
    <3>2. q \in 0..(Larger(r, c) - 1)
      BY <2>3
    <3> HIDE DEF was
    <3>3. NextDimension(b, r, c).indices[(Len(b.indices) * q + m) + 1]
            = b.indices[m + 1] + Repeated(c > 1, q, b.inner)
      BY <2>1, <3>1, <3>2, ListedAt, Zenon
    <3> QED
      BY <3>3, Zenon DEF L, was
  <2> QED
    BY <2>2, <2>4
<1>11. (L * dim) * out = L * (dim * out)
  BY <1>1, <1>2, Associative
<1>12. b.inner * D = was.inner * d
  BY <1>1, <1>10, Associative DEF D
<1>13. Repeated(C > 1, p, b.inner) = Repeated(c > 1, q, b.inner) + Repeated(d = 1, i, was.inner)
  <2>1. CASE d = 1
    <3>1. Repeated(C > 1, p, b.inner) = 0 /\ Repeated(d = 1, i, was.inner) = 0
      BY <1>3, <2>1 DEF Repeated
    <3>2. CASE c > 1
      BY <3>1, <3>2 DEF Repeated
    <3>3. CASE ~(c > 1)
      <4>1. q = 0
        BY <1>2, <1>4, <2>1, <3>3
      <4>2. b.inner * q = 0
        BY <1>1, <4>1
      <4> QED
        BY <3>1, <3>3, <4>2 DEF Repeated
    <3> QED
      BY <3>2, <3>3
  <2>2. CASE d # 1
    <3>1. dim = r /\ ~(C > 1) /\ ~(c > 1)
      BY <1>2, <1>3, <2>2
    <3>2. b.inner * (q + i * dim) = b.inner * q + b.inner * (i * dim)
      BY <1>1, <1>4, <1>6, Distributive
    <3>3. b.inner * (i * dim) = (b.inner * r) * i
      <4>1. i * r = r * i /\ (b.inner * r) * i = b.inner * (r * i)
        BY <1>1, <1>6, Associative
      <4> QED
        BY <3>1, <4>1
    <3>4. /\ Repeated(C > 1, p, b.inner) = b.inner * p
          /\ Repeated(c > 1, q, b.inner) = b.inner * q
          /\ Repeated(d = 1, i, was.inner) = was.inner * i
      BY <2>2, <3>1 DEF Repeated
    <3> QED
      BY <1>10, <3>2, <3>3, <3>4
  <2> QED
    BY <2>1, <2>2
<1>14. b.indices[m + 1] \in Nat
  BY <1>1, <1>5 DEF Listing, L
<1>15. Repeated(c > 1, q, b.inner) \in Nat /\ Repeated(d = 1, i, was.inner) \in Nat
  <2>1. b.inner * q \in Nat /\ was.inner \in Nat
    BY <1>1, <1>4, <1>10, ProductIsNat
  <2>2. was.inner * i \in Nat
    BY <2>1, <1>6, ProductIsNat
  <2> QED
    BY <2>1, <2>2 DEF Repeated
<1>16. e.indices[((L * q + m) + i * size) + 1]
         = was.indices[(L * q + m) + 1] + Repeated(d = 1, i, was.inner)
  <2> HIDE DEF e, was, p, size
  <2> QED
    BY <1>8, <1>9, <1>10, <1>13, <1>14, <1>15
<1> QED
  BY <1>9, <1>11, <1>12, <1>16 DEF L, dim, D, C, ListsTogether

-----------------------------------------------------------------------------
(* One input of two: b leads from place o of the output to place p of the  *)
(* input if the batch it lists for o is the one p is at.                   *)

Leads(b, o, p) ==
  /\ Listing(b) /\ Len(b.indices) = o.size /\ b.inner = p.size
  /\ o.at \in 0..(o.size - 1) /\ b.indices[o.at + 1] = p.at

(* Of a dimension of 1 there is only index 0. *)
Within(d, i) == IF d = 1 THEN 0 ELSE i

(* A place stays in its tensor, and is at a number, further out. *)
LEMMA FurtherIn ==
  ASSUME NEW o, o.size \in Nat, o.at \in 0..(o.size - 1), NEW out \in Nat, NEW i \in 0..(out - 1)
  PROVE  /\ Further(o, out, i).size = o.size * out /\ Further(o, out, i).size \in Nat
         /\ Further(o, out, i).at = o.at + i * o.size
         /\ Further(o, out, i).at \in 0..(Further(o, out, i).size - 1)
<1> DEFINE S == o.size
           at == o.at
<1>1. S \in Nat /\ at \in 0..(S - 1) /\ i \in Nat
  OBVIOUS
<1>2. Further(o, out, i).size = S * out /\ Further(o, out, i).at = at + i * S
  BY DEF Further
<1> HIDE DEF S, at
<1>3. S * (out - i) >= S /\ S * (out - i) = S * out - S * i /\ S * i = i * S
  BY <1>1, Multiple, Distributive, Associative
<1>4. S * out \in Nat /\ i * S \in Nat
  BY <1>1, ProductIsNat
<1>5. at + i * S \in 0..(S * out - 1)
  BY <1>1, <1>3, <1>4
<1> QED
  BY <1>2, <1>4, <1>5 DEF S, at

(* A list that leads from o to p leads one dimension further when that     *)
(* dimension is put together with the outermost one.                       *)
LEMMA LeadsFurther ==
  ASSUME NEW b, Listing(b), NEW r \in Nat, NEW c \in Nat, r >= 1, c >= 1,
         NEW d \in Nat, NEW out \in Nat, out >= 2, d = 1 \/ d = out,
         IF d = 1 THEN r = 1 ELSE c = 1,
         NEW i \in 0..(out - 1),
         NEW o, NEW p, Leads(NextDimension(b, r, c), o, p)
  PROVE  Leads(NextDimension(b, r * d, c * Times(d, out)),
               Further(o, out, i), Further(p, d, Within(d, i)))
<1> DEFINE L    == Len(b.indices)
           dim  == Larger(r, c)
           was  == NextDimension(b, r, c)
           e    == NextDimension(b, r * d, c * Times(d, out))
           m    == o.at % L
           q    == o.at \div L
<1>1. L \in Nat /\ L >= 1 /\ dim \in Nat /\ dim >= 1
  BY DEF Listing, Larger
<1>2. Len(was.indices) = L * dim
  <2>1. Larger(r, c) >= 1
    BY <1>1
  <2>2. Len(NextDimension(b, r, c).indices) = Len(b.indices) * Larger(r, c)
    BY <2>1, ListedLength
  <2> QED
    BY <2>2, Zenon
<1>3. o.size = L * dim /\ o.at \in 0..(o.size - 1) /\ was.inner = p.size
      /\ was.indices[o.at + 1] = p.at /\ p.size \in Nat
  BY <1>2 DEF Leads, Listing
<1>4. L * dim \in Nat
  BY <1>1, ProductIsNat
<1>5. o.at \in Nat /\ o.at < L * dim
  BY <1>3, <1>4
<1>6. q \in Nat /\ m \in 0..(L - 1) /\ o.at = L * q + m
  <2> DEFINE at == o.at
  <2>1. at \in Nat
    BY <1>5
  <2> HIDE DEF at, L
  <2>2. at \div L \in Nat /\ at % L \in 0..(L - 1) /\ at = L * (at \div L) + (at % L)
    BY <1>1, <2>1, Division
  <2> QED
    BY <2>2 DEF at
<1> HIDE DEF m, q
<1>7. q \in 0..(dim - 1)
  <2> HIDE DEF L, dim
  <2>1. q < dim
    BY <1>1, <1>5, <1>6, QuotientBound
  <2> QED
    BY <1>1, <1>6, <2>1
<1>8. /\ Listing(e) /\ Len(e.indices) = (L * dim) * out /\ e.inner = was.inner * d
      /\ e.indices[((L * q + m) + i * (L * dim)) + 1]
           = was.indices[(L * q + m) + 1] + Repeated(d = 1, i, was.inner)
  <2> HIDE DEF was, e
  <2>1. m \in 0..(Len(b.indices) - 1) /\ q \in 0..(Larger(r, c) - 1)
    BY <1>6, <1>7
  <2>2. ListsTogether(b, r, c, d, out, i, m, q)
    BY <2>1, ListedTogether
  <2> QED
    BY <2>2 DEF was, e, ListsTogether
<1> HIDE DEF L, dim, was, e
<1>9. /\ Further(o, out, i).size = o.size * out
      /\ Further(o, out, i).at = o.at + i * o.size
      /\ Further(o, out, i).at \in 0..(Further(o, out, i).size - 1)
  BY <1>3, <1>4, FurtherIn
<1>10. /\ Further(p, d, Within(d, i)).size = p.size * d
       /\ Further(p, d, Within(d, i)).at = p.at + Repeated(d = 1, i, p.size)
  <2>1. i * p.size = p.size * i /\ 0 * p.size = 0
    BY <1>3, Associative
  <2> QED
    BY <2>1 DEF Further, Within, Repeated
<1>11. e.indices[(o.at + i * o.size) + 1] = p.at + Repeated(d = 1, i, p.size)
  BY <1>3, <1>6, <1>8
<1> DEFINE O == Further(o, out, i)
           P == Further(p, d, Within(d, i))
<1> HIDE DEF O, P
<1>12. Leads(e, O, P)
  <2>1. /\ O.size = o.size * out /\ O.at = o.at + i * o.size /\ O.at \in 0..(O.size - 1)
        /\ P.size = p.size * d /\ P.at = p.at + Repeated(d = 1, i, p.size)
    BY <1>9, <1>10 DEF O, P
  <2>2. e.indices[O.at + 1] = P.at
    BY <1>11, <2>1
  <2>3. Listing(e) /\ Len(e.indices) = O.size /\ e.inner = P.size
    BY <1>3, <1>8, <2>1
  <2> QED
    BY <2>1, <2>2, <2>3 DEF Leads
<1> QED
  BY <1>12 DEF e, O, P

(* A dimension that is 1 adds nothing. *)
LEMMA LeadsAlone ==
  ASSUME NEW b, NEW o, NEW p, Leads(b, o, p)
  PROVE  Leads(NextDimension(b, 1, 1), o, p)
<1> DEFINE L == Len(b.indices)
           e == NextDimension(b, 1, 1)
<1>1. Listing(b) /\ L = o.size /\ b.inner = p.size /\ o.at \in 0..(L - 1)
      /\ b.indices[o.at + 1] = p.at /\ L \in Nat /\ b.inner \in Nat
      /\ b.indices[o.at + 1] \in Nat
  BY DEF Leads, Listing
<1>2. Larger(1, 1) = 1
  BY DEF Larger
<1>3. /\ Listing(e) /\ Len(e.indices) = L * 1 /\ e.inner = b.inner * 1
      /\ e.indices[(L * 0 + o.at) + 1] = b.indices[o.at + 1] + Repeated(1 > 1, 0, b.inner)
  <2>1. 1 \in Nat /\ Larger(1, 1) >= 1 /\ 0 \in 0..(Larger(1, 1) - 1)
    BY <1>2
  <2>2. Listing(b)
    BY <1>1
  <2>3. /\ Listing(e) /\ Len(e.indices) = L * Larger(1, 1) /\ e.inner = b.inner * 1
        /\ \A m \in 0..(L - 1), q \in 0..(Larger(1, 1) - 1) :
             /\ (L * q + m) + 1 \in 1..(L * Larger(1, 1))
             /\ e.indices[(L * q + m) + 1] = b.indices[m + 1] + Repeated(1 > 1, q, b.inner)
    BY <2>1, <2>2, ListedOnce, Zenon
  <2> HIDE DEF e, L
  <2> QED
    BY <1>1, <1>2, <2>1, <2>3
<1> HIDE DEF L, e
<1>4. L * 1 = L /\ b.inner * 1 = b.inner /\ L * 0 + o.at = o.at /\ b.inner * 0 = 0
  BY <1>1
<1>5. Repeated(1 > 1, 0, b.inner) = 0
  BY <1>4 DEF Repeated
<1>6. e.indices[o.at + 1] = p.at
  BY <1>1, <1>3, <1>4, <1>5
<1>7. Leads(e, o, p)
  BY <1>1, <1>3, <1>4, <1>6 DEF Leads
<1> QED
  BY <1>7 DEF e

-----------------------------------------------------------------------------
(* What is put together of one input.                                      *)

Parts == [reshape : Seq(Nat), bcast : Seq(Nat), grad_reduce_idx : Seq(Nat)]

(* The part leads from place o of the output to place p of the input. *)
Side(part, o, p) ==
  /\ part \in Parts /\ Len(part.reshape) = Len(part.bcast)
  /\ NumElements(part.reshape) = p.size
  /\ Leads(OfDimensions(part.reshape, part.bcast), o, p)

(* Its outermost dimension is one that is repeated, or is not. *)
Outermost(part, repeated, s, t, r, c) ==
  /\ s \in Seq(Nat) /\ t \in Seq(Nat) /\ Len(s) = Len(t)
  /\ r \in Nat /\ c \in Nat /\ r >= 1 /\ c >= 1
  /\ repeated => r = 1
  /\ ~repeated => c = 1
  /\ part.reshape = <<r>> \o s /\ part.bcast = <<c>> \o t
  /\ Listing(OfDimensions(s, t))

Run(part, repeated) == \E s, t, r, c : Outermost(part, repeated, s, t, r, c)

(* A dimension kept apart: the side still leads, and is a run of its own.  *)
LEMMA AloneKeeps ==
  ASSUME NEW o, NEW p, NEW part, Side(part, o, p),
         NEW d \in Nat, NEW out \in Nat, out >= 2, d = 1 \/ d = out, NEW i \in 0..(out - 1)
  PROVE  /\ Side(Apart(part, d, out), Further(o, out, i), Further(p, d, Within(d, i)))
         /\ Run(Apart(part, d, out), d = 1)
<1> DEFINE s == part.reshape
           t == part.bcast
           b == OfDimensions(s, t)
           e == Apart(part, d, out)
           T == Times(d, out)
<1>1. s \in Seq(Nat) /\ t \in Seq(Nat) /\ part.grad_reduce_idx \in Seq(Nat) /\ Len(s) = Len(t)
  BY DEF Side, Parts
<1>2. T \in Nat /\ T >= 1 /\ (d = 1 => T = out) /\ (d # 1 => T = 1)
  BY DEF Times
<1>3. /\ e.reshape = <<d>> \o s /\ e.bcast = <<T>> \o t
      /\ e.grad_reduce_idx = part.grad_reduce_idx
      /\ e = [reshape |-> e.reshape, bcast |-> e.bcast, grad_reduce_idx |-> e.grad_reduce_idx]
  <2>1. part \in Parts
    BY DEF Side
  <2>2. e = [part EXCEPT !.reshape = <<d>> \o s, !.bcast = <<T>> \o t]
    BY DEF Apart, Times
  <2> DEFINE u == <<d>> \o s
             w == <<T>> \o t
  <2>3. e = [part EXCEPT !.reshape = u, !.bcast = w]
    BY <2>2
  <2> HIDE DEF u, w, e, s, t, T
  <2>4. e.reshape = u /\ e.bcast = w /\ e.grad_reduce_idx = part.grad_reduce_idx
        /\ e = [reshape |-> e.reshape, bcast |-> e.bcast, grad_reduce_idx |-> e.grad_reduce_idx]
    BY <2>1, <2>3 DEF Parts
  <2> QED
    BY <2>4 DEF u, w
<1> HIDE DEF s, t, e, T
<1>4. /\ <<d>> \o s \in Seq(Nat) /\ Len(<<d>> \o s) = Len(s) + 1
      /\ <<T>> \o t \in Seq(Nat) /\ Len(<<T>> \o t) = Len(t) + 1
  BY <1>1, <1>2, OneMore
<1>5. e \in Parts /\ Len(e.reshape) = Len(e.bcast)
  BY <1>1, <1>3, <1>4 DEF Parts
<1>6. OfDimensions(e.reshape, e.bcast) = NextDimension(b, d, T)
  BY <1>1, <1>2, <1>3, BatchesOf
<1>7. Listing(b) /\ Leads(b, o, p) /\ NumElements(s) = p.size
  BY DEF Side, Leads, s, t
<1>8. Leads(NextDimension(b, 1 * d, 1 * T), Further(o, out, i), Further(p, d, Within(d, i)))
  <2>1. Leads(NextDimension(b, 1, 1), o, p)
    BY <1>7, LeadsAlone
  <2> HIDE DEF b
  <2> QED
    BY <1>7, <2>1, LeadsFurther DEF T
<1>9. 1 * d = d /\ 1 * T = T
  BY <1>2
<1>10. NumElements(e.reshape) = Further(p, d, Within(d, i)).size
  <2>1. NumElements(s) \in Nat /\ NumElements(<<d>> \o s) = d * NumElements(s)
    BY <1>1, ElementsOf
  <2>2. d * NumElements(s) = NumElements(s) * d
    BY <2>1, Associative
  <2> QED
    BY <1>3, <1>7, <2>1, <2>2 DEF Further
<1>11. Outermost(e, d = 1, s, t, d, T)
  BY <1>1, <1>2, <1>3, <1>7 DEF Outermost
<1>12. Run(e, d = 1)
  BY <1>11 DEF Run
<1>13. Side(e, Further(o, out, i), Further(p, d, Within(d, i)))
  BY <1>5, <1>6, <1>8, <1>9, <1>10 DEF Side
<1> QED
  BY <1>12, <1>13 DEF e

(* Changing the first element of a sequence.                               *)
LEMMA FirstChanged ==
  ASSUME NEW s \in Seq(Nat), NEW r \in Nat, NEW v \in Nat
  PROVE  [<<r>> \o s EXCEPT ![1] = v] = <<v>> \o s
<1> DEFINE a == <<r>> \o s
           b == <<v>> \o s
           n == Len(s) + 1
<1>1. /\ a \in Seq(Nat) /\ Len(a) = n /\ \A i \in 1..Len(s) : a[i + 1] = s[i]
      /\ b \in Seq(Nat) /\ Len(b) = n /\ b[1] = v /\ \A i \in 1..Len(s) : b[i + 1] = s[i]
  BY OneMore
<1>2. n \in Nat /\ Len(s) = n - 1
  OBVIOUS
<1> HIDE DEF a, b, n
<1>3. a \in [1..n -> Nat] /\ b \in [1..n -> Nat]
  <2>1. a \in [1..Len(a) -> Nat] /\ b \in [1..Len(b) -> Nat]
    BY <1>1, LenProperties
  <2> QED
    BY <1>1, <2>1
<1>4. ASSUME NEW j \in 1..n PROVE [a EXCEPT ![1] = v][j] = b[j]
  <2>1. CASE j = 1
    BY <1>1, <1>3, <2>1
  <2>2. CASE j # 1
    <3>1. j - 1 \in 1..Len(s) /\ (j - 1) + 1 = j
      BY <1>2, <2>2
    <3>2. a[j] = b[j]
      BY <1>1, <3>1
    <3> QED
      BY <1>3, <2>2, <3>2
  <2> QED
    BY <2>1, <2>2
<1>5. [a EXCEPT ![1] = v] = b
  BY <1>3, <1>4
<1> QED
  BY <1>5 DEF a, b

(* A dimension put together with the run outside all others: the side      *)
(* still leads, and the run goes on.                                       *)
LEMMA TogetherKeeps ==
  ASSUME NEW o, NEW p, NEW part, Side(part, o, p),
         NEW d \in Nat, NEW out \in Nat, out >= 2, d = 1 \/ d = out, NEW i \in 0..(out - 1),
         Run(part, d = 1)
  PROVE  /\ Side(Joined(part, d, out), Further(o, out, i), Further(p, d, Within(d, i)))
         /\ Run(Joined(part, d, out), d = 1)
<1>1. PICK s, t, r, c : Outermost(part, d = 1, s, t, r, c)
  BY DEF Run
<1> DEFINE b == OfDimensions(s, t)
           e == Joined(part, d, out)
           T == Times(d, out)
<1>2. /\ s \in Seq(Nat) /\ t \in Seq(Nat) /\ Len(s) = Len(t)
      /\ r \in Nat /\ c \in Nat /\ r >= 1 /\ c >= 1
      /\ IF d = 1 THEN r = 1 ELSE c = 1
      /\ part.reshape = <<r>> \o s /\ part.bcast = <<c>> \o t
      /\ Listing(b)
  BY <1>1 DEF Outermost
<1>3. T \in Nat /\ T >= 1 /\ (d = 1 => T = out) /\ (d # 1 => T = 1) /\ d >= 1
  BY DEF Times
<1>4. r * d \in Nat /\ r * d >= 1 /\ c * T \in Nat /\ c * T >= 1
  <2> HIDE DEF T
  <2> QED
    BY <1>2, <1>3, ProductIsNat
<1>5. (<<r>> \o s)[1] = r /\ (<<c>> \o t)[1] = c
  BY <1>2, OneMore
<1>6. /\ e.reshape = [part.reshape EXCEPT ![1] = part.reshape[1] * d]
      /\ e.bcast = [part.bcast EXCEPT ![1] = part.bcast[1] * T]
      /\ e.grad_reduce_idx = part.grad_reduce_idx
      /\ e = [reshape |-> e.reshape, bcast |-> e.bcast, grad_reduce_idx |-> e.grad_reduce_idx]
  <2> DEFINE u == [part.reshape EXCEPT ![1] = part.reshape[1] * d]
             w == [part.bcast EXCEPT ![1] = part.bcast[1] * T]
  <2>1. part \in Parts
    BY DEF Side
  <2>2. e = [part EXCEPT !.reshape = u, !.bcast = w]
    BY <2>1 DEF Joined, Times, Parts
  <2> HIDE DEF u, w, e, T
  <2>3. e.reshape = u /\ e.bcast = w /\ e.grad_reduce_idx = part.grad_reduce_idx
        /\ e = [reshape |-> e.reshape, bcast |-> e.bcast, grad_reduce_idx |-> e.grad_reduce_idx]
    BY <2>1, <2>2 DEF Parts
  <2> QED
    BY <2>3 DEF u, w
<1> HIDE DEF e, T
<1>7. e.reshape = <<r * d>> \o s
  <2> DEFINE v == r * d
             w == <<r>> \o s
  <2>1. w[1] = r /\ part.reshape = w /\ v \in Nat
    BY <1>2, <1>4, <1>5
  <2>2. e.reshape = [part.reshape EXCEPT ![1] = part.reshape[1] * d]
    BY <1>6
  <2> HIDE DEF w
  <2>3. e.reshape = [w EXCEPT ![1] = v]
    BY <2>1, <2>2
  <2> HIDE DEF v
  <2>4. s \in Seq(Nat) /\ r \in Nat
    BY <1>2
  <2>5. [<<r>> \o s EXCEPT ![1] = v] = <<v>> \o s
    BY <2>1, <2>4, FirstChanged, Zenon
  <2> QED
    BY <2>3, <2>5 DEF v, w
<1>8. e.bcast = <<c * T>> \o t
  <2> DEFINE v == c * T
             w == <<c>> \o t
  <2>1. w[1] = c /\ part.bcast = w /\ v \in Nat
    BY <1>2, <1>4, <1>5
  <2>2. e.bcast = [part.bcast EXCEPT ![1] = part.bcast[1] * T]
    BY <1>6
  <2> HIDE DEF w
  <2>3. e.bcast = [w EXCEPT ![1] = v]
    BY <2>1, <2>2
  <2> HIDE DEF v
  <2>4. t \in Seq(Nat) /\ c \in Nat
    BY <1>2
  <2>5. [<<c>> \o t EXCEPT ![1] = v] = <<v>> \o t
    BY <2>1, <2>4, FirstChanged, Zenon
  <2> QED
    BY <2>3, <2>5 DEF v, w
<1>9. /\ <<r * d>> \o s \in Seq(Nat) /\ Len(<<r * d>> \o s) = Len(s) + 1
      /\ <<c * T>> \o t \in Seq(Nat) /\ Len(<<c * T>> \o t) = Len(t) + 1
  BY <1>2, <1>4, OneMore
<1>10. part.grad_reduce_idx \in Seq(Nat)
  BY DEF Side, Parts
<1>11. e \in Parts /\ Len(e.reshape) = Len(e.bcast)
  BY <1>2, <1>6, <1>7, <1>8, <1>9, <1>10 DEF Parts
<1>12. OfDimensions(e.reshape, e.bcast) = NextDimension(b, r * d, c * T)
  BY <1>2, <1>4, <1>7, <1>8, BatchesOf
<1>13. Leads(NextDimension(b, r, c), o, p)
  <2>1. s \in Seq(Nat) /\ t \in Seq(Nat) /\ Len(s) = Len(t) /\ r \in Nat /\ c \in Nat
    BY <1>2
  <2>2. OfDimensions(<<r>> \o s, <<c>> \o t) = NextDimension(b, r, c)
    BY <2>1, BatchesOf, Zenon
  <2> QED
    BY <1>2, <2>2 DEF Side
<1>14. Leads(NextDimension(b, r * d, c * T), Further(o, out, i), Further(p, d, Within(d, i)))
  <2> HIDE DEF b
  <2> QED
    BY <1>2, <1>3, <1>13, LeadsFurther DEF T
<1>15. NumElements(e.reshape) = Further(p, d, Within(d, i)).size
  <2>1. NumElements(s) \in Nat /\ NumElements(<<r * d>> \o s) = (r * d) * NumElements(s)
        /\ NumElements(<<r>> \o s) = r * NumElements(s)
    BY <1>2, <1>4, ElementsOf
  <2>2. p.size = r * NumElements(s)
    BY <1>2, <2>1 DEF Side
  <2>3. (r * d) * NumElements(s) = (r * NumElements(s)) * d
    <3> DEFINE N == NumElements(s)
    <3>1. N \in Nat
      BY <2>1
    <3> HIDE DEF N
    <3>2. (r * d) * N = r * (d * N) /\ d * N = N * d
      BY <1>2, <3>1, Associative
    <3>3. (r * N) * d = r * (N * d)
      BY <1>2, <3>1, Associative
    <3> QED
      BY <3>2, <3>3 DEF N
  <2> QED
    BY <1>7, <2>1, <2>2, <2>3 DEF Further
<1>16. Outermost(e, d = 1, s, t, r * d, c * T)
  <2>1. (d = 1 => r * d = 1) /\ (d # 1 => c * T = 1)
    BY <1>2, <1>3
  <2> QED
    BY <1>2, <1>4, <1>7, <1>8, <2>1 DEF Outermost
<1>17. Run(e, d = 1)
  BY <1>16 DEF Run
<1>18. Side(e, Further(o, out, i), Further(p, d, Within(d, i)))
  BY <1>11, <1>12, <1>14, <1>15 DEF Side
<1> QED
  BY <1>17, <1>18 DEF e

-----------------------------------------------------------------------------
(* A dimension of both inputs.                                             *)

Results == [x : Parts, y : Parts, output : Seq(Nat), one : {"unknown", "x", "y", "neither"}]

(* r leads from place o of the output to place p of x and q of y.          *)
Both(r, o, p, q) ==
  /\ r \in Results
  /\ Side(r.x, o, p) /\ Side(r.y, o, q)
  /\ r.one = "unknown" => r.x.reshape = <<>> /\ r.y.reshape = <<>>
  /\ r.one # "unknown" => Run(r.x, r.one = "x") /\ Run(r.y, r.one = "y")
  /\ NumElements(r.output) = o.size

(* The gradient's dimensions say nothing about the shapes.                 *)
LEMMA ReducedKeeps ==
  ASSUME NEW part \in Parts, NEW d, NEW k \in Nat
  PROVE  /\ Reduced(part, d, k) \in Parts
         /\ Reduced(part, d, k).reshape = part.reshape
         /\ Reduced(part, d, k).bcast = part.bcast
<1> DEFINE g == <<k>> \o part.grad_reduce_idx
<1>1. g \in Seq(Nat)
  <2>1. part.grad_reduce_idx \in Seq(Nat)
    BY DEF Parts
  <2> QED
    BY <2>1, OneMore
<1>2. Reduced(part, d, k) = IF d = 1 THEN [part EXCEPT !.grad_reduce_idx = g] ELSE part
  BY DEF Reduced
<1> HIDE DEF g
<1> QED
  BY <1>1, <1>2 DEF Parts

(* Where a side leads depends on its shapes only.                          *)
LEMMA OnlyShapes ==
  ASSUME NEW a, NEW b \in Parts, a.reshape = b.reshape, a.bcast = b.bcast
  PROVE  /\ \A o, p : Side(a, o, p) => Side(b, o, p)
         /\ \A repeated : Run(a, repeated) => Run(b, repeated)
BY DEF Side, Run, Outermost

(* Where a side leads depends on the numbers of the places only.           *)
LEMMA OnlyPlaces ==
  ASSUME NEW part, NEW o, NEW p, NEW oo, NEW pp, Side(part, o, p),
         oo.at = o.at, oo.size = o.size, pp.at = p.at, pp.size = p.size
  PROVE  Side(part, oo, pp)
BY DEF Side, Leads

(* A dimension of size one leads no further.                               *)
LEMMA FurtherByOne ==
  ASSUME NEW o, o.at \in Nat, o.size \in Nat
  PROVE  Further(o, 1, 0).at = o.at /\ Further(o, 1, 0).size = o.size
<1>1. 0 * o.size = 0 /\ o.size * 1 = o.size
  OBVIOUS
<1> QED
  BY <1>1 DEF Further

(* The places of a side are natural numbers inside the output.             *)
LEMMA SidePlaces ==
  ASSUME NEW part, NEW o, NEW p, Side(part, o, p)
  PROVE  o.at \in 0..(o.size - 1) /\ o.size \in Nat /\ o.at \in Nat /\ p.at \in Nat
         /\ p.size \in Nat
<1> DEFINE b == OfDimensions(part.reshape, part.bcast)
<1>1. Leads(b, o, p)
  BY DEF Side
<1> HIDE DEF b
<1> QED
  BY <1>1 DEF Leads, Listing

PutOut(x, d, out, run) == IF run THEN Joined(x, d, out) ELSE Apart(x, d, out)

(* One side through one dimension of the loop in BCastList.                *)
LEMMA SideKeeps ==
  ASSUME NEW o, NEW p, NEW part, Side(part, o, p), NEW k \in Nat,
         NEW d \in Nat, NEW out \in Nat, out >= 2, d = 1 \/ d = out, NEW i \in 0..(out - 1),
         NEW run, run => Run(part, d = 1)
  PROVE  LET e == PutOut(Reduced(part, d, k), d, out, run)
         IN  /\ Side(e, Further(o, out, i), Further(p, d, Within(d, i)))
             /\ Run(e, d = 1)
<1> DEFINE a == Reduced(part, d, k)
<1>1. part \in Parts
  BY DEF Side
<1>2. a \in Parts /\ a.reshape = part.reshape /\ a.bcast = part.bcast
  BY <1>1, ReducedKeeps
<1> HIDE DEF a
<1>3. Side(a, o, p) /\ (run => Run(a, d = 1))
  BY <1>2, OnlyShapes
<1>4. CASE run
  BY <1>3, <1>4, TogetherKeeps DEF PutOut, a
<1>5. CASE ~run
  BY <1>3, <1>5, AloneKeeps DEF PutOut, a
<1> QED
  BY <1>4, <1>5

(* Both sides through one dimension of the loop in BCastList: whatever the *)
(* branch it takes, each side leads to its input's place.                  *)
LEMMA StepKeeps ==
  ASSUME NEW r, NEW o, NEW p, NEW q, Both(r, o, p, q), NEW k \in Nat,
         NEW d \in Nat, NEW e \in Nat, NEW out \in Nat, Compatible(d, e),
         out = (IF d = 1 THEN e ELSE d), NEW i \in 0..(out - 1)
  PROVE  Both(Step(r, d, e, k), Further(o, out, i), Further(p, d, Within(d, i)),
              Further(q, e, Within(e, i)))
<1> DEFINE s == Step(r, d, e, k)
           O == Further(o, out, i)
           P == Further(p, d, Within(d, i))
           Q == Further(q, e, Within(e, i))
           w == <<out>> \o r.output
<1>1. r \in Results /\ Side(r.x, o, p) /\ Side(r.y, o, q)
  BY DEF Both
<1>2. r.x \in Parts /\ r.y \in Parts /\ r.output \in Seq(Nat)
  BY <1>1 DEF Results
<1>3. w \in Seq(Nat) /\ NumElements(w) = O.size
  <2>1. w \in Seq(Nat)
    BY <1>2, OneMore
  <2>2. NumElements(r.output) \in Nat /\ NumElements(w) = out * NumElements(r.output)
    BY <1>2, ElementsOf
  <2>3. NumElements(r.output) = o.size
    BY DEF Both
  <2>4. out * o.size = o.size * out
    BY <2>2, <2>3, Associative
  <2> QED
    BY <2>1, <2>2, <2>3, <2>4 DEF Further
<1>4. CASE d = 1 /\ e = 1
  <2>1. out = 1 /\ i = 0 /\ Within(d, i) = 0 /\ Within(e, i) = 0
    BY <1>4 DEF Within
  <2>2. O.at = o.at /\ O.size = o.size /\ P.at = p.at /\ P.size = p.size
        /\ Q.at = q.at /\ Q.size = q.size
    BY <1>1, <1>4, <2>1, SidePlaces, FurtherByOne
  <2> DEFINE x == Reduced(r.x, d, k)
             y == Reduced(r.y, e, k)
  <2>3. /\ x \in Parts /\ x.reshape = r.x.reshape /\ x.bcast = r.x.bcast
        /\ y \in Parts /\ y.reshape = r.y.reshape /\ y.bcast = r.y.bcast
    BY <1>2, ReducedKeeps
  <2>4. s = [r EXCEPT !.x = x, !.y = y, !.output = w]
    BY <1>4, <2>1 DEF Step
  <2> HIDE DEF x, y, w, s, O, P, Q
  <2>5. s \in Results /\ s.x = x /\ s.y = y /\ s.output = w /\ s.one = r.one
    BY <1>1, <1>3, <2>3, <2>4 DEF Results
  <2>6. Side(x, o, p) /\ Side(y, o, q)
    BY <1>1, <2>3, OnlyShapes
  <2>7. Side(x, O, P) /\ Side(y, O, Q)
    BY <2>2, <2>6, OnlyPlaces
  <2>8. r.one # "unknown" => Run(x, r.one = "x") /\ Run(y, r.one = "y")
    BY <2>3, OnlyShapes DEF Both
  <2>9. r.one = "unknown" => x.reshape = <<>> /\ y.reshape = <<>>
    BY <2>3 DEF Both
  <2>10. Both(s, O, P, Q)
    BY <1>3, <2>5, <2>7, <2>8, <2>9 DEF Both
  <2> QED
    BY <2>10 DEF s, O, P, Q
<1>5. CASE ~(d = 1 /\ e = 1)
  <2>1. out >= 2 /\ (d = 1 \/ d = out) /\ (e = 1 \/ e = out)
    BY <1>5 DEF Compatible
  <2> DEFINE run == r.one = OneIs(d, e)
             x == PutOut(Reduced(r.x, d, k), d, out, run)
             y == PutOut(Reduced(r.y, e, k), e, out, run)
  <2>2. /\ OneIs(d, e) \in {"x", "y", "neither"}
        /\ OneIs(d, e) = "x" <=> d = 1
        /\ OneIs(d, e) = "y" <=> e = 1
    BY <1>5 DEF OneIs
  <2>3. s = [x |-> x, y |-> y, output |-> w, one |-> OneIs(d, e)]
    BY <1>5 DEF Step, PutOut
  <2>4. run => Run(r.x, d = 1) /\ Run(r.y, e = 1)
    <3> SUFFICES ASSUME run PROVE Run(r.x, d = 1) /\ Run(r.y, e = 1)
      OBVIOUS
    <3>1. Run(r.x, r.one = "x") /\ Run(r.y, r.one = "y")
      BY <2>2 DEF Both
    <3>2. (r.one = "x") = (d = 1) /\ (r.one = "y") = (e = 1)
      BY <2>2
    <3> QED
      BY <3>1, <3>2
  <2> HIDE DEF run, O, P, Q, w, s
  <2>5. Side(x, O, P) /\ Run(x, d = 1)
    BY <1>1, <2>1, <2>4, SideKeeps DEF O, P
  <2>6. Side(y, O, Q) /\ Run(y, e = 1)
    BY <1>1, <2>1, <2>4, SideKeeps DEF O, Q
  <2> HIDE DEF x, y
  <2>7. x \in Parts /\ y \in Parts
    BY <2>5, <2>6 DEF Side
  <2>8. s \in Results /\ s.x = x /\ s.y = y /\ s.output = w /\ s.one = OneIs(d, e)
    BY <1>3, <2>2, <2>3, <2>7 DEF Results
  <2>9. Run(x, s.one = "x") /\ Run(y, s.one = "y")
    <3>1. (s.one = "x") = (d = 1) /\ (s.one = "y") = (e = 1)
      BY <2>2, <2>8
    <3> QED
      BY <2>5, <2>6, <3>1
  <2>10. s.one # "unknown"
    BY <2>2, <2>8
  <2>11. Both(s, O, P, Q)
    BY <1>3, <2>5, <2>6, <2>8, <2>9, <2>10 DEF Both
  <2> QED
    BY <2>11 DEF s, O, P, Q
<1> QED
  BY <1>4, <1>5

(* Before the loop both sides lead from the origin to the origin.          *)
LEMMA BothAtOrigin == Both(NoDimensionYet, Origin, Origin, Origin)
<1> DEFINE e == <<>>
           z == <<0>>
           n == Part(e, e, e)
<1>1. e \in Seq(Nat) /\ Len(e) = 0 /\ z \in Seq(Nat) /\ Len(z) = 1 /\ z[1] = 0
  OBVIOUS
<1>2. NumElements(e) = 1 /\ OfDimensions(e, e) = [indices |-> z, inner |-> 1]
  BY ElementsOfNone, BatchesOfNone DEF FirstBatch
<1> HIDE DEF e, z
<1>3. n \in Parts /\ n.reshape = e /\ n.bcast = e
  BY <1>1 DEF Part, Parts
<1>4. Leads(OfDimensions(e, e), Origin, Origin)
  <2> DEFINE b == OfDimensions(e, e)
  <2>1. b.indices = z /\ b.inner = 1
    BY <1>2
  <2>2. Origin.at = 0 /\ Origin.size = 1
    BY DEF Origin
  <2> HIDE DEF b
  <2>3. Listing(b)
    <3>1. b.indices \in Seq(Nat)
      BY <1>1, <2>1
    <3>2. Len(b.indices) = 1
      BY <1>1, <2>1
    <3> QED
      BY <2>1, <3>1, <3>2 DEF Listing
  <2>4. Leads(b, Origin, Origin)
    BY <1>1, <2>1, <2>2, <2>3 DEF Leads
  <2> QED
    BY <2>4 DEF b
<1> HIDE DEF n
<1>5. Side(n, Origin, Origin)
  BY <1>1, <1>2, <1>3, <1>4 DEF Side, Origin
<1>6. NoDimensionYet = [x |-> n, y |-> n, output |-> e, one |-> "unknown"]
  BY DEF NoDimensionYet, n, e
<1> HIDE DEF n
<1>7. NoDimensionYet \in Results
  BY <1>1, <1>3, <1>6 DEF Results
<1>8. Both(NoDimensionYet, Origin, Origin, Origin)
  BY <1>2, <1>3, <1>5, <1>6, <1>7 DEF Both, Origin, e
<1> QED
  BY <1>8

(* Each dimension adds its size to the output's shape.                     *)
LEMMA StepOutput ==
  ASSUME NEW r, "output" \in DOMAIN r, NEW d \in Nat, NEW e \in Nat, NEW k
  PROVE  /\ "output" \in DOMAIN Step(r, d, e, k)
         /\ Step(r, d, e, k).output = <<IF d = 1 THEN e ELSE d>> \o r.output
<1> DEFINE w == <<IF d = 1 THEN e ELSE d>> \o r.output
           run == r.one = OneIs(d, e)
           x == Reduced(r.x, d, k)
           y == Reduced(r.y, e, k)
           out == IF d = 1 THEN e ELSE d
           px == IF run THEN Joined(x, d, out) ELSE Apart(x, d, out)
           py == IF run THEN Joined(y, e, out) ELSE Apart(y, e, out)
<1>1. CASE d = 1 /\ e = 1
  <2>1. Step(r, d, e, k) = [r EXCEPT !.x = x, !.y = y, !.output = w]
    BY <1>1 DEF Step
  <2> HIDE DEF w, x, y
  <2>2. "output" \in DOMAIN Step(r, d, e, k) /\ Step(r, d, e, k).output = w
    BY <2>1
  <2> QED
    BY <2>2 DEF w
<1>2. CASE ~(d = 1 /\ e = 1)
  <2>1. Step(r, d, e, k) = [x |-> px, y |-> py, output |-> w, one |-> OneIs(d, e)]
    BY <1>2 DEF Step
  <2> HIDE DEF w, px, py
  <2>2. "output" \in DOMAIN Step(r, d, e, k) /\ Step(r, d, e, k).output = w
    BY <2>1
  <2> QED
    BY <2>2 DEF w
<1> QED
  BY <1>1, <1>2

-----------------------------------------------------------------------------
(* All dimensions.                                                         *)

(* Two shapes of one length, that agree, and what they are broadcast to.   *)
Agree(xs, ys, outs) ==
  /\ xs \in Seq(Nat) /\ ys \in Seq(Nat) /\ outs \in Seq(Nat)
  /\ Len(ys) = Len(xs) /\ Len(outs) = Len(xs)
  /\ \A k \in 1..Len(xs) : /\ Compatible(xs[k], ys[k])
                           /\ outs[k] = IF xs[k] = 1 THEN ys[k] ELSE xs[k]

(* The output's shape is that of the dimensions, each the larger one.      *)
LEMMA OutputOfAll ==
  ASSUME NEW xs, NEW ys, NEW outs, Agree(xs, ys, outs)
  PROVE  AllDimensions(xs, ys).output = outs
<1> DEFINE R == Len(xs)
<1>1. /\ xs \in Seq(Nat) /\ ys \in Seq(Nat) /\ outs \in Seq(Nat) /\ Len(outs) = R /\ R \in Nat
      /\ \A k \in 1..R : /\ xs[k] \in Nat /\ ys[k] \in Nat /\ outs[k] \in Nat
                         /\ outs[k] = IF xs[k] = 1 THEN ys[k] ELSE xs[k]
  BY DEF Agree
<1>2. PICK f : AllSteps(xs, ys, f)
  BY <1>1, StepsLoop
<1>3. /\ f[0] = NoDimensionYet
      /\ \A k \in 1..R : f[k] = Step(f[k - 1], xs[R - k + 1], ys[R - k + 1], R - k)
      /\ AllDimensions(xs, ys) = f[R]
  BY <1>2 DEF AllSteps
<1> HIDE DEF R
<1> DEFINE Out(k) == f[k].output
           P == {k \in 0..R : /\ "output" \in DOMAIN f[k]
                              /\ Out(k) \in Seq(Nat) /\ Len(Out(k)) = k
                              /\ \A j \in 1..k : Out(k)[j] = outs[(R - k) + j]}
<1>4. 0 \in P
  <2> DEFINE e == <<>>
  <2>1. e \in Seq(Nat) /\ Len(e) = 0
    OBVIOUS
  <2>2. "output" \in DOMAIN NoDimensionYet /\ NoDimensionYet.output = e
    BY DEF NoDimensionYet
  <2> HIDE DEF e
  <2>3. "output" \in DOMAIN f[0] /\ Out(0) = e
    BY <1>3, <2>2
  <2> HIDE DEF Out
  <2>4. 0 \in 0..R
    BY <1>1
  <2>5. Out(0) \in Seq(Nat)
    BY <2>1, <2>3
  <2>6. Len(Out(0)) = 0
    BY <2>1, <2>3
  <2>7. \A j \in 1..0 : Out(0)[j] = outs[(R - 0) + j]
    OBVIOUS
  <2> QED
    BY <2>3, <2>4, <2>5, <2>6, <2>7
<1>5. ASSUME NEW k \in 1..R, k - 1 \in P PROVE k \in P
  <2>1. /\ "output" \in DOMAIN f[k - 1]
        /\ Out(k - 1) \in Seq(Nat) /\ Len(Out(k - 1)) = k - 1
        /\ \A j \in 1..(k - 1) : Out(k - 1)[j] = outs[(R - (k - 1)) + j]
    BY <1>5
  <2>2. R - k + 1 \in 1..R /\ k \in 0..R /\ R - k + 1 = (R - k) + 1
    BY <1>1
  <2> DEFINE m == outs[R - k + 1]
  <2>3. "output" \in DOMAIN f[k] /\ Out(k) = <<m>> \o Out(k - 1) /\ m \in Nat
    <3> DEFINE a == xs[R - k + 1]
               b == ys[R - k + 1]
               r == f[k - 1]
               z == R - k
    <3>1. a \in Nat /\ b \in Nat /\ m \in Nat /\ m = IF a = 1 THEN b ELSE a
      BY <1>1, <2>2
    <3>2. f[k] = Step(r, a, b, z)
      BY <1>3
    <3>3. "output" \in DOMAIN r
      BY <2>1
    <3> HIDE DEF m, a, b, r, z
    <3>4. "output" \in DOMAIN f[k] /\ f[k].output = <<m>> \o r.output
      BY <3>1, <3>2, <3>3, StepOutput
    <3> QED
      BY <3>1, <3>4 DEF r
  <2> HIDE DEF Out
  <2>4. /\ Out(k) \in Seq(Nat) /\ Len(Out(k)) = (k - 1) + 1 /\ Out(k)[1] = m
        /\ \A j \in 1..(k - 1) : Out(k)[j + 1] = Out(k - 1)[j]
    <3> HIDE DEF m
    <3> QED
      BY <2>1, <2>3, OneMore
  <2>5. ASSUME NEW j \in 1..k PROVE Out(k)[j] = outs[(R - k) + j]
    <3>1. CASE j = 1
      BY <2>2, <2>4, <3>1
    <3>2. CASE j # 1
      <4>1. j - 1 \in 1..(k - 1) /\ (j - 1) + 1 = j /\ (R - (k - 1)) + (j - 1) = (R - k) + j
        BY <1>1, <3>2
      <4>2. Out(k)[(j - 1) + 1] = Out(k - 1)[j - 1]
            /\ Out(k - 1)[j - 1] = outs[(R - (k - 1)) + (j - 1)]
        BY <2>1, <2>4, <4>1
      <4> QED
        BY <4>1, <4>2
    <3> QED
      BY <3>1, <3>2
  <2>6. (k - 1) + 1 = k
    OBVIOUS
  <2> QED
    BY <2>2, <2>3, <2>4, <2>5, <2>6 DEF Out
<1>6. R \in P
  <2> HIDE DEF P
  <2>1. P \in SUBSET (0..R)
    BY DEF P
  <2>2. P = 0..R
    BY <1>1, <1>4, <1>5, <2>1, Throughout
  <2> QED
    BY <1>1, <2>2
<1>7. /\ Out(R) \in Seq(Nat) /\ Len(Out(R)) = R
      /\ \A j \in 1..R : Out(R)[j] = outs[(R - R) + j]
  BY <1>6
<1> HIDE DEF Out
<1>8. \A j \in 1..R : Out(R)[j] = outs[j]
  BY <1>1, <1>7
<1>9. Out(R) = outs
  BY <1>1, <1>7, <1>8, SeqEqual
<1> QED
  BY <1>3, <1>9 DEF Out

(* The input has no more places than the output, and the same ones if it   *)
(* has as many.                                                            *)
NoMore(p, o) ==
  /\ p.size >= 1 /\ p.size <= o.size
  /\ p.size = o.size => p.at = o.at

(* An input with no more batches than the output stays so, and at the same *)
(* place while it has as many, from one dimension to the next.             *)
LEMMA NoMoreFurther ==
  ASSUME NEW p, NEW o, p.size \in Nat, p.at \in Nat, o.size \in Nat, o.at \in Nat, NoMore(p, o),
         NEW d \in Nat, d >= 1, NEW out \in Nat, d = 1 \/ d = out, NEW i \in 0..(out - 1)
  PROVE  NoMore(Further(p, d, Within(d, i)), Further(o, out, i))
<1> DEFINE ps == p.size
           pa == p.at
           os == o.size
           oa == o.at
           w  == Within(d, i)
<1>1. /\ ps \in Nat /\ pa \in Nat /\ os \in Nat /\ oa \in Nat /\ i \in Nat /\ out >= 1
      /\ ps >= 1 /\ ps <= os /\ (ps = os => pa = oa)
  BY DEF NoMore
<1>2. /\ Further(p, d, w).size = ps * d /\ Further(p, d, w).at = pa + w * ps
      /\ Further(o, out, i).size = os * out /\ Further(o, out, i).at = oa + i * os
  BY DEF Further
<1>3. (d = 1 => w = 0) /\ (d # 1 => w = i)
  BY DEF Within
<1> HIDE DEF ps, pa, os, oa, w
<1>4. CASE d = out
  <2>1. out * (os - ps) = out * os - out * ps /\ out * os = os * out /\ out * ps = ps * out
    BY <1>1, Distributive, Associative
  <2>2. ps * d \in Nat /\ ps * d >= 1 /\ os * out \in Nat
    BY <1>1, ProductIsNat
  <2>3. ps # os => ps * d < os * out
    <3>1. SUFFICES ASSUME ps # os PROVE ps * d < os * out
      OBVIOUS
    <3>2. os - ps \in Nat /\ os - ps >= 1
      BY <1>1, <3>1
    <3>3. out * (os - ps) >= 1
      BY <1>1, <3>2, ProductIsNat
    <3> QED
      BY <1>4, <2>1, <2>2, <3>3
  <2>4. ps = os => pa + w * ps = oa + i * os
    <3>1. d = 1 => i = 0
      BY <1>4
    <3> QED
      BY <1>1, <1>3, <3>1
  <2>5. ps = os => ps * d = os * out
    BY <1>4
  <2>6. ps * d <= os * out /\ (ps * d = os * out => pa + w * ps = oa + i * os)
    <3>1. CASE ps = os
      BY <2>2, <2>4, <2>5, <3>1
    <3>2. CASE ps # os
      BY <2>2, <2>3, <3>2
    <3> QED
      BY <3>1, <3>2
  <2> QED
    BY <1>2, <2>2, <2>6 DEF NoMore, w
<1>5. CASE d # out
  <2>1. d = 1 /\ out >= 2 /\ ps * d = ps
    BY <1>1, <1>5
  <2>2. os * (out - 1) >= os /\ os * (out - 1) = os * out - os * 1 /\ os * 1 = os
        /\ os * out \in Nat
    BY <1>1, <2>1, Multiple, Distributive
  <2>3. ps * d < os * out
    BY <1>1, <2>1, <2>2
  <2> QED
    BY <1>1, <1>2, <2>1, <2>2, <2>3 DEF NoMore, w
<1> QED
  BY <1>4, <1>5

Inside(index, dims) ==
  /\ index \in Seq(Nat) /\ Len(index) = Len(dims)
  /\ \A k \in 1..Len(dims) : index[k] \in 0..(dims[k] - 1)

(* The index of an input, of as many dimensions as the output. *)
IndexIn(dims, index) == [k \in 1..Len(dims) |-> Within(dims[k], index[k])]

LeadsFrom(r, outs, xs, ys, index, o, p, q) ==
  /\ Both(r, o, p, q) /\ NoMore(p, o) /\ NoMore(q, o)
  /\ o.at = Place(outs, index)
  /\ p.at = Place(xs, IndexIn(xs, index)) /\ q.at = Place(ys, IndexIn(ys, index))

(* After the loop both sides lead from the place of an index of the output *)
(* to the places of that index in the inputs.                              *)
LEMMA AllLead ==
  ASSUME NEW xs, NEW ys, NEW outs, Agree(xs, ys, outs), NEW index, Inside(index, outs)
  PROVE  \E o, p, q : LeadsFrom(AllDimensions(xs, ys), outs, xs, ys, index, o, p, q)
<1> DEFINE R == Len(xs)
           xi == IndexIn(xs, index)
           yi == IndexIn(ys, index)
<1>1. /\ xs \in Seq(Nat) /\ ys \in Seq(Nat) /\ outs \in Seq(Nat)
      /\ Len(ys) = R /\ Len(outs) = R /\ R \in Nat
      /\ \A k \in 1..R : /\ xs[k] \in Nat /\ ys[k] \in Nat /\ outs[k] \in Nat
                         /\ Compatible(xs[k], ys[k])
                         /\ outs[k] = IF xs[k] = 1 THEN ys[k] ELSE xs[k]
  BY DEF Agree
<1>2. \A k \in 1..R : index[k] \in 0..(outs[k] - 1)
  BY <1>1 DEF Inside
<1>3. \A k \in 1..R : xi[k] = Within(xs[k], index[k]) /\ yi[k] = Within(ys[k], index[k])
  BY <1>1 DEF IndexIn
<1> HIDE DEF xi, yi
<1>4. PICK f : AllSteps(xs, ys, f)
  BY <1>1, StepsLoop
<1>5. PICK o : Places(outs, index, o)
  BY <1>1, PlacesLoop
<1>6. PICK p : Places(xs, xi, p)
  BY <1>1, PlacesLoop
<1>7. PICK q : Places(ys, yi, q)
  BY <1>1, PlacesLoop
<1>8. /\ f[0] = NoDimensionYet
      /\ \A k \in 1..R : f[k] = Step(f[k - 1], xs[R - k + 1], ys[R - k + 1], R - k)
      /\ AllDimensions(xs, ys) = f[R]
  BY <1>4 DEF AllSteps
<1>9. /\ p[0] = Origin
      /\ \A k \in 1..R : p[k] = Further(p[k - 1], xs[R - k + 1], xi[R - k + 1])
      /\ Place(xs, xi) = p[R].at
  BY <1>6 DEF Places
<1> HIDE DEF R
<1>10. /\ o[0] = Origin
       /\ \A k \in 1..R : o[k] = Further(o[k - 1], outs[R - k + 1], index[R - k + 1])
       /\ Place(outs, index) = o[R].at
  BY <1>1, <1>5 DEF Places
<1>11. /\ q[0] = Origin
       /\ \A k \in 1..R : q[k] = Further(q[k - 1], ys[R - k + 1], yi[R - k + 1])
       /\ Place(ys, yi) = q[R].at
  BY <1>1, <1>7 DEF Places
<1> DEFINE P == {k \in 0..R : /\ Both(f[k], o[k], p[k], q[k])
                              /\ NoMore(p[k], o[k]) /\ NoMore(q[k], o[k])}
<1>12. 0 \in P
  <2>1. NoMore(Origin, Origin)
    BY DEF NoMore, Origin
  <2> QED
    BY <1>1, <1>8, <1>9, <1>10, <1>11, <2>1, BothAtOrigin
<1>13. ASSUME NEW k \in 1..R, k - 1 \in P PROVE k \in P
  <2> DEFINE r == f[k - 1]
             oo == o[k - 1]
             pp == p[k - 1]
             qq == q[k - 1]
             d == xs[R - k + 1]
             e == ys[R - k + 1]
             out == outs[R - k + 1]
             i == index[R - k + 1]
             z == R - k
  <2>1. Both(r, oo, pp, qq) /\ NoMore(pp, oo) /\ NoMore(qq, oo)
    BY <1>13
  <2>2. R - k + 1 \in 1..R /\ k \in 0..R /\ z \in Nat
    BY <1>1
  <2>3. /\ d \in Nat /\ e \in Nat /\ out \in Nat /\ Compatible(d, e)
        /\ out = (IF d = 1 THEN e ELSE d) /\ i \in 0..(out - 1)
    BY <1>1, <1>2, <2>2
  <2>4. f[k] = Step(r, d, e, z) /\ o[k] = Further(oo, out, i)
    BY <1>8, <1>10
  <2>5. p[k] = Further(pp, d, Within(d, i)) /\ q[k] = Further(qq, e, Within(e, i))
    BY <1>3, <1>9, <1>11, <2>2
  <2> HIDE DEF r, oo, pp, qq, d, e, out, i, z
  <2>6. Both(f[k], o[k], p[k], q[k])
    BY <2>1, <2>2, <2>3, <2>4, <2>5, StepKeeps
  <2>7. d >= 1 /\ e >= 1 /\ (d = 1 \/ d = out) /\ (e = 1 \/ e = out)
    BY <2>3 DEF Compatible
  <2>8. /\ oo.size \in Nat /\ oo.at \in Nat /\ pp.size \in Nat /\ pp.at \in Nat
        /\ qq.size \in Nat /\ qq.at \in Nat
    <3>1. Side(r.x, oo, pp) /\ Side(r.y, oo, qq)
      BY <2>1 DEF Both
    <3> QED
      BY <3>1, SidePlaces
  <2>9. NoMore(p[k], o[k])
    BY <2>1, <2>3, <2>4, <2>5, <2>7, <2>8, NoMoreFurther
  <2>10. NoMore(q[k], o[k])
    BY <2>1, <2>3, <2>4, <2>5, <2>7, <2>8, NoMoreFurther
  <2> QED
    BY <2>2, <2>6, <2>9, <2>10
<1>14. R \in P
  <2> HIDE DEF P
  <2>1. P \in SUBSET (0..R)
    BY DEF P
  <2>2. P = 0..R
    BY <1>1, <1>12, <1>13, <2>1, Throughout
  <2> QED
    BY <1>1, <2>2
<1>15. LeadsFrom(AllDimensions(xs, ys), outs, xs, ys, index, o[R], p[R], q[R])
  BY <1>8, <1>9, <1>10, <1>11, <1>14 DEF LeadsFrom, xi, yi
<1> QED
  BY <1>15

-----------------------------------------------------------------------------
(* Indices and places, of tensors of fewer dimensions too.                 *)

(* An index of a shape is inside each of its dimensions.                   *)
LEMMA IndicesAreInside ==
  ASSUME NEW dims \in Seq(Nat), NEW index \in Indices(dims)
  PROVE  Inside(index, dims)
<1> DEFINE L == Len(dims)
<1>1. L \in Nat /\ \A k \in 1..L : dims[k] \in Nat
  OBVIOUS
<1>2. PICK f : IndexPrefixes(dims, f)
  BY IndicesLoop
<1>3. f[0] = NoIndex /\ (\A k \in 1..L : f[k] = Longer(f[k - 1], dims[k])) /\ Indices(dims) = f[L]
  BY <1>2 DEF IndexPrefixes
<1> HIDE DEF L
<1> DEFINE Fits(x, k) == /\ x \in Seq(Nat) /\ Len(x) = k
                         /\ \A j \in 1..k : x[j] \in 0..(dims[j] - 1)
           P == {k \in 0..L : \A x \in f[k] : Fits(x, k)}
<1>4. 0 \in P
  <2>1. 0 \in 0..L
    BY <1>1
  <2>2. ASSUME NEW x \in f[0] PROVE Fits(x, 0)
    <3>1. x = <<>>
      BY <1>3 DEF NoIndex
    <3>2. x \in Seq(Nat) /\ Len(x) = 0
      BY <3>1
    <3> QED
      BY <3>2
  <2> QED
    BY <2>1, <2>2
<1>5. ASSUME NEW k \in 1..L, k - 1 \in P PROVE k \in P
  <2>1. ASSUME NEW x \in f[k] PROVE Fits(x, k)
    <3>1. \E y \in f[k - 1] : \E i \in 0..(dims[k] - 1) : x = Append(y, i)
      BY <1>3 DEF Longer, Upto
    <3>2. PICK y \in f[k - 1] : \E i \in 0..(dims[k] - 1) : x = Append(y, i)
      BY <3>1
    <3>3. PICK i \in 0..(dims[k] - 1) : x = Append(y, i)
      BY <3>2
    <3>4. Fits(y, k - 1)
      BY <1>5
    <3>5. i \in Nat
      BY <1>1
    <3>6. /\ x \in Seq(Nat) /\ Len(x) = (k - 1) + 1 /\ x[k] = i
          /\ \A j \in 1..(k - 1) : x[j] = y[j]
      BY <1>1, <3>3, <3>4, <3>5, AppendProperties
    <3>7. (k - 1) + 1 = k
      BY <1>1
    <3>8. ASSUME NEW j \in 1..k PROVE x[j] \in 0..(dims[j] - 1)
      <4>1. CASE j = k
        BY <3>6, <4>1
      <4>2. CASE j # k
        <5>1. j \in 1..(k - 1)
          BY <1>1, <4>2
        <5> QED
          BY <3>4, <3>6, <5>1
      <4> QED
        BY <4>1, <4>2
    <3> QED
      BY <3>6, <3>7, <3>8
  <2>2. k \in 0..L
    BY <1>1
  <2> QED
    BY <2>1, <2>2
<1>6. L \in P
  <2> HIDE DEF P
  <2>1. P \in SUBSET (0..L)
    BY DEF P
  <2>2. P = 0..L
    BY <1>1, <1>4, <1>5, <2>1, Throughout
  <2> QED
    BY <1>1, <2>2
<1>7. Fits(index, L)
  BY <1>3, <1>6
<1> QED
  BY <1>7 DEF Inside, L

(* The shape BCastList extends with ones is the shape aligned on the right. *)
LEMMA ExtendedIsAligned ==
  ASSUME NEW dims \in Seq(Nat), NEW rank \in Nat, rank >= Len(dims)
  PROVE  /\ Extended(dims, rank) = Aligned(dims, rank)
         /\ Aligned(dims, rank) \in Seq(Nat) /\ Len(Aligned(dims, rank)) = rank
         /\ \A k \in 1..rank :
              Aligned(dims, rank)[k] = IF k - rank + Len(dims) > 0 THEN dims[k - rank + Len(dims)]
                                       ELSE 1
<1> DEFINE L == Len(dims)
           n == rank - L
           ones == [k \in 1..n |-> 1]
           a == Aligned(dims, rank)
           e == Extended(dims, rank)
<1>1. L \in Nat /\ n \in Nat /\ \A j \in 1..L : dims[j] \in Nat
  OBVIOUS
<1>2. a = [k \in 1..rank |-> IF k - rank + L > 0 THEN dims[k - rank + L] ELSE 1]
  BY DEF Aligned
<1>3. e = ones \o dims
  BY DEF Extended
<1> HIDE DEF L, n, a, e
<1>4. ones \in Seq(Nat) /\ Len(ones) = n /\ \A k \in 1..n : ones[k] = 1
  <2>1. ones \in [1..n -> Nat]
    OBVIOUS
  <2>2. \A k \in 1..n : ones[k] = 1
    OBVIOUS
  <2> HIDE DEF ones
  <2> QED
    BY <1>1, <2>1, <2>2
<1> HIDE DEF ones
<1>5. n + L = rank
  BY <1>1 DEF n
<1>6. e \in Seq(Nat) /\ Len(e) = rank
      /\ \A k \in 1..rank : e[k] = IF k <= n THEN ones[k] ELSE dims[k - n]
  BY <1>1, <1>3, <1>4, <1>5, ConcatProperties DEF L
<1>7. \A k \in 1..rank : a[k] = IF k - rank + L > 0 THEN dims[k - rank + L] ELSE 1
  BY <1>2
<1>8. a \in [1..rank -> Nat]
  <2>1. ASSUME NEW k \in 1..rank
        PROVE  (IF k - rank + L > 0 THEN dims[k - rank + L] ELSE 1) \in Nat
    <3>1. k - rank + L > 0 => k - rank + L \in 1..L
      BY <1>1
    <3> QED
      BY <1>1, <3>1
  <2> QED
    BY <1>2, <2>1
<1>9. a \in Seq(Nat) /\ Len(a) = rank
  BY <1>8
<1>10. ASSUME NEW k \in 1..rank PROVE e[k] = a[k]
  <2>1. k - rank + L = k - n
    BY <1>1, <1>5
  <2>2. k <= n <=> ~(k - rank + L > 0)
    BY <1>1, <1>5
  <2>3. k <= n => ones[k] = 1
    BY <1>1, <1>4
  <2> QED
    BY <1>6, <1>7, <2>1, <2>2, <2>3
<1>11. e = a
  BY <1>6, <1>9, <1>10, SeqEqual
<1> QED
  BY <1>7, <1>9, <1>11 DEF L, a, e

(* Dimensions of 1 in front change no place. *)
LEMMA AlignedPlace ==
  ASSUME NEW dims \in Seq(Nat), NEW rank \in Nat, rank >= Len(dims),
         NEW index \in Seq(Nat), Len(index) = rank
  PROVE  Place(Aligned(dims, rank), IndexIn(Aligned(dims, rank), index))
           = Place(dims, IndexOf(dims, index))
<1> DEFINE L == Len(dims)
           a == Aligned(dims, rank)
           ai == IndexIn(a, index)
           di == IndexOf(dims, index)
<1>1. L \in Nat /\ rank \in Nat /\ L <= rank
      /\ (\A k \in 1..L : dims[k] \in Nat) /\ \A k \in 1..rank : index[k] \in Nat
  OBVIOUS
<1>2. /\ a \in Seq(Nat) /\ Len(a) = rank
      /\ \A k \in 1..rank : a[k] = IF k - rank + L > 0 THEN dims[k - rank + L] ELSE 1
  BY ExtendedIsAligned
<1> HIDE DEF a
<1>3. \A k \in 1..rank : ai[k] = Within(a[k], index[k])
  BY <1>2 DEF IndexIn
<1>4. \A k \in 1..L : di[k] = Within(dims[k], index[k + rank - L])
  BY <1>1 DEF IndexOf, Within
<1> HIDE DEF ai, di
<1>5. PICK g : Places(dims, di, g)
  BY PlacesLoop
<1>6. PICK h : Places(a, ai, h)
  BY <1>2, PlacesLoop
<1>7. /\ g[0] = Origin /\ Place(dims, di) = g[L].at
      /\ \A k \in 1..L : g[k] = Further(g[k - 1], dims[L - k + 1], di[L - k + 1])
  BY <1>5 DEF Places
<1>8. /\ h[0] = Origin /\ Place(a, ai) = h[rank].at
      /\ \A k \in 1..rank : h[k] = Further(h[k - 1], a[rank - k + 1], ai[rank - k + 1])
  BY <1>2, <1>6 DEF Places
<1> HIDE DEF L
<1> DEFINE P == {k \in 0..rank : /\ h[k].at \in Nat /\ h[k].size \in Nat
                                 /\ k <= L => h[k] = g[k]
                                 /\ k >= L => h[k].at = g[L].at}
<1>9. 0 \in P
  <2>1. h[0].at = 0 /\ h[0].size = 1
    BY <1>8 DEF Origin
  <2>2. h[0] = g[0]
    BY <1>7, <1>8
  <2>3. 0 >= L => L = 0
    BY <1>1
  <2>4. 0 >= L => h[0].at = g[L].at
    BY <2>2, <2>3
  <2>5. 0 \in 0..rank
    BY <1>1
  <2> QED
    BY <2>1, <2>2, <2>4, <2>5
<1>10. ASSUME NEW k \in 1..rank, k - 1 \in P PROVE k \in P
  <2> DEFINE r == h[k - 1]
             m == rank - k + 1
             d == a[m]
             w == ai[m]
  <2>1. /\ r.at \in Nat /\ r.size \in Nat
        /\ k - 1 <= L => r = g[k - 1]
        /\ k - 1 >= L => r.at = g[L].at
    BY <1>10
  <2>2. m \in 1..rank /\ m - rank + L = L - k + 1 /\ k \in 0..rank
    BY <1>1
  <2>3. h[k] = Further(r, d, w)
    BY <1>8
  <2>4. d = (IF L - k + 1 > 0 THEN dims[L - k + 1] ELSE 1) /\ w = Within(d, index[m])
    <3>1. a[m] = IF m - rank + L > 0 THEN dims[m - rank + L] ELSE 1
      BY <1>2, <2>2
    <3> HIDE DEF m
    <3> QED
      BY <1>3, <2>2, <3>1
  <2>5. d \in Nat /\ w \in Nat
    <3>1. L - k + 1 > 0 => L - k + 1 \in 1..L
      BY <1>1
    <3>2. index[m] \in Nat
      BY <1>1, <2>2
    <3> HIDE DEF m, d, w
    <3>3. d \in Nat
      BY <1>1, <2>4, <3>1
    <3> QED
      BY <2>4, <3>2, <3>3 DEF Within
  <2> HIDE DEF r, m, d, w
  <2>6. w * r.size \in Nat /\ r.size * d \in Nat
    BY <2>1, <2>5, ProductIsNat
  <2>7. h[k].at = r.at + w * r.size /\ h[k].size = r.size * d
    BY <2>3 DEF Further
  <2>8. h[k].at \in Nat /\ h[k].size \in Nat
    BY <2>1, <2>6, <2>7
  <2>9. k <= L => h[k] = g[k]
    <3>1. SUFFICES ASSUME k <= L PROVE h[k] = g[k]
      OBVIOUS
    <3>2. k \in 1..L /\ L - k + 1 \in 1..L /\ k - 1 <= L /\ L - k + 1 > 0
          /\ (L - k + 1) + rank - L = m
      BY <1>1, <2>2, <3>1 DEF m
    <3>3. d = dims[L - k + 1] /\ w = Within(d, index[m])
      BY <2>4, <3>2
    <3>4. di[L - k + 1] = w
      BY <1>4, <3>2, <3>3
    <3>5. g[k] = Further(g[k - 1], dims[L - k + 1], di[L - k + 1])
      BY <1>7, <3>2
    <3> QED
      BY <2>1, <2>3, <3>2, <3>3, <3>4, <3>5
  <2>10. k >= L => h[k].at = g[L].at
    <3>1. CASE k = L
      BY <1>1, <2>9, <3>1
    <3>2. CASE k > L
      <4>1. d = 1 /\ w = 0
        <5>1. ~(L - k + 1 > 0)
          BY <1>1, <3>2
        <5> QED
          BY <2>4, <5>1 DEF Within
      <4>2. 0 * r.size = 0 /\ k - 1 >= L
        BY <1>1, <2>1, <3>2
      <4> QED
        BY <2>1, <2>7, <4>1, <4>2
    <3> QED
      BY <1>1, <3>1, <3>2
  <2> QED
    BY <2>2, <2>8, <2>9, <2>10
<1>11. rank \in P
  <2> HIDE DEF P
  <2>1. P \in SUBSET (0..rank)
    BY DEF P
  <2>2. P = 0..rank
    BY <1>1, <1>9, <1>10, <2>1, Throughout
  <2> QED
    BY <1>1, <2>2
<1> QED
  BY <1>1, <1>7, <1>8, <1>11 DEF a, ai, di

-----------------------------------------------------------------------------
(* The batches of a product.                                               *)

(* The batches of a shape of two dimensions or more are a shape.           *)
LEMMA BatchesOfShape ==
  ASSUME NEW s \in Seq(Nat), Len(s) >= 2
  PROVE  Batches(s) \in Seq(Nat) /\ BatchOf(s) = Batches(s)
<1>1. \A i \in 1..(Len(s) - 2) : s[i] \in Nat
  OBVIOUS
<1>2. SubSeq(s, 1, Len(s) - 2) \in Seq(Nat)
  <2>1. Len(s) - 2 \in Int
    OBVIOUS
  <2> QED
    BY <1>1, <2>1, SubSeqProperties
<1> QED
  BY <1>2 DEF Batches, BatchOf

(* What the batches of x and y are broadcast to, and the place of a batch  *)
(* of the output in an input.                                              *)
(* Aligned shapes that broadcast agree, dimension by dimension.            *)
LEMMA BroadcastAgrees ==
  ASSUME NEW x \in Seq(Nat), NEW y \in Seq(Nat)
  PROVE  LET r  == Rank(x, y)
             xs == Aligned(x, r)
             ys == Aligned(y, r)
         IN  /\ r \in Nat /\ r >= Len(x) /\ r >= Len(y) /\ r = Larger(Len(x), Len(y))
             /\ Extended(x, r) = xs /\ Extended(y, r) = ys /\ Len(xs) = r
             /\ BroadcastShape(x, y) \in Seq(Nat) /\ Len(BroadcastShape(x, y)) = r
             /\ Broadcasts(x, y) <=> \A k \in 1..r : Compatible(xs[k], ys[k])
             /\ Broadcasts(x, y) => Agree(xs, ys, BroadcastShape(x, y))
<1> DEFINE r  == Rank(x, y)
           xs == Aligned(x, r)
           ys == Aligned(y, r)
           out == BroadcastShape(x, y)
<1>1. r \in Nat /\ r >= Len(x) /\ r >= Len(y) /\ r = Larger(Len(x), Len(y))
  BY DEF Rank, Larger
<1> HIDE DEF r
<1>2. /\ Extended(x, r) = xs /\ xs \in Seq(Nat) /\ Len(xs) = r
      /\ Extended(y, r) = ys /\ ys \in Seq(Nat) /\ Len(ys) = r
  BY <1>1, ExtendedIsAligned
<1>3. out = [k \in 1..r |-> IF xs[k] = 1 THEN ys[k] ELSE xs[k]]
  BY DEF BroadcastShape, r
<1>4. Broadcasts(x, y) <=> \A k \in 1..r : Compatible(xs[k], ys[k])
  <2>1. Broadcasts(x, y) <=> \A k \in 1..r : xs[k] = ys[k] \/ 1 \in {xs[k], ys[k]}
    BY DEF Broadcasts, r
  <2> HIDE DEF xs, ys
  <2> QED
    BY <2>1 DEF Compatible
<1> HIDE DEF xs, ys, out
<1>5. \A k \in 1..r : xs[k] \in Nat /\ ys[k] \in Nat
  BY <1>2
<1>6. out \in [1..r -> Nat]
  BY <1>3, <1>5
<1>7. out \in Seq(Nat) /\ Len(out) = r
  BY <1>1, <1>6
<1>8. \A k \in 1..r : out[k] = IF xs[k] = 1 THEN ys[k] ELSE xs[k]
  BY <1>3
<1>9. Broadcasts(x, y) => Agree(xs, ys, out)
  BY <1>2, <1>4, <1>7, <1>8 DEF Agree
<1> QED
  BY <1>1, <1>2, <1>4, <1>7, <1>9 DEF r, xs, ys, out

(* A shape broadcasts with itself to itself.                               *)
LEMMA SameShape ==
  ASSUME NEW x \in Seq(Nat)
  PROVE  /\ BroadcastShape(x, x) = x /\ Broadcasts(x, x)
         /\ \A index \in Indices(x) : IndexOf(x, index) = index
<1> DEFINE r == Rank(x, x)
<1>1. r = Len(x) /\ r \in Nat
  BY DEF Rank
<1> HIDE DEF r
<1>2. Aligned(x, r) = x
  <2>0. r >= Len(x)
    BY <1>1
  <2>1. /\ Aligned(x, r) \in Seq(Nat) /\ Len(Aligned(x, r)) = r
        /\ \A k \in 1..r : Aligned(x, r)[k] = IF k - r + Len(x) > 0 THEN x[k - r + Len(x)] ELSE 1
    BY <1>1, <2>0, ExtendedIsAligned, Zenon
  <2>2. \A k \in 1..r : k - r + Len(x) = k /\ k > 0
    BY <1>1
  <2>3. \A k \in 1..r : Aligned(x, r)[k] = x[k]
    BY <2>1, <2>2
  <2> QED
    BY <1>1, <2>1, <2>3, SeqEqual
<1>3. BroadcastShape(x, x) = [k \in 1..r |-> x[k]]
  BY <1>2 DEF BroadcastShape, r
<1>4. Broadcasts(x, x)
  BY DEF Broadcasts
<1>5. x = [k \in 1..r |-> x[k]]
  BY <1>1
<1>6. ASSUME NEW index \in Indices(x) PROVE IndexOf(x, index) = index
  <2>1. Inside(index, x)
    BY IndicesAreInside
  <2>2. index \in Seq(Nat) /\ Len(index) = r /\ \A k \in 1..r : index[k] \in 0..(x[k] - 1)
    BY <1>1, <2>1 DEF Inside
  <2>3. IndexOf(x, index) = [k \in 1..r |-> IF x[k] = 1 THEN 0 ELSE index[k + r - r]]
    BY <1>1, <2>2 DEF IndexOf
  <2>4. \A k \in 1..r : k + r - r = k /\ (x[k] = 1 => index[k] = 0)
    BY <1>1, <2>2
  <2>5. index = [k \in 1..r |-> index[k]]
    BY <1>1, <2>2
  <2> HIDE DEF IndexOf
  <2>6. \A k \in 1..r : (IF x[k] = 1 THEN 0 ELSE index[k + r - r]) = index[k]
    BY <2>4
  <2> QED
    BY <2>3, <2>5, <2>6
<1> QED
  BY <1>3, <1>4, <1>5, <1>6

(* A shape of one dimension has as many elements as its size.              *)
LEMMA ElementsOfOne ==
  ASSUME NEW n \in Nat
  PROVE  NumElements(<<n>>) = n
<1> DEFINE e == <<>>
           u == <<n>>
           v == <<n>> \o e
<1>1. e \in Seq(Nat)
  OBVIOUS
<1>2. v = u
  OBVIOUS
<1>3. NumElements(e) = 1
  BY ElementsOfNone
<1> HIDE DEF e, u
<1>4. NumElements(v) = n * 1
  BY <1>1, <1>3, ElementsOf
<1> HIDE DEF v
<1>5. NumElements(u) = n
  BY <1>2, <1>4
<1> QED
  BY <1>5 DEF u

(* A side without dimensions gets one of size one, and as many elements.   *)
LEMMA ElementsOfOneIfNone ==
  ASSUME NEW part \in Parts
  PROVE  NumElements(OneIfNone(part).reshape) = NumElements(part.reshape)
<1>1. CASE part.reshape # <<>>
  BY <1>1 DEF OneIfNone
<1>2. CASE part.reshape = <<>>
  <2> DEFINE u == <<1>>
  <2>1. OneIfNone(part) = [part EXCEPT !.reshape = u, !.bcast = u]
    BY <1>2 DEF OneIfNone
  <2>2. NumElements(u) = 1
    BY ElementsOfOne
  <2> HIDE DEF u
  <2>3. OneIfNone(part).reshape = u
    BY <2>1 DEF Parts
  <2> QED
    BY <1>2, <2>2, <2>3, ElementsOfNone
<1> QED
  BY <1>1, <1>2

(* A batch of the output in an input: the one listed, or, where nothing    *)
(* is listed, the one at the same place.                                   *)
Found(required, listed, dims, out, index) ==
  Place(dims, IndexOf(dims, index)) =
    IF required THEN listed[Place(out, index) + 1] ELSE Place(out, index)

(* What is put together of an input that has dimensions that are not 1     *)
(* is what lists its batches.                                              *)
LEMMA ListsPlaces ==
  ASSUME NEW part, NEW o, NEW p, Side(part, o, p), NEW repeated, Run(part, repeated)
  PROVE  LET e == OneIfNone(part)
         IN  ComputeBatchIndices(e.reshape, e.bcast)[o.at + 1] = p.at
<1>1. PICK s, t, r, c : Outermost(part, repeated, s, t, r, c)
  BY DEF Run
<1>2. part.reshape # <<>>
  <2>1. s \in Seq(Nat) /\ r \in Nat /\ part.reshape = <<r>> \o s
    BY <1>1 DEF Outermost
  <2>2. Len(part.reshape) = Len(s) + 1
    BY <2>1, OneMore
  <2>3. Len(s) \in Nat
    BY <2>1
  <2>4. Len(<<>>) = 0
    OBVIOUS
  <2> QED
    BY <2>2, <2>3, <2>4
<1>3. OneIfNone(part) = part
  BY <1>2 DEF OneIfNone
<1> DEFINE b == OfDimensions(part.reshape, part.bcast)
<1>4. Leads(b, o, p)
  BY DEF Side
<1>5. ComputeBatchIndices(part.reshape, part.bcast) = b.indices
  BY DEF ComputeBatchIndices
<1> HIDE DEF b
<1>6. b.indices[o.at + 1] = p.at
  BY <1>4 DEF Leads
<1> QED
  BY <1>3, <1>5, <1>6

(* While every dimension was one, there is one batch.                      *)
LEMMA NothingYet ==
  ASSUME NEW r, NEW o, NEW p, NEW q, Both(r, o, p, q), r.one = "unknown"
  PROVE  o.size = 1 /\ p.size = 1 /\ q.size = 1
<1>1. Side(r.x, o, p) /\ Side(r.y, o, q) /\ r.x.reshape = <<>> /\ r.y.reshape = <<>>
  BY DEF Both
<1>2. p.size = 1 /\ q.size = 1
  BY <1>1, ElementsOfNone DEF Side
<1> DEFINE b == OfDimensions(r.x.reshape, r.x.bcast)
<1>3. b = FirstBatch
  BY <1>1, BatchesOfNone
<1>4. Leads(b, o, p)
  BY <1>1 DEF Side
<1> HIDE DEF b
<1>5. Len(FirstBatch.indices) = 1
  BY DEF FirstBatch
<1>6. o.size = 1
  BY <1>3, <1>4, <1>5 DEF Leads
<1> QED
  BY <1>2, <1>6

(* Shapes that differ and broadcast: every batch of the output is found.   *)
LEMMA DifferentBatches ==
  ASSUME NEW x \in Seq(Nat), NEW y \in Seq(Nat), Broadcasts(x, y),
         NEW index \in Indices(BroadcastShape(x, y))
  PROVE  LET rank == Rank(x, y)
             r    == AllDimensions(Aligned(x, rank), Aligned(y, rank))
             out  == BroadcastShape(x, y)
             a    == OneIfNone(r.x)
             b    == OneIfNone(r.y)
             required == Smaller(NumElements(a.reshape), NumElements(b.reshape)) # NumElements(out)
         IN  /\ Found(required, ComputeBatchIndices(a.reshape, a.bcast), x, out, index)
             /\ Found(required, ComputeBatchIndices(b.reshape, b.bcast), y, out, index)
<1> DEFINE rank == Rank(x, y)
           xs   == Aligned(x, rank)
           ys   == Aligned(y, rank)
           r    == AllDimensions(xs, ys)
           out  == BroadcastShape(x, y)
           a    == OneIfNone(r.x)
           b    == OneIfNone(r.y)
           required == Smaller(NumElements(a.reshape), NumElements(b.reshape)) # NumElements(out)
<1>1. /\ rank \in Nat /\ rank >= Len(x) /\ rank >= Len(y)
      /\ Agree(xs, ys, out) /\ out \in Seq(Nat) /\ Len(out) = rank
  BY BroadcastAgrees
<1>2. Inside(index, out)
  BY <1>1, IndicesAreInside
<1>3. PICK o, p, q : LeadsFrom(r, out, xs, ys, index, o, p, q)
  BY <1>1, <1>2, AllLead
<1>4. r.output = out
  BY <1>1, OutputOfAll
<1>5. index \in Seq(Nat) /\ Len(index) = rank
  BY <1>1, <1>2 DEF Inside
<1>6. /\ Place(xs, IndexIn(xs, index)) = Place(x, IndexOf(x, index))
      /\ Place(ys, IndexIn(ys, index)) = Place(y, IndexOf(y, index))
  BY <1>1, <1>5, AlignedPlace
<1> HIDE DEF rank, xs, ys, r, out
<1>7. /\ Both(r, o, p, q) /\ NoMore(p, o) /\ NoMore(q, o) /\ o.at = Place(out, index)
      /\ p.at = Place(x, IndexOf(x, index)) /\ q.at = Place(y, IndexOf(y, index))
  BY <1>3, <1>6 DEF LeadsFrom
<1>8. /\ Side(r.x, o, p) /\ Side(r.y, o, q) /\ NumElements(out) = o.size
      /\ r.x \in Parts /\ r.y \in Parts
  BY <1>4, <1>7 DEF Both, Side
<1>9. NumElements(a.reshape) = p.size /\ NumElements(b.reshape) = q.size
  BY <1>8, ElementsOfOneIfNone DEF Side
<1>10. o.size \in Nat /\ p.size \in Nat /\ q.size \in Nat
  BY <1>8, SidePlaces
<1>11. required <=> Smaller(p.size, q.size) # o.size
  BY <1>8, <1>9
<1> HIDE DEF required
<1>12. CASE ~required
  <2>1. p.size = o.size /\ q.size = o.size
    BY <1>7, <1>10, <1>11, <1>12 DEF NoMore, Smaller
  <2>2. p.at = o.at /\ q.at = o.at
    BY <1>7, <2>1 DEF NoMore
  <2> QED
    BY <1>7, <1>12, <2>2 DEF Found, rank, xs, ys, r, out, required
<1>13. CASE required
  <2>1. r.one # "unknown"
    <3>1. SUFFICES ASSUME r.one = "unknown" PROVE FALSE
      OBVIOUS
    <3>2. o.size = 1 /\ p.size = 1 /\ q.size = 1
      BY <1>7, <3>1, NothingYet
    <3> QED
      BY <1>11, <1>13, <3>2 DEF Smaller
  <2>2. Run(r.x, r.one = "x") /\ Run(r.y, r.one = "y")
    BY <1>7, <2>1 DEF Both
  <2>3. /\ ComputeBatchIndices(a.reshape, a.bcast)[o.at + 1] = p.at
        /\ ComputeBatchIndices(b.reshape, b.bcast)[o.at + 1] = q.at
    BY <1>8, <2>2, ListsPlaces
  <2> QED
    BY <1>7, <1>13, <2>3 DEF Found, rank, xs, ys, r, out, required
<1> QED
  BY <1>12, <1>13

(* MatMulBCast, for every two shapes of two dimensions or more: valid if and *)
(* only if they broadcast, and then every batch of the output is found.    *)
LEMMA BatchesFound ==
  ASSUME NEW lhs \in Seq(Nat), NEW rhs \in Seq(Nat), Len(lhs) >= 2, Len(rhs) >= 2
  PROVE  LET x == BatchOf(lhs)
             y == BatchOf(rhs)
             b == MatMulBCast(lhs, rhs)
             out == BroadcastShape(x, y)
         IN  /\ b.valid <=> Broadcasts(x, y)
             /\ b.valid =>
                  /\ b.output_batch_shape = out
                  /\ \A index \in Indices(out) :
                       /\ Found(b.broadcasting_required, b.x_batch_indices, x, out, index)
                       /\ Found(b.broadcasting_required, b.y_batch_indices, y, out, index)
<1> DEFINE x == BatchOf(lhs)
           y == BatchOf(rhs)
           b == MatMulBCast(lhs, rhs)
           c == BCast(x, y)
           out == BroadcastShape(x, y)
           required == Smaller(NumElements(c.x.reshape), NumElements(c.y.reshape))
                         # NumElements(c.output)
           xl == IF required THEN ComputeBatchIndices(c.x.reshape, c.x.bcast) ELSE <<>>
           yl == IF required THEN ComputeBatchIndices(c.y.reshape, c.y.bcast) ELSE <<>>
<1>1. x \in Seq(Nat) /\ y \in Seq(Nat) /\ Batches(lhs) = x /\ Batches(rhs) = y
  BY BatchesOfShape
<1>2. b = IF ~c.valid THEN [valid |-> FALSE]
          ELSE [valid |-> TRUE, output_batch_shape |-> c.output,
                broadcasting_required |-> required,
                x_batch_indices |-> xl, y_batch_indices |-> yl]
  BY <1>1 DEF MatMulBCast
<1> DEFINE R == Rank(x, y)
           xs == Aligned(x, R)
           ys == Aligned(y, R)
           r == AllDimensions(xs, ys)
           agree == \A k \in 1..R : Compatible(xs[k], ys[k])
           same == Part(<<NumElements(x)>>, <<1>>, <<>>)
<1> HIDE DEF x, y
<1>3. /\ R = Larger(Len(x), Len(y)) /\ Extended(x, R) = xs /\ Extended(y, R) = ys
      /\ Broadcasts(x, y) <=> agree
  BY <1>1, BroadcastAgrees
<1>4. c = IF x = y THEN [valid |-> TRUE, x |-> same, y |-> same, output |-> x]
          ELSE IF agree
          THEN [valid |-> TRUE, x |-> OneIfNone(r.x), y |-> OneIfNone(r.y), output |-> r.output]
          ELSE [valid |-> FALSE]
  <2> HIDE DEF R, xs, ys
  <2> QED
    BY <1>3 DEF BCast
<1>5. CASE x = y
  <2> DEFINE N == NumElements(x)
  <2>1. N \in Nat
    BY <1>1, ElementsOf
  <2>2. c.valid = TRUE /\ c.x.reshape = <<N>> /\ c.y.reshape = <<N>> /\ c.output = x
    BY <1>4, <1>5 DEF Part
  <2>3. NumElements(<<N>>) = N
    <3> HIDE DEF N
    <3> QED
      BY <2>1, ElementsOfOne
  <2>4. ~required
    <3> HIDE DEF c
    <3> QED
      BY <2>1, <2>2, <2>3 DEF Smaller
  <2>5. out = x /\ Broadcasts(x, y) /\ \A index \in Indices(x) : IndexOf(x, index) = index
    BY <1>1, <1>5, SameShape
  <2> HIDE DEF c, required, xl, yl, out, b
  <2>6. b.valid = TRUE /\ b.output_batch_shape = out /\ b.broadcasting_required = FALSE
    BY <1>2, <2>2, <2>4, <2>5
  <2>7. \A index \in Indices(out) : /\ Found(FALSE, b.x_batch_indices, x, out, index)
                                    /\ Found(FALSE, b.y_batch_indices, y, out, index)
    BY <1>5, <2>5 DEF Found
  <2> QED
    BY <2>5, <2>6, <2>7 DEF x, y, out, b
<1>6. CASE x # y /\ agree
  <2>1. /\ c.valid = TRUE /\ c.x = OneIfNone(r.x) /\ c.y = OneIfNone(r.y)
        /\ c.output = r.output
    <3> HIDE DEF r, agree, same
    <3> QED
      BY <1>4, <1>6
  <2>2. Broadcasts(x, y)
    BY <1>3, <1>6
  <2>3. r.output = out
    <3>1. Agree(xs, ys, out)
      BY <1>1, <2>2, BroadcastAgrees
    <3> HIDE DEF xs, ys, out
    <3> QED
      BY <3>1, OutputOfAll
  <2>4. \A index \in Indices(out) :
          /\ Found(required, ComputeBatchIndices(c.x.reshape, c.x.bcast), x, out, index)
          /\ Found(required, ComputeBatchIndices(c.y.reshape, c.y.bcast), y, out, index)
    <3> SUFFICES ASSUME NEW index \in Indices(out)
                 PROVE  /\ Found(required, ComputeBatchIndices(c.x.reshape, c.x.bcast),
                                 x, out, index)
                        /\ Found(required, ComputeBatchIndices(c.y.reshape, c.y.bcast),
                                 y, out, index)
      OBVIOUS
    <3> HIDE DEF c
    <3>1. required = (Smaller(NumElements(OneIfNone(r.x).reshape),
                              NumElements(OneIfNone(r.y).reshape)) # NumElements(out))
      BY <2>1, <2>3
    <3> HIDE DEF required
    <3> QED
      BY <1>1, <2>1, <2>2, <3>1, DifferentBatches
  <2> HIDE DEF c, required, out, b, r, agree
  <2>5. /\ b.valid = TRUE /\ b.output_batch_shape = out
        /\ b.broadcasting_required = required
        /\ b.x_batch_indices = xl /\ b.y_batch_indices = yl
    <3> HIDE DEF xl, yl
    <3> QED
      BY <1>2, <2>1, <2>3
  <2>6. \A index \in Indices(out) :
          /\ Found(b.broadcasting_required, b.x_batch_indices, x, out, index)
          /\ Found(b.broadcasting_required, b.y_batch_indices, y, out, index)
    BY <2>4, <2>5 DEF Found
  <2> QED
    BY <2>2, <2>5, <2>6 DEF x, y, out, b
<1>7. CASE x # y /\ ~agree
  <2> HIDE DEF agree, same, r, b, c
  <2>1. c.valid = FALSE
    BY <1>4, <1>7
  <2>2. b.valid = FALSE
    BY <1>2, <2>1
  <2> QED
    BY <1>3, <1>7, <2>2 DEF x, y, b
<1> QED
  BY <1>5, <1>6, <1>7

-----------------------------------------------------------------------------
(* A kernel of products of batches is called with one of its node's calls. *)
OfCalls ==
  /\ item \in Items
  /\ Answered => call.inputs \in item.calls

(* Every call of the kernels keeps it so.                                  *)
LEMMA OfCallsStays == OfCalls /\ [Next]_vars => OfCalls'
<1> SUFFICES ASSUME OfCalls, [Next]_vars PROVE OfCalls'
  OBVIOUS
<1>1. ASSUME NEW c \in Calls, NEW r, NEW const, Called(c, r, const) PROVE OfCalls'
  BY <1>1 DEF OfCalls, Calls, Called
<1>2. CASE Construct
  BY <1>2 DEF Construct, OfCalls, Answered
<1>3. CASE NextStep
  BY <1>3 DEF NextStep, OfCalls, Answered
<1>4. CASE MatMulCompute
  BY <1>1, <1>4 DEF MatMulCompute
<1>5. CASE EinsumCompute
  BY <1>1, <1>5 DEF EinsumCompute
<1>6. CASE BatchMatMulCompute
  BY <1>1, <1>6 DEF BatchMatMulCompute
<1>7. CASE Conv2DCompute
  BY <1>1, <1>7 DEF Conv2DCompute
<1>8. CASE PoolCompute
  BY <1>1, <1>8 DEF PoolCompute
<1>9. CASE SoftmaxCompute
  BY <1>1, <1>9 DEF SoftmaxCompute
<1>10. CASE LayerNormCompute
  BY <1>1, <1>10 DEF LayerNormCompute
<1>11. CASE LookupSparseCompute
  BY <1>1, <1>11 DEF LookupSparseCompute
<1>12. CASE GroupEmbeddingCompute
  BY <1>1, <1>12 DEF GroupEmbeddingCompute
<1>13. CASE UNCHANGED vars
  BY <1>13 DEF vars, OfCalls, Answered
<1> QED
  BY <1>2, <1>3, <1>4, <1>5, <1>6, <1>7, <1>8, <1>9, <1>10, <1>11, <1>12, <1>13 DEF Next

(* A call with shapes of a node's calls is broadcast as it should be.      *)
LEMMA OfCallsBroadcast == OfCalls => BatchesBroadcast
<1> SUFFICES ASSUME OfCalls, Answered, IsBatch, Len(Lhs) >= 2, Len(Rhs) >= 2
             PROVE  LET x == BatchOf(Lhs)
                        y == BatchOf(Rhs)
                        b == MatMulBCast(Lhs, Rhs)
                        out == BroadcastShape(x, y)
                    IN  /\ b.valid <=> Broadcasts(x, y)
                        /\ b.valid =>
                             /\ b.output_batch_shape = out
                             /\ \A index \in Indices(out) :
                                /\ Found(b.broadcasting_required, b.x_batch_indices, x, out, index)
                                /\ Found(b.broadcasting_required, b.y_batch_indices, y, out, index)
  BY DEF BatchesBroadcast, Found
<1>1. Lhs \in Seq(Nat) /\ Rhs \in Seq(Nat)
  BY SizesAreNatural DEF OfCalls, IsBatch, Lhs, Rhs
<1> QED
  BY <1>1, BatchesFound

(* Whatever the shapes of two batches of matrices: they are accepted if    *)
(* and only if they broadcast as NumPy has it, the output has the shape    *)
(* they broadcast to, and each batch of the output is made of the batches  *)
(* of the inputs that are there (util/matmul_bcast.h, util/bcast.h).       *)
THEOREM AlwaysBroadcast == Spec => []BatchesBroadcast
<1>1. Init => OfCalls
  BY DEF Init, OfCalls, Answered
<1>2. OfCalls /\ [Next]_vars => OfCalls'
  BY OfCallsStays
<1>3. OfCalls => BatchesBroadcast
  BY OfCallsBroadcast
<1> QED
  BY <1>1, <1>2, <1>3, PTL DEF Spec

=============================================================================
