------------------------ MODULE TensorShape_proofs ------------------------
(***************************************************************************)
(* Proofs about TensorShape, for any set of shapes, any widths and any     *)
(* number of calls: who owns the vectors on the heap, what the number of   *)
(* elements is, and that shapes behave like lists of sizes.                *)
(***************************************************************************)
EXTENDS TensorShape, SequenceTheorems, FiniteSetTheorems,
        WellFoundedInduction, TLAPS

-----------------------------------------------------------------------------
(* Loops.                                                                  *)

(* A set of natural numbers that is not empty has a least one. *)
LEMMA LeastNumber ==
  ASSUME NEW T \in SUBSET Nat, T # {}
  PROVE  \E x \in T : \A y \in T : x <= y
<1>1. PICK x \in T : \A y \in T : ~(<<y, x>> \in OpToRel(<, Nat))
  BY NatLessThanWellFounded, WFMin
<1>2. \A y \in T : ~(y < x)
  BY <1>1 DEF OpToRel
<1> QED
  BY <1>2

(* What holds before a loop and is kept by each step holds throughout. *)
LEMMA Throughout ==
  ASSUME NEW L \in Nat, NEW P \in SUBSET (0..L), 0 \in P,
         \A d \in 1..L : d - 1 \in P => d \in P
  PROVE  P = 0..L
<1> DEFINE T == (0..L) \ P
<1> SUFFICES ASSUME T # {} PROVE FALSE
  OBVIOUS
<1>1. PICK x \in T : \A y \in T : x <= y
  <2>1. T \in SUBSET Nat
    OBVIOUS
  <2> HIDE DEF T
  <2> QED
    BY <2>1, LeastNumber
<1>2. x \in 1..L /\ x - 1 \in 0..L
  BY <1>1
<1>3. x - 1 \in P
  BY <1>1, <1>2
<1> QED
  BY <1>1, <1>2, <1>3

(* The steps of a loop of length L over values of S, and what such a loop  *)
(* may pass through from a on.                                             *)
Steps(L, S) == [1..L -> [S -> S]]
Runs(F, a, L, S) ==
  {g \in [0..L -> S] : g[0] = a /\ \A d \in 1..L : g[d] = F[d][g[d - 1]]}

(* A loop can be run. *)
LEMMA Iterates ==
  ASSUME NEW L \in Nat, NEW S, NEW a \in S, NEW F \in Steps(L, S)
  PROVE  Runs(F, a, L, S) # {}
<1> DEFINE Loop(g, k) == g[0] = a /\ \A d \in 1..k : g[d] = F[d][g[d - 1]]
           P == {k \in 0..L : \E g \in [0..k -> S] : Loop(g, k)}
<1>0. F \in [1..L -> [S -> S]]
  BY DEF Steps
<1>1. 0 \in P
  <2> DEFINE g == [d \in 0..0 |-> a]
  <2>1. g \in [0..0 -> S] /\ Loop(g, 0)
    OBVIOUS
  <2> HIDE DEF g, Loop
  <2> QED
    BY <2>1
<1>2. ASSUME NEW k \in 1..L, k - 1 \in P PROVE k \in P
  <2>1. PICK g \in [0..(k - 1) -> S] : Loop(g, k - 1)
    BY <1>2
  <2> DEFINE v == F[k][g[k - 1]]
             h == [d \in 0..k |-> IF d = k THEN v ELSE g[d]]
  <2>2. v \in S
    BY <2>1, <1>0
  <2> HIDE DEF v
  <2>3. h \in [0..k -> S]
    BY <2>1, <2>2
  <2>4. \A d \in 0..(k - 1) : h[d] = g[d]
    OBVIOUS
  <2>5. h[k] = v
    OBVIOUS
  <2> HIDE DEF h
  <2>6. h[0] = a
    BY <2>1, <2>4
  <2>7. ASSUME NEW d \in 1..k PROVE h[d] = F[d][h[d - 1]]
    <3>1. CASE d = k
      BY <2>4, <2>5, <3>1 DEF v
    <3>2. CASE d # k
      <4>1. d \in 1..(k - 1) /\ d \in 0..(k - 1) /\ d - 1 \in 0..(k - 1)
        BY <3>2
      <4> QED
        BY <4>1, <2>1, <2>4
    <3> QED
      BY <3>1, <3>2
  <2>8. \E f \in [0..k -> S] : Loop(f, k)
    BY <2>3, <2>6, <2>7
  <2> HIDE DEF Loop
  <2> QED
    BY <2>8
<1>3. P = 0..L
  <2> HIDE DEF P
  <2>1. P \in SUBSET (0..L)
    BY DEF P
  <2> QED
    BY <1>1, <1>2, <2>1, Throughout
<1>4. \E g \in [0..L -> S] : Loop(g, L)
  BY <1>3
<1> QED
  BY <1>4 DEF Runs

-----------------------------------------------------------------------------
(* Products of sizes.                                                      *)

(* The products of a list are what their recursion says. *)
LEMMA ProductsLoop ==
  ASSUME NEW list \in Seq(Int)
  PROVE  /\ Products(list) \in [0..Len(list) -> Int]
         /\ Products(list)[0] = 1
         /\ \A d \in 1..Len(list) :
              Products(list)[d] = Products(list)[d - 1] * list[d]
<1> DEFINE L == Len(list)
           F == [d \in 1..L |-> [x \in Int |-> x * list[d]]]
           Loop(g) == g = [i \in 0..L |-> IF i = 0 THEN 1
                                          ELSE g[i - 1] * list[i]]
           f == Products(list)
<1>1. L \in Nat /\ \A d \in 1..L : list[d] \in Int
  OBVIOUS
<1>2. F \in [1..L -> [Int -> Int]]
  BY <1>1
<1>3. f = CHOOSE h : Loop(h)
  BY DEF Products
<1> HIDE DEF L
<1>4. PICK g \in [0..L -> Int] :
        g[0] = 1 /\ \A d \in 1..L : g[d] = F[d][g[d - 1]]
  <2> HIDE DEF F
  <2>1. F \in Steps(L, Int)
    BY <1>2 DEF Steps
  <2>2. ASSUME NEW a \in Int PROVE Runs(F, a, L, Int) # {}
    BY <1>1, <2>1, Iterates
  <2> QED
    BY <2>2 DEF Runs
<1>5. Loop(g)
  <2>1. ASSUME NEW d \in 1..L PROVE g[d] = g[d - 1] * list[d]
    <3>1. d - 1 \in 0..L /\ g[d - 1] \in Int
      BY <1>1
    <3> QED
      BY <1>4, <3>1
  <2> HIDE DEF F
  <2> QED
    BY <1>1, <1>4, <2>1
<1>6. Loop(f)
  <2> HIDE DEF f, Loop
  <2> QED
    BY <1>5, <1>3
<1> HIDE DEF f
<1>7. ASSUME NEW d \in 1..L PROVE f[d] = f[d - 1] * list[d]
  <2>1. d \in 0..L /\ d # 0
    BY <1>1
  <2> QED
    BY <2>1, <1>6
<1>8. f[0] = 1 /\ f = [i \in 0..L |-> f[i]]
  BY <1>1, <1>6
<1> DEFINE P == {d \in 0..L : f[d] \in Int}
<1>9. P = 0..L
  <2>1. 0 \in P
    BY <1>1, <1>8
  <2>2. ASSUME NEW d \in 1..L, d - 1 \in P PROVE d \in P
    <3>1. f[d - 1] \in Int /\ list[d] \in Int /\ d \in 0..L
      BY <1>1, <2>2
    <3> QED
      BY <3>1, <1>7
  <2>3. P \in SUBSET (0..L)
    OBVIOUS
  <2> HIDE DEF P
  <2> QED
    BY <1>1, <2>1, <2>2, <2>3, Throughout
<1>10. f \in [0..L -> Int]
  <2>1. \A i \in 0..L : f[i] \in Int
    BY <1>9
  <2> QED
    BY <1>8, <2>1
<1> QED
  BY <1>7, <1>8, <1>10 DEF L, f

(* A size behind the others leaves the products of those.                  *)
LEMMA ProductsAppend ==
  ASSUME NEW D \in Seq(Int), NEW x \in Int
  PROVE  /\ \A d \in 0..Len(D) : Products(Append(D, x))[d] = Products(D)[d]
         /\ Product(Append(D, x)) = Product(D) * x
<1> DEFINE E == Append(D, x)
           L == Len(D)
           P == {d \in 0..L : Products(E)[d] = Products(D)[d]}
<1>1. E \in Seq(Int) /\ Len(E) = L + 1 /\ L \in Nat /\ E[L + 1] = x
      /\ \A d \in 1..L : E[d] = D[d]
  BY AppendProperties
<1> HIDE DEF E, L
<1>2. /\ Products(E)[0] = 1
      /\ \A d \in 1..(L + 1) : Products(E)[d] = Products(E)[d - 1] * E[d]
  BY <1>1, ProductsLoop
<1>3. Products(D)[0] = 1
      /\ \A d \in 1..L : Products(D)[d] = Products(D)[d - 1] * D[d]
  BY ProductsLoop DEF L
<1>4. P = 0..L
  <2>1. 0 \in P
    BY <1>1, <1>2, <1>3
  <2>2. ASSUME NEW d \in 1..L, d - 1 \in P PROVE d \in P
    <3>1. d \in 0..L /\ d \in 1..(L + 1)
      BY <1>1
    <3>2. Products(E)[d] = Products(E)[d - 1] * E[d]
      BY <3>1, <1>2
    <3>3. Products(D)[d] = Products(D)[d - 1] * D[d]
      BY <1>3
    <3>4. Products(E)[d - 1] = Products(D)[d - 1] /\ E[d] = D[d]
      BY <2>2, <1>1
    <3> QED
      BY <3>1, <3>2, <3>3, <3>4
  <2>3. P \in SUBSET (0..L)
    OBVIOUS
  <2> HIDE DEF P
  <2> QED
    BY <1>1, <2>1, <2>2, <2>3, Throughout
<1>5. \A d \in 0..L : Products(E)[d] = Products(D)[d]
  BY <1>4
<1>6. Product(E) = Product(D) * x
  <2>1. Product(E) = Products(E)[L + 1]
    BY <1>1 DEF Product
  <2>2. L + 1 \in 1..(L + 1) /\ (L + 1) - 1 = L /\ L \in 0..L
    BY <1>1
  <2>3. Products(E)[L + 1] = Products(E)[L] * x
    BY <1>1, <1>2, <2>2
  <2>4. Products(E)[L] = Product(D)
    BY <1>5, <2>2 DEF Product, L
  <2> QED
    BY <2>1, <2>3, <2>4
<1> QED
  BY <1>5, <1>6 DEF E, L

(* A list up to a place is the list up to the place in front of it and     *)
(* what is there.                                                          *)
LEMMA PrefixAppend ==
  ASSUME NEW S, NEW list \in Seq(S), NEW d \in 1..Len(list)
  PROVE  /\ SubSeq(list, 1, d - 1) \in Seq(S)
         /\ list[d] \in S
         /\ SubSeq(list, 1, d) = Append(SubSeq(list, 1, d - 1), list[d])
<1>1. Len(list) \in Nat /\ 1 \in 1..Len(list) /\ d \in 1..Len(list)
  BY LenProperties
<1>2. \A i \in 1..(d - 1) : list[i] \in S
  BY <1>1, ElementOfSeq
<1>3. SubSeq(list, 1, d - 1) \in Seq(S) /\ list[d] \in S
  BY <1>1, <1>2, SubSeqProperties, ElementOfSeq
<1>4. SubSeq(list, 1, d) = SubSeq(list, 1, d - 1) \o <<list[d]>>
  BY <1>1, SubSeqRecursiveSecond
<1> QED
  BY <1>3, <1>4, AppendIsConcat

-----------------------------------------------------------------------------
(* The lists of sizes a shape may have, and the elements they make.        *)

SizesOf(partial) == {x \in Int : x >= Least(partial)}

AllKnown(D) == \A d \in 1..Len(D) : D[d] # -1

(* The rule of what is too large, as in DimensionLists.                    *)
Bounded(D) ==
  \A i \in 1..Len(D) :
    (\A j \in 1..i : D[j] # -1) => Products(D)[i] <= MaxInt64

CountOf(D) == IF AllKnown(D) THEN Product(D) ELSE -1

LEMMA SizesType ==
  ASSUME NEW partial \in BOOLEAN
  PROVE  /\ SizesOf(partial) \subseteq Int
         /\ Seq(SizesOf(partial)) \subseteq Seq(Int)
         /\ \A x \in SizesOf(partial) : x >= -1 /\ (x < 0 => partial /\ x = -1)
<1>1. SizesOf(partial) \subseteq Int
  BY DEF SizesOf
<1>2. Seq(SizesOf(partial)) \subseteq Seq(Int)
  BY <1>1, SeqMonotonic
<1>3. \A x \in SizesOf(partial) : x >= -1 /\ (x < 0 => partial /\ x = -1)
  BY DEF SizesOf, Least
<1> QED
  BY <1>1, <1>2, <1>3

LEMMA KnownAppend ==
  ASSUME NEW D \in Seq(Int), NEW x \in Int
  PROVE  AllKnown(Append(D, x)) <=> AllKnown(D) /\ x # -1
<1>1. Len(Append(D, x)) = Len(D) + 1 /\ Append(D, x)[Len(D) + 1] = x
      /\ \A d \in 1..Len(D) : Append(D, x)[d] = D[d]
  BY AppendProperties
<1>2. Len(D) \in Nat
  BY LenProperties
<1> HIDE DEF AllKnown
<1>3. AllKnown(Append(D, x)) <=> \A d \in 1..(Len(D) + 1) : Append(D, x)[d] # -1
  BY <1>1 DEF AllKnown
<1>4. (\A d \in 1..(Len(D) + 1) : Append(D, x)[d] # -1)
        <=> (\A d \in 1..Len(D) : D[d] # -1) /\ x # -1
  <2> DEFINE E == Append(D, x)
             L == Len(D)
  <2>1. \A d \in 1..(L + 1) : d \in 1..L \/ d = L + 1
    BY <1>2
  <2>2. L + 1 \in 1..(L + 1) /\ 1..L \subseteq 1..(L + 1)
    BY <1>2
  <2> HIDE DEF E, L
  <2> QED
    BY <1>1, <2>1, <2>2 DEF E, L
<1> QED
  BY <1>3, <1>4 DEF AllKnown

LEMMA BoundedAppend ==
  ASSUME NEW D \in Seq(Int), NEW x \in Int
  PROVE  Bounded(Append(D, x)) <=>
           /\ Bounded(D)
           /\ AllKnown(D) /\ x # -1 => Product(D) * x <= MaxInt64
<1> DEFINE E == Append(D, x)
           L == Len(D)
<1>1. Len(E) = L + 1 /\ E[L + 1] = x /\ \A d \in 1..L : E[d] = D[d]
  BY AppendProperties
<1>2. L \in Nat
  BY LenProperties
<1>3. \A d \in 0..L : Products(E)[d] = Products(D)[d]
  BY ProductsAppend
<1>4. Product(E) = Product(D) * x /\ Product(E) = Products(E)[L + 1]
  BY <1>1, ProductsAppend DEF Product
<1>5. AllKnown(E) <=> AllKnown(D) /\ x # -1
  BY KnownAppend
<1> DEFINE Fits(F, i) ==
             (\A j \in 1..i : F[j] # -1) => Products(F)[i] <= MaxInt64
<1>6. Bounded(E) <=> \A i \in 1..(L + 1) : Fits(E, i)
  BY <1>1 DEF Bounded
<1>7. Bounded(D) <=> \A i \in 1..L : Fits(D, i)
  BY DEF Bounded
<1>8. Fits(E, L + 1) <=>
        (AllKnown(D) /\ x # -1 => Product(D) * x <= MaxInt64)
  <2> HIDE DEF E, L
  <2> QED
    BY <1>1, <1>4, <1>5 DEF AllKnown
<1> HIDE DEF E, L
<1>9. ASSUME NEW i \in 1..L PROVE Fits(E, i) <=> Fits(D, i)
  <2>1. \A j \in 1..i : E[j] = D[j]
    BY <1>1, <1>2
  <2>2. Products(E)[i] = Products(D)[i]
    BY <1>2, <1>3
  <2> QED
    BY <2>1, <2>2
<1>10. 1..(L + 1) = (1..L) \cup {L + 1}
  BY <1>2
<1> HIDE DEF Fits
<1> QED
  BY <1>6, <1>7, <1>8, <1>9, <1>10 DEF E, L

(* What is made of known sizes is not negative. *)
LEMMA ProductNotNegative ==
  ASSUME NEW partial \in BOOLEAN, NEW D \in Seq(SizesOf(partial)), AllKnown(D)
  PROVE  Product(D) \in Nat
<1> DEFINE L == Len(D)
           P == {d \in 0..L : Products(D)[d] \in Nat}
<1>1. L \in Nat /\ \A d \in 1..L : D[d] \in Nat
  <2>1. \A d \in 1..L : D[d] \in SizesOf(partial) /\ D[d] # -1
    BY ElementOfSeq DEF AllKnown
  <2> QED
    BY <2>1, SizesType, LenProperties DEF SizesOf, Least
<1>2. /\ Products(D)[0] = 1
      /\ \A d \in 1..L : Products(D)[d] = Products(D)[d - 1] * D[d]
  BY SizesType, ProductsLoop
<1> HIDE DEF L
<1>3. P = 0..L
  <2>1. 0 \in P
    BY <1>1, <1>2
  <2>2. ASSUME NEW d \in 1..L, d - 1 \in P PROVE d \in P
    <3>1. d \in 0..L /\ D[d] \in Nat /\ Products(D)[d - 1] \in Nat
      BY <1>1, <2>2
    <3>2. \A a, b \in Nat : a * b \in Nat
      OBVIOUS
    <3> QED
      BY <1>2, <3>1, <3>2
  <2>3. P \in SUBSET (0..L)
    OBVIOUS
  <2> HIDE DEF P
  <2> QED
    BY <1>1, <2>1, <2>2, <2>3, Throughout
<1>4. L \in P
  BY <1>1, <1>3
<1> QED
  BY <1>4 DEF Product, L

LEMMA CountType ==
  ASSUME NEW partial \in BOOLEAN, NEW D \in Seq(SizesOf(partial))
  PROVE  CountOf(D) \in Int /\ CountOf(D) >= -1
BY ProductNotNegative DEF CountOf

(* NumElementsWith counts the elements of a list with one size more, if it *)
(* is not too large.                                                       *)
LEMMA OneMore ==
  ASSUME NEW partial \in BOOLEAN, NEW D \in Seq(SizesOf(partial)),
         NEW x \in SizesOf(partial), Bounded(D)
  PROVE  NumElementsWith(partial, CountOf(D), x)
           = IF Bounded(Append(D, x)) THEN CountOf(Append(D, x)) ELSE Overflow
<1>1. D \in Seq(Int) /\ x \in Int /\ x >= -1 /\ (x < 0 => partial /\ x = -1)
  BY SizesType
<1>2. AllKnown(Append(D, x)) <=> AllKnown(D) /\ x # -1
  BY <1>1, KnownAppend
<1>3. Bounded(Append(D, x)) <=>
        (AllKnown(D) /\ x # -1 => Product(D) * x <= MaxInt64)
  BY <1>1, BoundedAppend
<1>4. Product(Append(D, x)) = Product(D) * x
  BY <1>1, ProductsAppend
<1>5. AllKnown(D) => Product(D) \in Nat
  BY ProductNotNegative
<1>6. CASE AllKnown(D) /\ x # -1
  <2>1. CountOf(D) = Product(D) /\ x \in Nat /\ Product(D) \in Nat
    BY <1>1, <1>5, <1>6 DEF CountOf
  <2>2. CountOf(Append(D, x)) = Product(D) * x
    BY <1>2, <1>4, <1>6 DEF CountOf
  <2>3. NumElementsWith(partial, CountOf(D), x) = Multiply(Product(D), x)
    BY <2>1 DEF NumElementsWith
  <2> DEFINE p == Product(D) * x
  <2>4. p \in Int
    BY <2>1
  <2>5. Multiply(Product(D), x) = IF p <= MaxInt64 THEN p ELSE Overflow
    <3>1. Multiply(Product(D), x) = IF p > MaxInt64 THEN Overflow ELSE p
      BY DEF Multiply
    <3> HIDE DEF p
    <3> QED
      BY <3>1, <2>4, WidthsAssumption
  <2>6. Bounded(Append(D, x)) <=> p <= MaxInt64
    BY <1>3, <1>6
  <2> HIDE DEF p
  <2> QED
    BY <2>2, <2>3, <2>5, <2>6 DEF p
<1>7. CASE ~(AllKnown(D) /\ x # -1)
  <2>1. Bounded(Append(D, x)) /\ CountOf(Append(D, x)) = -1
    BY <1>2, <1>3, <1>7 DEF CountOf
  <2>2. partial /\ (CountOf(D) < 0 \/ x < 0)
    <3>1. CASE x = -1
      BY <1>1, <3>1
    <3>2. CASE ~AllKnown(D)
      <4>1. PICK d \in 1..Len(D) : D[d] = -1
        BY <3>2 DEF AllKnown
      <4>2. partial
        BY <4>1, ElementOfSeq, SizesType
      <4> QED
        BY <3>2, <4>2 DEF CountOf
    <3> QED
      BY <1>7, <3>1, <3>2
  <2> QED
    BY <2>1, <2>2 DEF NumElementsWith
<1> QED
  BY <1>6, <1>7

(* And what it has counted stays too large. *)
LEMMA StaysTooLarge ==
  ASSUME NEW D \in Seq(Int), NEW x \in Int, Bounded(Append(D, x))
  PROVE  Bounded(D)
BY BoundedAppend

(* No sizes make one element. *)
LEMMA NoSizes ==
  /\ Bounded(<<>>)
  /\ CountOf(<<>>) = 1
  /\ Product(<<>>) = 1
<1>1. Len(<<>>) = 0 /\ <<>> \in Seq(Int)
  BY EmptySeq
<1>2. Products(<<>>)[0] = 1
  BY <1>1, ProductsLoop
<1> QED
  BY <1>1, <1>2 DEF Bounded, CountOf, AllKnown, Product

(* The loop over the sizes counts the elements. *)
LEMMA CountedIs ==
  ASSUME NEW partial \in BOOLEAN, NEW sizes \in Seq(SizesOf(partial))
  PROVE  Counted(partial, sizes)
           = IF Bounded(sizes) THEN CountOf(sizes) ELSE Overflow
<1> DEFINE L == Len(sizes)
           Step(n, d) == IF n = Overflow THEN Overflow
                         ELSE NumElementsWith(partial, n, sizes[d])
           F == [d \in 1..L |-> [n \in Int |-> Step(n, d)]]
           Loop(g) == g = [d \in 0..L |->
                             IF d = 0 THEN 1
                             ELSE IF g[d - 1] = Overflow THEN Overflow
                             ELSE NumElementsWith(partial, g[d - 1], sizes[d])]
           f == CHOOSE g : Loop(g)
           Prefix(d) == SubSeq(sizes, 1, d)
           Right(d) == f[d] = IF Bounded(Prefix(d)) THEN CountOf(Prefix(d))
                              ELSE Overflow
           P == {d \in 0..L : Right(d)}
<1>1. L \in Nat /\ \A d \in 1..L : sizes[d] \in Int
  BY LenProperties, ElementOfSeq, SizesType
<1>2. Counted(partial, sizes) = f[L]
  BY DEF Counted
<1>3. Loop(f)
  <2>1. ASSUME NEW n \in Int, NEW d \in 1..L PROVE Step(n, d) \in Int
    <3>1. sizes[d] \in Int
      BY <1>1
    <3>2. n * sizes[d] \in Int
      BY <3>1
    <3>3. Multiply(n, sizes[d]) \in Int
      BY <3>2 DEF Multiply, Overflow
    <3> HIDE DEF L
    <3> QED
      BY <3>3 DEF NumElementsWith, Overflow
  <2>2. F \in [1..L -> [Int -> Int]]
    <3> HIDE DEF Step, L
    <3> QED
      BY <2>1
  <2>3. F \in Steps(L, Int)
    BY <2>2 DEF Steps
  <2>4. ASSUME NEW a \in Int PROVE Runs(F, a, L, Int) # {}
    <3> HIDE DEF F, L
    <3> QED
      BY <1>1, <2>3, Iterates
  <2>5. PICK g \in [0..L -> Int] :
          g[0] = 1 /\ \A d \in 1..L : g[d] = F[d][g[d - 1]]
    <3> HIDE DEF F, L
    <3> QED
      BY <2>4 DEF Runs
  <2>6. ASSUME NEW d \in 1..L PROVE g[d] = Step(g[d - 1], d)
    <3> HIDE DEF F, L
    <3>1. d - 1 \in 0..L
      BY <1>1
    <3>2. g[d - 1] \in Int
      BY <2>5, <3>1
    <3>3. g[d] = F[d][g[d - 1]]
      BY <2>5
    <3>4. F[d] = [n \in Int |-> Step(n, d)]
      <4> HIDE DEF Step
      <4> QED
        BY DEF F
    <3> HIDE DEF Step
    <3> QED
      BY <3>2, <3>3, <3>4
  <2>7. Loop(g)
    <3> HIDE DEF F, L
    <3> QED
      BY <1>1, <2>5, <2>6
  <2> HIDE DEF Loop
  <2> QED
    BY <2>7
<1> HIDE DEF f
<1>4. f[0] = 1 /\ \A d \in 1..L : f[d] = Step(f[d - 1], d)
  <2>1. 0 \in 0..L /\ \A d \in 1..L : d \in 0..L /\ d # 0
    BY <1>1
  <2> HIDE DEF L
  <2> QED
    BY <1>3, <2>1
<1>5. Right(0)
  <2>1. Prefix(0) = <<>>
    BY SubSeqEmpty
  <2> QED
    BY <1>4, <2>1, NoSizes
<1>6. ASSUME NEW d \in 1..L, Right(d - 1) PROVE Right(d)
  <2> DEFINE D == Prefix(d - 1)
             x == sizes[d]
  <2>1. D \in Seq(SizesOf(partial)) /\ x \in SizesOf(partial)
        /\ Prefix(d) = Append(D, x)
    BY PrefixAppend
  <2>2. D \in Seq(Int) /\ x \in Int
    BY <2>1, SizesType
  <2>3. f[d] = Step(f[d - 1], d)
    BY <1>4
  <2>4. CASE Bounded(D)
    <3>1. f[d - 1] = CountOf(D)
      BY <1>6, <2>4
    <3>2. CountOf(D) # Overflow
      <4> HIDE DEF D
      <4> QED
        BY <2>1, CountType DEF Overflow
    <3>3. f[d] = NumElementsWith(partial, CountOf(D), x)
      BY <2>3, <3>1, <3>2
    <3> HIDE DEF D, x
    <3> QED
      BY <2>1, <2>4, <3>3, OneMore
  <2>5. CASE ~Bounded(D)
    <3>1. f[d - 1] = Overflow
      BY <1>6, <2>5
    <3>2. ~Bounded(Append(D, x))
      BY <2>2, <2>5, StaysTooLarge
    <3> QED
      BY <2>1, <2>3, <3>1, <3>2
  <2> QED
    BY <2>4, <2>5
<1>7. P = 0..L
  <2>1. P \in SUBSET (0..L) /\ 0 \in P
    BY <1>1, <1>5
  <2>2. ASSUME NEW d \in 1..L, d - 1 \in P PROVE d \in P
    <3>1. d \in 0..L
      BY <1>1
    <3> HIDE DEF Right
    <3> QED
      BY <1>6, <2>2, <3>1
  <2> HIDE DEF P, L
  <2> QED
    BY <1>1, <2>1, <2>2, Throughout
<1>8. Right(L)
  <2> HIDE DEF Right, L
  <2> QED
    BY <1>1, <1>7
<1>9. Prefix(L) = sizes
  BY SubSeqFull
<1> QED
  BY <1>2, <1>8, <1>9

-----------------------------------------------------------------------------
(* Words.                                                                  *)

(* What a shape is made of. *)
Bytes ==
  [life : {"none", "live", "moved", "crashed"}, partial : BOOLEAN,
   tag : {"REP16", "REP32", "REP_OUT_OF_LINE"}, ndims : Nat,
   words : Seq(Int), vec : Nat, num_elements : Int]

(* A shape and the heap. *)
Machines == [s : Bytes, h : SUBSET Addresses]

(* A size of at most so many fits the words of a representation, which     *)
(* takes its largest value for an unknown size.                            *)
InWords(s, D, slots, max, unknown) ==
  /\ Len(D) <= slots
  /\ \A d \in 1..Len(D) : D[d] < max /\ s.words[d] = Word(s, unknown, D[d])

(* The sizes D are those of shape s. *)
Represents(s, D) ==
  /\ D \in Seq(SizesOf(s.partial))
  /\ Len(D) <= MaxDimensions
  /\ s.ndims = Len(D)
  /\ Len(s.words) = Len(D)
  /\ s.tag = "REP16" => InWords(s, D, Slots16, MaxRep16, UnknownRep16)
  /\ s.tag = "REP32" => InWords(s, D, Slots32, MaxRep32, UnknownRep32)
  /\ s.tag = "REP_OUT_OF_LINE" => s.words = D

(* Then they are what is read. *)
LEMMA DimSizes ==
  ASSUME NEW s \in Bytes, NEW D, Represents(s, D)
  PROVE  dim_sizes(s) = D /\ ~unknown_rank(s)
<1>1. s.partial \in BOOLEAN /\ D \in Seq(SizesOf(s.partial))
      /\ s.ndims = Len(D) /\ Len(D) \in Nat /\ Len(D) <= MaxDimensions
  BY LenProperties DEF Bytes, Represents
<1>2. ~unknown_rank(s)
  BY <1>1, WidthsAssumption DEF unknown_rank, UnknownRank
<1>3. ASSUME NEW d \in 1..Len(D) PROVE dim_size(s, d) = D[d]
  <2>1. D[d] \in SizesOf(s.partial)
    BY <1>1, ElementOfSeq
  <2>2. D[d] \in Int /\ (D[d] < 0 => s.partial /\ D[d] = -1)
    BY <1>1, <2>1, SizesType
  <2>3. CASE s.tag = "REP16"
    <3>1. D[d] < MaxRep16 /\ s.words[d] = Word(s, UnknownRep16, D[d])
      BY <2>3 DEF Represents, InWords
    <3> QED
      BY <2>2, <2>3, <3>1, WidthsAssumption DEF dim_size, Word, MaxRep16
  <2>4. CASE s.tag = "REP32"
    <3>1. D[d] < MaxRep32 /\ s.words[d] = Word(s, UnknownRep32, D[d])
      BY <2>4 DEF Represents, InWords
    <3> QED
      BY <2>2, <2>4, <3>1, WidthsAssumption DEF dim_size, Word, MaxRep32
  <2>5. CASE s.tag = "REP_OUT_OF_LINE"
    BY <2>5 DEF Represents, dim_size
  <2> QED
    BY <2>3, <2>4, <2>5 DEF Bytes
<1>4. D = [d \in 1..Len(D) |-> D[d]]
  BY <1>1, LenProperties
<1>5. dim_sizes(s) = [d \in 1..Len(D) |-> dim_size(s, d)]
  BY <1>1, <1>2 DEF dim_sizes
<1>6. dim_sizes(s) = D
  <2> HIDE DEF dim_sizes
  <2> QED
    BY <1>3, <1>4, <1>5
<1> QED
  BY <1>2, <1>6

-----------------------------------------------------------------------------
(* Vectors.                                                                *)

(* R: what the other shapes own, which leaves an address free. *)
Room(R) == R \subseteq Addresses /\ Addresses \ R # {}

(* The rest of the heap is owned by the shape. *)
Owns(m, R) ==
  IF m.s.tag = "REP_OUT_OF_LINE"
    THEN m.s.vec \in Addresses \ R /\ m.h = R \cup {m.s.vec}
    ELSE m.h = R

LEMMA AddressesType == Addresses \subseteq Nat
  BY FS_CardinalityType, InputsAssumption DEF Addresses

(* A vector is allocated where none is. *)
LEMMA AllocatedOwns ==
  ASSUME NEW R, Room(R), NEW m \in Machines, m.h = R
  PROVE  \E v \in Addresses \ R :
           Allocated(m) = [s |-> [m.s EXCEPT !.tag = "REP_OUT_OF_LINE",
                                             !.vec = v],
                           h |-> R \cup {v}]
<1> DEFINE T == Addresses \ R
<1>1. T \in SUBSET Nat /\ T # {}
  BY AddressesType DEF Room
<1> HIDE DEF T
<1>2. \E v \in T : \A b \in T : v <= b
  BY <1>1, LeastNumber
<1> DEFINE v == CHOOSE a \in T : \A b \in T : a <= b
<1>3. v \in T
  BY <1>2
<1>4. v = CHOOSE a \in Addresses \ m.h : \A b \in Addresses \ m.h : a <= b
  BY DEF T
<1> HIDE DEF v
<1>5. Allocated(m) = [s |-> [m.s EXCEPT !.tag = "REP_OUT_OF_LINE", !.vec = v],
                      h |-> m.h \cup {v}]
  BY <1>4 DEF Allocated
<1> QED
  BY <1>3, <1>5 DEF T

(* Freeing leaves what the others own. *)
LEMMA FreeOwns ==
  ASSUME NEW R, NEW m \in Machines, Owns(m, R)
  PROVE  Free(m).h = R
<1>1. CASE m.s.tag = "REP_OUT_OF_LINE"
  <2>1. Free(m).h = m.h \ {m.s.vec}
    BY <1>1 DEF Free
  <2> QED
    BY <1>1, <2>1 DEF Owns
<1>2. CASE m.s.tag # "REP_OUT_OF_LINE"
  BY <1>2 DEF Free, Owns
<1> QED
  BY <1>1, <1>2

-----------------------------------------------------------------------------
(* Adding sizes.                                                           *)

LEMMA WordType ==
  ASSUME NEW s \in Bytes, NEW x \in Int, NEW unknown \in Int
  PROVE  Word(s, unknown, x) \in Int
BY DEF Word

LEMMA WordsType ==
  ASSUME NEW s \in Bytes, NEW D \in Seq(Int), NEW unknown \in Int
  PROVE  /\ Words(s, unknown, D) \in Seq(Int)
         /\ Len(Words(s, unknown, D)) = Len(D)
         /\ \A d \in 1..Len(D) :
              Words(s, unknown, D)[d] = Word(s, unknown, D[d])
<1>1. Len(D) \in Nat /\ \A d \in 1..Len(D) : D[d] \in Int
  BY LenProperties, ElementOfSeq
<1> DEFINE W == [d \in 1..Len(D) |-> Word(s, unknown, D[d])]
<1>2. W \in [1..Len(D) -> Int]
  BY <1>1, WordType
<1>3. W \in Seq(Int) /\ Len(W) = Len(D)
  BY <1>1, <1>2
<1> QED
  BY <1>3 DEF Words

(* One more word of the same kind. *)
LEMMA InWordsAppend ==
  ASSUME NEW s \in Bytes, NEW t \in Bytes, s.partial = t.partial,
         NEW D \in Seq(Int), NEW x \in Int,
         NEW slots \in Nat, NEW max \in Int, NEW unknown \in Int,
         InWords(s, D, slots, max, unknown), Len(s.words) = Len(D),
         Len(D) < slots, x < max,
         t.words = Append(s.words, Word(s, unknown, x))
  PROVE  /\ InWords(t, Append(D, x), slots, max, unknown)
         /\ Len(t.words) = Len(Append(D, x))
<1> DEFINE E == Append(D, x)
           L == Len(D)
<1>1. L \in Nat /\ Len(E) = L + 1 /\ E[L + 1] = x
      /\ \A d \in 1..L : E[d] = D[d]
  BY LenProperties, AppendProperties
<1>2. s.words \in Seq(Int) /\ Word(s, unknown, x) \in Int
  BY WordType DEF Bytes
<1>3. Len(t.words) = L + 1 /\ t.words[L + 1] = Word(s, unknown, x)
      /\ \A d \in 1..L : t.words[d] = s.words[d]
  BY <1>2, AppendProperties
<1>4. \A y : Word(t, unknown, y) = Word(s, unknown, y)
  BY DEF Word
<1>5. \A d \in 1..L : D[d] < max /\ s.words[d] = Word(s, unknown, D[d])
  BY DEF InWords
<1>6. L < slots
  OBVIOUS
<1> HIDE DEF E, L
<1>7. ASSUME NEW d \in 1..Len(E)
      PROVE  E[d] < max /\ t.words[d] = Word(t, unknown, E[d])
  <2>1. CASE d = L + 1
    BY <2>1, <1>1, <1>3, <1>4
  <2>2. CASE d # L + 1
    <3>1. d \in 1..L
      BY <1>1, <2>2
    <3> QED
      BY <3>1, <1>1, <1>3, <1>4, <1>5
  <2> QED
    BY <2>1, <2>2
<1>8. Len(E) <= slots /\ Len(t.words) = Len(E)
  BY <1>1, <1>3, <1>6
<1> QED
  BY <1>7, <1>8 DEF InWords, E

(* A shape for a list of sizes that is made anew. *)
LEMMA ChangedRepIs ==
  ASSUME NEW R, Room(R), NEW m \in Machines, m.h = R,
         NEW E \in Seq(SizesOf(m.s.partial)), Len(E) <= MaxDimensions
  PROVE  LET r == ChangedRep(m, E)
         IN  /\ r \in Machines /\ Owns(r, R)
             /\ r.s.life = m.s.life /\ r.s.partial = m.s.partial
             /\ \A t \in Bytes :
                  /\ t.tag = r.s.tag /\ t.words = r.s.words
                  /\ t.partial = r.s.partial /\ t.ndims = Len(E)
                  => Represents(t, E)
<1>1. m.s \in Bytes /\ m.s.partial \in BOOLEAN /\ E \in Seq(Int)
  BY SizesType DEF Machines, Bytes
<1>2. UnknownRep32 \in Int
  BY WidthsAssumption
<1>3. CASE Len(E) <= Slots32 /\ \A d \in 1..Len(E) : E[d] < MaxRep32
  <2> DEFINE W == Words(m.s, UnknownRep32, E)
             r == [m EXCEPT !.s.tag = "REP32", !.s.words = W]
  <2>1. W \in Seq(Int) /\ Len(W) = Len(E)
        /\ \A d \in 1..Len(E) : W[d] = Word(m.s, UnknownRep32, E[d])
    BY <1>1, <1>2, WordsType
  <2>2. ChangedRep(m, E) = r
    BY <1>3 DEF ChangedRep
  <2> HIDE DEF W
  <2>3. /\ r \in Machines /\ r.h = m.h
        /\ r.s.tag = "REP32" /\ r.s.words = W
        /\ r.s.life = m.s.life /\ r.s.partial = m.s.partial
    BY <2>1 DEF Machines, Bytes
  <2> HIDE DEF r
  <2>4. Owns(r, R)
    BY <2>3 DEF Owns
  <2>5. ASSUME NEW t \in Bytes, t.tag = r.s.tag, t.words = r.s.words,
               t.partial = r.s.partial, t.ndims = Len(E)
        PROVE  Represents(t, E)
    <3>1. \A y : Word(t, UnknownRep32, y) = Word(m.s, UnknownRep32, y)
      BY <2>3, <2>5 DEF Word
    <3>2. InWords(t, E, Slots32, MaxRep32, UnknownRep32)
      BY <1>3, <2>1, <2>3, <2>5, <3>1 DEF InWords
    <3> QED
      BY <2>1, <2>3, <2>5, <3>2 DEF Represents
  <2> QED
    BY <2>2, <2>3, <2>4, <2>5
<1>4. CASE ~(Len(E) <= Slots32 /\ \A d \in 1..Len(E) : E[d] < MaxRep32)
  <2>1. PICK v \in Addresses \ R :
          Allocated(m) = [s |-> [m.s EXCEPT !.tag = "REP_OUT_OF_LINE",
                                            !.vec = v],
                          h |-> R \cup {v}]
    BY AllocatedOwns
  <2> DEFINE a == [s |-> [m.s EXCEPT !.tag = "REP_OUT_OF_LINE", !.vec = v],
                   h |-> R \cup {v}]
             r == [a EXCEPT !.s.words = E]
  <2>2. a \in Machines
    BY <1>1, AddressesType DEF Machines, Bytes, Room
  <2>3. a.s.tag = "REP_OUT_OF_LINE" /\ a.s.vec = v /\ a.h = R \cup {v}
        /\ a.s.life = m.s.life /\ a.s.partial = m.s.partial
    BY <1>1 DEF Bytes
  <2>4. ChangedRep(m, E) = r
    BY <1>4, <2>1 DEF ChangedRep, OutOfLine
  <2> HIDE DEF a
  <2>5. /\ r \in Machines /\ r.h = a.h /\ r.s.vec = a.s.vec
        /\ r.s.tag = a.s.tag /\ r.s.words = E
        /\ r.s.life = a.s.life /\ r.s.partial = a.s.partial
    BY <1>1, <2>2 DEF Machines, Bytes
  <2> HIDE DEF r
  <2>6. Owns(r, R)
    BY <2>3, <2>5 DEF Owns
  <2>7. ASSUME NEW t \in Bytes, t.tag = r.s.tag, t.words = r.s.words,
               t.partial = r.s.partial, t.ndims = Len(E)
        PROVE  Represents(t, E)
    BY <2>3, <2>5, <2>7 DEF Represents
  <2> QED
    BY <2>3, <2>4, <2>5, <2>6, <2>7
<1> QED
  BY <1>3, <1>4

(* Every representation takes one more size, or gives way to another. *)
LEMMA UnsafeAddDimIs ==
  ASSUME NEW R, Room(R), NEW m \in Machines, Owns(m, R),
         NEW D, Represents(m.s, D), NEW x \in SizesOf(m.s.partial),
         Len(D) < MaxDimensions, NEW num \in Int
  PROVE  LET r == UnsafeAddDim(m, x, num)
         IN  /\ r \in Machines /\ Owns(r, R)
             /\ Represents(r.s, Append(D, x))
             /\ r.s.num_elements = num
             /\ r.s.life = m.s.life /\ r.s.partial = m.s.partial
<1> DEFINE s == m.s
           E == Append(D, x)
<1>1. s \in Bytes /\ s.partial \in BOOLEAN /\ s.words \in Seq(Int)
      /\ D \in Seq(SizesOf(s.partial)) /\ s.ndims = Len(D)
      /\ Len(s.words) = Len(D)
  BY DEF Machines, Bytes, Represents
<1>2. D \in Seq(Int) /\ x \in Int /\ Len(D) \in Nat
  BY <1>1, SizesType, LenProperties
<1>3. E \in Seq(SizesOf(s.partial)) /\ Len(E) = Len(D) + 1
      /\ Len(E) <= MaxDimensions
  BY <1>1, <1>2, AppendProperties, WidthsAssumption
<1> DEFINE new ==
             CASE s.tag = "REP16" /\ s.ndims < Slots16 /\ x < MaxRep16 ->
                    [m EXCEPT !.s.words =
                       Append(s.words, Word(s, UnknownRep16, x))]
               [] s.tag = "REP32" /\ s.ndims < Slots32 /\ x < MaxRep32 ->
                    [m EXCEPT !.s.words =
                       Append(s.words, Word(s, UnknownRep32, x))]
               [] s.tag = "REP_OUT_OF_LINE" ->
                    [m EXCEPT !.s.words = Append(s.words, x)]
               [] OTHER -> ChangedRep(m, Append(dim_sizes(s), x))
           r == [new EXCEPT !.s.ndims = s.ndims + 1, !.s.num_elements = num]
           Same(w) == [m EXCEPT !.s.words = w]
<1>4. UnsafeAddDim(m, x, num) = r
  BY DEF UnsafeAddDim
<1>5. ASSUME NEW w \in Seq(Int)
      PROVE  /\ Same(w) \in Machines /\ Same(w).h = m.h
             /\ Same(w).s.tag = s.tag /\ Same(w).s.words = w
             /\ Same(w).s.life = s.life /\ Same(w).s.partial = s.partial
             /\ Same(w).s.vec = s.vec
  BY DEF Machines, Bytes
<1> DEFINE Ready(n) ==
             /\ n \in Machines /\ Owns(n, R)
             /\ n.s.life = s.life /\ n.s.partial = s.partial
             /\ \A t \in Bytes :
                  /\ t.tag = n.s.tag /\ t.words = n.s.words
                  /\ t.partial = n.s.partial /\ t.ndims = Len(E)
                  => Represents(t, E)
<1>6. ASSUME s.tag = "REP16", s.ndims < Slots16, x < MaxRep16
      PROVE  Ready(new)
  <2> DEFINE w == Append(s.words, Word(s, UnknownRep16, x))
  <2>1. new = Same(w)
    BY <1>6
  <2>2. w \in Seq(Int)
    BY <1>1, <1>2, WordType, AppendProperties, WidthsAssumption
  <2>3. ASSUME NEW t \in Bytes, t.tag = s.tag, t.words = w,
               t.partial = s.partial, t.ndims = Len(E)
        PROVE  Represents(t, E)
    <3>1. InWords(s, D, Slots16, MaxRep16, UnknownRep16)
      BY <1>6 DEF Represents
    <3>2. MaxRep16 \in Int /\ UnknownRep16 \in Int /\ Slots16 \in Nat
      BY WidthsAssumption DEF MaxRep16
    <3>3. InWords(t, Append(D, x), Slots16, MaxRep16, UnknownRep16)
          /\ Len(t.words) = Len(Append(D, x))
      <4>1. Len(D) < Slots16 /\ s.partial = t.partial
            /\ t.words = Append(s.words, Word(s, UnknownRep16, x))
        BY <1>1, <1>6, <2>3
      <4> HIDE DEF s, w, new
      <4> QED
        BY <1>1, <1>2, <1>6, <2>3, <3>1, <3>2, <4>1, InWordsAppend
    <3> QED
      BY <1>3, <1>6, <2>3, <3>3 DEF Represents
  <2> HIDE DEF w, Same, new
  <2>4. Owns(Same(w), R)
    BY <1>5, <2>2 DEF Owns
  <2> QED
    BY <1>5, <2>1, <2>2, <2>3, <2>4
<1>7. ASSUME s.tag = "REP32", s.ndims < Slots32, x < MaxRep32
      PROVE  Ready(new)
  <2> DEFINE w == Append(s.words, Word(s, UnknownRep32, x))
  <2>1. new = Same(w)
    BY <1>7
  <2>2. w \in Seq(Int)
    BY <1>1, <1>2, WordType, AppendProperties, WidthsAssumption
  <2>3. ASSUME NEW t \in Bytes, t.tag = s.tag, t.words = w,
               t.partial = s.partial, t.ndims = Len(E)
        PROVE  Represents(t, E)
    <3>1. InWords(s, D, Slots32, MaxRep32, UnknownRep32)
      BY <1>7 DEF Represents
    <3>2. MaxRep32 \in Int /\ UnknownRep32 \in Int /\ Slots32 \in Nat
      BY WidthsAssumption DEF MaxRep32
    <3>3. InWords(t, Append(D, x), Slots32, MaxRep32, UnknownRep32)
          /\ Len(t.words) = Len(Append(D, x))
      <4>1. Len(D) < Slots32 /\ s.partial = t.partial
            /\ t.words = Append(s.words, Word(s, UnknownRep32, x))
        BY <1>1, <1>7, <2>3
      <4> HIDE DEF s, w, new
      <4> QED
        BY <1>1, <1>2, <1>7, <2>3, <3>1, <3>2, <4>1, InWordsAppend
    <3> QED
      BY <1>3, <1>7, <2>3, <3>3 DEF Represents
  <2> HIDE DEF w, Same, new
  <2>4. Owns(Same(w), R)
    BY <1>5, <2>2 DEF Owns
  <2> QED
    BY <1>5, <2>1, <2>2, <2>3, <2>4
<1>8. ASSUME s.tag = "REP_OUT_OF_LINE" PROVE Ready(new)
  <2> DEFINE w == Append(s.words, x)
  <2>1. new = Same(w)
    BY <1>8
  <2>2. w \in Seq(Int) /\ w = E
    BY <1>1, <1>2, <1>8, AppendProperties DEF Represents
  <2>3. ASSUME NEW t \in Bytes, t.tag = s.tag, t.words = w,
               t.partial = s.partial, t.ndims = Len(E)
        PROVE  Represents(t, E)
    BY <1>3, <1>8, <2>2, <2>3 DEF Represents
  <2> HIDE DEF w, Same, new
  <2>4. Owns(Same(w), R)
    BY <1>5, <2>2 DEF Owns
  <2> QED
    BY <1>5, <2>1, <2>2, <2>3, <2>4
<1>9. ASSUME ~(s.tag = "REP16" /\ s.ndims < Slots16 /\ x < MaxRep16),
             ~(s.tag = "REP32" /\ s.ndims < Slots32 /\ x < MaxRep32),
             s.tag # "REP_OUT_OF_LINE"
      PROVE  Ready(new)
  <2>1. new = ChangedRep(m, Append(dim_sizes(s), x))
    BY <1>9
  <2>2. dim_sizes(s) = D
    BY <1>1, DimSizes
  <2>3. m.h = R
    BY <1>9 DEF Owns
  <2> HIDE DEF new
  <2> QED
    BY <1>3, <2>1, <2>2, <2>3, ChangedRepIs
<1>10. Ready(new)
  <2>1. s.tag \in {"REP16", "REP32", "REP_OUT_OF_LINE"}
    BY <1>1 DEF Bytes
  <2> HIDE DEF new, Ready
  <2> QED
    BY <2>1, <1>6, <1>7, <1>8, <1>9
<1> HIDE DEF new
<1>11. /\ r \in Machines /\ r.h = new.h
       /\ r.s.ndims = Len(D) + 1 /\ r.s.num_elements = num
       /\ r.s.life = new.s.life /\ r.s.partial = new.s.partial
       /\ r.s.tag = new.s.tag /\ r.s.words = new.s.words
       /\ r.s.vec = new.s.vec
  <2>1. new \in Machines /\ s.ndims + 1 = Len(D) + 1 /\ Len(D) + 1 \in Nat
    BY <1>1, <1>2, <1>10
  <2> HIDE DEF Ready, s
  <2> QED
    BY <2>1 DEF Machines, Bytes
<1> HIDE DEF r
<1>12. Represents(r.s, E)
  <2>1. r.s \in Bytes
    BY <1>11 DEF Machines
  <2> QED
    BY <1>3, <1>10, <1>11, <2>1
<1>13. Owns(r, R)
  BY <1>10, <1>11 DEF Owns
<1> QED
  BY <1>4, <1>10, <1>11, <1>12, <1>13

(* The loop of AddDims, over machines of S. *)
AddDimKeeps(S, T) == \A n \in S, x \in T : AddDim(n, x) \in S

AddDimsRuns(m, sizes, S) ==
  {f \in [0..Len(sizes) -> S] :
     /\ f[0] = m
     /\ \A d \in 1..Len(sizes) : f[d] = AddDim(f[d - 1], sizes[d])
     /\ AddDims(m, sizes) = f[Len(sizes)]}

LEMMA AddDimsLoop ==
  ASSUME NEW S, NEW m \in S, NEW T, NEW sizes \in Seq(T), AddDimKeeps(S, T)
  PROVE  AddDimsRuns(m, sizes, S) # {}
<1> DEFINE L == Len(sizes)
           F == [d \in 1..L |-> [n \in S |-> AddDim(n, sizes[d])]]
           Loop(g) == g = [d \in 0..L |->
                             IF d = 0 THEN m ELSE AddDim(g[d - 1], sizes[d])]
           f == CHOOSE g : Loop(g)
           P == {d \in 0..L : f[d] \in S}
<1>0. \A n \in S, x \in T : AddDim(n, x) \in S
  BY DEF AddDimKeeps
<1>1. L \in Nat /\ \A d \in 1..L : sizes[d] \in T
  BY LenProperties, ElementOfSeq
<1>2. AddDims(m, sizes) = f[L]
  BY DEF AddDims
<1>3. F \in Steps(L, S)
  BY <1>0, <1>1 DEF Steps
<1>4. Runs(F, m, L, S) # {}
  <2> HIDE DEF F, L
  <2> QED
    BY <1>1, <1>3, Iterates
<1>5. PICK g \in [0..L -> S] :
        g[0] = m /\ \A d \in 1..L : g[d] = F[d][g[d - 1]]
  <2> HIDE DEF F, L
  <2> QED
    BY <1>4 DEF Runs
<1>6. ASSUME NEW d \in 1..L PROVE g[d] = AddDim(g[d - 1], sizes[d])
  <2>1. d - 1 \in 0..L /\ g[d - 1] \in S
    BY <1>1, <1>5
  <2> HIDE DEF L
  <2> QED
    BY <1>5, <2>1
<1>7. Loop(g)
  <2> HIDE DEF F, L
  <2> QED
    BY <1>1, <1>5, <1>6
<1>8. Loop(f)
  <2> HIDE DEF Loop
  <2> QED
    BY <1>7
<1> HIDE DEF f
<1>9. f[0] = m /\ \A d \in 1..L : f[d] = AddDim(f[d - 1], sizes[d])
  <2>1. 0 \in 0..L /\ \A d \in 1..L : d \in 0..L /\ d # 0
    BY <1>1
  <2> HIDE DEF L
  <2> QED
    BY <1>8, <2>1
<1>10. P = 0..L
  <2>1. P \in SUBSET (0..L) /\ 0 \in P
    BY <1>1, <1>9
  <2>2. ASSUME NEW d \in 1..L, d - 1 \in P PROVE d \in P
    <3>1. d \in 0..L /\ f[d - 1] \in S
      BY <1>1, <2>2
    <3> QED
      BY <1>0, <1>1, <1>9, <3>1
  <2> HIDE DEF P, L
  <2> QED
    BY <1>1, <2>1, <2>2, Throughout
<1>11. f \in [0..L -> S]
  <2>1. f = [d \in 0..L |-> f[d]]
    <3> HIDE DEF L
    <3> QED
      BY <1>8
  <2>2. \A d \in 0..L : f[d] \in S
    BY <1>10
  <2> HIDE DEF L
  <2> QED
    BY <2>1, <2>2
<1>12. f \in AddDimsRuns(m, sizes, S)
  BY <1>2, <1>9, <1>11 DEF AddDimsRuns
<1> QED
  BY <1>12

(* Shape s holds the sizes D, and their number of elements. *)
Holds(s, D) ==
  Represents(s, D) /\ Bounded(D) /\ s.num_elements = CountOf(D)

(* What D should make of a shape: it holds D, or has failed if D is too    *)
(* long or too large.                                                      *)
Becomes(m, partial, R, D) ==
  /\ m \in Machines
  /\ IF Len(D) <= MaxDimensions /\ Bounded(D)
       THEN /\ m.s.life = "live" /\ m.s.partial = partial
            /\ Owns(m, R) /\ Holds(m.s, D)
       ELSE m.s.life = "crashed"

LEMMA FailIs ==
  ASSUME NEW m \in Machines
  PROVE  Fail(m) \in Machines /\ Fail(m).s.life = "crashed"
BY DEF Fail, Machines, Bytes

LEMMA AddDimBecomes ==
  ASSUME NEW partial \in BOOLEAN, NEW R, Room(R), NEW m,
         NEW D \in Seq(SizesOf(partial)), Becomes(m, partial, R, D),
         NEW x \in SizesOf(partial)
  PROVE  Becomes(AddDim(m, x), partial, R, Append(D, x))
<1> DEFINE num == NumElementsWith(m.s.partial, m.s.num_elements, x)
           E == Append(D, x)
<1>1. m \in Machines /\ m.s \in Bytes
  BY DEF Becomes, Machines
<1>2. D \in Seq(Int) /\ x \in Int /\ (x < 0 => partial) /\ Len(D) \in Nat
      /\ E \in Seq(SizesOf(partial)) /\ Len(E) = Len(D) + 1
  BY SizesType, LenProperties, AppendProperties
<1>3. CASE Len(D) <= MaxDimensions /\ Bounded(D)
  <2>1. /\ m.s.life = "live" /\ m.s.partial = partial
        /\ Owns(m, R) /\ Holds(m.s, D)
    BY <1>3 DEF Becomes
  <2>2. m.s.ndims = Len(D) /\ Represents(m.s, D) /\ m.s.num_elements = CountOf(D)
    BY <2>1 DEF Holds, Represents
  <2>3. ~unknown_rank(m.s)
    BY <1>1, <2>2, DimSizes
  <2>4. num = IF Bounded(E) THEN CountOf(E) ELSE Overflow
    BY <1>3, <2>1, <2>2, OneMore
  <2>5. CountOf(E) \in Int /\ CountOf(E) # Overflow
    <3> HIDE DEF E
    <3> QED
      BY <1>2, CountType DEF Overflow
  <2>6. AddDim(m, x) = IF m.s.ndims >= MaxDimensions \/ num = Overflow
                         THEN Fail(m) ELSE UnsafeAddDim(m, x, num)
    BY <1>2, <2>1, <2>3 DEF AddDim
  <2> HIDE DEF num, E
  <2>7. CASE Len(E) <= MaxDimensions /\ Bounded(E)
    <3>1. AddDim(m, x) = UnsafeAddDim(m, x, num) /\ num = CountOf(E)
          /\ Len(D) < MaxDimensions
      BY <1>2, <2>2, <2>4, <2>5, <2>6, <2>7, WidthsAssumption
    <3> DEFINE r == UnsafeAddDim(m, x, num)
    <3>2. /\ r \in Machines /\ Owns(r, R)
          /\ Represents(r.s, E) /\ r.s.num_elements = num
          /\ r.s.life = m.s.life /\ r.s.partial = m.s.partial
      BY <1>1, <2>1, <2>2, <2>5, <3>1, UnsafeAddDimIs DEF E
    <3> HIDE DEF r
    <3>3. Becomes(r, partial, R, E)
      BY <2>1, <2>7, <3>1, <3>2 DEF Becomes, Holds
    <3> QED
      BY <3>1, <3>3 DEF r, E
  <2>8. CASE ~(Len(E) <= MaxDimensions /\ Bounded(E))
    <3>1. AddDim(m, x) = Fail(m)
      BY <1>2, <2>2, <2>4, <2>6, <2>8, WidthsAssumption
    <3> QED
      BY <1>1, <2>8, <3>1, FailIs DEF Becomes, E
  <2> QED
    BY <2>7, <2>8
<1>4. CASE ~(Len(D) <= MaxDimensions /\ Bounded(D))
  <2>1. m.s.life = "crashed"
    BY <1>4 DEF Becomes
  <2>2. AddDim(m, x) = m
    BY <2>1 DEF AddDim
  <2>3. ~(Len(E) <= MaxDimensions /\ Bounded(E))
    BY <1>2, <1>4, StaysTooLarge, WidthsAssumption
  <2> QED
    BY <1>1, <2>1, <2>2, <2>3 DEF Becomes
<1> QED
  BY <1>3, <1>4

(* So do several sizes, one after the other. *)
LEMMA AddDimsBecomes ==
  ASSUME NEW partial \in BOOLEAN, NEW R, Room(R), NEW m,
         NEW D \in Seq(SizesOf(partial)), Becomes(m, partial, R, D),
         NEW sizes \in Seq(SizesOf(partial))
  PROVE  Becomes(AddDims(m, sizes), partial, R, D \o sizes)
<1> DEFINE L == Len(sizes)
           T == SizesOf(partial)
           S == {n \in Machines : \E E \in Seq(T) : Becomes(n, partial, R, E)}
           Prefix(d) == SubSeq(sizes, 1, d)
<1>1. m \in S
  BY DEF Becomes
<1>2. ASSUME NEW n \in S, NEW x \in T PROVE AddDim(n, x) \in S
  <2>1. PICK E \in Seq(T) : Becomes(n, partial, R, E)
    OBVIOUS
  <2>2. Becomes(AddDim(n, x), partial, R, Append(E, x))
    BY <2>1, AddDimBecomes
  <2>3. Append(E, x) \in Seq(T)
    BY AppendProperties
  <2>4. AddDim(n, x) \in Machines
    BY <2>2 DEF Becomes
  <2> HIDE DEF T
  <2> QED
    BY <2>2, <2>3, <2>4
<1>3. PICK f : /\ f[0] = m
               /\ \A d \in 1..L : f[d] = AddDim(f[d - 1], sizes[d])
               /\ \A d \in 0..L : f[d] \in S
               /\ AddDims(m, sizes) = f[L]
  <2>1. AddDimKeeps(S, T)
    <3> HIDE DEF S, T
    <3> QED
      BY <1>2 DEF AddDimKeeps
  <2>2. AddDimsRuns(m, sizes, S) # {}
    <3> HIDE DEF S
    <3> QED
      BY <1>1, <2>1, AddDimsLoop
  <2> HIDE DEF S
  <2> QED
    BY <2>2 DEF AddDimsRuns
<1> DEFINE Right(d) == Becomes(f[d], partial, R, D \o Prefix(d))
           P == {d \in 0..L : Right(d)}
<1>4. L \in Nat
  BY LenProperties
<1>5. Right(0)
  <2>1. Prefix(0) = <<>> /\ D \o <<>> = D
    BY SubSeqEmpty, ConcatEmptySeq
  <2> QED
    BY <1>3, <2>1
<1>6. ASSUME NEW d \in 1..L, Right(d - 1) PROVE Right(d)
  <2> DEFINE E == Prefix(d - 1)
             x == sizes[d]
  <2>1. E \in Seq(T) /\ x \in T /\ Prefix(d) = Append(E, x)
    BY PrefixAppend
  <2>2. D \o E \in Seq(T)
    BY <2>1, ConcatProperties
  <2>3. D \o Append(E, x) = Append(D \o E, x)
    <3>1. <<x>> \in Seq(T)
      BY <2>1
    <3>2. Append(E, x) = E \o <<x>> /\ Append(D \o E, x) = (D \o E) \o <<x>>
      BY <2>1, <2>2, AppendIsConcat
    <3> QED
      BY <2>1, <3>1, <3>2, ConcatAssociative, SMTT(30)
  <2>4. f[d] = AddDim(f[d - 1], x)
    BY <1>3
  <2>5. Becomes(f[d - 1], partial, R, D \o E)
    BY <1>6
  <2> HIDE DEF E, x, T
  <2>6. Becomes(f[d], partial, R, Append(D \o E, x))
    BY <2>1, <2>2, <2>4, <2>5, AddDimBecomes DEF T
  <2> QED
    BY <2>1, <2>3, <2>6
<1>7. P = 0..L
  <2>1. P \in SUBSET (0..L) /\ 0 \in P
    BY <1>4, <1>5
  <2>2. ASSUME NEW d \in 1..L, d - 1 \in P PROVE d \in P
    <3>1. d \in 0..L
      BY <1>4
    <3> HIDE DEF Right
    <3> QED
      BY <1>6, <2>2, <3>1
  <2> HIDE DEF P, L
  <2> QED
    BY <1>4, <2>1, <2>2, Throughout
<1>8. Right(L)
  <2> HIDE DEF Right, L
  <2> QED
    BY <1>4, <1>7
<1>9. Prefix(L) = sizes
  BY SubSeqFull
<1> QED
  BY <1>3, <1>8, <1>9

(* Nothing is added to a shape of unknown rank. *)
LEMMA AddDimsUnknown ==
  ASSUME NEW m \in Machines, m.s.life = "live", unknown_rank(m.s),
         NEW T, NEW sizes \in Seq(T)
  PROVE  AddDims(m, sizes) = m
<1> DEFINE S == {m}
<1>1. m \in S /\ AddDimKeeps(S, T)
  BY DEF AddDimKeeps, AddDim, unknown_rank
<1>2. PICK f : /\ \A d \in 0..Len(sizes) : f[d] \in S
               /\ AddDims(m, sizes) = f[Len(sizes)]
  <2> HIDE DEF S
  <2>1. AddDimsRuns(m, sizes, S) # {}
    BY <1>1, AddDimsLoop
  <2> QED
    BY <2>1 DEF AddDimsRuns
<1>3. Len(sizes) \in 0..Len(sizes)
  BY LenProperties
<1> QED
  BY <1>2, <1>3

-----------------------------------------------------------------------------
(* Making shapes anew.                                                     *)

(* A shape without sizes. *)
LEMMA EmptyBecomes ==
  ASSUME NEW partial \in BOOLEAN, NEW R, NEW m \in Machines,
         m.s.life = "live", m.s.partial = partial, m.s.tag = "REP16",
         m.s.ndims = 0, m.s.words = <<>>, m.s.num_elements = 1, m.h = R
  PROVE  Becomes(m, partial, R, <<>>)
<1>1. <<>> \in Seq(SizesOf(partial)) /\ Len(<<>>) = 0
  BY EmptySeq
<1>2. InWords(m.s, <<>>, Slots16, MaxRep16, UnknownRep16)
  BY <1>1, WidthsAssumption DEF InWords
<1>3. Represents(m.s, <<>>)
  BY <1>1, <1>2, WidthsAssumption DEF Represents
<1>4. Owns(m, R)
  BY DEF Owns
<1> QED
  BY <1>1, <1>3, <1>4, NoSizes, WidthsAssumption DEF Becomes, Holds

LEMMA ClearedBecomes ==
  ASSUME NEW R, NEW m \in Machines, Owns(m, R), R \subseteq Addresses,
         m.s.life = "live"
  PROVE  Becomes(Cleared(m), m.s.partial, R, <<>>)
<1>1. PICK one \in Int : one = 1
  OBVIOUS
<1>2. PICK none \in Seq(Int) : none = <<>>
  <2>1. <<>> \in Seq(Int)
    BY EmptySeq
  <2> QED
    BY <2>1, Zenon
<1> DEFINE f == Free(m)
           w == [f EXCEPT !.s.words = none, !.s.num_elements = one]
           r == [w EXCEPT !.s.tag = "REP16", !.s.ndims = 0]
<1>3. f \in Machines /\ f.s.life = "live" /\ f.s.partial = m.s.partial
      /\ f.h = R
  BY FreeOwns DEF Free, NoVector, Machines, Bytes
<1>4. Cleared(m) = r
  <2>1. Cleared(m) = [f EXCEPT !.s.tag = "REP16", !.s.ndims = 0,
                               !.s.words = none, !.s.num_elements = one]
    BY <1>1, <1>2 DEF Cleared
  <2> HIDE DEF f
  <2> QED
    BY <1>3, <2>1, ZenonT(60) DEF Machines, Bytes
<1> HIDE DEF f
<1>5. /\ w \in Machines /\ w.h = f.h
      /\ w.s.words = none /\ w.s.num_elements = one
      /\ w.s.life = f.s.life /\ w.s.partial = f.s.partial
  BY <1>3 DEF Machines, Bytes
<1> HIDE DEF w
<1>6. /\ r \in Machines /\ r.h = w.h
      /\ r.s.words = w.s.words /\ r.s.num_elements = w.s.num_elements
      /\ r.s.tag = "REP16" /\ r.s.ndims = 0
      /\ r.s.life = w.s.life /\ r.s.partial = w.s.partial
  BY <1>5 DEF Machines, Bytes
<1>7. m.s.partial \in BOOLEAN
  BY DEF Machines, Bytes
<1> HIDE DEF r
<1> QED
  BY <1>1, <1>2, <1>3, <1>4, <1>5, <1>6, <1>7, EmptyBecomes

(* The loop over what a shape represents puts its number of elements       *)
(* right.                                                                  *)
LEMMA RecomputeBecomes ==
  ASSUME NEW R, NEW m \in Machines, Owns(m, R), m.s.life = "live",
         NEW D, Represents(m.s, D)
  PROVE  Becomes(RecomputeNumElements(m), m.s.partial, R, D)
<1> DEFINE num == Counted(m.s.partial, dim_sizes(m.s))
           r == [m EXCEPT !.s.num_elements = num]
<1>1. m.s \in Bytes /\ m.s.partial \in BOOLEAN
      /\ D \in Seq(SizesOf(m.s.partial)) /\ Len(D) <= MaxDimensions
  BY DEF Machines, Bytes, Represents
<1>2. num = IF Bounded(D) THEN CountOf(D) ELSE Overflow
  BY <1>1, DimSizes, CountedIs
<1>3. CountOf(D) \in Int /\ CountOf(D) # Overflow
  BY <1>1, CountType DEF Overflow
<1>4. RecomputeNumElements(m) = IF num = Overflow THEN Fail(m) ELSE r
  BY DEF RecomputeNumElements
<1> HIDE DEF num
<1>5. CASE Bounded(D)
  <2>1. num \in Int /\ RecomputeNumElements(m) = r
    BY <1>2, <1>3, <1>4, <1>5
  <2>2. /\ r \in Machines /\ r.h = m.h /\ r.s.num_elements = num
        /\ r.s.life = m.s.life /\ r.s.partial = m.s.partial
        /\ r.s.tag = m.s.tag /\ r.s.ndims = m.s.ndims
        /\ r.s.words = m.s.words /\ r.s.vec = m.s.vec
    BY <2>1 DEF Machines, Bytes
  <2> HIDE DEF r
  <2>3. Owns(r, R)
    BY <2>2 DEF Owns
  <2>4. Represents(r.s, D)
    <3>1. \A unknown, x : Word(r.s, unknown, x) = Word(m.s, unknown, x)
      BY <2>2 DEF Word
    <3> QED
      BY <2>2, <3>1 DEF Represents, InWords
  <2> QED
    BY <1>1, <1>2, <1>5, <2>1, <2>2, <2>3, <2>4 DEF Becomes, Holds
<1>6. CASE ~Bounded(D)
  BY <1>2, <1>4, <1>6, FailIs DEF Becomes
<1> QED
  BY <1>5, <1>6

(* It changes nothing where it is right, and nothing after a failure. *)
LEMMA RecomputeAgain ==
  ASSUME NEW partial \in BOOLEAN, NEW R, NEW m,
         NEW D \in Seq(SizesOf(partial)), Becomes(m, partial, R, D)
  PROVE  Becomes(RecomputeNumElements(m), partial, R, D)
<1>1. CASE Len(D) <= MaxDimensions /\ Bounded(D)
  BY <1>1, RecomputeBecomes DEF Becomes, Holds
<1>2. CASE ~(Len(D) <= MaxDimensions /\ Bounded(D))
  BY <1>2 DEF Becomes, RecomputeNumElements
<1> QED
  BY <1>1, <1>2

-----------------------------------------------------------------------------
(* Short lists of small sizes.                                             *)

(* The products of the largest small size grow. *)
LEMMA PowersGrow ==
  LET M == [d \in 1..FastDims |-> MaxSmall]
  IN  /\ Products(M) \in [0..FastDims -> Int]
      /\ Products(M)[0] = 1
      /\ \A d \in 1..FastDims :
           /\ Products(M)[d] = Products(M)[d - 1] * MaxSmall
           /\ Products(M)[d] >= 1
      /\ \A d \in 0..FastDims : 1 <= Products(M)[d]
                                /\ Products(M)[d] <= MaxInt64
<1> DEFINE M == [d \in 1..FastDims |-> MaxSmall]
           q == Products(M)
<1>1. FastDims \in Nat /\ MaxSmall \in Nat /\ MaxSmall >= 1
  BY WidthsAssumption
<1>2. M \in Seq(Int) /\ Len(M) = FastDims /\ \A d \in 1..FastDims : M[d] = MaxSmall
  <2>1. M \in [1..FastDims -> Int]
    BY <1>1
  <2> QED
    BY <1>1, <2>1
<1>3. q[FastDims] <= MaxInt64
  BY <1>2, WidthsAssumption DEF Product
<1> HIDE DEF M
<1>4. /\ q \in [0..FastDims -> Int] /\ q[0] = 1
      /\ \A d \in 1..FastDims : q[d] = q[d - 1] * MaxSmall
  BY <1>2, ProductsLoop
<1> HIDE DEF q
<1>5. ASSUME NEW d \in 1..FastDims, q[d - 1] >= 1
      PROVE  q[d] >= q[d - 1]
  <2>1. \A a \in Int, b \in Nat : a >= 1 /\ b >= 1 => a * b >= a
    OBVIOUS
  <2>2. q[d - 1] \in Int
    <3>1. d - 1 \in 0..FastDims
      BY <1>1
    <3> QED
      BY <1>4, <3>1
  <2>3. q[d] = q[d - 1] * MaxSmall
    BY <1>4
  <2> QED
    BY <1>1, <1>5, <2>1, <2>2, <2>3
<1> DEFINE P == {d \in 0..FastDims : q[d] >= 1 /\ \A i \in 0..d : q[i] <= q[d]}
<1>6. P = 0..FastDims
  <2>1. P \in SUBSET (0..FastDims) /\ 0 \in P
    BY <1>1, <1>4
  <2>2. ASSUME NEW d \in 1..FastDims, d - 1 \in P PROVE d \in P
    <3>1. d \in 0..FastDims /\ d - 1 \in 0..FastDims
      BY <1>1
    <3>2. q[d] >= q[d - 1] /\ q[d - 1] >= 1 /\ q[d] \in Int /\ q[d - 1] \in Int
      BY <1>4, <1>5, <2>2, <3>1
    <3>3. ASSUME NEW i \in 0..d PROVE q[i] <= q[d]
      <4>1. CASE i = d
        BY <4>1, <3>2
      <4>2. CASE i # d
        <5>1. i \in 0..(d - 1) /\ i \in 0..FastDims
          BY <1>1, <4>2
        <5>2. q[i] <= q[d - 1] /\ q[i] \in Int
          BY <1>4, <2>2, <5>1
        <5> QED
          BY <3>2, <5>2
      <4> QED
        BY <4>1, <4>2
    <3> QED
      BY <3>1, <3>2, <3>3
  <2> HIDE DEF P
  <2> QED
    BY <1>1, <2>1, <2>2, Throughout
<1>7. ASSUME NEW d \in 0..FastDims PROVE 1 <= q[d] /\ q[d] <= MaxInt64
  <2>1. FastDims \in P /\ d \in P /\ d \in 0..FastDims
    BY <1>1, <1>6
  <2>2. q[d] <= q[FastDims] /\ q[d] >= 1
    BY <2>1
  <2>3. q[d] \in Int /\ q[FastDims] \in Int /\ MaxInt64 \in Int
    BY <1>1, <1>4, WidthsAssumption
  <2> HIDE DEF P
  <2> QED
    BY <1>3, <2>2, <2>3
<1>8. \A d \in 1..FastDims : q[d] >= 1
  BY <1>1, <1>7
<1> QED
  BY <1>4, <1>7, <1>8 DEF M, q

(* So no product of few small sizes is too large: the fast path of         *)
(* InitDims, which does not look, is right.                                *)
LEMMA SmallIsBounded ==
  ASSUME NEW partial \in BOOLEAN, NEW list \in Seq(SizesOf(partial)),
         Len(list) <= FastDims, \A d \in 1..Len(list) : list[d] <= MaxSmall
  PROVE  Bounded(list)
<1> DEFINE M == [d \in 1..FastDims |-> MaxSmall]
           q == Products(M)
           p == Products(list)
           L == Len(list)
           NoneUnknown(d) == \A j \in 1..d : list[j] # -1
           P == {d \in 0..L : NoneUnknown(d) => p[d] >= 0 /\ p[d] <= q[d]}
<1>1. L \in Nat /\ L <= FastDims /\ FastDims \in Nat /\ MaxSmall \in Nat
      /\ \A d \in 1..L : list[d] \in Int /\ list[d] >= -1 /\ list[d] <= MaxSmall
  BY LenProperties, ElementOfSeq, SizesType, WidthsAssumption
<1>2. /\ p \in [0..L -> Int] /\ p[0] = 1
      /\ \A d \in 1..L : p[d] = p[d - 1] * list[d]
  BY SizesType, ProductsLoop
<1>3. /\ q \in [0..FastDims -> Int] /\ q[0] = 1
      /\ \A d \in 1..FastDims : q[d] = q[d - 1] * MaxSmall
      /\ \A d \in 0..FastDims : q[d] <= MaxInt64
  BY PowersGrow
<1> HIDE DEF p, q, L
<1>4. P = 0..L
  <2>1. P \in SUBSET (0..L) /\ 0 \in P
    BY <1>1, <1>2, <1>3
  <2>2. ASSUME NEW d \in 1..L, d - 1 \in P PROVE d \in P
    <3> SUFFICES ASSUME NoneUnknown(d) PROVE p[d] >= 0 /\ p[d] <= q[d]
      BY <1>1
    <3>1. NoneUnknown(d - 1) /\ list[d] # -1
      BY <1>1
    <3>2. p[d - 1] >= 0 /\ p[d - 1] <= q[d - 1]
      BY <2>2, <3>1
    <3>3. p[d] = p[d - 1] * list[d] /\ q[d] = q[d - 1] * MaxSmall
      BY <1>1, <1>2, <1>3
    <3>4. p[d - 1] \in Nat /\ q[d - 1] \in Nat /\ list[d] \in Nat
          /\ list[d] <= MaxSmall
      <4>1. d - 1 \in 0..L /\ d - 1 \in 0..FastDims
        BY <1>1
      <4>2. p[d - 1] \in Int /\ q[d - 1] \in Int
        BY <1>2, <1>3, <4>1
      <4>3. list[d] \in Int /\ list[d] >= -1 /\ list[d] <= MaxSmall
        BY <1>1
      <4> QED
        BY <3>1, <3>2, <4>2, <4>3
    <3>5. \A a, b, x, y \in Nat : a <= b /\ x <= y => a * x >= 0 /\ a * x <= b * y
      <4> TAKE a, b, x, y \in Nat
      <4> HAVE a <= b /\ x <= y
      <4>1. a * x <= a * y
        OBVIOUS
      <4>2. a * y <= b * y
        OBVIOUS
      <4>3. a * x \in Nat /\ a * y \in Nat /\ b * y \in Nat
        OBVIOUS
      <4> QED
        BY <4>1, <4>2, <4>3
    <3> QED
      BY <1>1, <3>2, <3>3, <3>4, <3>5
  <2> HIDE DEF P
  <2> QED
    BY <1>1, <2>1, <2>2, Throughout
<1>5. ASSUME NEW i \in 1..L, NoneUnknown(i) PROVE p[i] <= MaxInt64
  <2>1. i \in 0..L /\ i \in 0..FastDims
    BY <1>1
  <2>2. p[i] <= q[i]
    BY <1>4, <1>5, <2>1
  <2>4. q[i] <= MaxInt64
    BY <1>3, <2>1
  <2> HIDE DEF P, NoneUnknown
  <2>3. p[i] \in Int /\ q[i] \in Int /\ MaxInt64 \in Int
    <3>1. p[i] \in Int
      BY <1>2, <2>1
    <3>2. q[i] \in Int
      BY <1>3, <2>1
    <3> QED
      BY <3>1, <3>2, WidthsAssumption
  <2> QED
    BY <2>2, <2>3, <2>4
<1> QED
  BY <1>5 DEF Bounded, p, L

LEMMA InitDimsBecomes ==
  ASSUME NEW partial \in BOOLEAN, NEW R, Room(R), NEW m,
         Becomes(m, partial, R, <<>>), m.s.tag = "REP16",
         NEW list \in Seq(SizesOf(partial))
  PROVE  Becomes(InitDims(m, list), partial, R, list)
<1>1. /\ m \in Machines /\ m.s.life = "live" /\ m.s.partial = partial
      /\ Owns(m, R)
  BY NoSizes, EmptySeq, WidthsAssumption DEF Becomes
<1>2. list \in Seq(Int) /\ Len(list) \in Nat
      /\ \A d \in 1..Len(list) : list[d] \in Int /\ list[d] >= -1
                                 /\ (list[d] < 0 => partial /\ list[d] = -1)
  BY SizesType, LenProperties, ElementOfSeq
<1>3. CASE Len(list) \in 1..FastDims /\ \A d \in 1..Len(list) : list[d] <= MaxSmall
  <2> DEFINE W == Words(m.s, UnknownRep16, list)
             num == IF \E d \in 1..Len(list) : list[d] < 0 THEN -1
                    ELSE Product(list)
             r == [m EXCEPT !.s.ndims = Len(list), !.s.words = W,
                            !.s.num_elements = num]
  <2>1. InitDims(m, list) = r
    BY <1>1, <1>2, <1>3 DEF InitDims
  <2>2. m.s \in Bytes /\ UnknownRep16 \in Int
    BY <1>1, WidthsAssumption DEF Machines
  <2>3. W \in Seq(Int) /\ Len(W) = Len(list)
        /\ \A d \in 1..Len(list) : W[d] = Word(m.s, UnknownRep16, list[d])
    BY <1>2, <2>2, WordsType
  <2>4. num = CountOf(list) /\ num \in Int
    <3>1. AllKnown(list) <=> ~\E d \in 1..Len(list) : list[d] < 0
      BY <1>2 DEF AllKnown
    <3>2. CountOf(list) \in Int
      BY CountType
    <3> QED
      BY <3>1, <3>2 DEF CountOf
  <2> HIDE DEF W, num
  <2>5. /\ r \in Machines /\ r.h = m.h /\ r.s.num_elements = num
        /\ r.s.ndims = Len(list) /\ r.s.words = W /\ r.s.tag = "REP16"
        /\ r.s.life = "live" /\ r.s.partial = partial
    BY <1>1, <1>2, <2>3, <2>4 DEF Machines, Bytes
  <2> HIDE DEF r
  <2>6. Bounded(list)
    BY <1>3, SmallIsBounded
  <2>7. InWords(r.s, list, Slots16, MaxRep16, UnknownRep16)
    <3>1. Len(list) <= Slots16
      BY <1>2, <1>3, WidthsAssumption
    <3>2. ASSUME NEW d \in 1..Len(list)
          PROVE  list[d] < MaxRep16
                 /\ r.s.words[d] = Word(r.s, UnknownRep16, list[d])
      <4>1. list[d] < MaxRep16
        BY <1>2, <1>3, WidthsAssumption DEF MaxRep16
      <4>2. Word(r.s, UnknownRep16, list[d]) = Word(m.s, UnknownRep16, list[d])
        BY <1>1, <2>5 DEF Word
      <4> QED
        BY <2>3, <2>5, <4>1, <4>2
    <3> QED
      BY <3>1, <3>2 DEF InWords
  <2>8. Len(list) <= MaxDimensions
    BY <1>2, <1>3, WidthsAssumption
  <2>9. Represents(r.s, list)
    BY <2>3, <2>5, <2>7, <2>8 DEF Represents
  <2>10. Owns(r, R)
    BY <1>1, <2>5 DEF Owns
  <2> QED
    BY <2>1, <2>4, <2>5, <2>6, <2>8, <2>9, <2>10 DEF Becomes, Holds
<1>4. CASE ~(/\ Len(list) \in 1..FastDims
             /\ \A d \in 1..Len(list) : list[d] <= MaxSmall)
  <2>1. InitDims(m, list) = AddDims(m, list)
    BY <1>4 DEF InitDims
  <2>2. <<>> \in Seq(SizesOf(partial)) /\ <<>> \o list = list
    BY EmptySeq, ConcatEmptySeq
  <2> QED
    BY <2>1, <2>2, AddDimsBecomes
<1> QED
  BY <1>3, <1>4

-----------------------------------------------------------------------------
(* MakeShape.                                                              *)

(* A shape may have these sizes. *)
Allows(partial, D) ==
  D \in Seq(SizesOf(partial)) /\ Len(D) <= MaxDimensions /\ Bounded(D)

(* What is true of the loop of MakeShapeHelper after so many sizes: a set  *)
(* of its states for each of them.                                         *)
MadeKeeps(list, A, S) ==
  \A d \in 1..Len(list) : \A x \in S :
    x \in A[d - 1] => MadeWith(x, list[d]) \in S \cap A[d]

Started(m) == [m |-> Cleared(m), error |-> FALSE]

LEMMA MadeShapeLoop ==
  ASSUME NEW m, NEW list \in Seq(Int), NEW S, NEW A, MadeKeeps(list, A, S),
         Started(m) \in S, Started(m) \in A[0], Len(list) <= MaxDimensions
  PROVE  \E x \in S : x \in A[Len(list)] /\ MadeShape(m, list) = x.m
<1> DEFINE L == Len(list)
           a == Started(m)
           F == [d \in 1..L |-> [x \in S |-> IF x \in A[d - 1]
                                              THEN MadeWith(x, list[d]) ELSE x]]
           Loop(g) == g = [d \in 0..L |->
                             IF d = 0 THEN [m |-> Cleared(m), error |-> FALSE]
                             ELSE MadeWith(g[d - 1], list[d])]
           f == CHOOSE g : Loop(g)
           P == {d \in 0..L : f[d] \in S /\ f[d] \in A[d]}
<1>1. L \in Nat
  BY LenProperties
<1>2. MadeShape(m, list) = f[L].m
  BY <1>1, WidthsAssumption DEF MadeShape
<1>3. ASSUME NEW d \in 1..L, NEW x \in S, x \in A[d - 1]
      PROVE  MadeWith(x, list[d]) \in S /\ MadeWith(x, list[d]) \in A[d]
  BY <1>3 DEF MadeKeeps
<1> HIDE DEF L
<1>4. F \in Steps(L, S)
  BY <1>3 DEF Steps
<1>5. Runs(F, a, L, S) # {}
  <2> HIDE DEF F
  <2> QED
    BY <1>1, <1>4, Iterates
<1>6. PICK g \in [0..L -> S] :
        g[0] = a /\ \A d \in 1..L : g[d] = F[d][g[d - 1]]
  <2> HIDE DEF F
  <2> QED
    BY <1>5 DEF Runs
<1>7. \A d \in 0..L : g[d] \in A[d]
  <2> DEFINE Q == {d \in 0..L : g[d] \in A[d]}
  <2>1. Q \in SUBSET (0..L) /\ 0 \in Q
    BY <1>1, <1>6
  <2>2. ASSUME NEW d \in 1..L, d - 1 \in Q PROVE d \in Q
    <3>1. d \in 0..L /\ d - 1 \in 0..L /\ g[d - 1] \in S /\ g[d - 1] \in A[d - 1]
      BY <1>1, <1>6, <2>2
    <3>2. g[d] = MadeWith(g[d - 1], list[d])
      BY <1>6, <3>1
    <3> QED
      BY <1>3, <3>1, <3>2
  <2>3. Q = 0..L
    <3> HIDE DEF Q
    <3> QED
      BY <1>1, <2>1, <2>2, Throughout
  <2> QED
    BY <2>3
<1>8. ASSUME NEW d \in 1..L PROVE g[d] = MadeWith(g[d - 1], list[d])
  <2>1. d - 1 \in 0..L /\ g[d - 1] \in S /\ g[d - 1] \in A[d - 1]
    BY <1>1, <1>6, <1>7
  <2> QED
    BY <1>6, <2>1
<1>9. Loop(g)
  <2> HIDE DEF F
  <2> QED
    BY <1>1, <1>6, <1>8 DEF Started
<1>10. Loop(f)
  <2> HIDE DEF Loop
  <2> QED
    BY <1>9
<1> HIDE DEF f
<1>11. f[0] = a /\ \A d \in 1..L : f[d] = MadeWith(f[d - 1], list[d])
  <2>1. 0 \in 0..L /\ \A d \in 1..L : d \in 0..L /\ d # 0
    BY <1>1
  <2> QED
    BY <1>10, <2>1 DEF Started
<1>12. P = 0..L
  <2>1. P \in SUBSET (0..L) /\ 0 \in P
    BY <1>1, <1>11
  <2>2. ASSUME NEW d \in 1..L, d - 1 \in P PROVE d \in P
    <3>1. d \in 0..L /\ f[d - 1] \in S /\ f[d - 1] \in A[d - 1]
      BY <1>1, <2>2
    <3> QED
      BY <1>3, <1>11, <3>1
  <2> HIDE DEF P
  <2> QED
    BY <1>1, <2>1, <2>2, Throughout
<1>13. f[L] \in S /\ f[L] \in A[L]
  BY <1>1, <1>12
<1> QED
  BY <1>2, <1>13 DEF L

(* One size more, where that is allowed. *)
LEMMA AddedBecomes ==
  ASSUME NEW partial \in BOOLEAN, NEW R, Room(R), NEW m, NEW D,
         Allows(partial, D), Becomes(m, partial, R, D),
         NEW x \in SizesOf(partial), Allows(partial, Append(D, x)),
         NEW num, num = CountOf(Append(D, x))
  PROVE  Becomes(UnsafeAddDim(m, x, num), partial, R, Append(D, x))
<1> DEFINE E == Append(D, x)
           r == UnsafeAddDim(m, x, num)
<1>1. /\ m \in Machines /\ m.s.life = "live" /\ m.s.partial = partial
      /\ Owns(m, R) /\ Represents(m.s, D)
  BY DEF Becomes, Allows, Holds
<1>2. D \in Seq(SizesOf(partial)) /\ E \in Seq(SizesOf(partial))
      /\ Len(E) = Len(D) + 1 /\ Len(D) \in Nat
      /\ Len(E) <= MaxDimensions /\ Bounded(E)
  BY AppendProperties, LenProperties DEF Allows
<1>3. Len(D) < MaxDimensions
  BY <1>2, WidthsAssumption
<1>4. num \in Int
  <2> HIDE DEF E
  <2> QED
    BY <1>2, CountType DEF E
<1>5. /\ r \in Machines /\ Owns(r, R)
      /\ Represents(r.s, E) /\ r.s.num_elements = num
      /\ r.s.life = m.s.life /\ r.s.partial = m.s.partial
  BY <1>1, <1>3, <1>4, UnsafeAddDimIs
<1> HIDE DEF r, E
<1> QED
  BY <1>1, <1>2, <1>5 DEF Becomes, Holds, r, E

(* It makes the longest part of a list that a shape may have.              *)
LEMMA MadeShapeBecomes ==
  ASSUME NEW partial \in BOOLEAN, NEW R, Room(R), NEW m \in Machines,
         Owns(m, R), m.s.life = "live", m.s.partial = partial,
         NEW list \in Seq(Int), Len(list) <= MaxDimensions
  PROVE  \E k \in 0..Len(list) :
           /\ Allows(partial, SubSeq(list, 1, k))
           /\ k < Len(list) => ~Allows(partial, SubSeq(list, 1, k + 1))
           /\ Becomes(MadeShape(m, list), partial, R, SubSeq(list, 1, k))
<1> DEFINE L == Len(list)
           Prefix(k) == SubSeq(list, 1, k)
           S == [m : Machines, error : BOOLEAN]
           Reached(x, d, k) ==
             /\ Allows(partial, Prefix(k))
             /\ Becomes(x.m, partial, R, Prefix(k))
             /\ IF x.error THEN k < d /\ ~Allows(partial, Prefix(k + 1))
                ELSE k = d
           A == [d \in 0..L |-> {x \in S : \E k \in 0..d : Reached(x, d, k)}]
<1>1. L \in Nat /\ L <= MaxDimensions
  BY LenProperties
<1>2. Started(m) \in S /\ Started(m) \in A[0]
  <2>1. Becomes(Cleared(m), partial, R, <<>>)
    BY ClearedBecomes DEF Room
  <2>2. Prefix(0) = <<>>
    BY SubSeqEmpty
  <2>3. Allows(partial, <<>>)
    BY EmptySeq, NoSizes, WidthsAssumption DEF Allows
  <2>4. Started(m) \in S /\ Started(m).m = Cleared(m) /\ ~Started(m).error
    BY <2>1 DEF Started, Becomes
  <2>5. Reached(Started(m), 0, 0)
    BY <2>1, <2>2, <2>3, <2>4
  <2> HIDE DEF Reached, S, L
  <2> QED
    BY <1>1, <2>4, <2>5
<1>3. ASSUME NEW d \in 1..L, NEW x \in S, x \in A[d - 1]
      PROVE  MadeWith(x, list[d]) \in S /\ MadeWith(x, list[d]) \in A[d]
  <2>0. d - 1 \in 0..L /\ d \in 0..L /\ list[d] \in Int
    BY <1>1, ElementOfSeq
  <2>1. PICK k \in 0..(d - 1) : Reached(x, d - 1, k)
    <3> HIDE DEF Reached, S, L
    <3> QED
      BY <1>3, <2>0
  <2> DEFINE size == list[d]
             num == NumElementsWith(x.m.s.partial, x.m.s.num_elements, size)
             refused == [x EXCEPT !.error = TRUE]
             added == [x EXCEPT !.m = UnsafeAddDim(x.m, size, num)]
  <2>2. MadeWith(x, size)
          = IF x.error \/ size < Least(x.m.s.partial) \/ num = Overflow
              THEN refused ELSE added
    BY DEF MadeWith
  <2>3. refused \in S /\ refused.m = x.m /\ refused.error
    OBVIOUS
  <2>4. SUFFICES \E i \in 0..d : /\ MadeWith(x, size) \in S
                                 /\ Reached(MadeWith(x, size), d, i)
    <3> HIDE DEF Reached, S, L, size
    <3> QED
      BY <2>0, <2>4 DEF size
  <2>5. CASE x.error
    <3>1. MadeWith(x, size) = refused
      BY <2>2, <2>5
    <3>2. Reached(refused, d, k) /\ k \in 0..d
      BY <2>0, <2>1, <2>3, <2>5
    <3> HIDE DEF Reached, S, L, refused, size
    <3> QED
      BY <2>3, <3>1, <3>2
  <2>6. CASE ~x.error
    <3> DEFINE D == Prefix(d - 1)
               E == Append(D, size)
    <3>1. k = d - 1 /\ Allows(partial, D) /\ Becomes(x.m, partial, R, D)
      BY <2>1, <2>6
    <3>2. Prefix(d) = E
      BY PrefixAppend
    <3>3. x.m \in Machines /\ x.m.s.partial = partial /\ Owns(x.m, R)
          /\ Represents(x.m.s, D) /\ x.m.s.num_elements = CountOf(D)
          /\ Bounded(D) /\ D \in Seq(SizesOf(partial))
      BY <3>1 DEF Allows, Becomes, Holds
    <3>4. x.m.s.life = "live"
      BY <3>1 DEF Allows, Becomes
    <3>7. ASSUME size \in SizesOf(partial)
          PROVE  num = IF Bounded(E) THEN CountOf(E) ELSE Overflow
      <4>1. num = NumElementsWith(partial, CountOf(D), size)
        BY <3>3
      <4> HIDE DEF D, size, num
      <4> QED
        BY <3>3, <3>7, <4>1, OneMore
    <3>5. CASE size < Least(partial) \/ num = Overflow
      <4>1. MadeWith(x, size) = refused
        BY <2>2, <3>3, <3>5
      <4>2. ~Allows(partial, E)
        <5>1. CASE size < Least(partial)
          <6>1. Len(E) \in 1..Len(E) /\ E[Len(E)] = size
            BY <2>0, <3>3, SizesType, AppendProperties, LenProperties
          <6>2. ASSUME Allows(partial, E) PROVE FALSE
            <7>1. size \in SizesOf(partial)
              BY <6>1, <6>2, ElementOfSeq DEF Allows
            <7>2. Least(partial) \in Int
              BY DEF Least
            <7> HIDE DEF size
            <7> QED
              BY <5>1, <7>1, <7>2 DEF SizesOf
          <6> QED
            BY <6>2
        <5>2. CASE num = Overflow /\ ~(size < Least(partial))
          <6>1. size \in SizesOf(partial)
            BY <2>0, <5>2 DEF SizesOf, Least
          <6>2. num = IF Bounded(E) THEN CountOf(E) ELSE Overflow
            BY <3>7, <6>1
          <6>3. E \in Seq(SizesOf(partial))
            BY <3>3, <6>1, AppendProperties
          <6>4. CountOf(E) # Overflow
            <7> HIDE DEF E
            <7> QED
              BY <6>3, CountType DEF Overflow
          <6> QED
            BY <5>2, <6>2, <6>4 DEF Allows
        <5> QED
          BY <3>5, <5>1, <5>2
      <4>3. Reached(refused, d, k) /\ k \in 0..d
        <5>1. k < d /\ k \in 0..d /\ k + 1 = d
          BY <2>0, <3>1
        <5> QED
          BY <2>1, <2>3, <3>1, <3>2, <4>2, <5>1
      <4> HIDE DEF Reached, S, L, refused, size
      <4> QED
        BY <2>3, <4>1, <4>3
    <3>6. CASE ~(size < Least(partial) \/ num = Overflow)
      <4>1. MadeWith(x, size) = added
        BY <2>2, <2>6, <3>3, <3>6
      <4>2. size \in SizesOf(partial)
        BY <2>0, <3>6 DEF SizesOf, Least
      <4>3. num = CountOf(E) /\ Bounded(E)
        BY <3>6, <3>7, <4>2
      <4>4. E \in Seq(SizesOf(partial)) /\ Len(E) = Len(D) + 1
        BY <3>3, <4>2, AppendProperties
      <4>5. Len(D) = d - 1 /\ Len(D) < MaxDimensions /\ Len(E) <= MaxDimensions
        <5>1. Len(D) = d - 1
          BY <1>1, <2>0, SubSeqProperties
        <5> QED
          BY <1>1, <2>0, <4>4, <5>1, WidthsAssumption
      <4> DEFINE r == UnsafeAddDim(x.m, size, num)
      <4>7. Allows(partial, E)
        BY <4>3, <4>4, <4>5 DEF Allows
      <4>8. Becomes(r, partial, R, E)
        <5> HIDE DEF size, num, D
        <5> QED
          BY <3>1, <4>2, <4>3, <4>7, AddedBecomes
      <4>9. added \in S /\ added.m = r /\ ~added.error
        <5>1. r \in Machines
          BY <4>8 DEF Becomes
        <5>2. added = [x EXCEPT !.m = r]
          OBVIOUS
        <5> HIDE DEF r, added
        <5> QED
          BY <2>6, <5>1, <5>2
      <4>10. Reached(added, d, d) /\ d \in 0..d
        <5>1. d \in 0..d
          BY <2>0
        <5> HIDE DEF added, r, E, Prefix, L, D, size, num, S
        <5> QED
          BY <3>2, <4>7, <4>8, <4>9, <5>1
      <4> HIDE DEF Reached, S, L, added, size
      <4> QED
        BY <4>1, <4>9, <4>10
    <3> QED
      BY <3>5, <3>6
  <2> QED
    BY <2>5, <2>6
<1>4. \E x \in S : x \in A[L] /\ MadeShape(m, list) = x.m
  <2>1. MadeKeeps(list, A, S)
    <3> HIDE DEF A, S
    <3> QED
      BY <1>3 DEF MadeKeeps
  <2> HIDE DEF A, S
  <2> QED
    BY <1>1, <1>2, <2>1, MadeShapeLoop
<1>5. PICK x \in S, k \in 0..L : Reached(x, L, k) /\ MadeShape(m, list) = x.m
  <2> HIDE DEF Reached, S, L
  <2>1. L \in 0..L
    BY <1>1
  <2> QED
    BY <1>4, <2>1
<1>6. k < L => ~Allows(partial, Prefix(k + 1))
  BY <1>5
<1> QED
  BY <1>5, <1>6

-----------------------------------------------------------------------------
(* Copies.                                                                 *)

(* The same words, read as those of the other class: a size that is not    *)
(* known stays within PartialTensorShape.                                  *)
LEMMA CopyHolds ==
  ASSUME NEW b \in Bytes, NEW s \in Bytes, NEW D, Holds(b, D),
         s.tag = b.tag, s.ndims = b.ndims, s.words = b.words,
         s.num_elements = b.num_elements,
         s.partial \/ ~b.partial \/ b.num_elements # -1
  PROVE  Holds(s, D)
<1> DEFINE L == Len(D)
<1>1. D \in Seq(SizesOf(b.partial)) /\ b.partial \in BOOLEAN
      /\ s.partial \in BOOLEAN /\ L \in Nat
  BY LenProperties DEF Holds, Represents, Bytes
<1>2. ASSUME NEW d \in 1..L
      PROVE  D[d] \in SizesOf(s.partial) /\ D[d] \in Int
             /\ (D[d] < 0 => s.partial /\ b.partial)
  <2>1. D[d] \in SizesOf(b.partial) /\ D[d] \in Int
        /\ D[d] >= -1 /\ (D[d] < 0 => b.partial /\ D[d] = -1)
    BY <1>1, ElementOfSeq, SizesType
  <2>2. D[d] = -1 => s.partial
    <3>1. D[d] = -1 => b.num_elements = -1 /\ b.partial
      BY <2>1 DEF Holds, CountOf, AllKnown
    <3> QED
      BY <3>1
  <2> QED
    BY <2>1, <2>2 DEF SizesOf, Least
<1>3. D \in Seq(SizesOf(s.partial))
  <2>1. D = [d \in 1..L |-> D[d]]
    BY <1>1, LenProperties
  <2>2. D \in [1..L -> SizesOf(s.partial)]
    <3> HIDE DEF L
    <3> QED
      BY <1>2, <2>1
  <2> QED
    BY <1>1, <2>2
<1>4. ASSUME NEW d \in 1..L, NEW unknown
      PROVE  Word(s, unknown, D[d]) = Word(b, unknown, D[d])
  BY <1>2 DEF Word
<1>5. ASSUME NEW slots, NEW max, NEW unknown, InWords(b, D, slots, max, unknown)
      PROVE  InWords(s, D, slots, max, unknown)
  BY <1>4, <1>5 DEF InWords
<1>6. Represents(s, D)
  BY <1>3, <1>5 DEF Holds, Represents
<1> QED
  BY <1>6 DEF Holds

LEMMA CopiedFromIs ==
  ASSUME NEW R, Room(R), NEW m \in Machines, Owns(m, R), NEW b \in Bytes
  PROVE  LET r == CopiedFrom(m, b)
         IN  /\ r \in Machines /\ Owns(r, R)
             /\ r.s.life = "live" /\ r.s.partial = m.s.partial
             /\ r.s.tag = b.tag /\ r.s.ndims = b.ndims /\ r.s.words = b.words
             /\ r.s.num_elements = b.num_elements
<1> DEFINE same == [b EXCEPT !.partial = m.s.partial, !.life = "live"]
<1>1. /\ same \in Bytes /\ same.life = "live" /\ same.partial = m.s.partial
      /\ same.tag = b.tag /\ same.ndims = b.ndims /\ same.words = b.words
      /\ same.num_elements = b.num_elements
  BY DEF Machines, Bytes
<1>2. CASE b.tag # "REP_OUT_OF_LINE"
  <2>1. CopiedFrom(m, b) = [s |-> same, h |-> Free(m).h]
    BY <1>2 DEF CopiedFrom
  <2>2. Free(m).h = R /\ R \subseteq Addresses
    BY FreeOwns DEF Room
  <2> HIDE DEF same
  <2> DEFINE r == [s |-> same, h |-> R]
  <2>3. r \in Machines /\ Owns(r, R)
    BY <1>1, <1>2, <2>2 DEF Machines, Owns
  <2> QED
    BY <1>1, <2>1, <2>2, <2>3
<1>3. CASE b.tag = "REP_OUT_OF_LINE"
  <2> DEFINE own == IF m.s.tag = "REP_OUT_OF_LINE" THEN m ELSE Allocated(m)
             r == [s |-> [same EXCEPT !.vec = own.s.vec], h |-> own.h]
  <2>1. CopiedFrom(m, b) = r
    BY <1>3 DEF CopiedFrom
  <2>2. own.s.vec \in Addresses \ R /\ own.h = R \cup {own.s.vec}
    <3>1. CASE m.s.tag = "REP_OUT_OF_LINE"
      BY <3>1 DEF Owns
    <3>2. CASE m.s.tag # "REP_OUT_OF_LINE"
      <4>1. m.h = R /\ m.s \in Bytes
        BY <3>2 DEF Owns, Machines
      <4>2. PICK v \in Addresses \ R :
              Allocated(m) = [s |-> [m.s EXCEPT !.tag = "REP_OUT_OF_LINE",
                                                !.vec = v],
                              h |-> R \cup {v}]
        BY <4>1, AllocatedOwns
      <4>3. own = [s |-> [m.s EXCEPT !.tag = "REP_OUT_OF_LINE", !.vec = v],
                   h |-> R \cup {v}]
        BY <3>2, <4>2
      <4>4. own.s.vec = v /\ own.h = R \cup {v}
        <5> HIDE DEF own
        <5> QED
          BY <4>1, <4>3 DEF Bytes
      <4> HIDE DEF own
      <4> QED
        BY <4>4
    <3> QED
      BY <3>1, <3>2
  <2> HIDE DEF own, same
  <2>3. own.h \subseteq Addresses /\ own.s.vec \in Nat
    BY <2>2, AddressesType DEF Room
  <2>4. /\ r \in Machines /\ r.h = own.h /\ r.s.vec = own.s.vec
        /\ r.s.life = same.life /\ r.s.partial = same.partial
        /\ r.s.tag = same.tag /\ r.s.ndims = same.ndims
        /\ r.s.words = same.words /\ r.s.num_elements = same.num_elements
    BY <1>1, <2>3 DEF Machines, Bytes
  <2> HIDE DEF r
  <2>5. Owns(r, R)
    BY <1>1, <1>3, <2>2, <2>4 DEF Owns
  <2> QED
    BY <1>1, <2>1, <2>4, <2>5
<1> QED
  BY <1>2, <1>3

-----------------------------------------------------------------------------
(* The invariant: a shape in use has no rank, or holds its sizes; and each *)
(* vector has one owner.                                                   *)

Unranked(s) ==
  /\ s.partial /\ s.tag = "REP16" /\ s.ndims = UnknownRank /\ s.words = <<>>
  /\ s.num_elements = -1

Settled(s) ==
  /\ s \in Bytes
  /\ s.life \in {"none", "live", "moved"}
  /\ s.life = "live" => Unranked(s) \/ Holds(s, dim_sizes(s))
  /\ s.tag = "REP_OUT_OF_LINE" => s.vec \in Addresses

Inv ==
  /\ shape \in [Names -> Bytes]
  /\ crashed \in BOOLEAN
  /\ \A n \in Names : Settled(shape[n])
  /\ OneOwner

(* What the shapes but n own. *)
Others(n) ==
  {shape[o].vec : o \in {o \in Names \ {n} : shape[o].tag = "REP_OUT_OF_LINE"}}

(* There are more addresses than other shapes. *)
LEMMA OthersLeaveRoom ==
  ASSUME Inv, NEW n \in Names
  PROVE  Room(Others(n))
<1> DEFINE O == {o \in Names \ {n} : shape[o].tag = "REP_OUT_OF_LINE"}
           c == Cardinality(Names)
<1>1. Others(n) \subseteq Addresses
  BY DEF Inv, Settled, Others
<1>2. c \in Nat /\ c > 0
  <2>1. c \in Nat /\ (c = 0 <=> Names = {})
    BY InputsAssumption, FS_CardinalityType, FS_EmptySet
  <2> QED
    BY <2>1
<1>3. IsFiniteSet(O) /\ Cardinality(O) \in Nat /\ Cardinality(O) <= c
  <2>1. O \subseteq Names
    OBVIOUS
  <2> HIDE DEF O
  <2> QED
    BY <2>1, InputsAssumption, FS_Subset, FS_CardinalityType
<1>4. IsFiniteSet(Others(n)) /\ Cardinality(Others(n)) \in Nat
      /\ Cardinality(Others(n)) <= Cardinality(O)
  <2> DEFINE f == [o \in O |-> shape[o].vec]
  <2>1. Others(n) = {shape[o].vec : o \in O}
    BY DEF Others
  <2> HIDE DEF O
  <2>2. f \in Surjection(O, Others(n))
    BY <2>1 DEF Surjection
  <2> HIDE DEF f
  <2> QED
    BY <1>3, <2>2, FS_Surjection, FS_CardinalityType
<1>5. Cardinality(Addresses) = 2 * c
  <2>1. 1 \in Int /\ 2 * c \in Int /\ 1 <= 2 * c
    BY <1>2
  <2>2. Cardinality(1..(2 * c)) = IF 1 > 2 * c THEN 0 ELSE 2 * c - 1 + 1
    BY <2>1, FS_Interval
  <2> QED
    BY <1>2, <2>2 DEF Addresses
<1>6. Others(n) # Addresses
  BY <1>2, <1>3, <1>4, <1>5
<1> QED
  BY <1>1, <1>6 DEF Room

(* What a shape has and is. *)
LEMMA AtOwns ==
  ASSUME Inv, NEW n \in Names
  PROVE  /\ At(n) \in Machines /\ At(n).s = shape[n] /\ At(n).h = heap
         /\ Owns(At(n), Others(n)) /\ Room(Others(n))
<1> DEFINE O == {o \in Names : shape[o].tag = "REP_OUT_OF_LINE"}
           Q == {o \in Names \ {n} : shape[o].tag = "REP_OUT_OF_LINE"}
<1>1. Room(Others(n))
  BY OthersLeaveRoom
<1>2. /\ heap = {shape[o].vec : o \in O}
      /\ \A o, p \in O : shape[o].vec = shape[p].vec => o = p
  BY DEF Inv, OneOwner
<1>3. Others(n) = {shape[o].vec : o \in Q}
  BY DEF Others
<1>4. \A o \in O : shape[o].vec \in Addresses
  BY DEF Inv, Settled
<1>5. shape[n] \in Bytes
  BY DEF Inv
<1>6. heap \subseteq Addresses
  BY <1>2, <1>4
<1>7. At(n) \in Machines /\ At(n).s = shape[n] /\ At(n).h = heap
  BY <1>5, <1>6 DEF At, Machines
<1>8. CASE shape[n].tag = "REP_OUT_OF_LINE"
  <2>1. n \in O /\ \A o : o \in O <=> o \in Q \/ o = n
    BY <1>8
  <2>2. n \notin Q
    OBVIOUS
  <2> HIDE DEF O, Q
  <2>3. shape[n].vec \in Addresses /\ shape[n].vec \notin Others(n)
    BY <1>2, <1>3, <1>4, <2>1, <2>2
  <2>4. heap = Others(n) \cup {shape[n].vec}
    BY <1>2, <1>3, <2>1
  <2> QED
    BY <1>1, <1>7, <1>8, <2>3, <2>4 DEF Owns
<1>9. CASE shape[n].tag # "REP_OUT_OF_LINE"
  <2>1. O = Q
    BY <1>9
  <2>2. heap = Others(n)
    BY <1>2, <1>3, <2>1
  <2> QED
    BY <1>1, <1>7, <1>9, <2>2 DEF Owns
<1> QED
  BY <1>8, <1>9

(* A shape that keeps to its own vector may be put in the place of one.    *)
LEMMA PutKeeps ==
  ASSUME Inv, NEW n \in Names, NEW m \in Machines, Settled(m.s),
         m.s.tag = "REP_OUT_OF_LINE" => m.s.life = "live",
         Owns(m, Others(n)), Put(n, m)
  PROVE  Inv' /\ shape' = [shape EXCEPT ![n] = m.s] /\ crashed' = crashed
<1> DEFINE O == {o \in Names : shape[o].tag = "REP_OUT_OF_LINE"}
           P == {o \in Names : shape'[o].tag = "REP_OUT_OF_LINE"}
           Q == {o \in Names \ {n} : shape[o].tag = "REP_OUT_OF_LINE"}
<1>1. m.s.life # "crashed" /\ m.s \in Bytes
  BY DEF Settled
<1>2. shape' = [shape EXCEPT ![n] = m.s] /\ heap' = m.h /\ crashed' = crashed
  BY <1>1 DEF Put
<1>3. shape'[n] = m.s /\ \A o \in Names \ {n} : shape'[o] = shape[o]
  BY <1>2 DEF Inv
<1>4. shape' \in [Names -> Bytes]
  BY <1>1, <1>2 DEF Inv
<1>5. \A o \in Names : Settled(shape'[o])
  BY <1>3 DEF Inv
<1>6. /\ \A o, p \in O : shape[o].vec = shape[p].vec => o = p
      /\ \A o \in O : shape[o].life = "live"
  BY DEF Inv, OneOwner, Live
<1>7. Others(n) = {shape[o].vec : o \in Q}
  BY DEF Others
<1>8. \A o \in Q : o \in O /\ o \in P /\ o # n /\ shape'[o] = shape[o]
  BY <1>3
<1>9. \A o \in P : o \in Q \/ o = n
  BY <1>3
<1>10. CASE m.s.tag = "REP_OUT_OF_LINE"
  <2>1. n \in P /\ m.s.life = "live"
    BY <1>3, <1>10
  <2>2. m.s.vec \notin Others(n) /\ m.h = Others(n) \cup {m.s.vec}
    BY <1>10 DEF Owns
  <2> HIDE DEF O, P, Q
  <2>3. heap' = {shape'[o].vec : o \in P}
    BY <1>2, <1>3, <1>7, <1>8, <1>9, <2>1, <2>2
  <2>4. \A o \in P : shape'[o].life = "live"
    BY <1>3, <1>6, <1>8, <1>9, <2>1
  <2>5. ASSUME NEW o \in P, NEW p \in P, shape'[o].vec = shape'[p].vec
        PROVE  o = p
    <3>1. \A q \in Q : shape'[q].vec # shape'[n].vec
      BY <1>3, <1>7, <1>8, <2>2
    <3> QED
      BY <1>6, <1>8, <1>9, <2>5, <3>1
  <2>6. OneOwner'
    BY <2>3, <2>4, <2>5 DEF OneOwner, Live, P
  <2> QED
    BY <1>2, <1>4, <1>5, <2>6 DEF Inv, Settled
<1>11. CASE m.s.tag # "REP_OUT_OF_LINE"
  <2>1. n \notin P
    BY <1>3, <1>11
  <2>2. m.h = Others(n)
    BY <1>11 DEF Owns
  <2> HIDE DEF O, P, Q
  <2>3. heap' = {shape'[o].vec : o \in P}
    BY <1>2, <1>7, <1>8, <1>9, <2>1, <2>2
  <2>4. \A o \in P : shape'[o].life = "live"
    BY <1>6, <1>8, <1>9, <2>1
  <2>5. ASSUME NEW o \in P, NEW p \in P, shape'[o].vec = shape'[p].vec
        PROVE  o = p
    BY <1>6, <1>8, <1>9, <2>1, <2>5
  <2>6. OneOwner'
    BY <2>3, <2>4, <2>5 DEF OneOwner, Live, P
  <2> QED
    BY <1>2, <1>4, <1>5, <2>6 DEF Inv, Settled
<1> QED
  BY <1>10, <1>11

(* A process that has ended has no shapes. *)
LEMMA AbsentSettled == Settled(Absent)
<1>1. PICK one \in Int : one = 1
  OBVIOUS
<1>2. PICK none \in Seq(Int) : none = <<>>
  <2>1. <<>> \in Seq(Int)
    BY EmptySeq
  <2> QED
    BY <2>1, Zenon
<1> DEFINE a == [life |-> "none", partial |-> FALSE, tag |-> "REP16",
                 ndims |-> 0, words |-> none, vec |-> 0, num_elements |-> one]
<1>3. Absent = a
  BY <1>1, <1>2 DEF Absent, NoVector
<1>4. a \in Bytes /\ a.life = "none" /\ a.tag = "REP16"
  BY DEF Bytes
<1> HIDE DEF a
<1> QED
  BY <1>3, <1>4 DEF Settled

LEMMA PutFails ==
  ASSUME Inv, NEW n \in Names, NEW m, m.s.life = "crashed", Put(n, m)
  PROVE  Inv' /\ shape' = [o \in Names |-> Absent] /\ crashed' = TRUE
<1>1. shape' = [o \in Names |-> Absent] /\ heap' = {} /\ crashed' = TRUE
  BY DEF Put
<1>2. Settled(Absent) /\ Absent \in Bytes /\ Absent.tag = "REP16"
  BY AbsentSettled DEF Settled, Absent
<1>3. \A o \in Names : shape'[o] = Absent
  BY <1>1
<1>4. shape' \in [Names -> Bytes] /\ \A o \in Names : Settled(shape'[o])
  BY <1>1, <1>2, <1>3
<1>5. {o \in Names : shape'[o].tag = "REP_OUT_OF_LINE"} = {}
  BY <1>2, <1>3
<1>6. OneOwner'
  BY <1>1, <1>5 DEF OneOwner
<1> QED
  BY <1>1, <1>4, <1>6 DEF Inv, Settled

(* A new shape. *)
LEMMA FreshBecomes ==
  ASSUME Inv, NEW n \in Names, shape[n].life = "none", NEW partial \in BOOLEAN
  PROVE  /\ Becomes(Fresh(partial), partial, Others(n), <<>>)
         /\ Fresh(partial) \in Machines
         /\ Fresh(partial).s = [Absent EXCEPT !.life = "live",
                                              !.partial = partial]
         /\ Fresh(partial).s.tag = "REP16"
         /\ Fresh(partial).s.life = "live"
         /\ Fresh(partial).s.partial = partial
         /\ Owns(Fresh(partial), Others(n))
<1> DEFINE a == [Absent EXCEPT !.life = "live", !.partial = partial]
           f == [s |-> a, h |-> heap]
<1>1. heap = Others(n) /\ heap \subseteq Addresses
  <2>1. shape[n].tag # "REP_OUT_OF_LINE"
    BY DEF Inv, OneOwner, Live
  <2>2. heap = Others(n)
    BY <2>1, AtOwns DEF Owns
  <2>3. Room(Others(n))
    BY AtOwns
  <2> QED
    BY <2>2, <2>3 DEF Room
<1>2. Absent \in Bytes
  BY AbsentSettled DEF Settled
<1>3. Absent.tag = "REP16" /\ Absent.ndims = 0 /\ Absent.words = <<>>
      /\ Absent.num_elements = 1
  BY DEF Absent
<1>4. /\ a \in Bytes /\ a.tag = Absent.tag /\ a.ndims = Absent.ndims
      /\ a.words = Absent.words /\ a.num_elements = Absent.num_elements
      /\ a.life = "live" /\ a.partial = partial
  BY <1>2 DEF Bytes
<1>5. Fresh(partial) = f
  BY DEF Fresh
<1> HIDE DEF a
<1>6. f \in Machines /\ f.s = a /\ f.h = heap
  BY <1>1, <1>4 DEF Machines
<1> HIDE DEF f
<1>7. Becomes(f, partial, heap, <<>>)
  BY <1>3, <1>4, <1>6, EmptyBecomes
<1>8. Owns(f, heap)
  BY <1>3, <1>4, <1>6 DEF Owns
<1> QED
  BY <1>1, <1>3, <1>4, <1>5, <1>6, <1>7, <1>8 DEF a

(* A shape that is in use and has a rank holds its sizes.                  *)
LEMMA KnownHolds ==
  ASSUME Inv, NEW n \in Names, shape[n].life = "live"
  PROVE  IF unknown_rank(shape[n]) THEN Unranked(shape[n])
         ELSE /\ Holds(shape[n], dim_sizes(shape[n]))
              /\ Allows(shape[n].partial, dim_sizes(shape[n]))
              /\ Len(dim_sizes(shape[n])) = shape[n].ndims
              /\ Becomes(At(n), shape[n].partial, Others(n),
                         dim_sizes(shape[n]))
<1> DEFINE s == shape[n]
           D == dim_sizes(s)
<1>1. s \in Bytes /\ (Unranked(s) \/ Holds(s, D))
  BY DEF Inv, Settled
<1>2. Holds(s, D) => ~unknown_rank(s)
  BY <1>1, DimSizes DEF Holds
<1>3. Unranked(s) => unknown_rank(s)
  BY DEF Unranked, unknown_rank
<1>4. CASE unknown_rank(s)
  BY <1>1, <1>2, <1>4
<1>5. CASE ~unknown_rank(s)
  <2>1. Holds(s, D)
    BY <1>1, <1>3, <1>5
  <2>2. Allows(s.partial, D) /\ Len(D) = s.ndims
    BY <2>1 DEF Holds, Represents, Allows
  <2>3. Becomes(At(n), s.partial, Others(n), D)
    <3> HIDE DEF D
    <3> QED
      BY <2>1, <2>2, AtOwns DEF Becomes, Allows
  <2> QED
    BY <1>5, <2>1, <2>2, <2>3
<1> QED
  BY <1>4, <1>5

-----------------------------------------------------------------------------
(* What DimensionLists sees.                                               *)

Values == [n \in Names |-> Value(n)]

LEMMA ProductsAgree ==
  ASSUME NEW D
  PROVE  Intent!Products(D) = Products(D)
BY DEF Products, Intent!Products

(* Both modules allow a shape the same sizes. *)
LEMMA AllowedIs ==
  ASSUME NEW partial \in BOOLEAN, NEW D \in Seq(Int)
  PROVE  Intent!Allowed(partial, D) <=> Allows(partial, D)
<1> DEFINE L == Len(D)
<1>1. L \in Nat /\ \A d \in 1..L : D[d] \in Int
  BY LenProperties, ElementOfSeq
<1>2. D \in Seq(SizesOf(partial)) <=> \A d \in 1..L : D[d] >= Least(partial)
  <2>1. ASSUME D \in Seq(SizesOf(partial)), NEW d \in 1..L
        PROVE  D[d] >= Least(partial)
    BY <2>1, ElementOfSeq DEF SizesOf
  <2>2. ASSUME \A d \in 1..L : D[d] >= Least(partial)
        PROVE  D \in Seq(SizesOf(partial))
    <3>1. D = [d \in 1..L |-> D[d]]
      BY LenProperties
    <3>2. \A d \in 1..L : D[d] \in SizesOf(partial)
      BY <1>1, <2>2 DEF SizesOf
    <3>3. D \in [1..L -> SizesOf(partial)]
      <4> HIDE DEF L
      <4> QED
        BY <3>1, <3>2
    <3> QED
      BY <1>1, <3>3
  <2> QED
    BY <2>1, <2>2
<1>3. Bounded(D) <=> \A i \in 1..L : (\A j \in 1..i : D[j] # -1)
                                     => Intent!Products(D)[i] <= MaxInt64
  BY ProductsAgree DEF Bounded
<1>4. Intent!Allowed(partial, D)
        <=> /\ L <= MaxDimensions
            /\ \A d \in 1..L : D[d] >= Least(partial)
            /\ \A i \in 1..L : (\A j \in 1..i : D[j] # -1)
                                 => Intent!Products(D)[i] <= MaxInt64
  BY DEF Intent!Allowed, Least
<1> HIDE DEF L
<1> QED
  BY <1>2, <1>3, <1>4 DEF Allows, L

(* The value of a shape. *)
LEMMA ValueIs ==
  ASSUME NEW n \in Names
  PROVE  /\ Values[n] = Value(n)
         /\ Value(n).life = shape[n].life
         /\ Value(n).partial = shape[n].partial
         /\ Value(n).known = (shape[n].life = "live" /\ ~unknown_rank(shape[n]))
         /\ Value(n).dims = IF shape[n].life = "live" THEN dim_sizes(shape[n])
                            ELSE <<>>
BY DEF Values, Value

(* The value of one that holds D, and of one without a rank. *)
ValueOf(s) ==
  [life |-> s.life, partial |-> s.partial,
   known |-> s.life = "live" /\ ~unknown_rank(s),
   dims |-> IF s.life = "live" THEN dim_sizes(s) ELSE <<>>]

LEMMA ValuesAre ==
  /\ Values = [n \in Names |-> ValueOf(shape[n])]
  /\ Values' = [n \in Names |-> ValueOf(shape'[n])]
BY DEF Values, Value, ValueOf

LEMMA HoldsValue ==
  ASSUME NEW s \in Bytes, s.life = "live", NEW D, Holds(s, D)
  PROVE  ValueOf(s) = Intent!Shape(s.partial, D)
BY DimSizes DEF ValueOf, Intent!Shape, Intent!Of, Holds

LEMMA UnrankedValue ==
  ASSUME NEW s, s.life = "live", Unranked(s)
  PROVE  ValueOf(s) = Intent!Unknown
<1>1. unknown_rank(s) /\ s.partial = TRUE
  BY DEF Unranked, unknown_rank
<1>2. dim_sizes(s) = <<>>
  BY <1>1 DEF dim_sizes
<1>3. ValueOf(s) = [life |-> "live", partial |-> TRUE, known |-> FALSE,
                    dims |-> <<>>]
  BY <1>1, <1>2 DEF ValueOf
<1> QED
  BY <1>3 DEF Intent!Unknown, Intent!Of

LEMMA AbsentValue == ValueOf(Absent) = Intent!Absent
BY DEF ValueOf, Absent, Intent!Absent, Intent!Of

(* One value changes with one shape. *)
LEMMA ValuesChange ==
  ASSUME NEW n \in Names, NEW s, shape \in [Names -> Bytes],
         shape' = [shape EXCEPT ![n] = s]
  PROVE  Values' = [Values EXCEPT ![n] = ValueOf(s)]
<1>1. shape'[n] = s /\ \A o \in Names \ {n} : shape'[o] = shape[o]
  OBVIOUS
<1>2. Values' = [o \in Names |-> ValueOf(shape'[o])]
  BY ValuesAre
<1>3. Values = [o \in Names |-> ValueOf(shape[o])]
  BY ValuesAre
<1> HIDE DEF Values
<1>4. \A o \in Names : Values'[o] = IF o = n THEN ValueOf(s) ELSE Values[o]
  BY <1>1, <1>2, <1>3
<1> QED
  BY <1>2, <1>3, <1>4

(* What becomes of a shape by an edit is what it should become. *)
LEMMA PutBecomes ==
  ASSUME Inv, NEW n \in Names, NEW partial \in BOOLEAN,
         NEW D \in Seq(SizesOf(partial)), NEW m,
         Becomes(m, partial, Others(n), D), Put(n, m)
  PROVE  /\ Inv'
         /\ Intent!Become(n, partial, D)
         /\ Allows(partial, D) =>
              /\ Values' = [Values EXCEPT ![n] = Intent!Shape(partial, D)]
              /\ crashed' = crashed
<1>1. Intent!Allowed(partial, D) <=> Allows(partial, D)
  BY SizesType, AllowedIs
<1>2. Intent!Become(n, partial, D)
        <=> IF Allows(partial, D)
              THEN Values' = [Values EXCEPT ![n] = Intent!Shape(partial, D)]
                   /\ crashed' = crashed
              ELSE Values' = [o \in Names |-> Intent!Absent] /\ crashed' = TRUE
  BY <1>1 DEF Intent!Become, Values
<1>3. m \in Machines /\ m.s \in Bytes
  BY DEF Becomes, Machines
<1>4. CASE Allows(partial, D)
  <2>1. /\ m.s.life = "live" /\ m.s.partial = partial
        /\ Owns(m, Others(n)) /\ Holds(m.s, D)
    BY <1>4 DEF Becomes, Allows
  <2>2. dim_sizes(m.s) = D
    BY <1>3, <2>1, DimSizes DEF Holds
  <2>3. m.s.tag = "REP_OUT_OF_LINE" => m.s.vec \in Addresses
    BY <2>1 DEF Owns
  <2>4. Settled(m.s)
    BY <1>3, <2>1, <2>2, <2>3 DEF Settled
  <2>5. Inv' /\ shape' = [shape EXCEPT ![n] = m.s] /\ crashed' = crashed
    BY <1>3, <2>1, <2>4, PutKeeps
  <2>6. Values' = [Values EXCEPT ![n] = ValueOf(m.s)]
    BY <2>5, ValuesChange DEF Inv
  <2>7. ValueOf(m.s) = Intent!Shape(partial, D)
    BY <1>3, <2>1, HoldsValue
  <2> QED
    BY <1>2, <1>4, <2>5, <2>6, <2>7
<1>5. CASE ~Allows(partial, D)
  <2>1. m.s.life = "crashed"
    BY <1>5 DEF Becomes, Allows
  <2>2. Inv' /\ shape' = [o \in Names |-> Absent] /\ crashed' = TRUE
    BY <2>1, PutFails
  <2>3. Values' = [o \in Names |-> Intent!Absent]
    <3>1. Values' = [o \in Names |-> ValueOf(shape'[o])]
      BY ValuesAre
    <3> QED
      BY <2>2, <3>1, AbsentValue
  <2> QED
    BY <1>2, <1>5, <2>2, <2>3
<1> QED
  BY <1>4, <1>5

-----------------------------------------------------------------------------
(* Each call keeps the invariant, and does to the values what              *)
(* DimensionLists says of it.                                              *)

EditCalls == {"add", "append", "insert", "set", "remove"}
MakeCalls == {"default", "list", "copy", "destroy", "clear", "make"}

LEMMA CallsAre ==
  ASSUME NEW op, NEW n, NEW x, NEW y, call' = <<op, n, x, y>>
  PROVE  /\ Intent!Edit(op, n, x, y) => Intent!Next
         /\ Intent!FromSizes(op, n, x, y) => Intent!Next
         /\ Intent!Make(op, n, x, y) => Intent!Next
         /\ Intent!Move(op, n, x) => Intent!Next
<1>1. call' \in {call'} /\ call'[1] = op /\ call'[2] = n /\ call'[3] = x
      /\ call'[4] = y
  OBVIOUS
<1>2. Intent!Edit(op, n, x, y) => Intent!Next
  BY <1>1 DEF Intent!Next
<1>3. Intent!FromSizes(op, n, x, y) => Intent!Next
  BY <1>1 DEF Intent!Next
<1>4. Intent!Make(op, n, x, y) => Intent!Next
  BY <1>1 DEF Intent!Next
<1>5. Intent!Move(op, n, x) => Intent!Next
  BY <1>1 DEF Intent!Next
<1> QED
  BY <1>2, <1>3, <1>4, <1>5

(* An edit of a shape with a rank. *)
LEMMA EditStep ==
  ASSUME Inv, NEW n \in Names, NEW op \in EditCalls \cup {"merge"}, NEW x, NEW y,
         call' = <<op, n, x, y>>,
         op # "merge" => shape[n].life = "live" /\ ~unknown_rank(shape[n]),
         NEW D \in Seq(SizesOf(shape[n].partial)), D = Intent!Edited(op, n, x, y),
         NEW m, Becomes(m, shape[n].partial, Others(n), D), Put(n, m)
  PROVE  Inv' /\ Intent!Next
<1>1. shape[n].partial \in BOOLEAN
  BY DEF Inv, Bytes
<1>2. Inv' /\ Intent!Become(n, shape[n].partial, D)
  BY <1>1, PutBecomes
<1>3. Intent!Edit(op, n, x, y)
  <2>1. Values[n].partial = shape[n].partial
        /\ (op # "merge" => Values[n].known)
    BY ValueIs
  <2>2. op \in {"add", "append", "insert", "set", "remove", "merge"}
    BY DEF EditCalls
  <2>3. Intent!Edit(op, n, x, y)
          <=> IF ~Values[n].known /\ op # "merge"
                THEN Values' = Values /\ crashed' = crashed
                ELSE Intent!Become(n, Values[n].partial,
                                   Intent!Edited(op, n, x, y))
    BY <2>2 DEF Intent!Edit, Values
  <2> QED
    BY <1>2, <2>1, <2>3
<1> QED
  BY <1>2, <1>3, CallsAre

(* One of a shape without a rank changes nothing. *)
LEMMA StayStep ==
  ASSUME Inv, NEW n \in Names, NEW op \in EditCalls, NEW x, NEW y,
         call' = <<op, n, x, y>>,
         shape[n].life = "live", unknown_rank(shape[n]), Put(n, At(n))
  PROVE  Inv' /\ Intent!Next
<1>1. At(n) \in Machines /\ At(n).s = shape[n] /\ Owns(At(n), Others(n))
  BY AtOwns
<1>2. Settled(shape[n])
  BY DEF Inv
<1>3. Inv' /\ shape' = [shape EXCEPT ![n] = shape[n]] /\ crashed' = crashed
  BY <1>1, <1>2, PutKeeps
<1>4. shape' = shape
  BY <1>3 DEF Inv
<1>5. Values' = Values
  BY <1>4, ValuesAre
<1>6. Intent!Edit(op, n, x, y)
  <2>1. ~Values[n].known /\ op # "merge"
    BY ValueIs DEF EditCalls
  <2>2. op \in {"add", "append", "insert", "set", "remove", "merge"}
    BY DEF EditCalls
  <2>3. Intent!Edit(op, n, x, y)
          <=> IF ~Values[n].known /\ op # "merge"
                THEN Values' = Values /\ crashed' = crashed
                ELSE Intent!Become(n, Values[n].partial,
                                   Intent!Edited(op, n, x, y))
    BY <2>2 DEF Intent!Edit, Values
  <2> QED
    BY <1>3, <1>5, <2>1, <2>3
<1> QED
  BY <1>3, <1>6, CallsAre

(* A shape that is made anew. *)
LEMMA SettleStep ==
  ASSUME Inv, NEW n \in Names, NEW op \in MakeCalls, NEW x, NEW y,
         call' = <<op, n, x, y>>, NEW m \in Machines, Settled(m.s),
         m.s.tag = "REP_OUT_OF_LINE" => m.s.life = "live",
         Owns(m, Others(n)), Put(n, m),
         ValueOf(m.s) = Intent!Made(op, n, x, y)
  PROVE  Inv' /\ Intent!Next
<1>1. Inv' /\ shape' = [shape EXCEPT ![n] = m.s] /\ crashed' = crashed
  BY PutKeeps
<1>2. Values' = [Values EXCEPT ![n] = Intent!Made(op, n, x, y)]
  BY <1>1, ValuesChange DEF Inv
<1>3. Intent!Make(op, n, x, y)
  BY <1>1, <1>2 DEF Intent!Make, MakeCalls, Values
<1> QED
  BY <1>1, <1>3, CallsAre

LEMMA MakeStep ==
  ASSUME Inv, NEW n \in Names, NEW op \in MakeCalls, NEW x, NEW y,
         call' = <<op, n, x, y>>, NEW partial \in BOOLEAN, NEW D,
         Allows(partial, D), NEW m, Becomes(m, partial, Others(n), D), Put(n, m),
         Intent!Made(op, n, x, y) = Intent!Shape(partial, D)
  PROVE  Inv' /\ Intent!Next
<1>1. D \in Seq(SizesOf(partial))
  BY DEF Allows
<1>2. /\ Inv' /\ crashed' = crashed
      /\ Values' = [Values EXCEPT ![n] = Intent!Made(op, n, x, y)]
  BY <1>1, PutBecomes
<1>3. Intent!Make(op, n, x, y)
  BY <1>2 DEF Intent!Make, MakeCalls, Values
<1> QED
  BY <1>2, <1>3, CallsAre

-----------------------------------------------------------------------------
(* Constructors.                                                           *)

LEMMA DefaultStep ==
  ASSUME Inv, NEW n \in Names, NEW partial \in BOOLEAN, Default(n, partial)
  PROVE  Inv' /\ Intent!Next
<1>1. shape[n].life = "none" /\ call' = <<"default", n, partial, 0>>
  BY DEF Default, Calls
<1>2. Intent!Made("default", n, partial, 0)
        = IF partial THEN Intent!Unknown ELSE Intent!Shape(FALSE, <<>>)
  BY DEF Intent!Made
<1>3. "default" \in MakeCalls
  BY DEF MakeCalls
<1>4. CASE partial
  <2>1. PICK one \in Int : one = -1
    OBVIOUS
  <2> DEFINE f == Fresh(TRUE)
             m == [f EXCEPT !.s.ndims = UnknownRank, !.s.num_elements = one]
  <2>2. Put(n, m)
    BY <1>4, <2>1 DEF Default
  <2>3. f \in Machines /\ f.s.tag = "REP16" /\ f.s.life = "live" /\ f.s.partial
        /\ Owns(f, Others(n)) /\ f.s.words = <<>>
    BY <1>1, FreshBecomes DEF Fresh, Absent
  <2>4. UnknownRank \in Nat
    BY WidthsAssumption DEF UnknownRank
  <2> HIDE DEF f
  <2>5. /\ m \in Machines /\ m.h = f.h
        /\ m.s.ndims = UnknownRank /\ m.s.num_elements = one
        /\ m.s.tag = f.s.tag /\ m.s.life = f.s.life /\ m.s.words = f.s.words
        /\ m.s.partial = f.s.partial
    BY <2>3, <2>4 DEF Machines, Bytes
  <2> HIDE DEF m
  <2>6. Unranked(m.s) /\ m.s \in Bytes
    BY <2>1, <2>3, <2>5 DEF Unranked, Machines
  <2>7. Settled(m.s) /\ Owns(m, Others(n))
    BY <2>3, <2>5, <2>6 DEF Settled, Owns
  <2>8. ValueOf(m.s) = Intent!Unknown
    BY <2>3, <2>5, <2>6, UnrankedValue
  <2> QED
    BY <1>1, <1>2, <1>3, <1>4, <2>2, <2>3, <2>5, <2>7, <2>8, SettleStep
<1>5. CASE ~partial
  <2>1. Put(n, Fresh(FALSE))
    BY <1>5 DEF Default
  <2>2. Becomes(Fresh(FALSE), FALSE, Others(n), <<>>)
    BY <1>1, FreshBecomes
  <2>3. Allows(FALSE, <<>>)
    BY EmptySeq, NoSizes, WidthsAssumption DEF Allows
  <2>4. Intent!Made("default", n, partial, 0) = Intent!Shape(FALSE, <<>>)
    BY <1>2, <1>5
  <2> QED
    BY <1>1, <1>3, <2>1, <2>2, <2>3, <2>4, MakeStep
<1> QED
  BY <1>4, <1>5

(* The sizes of an empty vector. *)
LEMMA OneZero ==
  /\ <<0>> \in Seq(SizesOf(FALSE)) /\ Len(<<0>>) = 1 /\ <<0>>[1] = 0
  /\ Allows(FALSE, <<0>>) /\ CountOf(<<0>>) = 0
<1>1. 0 \in SizesOf(FALSE) /\ 0 \in Int
  BY DEF SizesOf, Least
<1>2. <<0>> \in Seq(SizesOf(FALSE)) /\ Len(<<0>>) = 1 /\ <<0>>[1] = 0
  <2>1. ASSUME NEW S, NEW x \in S
        PROVE  <<x>> \in Seq(S) /\ Len(<<x>>) = 1 /\ <<x>>[1] = x
    OBVIOUS
  <2> QED
    BY <1>1, <2>1, Zenon
<1>3. <<0>> = Append(<<>>, 0) /\ <<>> \in Seq(Int)
  BY <1>1, EmptySeq, AppendIsConcat, ConcatEmptySeq
<1>4. Product(<<0>>) = 0
  <2>1. Product(<<0>>) = Product(<<>>) * 0
    BY <1>1, <1>3, ProductsAppend
  <2> QED
    BY <2>1, NoSizes
<1>5. Bounded(<<0>>)
  <2>1. Bounded(Append(<<>>, 0))
          <=> Bounded(<<>>) /\ (AllKnown(<<>>) /\ 0 # -1
                                => Product(<<>>) * 0 <= MaxInt64)
    BY <1>1, <1>3, BoundedAppend
  <2> QED
    BY <1>3, <2>1, NoSizes, WidthsAssumption
<1>6. AllKnown(<<0>>)
  BY <1>2 DEF AllKnown
<1> QED
  <2>1. CountOf(<<0>>) = 0
    BY <1>4, <1>6 DEF CountOf
  <2>2. 1 <= MaxDimensions
    BY WidthsAssumption
  <2>3. Allows(FALSE, <<0>>)
    BY <1>2, <1>5, <2>2 DEF Allows
  <2> QED
    BY <1>2, <2>1, <2>3

LEMMA ForDataTypeStep ==
  ASSUME Inv, NEW n \in Names, ForDataType(n)
  PROVE  Inv' /\ Intent!Next
<1>1. PICK one \in Nat : one = 1
  OBVIOUS
<1>2. PICK none \in Int : none = 0
  OBVIOUS
<1>3. PICK D \in Seq(Int) : D = <<0>>
  <2>1. <<0>> \in Seq(Int)
    OBVIOUS
  <2> QED
    BY <2>1, Zenon
<1> DEFINE f == Fresh(FALSE)
           m == [f EXCEPT !.s.ndims = one, !.s.words = D,
                          !.s.num_elements = none]
<1>4. shape[n].life = "none" /\ call' = <<"list", n, FALSE, <<0>>>>
      /\ Put(n, m)
  BY <1>1, <1>2, <1>3 DEF ForDataType, Calls
<1>5. f \in Machines /\ f.s.tag = "REP16" /\ f.s.life = "live"
      /\ f.s.partial = FALSE /\ Owns(f, Others(n))
  BY <1>4, FreshBecomes
<1> HIDE DEF f
<1>6. /\ m \in Machines /\ m.h = f.h
      /\ m.s.ndims = one /\ m.s.words = D /\ m.s.num_elements = none
      /\ m.s.tag = f.s.tag /\ m.s.life = f.s.life
      /\ m.s.partial = f.s.partial
  BY <1>5 DEF Machines, Bytes
<1> HIDE DEF m
<1>7. D \in Seq(SizesOf(FALSE)) /\ Len(D) = 1 /\ D[1] = 0
      /\ Allows(FALSE, D) /\ CountOf(D) = 0
  BY <1>3, OneZero
<1>8. Owns(m, Others(n))
  BY <1>5, <1>6 DEF Owns
<1>9. Holds(m.s, D)
  <2>1. InWords(m.s, D, Slots16, MaxRep16, UnknownRep16)
    <3>1. 0 < MaxRep16 /\ 1 <= Slots16
      BY WidthsAssumption DEF MaxRep16
    <3>2. \A unknown : Word(m.s, unknown, 0) = 0
      BY <1>5, <1>6 DEF Word
    <3>3. \A d \in 1..1 : d = 1
      OBVIOUS
    <3> QED
      BY <1>6, <1>7, <3>1, <3>2, <3>3 DEF InWords
  <2> QED
    BY <1>1, <1>2, <1>5, <1>6, <1>7, <2>1 DEF Holds, Represents, Allows
<1>10. Becomes(m, FALSE, Others(n), D)
  BY <1>5, <1>6, <1>7, <1>8, <1>9 DEF Becomes, Allows
<1>11. Intent!Made("list", n, FALSE, <<0>>) = Intent!Shape(FALSE, D)
  BY <1>3 DEF Intent!Made
<1> QED
  BY <1>4, <1>7, <1>10, <1>11, MakeStep DEF MakeCalls

(* A list that is a shape. *)
LEMMA ValidIs ==
  ASSUME NEW partial \in BOOLEAN, NEW list \in Seq(Int)
  PROVE  IsValidShape(partial, list) <=> Allows(partial, list)
<1> DEFINE L == Len(list)
           fits == \A d \in 1..L : list[d] >= Least(partial)
<1>1. L \in Nat /\ \A d \in 1..L : list[d] \in Int
  BY LenProperties, ElementOfSeq
<1>2. list \in Seq(SizesOf(partial)) <=> fits
  <2>1. ASSUME list \in Seq(SizesOf(partial)) PROVE fits
    BY <2>1, ElementOfSeq DEF SizesOf
  <2>2. ASSUME fits PROVE list \in Seq(SizesOf(partial))
    <3>1. list = [d \in 1..L |-> list[d]]
      BY LenProperties
    <3>2. \A d \in 1..L : list[d] \in SizesOf(partial)
      BY <1>1, <2>2 DEF SizesOf
    <3>3. list \in [1..L -> SizesOf(partial)]
      <4> HIDE DEF L
      <4> QED
        BY <3>1, <3>2
    <3> QED
      BY <1>1, <3>3
  <2> QED
    BY <2>1, <2>2
<1>3. list \in Seq(SizesOf(partial))
        => (Counted(partial, list) # Overflow <=> Bounded(list))
  <2> SUFFICES ASSUME list \in Seq(SizesOf(partial))
               PROVE  Counted(partial, list) # Overflow <=> Bounded(list)
    OBVIOUS
  <2>1. CountOf(list) # Overflow
    BY CountType DEF Overflow
  <2> QED
    BY <2>1, CountedIs
<1>4. IsValidShape(partial, list)
        <=> L <= MaxDimensions /\ fits /\ Counted(partial, list) # Overflow
  BY DEF IsValidShape
<1> HIDE DEF fits
<1> QED
  BY <1>2, <1>3, <1>4 DEF Allows

LEMMA FromListStep ==
  ASSUME Inv, NEW n \in Names, NEW partial \in BOOLEAN, NEW list \in Lists,
         FromList(n, partial, list)
  PROVE  Inv' /\ Intent!Next
<1>1. list \in Seq(Int)
  BY InputsAssumption
<1>2. shape[n].life = "none" /\ call' = <<"list", n, partial, list>>
      /\ Put(n, AddDims(Fresh(partial), list))
  BY DEF FromList, Calls
<1>3. Allows(partial, list)
  BY <1>1, ValidIs DEF FromList
<1>4. Becomes(AddDims(Fresh(partial), list), partial, Others(n), list)
  <2>1. Becomes(Fresh(partial), partial, Others(n), <<>>) /\ Room(Others(n))
    BY <1>2, FreshBecomes, AtOwns
  <2>2. <<>> \in Seq(SizesOf(partial)) /\ <<>> \o list = list
        /\ list \in Seq(SizesOf(partial))
    BY <1>1, <1>3, EmptySeq, ConcatEmptySeq DEF Allows
  <2> QED
    BY <2>1, <2>2, AddDimsBecomes
<1>5. Intent!Made("list", n, partial, list) = Intent!Shape(partial, list)
  BY DEF Intent!Made
<1> QED
  BY <1>2, <1>3, <1>4, <1>5, MakeStep DEF MakeCalls

LEMMA FromSizesStep ==
  ASSUME Inv, NEW n \in Names, NEW partial \in BOOLEAN, NEW list \in Lists,
         FromSizes(n, partial, list)
  PROVE  Inv' /\ Intent!Next
<1>1. list \in Seq(Int) /\ \A d \in 1..Len(list) : list[d] >= Least(partial)
  BY InputsAssumption DEF FromSizes
<1>2. shape[n].life = "none" /\ call' = <<"sizes", n, partial, list>>
      /\ Put(n, InitDims(Fresh(partial), list))
  BY DEF FromSizes, Calls
<1>3. list \in Seq(SizesOf(partial))
  <2>1. list = [d \in 1..Len(list) |-> list[d]] /\ Len(list) \in Nat
    BY <1>1, LenProperties
  <2>2. \A d \in 1..Len(list) : list[d] \in SizesOf(partial)
    BY <1>1, ElementOfSeq DEF SizesOf
  <2>3. list \in [1..Len(list) -> SizesOf(partial)]
    BY <2>1, <2>2
  <2> QED
    BY <2>1, <2>3
<1>4. Becomes(InitDims(Fresh(partial), list), partial, Others(n), list)
  <2>1. Becomes(Fresh(partial), partial, Others(n), <<>>) /\ Room(Others(n))
        /\ Fresh(partial).s.tag = "REP16"
    BY <1>2, FreshBecomes, AtOwns
  <2> QED
    BY <1>3, <2>1, InitDimsBecomes
<1>5. Inv' /\ Intent!Become(n, partial, list)
  BY <1>2, <1>3, <1>4, PutBecomes
<1>6. Intent!FromSizes("sizes", n, partial, list)
  BY <1>5 DEF Intent!FromSizes
<1> QED
  BY <1>2, <1>5, <1>6, CallsAre

-----------------------------------------------------------------------------
(* Destructors, copies and moves.                                          *)

LEMMA DestroyStep ==
  ASSUME Inv, NEW n \in Names, Destroy(n)
  PROVE  Inv' /\ Intent!Next
<1> DEFINE m == [s |-> Absent, h |-> Free(At(n)).h]
<1>1. call' = <<"destroy", n, 0, 0>> /\ Put(n, m)
  BY DEF Destroy, Calls
<1>2. Free(At(n)).h = Others(n) /\ Others(n) \subseteq Addresses
  BY AtOwns, FreeOwns DEF Room
<1>3. Settled(Absent) /\ Absent \in Bytes /\ Absent.tag = "REP16"
  BY AbsentSettled DEF Settled, Absent
<1>4. m \in Machines /\ m.s = Absent /\ Owns(m, Others(n))
  BY <1>2, <1>3 DEF Machines, Owns
<1>5. Intent!Made("destroy", n, 0, 0) = Intent!Absent
  BY DEF Intent!Made
<1> HIDE DEF m
<1> QED
  BY <1>1, <1>3, <1>4, <1>5, AbsentValue, SettleStep DEF MakeCalls

(* A copy has the value of what is copied, as one of its own class.        *)
LEMMA CopyStep ==
  ASSUME Inv, NEW n \in Names, NEW o \in Names, shape[o].life = "live",
         NEW partial \in BOOLEAN,
         partial \/ ~shape[o].partial \/ shape[o].num_elements # -1,
         call' = <<"copy", n, partial, o>>,
         NEW m \in Machines, Owns(m, Others(n)), m.s.partial = partial,
         Put(n, CopiedFrom(m, shape[o]))
  PROVE  Inv' /\ Intent!Next
<1> DEFINE b == shape[o]
           r == CopiedFrom(m, b)
<1>1. b \in Bytes /\ b.partial \in BOOLEAN /\ Room(Others(n))
  BY AtOwns DEF Inv, Bytes
<1>2. /\ r \in Machines /\ Owns(r, Others(n))
      /\ r.s.life = "live" /\ r.s.partial = partial
      /\ r.s.tag = b.tag /\ r.s.ndims = b.ndims /\ r.s.words = b.words
      /\ r.s.num_elements = b.num_elements
  BY <1>1, CopiedFromIs
<1> HIDE DEF r
<1>3. r.s \in Bytes
  BY <1>2 DEF Machines
<1>4. r.s.tag = "REP_OUT_OF_LINE" => r.s.vec \in Addresses
  BY <1>2 DEF Owns
<1>5. Values[o].known = ~unknown_rank(b) /\ Values[o].dims = dim_sizes(b)
  BY ValueIs
<1>6. Intent!Made("copy", n, partial, o)
        = Intent!Of("live", partial, Values[o].known, Values[o].dims)
  BY DEF Intent!Made, Intent!Dims, Values
<1>7. CASE unknown_rank(b)
  <2>1. Unranked(b)
    BY <1>7, KnownHolds
  <2>2. partial
    BY <2>1 DEF Unranked
  <2>3. Unranked(r.s)
    BY <1>2, <2>1, <2>2 DEF Unranked
  <2>4. Settled(r.s)
    BY <1>2, <1>3, <1>4, <2>3 DEF Settled
  <2>5. ValueOf(r.s) = Intent!Unknown
    BY <1>2, <2>3, UnrankedValue
  <2>6. Intent!Made("copy", n, partial, o) = Intent!Unknown
    BY <1>5, <1>6, <1>7, <2>2 DEF dim_sizes, Intent!Unknown
  <2> QED
    BY <1>2, <2>4, <2>5, <2>6, SettleStep DEF MakeCalls, r
<1>8. CASE ~unknown_rank(b)
  <2> DEFINE D == dim_sizes(b)
  <2>1. Holds(b, D)
    BY <1>8, KnownHolds
  <2> HIDE DEF D
  <2>2. Holds(r.s, D)
    BY <1>1, <1>2, <1>3, <2>1, CopyHolds
  <2>3. dim_sizes(r.s) = D
    BY <1>3, <2>2, DimSizes DEF Holds
  <2>4. Settled(r.s)
    BY <1>2, <1>3, <1>4, <2>2, <2>3 DEF Settled
  <2>5. ValueOf(r.s) = Intent!Shape(partial, D)
    BY <1>2, <1>3, <2>2, HoldsValue
  <2>6. Intent!Made("copy", n, partial, o) = Intent!Shape(partial, D)
    BY <1>5, <1>6, <1>8 DEF Intent!Shape, D
  <2> QED
    BY <1>2, <2>4, <2>5, <2>6, SettleStep DEF MakeCalls, r
<1> QED
  BY <1>7, <1>8

LEMMA AssignStep ==
  ASSUME Inv, NEW n \in Names, NEW o \in Names, Assign(n, o)
  PROVE  Inv' /\ Intent!Next
<1>1. /\ shape[o].life = "live" /\ call' = <<"copy", n, shape[n].partial, o>>
      /\ Put(n, CopiedFrom(At(n), shape[o]))
      /\ shape[n].partial \/ ~shape[o].partial \/ shape[o].num_elements # -1
  BY DEF Assign, Live, Calls, IsFullyDefined
<1>2. shape[n].partial \in BOOLEAN
  BY DEF Inv, Bytes
<1>3. At(n) \in Machines /\ Owns(At(n), Others(n))
      /\ At(n).s.partial = shape[n].partial
  BY AtOwns
<1> QED
  BY <1>1, <1>2, <1>3, CopyStep

LEMMA CopyConstructStep ==
  ASSUME Inv, NEW n \in Names, NEW o \in Names, NEW partial \in BOOLEAN,
         CopyConstruct(n, o, partial)
  PROVE  Inv' /\ Intent!Next
<1>1. /\ shape[o].life = "live" /\ call' = <<"copy", n, partial, o>>
      /\ shape[n].life = "none"
      /\ Put(n, CopiedFrom(Fresh(partial), shape[o]))
      /\ shape[o].partial => partial
  BY DEF CopyConstruct, Live, Calls
<1>2. shape[o].partial \in BOOLEAN
  BY DEF Inv, Bytes
<1>3. Fresh(partial) \in Machines /\ Owns(Fresh(partial), Others(n))
      /\ Fresh(partial).s.partial = partial
  BY <1>1, FreshBecomes
<1> QED
  BY <1>1, <1>2, <1>3, CopyStep

(* The one vector of the two goes with the value. *)
LEMMA MoveStep ==
  ASSUME Inv, NEW n \in Names, NEW o \in Names, Move(n, o)
  PROVE  Inv' /\ Intent!Next
<1> DEFINE b == shape[o]
           left == [Absent EXCEPT !.life = "moved", !.partial = b.partial]
           O == {p \in Names : shape[p].tag = "REP_OUT_OF_LINE"}
           P == {p \in Names : shape'[p].tag = "REP_OUT_OF_LINE"}
           Q == {p \in Names \ {n} : shape[p].tag = "REP_OUT_OF_LINE"}
<1>1. /\ b.life = "live" /\ n # o /\ call' = <<"move", n, o, 0>>
      /\ shape' = [shape EXCEPT ![n] = b, ![o] = left]
      /\ heap' = Free(At(n)).h /\ crashed' = crashed
  BY DEF Move, Live, Calls
<1>2. heap' = Others(n)
  BY <1>1, AtOwns, FreeOwns
<1>3. b \in Bytes /\ Settled(b) /\ b.partial \in BOOLEAN
  BY DEF Inv, Bytes
<1>4. /\ left \in Bytes /\ left.life = "moved" /\ left.tag = "REP16"
      /\ left.partial = b.partial
  <2>1. Absent \in Bytes /\ Absent.tag = "REP16"
    BY AbsentSettled DEF Settled, Absent
  <2> QED
    BY <1>3, <2>1 DEF Bytes
<1> HIDE DEF left
<1>5. Settled(left)
  BY <1>4 DEF Settled
<1>6. /\ shape'[n] = b /\ shape'[o] = left
      /\ \A p \in Names \ {n, o} : shape'[p] = shape[p]
  BY <1>1 DEF Inv
<1>7. shape' \in [Names -> Bytes]
  BY <1>1, <1>3, <1>4 DEF Inv
<1>8. \A p \in Names : Settled(shape'[p])
  BY <1>3, <1>5, <1>6 DEF Inv
<1>9. /\ \A p, q \in O : shape[p].vec = shape[q].vec => p = q
      /\ \A p \in O : shape[p].life = "live"
  BY DEF Inv, OneOwner, Live
<1>10. OneOwner'
  <2>1. Others(n) = {shape[p].vec : p \in Q}
    BY DEF Others
  <2>2. /\ o \notin P
        /\ n \in P <=> o \in Q
        /\ \A p \in Names \ {n, o} : p \in P <=> p \in Q
        /\ n \notin Q /\ P \subseteq Names /\ Q \subseteq O /\ Q \subseteq Names
    BY <1>1, <1>4, <1>6
  <2> HIDE DEF O, P, Q, b
  <2>3. ASSUME NEW p \in P
        PROVE  \E q \in Q : shape'[p] = shape[q] /\ q = IF p = n THEN o ELSE p
    BY <1>6, <2>2, <2>3 DEF b
  <2>4. ASSUME NEW q \in Q
        PROVE  \E p \in P : shape'[p] = shape[q]
    <3>1. CASE q = o
      BY <1>6, <2>2, <3>1 DEF b
    <3>2. CASE q # o
      BY <1>6, <2>2, <3>2
    <3> QED
      BY <3>1, <3>2
  <2>5. heap' = {shape'[p].vec : p \in P}
    BY <1>2, <2>1, <2>3, <2>4
  <2>6. ASSUME NEW p \in P, NEW q \in P, shape'[p].vec = shape'[q].vec
        PROVE  p = q
    <3>1. PICK u \in Q : shape'[p] = shape[u] /\ u = IF p = n THEN o ELSE p
      BY <2>3
    <3>2. PICK v \in Q : shape'[q] = shape[v] /\ v = IF q = n THEN o ELSE q
      BY <2>3
    <3>3. u = v
      BY <1>9, <2>2, <2>6, <3>1, <3>2
    <3> QED
      BY <2>2, <3>1, <3>2, <3>3
  <2>7. \A p \in P : shape'[p].life = "live"
    BY <1>9, <2>2, <2>3
  <2> QED
    BY <2>5, <2>6, <2>7 DEF OneOwner, Live, P
<1>11. Inv'
  BY <1>1, <1>7, <1>8, <1>10 DEF Inv, Settled
<1>12. Intent!Move("move", n, o)
  <2>1. ValueOf(left) = Intent!Moved(Values[o].partial)
    BY <1>4, ValueIs DEF ValueOf, Intent!Moved, Intent!Of
  <2>2. ValueOf(b) = Values[o]
    BY ValuesAre
  <2>3. Values' = [p \in Names |-> ValueOf(shape'[p])]
    BY ValuesAre
  <2>4. Values = [p \in Names |-> ValueOf(shape[p])]
    BY ValuesAre
  <2> HIDE DEF Values, b
  <2>5. ASSUME NEW p \in Names
        PROVE  Values'[p] = IF p = o THEN ValueOf(left)
                            ELSE IF p = n THEN ValueOf(b) ELSE Values[p]
    <3>1. Values'[p] = ValueOf(shape'[p]) /\ Values[p] = ValueOf(shape[p])
      BY <2>3, <2>4
    <3>2. CASE p = o
      BY <1>6, <3>1, <3>2
    <3>3. CASE p # o /\ p = n
      BY <1>6, <3>1, <3>3
    <3>4. CASE p # o /\ p # n
      BY <1>6, <3>1, <3>4
    <3> QED
      BY <3>2, <3>3, <3>4
  <2>6. Values' = [Values EXCEPT ![n] = Values[o],
                                 ![o] = Intent!Moved(Values[o].partial)]
    BY <1>1, <2>1, <2>2, <2>3, <2>4, <2>5
  <2> QED
    BY <1>1, <2>6 DEF Intent!Move, Values
<1> QED
  BY <1>1, <1>11, <1>12, CallsAre

LEMMA ClearStep ==
  ASSUME Inv, NEW n \in Names, Clear(n)
  PROVE  Inv' /\ Intent!Next
<1>1. shape[n].life = "live" /\ call' = <<"clear", n, 0, 0>>
      /\ Put(n, Cleared(At(n)))
  BY DEF Clear, Live, Calls
<1>2. shape[n].partial \in BOOLEAN
  BY DEF Inv, Bytes
<1>3. Becomes(Cleared(At(n)), shape[n].partial, Others(n), <<>>)
  BY <1>1, AtOwns, ClearedBecomes DEF Room
<1>4. Allows(shape[n].partial, <<>>)
  BY EmptySeq, NoSizes, WidthsAssumption DEF Allows
<1>5. Intent!Made("clear", n, 0, 0) = Intent!Shape(shape[n].partial, <<>>)
  BY ValueIs DEF Intent!Made, Values
<1> QED
  BY <1>1, <1>2, <1>3, <1>4, <1>5, MakeStep DEF MakeCalls

-----------------------------------------------------------------------------
(* Edits.                                                                  *)

(* Every part of a list that a shape may have may be had. *)
LEMMA AllowsPrefix ==
  ASSUME NEW partial \in BOOLEAN, NEW list \in Seq(Int),
         NEW k \in 0..Len(list), Allows(partial, SubSeq(list, 1, k)),
         NEW i \in 0..k
  PROVE  Allows(partial, SubSeq(list, 1, i))
<1> DEFINE P == {j \in 0..k : Allows(partial, SubSeq(list, 1, k - j))}
<1>1. k \in Nat /\ Len(list) \in Nat /\ k <= Len(list)
  BY LenProperties
<1>2. P \in SUBSET (0..k) /\ 0 \in P
  BY <1>1
<1>3. ASSUME NEW j \in 1..k, j - 1 \in P PROVE j \in P
  <2> DEFINE d == k - j + 1
             D == SubSeq(list, 1, d - 1)
             E == SubSeq(list, 1, d)
  <2>1. d \in 1..Len(list) /\ d = k - (j - 1) /\ d - 1 = k - j /\ j \in 0..k
    BY <1>1
  <2>2. Allows(partial, E)
    BY <1>3, <2>1
  <2>3. D \in Seq(Int) /\ list[d] \in Int /\ E = Append(D, list[d])
    <3> HIDE DEF d
    <3> QED
      BY <2>1, PrefixAppend
  <2> HIDE DEF D, E, d
  <2>4. Len(E) = Len(D) + 1 /\ Len(D) \in Nat /\ E \in Seq(SizesOf(partial))
        /\ \A e \in 1..Len(D) : E[e] = D[e]
    BY <2>2, <2>3, AppendProperties, LenProperties DEF Allows
  <2>5. D \in Seq(SizesOf(partial))
    <3>1. D = [e \in 1..Len(D) |-> D[e]]
      BY <2>3, LenProperties
    <3>2. \A e \in 1..Len(D) : D[e] \in SizesOf(partial)
      <4>1. \A e \in 1..Len(D) : e \in 1..Len(E)
        BY <2>4
      <4> QED
        BY <2>4, <4>1, ElementOfSeq
    <3>3. D \in [1..Len(D) -> SizesOf(partial)]
      BY <3>1, <3>2
    <3> QED
      BY <2>4, <3>3
  <2>6. Len(D) <= MaxDimensions
    BY <2>2, <2>4, WidthsAssumption DEF Allows
  <2>7. Bounded(D)
    BY <2>2, <2>3, StaysTooLarge DEF Allows
  <2>8. Allows(partial, D)
    BY <2>5, <2>6, <2>7 DEF Allows
  <2> QED
    BY <2>1, <2>8 DEF D
<1>4. P = 0..k
  <2> HIDE DEF P
  <2> QED
    BY <1>1, <1>2, <1>3, Throughout
<1>5. k - i \in 0..k /\ k - (k - i) = i
  BY <1>1
<1>6. k - i \in P
  BY <1>4, <1>5
<1> QED
  BY <1>5, <1>6

(* So there is only one longest part of it. *)
LEMMA LongestIs ==
  ASSUME NEW partial \in BOOLEAN, NEW list \in Seq(Int),
         NEW k \in 0..Len(list), Allows(partial, SubSeq(list, 1, k)),
         k < Len(list) => ~Allows(partial, SubSeq(list, 1, k + 1))
  PROVE  Intent!Longest(partial, list) = SubSeq(list, 1, k)
<1> DEFINE L == Len(list)
           Fits(i) == Intent!Allowed(partial, SubSeq(list, 1, i))
           Last(i) == Fits(i) /\ (i < L => ~Fits(i + 1))
           c == CHOOSE i \in 0..L : Last(i)
<1>1. L \in Nat
  BY LenProperties
<1>2. ASSUME NEW i \in 0..L
      PROVE  Fits(i) <=> Allows(partial, SubSeq(list, 1, i))
  <2>1. \A j \in 1..i : list[j] \in Int
    BY <1>1, ElementOfSeq
  <2>2. SubSeq(list, 1, i) \in Seq(Int)
    BY <1>1, <2>1, SubSeqProperties
  <2> QED
    BY <2>2, AllowedIs
<1>3. Last(k)
  <2>1. k < L => k + 1 \in 0..L
    BY <1>1
  <2> QED
    BY <1>2, <2>1
<1>4. c \in 0..L /\ Last(c)
  <2>1. k \in 0..L
    OBVIOUS
  <2> HIDE DEF Last, L
  <2> QED
    BY <1>3, <2>1
<1>5. Intent!Longest(partial, list) = SubSeq(list, 1, c)
  BY DEF Intent!Longest
<1> HIDE DEF c
<1>6. ASSUME NEW i \in 0..L, NEW j \in 0..L, Last(i), Last(j), i < j
      PROVE  FALSE
  <2>1. i + 1 \in 0..j /\ i + 1 \in 0..L /\ i < L
    BY <1>1, <1>6
  <2>2. Allows(partial, SubSeq(list, 1, j))
    BY <1>2, <1>6
  <2>3. Allows(partial, SubSeq(list, 1, i + 1))
    BY <2>1, <2>2, AllowsPrefix
  <2> QED
    BY <1>2, <1>6, <2>1, <2>3
<1>7. c = k
  <2>1. ~(c < k) /\ ~(k < c)
    <3> HIDE DEF Last, L
    <3> QED
      BY <1>3, <1>4, <1>6 DEF L
  <2> QED
    BY <1>1, <1>4, <2>1
<1> QED
  BY <1>5, <1>7

LEMMA MakeShapeStep ==
  ASSUME Inv, NEW n \in Names, NEW list \in Lists, MakeShape(n, list)
  PROVE  Inv' /\ Intent!Next
<1> DEFINE partial == shape[n].partial
<1>1. shape[n].life = "live" /\ call' = <<"make", n, list, 0>>
      /\ Put(n, MadeShape(At(n), list))
  BY DEF MakeShape, Live, Calls
<1>2. partial \in BOOLEAN /\ list \in Seq(Int)
  BY InputsAssumption DEF Inv, Bytes
<1>3. At(n) \in Machines /\ At(n).s = shape[n] /\ Owns(At(n), Others(n))
      /\ Room(Others(n))
  BY AtOwns
<1>4. Intent!Made("make", n, list, 0)
        = Intent!Shape(partial, IF Len(list) > MaxDimensions THEN <<>>
                                ELSE Intent!Longest(partial, list))
  BY ValueIs DEF Intent!Made, Values
<1>5. CASE Len(list) > MaxDimensions
  <2>1. MadeShape(At(n), list) = Cleared(At(n))
    BY <1>5 DEF MadeShape
  <2>2. Becomes(Cleared(At(n)), partial, Others(n), <<>>)
    BY <1>1, <1>3, ClearedBecomes DEF Room
  <2>3. Allows(partial, <<>>)
    BY EmptySeq, NoSizes, WidthsAssumption DEF Allows
  <2>4. Intent!Made("make", n, list, 0) = Intent!Shape(partial, <<>>)
    BY <1>4, <1>5
  <2> HIDE DEF partial
  <2> QED
    BY <1>1, <1>2, <2>1, <2>2, <2>3, <2>4, MakeStep DEF MakeCalls
<1>6. CASE ~(Len(list) > MaxDimensions)
  <2>1. Len(list) <= MaxDimensions
    BY <1>2, <1>6, LenProperties, WidthsAssumption
  <2>2. PICK k \in 0..Len(list) :
          /\ Allows(partial, SubSeq(list, 1, k))
          /\ k < Len(list) => ~Allows(partial, SubSeq(list, 1, k + 1))
          /\ Becomes(MadeShape(At(n), list), partial, Others(n),
                     SubSeq(list, 1, k))
    BY <1>1, <1>2, <1>3, <2>1, MadeShapeBecomes
  <2> DEFINE D == SubSeq(list, 1, k)
  <2>3. Intent!Longest(partial, list) = D
    BY <1>2, <2>2, LongestIs
  <2>4. Intent!Made("make", n, list, 0) = Intent!Shape(partial, D)
    BY <1>4, <1>6, <2>3
  <2>5. Allows(partial, D)
        /\ Becomes(MadeShape(At(n), list), partial, Others(n), D)
    BY <2>2
  <2> HIDE DEF partial, D
  <2> QED
    BY <1>1, <1>2, <2>4, <2>5, MakeStep DEF MakeCalls
<1> QED
  BY <1>5, <1>6

(* The sizes of a value. *)
LEMMA DimsAre ==
  ASSUME NEW n \in Names, shape[n].life = "live"
  PROVE  Intent!Dims(n) = dim_sizes(shape[n])
BY ValueIs DEF Intent!Dims, Values

LEMMA ExtendStep ==
  ASSUME Inv, NEW n \in Names, NEW size \in Sizes, Extend(n, size)
  PROVE  Inv' /\ Intent!Next
<1> DEFINE s == shape[n]
           D == dim_sizes(s)
<1>1. /\ s.life = "live" /\ call' = <<"add", n, size, 0>>
      /\ Put(n, AddDim(At(n), size)) /\ size >= Least(s.partial)
  BY DEF Extend, Live, Calls
<1>2. s.partial \in BOOLEAN /\ size \in SizesOf(s.partial)
  BY <1>1, InputsAssumption DEF Inv, Bytes, SizesOf
<1>3. At(n).s = s /\ Room(Others(n))
  BY AtOwns
<1>4. CASE unknown_rank(s)
  <2>1. s.partial
    BY <1>4 DEF unknown_rank
  <2>2. AddDim(At(n), size) = At(n)
    BY <1>1, <1>3, <1>4, <2>1 DEF AddDim
  <2> QED
    BY <1>1, <1>4, <2>2, StayStep DEF EditCalls
<1>5. CASE ~unknown_rank(s)
  <2>1. Becomes(At(n), s.partial, Others(n), D) /\ D \in Seq(SizesOf(s.partial))
    BY <1>1, <1>5, KnownHolds DEF Allows
  <2>2. Intent!Edited("add", n, size, 0) = Append(D, size)
    BY <1>1, DimsAre DEF Intent!Edited
  <2> HIDE DEF D
  <2>3. Becomes(AddDim(At(n), size), s.partial, Others(n), Append(D, size))
    BY <1>2, <1>3, <2>1, AddDimBecomes
  <2>4. Append(D, size) \in Seq(SizesOf(s.partial))
    BY <1>2, <2>1, AppendProperties
  <2> QED
    BY <1>1, <1>5, <2>2, <2>3, <2>4, EditStep DEF EditCalls
<1> QED
  BY <1>4, <1>5

LEMMA AppendShapeStep ==
  ASSUME Inv, NEW n \in Names, NEW o \in Names, AppendShape(n, o)
  PROVE  Inv' /\ Intent!Next
<1> DEFINE s == shape[n]
           D == dim_sizes(s)
           E == dim_sizes(shape[o])
<1>1. /\ s.life = "live" /\ call' = <<"append", n, o, 0>>
      /\ Put(n, AddDims(At(n), E))
      /\ shape[o].life = "live" /\ ~unknown_rank(shape[o])
      /\ s.partial = shape[o].partial
  BY DEF AppendShape, Live, Known, Calls
<1>2. s.partial \in BOOLEAN /\ E \in Seq(SizesOf(s.partial))
  <2>1. Allows(shape[o].partial, E)
    BY <1>1, KnownHolds
  <2> QED
    BY <1>1, <2>1 DEF Allows, Inv, Bytes
<1>3. At(n) \in Machines /\ At(n).s = s /\ Room(Others(n))
  BY AtOwns
<1>4. CASE unknown_rank(s)
  <2>1. AddDims(At(n), E) = At(n)
    <3> HIDE DEF E
    <3> QED
      BY <1>1, <1>2, <1>3, <1>4, AddDimsUnknown
  <2> QED
    BY <1>1, <1>4, <2>1, StayStep DEF EditCalls
<1>5. CASE ~unknown_rank(s)
  <2>1. Becomes(At(n), s.partial, Others(n), D) /\ D \in Seq(SizesOf(s.partial))
    BY <1>1, <1>5, KnownHolds DEF Allows
  <2>2. Intent!Edited("append", n, o, 0) = D \o E
    BY <1>1, DimsAre DEF Intent!Edited
  <2> HIDE DEF D, E
  <2>3. Becomes(AddDims(At(n), E), s.partial, Others(n), D \o E)
    BY <1>2, <1>3, <2>1, AddDimsBecomes
  <2>4. D \o E \in Seq(SizesOf(s.partial))
    BY <1>2, <2>1, ConcatProperties
  <2> QED
    BY <1>1, <1>5, <2>2, <2>3, <2>4, EditStep DEF EditCalls
<1> QED
  BY <1>4, <1>5

(* A shape that is emptied and filled again. *)
LEMMA RebuiltBecomes ==
  ASSUME Inv, NEW n \in Names, shape[n].life = "live",
         NEW E \in Seq(SizesOf(shape[n].partial))
  PROVE  Becomes(Rebuilt(At(n), E), shape[n].partial, Others(n), E)
<1> DEFINE partial == shape[n].partial
<1>1. partial \in BOOLEAN
  BY DEF Inv, Bytes
<1>2. Becomes(Cleared(At(n)), partial, Others(n), <<>>) /\ Room(Others(n))
  BY AtOwns, ClearedBecomes DEF Room
<1>3. <<>> \in Seq(SizesOf(partial)) /\ <<>> \o E = E
  BY EmptySeq, ConcatEmptySeq
<1> HIDE DEF partial
<1>4. E \in Seq(SizesOf(partial))
  BY DEF partial
<1>5. Becomes(AddDims(Cleared(At(n)), E), partial, Others(n), <<>> \o E)
  BY <1>1, <1>2, <1>3, <1>4, AddDimsBecomes
<1> QED
  BY <1>3, <1>5 DEF Rebuilt, partial

(* Parts of a list. *)
LEMMA PartIs ==
  ASSUME NEW S, NEW D \in Seq(S), NEW b \in Nat, NEW e \in Nat,
         b >= 1, e <= Len(D)
  PROVE  SubSeq(D, b, e) \in Seq(S)
<1>1. Len(D) \in Nat
  BY LenProperties
<1>2. \A i \in b..e : D[i] \in S
  <2>1. \A i \in b..e : i \in 1..Len(D)
    BY <1>1
  <2> QED
    BY <2>1, ElementOfSeq
<1> QED
  BY <1>2, SubSeqProperties

LEMMA InsertDimStep ==
  ASSUME Inv, NEW n \in Names, NEW size \in Sizes, NEW d \in 0..MaxDimensions,
         InsertDim(n, d, size)
  PROVE  Inv' /\ Intent!Next
<1> DEFINE s == shape[n]
           D == dim_sizes(s)
           E == Inserted(D, d, size)
<1>1. /\ s.life = "live" /\ ~unknown_rank(s)
      /\ call' = <<"insert", n, d, size>>
      /\ Put(n, Rebuilt(At(n), E)) /\ size >= Least(s.partial)
      /\ d \in 0..s.ndims
  BY DEF InsertDim, Known, Live, Calls
<1>2. size \in SizesOf(s.partial)
  BY <1>1, InputsAssumption DEF SizesOf
<1>3. D \in Seq(SizesOf(s.partial)) /\ Len(D) = s.ndims /\ s.ndims \in Nat
  BY <1>1, KnownHolds, LenProperties DEF Allows
<1>4. Intent!Edited("insert", n, d, size) = E
  BY <1>1, DimsAre DEF Intent!Edited, Inserted
<1>5. E \in Seq(SizesOf(s.partial))
  <2> HIDE DEF D
  <2>1. SubSeq(D, 1, d) \in Seq(SizesOf(s.partial))
    BY <1>1, <1>3, PartIs
  <2>2. SubSeq(D, d + 1, Len(D)) \in Seq(SizesOf(s.partial))
    BY <1>1, <1>3, PartIs
  <2>3. <<size>> \in Seq(SizesOf(s.partial))
    BY <1>2
  <2> QED
    BY <2>1, <2>2, <2>3, ConcatProperties DEF Inserted
<1> HIDE DEF E
<1>6. Becomes(Rebuilt(At(n), E), s.partial, Others(n), E)
  BY <1>1, <1>5, RebuiltBecomes
<1> QED
  BY <1>1, <1>4, <1>5, <1>6, EditStep DEF EditCalls

(* set_dim of what still fits. *)
LEMMA SetRepresents ==
  ASSUME NEW s \in Bytes, NEW t \in Bytes, NEW D, Represents(s, D),
         NEW d \in 1..Len(D), NEW size \in Nat,
         s.tag = "REP16" => size < MaxRep16, s.tag = "REP32" => size < MaxRep32,
         t.tag = s.tag, t.partial = s.partial, t.ndims = s.ndims,
         t.words = [s.words EXCEPT ![d] = size]
  PROVE  /\ Represents(t, [D EXCEPT ![d] = size])
         /\ [D EXCEPT ![d] = size] \in Seq(SizesOf(s.partial))
<1> DEFINE E == [D EXCEPT ![d] = size]
           L == Len(D)
<1>1. /\ s.partial \in BOOLEAN /\ D \in Seq(SizesOf(s.partial))
      /\ L \in Nat /\ s.words \in Seq(Int) /\ Len(s.words) = L
  BY LenProperties DEF Represents, Bytes
<1>2. size \in SizesOf(s.partial)
  BY DEF SizesOf, Least
<1>3. /\ E \in Seq(SizesOf(s.partial)) /\ Len(E) = L
      /\ \A i \in 1..L : E[i] = IF i = d THEN size ELSE D[i]
  BY <1>1, <1>2, ExceptSeq
<1>4. /\ Len(t.words) = L
      /\ \A i \in 1..L : t.words[i] = IF i = d THEN size ELSE s.words[i]
  <2>1. size \in Int /\ d \in 1..Len(s.words)
    BY <1>1
  <2> QED
    BY <1>1, <2>1, ExceptSeq
<1> HIDE DEF E
<1>5. ASSUME NEW slots, NEW max, NEW unknown, size < max,
             InWords(s, D, slots, max, unknown)
      PROVE  InWords(t, E, slots, max, unknown)
  <2>1. \A x : Word(t, unknown, x) = Word(s, unknown, x)
    BY DEF Word
  <2>2. Word(s, unknown, size) = size
    BY DEF Word
  <2>3. L <= slots
        /\ \A i \in 1..L : D[i] < max /\ s.words[i] = Word(s, unknown, D[i])
    BY <1>5 DEF InWords
  <2> HIDE DEF L
  <2>4. \A i \in 1..L : E[i] < max /\ t.words[i] = Word(t, unknown, E[i])
    BY <1>3, <1>4, <1>5, <2>1, <2>2, <2>3
  <2> QED
    BY <1>3, <2>3, <2>4 DEF InWords
<1>6. t.tag = "REP_OUT_OF_LINE" => t.words = E
  <2>1. s.tag = "REP_OUT_OF_LINE" => s.words = D
    BY DEF Represents
  <2> QED
    BY <2>1 DEF E
<1>7. s.tag = "REP16" => InWords(t, E, Slots16, MaxRep16, UnknownRep16)
  BY <1>5 DEF Represents
<1>8. s.tag = "REP32" => InWords(t, E, Slots32, MaxRep32, UnknownRep32)
  BY <1>5 DEF Represents
<1> QED
  BY <1>3, <1>4, <1>6, <1>7, <1>8 DEF Represents, E

LEMMA SetDimStep ==
  ASSUME Inv, NEW n \in Names, NEW size \in Sizes, NEW d \in 0..MaxDimensions,
         SetDim(n, d, size)
  PROVE  Inv' /\ Intent!Next
<1> DEFINE s == shape[n]
           D == dim_sizes(s)
           E == [D EXCEPT ![d] = size]
           fits == \/ s.tag = "REP16" /\ size < MaxRep16
                   \/ s.tag = "REP32" /\ size < MaxRep32
                   \/ s.tag = "REP_OUT_OF_LINE"
           r == [At(n) EXCEPT !.s.words[d] = size]
           m == IF fits THEN r ELSE Rebuilt(At(n), E)
<1>1. /\ s.life = "live" /\ ~unknown_rank(s) /\ call' = <<"set", n, d, size>>
      /\ Put(n, RecomputeNumElements(m))
      /\ d \in 1..s.ndims /\ size >= 0
  BY DEF SetDim, Known, Live, Calls
<1>2. size \in Nat /\ size \in SizesOf(s.partial) /\ s.partial \in BOOLEAN
  BY <1>1, InputsAssumption DEF SizesOf, Least, Inv, Bytes
<1>3. Holds(s, D) /\ D \in Seq(SizesOf(s.partial)) /\ Len(D) = s.ndims
      /\ Becomes(At(n), s.partial, Others(n), D)
  BY <1>1, KnownHolds DEF Allows
<1>4. Intent!Edited("set", n, d, size) = E
  BY <1>1, DimsAre DEF Intent!Edited
<1>5. At(n) \in Machines /\ At(n).s = s /\ Owns(At(n), Others(n))
  BY AtOwns
<1>6. E \in Seq(SizesOf(s.partial))
  <2> HIDE DEF D
  <2> QED
    BY <1>1, <1>2, <1>3, ExceptSeq
<1>7. CASE fits
  <2> DEFINE a == At(n)
             w == [a.s.words EXCEPT ![d] = size]
             q == [a EXCEPT !.s.words = w]
  <2>1. r = q /\ w = [s.words EXCEPT ![d] = size]
    BY <1>5
  <2>2. w \in Seq(Int)
    <3>1. s.words \in Seq(Int) /\ d \in 1..Len(s.words) /\ size \in Int
      BY <1>1, <1>2, <1>3 DEF Holds, Represents, Inv, Bytes
    <3> HIDE DEF w
    <3> QED
      BY <2>1, <3>1, ExceptSeq
  <2>3. a \in Machines /\ a.s = s
    BY <1>5
  <2> HIDE DEF a, w
  <2>4. /\ q \in Machines /\ q.h = a.h /\ q.s.words = w
        /\ q.s.life = a.s.life /\ q.s.partial = a.s.partial
        /\ q.s.tag = a.s.tag /\ q.s.ndims = a.s.ndims /\ q.s.vec = a.s.vec
    BY <2>2, <2>3 DEF Machines, Bytes
  <2> HIDE DEF q
  <2>5. Owns(q, Others(n))
    BY <1>5, <2>4 DEF Owns, a
  <2>6. Represents(q.s, E)
    <3>1. s \in Bytes /\ q.s \in Bytes /\ Represents(s, D)
      BY <1>3, <2>4 DEF Holds, Machines, Inv
    <3>2. (s.tag = "REP16" => size < MaxRep16)
          /\ (s.tag = "REP32" => size < MaxRep32)
      BY <1>7
    <3> HIDE DEF D, fits
    <3> QED
      BY <1>1, <1>2, <1>3, <2>1, <2>3, <2>4, <3>1, <3>2, SetRepresents
  <2> HIDE DEF E
  <2>7. Becomes(RecomputeNumElements(q), s.partial, Others(n), E)
    BY <1>1, <2>3, <2>4, <2>5, <2>6, RecomputeBecomes
  <2>8. m = q
    BY <1>7, <2>1
  <2> HIDE DEF m
  <2> QED
    BY <1>1, <1>4, <1>6, <2>7, <2>8, EditStep DEF EditCalls
<1>8. CASE ~fits
  <2> HIDE DEF E
  <2>1. Becomes(Rebuilt(At(n), E), s.partial, Others(n), E)
    BY <1>1, <1>6, RebuiltBecomes
  <2>2. Becomes(RecomputeNumElements(Rebuilt(At(n), E)), s.partial,
                Others(n), E)
    BY <1>2, <1>6, <2>1, RecomputeAgain
  <2>3. m = Rebuilt(At(n), E)
    BY <1>8
  <2> HIDE DEF m
  <2> QED
    BY <1>1, <1>4, <1>6, <2>2, <2>3, EditStep DEF EditCalls
<1> QED
  BY <1>7, <1>8

LEMMA RemoveDimRangeStep ==
  ASSUME Inv, NEW n \in Names, NEW begin \in Int, NEW end \in Int,
         RemoveDimRange(n, begin, end)
  PROVE  Inv' /\ Intent!Next
<1> DEFINE s == shape[n]
           D == dim_sizes(s)
           Pos(i) == IF i < 0 THEN s.ndims + i + 1 ELSE i
           b == Pos(begin)
           e == Pos(end)
           E == SubSeq(D, 1, b) \o SubSeq(D, e + 1, s.ndims)
<1>1. /\ s.life = "live" /\ ~unknown_rank(s)
      /\ call' = <<"remove", n, begin, end>>
      /\ {b, e} \subseteq 0..s.ndims
      /\ Put(n, IF b >= e THEN At(n)
                ELSE RecomputeNumElements(Rebuilt(At(n), E)))
  BY DEF RemoveDimRange, Known, Live, Calls
<1>2. D \in Seq(SizesOf(s.partial)) /\ Len(D) = s.ndims /\ s.ndims \in Nat
      /\ Becomes(At(n), s.partial, Others(n), D) /\ s.partial \in BOOLEAN
  BY <1>1, KnownHolds, LenProperties DEF Allows, Inv, Bytes
<1>3. Intent!Edited("remove", n, begin, end) = IF b >= e THEN D ELSE E
  <2>1. Intent!Dims(n) = D
    BY <1>1, DimsAre
  <2>2. Intent!Edited("remove", n, begin, end) = Intent!Removed(D, begin, end)
    BY <2>1 DEF Intent!Edited
  <2> HIDE DEF D
  <2> QED
    BY <1>2, <2>2 DEF Intent!Removed
<1>4. b \in 0..s.ndims /\ e \in 0..s.ndims
  BY <1>1
<1> HIDE DEF b, e
<1>5. CASE b >= e
  <2> HIDE DEF D, E
  <2>1. Put(n, At(n)) /\ Intent!Edited("remove", n, begin, end) = D
    BY <1>1, <1>3, <1>5
  <2> QED
    BY <1>1, <1>2, <2>1, EditStep DEF EditCalls
<1>6. CASE ~(b >= e)
  <2>1. E \in Seq(SizesOf(s.partial))
    <3> HIDE DEF D
    <3>1. SubSeq(D, 1, b) \in Seq(SizesOf(s.partial))
      BY <1>2, <1>4, PartIs
    <3>2. SubSeq(D, e + 1, s.ndims) \in Seq(SizesOf(s.partial))
      BY <1>2, <1>4, PartIs
    <3> QED
      BY <3>1, <3>2, ConcatProperties
  <2> HIDE DEF E
  <2>2. Becomes(Rebuilt(At(n), E), s.partial, Others(n), E)
    BY <1>1, <2>1, RebuiltBecomes
  <2>3. Becomes(RecomputeNumElements(Rebuilt(At(n), E)), s.partial,
                Others(n), E)
    BY <1>2, <2>1, <2>2, RecomputeAgain
  <2>4. Put(n, RecomputeNumElements(Rebuilt(At(n), E)))
        /\ Intent!Edited("remove", n, begin, end) = E
    BY <1>1, <1>3, <1>6
  <2> QED
    BY <1>1, <2>1, <2>3, <2>4, EditStep DEF EditCalls
<1> QED
  BY <1>5, <1>6

(* Merging lists of sizes. *)
LEMMA MergedIs ==
  ASSUME NEW sizes \in Seq(SizesOf(TRUE)), NEW list \in Seq(SizesOf(TRUE)),
         Len(list) = Len(sizes)
  PROVE  /\ Merged(sizes, list) = Intent!Merged(sizes, list)
         /\ Merged(sizes, list) \in Seq(SizesOf(TRUE))
<1> DEFINE L == Len(list)
           Agree(d) == sizes[d] < 0 \/ list[d] < 0 \/ sizes[d] = list[d]
           Upto(k) == (\A d \in 1..k : Agree(d)) /\ (k < L => ~Agree(k + 1))
           c == CHOOSE k \in 0..L : Upto(k)
           Clash(d) == sizes[d] # -1 /\ list[d] # -1 /\ sizes[d] # list[d]
           K == Len(sizes)
           Till(k) == (\A d \in 1..k : ~Clash(d)) /\ (k < K => Clash(k + 1))
           e == CHOOSE k \in 0..K : Till(k)
           T == {d \in 1..L : ~Agree(d)}
<1>1. L \in Nat /\ K = L
  BY LenProperties
<1>2. \A d \in 1..L : /\ sizes[d] \in SizesOf(TRUE) /\ list[d] \in SizesOf(TRUE)
                      /\ sizes[d] \in Int /\ sizes[d] >= -1
                      /\ list[d] \in Int /\ list[d] >= -1
  BY <1>1, ElementOfSeq, SizesType
<1>3. Merged(sizes, list)
        = [d \in 1..c |-> IF sizes[d] >= 0 THEN sizes[d] ELSE list[d]]
  BY DEF Merged
<1>4. Intent!Merged(sizes, list)
        = [d \in 1..e |-> IF sizes[d] # -1 THEN sizes[d] ELSE list[d]]
  BY DEF Intent!Merged
<1> HIDE DEF L, K
<1>5. ASSUME NEW d \in 1..L PROVE Agree(d) <=> ~Clash(d)
  <2>1. /\ sizes[d] \in Int /\ sizes[d] >= -1
        /\ list[d] \in Int /\ list[d] >= -1
    BY <1>2
  <2> QED
    BY <2>1
<1> HIDE DEF Agree, Clash
<1>6. \E k \in 0..L : Upto(k)
  <2>1. CASE T = {}
    <3>1. L \in 0..L /\ ~(L < L) /\ \A d \in 1..L : Agree(d)
      BY <1>1, <2>1
    <3> QED
      BY <3>1
  <2>2. CASE T # {}
    <3>1. T \in SUBSET Nat
      BY <1>1
    <3>2. PICK x \in T : \A y \in T : x <= y
      <4> HIDE DEF T
      <4> QED
        BY <2>2, <3>1, LeastNumber
    <3>3. x - 1 \in 0..L /\ x \in 1..L /\ (x - 1) + 1 = x /\ ~Agree(x)
      BY <1>1, <3>2
    <3>4. ASSUME NEW d \in 1..(x - 1) PROVE Agree(d)
      <4>1. d \in 1..L /\ ~(x <= d)
        BY <1>1, <3>3
      <4> QED
        BY <3>2, <4>1
    <3> HIDE DEF T
    <3> QED
      BY <3>3, <3>4
  <2> QED
    BY <2>1, <2>2
<1>7. c \in 0..L /\ Upto(c)
  <2> HIDE DEF Upto
  <2> QED
    BY <1>6
<1>8. \A k \in 0..L : Upto(k) <=> Till(k)
  <2> SUFFICES ASSUME NEW k \in 0..L PROVE Upto(k) <=> Till(k)
    OBVIOUS
  <2>1. \A d \in 1..k : d \in 1..L
    BY <1>1
  <2>2. k < L => k + 1 \in 1..L
    BY <1>1
  <2> QED
    BY <1>1, <1>5, <2>1, <2>2
<1>9. e \in 0..L /\ Upto(e)
  <2>1. \E k \in 0..K : Till(k)
    BY <1>1, <1>7, <1>8
  <2>2. e \in 0..K /\ Till(e)
    <3> HIDE DEF Till
    <3> QED
      BY <2>1
  <2> HIDE DEF e, Till, Upto
  <2> QED
    BY <1>1, <1>8, <2>2
<1> HIDE DEF c, e
<1>10. ASSUME NEW i \in 0..L, NEW j \in 0..L, Upto(i), Upto(j), i < j
       PROVE  FALSE
  <2>1. i < L /\ i + 1 \in 1..j
    BY <1>1, <1>10
  <2> QED
    BY <1>10, <2>1
<1>11. e = c
  <2> HIDE DEF Upto
  <2>1. ~(e < c) /\ ~(c < e)
    BY <1>7, <1>9, <1>10
  <2> QED
    BY <1>1, <1>7, <1>9, <2>1
<1>12. \A d \in 1..c : d \in 1..L
  BY <1>1, <1>7
<1>13. ASSUME NEW d \in 1..c
       PROVE  (IF sizes[d] >= 0 THEN sizes[d] ELSE list[d])
                = IF sizes[d] # -1 THEN sizes[d] ELSE list[d]
  <2>1. sizes[d] \in Int /\ sizes[d] >= -1
    BY <1>2, <1>12
  <2> QED
    BY <2>1
<1>14. Merged(sizes, list) = Intent!Merged(sizes, list)
  BY <1>3, <1>4, <1>11, <1>13
<1>15. Merged(sizes, list) \in Seq(SizesOf(TRUE))
  <2> DEFINE E == Merged(sizes, list)
  <2>1. \A d \in 1..c : (IF sizes[d] >= 0 THEN sizes[d] ELSE list[d])
                        \in SizesOf(TRUE)
    BY <1>2, <1>12
  <2>2. E \in [1..c -> SizesOf(TRUE)]
    BY <1>3, <2>1
  <2>3. c \in Nat
    BY <1>1, <1>7
  <2> HIDE DEF E
  <2>4. E \in Seq(SizesOf(TRUE))
    BY <2>2, <2>3, SeqDef
  <2> QED
    BY <2>4 DEF E
<1> QED
  BY <1>14, <1>15

LEMMA MergeWithStep ==
  ASSUME Inv, NEW n \in Names, NEW o \in Names, NEW list \in Lists,
         MergeWith(n, o, list)
  PROVE  Inv' /\ Intent!Next
<1> DEFINE D == dim_sizes(shape[o])
           E == Merged(D, list)
<1>1. /\ shape[o].life = "live" /\ ~unknown_rank(shape[o]) /\ shape[o].partial
      /\ shape[n].life = "live" /\ shape[n].partial
      /\ IsValidShape(TRUE, list) /\ Len(list) = shape[o].ndims
      /\ call' = <<"merge", n, o, list>>
      /\ Put(n, AddDims(Cleared(At(n)), E))
  BY DEF MergeWith, Known, Live, Calls
<1>2. shape[n].partial = TRUE /\ shape[o].partial = TRUE
  BY <1>1 DEF Inv, Bytes
<1>3. D \in Seq(SizesOf(TRUE)) /\ Len(D) = shape[o].ndims
  BY <1>1, <1>2, KnownHolds DEF Allows
<1>4. list \in Seq(SizesOf(TRUE)) /\ Len(list) = Len(D)
  BY <1>1, <1>3, InputsAssumption, ValidIs DEF Allows
<1>5. E = Intent!Merged(D, list) /\ E \in Seq(SizesOf(TRUE))
  <2> HIDE DEF D
  <2> QED
    BY <1>3, <1>4, MergedIs
<1>6. Intent!Edited("merge", n, o, list) = E
  <2>1. Intent!Dims(o) = D
    BY <1>1, DimsAre
  <2> QED
    BY <1>5, <2>1 DEF Intent!Edited
<1> HIDE DEF E
<1>7. Becomes(Rebuilt(At(n), E), shape[n].partial, Others(n), E)
  BY <1>1, <1>2, <1>5, RebuiltBecomes
<1>8. E \in Seq(SizesOf(shape[n].partial))
  BY <1>2, <1>5
<1> QED
  BY <1>1, <1>6, <1>7, <1>8, EditStep DEF EditCalls, Rebuilt

-----------------------------------------------------------------------------
(* The theorems.                                                           *)

LEMMA InitInv == Init => Inv
<1> SUFFICES ASSUME Init PROVE Inv
  OBVIOUS
<1>1. shape = [n \in Names |-> Absent] /\ heap = {} /\ crashed = FALSE
  BY DEF Init
<1>2. Settled(Absent) /\ Absent \in Bytes /\ Absent.tag = "REP16"
  BY AbsentSettled DEF Settled, Absent
<1>3. {n \in Names : shape[n].tag = "REP_OUT_OF_LINE"} = {}
  BY <1>1, <1>2
<1>4. OneOwner
  BY <1>1, <1>3 DEF OneOwner
<1> QED
  BY <1>1, <1>2, <1>4 DEF Inv

(* Every call keeps the invariant and is one of DimensionLists.            *)
LEMMA NextStep ==
  ASSUME Inv, Next
  PROVE  Inv' /\ Intent!Next
<1>1. PICK n \in Names :
        \/ ForDataType(n) \/ Destroy(n) \/ Clear(n)
        \/ \E partial \in BOOLEAN :
             \/ Default(n, partial)
             \/ \E list \in Lists : \/ FromList(n, partial, list)
                                  \/ FromSizes(n, partial, list)
             \/ \E m \in Names : CopyConstruct(n, m, partial)
        \/ \E m \in Names : \/ Assign(n, m) \/ Move(n, m) \/ AppendShape(n, m)
                            \/ \E list \in Lists : MergeWith(n, m, list)
        \/ \E list \in Lists : MakeShape(n, list)
        \/ \E size \in Sizes :
             \/ Extend(n, size)
             \/ \E d \in 0..MaxDimensions : InsertDim(n, d, size)
                                            \/ SetDim(n, d, size)
        \/ \E begin \in 0..MaxDimensions, end \in -(MaxDimensions + 1)..-1 :
             RemoveDimRange(n, begin, end)
  BY DEF Next
<1>2. CASE ForDataType(n)
  BY <1>2, ForDataTypeStep
<1>3. CASE Destroy(n)
  BY <1>3, DestroyStep
<1>4. CASE Clear(n)
  BY <1>4, ClearStep
<1>5. ASSUME NEW partial \in BOOLEAN, Default(n, partial)
      PROVE  Inv' /\ Intent!Next
  BY <1>5, DefaultStep
<1>6. ASSUME NEW partial \in BOOLEAN, NEW list \in Lists,
             FromList(n, partial, list) \/ FromSizes(n, partial, list)
      PROVE  Inv' /\ Intent!Next
  BY <1>6, FromListStep, FromSizesStep
<1>7. ASSUME NEW partial \in BOOLEAN, NEW m \in Names,
             CopyConstruct(n, m, partial)
      PROVE  Inv' /\ Intent!Next
  BY <1>7, CopyConstructStep
<1>8. ASSUME NEW m \in Names, Assign(n, m) \/ Move(n, m) \/ AppendShape(n, m)
      PROVE  Inv' /\ Intent!Next
  BY <1>8, AssignStep, MoveStep, AppendShapeStep
<1>9. ASSUME NEW m \in Names, NEW list \in Lists, MergeWith(n, m, list)
      PROVE  Inv' /\ Intent!Next
  BY <1>9, MergeWithStep
<1>10. ASSUME NEW list \in Lists, MakeShape(n, list)
       PROVE  Inv' /\ Intent!Next
  BY <1>10, MakeShapeStep
<1>11. ASSUME NEW size \in Sizes, Extend(n, size)
       PROVE  Inv' /\ Intent!Next
  BY <1>11, ExtendStep
<1>12. ASSUME NEW size \in Sizes, NEW d \in 0..MaxDimensions,
              InsertDim(n, d, size) \/ SetDim(n, d, size)
       PROVE  Inv' /\ Intent!Next
  BY <1>12, InsertDimStep, SetDimStep
<1>13. ASSUME NEW begin \in 0..MaxDimensions,
              NEW end \in -(MaxDimensions + 1)..-1,
              RemoveDimRange(n, begin, end)
       PROVE  Inv' /\ Intent!Next
  <2>1. begin \in Int /\ end \in Int
    BY WidthsAssumption
  <2> QED
    BY <1>13, <2>1, RemoveDimRangeStep
<1> QED
  BY <1>1, <1>2, <1>3, <1>4, <1>5, <1>6, <1>7, <1>8, <1>9, <1>10, <1>11,
     <1>12, <1>13

LEMMA StutterInv ==
  ASSUME Inv, UNCHANGED vars
  PROVE  Inv' /\ UNCHANGED Intent!vars
<1>1. shape' = shape /\ heap' = heap /\ crashed' = crashed /\ call' = call
  BY DEF vars
<1>2. OneOwner'
  BY <1>1 DEF Inv, OneOwner, Live
<1>3. Inv'
  BY <1>1, <1>2 DEF Inv, Settled
<1>4. Values' = Values
  BY <1>1, ValuesAre
<1> QED
  BY <1>1, <1>3, <1>4 DEF Intent!vars, Values

(* In every state each shape that is in use has no rank or holds its       *)
(* sizes, in words that tell every size from an unknown one, with their    *)
(* number of elements; whatever the widths, the shapes and the calls       *)
(* (util/tensor_shape.cc).                                                 *)
THEOREM AlwaysSettled == Spec => []Inv
<1>1. Init => Inv
  BY InitInv
<1>2. Inv /\ [Next]_vars => Inv'
  BY NextStep, StutterInv
<1> QED
  BY <1>1, <1>2, PTL DEF Spec

(* No vector on the heap is leaked or owned twice: copies get their own,   *)
(* moves leave the source without it, and clearing and destroying free it  *)
(* (SlowCopyFrom, the move operations, ClearAllButDataType).               *)
THEOREM VectorsHaveOneOwner == Spec => []OneOwner
<1>1. Inv => OneOwner
  BY DEF Inv
<1> QED
  BY <1>1, AlwaysSettled, PTL

(* The number of elements is the product of the sizes, and -1 exactly if   *)
(* one of them or the rank is unknown, after every edit; the fast path of  *)
(* InitDims, which does not look for an overflow, included.                *)
THEOREM ElementsAlwaysCounted == Spec => []ElementsCounted
<1>1. Inv => ElementsCounted
  <2> SUFFICES ASSUME Inv, NEW n \in Names, shape[n].life = "live"
               PROVE  shape[n].num_elements
                        = IF \/ unknown_rank(shape[n])
                             \/ \E d \in 1..Len(dim_sizes(shape[n])) :
                                  dim_sizes(shape[n])[d] = -1
                            THEN -1 ELSE Product(dim_sizes(shape[n]))
    BY DEF ElementsCounted, Live
  <2>1. CASE unknown_rank(shape[n])
    BY <2>1, KnownHolds DEF Unranked
  <2>2. CASE ~unknown_rank(shape[n])
    <3> DEFINE D == dim_sizes(shape[n])
    <3>1. Holds(shape[n], D)
      BY <2>2, KnownHolds
    <3> HIDE DEF D
    <3>2. shape[n].num_elements = IF AllKnown(D) THEN Product(D) ELSE -1
      BY <3>1 DEF Holds, CountOf
    <3>3. AllKnown(D) <=> ~\E d \in 1..Len(D) : D[d] = -1
      BY DEF AllKnown
    <3> QED
      BY <2>2, <3>2, <3>3 DEF D
  <2> QED
    BY <2>1, <2>2
<1> QED
  BY <1>1, AlwaysSettled, PTL

(* Shapes behave like lists of sizes (DimensionLists): the representation, *)
(* what it shares and when it gives way to another are never seen, a copy  *)
(* or a move has the value of its source, and a call ends the process      *)
(* exactly if its result is no shape.                                      *)
THEOREM RefinesLists == Spec => ImplementsLists
<1>1. Init => Intent!Init
  <2> SUFFICES ASSUME Init PROVE Intent!Init
    OBVIOUS
  <2>1. shape = [n \in Names |-> Absent] /\ crashed = FALSE /\ call = <<"none">>
    BY DEF Init
  <2>2. Values = [n \in Names |-> Intent!Absent]
    BY <2>1, ValuesAre, AbsentValue
  <2> QED
    BY <2>1, <2>2 DEF Intent!Init, Values
<1>2. Inv /\ [Next]_vars => [Intent!Next]_Intent!vars
  BY NextStep, StutterInv
<1> QED
  BY <1>1, <1>2, AlwaysSettled, PTL DEF Spec, Intent!Spec, ImplementsLists
=============================================================================
