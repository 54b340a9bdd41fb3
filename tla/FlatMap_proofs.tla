--------------------------- MODULE FlatMap_proofs ---------------------------
(***************************************************************************)
(* Proofs about FlatMap, for any keys, any hashes, any width of a bucket   *)
(* and any number of calls: searches end, because the probes reach every   *)
(* slot and one of them is always empty; every key is found where its      *)
(* entry is; and the table is a map.                                       *)
(***************************************************************************)
EXTENDS FlatMap, FiniteSetTheorems, SequenceTheorems, WellFoundedInduction,
        TLAPS

-----------------------------------------------------------------------------
(* Loops.                                                                  *)

(* A set of natural numbers that is not empty has a least one. *)
LEMMA LeastNumber ==
  ASSUME NEW T \in SUBSET Nat, T # {}
  PROVE  \E x \in T : \A y \in T : x <= y
<1>1. PICK x \in T : \A y \in T : ~(<<y, x>> \in OpToRel(<, Nat))
  BY NatLessThanWellFounded, WFMin
<1>2. \A y \in T : ~(y < x)
  BY <1>1 DEF OpToRel
<1> QED
  BY <1>2

(* What holds before a loop and is kept by each step holds throughout. *)
LEMMA Throughout ==
  ASSUME NEW L \in Nat, NEW P \in SUBSET (0..L), 0 \in P,
         \A d \in 1..L : d - 1 \in P => d \in P
  PROVE  P = 0..L
<1> DEFINE T == (0..L) \ P
<1> SUFFICES ASSUME T # {} PROVE FALSE
  OBVIOUS
<1>1. PICK x \in T : \A y \in T : x <= y
  <2>1. T \in SUBSET Nat
    OBVIOUS
  <2> HIDE DEF T
  <2> QED
    BY <2>1, LeastNumber
<1>2. x \in 1..L /\ x - 1 \in 0..L
  BY <1>1
<1>3. x - 1 \in P
  BY <1>1, <1>2
<1> QED
  BY <1>1, <1>2, <1>3

(* The steps of a loop of length L over values of S, and what such a loop  *)
(* may pass through from a on.                                             *)
Steps(L, S) == [1..L -> [S -> S]]
Runs(F, a, L, S) ==
  {g \in [0..L -> S] : g[0] = a /\ \A d \in 1..L : g[d] = F[d][g[d - 1]]}

(* A loop can be run. *)
LEMMA Iterates ==
  ASSUME NEW L \in Nat, NEW S, NEW a \in S, NEW F \in Steps(L, S)
  PROVE  Runs(F, a, L, S) # {}
<1> DEFINE Loop(g, k) == g[0] = a /\ \A d \in 1..k : g[d] = F[d][g[d - 1]]
           P == {k \in 0..L : \E g \in [0..k -> S] : Loop(g, k)}
<1>0. F \in [1..L -> [S -> S]]
  BY DEF Steps
<1>1. 0 \in P
  <2> DEFINE g == [d \in 0..0 |-> a]
  <2>1. g \in [0..0 -> S] /\ Loop(g, 0)
    OBVIOUS
  <2> HIDE DEF g, Loop
  <2> QED
    BY <2>1
<1>2. ASSUME NEW k \in 1..L, k - 1 \in P PROVE k \in P
  <2>1. PICK g \in [0..(k - 1) -> S] : Loop(g, k - 1)
    BY <1>2
  <2> DEFINE v == F[k][g[k - 1]]
             h == [d \in 0..k |-> IF d = k THEN v ELSE g[d]]
  <2>2. v \in S
    BY <2>1, <1>0
  <2> HIDE DEF v
  <2>3. h \in [0..k -> S]
    BY <2>1, <2>2
  <2>4. \A d \in 0..(k - 1) : h[d] = g[d]
    OBVIOUS
  <2>5. h[k] = v
    OBVIOUS
  <2> HIDE DEF h
  <2>6. h[0] = a
    BY <2>1, <2>4
  <2>7. ASSUME NEW d \in 1..k PROVE h[d] = F[d][h[d - 1]]
    <3>1. CASE d = k
      BY <2>4, <2>5, <3>1 DEF v
    <3>2. CASE d # k
      <4>1. d \in 1..(k - 1) /\ d \in 0..(k - 1) /\ d - 1 \in 0..(k - 1)
        BY <3>2
      <4> QED
        BY <4>1, <2>1, <2>4
    <3> QED
      BY <3>1, <3>2
  <2>8. \E f \in [0..k -> S] : Loop(f, k)
    BY <2>3, <2>6, <2>7
  <2> HIDE DEF Loop
  <2> QED
    BY <2>8
<1>3. P = 0..L
  <2> HIDE DEF P
  <2>1. P \in SUBSET (0..L)
    BY DEF P
  <2> QED
    BY <1>1, <1>2, <2>1, Throughout
<1>4. \E g \in [0..L -> S] : Loop(g, L)
  BY <1>3
<1> QED
  BY <1>4 DEF Runs

-----------------------------------------------------------------------------
(* Powers of two.                                                          *)

LEMMA ShiftIs ==
  ASSUME NEW n \in Nat
  PROVE  /\ Shift(n) \in Nat \ {0}
         /\ Shift(0) = 1
         /\ Shift(n + 1) = 2 * Shift(n)
<1> DEFINE Loop(L, g) == g = [i \in 0..L |-> IF i = 0 THEN 1 ELSE 2 * g[i - 1]]
           f(L) == CHOOSE g : Loop(L, g)
<1>1. ASSUME NEW L \in Nat
      PROVE  /\ f(L) \in [0..L -> Nat \ {0}] /\ f(L)[0] = 1
             /\ \A i \in 1..L : f(L)[i] = 2 * f(L)[i - 1]
  <2> DEFINE F == [d \in 1..L |-> [x \in Nat \ {0} |-> 2 * x]]
  <2>1. PICK g \in [0..L -> Nat \ {0}] :
          g[0] = 1 /\ \A d \in 1..L : g[d] = F[d][g[d - 1]]
    <3>1. F \in Steps(L, Nat \ {0})
      BY DEF Steps
    <3> HIDE DEF F
    <3>2. ASSUME NEW a \in Nat \ {0} PROVE Runs(F, a, L, Nat \ {0}) # {}
      BY <3>1, Iterates
    <3>3. PICK a \in Nat \ {0} : a = 1
      OBVIOUS
    <3>4. PICK g \in Runs(F, a, L, Nat \ {0}) : TRUE
      BY <3>2
    <3> QED
      BY <3>3, <3>4 DEF Runs
  <2>2. Loop(L, g)
    <3>1. ASSUME NEW d \in 1..L PROVE g[d] = 2 * g[d - 1]
      <4>1. g[d - 1] \in Nat \ {0}
        OBVIOUS
      <4> QED
        BY <2>1, <4>1
    <3> HIDE DEF F
    <3> QED
      BY <2>1, <3>1
  <2>3. Loop(L, f(L))
    <3> HIDE DEF Loop
    <3> QED
      BY <2>2
  <2> HIDE DEF f
  <2>4. ASSUME NEW i \in 1..L PROVE f(L)[i] = 2 * f(L)[i - 1]
    <3>1. i \in 0..L /\ i # 0
      OBVIOUS
    <3> QED
      BY <2>3, <3>1
  <2>5. f(L)[0] = 1 /\ f(L) = [i \in 0..L |-> f(L)[i]]
    BY <2>3
  <2> DEFINE P == {i \in 0..L : f(L)[i] \in Nat \ {0}}
  <2>6. P = 0..L
    <3>1. 0 \in P
      BY <2>5
    <3>2. ASSUME NEW d \in 1..L, d - 1 \in P PROVE d \in P
      BY <2>4, <3>2
    <3>3. P \in SUBSET (0..L)
      OBVIOUS
    <3> HIDE DEF P
    <3> QED
      BY <3>1, <3>2, <3>3, Throughout
  <2>7. \A i \in 0..L : f(L)[i] \in Nat \ {0}
    BY <2>6
  <2>8. f(L) \in [0..L -> Nat \ {0}]
    BY <2>5, <2>7
  <2> QED
    BY <2>4, <2>5, <2>8
<1>2. \A L : Shift(L) = f(L)[L]
  BY DEF Shift
<1> HIDE DEF f
<1> DEFINE P == {i \in 0..n : f(n + 1)[i] = f(n)[i]}
<1>3. P = 0..n
  <2>0. n + 1 \in Nat
    OBVIOUS
  <2>1. 0 \in P
    <3>1. f(n + 1)[0] = 1 /\ f(n)[0] = 1
      BY <1>1, <2>0
    <3> QED
      BY <3>1
  <2>2. ASSUME NEW d \in 1..n, d - 1 \in P PROVE d \in P
    <3>1. d \in 1..(n + 1) /\ n + 1 \in Nat
      OBVIOUS
    <3>2. f(n + 1)[d] = 2 * f(n + 1)[d - 1] /\ f(n)[d] = 2 * f(n)[d - 1]
      BY <1>1, <3>1
    <3> QED
      BY <2>2, <3>2
  <2>3. P \in SUBSET (0..n)
    OBVIOUS
  <2> HIDE DEF P
  <2> QED
    BY <2>1, <2>2, <2>3, Throughout
<1>4. n + 1 \in Nat /\ n + 1 \in 1..(n + 1) /\ n \in 0..n /\ (n + 1) - 1 = n
  OBVIOUS
<1>5. f(n + 1)[n + 1] = 2 * f(n + 1)[n]
  BY <1>1, <1>4
<1>6. f(n + 1)[n] = f(n)[n]
  BY <1>3, <1>4
<1> QED
  BY <1>1, <1>2, <1>4, <1>5, <1>6

(* An odd factor of a multiple of a power of two leaves the power to the   *)
(* other factor.                                                           *)
LEMMA OddFactor ==
  ASSUME NEW n \in Nat, NEW x \in Int, x % 2 = 1, NEW y \in Int, NEW q \in Int,
         x * y = Shift(n) * q
  PROVE  \E r \in Int : y = Shift(n) * r
<1> DEFINE P == {k \in 0..n : \A z, p \in Int :
                    x * z = Shift(k) * p => \E r \in Int : z = Shift(k) * r}
<1>1. 0 \in P
  <2>1. Shift(0) = 1
    BY ShiftIs
  <2> QED
    BY <2>1
<1>2. ASSUME NEW k \in 1..n, k - 1 \in P PROVE k \in P
  <2> DEFINE s == Shift(k - 1)
  <2>1. s \in Int /\ Shift(k) = 2 * s
    <3>1. k - 1 \in Nat /\ (k - 1) + 1 = k
      OBVIOUS
    <3> QED
      BY <3>1, ShiftIs
  <2>2. ASSUME NEW z \in Int, NEW p \in Int, x * z = Shift(k) * p
        PROVE  \E r \in Int : z = Shift(k) * r
    <3> DEFINE u == x \div 2
               w == s * p - u * z
    <3>1. u \in Int /\ x = 2 * u + 1
      OBVIOUS
    <3> HIDE DEF s, u
    <3>2. s * p \in Int /\ u * z \in Int /\ w \in Int
      BY <2>1, <3>1
    <3>3. z = 2 * w
      <4>1. x * z = 2 * (u * z) + z
        BY <3>1
      <4>2. Shift(k) * p = 2 * (s * p)
        BY <2>1
      <4> QED
        BY <2>2, <3>2, <4>1, <4>2
    <3> HIDE DEF w
    <3>4. x * w = s * p
      <4>1. x * z = 2 * (x * w)
        BY <3>2, <3>3
      <4>2. Shift(k) * p = 2 * (s * p)
        BY <2>1
      <4>3. x * w \in Int
        BY <3>2
      <4> QED
        BY <2>2, <3>2, <4>1, <4>2, <4>3
    <3>5. PICK r \in Int : w = s * r
      BY <1>2, <3>2, <3>4 DEF s
    <3>6. z = Shift(k) * r
      BY <2>1, <3>3, <3>5
    <3> QED
      BY <3>6
  <2> QED
    BY <2>2
<1>3. P = 0..n
  <2>1. P \in SUBSET (0..n)
    OBVIOUS
  <2> HIDE DEF P
  <2> QED
    BY <1>1, <1>2, <2>1, Throughout
<1> QED
  BY <1>3

(* No multiple of a number lies between zero and the number. *)
LEMMA NoMultiple ==
  ASSUME NEW s \in Nat, NEW r \in Int, NEW z \in Int, 0 < z, z < s
  PROVE  z # s * r
<1> SUFFICES ASSUME z = s * r PROVE FALSE
  OBVIOUS
<1>1. CASE r <= 0
  <2>1. s * r <= 0
    BY <1>1
  <2> QED
    BY <2>1
<1>2. CASE r >= 1
  <2>1. s * r >= s
    BY <1>2
  <2> QED
    BY <2>1
<1> QED
  BY <1>1, <1>2

(* What equal remainders differ by. *)
LEMMA SameRemainder ==
  ASSUME NEW c \in Nat \ {0}, NEW u \in Nat, NEW v \in Nat, u % c = v % c
  PROVE  \E q \in Int : v - u = c * q
<1>1. u = c * (u \div c) + (u % c) /\ v = c * (v \div c) + (v % c)
      /\ u \div c \in Int /\ v \div c \in Int /\ u % c \in Int
  OBVIOUS
<1> DEFINE q == (v \div c) - (u \div c)
<1>2. v - u = c * q
  BY <1>1
<1>3. q \in Int
  BY <1>1
<1> QED
  BY <1>2, <1>3

-----------------------------------------------------------------------------
(* Probing.                                                                *)

(* How far the n-th probe is from the first. *)
Distance(n) == (n * (n + 1)) \div 2

LEMMA StepsAre ==
  ASSUME NEW n \in Nat
  PROVE  Distance(n) \in Nat /\ 2 * Distance(n) = n * (n + 1)
<1> DEFINE m == n \div 2
<1>1. m \in Nat /\ (n = 2 * m \/ n = 2 * m + 1)
  OBVIOUS
<1> HIDE DEF m
<1>2. CASE n = 2 * m
  <2>1. n * (n + 1) = 2 * (m * (n + 1)) /\ m * (n + 1) \in Nat
    BY <1>1, <1>2
  <2> QED
    BY <2>1 DEF Distance
<1>3. CASE n = 2 * m + 1
  <2>1. n * (n + 1) = 2 * (n * (m + 1)) /\ n * (m + 1) \in Nat
    BY <1>1, <1>3
  <2> QED
    BY <2>1 DEF Distance
<1> QED
  BY <1>1, <1>2, <1>3

(* A table of a power of two is probed without meeting a slot twice. *)
LEMMA ProbesDiffer ==
  ASSUME NEW n \in Nat, NEW h \in Nat,
         NEW a \in 0..(Shift(n) - 1), NEW b \in 0..(Shift(n) - 1), a < b
  PROVE  (h + Distance(a)) % Shift(n) # (h + Distance(b)) % Shift(n)
<1> DEFINE c == Shift(n)
<1> SUFFICES ASSUME (h + Distance(a)) % c = (h + Distance(b)) % c PROVE FALSE
  OBVIOUS
<1>1. c \in Nat \ {0} /\ Shift(n + 1) = 2 * c /\ n + 1 \in Nat
  BY ShiftIs
<1> HIDE DEF c
<1>2. /\ a \in Nat /\ b \in Nat /\ a < c /\ b < c
      /\ Distance(a) \in Nat /\ 2 * Distance(a) = a * (a + 1)
      /\ Distance(b) \in Nat /\ 2 * Distance(b) = b * (b + 1)
  <2>1. a \in Nat /\ b \in Nat /\ a < c /\ b < c
    BY <1>1 DEF c
  <2> QED
    BY <2>1, StepsAre
<1>3. PICK q \in Int : (h + Distance(b)) - (h + Distance(a)) = c * q
  <2>1. h + Distance(a) \in Nat /\ h + Distance(b) \in Nat
    BY <1>2
  <2> QED
    BY <1>1, <2>1, SameRemainder
<1> DEFINE x == b - a
           y == b + a + 1
<1>4. x \in Int /\ y \in Int /\ 0 < x /\ x < 2 * c /\ 0 < y /\ y < 2 * c
  BY <1>1, <1>2
<1>5. x * y = Shift(n + 1) * q
  <2>1. x * y = b * (b + 1) - a * (a + 1)
    BY <1>2
  <2>2. c * q \in Int /\ Distance(b) - Distance(a) = c * q
    BY <1>1, <1>2, <1>3
  <2>3. Shift(n + 1) * q = 2 * (c * q)
    BY <1>1
  <2>4. b * (b + 1) \in Int /\ a * (a + 1) \in Int
    BY <1>2
  <2> HIDE DEF x, y
  <2> QED
    BY <1>2, <2>1, <2>2, <2>3, <2>4
<1>6. x % 2 = 1 \/ y % 2 = 1
  <2>1. y = x + (2 * a + 1)
    BY <1>2
  <2> HIDE DEF x, y
  <2> QED
    BY <1>2, <1>4, <2>1
<1> HIDE DEF x, y
<1>0. n + 1 \in Nat
  OBVIOUS
<1>7. CASE x % 2 = 1
  <2>1. PICK r \in Int : y = Shift(n + 1) * r
    BY <1>0, <1>4, <1>5, <1>7, OddFactor, SMTT(30)
  <2> QED
    BY <1>1, <1>4, <2>1, NoMultiple
<1>8. CASE y % 2 = 1
  <2>1. y * x = Shift(n + 1) * q
    BY <1>4, <1>5
  <2>2. PICK r \in Int : x = Shift(n + 1) * r
    BY <1>0, <1>4, <2>1, <1>8, OddFactor, SMTT(30)
  <2> QED
    BY <1>1, <1>4, <2>2, NoMultiple
<1> QED
  BY <1>6, <1>7, <1>8

(* So that it meets every slot. *)
LEMMA ProbesReach ==
  ASSUME NEW n \in Nat, NEW h \in Nat, NEW i \in 0..(Shift(n) - 1)
  PROVE  \E p \in 0..(Shift(n) - 1) : (h + Distance(p)) % Shift(n) = i
<1> DEFINE c == Shift(n)
           S == 0..(c - 1)
           f == [p \in S |-> (h + Distance(p)) % c]
<1>1. c \in Nat \ {0}
  BY ShiftIs
<1>2. f \in [S -> S]
  <2> HIDE DEF c
  <2>1. ASSUME NEW p \in S PROVE (h + Distance(p)) % c \in S
    <3>1. p \in Nat
      BY <1>1
    <3>2. Distance(p) \in Nat
      BY <3>1, StepsAre
    <3>3. h + Distance(p) \in Nat
      BY <3>2
    <3> QED
      BY <1>1, <3>3
  <2> QED
    BY <2>1
<1>3. \A a, b \in S : a # b => f[a] # f[b]
  <2> SUFFICES ASSUME NEW a \in S, NEW b \in S, a < b PROVE f[a] # f[b]
    <3> HIDE DEF f
    <3> QED
      BY <1>1
  <2> QED
    BY ProbesDiffer
<1>4. IsFiniteSet(S)
  <2> HIDE DEF c
  <2> QED
    BY <1>1, FS_Interval
<1> HIDE DEF S, f
<1>5. f \in Injection(S, S)
  BY <1>2, <1>3 DEF Injection, IsInjective
<1>6. f \in Surjection(S, S)
  BY <1>4, <1>5, FS_Injection
<1>7. \E p \in S : f[p] = i
  BY <1>6 DEF Surjection, S
<1> QED
  BY <1>7 DEF S, f

(* The capacities of tables, which are such powers. *)
Capacities == {Shift(g) * kWidth : g \in Nat}

LEMMA CapacityIs ==
  ASSUME NEW c \in Capacities
  PROVE  \E n \in Nat : c = Shift(n)
<1>1. PICK g \in Nat : c = Shift(g) * kWidth
  BY DEF Capacities
<1> DEFINE P == {d \in 0..g : Shift(d) * kWidth = Shift(d + kBase)}
<1>2. kBase \in Nat /\ kWidth = Shift(kBase) /\ Shift(kBase) \in Nat
  BY SizeAssumption, ShiftIs DEF kWidth
<1>3. 0 \in P
  <2>1. Shift(0) = 1 /\ 0 + kBase = kBase
    BY <1>2, ShiftIs
  <2> QED
    BY <1>2, <2>1
<1>4. ASSUME NEW d \in 1..g, d - 1 \in P PROVE d \in P
  <2>1. /\ d - 1 \in Nat /\ (d - 1) + kBase \in Nat /\ (d - 1) + 1 = d
        /\ ((d - 1) + kBase) + 1 = d + kBase
    BY <1>2
  <2>2. /\ Shift(d) = 2 * Shift(d - 1) /\ Shift(d - 1) \in Nat
        /\ Shift(d + kBase) = 2 * Shift((d - 1) + kBase)
        /\ Shift((d - 1) + kBase) \in Nat
    BY <2>1, ShiftIs
  <2>3. Shift(d - 1) * kWidth = Shift((d - 1) + kBase)
    BY <1>4
  <2>4. Shift(d) * kWidth = 2 * (Shift(d - 1) * kWidth)
    BY <1>2, <2>2
  <2> QED
    BY <2>2, <2>3, <2>4
<1>5. P = 0..g
  <2>1. P \in SUBSET (0..g)
    OBVIOUS
  <2> HIDE DEF P
  <2> QED
    BY <1>3, <1>4, <2>1, Throughout
<1>6. g \in P /\ g + kBase \in Nat
  BY <1>2, <1>5
<1> QED
  BY <1>1, <1>6

-----------------------------------------------------------------------------
(* Tables, by their capacity c and their slots s.                          *)

Slots == [mark : Nat, key : Keys \cup {0}, val : Values \cup {0}]
SlotsOf(c) == [0..(c - 1) -> Slots]

TablesOf(c) == [slots : SlotsOf(c), not_empty : Nat, deleted : Nat,
                grow : Nat, shrink : Nat]

ProbeOf(c, k, n) == (HighBits(k) + Distance(n)) % c

Full(s, c)  == {i \in 0..(c - 1) : s[i].mark # kEmpty}
Tombs(s, c) == {i \in 0..(c - 1) : s[i].mark = kDeleted}
Taken(s, c) == {i \in 0..(c - 1) : Used(s[i])}

(* A search for the key comes to slot i before it comes to an empty one. *)
OnPath(s, c, k, i) ==
  \E n \in 0..(2 * c - 1) :
    /\ ProbeOf(c, k, n) = i
    /\ \A m \in 0..(n - 1) : s[ProbeOf(c, k, m)].mark # kEmpty

IsEntry(e) == e.key \in Keys /\ e.val \in Values /\ e.mark = Marker(e.key)

(* Every entry is on the way of a search for its key, and the only one of  *)
(* it.                                                                     *)
Placed(s, c) ==
  \A i \in Taken(s, c) : IsEntry(s[i]) /\ OnPath(s, c, s[i].key, i)

Single(s, c) ==
  \A i, j \in Taken(s, c) : s[i].key = s[j].key => i = j

(* The entries are those of the map M. *)
Maps(s, c, M) ==
  /\ M \in [DOMAIN M -> Values] /\ DOMAIN M \subseteq Keys
  /\ DOMAIN M = {s[i].key : i \in Taken(s, c)}
  /\ \A i \in Taken(s, c) : M[s[i].key] = s[i].val

Orderly(s, c, M) == Placed(s, c) /\ Single(s, c) /\ Maps(s, c, M)

(* The counts are right, and leave an empty slot. *)
Tallied(t, c) ==
  /\ t.not_empty = Cardinality(Full(t.slots, c))
  /\ t.deleted = Cardinality(Tombs(t.slots, c))
  /\ t.not_empty < c
  /\ t.grow <= (8 * c) \div 10

Good(t, c, M) ==
  /\ c \in Capacities /\ t \in TablesOf(c)
  /\ Orderly(t.slots, c, M)
  /\ Tallied(t, c)

None == [x \in {} |-> 0]
Plus(M, k, v) == [x \in DOMAIN M \cup {k} |-> IF x = k THEN v ELSE M[x]]

LEMMA CapacityType ==
  ASSUME NEW c \in Capacities
  PROVE  /\ c \in Nat \ {0}
         /\ \A h \in Nat, i \in 0..(c - 1) :
              \E p \in 0..(c - 1) : (h + Distance(p)) % c = i
         /\ IsFiniteSet(0..(c - 1)) /\ Cardinality(0..(c - 1)) = c
<1>1. PICK n \in Nat : c = Shift(n)
  BY CapacityIs
<1>2. c \in Nat \ {0}
  BY <1>1, ShiftIs
<1>3. IsFiniteSet(0..(c - 1)) /\ Cardinality(0..(c - 1)) = c
  <2>1. 0 \in Int /\ c - 1 \in Int /\ ~(0 > c - 1) /\ (c - 1) - 0 + 1 = c
    BY <1>2
  <2> QED
    BY <2>1, FS_Interval
<1> QED
  BY <1>1, <1>2, <1>3, ProbesReach

LEMMA CapacityOf ==
  ASSUME NEW c \in Capacities, NEW t \in TablesOf(c)
  PROVE  /\ Capacity(t) = c /\ DOMAIN t.slots = 0..(c - 1)
         /\ t.slots \in SlotsOf(c)
         /\ \A k, n : Probe(t, k, n) = ProbeOf(c, k, n)
<1>1. t.slots \in SlotsOf(c) /\ DOMAIN t.slots = 0..(c - 1)
  BY DEF TablesOf, SlotsOf
<1>2. Capacity(t) = c
  BY <1>1, CapacityType DEF Capacity
<1> QED
  BY <1>1, <1>2 DEF Probe, ProbeOf, Distance

LEMMA ProbeType ==
  ASSUME NEW c \in Capacities, NEW k \in Keys, NEW n \in Nat
  PROVE  ProbeOf(c, k, n) \in 0..(c - 1)
<1>1. c \in Nat \ {0}
  BY CapacityType
<1>2. Distance(n) \in Nat /\ HighBits(k) \in Nat
  BY StepsAre, HashAssumption
<1>3. HighBits(k) + Distance(n) \in Nat
  BY <1>2
<1> QED
  BY <1>1, <1>3 DEF ProbeOf

LEMMA MarkerType ==
  ASSUME NEW k \in Keys
  PROVE  Marker(k) \in Nat /\ Marker(k) >= 2
BY HashAssumption DEF Marker

LEMMA MinIs ==
  ASSUME NEW T \in SUBSET Nat, T # {}
  PROVE  Min(T) \in T /\ \A x \in T : Min(T) <= x
<1>1. \E x \in T : \A y \in T : x <= y
  BY LeastNumber
<1> QED
  BY <1>1 DEF Min

(* What is counted is finite. *)
LEMMA Counts ==
  ASSUME NEW c \in Capacities, NEW s
  PROVE  /\ IsFiniteSet(Full(s, c)) /\ Cardinality(Full(s, c)) \in Nat
         /\ IsFiniteSet(Tombs(s, c)) /\ Cardinality(Tombs(s, c)) \in Nat
         /\ IsFiniteSet(Taken(s, c)) /\ Cardinality(Taken(s, c)) \in Nat
<1>1. /\ Full(s, c) \in SUBSET (0..(c - 1))
      /\ Tombs(s, c) \in SUBSET (0..(c - 1))
      /\ Taken(s, c) \in SUBSET (0..(c - 1))
  BY DEF Full, Tombs, Taken
<1>2. IsFiniteSet(0..(c - 1))
  BY CapacityType
<1>3. IsFiniteSet(Full(s, c)) /\ IsFiniteSet(Tombs(s, c))
      /\ IsFiniteSet(Taken(s, c))
  BY <1>1, <1>2, FS_Subset
<1> QED
  BY <1>3, FS_CardinalityType

(* There is an empty slot, and every search comes to it. *)
LEMMA EmptyReached ==
  ASSUME NEW c \in Capacities, NEW s, Cardinality(Full(s, c)) < c,
         NEW k \in Keys
  PROVE  \E p \in 0..(2 * c - 1) : s[ProbeOf(c, k, p)].mark = kEmpty
<1>1. c \in Nat \ {0} /\ Cardinality(0..(c - 1)) = c
  BY CapacityType
<1>2. PICK i \in 0..(c - 1) : s[i].mark = kEmpty
  <2>1. SUFFICES ASSUME Full(s, c) = 0..(c - 1) PROVE FALSE
    BY DEF Full
  <2> QED
    BY <1>1, <2>1
<1>3. HighBits(k) \in Nat
  BY HashAssumption
<1>4. PICK p \in 0..(c - 1) : (HighBits(k) + Distance(p)) % c = i
  BY <1>3, CapacityType
<1>5. p \in 0..(2 * c - 1)
  BY <1>1
<1> QED
  BY <1>2, <1>4, <1>5 DEF ProbeOf

-----------------------------------------------------------------------------
(* Searches.                                                               *)

(* A search ends, at the first probe that may stop it. *)
LEMMA SearchEnds ==
  ASSUME NEW t, NEW c, NEW M, Good(t, c, M), NEW k \in Keys
  PROVE  /\ Stops(t, k) # {}
         /\ LastProbe(t, k) \in Stops(t, k)
         /\ \A p \in Stops(t, k) : LastProbe(t, k) <= p
         /\ Stops(t, k) =
              {n \in 0..(2 * c - 1) :
                 \/ Matches(t.slots[ProbeOf(c, k, n)], k)
                 \/ t.slots[ProbeOf(c, k, n)].mark = kEmpty}
<1>1. c \in Capacities /\ t \in TablesOf(c)
      /\ Cardinality(Full(t.slots, c)) < c
  BY DEF Good, Tallied
<1>2. c \in Nat \ {0} /\ Capacity(t) = c
      /\ \A n : Probe(t, k, n) = ProbeOf(c, k, n)
  BY <1>1, CapacityType, CapacityOf
<1>3. Stops(t, k) =
        {n \in 0..(2 * c - 1) :
           \/ Matches(t.slots[ProbeOf(c, k, n)], k)
           \/ t.slots[ProbeOf(c, k, n)].mark = kEmpty}
  BY <1>2 DEF Stops
<1>4. Stops(t, k) # {}
  BY <1>1, <1>3, EmptyReached
<1>5. Stops(t, k) \in SUBSET Nat
  BY <1>2, <1>3
<1> QED
  BY <1>3, <1>4, <1>5, MinIs DEF LastProbe

(* And finds the entry of the key, if there is one. *)
LEMMA FindIs ==
  ASSUME NEW t, NEW c, NEW M, Good(t, c, M), NEW k \in Keys
  PROVE  /\ FoundAt(t, k) \in 0..(c - 1)
         /\ FoundAt(t, k) = ProbeOf(c, k, LastProbe(t, k))
         /\ Find(t, k) <=> k \in DOMAIN M
         /\ Find(t, k) => /\ FoundAt(t, k) \in Taken(t.slots, c)
                          /\ t.slots[FoundAt(t, k)].key = k
         /\ ~Find(t, k) => /\ t.slots[FoundAt(t, k)].mark = kEmpty
                           /\ \A i \in Taken(t.slots, c) : t.slots[i].key # k
<1> DEFINE L == LastProbe(t, k)
           a == FoundAt(t, k)
           s == t.slots
<1>1. c \in Capacities /\ t \in TablesOf(c) /\ Placed(s, c) /\ Maps(s, c, M)
  BY DEF Good, Orderly
<1>2. c \in Nat \ {0} /\ a = ProbeOf(c, k, L) /\ s \in SlotsOf(c)
  BY <1>1, CapacityType, CapacityOf DEF FoundAt
<1>3. /\ L \in 0..(2 * c - 1) /\ L \in Nat
      /\ Matches(s[a], k) \/ s[a].mark = kEmpty
      /\ \A n \in 0..(2 * c - 1) :
           Matches(s[ProbeOf(c, k, n)], k) => L <= n
  BY <1>2, SearchEnds
<1> HIDE DEF L, a, s
<1>4. a \in 0..(c - 1)
  BY <1>1, <1>2, <1>3, ProbeType
<1>5. Find(t, k) <=> Matches(s[a], k)
  BY DEF Find, a, s
<1>6. ASSUME Matches(s[a], k)
      PROVE  a \in Taken(s, c) /\ s[a].key = k
  BY <1>4, <1>6, MarkerType DEF Matches, Taken, Used
<1>7. ASSUME ~Matches(s[a], k), NEW i \in Taken(s, c), s[i].key = k
      PROVE  FALSE
  <2>1. IsEntry(s[i]) /\ OnPath(s, c, k, i)
    BY <1>1, <1>7 DEF Placed
  <2>2. PICK n \in 0..(2 * c - 1) :
          /\ ProbeOf(c, k, n) = i
          /\ \A m \in 0..(n - 1) : s[ProbeOf(c, k, m)].mark # kEmpty
    BY <2>1 DEF OnPath
  <2>3. Matches(s[i], k)
    BY <1>7, <2>1 DEF IsEntry, Matches
  <2>4. L <= n /\ L # n
    BY <1>2, <1>3, <1>7, <2>2, <2>3
  <2>5. L \in 0..(n - 1)
    BY <1>2, <1>3, <2>4
  <2> QED
    BY <1>2, <1>3, <1>7, <2>2, <2>5
<1>8. Find(t, k) <=> k \in DOMAIN M
  <2>1. ASSUME Find(t, k) PROVE k \in DOMAIN M
    BY <1>1, <1>5, <1>6, <2>1 DEF Maps
  <2>2. ASSUME k \in DOMAIN M PROVE Find(t, k)
    <3>1. PICK i \in Taken(s, c) : s[i].key = k
      BY <1>1, <2>2 DEF Maps
    <3> QED
      BY <1>5, <1>7, <3>1
  <2> QED
    BY <2>1, <2>2
<1>9. ASSUME ~Find(t, k)
      PROVE  /\ s[a].mark = kEmpty
             /\ \A i \in Taken(s, c) : s[i].key # k
  BY <1>3, <1>5, <1>7, <1>9
<1> QED
  BY <1>2, <1>4, <1>5, <1>6, <1>8, <1>9 DEF L, a, s

-----------------------------------------------------------------------------
(* Changes of one slot.                                                    *)

LEMMA PathStays ==
  ASSUME NEW c \in Capacities, NEW s, NEW s2, NEW k \in Keys, NEW i,
         Full(s, c) \subseteq Full(s2, c), OnPath(s, c, k, i)
  PROVE  OnPath(s2, c, k, i)
<1>1. PICK n \in 0..(2 * c - 1) :
        /\ ProbeOf(c, k, n) = i
        /\ \A m \in 0..(n - 1) : s[ProbeOf(c, k, m)].mark # kEmpty
  BY DEF OnPath
<1>2. ASSUME NEW m \in 0..(n - 1) PROVE s2[ProbeOf(c, k, m)].mark # kEmpty
  <2>1. ProbeOf(c, k, m) \in 0..(c - 1)
    BY ProbeType
  <2> QED
    BY <1>1, <2>1 DEF Full
<1> QED
  BY <1>1, <1>2 DEF OnPath

Updated(s, i, e) == [s EXCEPT ![i] = e]

(* A new entry, in a slot a search for its key comes to. *)
LEMMA PlaceKeeps ==
  ASSUME NEW c \in Capacities, NEW s \in SlotsOf(c), NEW M,
         Orderly(s, c, M),
         NEW k \in Keys, k \notin DOMAIN M, NEW v \in Values,
         NEW i \in 0..(c - 1), ~Used(s[i]), OnPath(s, c, k, i),
         NEW s2, s2 = Updated(s, i, Slot(Marker(k), k, v))
  PROVE  /\ s2 \in SlotsOf(c)
         /\ Orderly(s2, c, Plus(M, k, v))
         /\ Full(s2, c) = Full(s, c) \cup {i}
         /\ Tombs(s2, c) = Tombs(s, c) \ {i}
         /\ Taken(s2, c) = Taken(s, c) \cup {i}
<1> DEFINE e == Slot(Marker(k), k, v)
           N == Plus(M, k, v)
<1>1. Marker(k) \in Nat /\ Marker(k) >= 2
  BY MarkerType
<1>2. /\ e \in Slots /\ e.key = k /\ e.val = v /\ e.mark = Marker(k)
      /\ IsEntry(e) /\ Used(e)
  BY <1>1 DEF Slot, Slots, IsEntry, Used
<1>0. s2 = [s EXCEPT ![i] = e]
  BY DEF Updated
<1> HIDE DEF e
<1>3. s2 \in SlotsOf(c) /\ s2[i] = e
      /\ \A j \in 0..(c - 1) : j # i => s2[j] = s[j]
  BY <1>0, <1>2 DEF SlotsOf
<1>4. /\ Full(s2, c) = Full(s, c) \cup {i}
      /\ Tombs(s2, c) = Tombs(s, c) \ {i}
      /\ Taken(s2, c) = Taken(s, c) \cup {i}
  <2>1. e.mark # kEmpty /\ e.mark # kDeleted
    BY <1>1, <1>2 DEF kEmpty, kDeleted
  <2> QED
    BY <1>2, <1>3, <2>1 DEF Full, Tombs, Taken
<1>5. /\ Placed(s, c) /\ Single(s, c) /\ M \in [DOMAIN M -> Values]
      /\ DOMAIN M \subseteq Keys
      /\ DOMAIN M = {s[j].key : j \in Taken(s, c)}
      /\ \A j \in Taken(s, c) : M[s[j].key] = s[j].val
  BY DEF Orderly, Maps
<1>6. i \notin Taken(s, c) /\ Taken(s, c) \subseteq 0..(c - 1)
  BY DEF Taken
<1>7. \A j \in Taken(s, c) : s2[j] = s[j] /\ s[j].key # k
  BY <1>3, <1>5, <1>6
<1>8. Placed(s2, c)
  <2>1. ASSUME NEW j \in Taken(s, c)
        PROVE  IsEntry(s2[j]) /\ OnPath(s2, c, s2[j].key, j)
    <3>1. IsEntry(s[j]) /\ OnPath(s, c, s[j].key, j)
      BY <1>5 DEF Placed
    <3>2. s[j].key \in Keys
      BY <3>1 DEF IsEntry
    <3> QED
      BY <1>4, <1>7, <3>1, <3>2, PathStays
  <2>2. IsEntry(s2[i]) /\ OnPath(s2, c, s2[i].key, i)
    BY <1>2, <1>3, <1>4, PathStays
  <2> QED
    BY <1>4, <2>1, <2>2 DEF Placed
<1>9. Single(s2, c)
  <2> SUFFICES ASSUME NEW a \in Taken(s2, c), NEW b \in Taken(s2, c),
                      s2[a].key = s2[b].key
               PROVE  a = b
    BY DEF Single
  <2>1. CASE a = i /\ b # i
    BY <1>2, <1>3, <1>4, <1>7, <2>1
  <2>2. CASE a # i /\ b = i
    BY <1>2, <1>3, <1>4, <1>7, <2>2
  <2>3. CASE a # i /\ b # i
    BY <1>4, <1>5, <1>7, <2>3 DEF Single
  <2> QED
    BY <2>1, <2>2, <2>3
<1>10. Maps(s2, c, N)
  <2>1. /\ DOMAIN N = DOMAIN M \cup {k} /\ N[k] = v
        /\ \A x \in DOMAIN M : N[x] = M[x]
        /\ N \in [DOMAIN N -> Values] /\ DOMAIN N \subseteq Keys
    BY <1>5 DEF Plus
  <2> HIDE DEF N
  <2>2. DOMAIN N = {s2[j].key : j \in Taken(s2, c)}
    <3>1. \A j \in Taken(s2, c) : s2[j].key \in DOMAIN N
      BY <1>2, <1>3, <1>4, <1>5, <1>7, <2>1
    <3>2. ASSUME NEW x \in DOMAIN N
          PROVE  \E j \in Taken(s2, c) : s2[j].key = x
      <4>1. CASE x = k
        BY <1>2, <1>3, <1>4, <4>1
      <4>2. CASE x # k
        <5>1. PICK j \in Taken(s, c) : s[j].key = x
          BY <1>5, <2>1, <4>2
        <5> QED
          BY <1>4, <1>7, <5>1
      <4> QED
        BY <4>1, <4>2
    <3> QED
      BY <3>1, <3>2
  <2>3. \A j \in Taken(s2, c) : N[s2[j].key] = s2[j].val
    <3>1. ASSUME NEW j \in Taken(s, c) PROVE N[s2[j].key] = s2[j].val
      BY <1>5, <1>7, <2>1
    <3>2. N[s2[i].key] = s2[i].val
      BY <1>2, <1>3, <2>1
    <3> QED
      BY <1>4, <3>1, <3>2
  <2> QED
    BY <2>1, <2>2, <2>3 DEF Maps
<1> QED
  BY <1>3, <1>4, <1>8, <1>9, <1>10 DEF Orderly

(* Another value in the entry of a key. *)
LEMMA ValueKeeps ==
  ASSUME NEW c \in Capacities, NEW s \in SlotsOf(c), NEW M,
         Orderly(s, c, M),
         NEW k \in DOMAIN M, NEW v \in Values,
         NEW i \in Taken(s, c), s[i].key = k
  PROVE  LET s2 == [s EXCEPT ![i].val = v]
         IN  /\ s2 \in SlotsOf(c)
             /\ Orderly(s2, c, Plus(M, k, v))
             /\ Full(s2, c) = Full(s, c)
             /\ Tombs(s2, c) = Tombs(s, c)
<1> DEFINE e == [s[i] EXCEPT !.val = v]
           s2 == [s EXCEPT ![i].val = v]
           N == Plus(M, k, v)
<1>1. i \in 0..(c - 1) /\ s[i] \in Slots /\ Used(s[i])
  BY DEF Taken, SlotsOf
<1>2. /\ e \in Slots /\ e.key = k /\ e.val = v /\ e.mark = s[i].mark
      /\ Used(e)
  BY <1>1 DEF Slots, Used
<1>3. s2 \in SlotsOf(c) /\ s2[i] = e
      /\ \A j \in 0..(c - 1) : j # i => s2[j] = s[j]
  BY <1>1, <1>2 DEF SlotsOf
<1> HIDE DEF e, s2
<1>4. /\ Full(s2, c) = Full(s, c)
      /\ Tombs(s2, c) = Tombs(s, c)
      /\ Taken(s2, c) = Taken(s, c)
  BY <1>1, <1>2, <1>3 DEF Full, Tombs, Taken
<1>5. /\ Placed(s, c) /\ Single(s, c) /\ M \in [DOMAIN M -> Values]
      /\ DOMAIN M \subseteq Keys
      /\ DOMAIN M = {s[j].key : j \in Taken(s, c)}
      /\ \A j \in Taken(s, c) : M[s[j].key] = s[j].val
  BY DEF Orderly, Maps
<1>6. Taken(s, c) \subseteq 0..(c - 1)
  BY DEF Taken
<1>7. \A j \in Taken(s, c) :
        /\ s2[j].key = s[j].key /\ s2[j].mark = s[j].mark
        /\ s2[j].val = IF j = i THEN v ELSE s[j].val
  BY <1>2, <1>3, <1>6
<1>8. Placed(s2, c)
  <2>1. ASSUME NEW j \in Taken(s, c)
        PROVE  IsEntry(s2[j]) /\ OnPath(s2, c, s2[j].key, j)
    <3>1. IsEntry(s[j]) /\ OnPath(s, c, s[j].key, j)
      BY <1>5 DEF Placed
    <3>2. s[j].key \in Keys /\ IsEntry(s2[j])
      BY <1>7, <3>1 DEF IsEntry
    <3> QED
      BY <1>4, <1>7, <3>1, <3>2, PathStays
  <2> QED
    BY <1>4, <2>1 DEF Placed
<1>9. Single(s2, c)
  BY <1>4, <1>5, <1>7 DEF Single
<1>10. Maps(s2, c, N)
  <2>1. /\ DOMAIN N = DOMAIN M /\ N[k] = v
        /\ \A x \in DOMAIN M : x # k => N[x] = M[x]
        /\ N \in [DOMAIN N -> Values] /\ DOMAIN N \subseteq Keys
    BY <1>5 DEF Plus
  <2> HIDE DEF N
  <2>2. DOMAIN N = {s2[j].key : j \in Taken(s2, c)}
    BY <1>4, <1>5, <1>7, <2>1
  <2>3. ASSUME NEW j \in Taken(s2, c) PROVE N[s2[j].key] = s2[j].val
    <3>1. CASE j = i
      BY <1>4, <1>7, <2>1, <3>1
    <3>2. CASE j # i
      <4>1. s[j].key # k /\ s[j].key \in DOMAIN M
        BY <1>4, <1>5, <3>2 DEF Single
      <4> QED
        BY <1>4, <1>5, <1>7, <2>1, <3>2, <4>1
    <3> QED
      BY <3>1, <3>2
  <2> QED
    BY <2>1, <2>2, <2>3 DEF Maps
<1> QED
  BY <1>3, <1>4, <1>8, <1>9, <1>10 DEF Orderly, s2

(* An entry less. *)
LEMMA EraseKeeps ==
  ASSUME NEW c \in Capacities, NEW s \in SlotsOf(c), NEW M,
         Orderly(s, c, M),
         NEW i \in Taken(s, c)
  PROVE  LET s2 == [s EXCEPT ![i] = Vacant(kDeleted)]
         IN  /\ s2 \in SlotsOf(c)
             /\ Orderly(s2, c, Restrict(M, DOMAIN M \ {s[i].key}))
             /\ Full(s2, c) = Full(s, c)
             /\ Tombs(s2, c) = Tombs(s, c) \cup {i} /\ i \notin Tombs(s, c)
             /\ Taken(s2, c) = Taken(s, c) \ {i}
<1> DEFINE e == Vacant(kDeleted)
           s2 == [s EXCEPT ![i] = e]
           k == s[i].key
           N == Restrict(M, DOMAIN M \ {k})
<1>1. i \in 0..(c - 1) /\ s[i] \in Slots /\ Used(s[i])
  BY DEF Taken, SlotsOf
<1>2. e \in Slots /\ e.mark = kDeleted /\ ~Used(e)
  BY DEF Slots, Used, Vacant, kDeleted
<1>3. s2 \in SlotsOf(c) /\ s2[i] = e
      /\ \A j \in 0..(c - 1) : j # i => s2[j] = s[j]
  BY <1>1, <1>2 DEF SlotsOf
<1> HIDE DEF e, s2, k
<1>4. /\ Full(s2, c) = Full(s, c)
      /\ Tombs(s2, c) = Tombs(s, c) \cup {i} /\ i \notin Tombs(s, c)
      /\ Taken(s2, c) = Taken(s, c) \ {i}
  <2>1. /\ e.mark # kEmpty /\ s[i].mark # kEmpty /\ s[i].mark # kDeleted
    BY <1>1, <1>2 DEF Used, kEmpty, kDeleted, Slots
  <2> QED
    BY <1>1, <1>2, <1>3, <2>1 DEF Full, Tombs, Taken
<1>5. /\ Placed(s, c) /\ Single(s, c) /\ M \in [DOMAIN M -> Values]
      /\ DOMAIN M \subseteq Keys
      /\ DOMAIN M = {s[j].key : j \in Taken(s, c)}
      /\ \A j \in Taken(s, c) : M[s[j].key] = s[j].val
  BY DEF Orderly, Maps
<1>6. Taken(s, c) \subseteq 0..(c - 1)
  BY DEF Taken
<1>7. \A j \in Taken(s2, c) : s2[j] = s[j] /\ s[j].key # k
  BY <1>3, <1>4, <1>5, <1>6 DEF Single, k
<1>8. Placed(s2, c)
  <2>1. ASSUME NEW j \in Taken(s2, c)
        PROVE  IsEntry(s2[j]) /\ OnPath(s2, c, s2[j].key, j)
    <3>1. IsEntry(s[j]) /\ OnPath(s, c, s[j].key, j)
      BY <1>4, <1>5 DEF Placed
    <3>2. s[j].key \in Keys
      BY <3>1 DEF IsEntry
    <3> QED
      BY <1>4, <1>7, <3>1, <3>2, PathStays
  <2> QED
    BY <2>1 DEF Placed
<1>9. Single(s2, c)
  BY <1>4, <1>5, <1>7 DEF Single
<1>10. Maps(s2, c, N)
  <2>1. /\ DOMAIN N = DOMAIN M \ {k}
        /\ \A x \in DOMAIN N : N[x] = M[x]
        /\ N \in [DOMAIN N -> Values] /\ DOMAIN N \subseteq Keys
    BY <1>5 DEF Restrict
  <2> HIDE DEF N
  <2>2. DOMAIN N = {s2[j].key : j \in Taken(s2, c)}
    <3>1. \A j \in Taken(s2, c) : s2[j].key \in DOMAIN N
      BY <1>4, <1>5, <1>7, <2>1
    <3>2. ASSUME NEW x \in DOMAIN N
          PROVE  \E j \in Taken(s2, c) : s2[j].key = x
      <4>1. PICK j \in Taken(s, c) : s[j].key = x
        BY <1>5, <2>1
      <4>2. j # i
        BY <2>1, <4>1 DEF k
      <4> QED
        BY <1>4, <1>7, <4>1, <4>2
    <3> QED
      BY <3>1, <3>2
  <2>3. \A j \in Taken(s2, c) : N[s2[j].key] = s2[j].val
    BY <1>4, <1>5, <1>7, <2>1, <2>2
  <2> QED
    BY <2>1, <2>2, <2>3 DEF Maps
<1> QED
  BY <1>3, <1>4, <1>8, <1>9, <1>10 DEF Orderly, s2, e, k

-----------------------------------------------------------------------------
(* Calls on one table.                                                     *)

(* The path of a search that did not find its key. *)
LEMMA PathToEmpty ==
  ASSUME NEW t, NEW c, NEW M, Good(t, c, M), NEW k \in Keys, ~Find(t, k),
         NEW n \in 0..LastProbe(t, k)
  PROVE  OnPath(t.slots, c, k, ProbeOf(c, k, n))
<1>1. LastProbe(t, k) \in 0..(2 * c - 1) /\ c \in Nat \ {0}
  <2>1. c \in Nat \ {0}
    BY CapacityType DEF Good
  <2> QED
    BY <2>1, SearchEnds
<1>2. n \in 0..(2 * c - 1)
  BY <1>1
<1>3. ASSUME NEW m \in 0..(n - 1)
      PROVE  t.slots[ProbeOf(c, k, m)].mark # kEmpty
  <2>1. m \in 0..(2 * c - 1) /\ ~(LastProbe(t, k) <= m)
    BY <1>1
  <2> QED
    BY <2>1, SearchEnds
<1> QED
  BY <1>2, <1>3 DEF OnPath

LEMMA InsertedIs ==
  ASSUME NEW t, NEW c, NEW M, Good(t, c, M), c <= MaxCapacity,
         t.not_empty + 1 < c,
         NEW k \in Keys, k \notin DOMAIN M, NEW v \in Values
  PROVE  Good(Inserted(t, k, v), c, Plus(M, k, v))
<1> DEFINE s == t.slots
           a == FoundAt(t, k)
           L == LastProbe(t, k)
           D == DeletedProbes(t, k)
           e == Slot(Marker(k), k, v)
           r == Inserted(t, k, v)
           N == Plus(M, k, v)
<1>1. /\ c \in Capacities /\ t \in TablesOf(c) /\ Orderly(s, c, M)
      /\ c \in Nat \ {0} /\ s \in SlotsOf(c)
      /\ t.not_empty = Cardinality(Full(s, c)) /\ t.not_empty \in Nat
      /\ t.deleted = Cardinality(Tombs(s, c)) /\ t.deleted \in Nat
      /\ t.grow <= (8 * c) \div 10
  BY CapacityType DEF Good, Tallied, TablesOf
<1>2. /\ ~Find(t, k) /\ a \in 0..(c - 1) /\ a = ProbeOf(c, k, L)
      /\ s[a].mark = kEmpty
  BY FindIs
<1>3. L \in Nat
  BY <1>1, SearchEnds
<1>4. D = {n \in 0..(L - 1) : s[ProbeOf(c, k, n)].mark = kDeleted}
  BY <1>1, CapacityOf DEF DeletedProbes
<1>5. CASE D = {}
  <2> DEFINE s2 == [s EXCEPT ![a] = e]
  <2>1. r = [t EXCEPT !.slots[a] = e, !.not_empty = @ + 1]
    BY <1>5 DEF Inserted
  <2>2. /\ r.slots = s2 /\ r.not_empty = t.not_empty + 1
        /\ r.deleted = t.deleted /\ r.grow = t.grow /\ r.shrink = t.shrink
    BY <1>1, <2>1 DEF TablesOf
  <2>3. ~Used(s[a]) /\ a \notin Full(s, c) /\ a \notin Tombs(s, c)
    BY <1>2 DEF Used, kEmpty, kDeleted, Full, Tombs
  <2>4. OnPath(s, c, k, a)
    <3>1. L \in 0..L
      BY <1>3
    <3> QED
      BY <1>2, <3>1, PathToEmpty
  <2>5. /\ s2 \in SlotsOf(c) /\ Orderly(s2, c, N)
        /\ Full(s2, c) = Full(s, c) \cup {a}
        /\ Tombs(s2, c) = Tombs(s, c) \ {a}
    <3>1. s2 = Updated(s, a, Slot(Marker(k), k, v))
      BY DEF Updated
    <3> HIDE DEF s2, e, s, a
    <3> QED
      BY <1>1, <1>2, <2>3, <2>4, <3>1, PlaceKeeps
  <2> HIDE DEF s2, r, e
  <2>6. /\ Cardinality(Full(s2, c)) = t.not_empty + 1
        /\ Tombs(s2, c) = Tombs(s, c)
    <3>1. IsFiniteSet(Full(s, c))
      BY <1>1, Counts
    <3>2. Cardinality(Full(s, c) \cup {a}) = Cardinality(Full(s, c)) + 1
      BY <2>3, <3>1, FS_AddElement
    <3> QED
      BY <1>1, <2>3, <2>5, <3>2
  <2>7. r \in TablesOf(c)
    <3>1. t.not_empty + 1 \in Nat
      BY <1>1
    <3> QED
      BY <1>1, <2>1, <2>2, <2>5, <3>1 DEF TablesOf, s2
  <2>8. Tallied(r, c)
    BY <1>1, <2>2, <2>6 DEF Tallied
  <2> QED
    BY <1>1, <2>2, <2>5, <2>7, <2>8 DEF Good, r
<1>6. CASE D # {}
  <2> DEFINE n == Min(D)
             i == ProbeOf(c, k, n)
             s2 == [s EXCEPT ![i] = e]
  <2>1. n \in D
    <3>1. D \in SUBSET Nat
      BY <1>4
    <3> HIDE DEF D
    <3> QED
      BY <1>6, <3>1, MinIs
  <2>2. r = [t EXCEPT !.slots[i] = e, !.deleted = (@ - 1) % SizeMod]
    <3>1. Probe(t, k, n) = i
      BY <1>1, CapacityOf
    <3> QED
      BY <1>6, <3>1 DEF Inserted
  <2> HIDE DEF D, n
  <2>3. n \in 0..L /\ n \in Nat /\ s[i].mark = kDeleted /\ i \in 0..(c - 1)
    <3>1. n \in 0..(L - 1) /\ s[i].mark = kDeleted
      BY <1>4, <2>1
    <3>2. n \in 0..L /\ n \in Nat
      BY <1>3, <3>1
    <3> QED
      BY <1>1, <3>1, <3>2, ProbeType
  <2>4. OnPath(s, c, k, i)
    BY <1>2, <2>3, PathToEmpty
  <2> HIDE DEF i
  <2>5. ~Used(s[i]) /\ i \in Full(s, c) /\ i \in Tombs(s, c)
    BY <2>3 DEF Used, kEmpty, kDeleted, Full, Tombs
  <2>6. /\ s2 \in SlotsOf(c) /\ Orderly(s2, c, N)
        /\ Full(s2, c) = Full(s, c) \cup {i}
        /\ Tombs(s2, c) = Tombs(s, c) \ {i}
    <3>1. s2 = Updated(s, i, Slot(Marker(k), k, v))
      BY DEF Updated
    <3> HIDE DEF s2, e, s
    <3> QED
      BY <1>1, <1>2, <2>3, <2>4, <2>5, <3>1, PlaceKeeps
  <2> HIDE DEF s2, r, e
  <2>7. /\ Full(s2, c) = Full(s, c)
        /\ Cardinality(Tombs(s2, c)) = t.deleted - 1 /\ t.deleted - 1 \in Nat
    <3>1. Full(s2, c) = Full(s, c)
      BY <2>5, <2>6
    <3>2. Cardinality(Tombs(s2, c)) = t.deleted - 1
      <4>1. IsFiniteSet(Tombs(s, c))
        BY <1>1, Counts
      <4>2. Cardinality(Tombs(s, c) \ {i}) = Cardinality(Tombs(s, c)) - 1
        BY <2>5, <4>1, FS_RemoveElement
      <4> QED
        BY <1>1, <2>6, <4>2
    <3>3. Cardinality(Tombs(s2, c)) \in Nat
      BY <1>1, Counts
    <3> QED
      BY <3>1, <3>2, <3>3
  <2>8. (t.deleted - 1) % SizeMod = t.deleted - 1
    <3>1. Tombs(s, c) \in SUBSET Full(s, c)
      BY DEF Tombs, Full, kDeleted, kEmpty
    <3>2. t.deleted <= t.not_empty
      BY <1>1, <3>1, Counts, FS_Subset
    <3>3. t.deleted - 1 < SizeMod
      BY <1>1, <2>7, <3>2, SizeAssumption
    <3> QED
      BY <1>1, <2>7, <3>3, SizeAssumption
  <2>9. /\ r.slots = s2 /\ r.not_empty = t.not_empty
        /\ r.deleted = t.deleted - 1 /\ r.grow = t.grow /\ r.shrink = t.shrink
    BY <1>1, <2>2, <2>8 DEF TablesOf, s2
  <2>10. r \in TablesOf(c)
    BY <1>1, <2>2, <2>6, <2>7, <2>9 DEF TablesOf, s2
  <2>11. Tallied(r, c)
    BY <1>1, <2>7, <2>9 DEF Tallied
  <2> QED
    BY <1>1, <2>6, <2>9, <2>10, <2>11 DEF Good, r
<1> QED
  BY <1>5, <1>6

LEMMA FreshInsertIs ==
  ASSUME NEW t, NEW c, NEW M, Good(t, c, M), t.not_empty + 1 < c,
         NEW e \in Slots, IsEntry(e), e.key \notin DOMAIN M
  PROVE  /\ Good(FreshInsert(t, e), c, Plus(M, e.key, e.val))
         /\ FreshInsert(t, e).not_empty = t.not_empty + 1
<1> DEFINE s == t.slots
           k == e.key
           E == {p \in 0..(2 * c - 1) : s[ProbeOf(c, k, p)].mark = kEmpty}
           n == Min(E)
           i == ProbeOf(c, k, n)
           f == Slot(Marker(k), k, e.val)
           s2 == [s EXCEPT ![i] = f]
           r == FreshInsert(t, e)
           N == Plus(M, k, e.val)
<1>1. /\ c \in Capacities /\ t \in TablesOf(c) /\ Orderly(s, c, M)
      /\ c \in Nat \ {0} /\ s \in SlotsOf(c)
      /\ t.not_empty = Cardinality(Full(s, c)) /\ t.not_empty \in Nat
      /\ t.not_empty < c
      /\ t.deleted = Cardinality(Tombs(s, c)) /\ t.deleted \in Nat
      /\ t.grow <= (8 * c) \div 10
  BY CapacityType DEF Good, Tallied, TablesOf
<1>2. k \in Keys /\ e.val \in Values
  BY DEF IsEntry
<1>3. E # {} /\ E \in SUBSET Nat
  BY <1>1, <1>2, EmptyReached
<1>4. n \in E /\ \A p \in E : n <= p
  <2> HIDE DEF E
  <2> QED
    BY <1>3, MinIs
<1>5. r = [t EXCEPT !.slots[i] = f, !.not_empty = @ + 1]
  <2>1. /\ Capacity(t) = c
        /\ \A p : Probe(t, k, p) = ProbeOf(c, k, p)
    BY <1>1, CapacityOf
  <2> DEFINE Z == {p \in 0..2 * Capacity(t) - 1 : t.slots[Probe(t, k, p)].mark = kEmpty}
  <2>2. r = [t EXCEPT !.slots[Probe(t, k, Min(Z))] = f, !.not_empty = @ + 1]
    BY DEF FreshInsert
  <2>3. Z = E
    BY <2>1
  <2> HIDE DEF Z, E, r, f
  <2>4. Probe(t, k, Min(Z)) = i
    BY <2>1, <2>3
  <2> HIDE DEF i
  <2> QED
    BY <2>2, <2>4
<1> HIDE DEF n
<1>6. /\ n \in 0..(2 * c - 1) /\ n \in Nat /\ s[i].mark = kEmpty
      /\ i \in 0..(c - 1)
  <2>1. n \in 0..(2 * c - 1) /\ n \in Nat /\ s[i].mark = kEmpty
    BY <1>1, <1>4
  <2> QED
    BY <1>1, <1>2, <2>1, ProbeType
<1>7. OnPath(s, c, k, i)
  <2>1. ASSUME NEW m \in 0..(n - 1) PROVE s[ProbeOf(c, k, m)].mark # kEmpty
    <3>1. m \in 0..(2 * c - 1) /\ ~(n <= m)
      BY <1>1, <1>6
    <3> QED
      BY <1>4, <3>1
  <2> QED
    BY <1>6, <2>1 DEF OnPath
<1> HIDE DEF i, E
<1>8. ~Used(s[i]) /\ i \notin Full(s, c) /\ i \notin Tombs(s, c)
  BY <1>6 DEF Used, kEmpty, kDeleted, Full, Tombs
<1>9. /\ s2 \in SlotsOf(c) /\ Orderly(s2, c, N)
      /\ Full(s2, c) = Full(s, c) \cup {i}
      /\ Tombs(s2, c) = Tombs(s, c) \ {i}
  <2>1. s2 = Updated(s, i, Slot(Marker(k), k, e.val))
    BY DEF Updated
  <2> HIDE DEF s2, f, s, k
  <2> QED
    BY <1>1, <1>2, <1>6, <1>7, <1>8, <2>1, PlaceKeeps DEF k
<1>10. /\ r.slots = s2 /\ r.not_empty = t.not_empty + 1
       /\ r.deleted = t.deleted /\ r.grow = t.grow /\ r.shrink = t.shrink
  BY <1>1, <1>5 DEF TablesOf
<1> HIDE DEF s2, r, f
<1>11. /\ Cardinality(Full(s2, c)) = t.not_empty + 1
       /\ Tombs(s2, c) = Tombs(s, c)
  <2>1. IsFiniteSet(Full(s, c))
    BY <1>1, Counts
  <2>2. Cardinality(Full(s, c) \cup {i}) = Cardinality(Full(s, c)) + 1
    BY <1>8, <2>1, FS_AddElement
  <2> QED
    BY <1>1, <1>8, <1>9, <2>2
<1>12. r \in TablesOf(c)
  <2>1. t.not_empty + 1 \in Nat
    BY <1>1
  <2> QED
    BY <1>1, <1>5, <1>9, <1>10, <2>1 DEF TablesOf, s2
<1>13. Tallied(r, c)
  BY <1>1, <1>10, <1>11 DEF Tallied
<1> QED
  BY <1>1, <1>9, <1>10, <1>12, <1>13 DEF Good, r

LEMMA ReassignedIs ==
  ASSUME NEW t, NEW c, NEW M, Good(t, c, M),
         NEW k \in DOMAIN M, NEW v \in Values
  PROVE  Good([t EXCEPT !.slots[FoundAt(t, k)].val = v], c, Plus(M, k, v))
<1> DEFINE s == t.slots
           i == FoundAt(t, k)
           s2 == [s EXCEPT ![i].val = v]
           r == [t EXCEPT !.slots[i].val = v]
<1>1. /\ c \in Capacities /\ t \in TablesOf(c) /\ Orderly(s, c, M)
      /\ s \in SlotsOf(c) /\ k \in Keys
      /\ Tallied(t, c)
  BY DEF Good, TablesOf, Orderly, Maps
<1>2. i \in Taken(s, c) /\ s[i].key = k
  BY <1>1, FindIs
<1> HIDE DEF i
<1>3. /\ s2 \in SlotsOf(c) /\ Orderly(s2, c, Plus(M, k, v))
      /\ Full(s2, c) = Full(s, c) /\ Tombs(s2, c) = Tombs(s, c)
  BY <1>1, <1>2, ValueKeeps
<1>4. /\ r.slots = s2 /\ r.not_empty = t.not_empty
      /\ r.deleted = t.deleted /\ r.grow = t.grow /\ r.shrink = t.shrink
  BY <1>1 DEF TablesOf
<1>5. r \in TablesOf(c)
  <2> HIDE DEF s2
  <2>1. r = [t EXCEPT !.slots = s2]
    BY <1>1 DEF TablesOf, s2
  <2> HIDE DEF r
  <2> QED
    BY <1>1, <1>3, <2>1 DEF TablesOf
<1> HIDE DEF r, s2
<1>6. Tallied(r, c)
  BY <1>1, <1>3, <1>4 DEF Tallied
<1>7. Good(r, c, Plus(M, k, v))
  BY <1>1, <1>3, <1>4, <1>5, <1>6 DEF Good
<1> QED
  BY <1>7 DEF r, i

LEMMA ErasedIs ==
  ASSUME NEW t, NEW c, NEW M, Good(t, c, M), NEW i \in Taken(t.slots, c)
  PROVE  /\ Good(Erased(t, i), c, Restrict(M, DOMAIN M \ {t.slots[i].key}))
         /\ Erased(t, i).slots = [t.slots EXCEPT ![i] = Vacant(kDeleted)]
<1> DEFINE s == t.slots
           e == Vacant(kDeleted)
           s2 == [s EXCEPT ![i] = e]
           r == Erased(t, i)
           N == Restrict(M, DOMAIN M \ {s[i].key})
<1>1. /\ c \in Capacities /\ t \in TablesOf(c) /\ Orderly(s, c, M)
      /\ s \in SlotsOf(c) /\ c \in Nat \ {0}
      /\ t.not_empty = Cardinality(Full(s, c)) /\ t.not_empty < c
      /\ t.deleted = Cardinality(Tombs(s, c)) /\ t.deleted \in Nat
  BY CapacityType DEF Good, TablesOf, Tallied
<1> HIDE DEF e
<1>2. /\ s2 \in SlotsOf(c) /\ Orderly(s2, c, N)
      /\ Full(s2, c) = Full(s, c)
      /\ Tombs(s2, c) = Tombs(s, c) \cup {i} /\ i \notin Tombs(s, c)
  BY <1>1, EraseKeeps DEF e
<1>3. r = [t EXCEPT !.slots[i] = e, !.deleted = @ + 1, !.grow = 0]
  BY DEF Erased, e
<1>4. /\ r.slots = s2 /\ r.not_empty = t.not_empty
      /\ r.deleted = t.deleted + 1 /\ r.grow = 0 /\ r.shrink = t.shrink
  BY <1>1, <1>3 DEF TablesOf
<1> HIDE DEF s2, r, N
<1>5. Cardinality(Tombs(s2, c)) = t.deleted + 1
  <2>1. IsFiniteSet(Tombs(s, c))
    BY <1>1, Counts
  <2> QED
    BY <1>1, <1>2, <2>1, FS_AddElement
<1>6. r \in TablesOf(c)
  <2>1. t.deleted + 1 \in Nat
    BY <1>1
  <2> QED
    BY <1>1, <1>2, <1>3, <1>4, <2>1 DEF TablesOf, s2
<1>7. Tallied(r, c)
  <2>1. 0 <= (8 * c) \div 10
    BY <1>1
  <2> QED
    BY <1>1, <1>2, <1>4, <1>5, <2>1 DEF Tallied
<1> QED
  BY <1>1, <1>2, <1>4, <1>6, <1>7 DEF Good, r, N, s2, e

-----------------------------------------------------------------------------
(* New tables.                                                             *)

LEMMA EmptySlots ==
  ASSUME NEW c \in Capacities, NEW s \in SlotsOf(c),
         \A i \in 0..(c - 1) : s[i].mark = kEmpty
  PROVE  /\ Orderly(s, c, None)
         /\ Cardinality(Full(s, c)) = 0 /\ Cardinality(Tombs(s, c)) = 0
<1>1. Full(s, c) = {} /\ Tombs(s, c) = {} /\ Taken(s, c) = {}
  BY DEF Full, Tombs, Taken, Used, kEmpty, kDeleted
<1>2. Placed(s, c) /\ Single(s, c)
  BY <1>1 DEF Placed, Single
<1>3. Maps(s, c, None)
  <2>1. DOMAIN None = {} /\ None \in [DOMAIN None -> Values]
    BY DEF None
  <2> QED
    BY <1>1, <2>1 DEF Maps
<1> QED
  BY <1>1, <1>2, <1>3, FS_EmptySet DEF Orderly

LEMMA ShiftGrows ==
  ASSUME NEW n \in Nat
  PROVE  2 * n <= Shift(n)
<1> DEFINE P == {d \in 0..n : 2 * d <= Shift(d)}
<1>1. 0 \in P
  BY ShiftIs
<1>2. ASSUME NEW d \in 1..n, d - 1 \in P PROVE d \in P
  <2>1. d - 1 \in Nat /\ (d - 1) + 1 = d
    OBVIOUS
  <2>2. Shift(d) = 2 * Shift(d - 1) /\ Shift(d - 1) \in Nat \ {0}
    BY <2>1, ShiftIs
  <2>3. 2 * (d - 1) <= Shift(d - 1)
    BY <1>2
  <2> QED
    BY <2>1, <2>2, <2>3
<1>3. P = 0..n
  <2>1. P \in SUBSET (0..n)
    OBVIOUS
  <2> HIDE DEF P
  <2> QED
    BY <1>1, <1>2, <2>1, Throughout
<1> QED
  BY <1>3

(* A fresh table has room for what it is made for. *)
LEMMA FreshIs ==
  ASSUME NEW n \in Nat
  PROVE  \E c \in Capacities :
           /\ Good(Fresh(n), c, None)
           /\ 10 * n < 8 * c
           /\ Fresh(n).not_empty = 0
<1> DEFINE Fits(g) == 10 * n < 8 * (Shift(g) * kWidth)
           T == {g \in 0..n : Fits(g)}
           lg == CHOOSE g \in 0..n :
                    /\ 10 * n < 8 * (Shift(g) * kWidth)
                    /\ \A f \in 0..g - 1 : 10 * n >= 8 * (Shift(f) * kWidth)
           c == Shift(lg) * kWidth
           grow == (8 * c) \div 10
           shrink == IF lg = 0 THEN 0 ELSE (4 * grow) \div 10
           s == [i \in 0..c - 1 |-> Vacant(kEmpty)]
           r == Fresh(n)
<1>1. kWidth \in Nat \ {0}
  BY SizeAssumption, ShiftIs DEF kWidth
<1>2. \A g \in Nat : Shift(g) * kWidth \in Nat \ {0}
  <2>1. \A g \in Nat : Shift(g) \in Nat \ {0}
    BY ShiftIs
  <2>2. \A x \in Nat \ {0} : x * kWidth \in Nat \ {0}
    BY <1>1
  <2> QED
    BY <2>1, <2>2
<1>3. Fits(n)
  <2>1. Shift(n) \in Nat \ {0} /\ 2 * n <= Shift(n)
    BY ShiftIs, ShiftGrows
  <2>2. Shift(n) <= Shift(n) * kWidth
    BY <1>1, <2>1
  <2>3. Shift(n) * kWidth \in Nat
    BY <1>2
  <2> QED
    BY <2>1, <2>2, <2>3
<1>4. lg \in 0..n /\ Fits(lg)
  <2>1. PICK x \in T : \A y \in T : x <= y
    <3>1. T # {} /\ T \in SUBSET Nat
      BY <1>3
    <3> HIDE DEF T
    <3> QED
      BY <3>1, LeastNumber
  <2>2. \A f \in 0..x - 1 : 10 * n >= 8 * (Shift(f) * kWidth)
    <3> SUFFICES ASSUME NEW f \in 0..x - 1
                 PROVE  10 * n >= 8 * (Shift(f) * kWidth)
      OBVIOUS
    <3>1. f \in 0..n /\ f \in Nat /\ f \notin T
      BY <2>1
    <3>2. ~(10 * n < 8 * (Shift(f) * kWidth)) /\ Shift(f) * kWidth \in Nat
      BY <1>2, <3>1
    <3> HIDE DEF T
    <3> QED
      BY <3>2
  <2>3. x \in 0..n /\ Fits(x)
    BY <2>1
  <2> HIDE DEF T
  <2> QED
    BY <2>2, <2>3
<1>5. r = [slots |-> s, not_empty |-> 0, deleted |-> 0, grow |-> grow,
           shrink |-> shrink]
  BY DEF Fresh
<1> HIDE DEF lg
<1>6. c \in Capacities /\ c \in Nat \ {0}
  BY <1>2, <1>4 DEF Capacities
<1>7. 10 * n < 8 * c
  BY <1>4
<1> HIDE DEF c
<1>8. s \in SlotsOf(c) /\ \A i \in 0..(c - 1) : s[i].mark = kEmpty
  BY DEF SlotsOf, Slots, Vacant, kEmpty
<1>9. grow \in Nat /\ shrink \in Nat
  BY <1>6
<1> HIDE DEF s, grow, shrink, r
<1>10. /\ r.slots = s /\ r.not_empty = 0 /\ r.deleted = 0 /\ r.grow = grow
       /\ r \in TablesOf(c)
  BY <1>5, <1>8, <1>9 DEF TablesOf
<1>11. /\ Orderly(s, c, None)
       /\ Cardinality(Full(s, c)) = 0 /\ Cardinality(Tombs(s, c)) = 0
  BY <1>6, <1>8, EmptySlots
<1>12. Tallied(r, c)
  BY <1>6, <1>10, <1>11 DEF Tallied, grow
<1> QED
  BY <1>6, <1>7, <1>10, <1>11, <1>12 DEF Good, r

-----------------------------------------------------------------------------
(* Copies of tables.                                                       *)

(* The number of entries. *)
LEMMA SizeIs ==
  ASSUME NEW t, NEW c, NEW M, Good(t, c, M), c <= MaxCapacity
  PROVE  /\ size(t) = Cardinality(Taken(t.slots, c)) /\ size(t) \in Nat
         /\ size(t) <= t.not_empty
<1> DEFINE s == t.slots
<1>1. /\ c \in Capacities /\ c \in Nat \ {0} /\ s \in SlotsOf(c)
      /\ t.not_empty = Cardinality(Full(s, c)) /\ t.not_empty < c
      /\ t.deleted = Cardinality(Tombs(s, c))
  BY CapacityType DEF Good, TablesOf, Tallied
<1> HIDE DEF s
<1>2. /\ Tombs(s, c) \in SUBSET Full(s, c)
      /\ Taken(s, c) = Full(s, c) \ Tombs(s, c)
      /\ Full(s, c) \cap Tombs(s, c) = Tombs(s, c)
  <2>1. \A i \in 0..(c - 1) : s[i].mark \in Nat
    BY <1>1 DEF SlotsOf, Slots
  <2> QED
    BY <2>1 DEF Tombs, Full, Taken, Used, kDeleted, kEmpty
<1>3. /\ IsFiniteSet(Full(s, c)) /\ Cardinality(Full(s, c)) \in Nat
      /\ IsFiniteSet(Tombs(s, c)) /\ Cardinality(Tombs(s, c)) \in Nat
      /\ Cardinality(Taken(s, c)) \in Nat
  BY <1>1, Counts
<1>4. Cardinality(Taken(s, c)) = t.not_empty - t.deleted
  <2>1. Cardinality(Full(s, c) \ Tombs(s, c))
          = Cardinality(Full(s, c)) - Cardinality(Full(s, c) \cap Tombs(s, c))
    BY <1>3, FS_Difference
  <2> QED
    BY <1>1, <1>2, <2>1
<1>5. t.not_empty - t.deleted < SizeMod
  BY <1>1, <1>3, SizeAssumption
<1>6. size(t) = t.not_empty - t.deleted
  BY <1>1, <1>3, <1>4, <1>5, SizeAssumption DEF size
<1> QED
  BY <1>1, <1>3, <1>4, <1>6 DEF s

(* The entries in the first i slots. *)
Before(s, c, i)  == {j \in Taken(s, c) : j < i}
KeysOf(s, J)     == {s[j].key : j \in J}

LEMMA FreshInsertType ==
  ASSUME NEW c \in Capacities, NEW x \in TablesOf(c), NEW e \in Slots,
         IsEntry(e)
  PROVE  FreshInsert(x, e) \in TablesOf(c)
<1> DEFINE f == Slot(Marker(e.key), e.key, e.val)
           j == Probe(x, e.key,
                      Min({p \in 0..2 * Capacity(x) - 1 :
                             x.slots[Probe(x, e.key, p)].mark = kEmpty}))
<1>1. FreshInsert(x, e) = [x EXCEPT !.slots[j] = f, !.not_empty = @ + 1]
  BY DEF FreshInsert
<1>2. f \in Slots
  BY MarkerType DEF Slot, Slots, IsEntry
<1> HIDE DEF f, j
<1>3. x.slots \in SlotsOf(c) /\ x.not_empty \in Nat
  BY DEF TablesOf
<1>4. [x.slots EXCEPT ![j] = f] \in SlotsOf(c) /\ x.not_empty + 1 \in Nat
  <2> DEFINE s == x.slots
  <2>1. s \in [0..(c - 1) -> Slots]
    BY <1>3 DEF SlotsOf
  <2> HIDE DEF s
  <2>2. [s EXCEPT ![j] = f] \in [0..(c - 1) -> Slots]
    BY <1>2, <2>1
  <2> QED
    BY <1>3, <2>2 DEF s, SlotsOf
<1> HIDE DEF SlotsOf
<1> QED
  BY <1>1, <1>4 DEF TablesOf

LEMMA CopiedIs ==
  ASSUME NEW t, NEW c, NEW M, Good(t, c, M),
         NEW into, NEW d, Good(into, d, None), into.not_empty = 0,
         Cardinality(Taken(t.slots, c)) < d
  PROVE  /\ Good(Copied(into, t), d, M)
         /\ Copied(into, t).not_empty = Cardinality(Taken(t.slots, c))
<1> DEFINE s == t.slots
           Taking(g, i) == IF Used(s[i - 1]) THEN FreshInsert(g[i - 1], s[i - 1])
                           ELSE g[i - 1]
           Loop(g) == g = [i \in 0..c |-> IF i = 0 THEN into ELSE Taking(g, i)]
           run == CHOOSE g : Loop(g)
           K(i) == KeysOf(s, Before(s, c, i))
           Q(i) == /\ Good(run[i], d, Restrict(M, K(i)))
                   /\ run[i].not_empty = Cardinality(Before(s, c, i))
<1>1. /\ c \in Capacities /\ c \in Nat \ {0} /\ t \in TablesOf(c)
      /\ s \in SlotsOf(c) /\ d \in Capacities /\ d \in Nat \ {0}
      /\ into \in TablesOf(d)
      /\ Placed(s, c) /\ Single(s, c) /\ Maps(s, c, M)
  BY CapacityType DEF Good, Orderly, TablesOf
<1>2. Copied(into, t) = run[c]
  <2>1. Capacity(t) = c
    BY <1>1, CapacityOf
  <2> QED
    BY <2>1 DEF Copied
<1>3. \A i \in 1..c : i - 1 \in 0..(c - 1) /\ s[i - 1] \in Slots
  BY <1>1 DEF SlotsOf
<1> HIDE DEF s
<1>4. run[0] = into /\ \A i \in 1..c : run[i] = Taking(run, i)
  <2> DEFINE F == [i \in 1..c |-> [x \in TablesOf(d) |->
                     IF Used(s[i - 1]) THEN FreshInsert(x, s[i - 1]) ELSE x]]
  <2>1. F \in Steps(c, TablesOf(d))
    <3>1. ASSUME NEW i \in 1..c, Used(s[i - 1]), NEW x \in TablesOf(d)
          PROVE  FreshInsert(x, s[i - 1]) \in TablesOf(d)
      <4>1. s[i - 1] \in Slots /\ i - 1 \in Taken(s, c)
        BY <1>3, <3>1 DEF Taken
      <4>2. IsEntry(s[i - 1])
        BY <1>1, <4>1 DEF Placed
      <4> QED
        BY <1>1, <4>1, <4>2, FreshInsertType
    <3> QED
      BY <3>1 DEF Steps
  <2> HIDE DEF F
  <2>2. PICK g \in Runs(F, into, c, TablesOf(d)) : TRUE
    BY <1>1, <2>1, Iterates
  <2>3. Loop(g)
    <3>1. /\ g \in [0..c -> TablesOf(d)] /\ g[0] = into
          /\ \A i \in 1..c : g[i] = F[i][g[i - 1]]
      BY <2>2 DEF Runs
    <3>2. \A i \in 1..c : i - 1 \in 0..c /\ g[i - 1] \in TablesOf(d)
      BY <1>1, <3>1
    <3>3. \A i \in 1..c : g[i] = Taking(g, i)
      BY <3>1, <3>2 DEF F
    <3> HIDE DEF Taking
    <3>4. \A i \in 0..c : i # 0 => i \in 1..c
      BY <1>1
    <3> QED
      BY <3>1, <3>3, <3>4
  <2>4. Loop(run)
    <3> HIDE DEF Loop
    <3> QED
      BY <2>3
  <2> HIDE DEF run, Taking
  <2>5. 0 \in 0..c /\ \A i \in 1..c : i \in 0..c /\ i # 0
    BY <1>1
  <2> QED
    BY <2>4, <2>5
<1> HIDE DEF run
<1>5. Q(0)
  <2>1. Before(s, c, 0) = {}
    <3>1. \A j \in Taken(s, c) : ~(j < 0)
      BY DEF Taken
    <3> QED
      BY <3>1 DEF Before
  <2>2. K(0) = {}
    BY <2>1 DEF KeysOf
  <2>3. Restrict(M, K(0)) = None
    BY <2>2 DEF Restrict, None
  <2>4. Cardinality(Before(s, c, 0)) = 0
    BY <2>1, FS_EmptySet
  <2> QED
    BY <1>4, <2>3, <2>4
<1>6. ASSUME NEW i \in 1..c, Q(i - 1) PROVE Q(i)
  <2> DEFINE e == s[i - 1]
             B == Before(s, c, i - 1)
             x == run[i - 1]
  <2>0. i - 1 \in 0..(c - 1) /\ e \in Slots
    BY <1>3
  <2>1. CASE Used(e)
    <3>1. i - 1 \in Taken(s, c)
      BY <2>0, <2>1 DEF Taken
    <3>2. Before(s, c, i) = B \cup {i - 1} /\ i - 1 \notin B
      <4>1. \A j \in Taken(s, c) : j < i <=> (j < i - 1 \/ j = i - 1)
        BY DEF Taken
      <4> QED
        BY <3>1, <4>1 DEF Before
    <3>3. IsEntry(e) /\ e.key \in DOMAIN M /\ M[e.key] = e.val
      BY <1>1, <3>1 DEF Placed, Maps
    <3>4. K(i) = K(i - 1) \cup {e.key}
      BY <3>2 DEF KeysOf
    <3>5. e.key \notin K(i - 1)
      <4>1. \A j \in B : s[j].key # e.key
        BY <1>1, <3>1, <3>2 DEF Single, Before
      <4> QED
        BY <4>1 DEF KeysOf
    <3>6. Cardinality(Before(s, c, i)) = Cardinality(B) + 1
          /\ Cardinality(B) + 1 < d
      <4>1. Before(s, c, i) \in SUBSET Taken(s, c)
            /\ B \in SUBSET Taken(s, c)
        BY DEF Before
      <4>2. IsFiniteSet(Taken(s, c)) /\ Cardinality(Taken(s, c)) \in Nat
        BY <1>1, Counts
      <4>3. IsFiniteSet(B) /\ IsFiniteSet(Before(s, c, i))
            /\ Cardinality(Before(s, c, i)) <= Cardinality(Taken(s, c))
        BY <4>1, <4>2, FS_Subset
      <4>4. Cardinality(B \cup {i - 1}) = Cardinality(B) + 1
            /\ Cardinality(B) \in Nat
        BY <3>2, <4>3, FS_AddElement, FS_CardinalityType
      <4>5. Cardinality(Taken(s, c)) < d
        BY DEF s
      <4> HIDE DEF B
      <4> QED
        BY <1>1, <3>2, <4>2, <4>3, <4>4, <4>5
    <3>7. /\ Good(FreshInsert(x, e), d,
                  Plus(Restrict(M, K(i - 1)), e.key, e.val))
          /\ FreshInsert(x, e).not_empty = x.not_empty + 1
      <4>1. e.key \notin DOMAIN Restrict(M, K(i - 1))
        BY <3>5 DEF Restrict
      <4>2. x.not_empty + 1 < d /\ Good(x, d, Restrict(M, K(i - 1)))
        BY <1>6, <3>6
      <4> HIDE DEF x, e, K
      <4> QED
        BY <2>0, <3>3, <4>1, <4>2, FreshInsertIs
    <3>8. Plus(Restrict(M, K(i - 1)), e.key, e.val) = Restrict(M, K(i))
      <4> HIDE DEF K, e
      <4> QED
        BY <3>3, <3>4 DEF Plus, Restrict
    <3>9. run[i] = FreshInsert(x, e)
      BY <1>4, <2>1
    <3> HIDE DEF K, x, e, B
    <3> QED
      BY <1>6, <3>6, <3>7, <3>8, <3>9 DEF x, B
  <2>2. CASE ~Used(e)
    <3>1. Before(s, c, i) = B
      <4>1. i - 1 \notin Taken(s, c)
        BY <2>2 DEF Taken
      <4>2. \A j \in Taken(s, c) : j # i - 1 => (j < i <=> j < i - 1)
        BY DEF Taken
      <4> QED
        BY <4>1, <4>2 DEF Before
    <3>2. run[i] = run[i - 1]
      BY <1>4, <2>2
    <3> QED
      BY <1>6, <3>1, <3>2
  <2> QED
    BY <2>1, <2>2
<1>7. Q(c)
  <2> DEFINE P == {i \in 0..c : Q(i)}
  <2>1. P \in SUBSET (0..c) /\ 0 \in P
    BY <1>1, <1>5
  <2>2. \A i \in 1..c : i - 1 \in P => i \in P
    <3>1. \A i \in 1..c : i \in 0..c
      BY <1>1
    <3> HIDE DEF Q
    <3> QED
      BY <1>6, <3>1
  <2> HIDE DEF P
  <2>3. P = 0..c
    BY <1>1, <2>1, <2>2, Throughout
  <2>4. c \in P
    BY <1>1, <2>3
  <2> QED
    BY <2>4 DEF P
<1>8. Before(s, c, c) = Taken(s, c)
  BY <1>1 DEF Before, Taken
<1>9. Restrict(M, K(c)) = M
  <2>1. K(c) = DOMAIN M /\ M \in [DOMAIN M -> Values]
    BY <1>1, <1>8 DEF Maps, KeysOf
  <2> QED
    BY <2>1 DEF Restrict
<1> QED
  BY <1>2, <1>7, <1>8, <1>9 DEF s

(* A table made anew has all entries, and room for one more. *)
LEMMA ResizedIs ==
  ASSUME NEW t, NEW c, NEW M, Good(t, c, M), c <= MaxCapacity,
         NEW n \in Nat, size(t) <= n
  PROVE  \E d \in Capacities :
           /\ Good(Resized(t, n), d, M)
           /\ Resized(t, n).not_empty = size(t)
           /\ 10 * n < 8 * d
<1>1. PICK d \in Capacities :
        /\ Good(Fresh(n), d, None) /\ 10 * n < 8 * d
        /\ Fresh(n).not_empty = 0
  BY FreshIs
<1>2. size(t) = Cardinality(Taken(t.slots, c)) /\ size(t) \in Nat
  BY SizeIs
<1>3. d \in Nat
  BY CapacityType
<1>4. Cardinality(Taken(t.slots, c)) < d
  BY <1>1, <1>2, <1>3
<1>5. /\ Good(Copied(Fresh(n), t), d, M)
      /\ Copied(Fresh(n), t).not_empty = Cardinality(Taken(t.slots, c))
  <2> DEFINE into == Fresh(n)
  <2> HIDE DEF into
  <2>1. Good(into, d, None) /\ into.not_empty = 0
    BY <1>1 DEF into
  <2>2. /\ Good(Copied(into, t), d, M)
        /\ Copied(into, t).not_empty = Cardinality(Taken(t.slots, c))
    BY <1>4, <2>1, CopiedIs
  <2> QED
    BY <2>2 DEF into
<1> QED
  BY <1>1, <1>2, <1>5 DEF Resized

(* Before a new entry is made there is room for it. *)
LEMMA MaybeResizeIs ==
  ASSUME NEW t, NEW c, NEW M, Good(t, c, M), c <= MaxCapacity
  PROVE  \E d \in Capacities :
           /\ Good(MaybeResize(t), d, M)
           /\ MaybeResize(t).not_empty + 1 < d
<1> DEFINE grow == IF t.grow = 0 /\ size(t) >= t.shrink
                     THEN (8 * Capacity(t)) \div 10 ELSE t.grow
           r == [t EXCEPT !.grow = grow]
<1>1. /\ c \in Capacities /\ c \in Nat \ {0} /\ t \in TablesOf(c)
      /\ Capacity(t) = c /\ Tallied(t, c) /\ Orderly(t.slots, c, M)
      /\ t.grow \in Nat /\ t.grow <= (8 * c) \div 10 /\ t.not_empty \in Nat
  BY CapacityType, CapacityOf DEF Good, Tallied, TablesOf
<1>2. grow \in Nat /\ grow <= (8 * c) \div 10
  BY <1>1
<1>3. MaybeResize(t) = IF t.not_empty < grow THEN r
                       ELSE Resized(t, size(t) + 1)
  BY DEF MaybeResize
<1> HIDE DEF grow
<1>4. CASE t.not_empty < grow
  <2>1. /\ r.slots = t.slots /\ r.not_empty = t.not_empty
        /\ r.deleted = t.deleted /\ r.grow = grow /\ r \in TablesOf(c)
    BY <1>1, <1>2 DEF TablesOf
  <2> HIDE DEF r
  <2>2. Good(r, c, M)
    BY <1>1, <1>2, <2>1 DEF Good, Tallied
  <2>3. r.not_empty + 1 < c
    BY <1>1, <1>2, <1>4, <2>1
  <2> QED
    BY <1>1, <1>3, <1>4, <2>2, <2>3
<1>5. CASE ~(t.not_empty < grow)
  <2>1. size(t) \in Nat
    BY SizeIs
  <2> DEFINE n == size(t) + 1
  <2>2. n \in Nat /\ size(t) <= n
    BY <2>1
  <2> HIDE DEF n
  <2>3. PICK d \in Capacities :
          /\ Good(Resized(t, n), d, M)
          /\ Resized(t, n).not_empty = size(t)
          /\ 10 * n < 8 * d
    BY <2>2, ResizedIs
  <2>4. d \in Nat
    BY CapacityType
  <2>5. size(t) + 1 < d
    BY <2>1, <2>3, <2>4 DEF n
  <2> QED
    BY <1>3, <1>5, <2>3, <2>5 DEF n
<1> QED
  BY <1>4, <1>5

-----------------------------------------------------------------------------
(* Calls that take entries away.                                           *)

LEMMA ErasedType ==
  ASSUME NEW c \in Capacities, NEW x \in TablesOf(c), NEW i
  PROVE  Erased(x, i) \in TablesOf(c)
<1> DEFINE e == Vacant(kDeleted)
           s == x.slots
           s2 == [s EXCEPT ![i] = e]
<1>1. e \in Slots
  BY DEF Slots, Vacant, kDeleted
<1>2. s \in [0..(c - 1) -> Slots] /\ x.deleted \in Nat
  BY DEF TablesOf, SlotsOf
<1>3. Erased(x, i) = [x EXCEPT !.slots = s2, !.deleted = @ + 1, !.grow = 0]
  BY DEF Erased
<1> HIDE DEF e, s
<1>4. s2 \in SlotsOf(c)
  <2>1. s2 \in [0..(c - 1) -> Slots]
    BY <1>1, <1>2
  <2> QED
    BY <2>1 DEF SlotsOf
<1> HIDE DEF s2
<1>5. x.deleted + 1 \in Nat /\ 0 \in Nat
  BY <1>2
<1> QED
  BY <1>3, <1>4, <1>5 DEF TablesOf

(* The loop of EraseIf. *)
EraseAllOf(t, v) ==
  LET erased[i \in 0..Capacity(t)] ==
        IF i = 0 THEN t
        ELSE IF Used(t.slots[i - 1]) /\ t.slots[i - 1].val = v
        THEN Erased(erased[i - 1], i - 1)
        ELSE erased[i - 1]
  IN  erased[Capacity(t)]

LEMMA EraseAllIs ==
  ASSUME NEW t, NEW c, NEW M, Good(t, c, M), NEW v
  PROVE  Good(EraseAllOf(t, v), c, Restrict(M, {k \in DOMAIN M : M[k] # v}))
<1> DEFINE s == t.slots
           Goes(i) == Used(s[i - 1]) /\ s[i - 1].val = v
           Taking(g, i) == IF Goes(i) THEN Erased(g[i - 1], i - 1)
                           ELSE g[i - 1]
           Loop(g) == g = [i \in 0..c |-> IF i = 0 THEN t ELSE Taking(g, i)]
           run == CHOOSE g : Loop(g)
           B(i) == {j \in Before(s, c, i) : s[j].val = v}
           K(i) == DOMAIN M \ KeysOf(s, B(i))
           Q(i) == /\ Good(run[i], c, Restrict(M, K(i)))
                   /\ \A j \in i..(c - 1) : run[i].slots[j] = s[j]
<1>1. /\ c \in Capacities /\ c \in Nat \ {0} /\ t \in TablesOf(c)
      /\ s \in SlotsOf(c)
      /\ Placed(s, c) /\ Single(s, c) /\ Maps(s, c, M)
  BY CapacityType DEF Good, Orderly, TablesOf
<1>2. EraseAllOf(t, v) = run[c]
  <2>1. Capacity(t) = c
    BY <1>1, CapacityOf
  <2> QED
    BY <2>1 DEF EraseAllOf
<1>3. \A i \in 1..c : i - 1 \in 0..(c - 1) /\ s[i - 1] \in Slots
  BY <1>1 DEF SlotsOf
<1> HIDE DEF s
<1>4. run[0] = t /\ \A i \in 1..c : run[i] = Taking(run, i)
  <2> DEFINE F == [i \in 1..c |-> [x \in TablesOf(c) |->
                     IF Goes(i) THEN Erased(x, i - 1) ELSE x]]
  <2>1. F \in Steps(c, TablesOf(c))
    <3>1. ASSUME NEW i \in 1..c, NEW x \in TablesOf(c)
          PROVE  Erased(x, i - 1) \in TablesOf(c)
      BY <1>1, ErasedType
    <3> QED
      BY <3>1 DEF Steps
  <2> HIDE DEF F
  <2>2. PICK g \in Runs(F, t, c, TablesOf(c)) : TRUE
    BY <1>1, <2>1, Iterates
  <2>3. Loop(g)
    <3>1. /\ g \in [0..c -> TablesOf(c)] /\ g[0] = t
          /\ \A i \in 1..c : g[i] = F[i][g[i - 1]]
      BY <2>2 DEF Runs
    <3>2. \A i \in 1..c : i - 1 \in 0..c /\ g[i - 1] \in TablesOf(c)
      BY <1>1, <3>1
    <3>3. \A i \in 1..c : g[i] = Taking(g, i)
      BY <3>1, <3>2 DEF F
    <3> HIDE DEF Taking
    <3>4. \A i \in 0..c : i # 0 => i \in 1..c
      BY <1>1
    <3> QED
      BY <3>1, <3>3, <3>4
  <2>4. Loop(run)
    <3> HIDE DEF Loop
    <3> QED
      BY <2>3
  <2> HIDE DEF run, Taking
  <2>5. 0 \in 0..c /\ \A i \in 1..c : i \in 0..c /\ i # 0
    BY <1>1
  <2> QED
    BY <2>4, <2>5
<1> HIDE DEF run
<1>5. Q(0)
  <2>1. B(0) = {}
    <3>1. \A j \in Taken(s, c) : ~(j < 0)
      BY DEF Taken
    <3> QED
      BY <3>1 DEF Before
  <2>2. K(0) = DOMAIN M
    BY <2>1 DEF KeysOf
  <2>3. M \in [DOMAIN M -> Values]
    BY <1>1 DEF Maps
  <2>4. Restrict(M, K(0)) = M
    BY <2>2, <2>3 DEF Restrict
  <2> QED
    BY <1>4, <2>4 DEF s
<1>6. ASSUME NEW i \in 1..c, Q(i - 1) PROVE Q(i)
  <2> DEFINE e == s[i - 1]
             x == run[i - 1]
             N == Restrict(M, K(i - 1))
  <2>0. /\ i - 1 \in 0..(c - 1) /\ e \in Slots
        /\ i - 1 \in (i - 1)..(c - 1)
        /\ \A j \in i..(c - 1) :
             j \in (i - 1)..(c - 1) /\ j # i - 1 /\ j \in 0..(c - 1)
    BY <1>3
  <2>1. Good(x, c, N) /\ x.slots[i - 1] = e /\ x.slots \in SlotsOf(c)
        /\ \A j \in i..(c - 1) : x.slots[j] = s[j]
    <3>1. Good(x, c, N) /\ \A j \in (i - 1)..(c - 1) : x.slots[j] = s[j]
      BY <1>6
    <3>2. x.slots \in SlotsOf(c)
      BY <3>1 DEF Good, TablesOf
    <3> QED
      BY <2>0, <3>1, <3>2
  <2>2. CASE Goes(i)
    <3>1. i - 1 \in Taken(s, c) /\ i - 1 \in Taken(x.slots, c)
      BY <2>0, <2>1, <2>2 DEF Taken
    <3>2. B(i) = B(i - 1) \cup {i - 1}
      <4>1. \A j \in Taken(s, c) : j < i <=> (j < i - 1 \/ j = i - 1)
        BY DEF Taken
      <4> QED
        BY <2>2, <3>1, <4>1 DEF Before
    <3>3. K(i) = K(i - 1) \ {e.key}
      BY <3>2 DEF KeysOf
    <3>4. run[i] = Erased(x, i - 1)
      BY <1>4, <2>2
    <3> HIDE DEF x, e, K
    <3>5. /\ Good(Erased(x, i - 1), c, Restrict(N, DOMAIN N \ {e.key}))
          /\ Erased(x, i - 1).slots
               = [x.slots EXCEPT ![i - 1] = Vacant(kDeleted)]
      <4> HIDE DEF N
      <4>1. /\ Good(Erased(x, i - 1), c,
                    Restrict(N, DOMAIN N \ {x.slots[i - 1].key}))
            /\ Erased(x, i - 1).slots
                 = [x.slots EXCEPT ![i - 1] = Vacant(kDeleted)]
        BY <2>1, <3>1, ErasedIs
      <4> QED
        BY <2>1, <4>1
    <3>6. Restrict(N, DOMAIN N \ {e.key}) = Restrict(M, K(i))
      <4>1. DOMAIN N = K(i - 1) /\ \A k \in K(i - 1) : N[k] = M[k]
        BY DEF Restrict
      <4> HIDE DEF N
      <4> QED
        BY <3>3, <4>1 DEF Restrict
    <3>7. \A j \in i..(c - 1) : Erased(x, i - 1).slots[j] = s[j]
      BY <2>0, <2>1, <3>5 DEF SlotsOf
    <3> QED
      BY <3>4, <3>5, <3>6, <3>7
  <2>3. CASE ~Goes(i)
    <3>1. B(i) = B(i - 1)
      <4>1. i - 1 \notin Taken(s, c) \/ e.val # v
        BY <2>3 DEF Taken
      <4>2. \A j \in Taken(s, c) : j # i - 1 => (j < i <=> j < i - 1)
        BY DEF Taken
      <4>3. i - 1 < i /\ ~(i - 1 < i - 1)
        OBVIOUS
      <4> QED
        BY <4>1, <4>2, <4>3 DEF Before
    <3>2. run[i] = x
      BY <1>4, <2>3
    <3> QED
      BY <2>1, <3>1, <3>2
  <2> QED
    BY <2>2, <2>3
<1>7. Q(c)
  <2> DEFINE P == {i \in 0..c : Q(i)}
  <2>1. P \in SUBSET (0..c) /\ 0 \in P
    BY <1>1, <1>5
  <2>2. \A i \in 1..c : i - 1 \in P => i \in P
    <3>1. \A i \in 1..c : i \in 0..c
      BY <1>1
    <3> HIDE DEF Q
    <3> QED
      BY <1>6, <3>1
  <2> HIDE DEF P
  <2>3. P = 0..c
    BY <1>1, <2>1, <2>2, Throughout
  <2>4. c \in P
    BY <1>1, <2>3
  <2> QED
    BY <2>4 DEF P
<1>8. K(c) = {k \in DOMAIN M : M[k] # v}
  <2>1. B(c) = {j \in Taken(s, c) : s[j].val = v}
    BY <1>1 DEF Before, Taken
  <2>2. /\ DOMAIN M = {s[j].key : j \in Taken(s, c)}
        /\ \A j \in Taken(s, c) : M[s[j].key] = s[j].val
    BY <1>1 DEF Maps
  <2>3. KeysOf(s, B(c)) = {k \in DOMAIN M : M[k] = v}
    <3> HIDE DEF B
    <3> QED
      BY <2>1, <2>2 DEF KeysOf
  <2> QED
    BY <2>3
<1> QED
  BY <1>2, <1>7, <1>8

(* In a table without deleted slots nothing is left by a clear. *)
LEMMA EmptiedIs ==
  ASSUME NEW t, NEW c, NEW M, Good(t, c, M), Tombs(t.slots, c) = {}
  PROVE  Good([Emptied(t) EXCEPT !.grow = 0], c, None)
<1> DEFINE s == [i \in DOMAIN t.slots |->
                   IF Used(t.slots[i]) THEN Vacant(kEmpty) ELSE t.slots[i]]
           r == [Emptied(t) EXCEPT !.grow = 0]
<1>1. /\ c \in Capacities /\ c \in Nat \ {0} /\ t \in TablesOf(c)
      /\ t.slots \in SlotsOf(c)
  BY CapacityType DEF Good, TablesOf
<1>2. s \in SlotsOf(c) /\ \A i \in 0..(c - 1) : s[i].mark = kEmpty
  <2>1. DOMAIN t.slots = 0..(c - 1)
        /\ \A i \in 0..(c - 1) : t.slots[i] \in Slots
    BY <1>1 DEF SlotsOf
  <2>2. Vacant(kEmpty) \in Slots /\ Vacant(kEmpty).mark = kEmpty
    BY DEF Vacant, Slots, kEmpty
  <2>3. \A i \in 0..(c - 1) : ~Used(t.slots[i]) => t.slots[i].mark = kEmpty
    BY <2>1 DEF Tombs, Used, Slots, kDeleted, kEmpty
  <2> QED
    BY <2>1, <2>2, <2>3 DEF SlotsOf
<1>3. r = [[t EXCEPT !.slots = s, !.not_empty = 0, !.deleted = 0]
             EXCEPT !.grow = 0]
  BY DEF Emptied
<1> HIDE DEF s, r
<1>4. /\ r.slots = s /\ r.not_empty = 0 /\ r.deleted = 0 /\ r.grow = 0
      /\ r \in TablesOf(c)
  BY <1>1, <1>2, <1>3 DEF TablesOf
<1>5. /\ Orderly(s, c, None)
      /\ Cardinality(Full(s, c)) = 0 /\ Cardinality(Tombs(s, c)) = 0
  BY <1>1, <1>2, EmptySlots
<1>6. Tallied(r, c)
  <2>1. 0 <= (8 * c) \div 10
    BY <1>1
  <2> QED
    BY <1>1, <1>4, <1>5, <2>1 DEF Tallied
<1> QED
  BY <1>1, <1>4, <1>5, <1>6 DEF Good, r

-----------------------------------------------------------------------------
(* Calls.                                                                  *)

(* The map a table is. *)
MapOf(t) ==
  LET at(k) == {i \in DOMAIN t.slots : Used(t.slots[i]) /\ t.slots[i].key = k}
  IN  [k \in {k \in Keys : at(k) # {}} |->
         t.slots[CHOOSE i \in at(k) : TRUE].val]

LEMMA GoodIs ==
  ASSUME NEW t, NEW c, NEW M, Good(t, c, M)
  PROVE  c = Capacity(t) /\ M = MapOf(t)
<1> DEFINE s == t.slots
           at(k) == {i \in DOMAIN s : Used(s[i]) /\ s[i].key = k}
<1>1. /\ c \in Capacities /\ t \in TablesOf(c) /\ Maps(s, c, M)
      /\ Capacity(t) = c /\ DOMAIN s = 0..(c - 1)
  BY CapacityOf DEF Good, Orderly
<1> HIDE DEF s
<1>2. \A k : at(k) = {i \in Taken(s, c) : s[i].key = k}
  BY <1>1 DEF Taken
<1>3. /\ DOMAIN M = {s[i].key : i \in Taken(s, c)} /\ DOMAIN M \subseteq Keys
      /\ \A i \in Taken(s, c) : M[s[i].key] = s[i].val
      /\ M \in [DOMAIN M -> Values]
  BY <1>1 DEF Maps
<1>4. MapOf(t) = [k \in {k \in Keys : at(k) # {}} |->
                    s[CHOOSE i \in at(k) : TRUE].val]
  BY DEF MapOf, s
<1> HIDE DEF at
<1>5. {k \in Keys : at(k) # {}} = DOMAIN M
  BY <1>2, <1>3
<1>6. ASSUME NEW k \in DOMAIN M
      PROVE  s[CHOOSE i \in at(k) : TRUE].val = M[k]
  <2> DEFINE i == CHOOSE i \in at(k) : TRUE
  <2>1. at(k) # {}
    BY <1>5
  <2>2. i \in at(k)
    BY <2>1
  <2> HIDE DEF i
  <2>3. s[i].val = M[k]
    BY <1>2, <1>3, <2>2
  <2> QED
    BY <2>3 DEF i
<1>7. M = [k \in DOMAIN M |-> M[k]]
  BY <1>3
<1> DEFINE F(k) == s[CHOOSE i \in at(k) : TRUE].val
<1>8. MapOf(t) = [k \in DOMAIN M |-> F(k)] /\ \A k \in DOMAIN M : F(k) = M[k]
  BY <1>4, <1>5, <1>6
<1> HIDE DEF F
<1> QED
  BY <1>1, <1>7, <1>8

(* The table of a call, and the map it is for. *)
Table(t, c, M) == Good(t, c, M) /\ c <= MaxCapacity

LEMMA PutIs ==
  ASSUME NEW op, NEW k, NEW v, NEW t, NEW c, NEW M, Good(t, c, M),
         Put(op, k, v, t)
  PROVE  Table(table', c, M) /\ call' = <<op, k, v>>
BY GoodIs DEF Put, Table

LEMMA InsertedCapacity ==
  ASSUME NEW c \in Capacities, NEW t \in TablesOf(c), NEW k, NEW v
  PROVE  Capacity(Inserted(t, k, v)) = c
<1> DEFINE e == Slot(Marker(k), k, v)
           s == t.slots
           r == Inserted(t, k, v)
           i == IF DeletedProbes(t, k) = {} THEN FoundAt(t, k)
                ELSE Probe(t, k, Min(DeletedProbes(t, k)))
<1>1. s \in SlotsOf(c)
  BY DEF TablesOf
<1>2. r.slots = [s EXCEPT ![i] = e]
  BY DEF Inserted, TablesOf
<1> HIDE DEF i, e, r
<1>3. DOMAIN r.slots = 0..(c - 1)
  BY <1>1, <1>2 DEF SlotsOf
<1> QED
  BY <1>3, CapacityType DEF Capacity, r

(* A key and a value for it, in a table that has or has not got it. *)
LEMMA NewEntry ==
  ASSUME NEW op, NEW t, NEW c, NEW M, Good(t, c, M), t.not_empty + 1 < c,
         NEW k \in Keys, k \notin DOMAIN M, NEW v \in Values,
         Put(op, k, v, Inserted(t, k, v))
  PROVE  Table(table', c, Plus(M, k, v)) /\ call' = <<op, k, v>>
<1>1. c \in Capacities /\ t \in TablesOf(c)
  BY DEF Good
<1>2. Capacity(Inserted(t, k, v)) = c
  BY <1>1, InsertedCapacity
<1>3. c <= MaxCapacity
  BY <1>2 DEF Put
<1>4. Good(Inserted(t, k, v), c, Plus(M, k, v))
  BY <1>3, InsertedIs
<1> QED
  BY <1>4, PutIs

LEMMA InsertStep ==
  ASSUME NEW c, NEW M, Table(table, c, M), NEW k \in Keys, NEW v \in Values,
         Insert(k, v)
  PROVE  \E d : /\ Table(table', d, IF k \in DOMAIN M THEN M
                                    ELSE Plus(M, k, v))
                /\ call' = <<"insert", k, v>>
<1> DEFINE t == MaybeResize(table)
<1>1. PICK d \in Capacities : Good(t, d, M) /\ t.not_empty + 1 < d
  BY MaybeResizeIs DEF Table
<1>2. Put("insert", k, v, IF Find(t, k) THEN t ELSE Inserted(t, k, v))
  BY DEF Insert
<1> HIDE DEF t
<1>3. Find(t, k) <=> k \in DOMAIN M
  BY <1>1, FindIs
<1>4. CASE k \in DOMAIN M
  <2>1. Put("insert", k, v, t)
    BY <1>2, <1>3, <1>4
  <2> QED
    BY <1>1, <1>4, <2>1, PutIs
<1>5. CASE k \notin DOMAIN M
  <2>1. Put("insert", k, v, Inserted(t, k, v))
    BY <1>2, <1>3, <1>5
  <2> QED
    BY <1>1, <1>5, <2>1, NewEntry
<1> QED
  BY <1>4, <1>5

LEMMA IndexStep ==
  ASSUME NEW c, NEW M, Table(table, c, M), NEW k \in Keys, NEW v \in Values,
         IndexOp(k, v)
  PROVE  \E d : /\ Table(table', d, Plus(M, k, v))
                /\ call' = <<"assign", k, v>>
<1> DEFINE t == MaybeResize(table)
           r == [t EXCEPT !.slots[FoundAt(t, k)].val = v]
<1>1. PICK d \in Capacities : Good(t, d, M) /\ t.not_empty + 1 < d
  BY MaybeResizeIs DEF Table
<1>2. Put("assign", k, v, IF Find(t, k) THEN r ELSE Inserted(t, k, v))
  BY DEF IndexOp
<1> HIDE DEF t
<1>3. Find(t, k) <=> k \in DOMAIN M
  BY <1>1, FindIs
<1>4. CASE k \in DOMAIN M
  <2>1. Good(r, d, Plus(M, k, v))
    BY <1>1, <1>4, ReassignedIs
  <2> HIDE DEF r
  <2>2. Put("assign", k, v, r)
    BY <1>2, <1>3, <1>4
  <2> QED
    BY <2>1, <2>2, PutIs
<1>5. CASE k \notin DOMAIN M
  <2>1. Put("assign", k, v, Inserted(t, k, v))
    BY <1>2, <1>3, <1>5
  <2> QED
    BY <1>1, <1>5, <2>1, NewEntry
<1> QED
  BY <1>4, <1>5

LEMMA EraseStep ==
  ASSUME NEW c, NEW M, Table(table, c, M), NEW k \in Keys, Erase(k)
  PROVE  \E d : /\ Table(table', d, Restrict(M, DOMAIN M \ {k}))
                /\ call' = <<"erase", k, 0>>
<1> DEFINE i == FoundAt(table, k)
<1>1. Put("erase", k, 0, IF Find(table, k) THEN Erased(table, i) ELSE table)
  BY DEF Erase
<1>2. Good(table, c, M)
  BY DEF Table
<1>3. CASE Find(table, k)
  <2>1. i \in Taken(table.slots, c) /\ table.slots[i].key = k
    BY <1>2, <1>3, FindIs
  <2> HIDE DEF i
  <2>2. Good(Erased(table, i), c, Restrict(M, DOMAIN M \ {k}))
    BY <1>2, <2>1, ErasedIs
  <2>3. Put("erase", k, 0, Erased(table, i))
    BY <1>1, <1>3
  <2> QED
    BY <2>2, <2>3, PutIs
<1>4. CASE ~Find(table, k)
  <2>1. k \notin DOMAIN M
    BY <1>2, <1>4, FindIs
  <2>2. M \in [DOMAIN M -> Values]
    BY <1>2 DEF Good, Orderly, Maps
  <2>3. Restrict(M, DOMAIN M \ {k}) = M
    BY <2>1, <2>2 DEF Restrict
  <2>4. Put("erase", k, 0, table)
    BY <1>1, <1>4
  <2> QED
    BY <1>2, <2>3, <2>4, PutIs
<1> QED
  BY <1>3, <1>4

LEMMA EraseAllStep ==
  ASSUME NEW c, NEW M, Table(table, c, M), NEW v \in Values, EraseIf(v)
  PROVE  \E d : /\ Table(table', d,
                         Restrict(M, {k \in DOMAIN M : M[k] # v}))
                /\ call' = <<"erase all", 0, v>>
<1>1. Put("erase all", 0, v, EraseAllOf(table, v))
  BY DEF EraseIf, EraseAllOf
<1>2. Good(table, c, M)
  BY DEF Table
<1>3. Good(EraseAllOf(table, v), c, Restrict(M, {k \in DOMAIN M : M[k] # v}))
  BY <1>2, EraseAllIs
<1> QED
  BY <1>1, <1>3, PutIs

LEMMA ReserveStep ==
  ASSUME NEW c, NEW M, Table(table, c, M), NEW n \in 0..Cardinality(Keys),
         Reserve(n)
  PROVE  \E d : Table(table', d, M) /\ call' = <<"reserve", 0, 0>>
<1> DEFINE m == Max({n, size(table)})
<1>1. n \in Nat
  <2>1. Cardinality(Keys) \in Nat
    BY HashAssumption, FS_CardinalityType
  <2> QED
    BY <2>1
<1>2. size(table) \in Nat
  BY SizeIs DEF Table
<1>3. m \in Nat /\ size(table) <= m
  <2> DEFINE z == size(table)
  <2> HIDE DEF z
  <2>1. \E x \in {n, z} : \A y \in {n, z} : x >= y
    <3>1. z \in Nat
      BY <1>2 DEF z
    <3>2. CASE n >= z
      BY <1>1, <3>1, <3>2
    <3>3. CASE z >= n
      BY <1>1, <3>1, <3>3
    <3> QED
      BY <1>1, <3>1, <3>2, <3>3
  <2>2. Max({n, z}) \in {n, z} /\ \A y \in {n, z} : Max({n, z}) >= y
    BY <2>1 DEF Max
  <2>3. Max({n, z}) \in Nat /\ z <= Max({n, z})
    BY <1>1, <1>2, <2>2 DEF z
  <2> QED
    BY <2>3 DEF z
<1>4. Put("reserve", 0, 0, Resized(table, m))
  BY DEF Reserve
<1> HIDE DEF m
<1>5. PICK d \in Capacities : Good(Resized(table, m), d, M)
  BY <1>3, ResizedIs DEF Table
<1> QED
  BY <1>4, <1>5, PutIs

LEMMA CopyStep ==
  ASSUME NEW c, NEW M, Table(table, c, M), Copy
  PROVE  \E d : Table(table', d, M) /\ call' = <<"copy", 0, 0>>
<1> DEFINE m == size(table)
<1>1. m \in Nat /\ size(table) <= m
  BY SizeIs DEF Table
<1>2. Put("copy", 0, 0, Resized(table, m))
  BY DEF Copy, Resized
<1> HIDE DEF m
<1>3. PICK d \in Capacities : Good(Resized(table, m), d, M)
  BY <1>1, ResizedIs DEF Table
<1> QED
  BY <1>2, <1>3, PutIs

LEMMA ClearStep ==
  ASSUME NEW c, NEW M, Table(table, c, M), NoTombstones, Clear
  PROVE  \E d : Table(table', d, None) /\ call' = <<"clear", 0, 0>>
<1> DEFINE t == [Emptied(table) EXCEPT !.grow = 0]
<1>1. Good(table, c, M) /\ c <= MaxCapacity
  BY DEF Table
<1>2. Tombs(table.slots, c) = {}
  <2>1. DOMAIN table.slots = 0..(c - 1)
    BY <1>1, CapacityOf DEF Good
  <2> QED
    BY <2>1 DEF NoTombstones, Tombs
<1>3. Good(t, c, None)
  BY <1>1, <1>2, EmptiedIs
<1>4. Put("clear", 0, 0, MaybeResize(t))
  BY DEF Clear
<1> HIDE DEF t
<1>5. PICK d \in Capacities : Good(MaybeResize(t), d, None)
  BY <1>1, <1>3, MaybeResizeIs
<1> QED
  BY <1>4, <1>5, PutIs

-----------------------------------------------------------------------------
(* The table is always that of a map: every entry is on the way of a       *)
(* search for its key, alone, and the counts are right.                    *)
Sound == Table(table, Capacity(table), MapOf(table))

LEMMA SoundIf ==
  ASSUME NEW t, NEW c, NEW M, Table(t, c, M)
  PROVE  Table(t, Capacity(t), MapOf(t)) /\ MapOf(t) = M
BY GoodIs DEF Table

LEMMA SoundAtFirst == Init => Sound
<1> SUFFICES ASSUME Init PROVE Sound
  OBVIOUS
<1>1. PICK n \in 0..Cardinality(Keys) : table = Fresh(n)
  BY DEF Init
<1>2. n \in Nat
  <2>1. Cardinality(Keys) \in Nat
    BY HashAssumption, FS_CardinalityType
  <2> QED
    BY <2>1
<1>3. PICK c \in Capacities : Good(table, c, None)
  BY <1>1, <1>2, FreshIs
<1>4. c <= MaxCapacity
  BY <1>3, GoodIs DEF Init
<1> QED
  BY <1>3, <1>4, SoundIf DEF Sound, Table

(* What each call does to the map. *)
LEMMA StepIs ==
  ASSUME Sound, Next
  PROVE  /\ Sound'
         /\ \/ \E k \in Keys, v \in Values :
                 /\ call' = <<"insert", k, v>>
                 /\ MapOf(table') = IF k \in DOMAIN MapOf(table)
                                      THEN MapOf(table)
                                      ELSE Plus(MapOf(table), k, v)
            \/ \E k \in Keys, v \in Values :
                 /\ call' = <<"assign", k, v>>
                 /\ MapOf(table') = Plus(MapOf(table), k, v)
            \/ \E k \in Keys :
                 /\ call' = <<"erase", k, 0>>
                 /\ MapOf(table') = Restrict(MapOf(table),
                                             DOMAIN MapOf(table) \ {k})
            \/ \E v \in Values :
                 /\ call' = <<"erase all", 0, v>>
                 /\ MapOf(table') =
                      Restrict(MapOf(table), {k \in DOMAIN MapOf(table) :
                                                MapOf(table)[k] # v})
            \/ call' = <<"clear", 0, 0>> /\ MapOf(table') = None
            \/ /\ call' \in {<<"reserve", 0, 0>>, <<"copy", 0, 0>>}
               /\ MapOf(table') = MapOf(table)
<1> DEFINE c == Capacity(table)
           M == MapOf(table)
<1>0. Table(table, c, M)
  BY DEF Sound
<1>s. ASSUME NEW d, NEW N, Table(table', d, N)
      PROVE  Sound' /\ MapOf(table') = N
  BY <1>s, SoundIf DEF Sound
<1> HIDE DEF c, M, Sound
<1>1. ASSUME NEW k \in Keys, NEW v \in Values, Insert(k, v)
      PROVE  /\ Sound' /\ call' = <<"insert", k, v>>
             /\ MapOf(table') = IF k \in DOMAIN M THEN M ELSE Plus(M, k, v)
  BY <1>0, <1>1, <1>s, InsertStep
<1>2. ASSUME NEW k \in Keys, NEW v \in Values, IndexOp(k, v)
      PROVE  /\ Sound' /\ call' = <<"assign", k, v>>
             /\ MapOf(table') = Plus(M, k, v)
  BY <1>0, <1>2, <1>s, IndexStep
<1>3. ASSUME NEW k \in Keys, Erase(k)
      PROVE  /\ Sound' /\ call' = <<"erase", k, 0>>
             /\ MapOf(table') = Restrict(M, DOMAIN M \ {k})
  BY <1>0, <1>3, <1>s, EraseStep
<1>4. ASSUME NEW v \in Values, EraseIf(v)
      PROVE  /\ Sound' /\ call' = <<"erase all", 0, v>>
             /\ MapOf(table') = Restrict(M, {k \in DOMAIN M : M[k] # v})
  BY <1>0, <1>4, <1>s, EraseAllStep
<1>5. ASSUME NEW n \in 0..Cardinality(Keys), Reserve(n)
      PROVE  Sound' /\ call' = <<"reserve", 0, 0>> /\ MapOf(table') = M
  BY <1>0, <1>5, <1>s, ReserveStep
<1>6. ASSUME Copy
      PROVE  Sound' /\ call' = <<"copy", 0, 0>> /\ MapOf(table') = M
  BY <1>0, <1>6, <1>s, CopyStep
<1>7. ASSUME NoTombstones, Clear
      PROVE  Sound' /\ call' = <<"clear", 0, 0>> /\ MapOf(table') = None
  BY <1>0, <1>7, <1>s, ClearStep
<1> QED
  BY <1>1, <1>2, <1>3, <1>4, <1>5, <1>6, <1>7 DEF Next, Change, M

(* The table is sound in every state. *)
THEOREM AlwaysSound == Spec => []Sound
<1>1. Sound /\ UNCHANGED vars => Sound'
  BY DEF Sound, vars
<1>2. Sound /\ [Next]_vars => Sound'
  BY <1>1, StepIs
<1> QED
  BY <1>2, SoundAtFirst, PTL DEF Spec

(* Every search in flatrep.h ends: there is always an empty slot, because  *)
(* not_empty_ and deleted_ are what they are said to be.                   *)
THEOREM SearchesAlwaysEnd == Spec => []SearchesEnd
<1>1. Sound => SearchesEnd
  <2> SUFFICES ASSUME Sound PROVE SearchesEnd
    OBVIOUS
  <2> DEFINE c == Capacity(table)
             M == MapOf(table)
             s == table.slots
  <2>1. Good(table, c, M)
    BY DEF Sound, Table
  <2> HIDE DEF c, M
  <2>2. /\ c \in Capacities /\ table \in TablesOf(c) /\ c \in Nat
        /\ table.not_empty = Cardinality(Full(s, c))
        /\ table.deleted = Cardinality(Tombs(s, c))
        /\ DOMAIN s = 0..(c - 1)
        /\ IsFiniteSet(0..(c - 1)) /\ Cardinality(0..(c - 1)) = c
    BY <2>1, CapacityOf, CapacityType DEF Good, Tallied
  <2> HIDE DEF s
  <2>3. Marked(kDeleted) = Tombs(s, c)
        /\ Marked(kEmpty) = (0..(c - 1)) \ Full(s, c)
    BY <2>2 DEF Marked, Tombs, Full, s
  <2>4. Cardinality(Marked(kEmpty)) = c - table.not_empty
    <3>1. Full(s, c) \cap (0..(c - 1)) = Full(s, c)
      BY DEF Full
    <3>2. Cardinality((0..(c - 1)) \ Full(s, c))
            = Cardinality(0..(c - 1))
                - Cardinality((0..(c - 1)) \cap Full(s, c))
      BY <2>2, FS_Difference
    <3>3. (0..(c - 1)) \cap Full(s, c) = Full(s, c)
      BY <3>1
    <3> QED
      BY <2>2, <2>3, <3>2, <3>3
  <2>5. Counted
    <3>1. table.not_empty \in Nat
      BY <2>2 DEF TablesOf
    <3> QED
      BY <2>2, <2>3, <2>4, <3>1 DEF Counted, c
  <2>6. \A k \in Keys : Stops(table, k) # {}
    BY <2>1, SearchEnds
  <2> QED
    BY <2>5, <2>6 DEF SearchesEnd
<1> QED
  BY <1>1, AlwaysSound, PTL

(* Find finds the one entry there is of a key, whatever was probed,        *)
(* deleted, resized or copied before (flatrep.h).                          *)
THEOREM EntriesFoundOnce == Spec => []FoundOnce
<1>1. Sound => FoundOnce
  <2> SUFFICES ASSUME Sound, NEW k \in Keys
               PROVE  At(k) = IF Find(table, k) THEN {FoundAt(table, k)}
                              ELSE {}
    BY DEF FoundOnce
  <2> DEFINE c == Capacity(table)
             M == MapOf(table)
             s == table.slots
  <2>1. Good(table, c, M)
    BY DEF Sound, Table
  <2> HIDE DEF c, M
  <2>2. Single(s, c) /\ DOMAIN s = 0..(c - 1)
    BY <2>1, CapacityOf DEF Good, Orderly
  <2>3. At(k) = {i \in Taken(s, c) : s[i].key = k}
    BY <2>2 DEF At, Taken
  <2>4. /\ Find(table, k) => /\ FoundAt(table, k) \in Taken(s, c)
                             /\ s[FoundAt(table, k)].key = k
        /\ ~Find(table, k) => \A i \in Taken(s, c) : s[i].key # k
    BY <2>1, FindIs
  <2> HIDE DEF s
  <2> QED
    BY <2>2, <2>3, <2>4 DEF Single
<1> QED
  BY <1>1, AlwaysSound, PTL

LEMMA NoneIs == None = <<>>
<1>1. PICK none \in Seq(Int) : none = <<>>
  <2>1. <<>> \in Seq(Int)
    BY EmptySeq
  <2> QED
    BY <2>1, Zenon
<1>2. DOMAIN none = {} /\ none = [x \in DOMAIN none |-> none[x]]
  <2>1. Len(none) = 0
    BY <1>1
  <2> QED
    BY <2>1
<1>3. None = none
  BY <1>2 DEF None
<1> QED
  BY <1>1, <1>3

(* FlatMap is the map that flatmap.h promises: every call of Next, which   *)
(* clears a table only while no slot is deleted, changes the entries found *)
(* by iterating over the slots as it would change a map's.                 *)
THEOREM RefinesDictionary == Spec => ImplementsDictionary
<1>0. Map = MapOf(table)
  BY DEF Map, MapOf, At
<1>1. Init => Meant!Init
  <2> SUFFICES ASSUME Init PROVE Meant!Init
    OBVIOUS
  <2>1. PICK n \in 0..Cardinality(Keys) : table = Fresh(n)
    BY DEF Init
  <2>2. n \in Nat
    <3>1. Cardinality(Keys) \in Nat
      BY HashAssumption, FS_CardinalityType
    <3> QED
      BY <3>1
  <2>3. PICK c \in Capacities : Good(table, c, None)
    BY <2>1, <2>2, FreshIs
  <2>4. Map = <<>>
    BY <1>0, <2>3, GoodIs, NoneIs
  <2>5. call[1] = "none"
    BY DEF Init
  <2> QED
    BY <2>4, <2>5 DEF Meant!Init
<1>2. ASSUME Sound, Next PROVE Meant!Next
  <2> DEFINE M == MapOf(table)
             N == MapOf(table')
  <2>1. Map = M /\ Map' = N
    BY <1>0 DEF Map, MapOf, At
  <2>2. \A k, v : Meant!With(k, v) = Plus(M, k, v)
    BY <2>1 DEF Meant!With, Plus
  <2>3. \A S : Meant!Restrict(M, S) = Restrict(M, S)
    BY DEF Meant!Restrict, Restrict
  <2> HIDE DEF M, N
  <2>4. ASSUME NEW k, NEW v, call' = <<"insert", k, v>>,
               N = IF k \in DOMAIN M THEN M ELSE Plus(M, k, v)
        PROVE  Meant!Insert
    <3>1. call'[1] = "insert" /\ call'[2] = k /\ call'[3] = v
      BY <2>4
    <3> QED
      BY <2>1, <2>2, <2>4, <3>1 DEF Meant!Insert
  <2>5. ASSUME NEW k, NEW v, call' = <<"assign", k, v>>, N = Plus(M, k, v)
        PROVE  Meant!Assign
    <3>1. call'[1] = "assign" /\ call'[2] = k /\ call'[3] = v
      BY <2>5
    <3> QED
      BY <2>1, <2>2, <2>5, <3>1 DEF Meant!Assign
  <2>6. ASSUME NEW k, call' = <<"erase", k, 0>>,
               N = Restrict(M, DOMAIN M \ {k})
        PROVE  Meant!Erase
    <3>1. call'[1] = "erase" /\ call'[2] = k
      BY <2>6
    <3> QED
      BY <2>1, <2>3, <2>6, <3>1 DEF Meant!Erase
  <2>7. ASSUME NEW v, call' = <<"erase all", 0, v>>,
               N = Restrict(M, {k \in DOMAIN M : M[k] # v})
        PROVE  Meant!EraseAll
    <3>1. call'[1] = "erase all" /\ call'[3] = v
      BY <2>7
    <3> QED
      BY <2>1, <2>3, <2>7, <3>1 DEF Meant!EraseAll
  <2>8. ASSUME call' = <<"clear", 0, 0>>, N = None PROVE Meant!Clear
    <3>1. call'[1] = "clear"
      BY <2>8
    <3> QED
      BY <2>1, <2>8, <3>1, NoneIs DEF Meant!Clear
  <2>9. ASSUME call' \in {<<"reserve", 0, 0>>, <<"copy", 0, 0>>}, N = M
        PROVE  Meant!Keep
    <3>1. call'[1] \in {"reserve", "copy"}
      BY <2>9
    <3> QED
      BY <2>1, <2>9, <3>1 DEF Meant!Keep
  <2> QED
    <3> HIDE DEF Sound
    <3>1. \/ \E k \in Keys, v \in Values :
               /\ call' = <<"insert", k, v>>
               /\ N = IF k \in DOMAIN M THEN M ELSE Plus(M, k, v)
          \/ \E k \in Keys, v \in Values :
               call' = <<"assign", k, v>> /\ N = Plus(M, k, v)
          \/ \E k \in Keys :
               /\ call' = <<"erase", k, 0>>
               /\ N = Restrict(M, DOMAIN M \ {k})
          \/ \E v \in Values :
               /\ call' = <<"erase all", 0, v>>
               /\ N = Restrict(M, {k \in DOMAIN M : M[k] # v})
          \/ call' = <<"clear", 0, 0>> /\ N = None
          \/ /\ call' \in {<<"reserve", 0, 0>>, <<"copy", 0, 0>>}
             /\ N = M
      BY <1>2, StepIs DEF M, N
    <3> QED
      BY <2>4, <2>5, <2>6, <2>7, <2>8, <2>9, <3>1 DEF Meant!Next
<1>3. UNCHANGED vars => UNCHANGED <<Map, call>>
  BY DEF vars, Map, At
<1> HIDE DEF Sound
<1>4. Sound /\ [Next]_vars => [Meant!Next]_<<Map, call>>
  BY <1>2, <1>3
<1> QED
  BY <1>1, <1>4, AlwaysSound, PTL DEF Spec, ImplementsDictionary, Meant!Spec
=============================================================================
