---------------------------- MODULE TensorShape ----------------------------
(***************************************************************************)
(* TensorShape and PartialTensorShape (util/tensor_shape.h, .cc): shapes   *)
(* of up to MaxDimensions sizes in 16 bytes.  Few small sizes are kept in  *)
(* place, as words of 16 or 32 bits whose largest value stands for an      *)
(* unknown size; others in a vector on the heap that the shape owns.  Both *)
(* classes share the representation and are converted by a cast.           *)
(*                                                                         *)
(* The widths are constants, so that a small instance has sizes on both    *)
(* sides of every bound.                                                   *)
(***************************************************************************)
EXTENDS Integers, Sequences, FiniteSets

CONSTANTS
  Names,           \* the shapes of a program
  Sizes,           \* the sizes it passes; -1 is an unknown one
  Lists,           \* the lists of sizes it makes shapes of
  MaxDimensions,   \* 254
  Slots16,         \* words in Rep16: 6
  Slots32,         \* words in Rep32: 3
  UnknownRep16,    \* 2^16 - 1
  UnknownRep32,    \* 2^32 - 1
  MaxSmall,        \* kMaxSmall: 0xd744
  FastDims,        \* InitDims has a case for up to so many dimensions: 4
  MaxInt64         \* 2^63 - 1

(* The products of the first so many sizes of a list.                      *)
Products(list) ==
  LET upto[i \in 0..Len(list)] == IF i = 0 THEN 1 ELSE upto[i - 1] * list[i]
  IN  upto

Product(list) == Products(list)[Len(list)]

ASSUME InputsAssumption ==
  IsFiniteSet(Names) /\ Sizes \subseteq Int /\ Lists \subseteq Seq(Int)

(* The last is the static_assert of InitDims.                              *)
ASSUME WidthsAssumption ==
  /\ {MaxDimensions, Slots16, Slots32, UnknownRep16, UnknownRep32, MaxSmall,
      FastDims, MaxInt64} \subseteq Nat
  /\ 0 < MaxSmall /\ MaxSmall < UnknownRep16 - 1
  /\ UnknownRep16 < UnknownRep32 /\ UnknownRep32 < MaxInt64
  /\ 0 < FastDims /\ FastDims <= Slots16 /\ FastDims <= MaxDimensions
  /\ Product([d \in 1..FastDims |-> MaxSmall]) <= MaxInt64

VARIABLES
  shape,     \* the bytes of each: [life, partial, tag, ndims, words, vec,
             \* num_elements]; the data type is left out
  heap,      \* the addresses of the vectors that are allocated
  crashed,   \* a CHECK has failed
  call       \* the last call: <<operation, shape, arguments>>

vars == <<shape, heap, crashed, call>>

UnknownRank == MaxDimensions + 1
(* Mutant: a bound that lets the word of an unknown size pass for a size. *)
AllOf16     == UnknownRep16 + 1
MaxRep16    == UnknownRep16 - 1
MaxRep32    == UnknownRep32 - 1
NoVector    == 0
Addresses   == 1..2 * Cardinality(Names)

Least(partial) == IF partial THEN -1 ELSE 0

(* MultiplyWithoutOverflow; an overflow is another negative number than    *)
(* that of elements that are not known.                                    *)
Overflow == -2
Multiply(x, y) == IF x * y > MaxInt64 THEN Overflow ELSE x * y

(* One size more: the elements of a partial shape are not known from the   *)
(* first unknown size on.                                                  *)
NumElementsWith(partial, num, size) ==
  IF partial /\ (num < 0 \/ size < 0) THEN -1 ELSE Multiply(num, size)

(* The loop over the sizes of a list.                                      *)
Counted(partial, sizes) ==
  LET num[d \in 0..Len(sizes)] ==
        IF d = 0 THEN 1
        ELSE IF num[d - 1] = Overflow THEN Overflow
        ELSE NumElementsWith(partial, num[d - 1], sizes[d])
  IN  num[Len(sizes)]

(* IsValid, IsValidShape: what may be made a shape. *)
IsValidShape(partial, list) ==
  /\ Len(list) <= MaxDimensions
  /\ \A d \in 1..Len(list) : list[d] >= Least(partial)
  /\ Counted(partial, list) # Overflow

-----------------------------------------------------------------------------
(* One shape s and the heap h it allocates from: m = [s, h].               *)

Absent == [life |-> "none", partial |-> FALSE, tag |-> "REP16", ndims |-> 0,
           words |-> <<>>, vec |-> NoVector, num_elements |-> 1]

At(n)   == [s |-> shape[n], h |-> heap]
Fail(m) == [m EXCEPT !.s.life = "crashed"]

unknown_rank(s) == s.partial /\ s.ndims = UnknownRank

dim_size(s, d) ==
  IF s.partial /\ \/ s.tag = "REP16" /\ s.words[d] = UnknownRep16
                  \/ s.tag = "REP32" /\ s.words[d] = UnknownRep32
    THEN -1 ELSE s.words[d]

dim_sizes(s) ==
  IF unknown_rank(s) THEN <<>> ELSE [d \in 1..s.ndims |-> dim_size(s, d)]

IsFullyDefined(s) == ~s.partial \/ s.num_elements # -1

Word(s, unknown, size) == IF s.partial /\ size < 0 THEN unknown ELSE size

Words(s, unknown, sizes) ==
  [d \in 1..Len(sizes) |-> Word(s, unknown, sizes[d])]

(* What the destructors, assignments and Clear do to a vector. *)
Free(m) == IF m.s.tag = "REP_OUT_OF_LINE"
             THEN [s |-> [m.s EXCEPT !.vec = NoVector], h |-> m.h \ {m.s.vec}]
             ELSE m

Allocated(m) ==
  LET v == CHOOSE a \in Addresses \ m.h :
             \A b \in Addresses \ m.h : a <= b
  IN  [s |-> [m.s EXCEPT !.tag = "REP_OUT_OF_LINE", !.vec = v],
       h |-> m.h \cup {v}]

OutOfLine(m, sizes) == LET a == Allocated(m)
                       IN  [a EXCEPT !.s.words = sizes]

(* A representation that holds one size more, when the one there is does   *)
(* not.                                                                    *)
ChangedRep(m, sizes) ==
  IF Len(sizes) <= Slots32 /\ \A d \in 1..Len(sizes) : sizes[d] < MaxRep32
    THEN [m EXCEPT !.s.tag = "REP32",
                   !.s.words = Words(m.s, UnknownRep32, sizes)]
    ELSE OutOfLine(m, sizes)

UnsafeAddDim(m, size, num) ==
  LET s   == m.s
      nd  == s.ndims
      new == CASE s.tag = "REP16" /\ nd < Slots16 /\ size < MaxRep16 ->
                    [m EXCEPT !.s.words =
                       Append(s.words, Word(s, UnknownRep16, size))]
               [] s.tag = "REP32" /\ nd < Slots32 /\ size < MaxRep32 ->
                    [m EXCEPT !.s.words =
                       Append(s.words, Word(s, UnknownRep32, size))]
               [] s.tag = "REP_OUT_OF_LINE" ->
                    [m EXCEPT !.s.words = Append(s.words, size)]
               [] OTHER -> ChangedRep(m, Append(dim_sizes(s), size))
  IN  [new EXCEPT !.s.ndims = nd + 1, !.s.num_elements = num]

AddDim(m, size) ==
  LET s   == m.s
      num == NumElementsWith(s.partial, s.num_elements, size)
  IN  IF s.life = "crashed" THEN m
      ELSE IF ~s.partial /\ size < 0 THEN Fail(m)
      ELSE IF unknown_rank(s) THEN m
      ELSE IF s.ndims >= MaxDimensions \/ num = Overflow THEN Fail(m)
      ELSE UnsafeAddDim(m, size, num)

AddDims(m, sizes) ==
  LET added[d \in 0..Len(sizes)] ==
        IF d = 0 THEN m ELSE AddDim(added[d - 1], sizes[d])
  IN  added[Len(sizes)]

(* Clear, ClearAllButDataType. *)
Cleared(m) ==
  LET f == Free(m)
  IN  [f EXCEPT !.s.tag = "REP16", !.s.ndims = 0, !.s.words = <<>>,
                !.s.num_elements = 1]

Rebuilt(m, sizes) == AddDims(Cleared(m), sizes)

RecomputeNumElements(m) ==
  LET num == Counted(m.s.partial, dim_sizes(m.s))
  IN  IF m.s.life = "crashed" THEN m
      ELSE IF num = Overflow THEN Fail(m)
      ELSE [m EXCEPT !.s.num_elements = num]

(* InitDims: a short list of small sizes takes Rep16 and cannot overflow.  *)
InitDims(m, list) ==
  IF Len(list) \in 1..FastDims /\ \A d \in 1..Len(list) : list[d] <= MaxSmall
    THEN IF ~m.s.partial /\ \E d \in 1..Len(list) : list[d] < 0 THEN Fail(m)
         ELSE [m EXCEPT !.s.ndims = Len(list),
                        !.s.words = Words(m.s, UnknownRep16, list),
                        !.s.num_elements =
                          IF \E d \in 1..Len(list) : list[d] < 0 THEN -1
                          ELSE Product(list)]
    ELSE AddDims(m, list)

(* MakeShapeHelper: an error leaves the sizes in front of the one that is  *)
(* refused.                                                                *)
MadeWith(x, size) ==
  LET s   == x.m.s
      num == NumElementsWith(s.partial, s.num_elements, size)
  IN  IF x.error \/ size < Least(s.partial) \/ num = Overflow
        THEN [x EXCEPT !.error = TRUE]
        ELSE [x EXCEPT !.m = UnsafeAddDim(x.m, size, num)]

MadeShape(m, list) ==
  LET made[d \in 0..Len(list)] ==
        IF d = 0 THEN [m |-> Cleared(m), error |-> FALSE]
        ELSE MadeWith(made[d - 1], list[d])
  IN  IF Len(list) > MaxDimensions THEN Cleared(m) ELSE made[Len(list)].m

(* The copy assignment of b to m; what b has on the heap is copied into    *)
(* the vector m owns already, if it owns one.                              *)
CopiedFrom(m, b) ==
  LET same == [b EXCEPT !.partial = m.s.partial, !.life = "live"]
  IN  IF b.tag # "REP_OUT_OF_LINE"
        THEN [s |-> same, h |-> Free(m).h]
        ELSE LET own == IF m.s.tag = "REP_OUT_OF_LINE" THEN m ELSE Allocated(m)
             IN  [s |-> [same EXCEPT !.vec = own.s.vec], h |-> own.h]

-----------------------------------------------------------------------------
(* What a program does with its shapes.  A failed CHECK ends it, and with  *)
(* it all shapes.                                                          *)

Live(n)  == shape[n].life = "live"
Known(n) == Live(n) /\ ~unknown_rank(shape[n])

Calls(op, n, x, y) == call' = <<op, n, x, y>>

Put(n, m) == IF m.s.life = "crashed"
               THEN /\ crashed' = TRUE
                    /\ shape' = [o \in Names |-> Absent]
                    /\ heap' = {}
               ELSE /\ shape' = [shape EXCEPT ![n] = m.s]
                    /\ heap' = m.h
                    /\ UNCHANGED crashed

Fresh(partial) ==
  [s |-> [Absent EXCEPT !.life = "live", !.partial = partial], h |-> heap]

Default(n, partial) ==
  /\ shape[n].life = "none"
  /\ Calls("default", n, partial, 0)
  /\ Put(n, IF partial THEN [Fresh(TRUE) EXCEPT !.s.ndims = UnknownRank,
                                                !.s.num_elements = -1]
            ELSE Fresh(FALSE))

(* The shape of an empty vector, which Tensor starts with. *)
ForDataType(n) ==
  /\ shape[n].life = "none"
  /\ Calls("list", n, FALSE, <<0>>)
  /\ Put(n, [Fresh(FALSE) EXCEPT !.s.ndims = 1, !.s.words = <<0>>,
                                 !.s.num_elements = 0])

(* A list out of a graph, which has been looked at. *)
FromList(n, partial, list) ==
  /\ shape[n].life = "none"
  /\ IsValidShape(partial, list)
  /\ Calls("list", n, partial, list)
  /\ Put(n, AddDims(Fresh(partial), list))

(* Sizes a program makes up: all that is asked of them is that they are    *)
(* sizes.                                                                  *)
FromSizes(n, partial, list) ==
  /\ shape[n].life = "none"
  /\ \A d \in 1..Len(list) : list[d] >= Least(partial)
  /\ Calls("sizes", n, partial, list)
  /\ Put(n, InitDims(Fresh(partial), list))

Destroy(n) == /\ shape[n].life # "none"
              /\ Calls("destroy", n, 0, 0)
              /\ Put(n, [s |-> Absent, h |-> Free(At(n)).h])

(* A TensorShape passes for a PartialTensorShape.  The other way there is  *)
(* AsTensorShape, which refuses unknown sizes.                             *)
Assign(n, m) ==
  /\ Live(m) /\ shape[n].life # "none"
  /\ shape[n].partial \/ IsFullyDefined(shape[m])
  /\ Calls("copy", n, shape[n].partial, m)
  /\ Put(n, CopiedFrom(At(n), shape[m]))

CopyConstruct(n, m, partial) ==
  /\ Live(m) /\ shape[n].life = "none"
  /\ shape[m].partial => partial
  /\ Calls("copy", n, partial, m)
  /\ Put(n, CopiedFrom(Fresh(partial), shape[m]))

(* Mutant: what is moved from still says that it owns the vector. *)
MoveAndKeep(n, m) ==
  /\ Live(m) /\ n # m
  /\ shape[n].life = "none" \/ shape[n].partial = shape[m].partial
  /\ Calls("move", n, m, 0)
  /\ shape' = [shape EXCEPT ![n] = shape[m], ![m].life = "moved"]
  /\ heap' = Free(At(n)).h
  /\ UNCHANGED crashed

(* What is moved from is left without the vector, and may be assigned to   *)
(* or destroyed.                                                           *)
Move(n, m) ==
  /\ Live(m) /\ n # m
  /\ shape[n].life = "none" \/ shape[n].partial = shape[m].partial
  /\ Calls("move", n, m, 0)
  /\ shape' = [shape EXCEPT ![n] = shape[m],
                            ![m] = [Absent EXCEPT !.life = "moved",
                                      !.partial = shape[m].partial]]
  /\ heap' = Free(At(n)).h
  /\ UNCHANGED crashed

Clear(n) == Live(n) /\ Calls("clear", n, 0, 0) /\ Put(n, Cleared(At(n)))

MakeShape(n, list) ==
  Live(n) /\ Calls("make", n, list, 0) /\ Put(n, MadeShape(At(n), list))

Extend(n, size) == /\ Live(n) /\ size >= Least(shape[n].partial)
                   /\ Calls("add", n, size, 0)
                   /\ Put(n, AddDim(At(n), size))

AppendShape(n, m) == /\ Live(n) /\ Known(m)
                     /\ shape[n].partial = shape[m].partial
                     /\ Calls("append", n, m, 0)
                     /\ Put(n, AddDims(At(n), dim_sizes(shape[m])))

Inserted(sizes, d, size) ==
  SubSeq(sizes, 1, d) \o <<size>> \o SubSeq(sizes, d + 1, Len(sizes))

InsertDim(n, d, size) ==
  /\ Known(n) /\ d \in 0..shape[n].ndims /\ size >= Least(shape[n].partial)
  /\ shape[n].ndims < MaxDimensions
  /\ Calls("insert", n, d, size)
  /\ Put(n, Rebuilt(At(n), Inserted(dim_sizes(shape[n]), d, size)))

(* Mutant: the number of elements is left as it was. *)
SetDimOnly(n, d, size) ==
  /\ Known(n) /\ d \in 1..shape[n].ndims /\ size >= 0
  /\ shape[n].tag = "REP_OUT_OF_LINE" \/ size < MaxRep16
  /\ Calls("set", n, d, size)
  /\ Put(n, [At(n) EXCEPT !.s.words[d] = size])

(* set_dim: what still fits is overwritten in place. *)
SetDim(n, d, size) ==
  LET s == shape[n]
      m == IF \/ s.tag = "REP16" /\ size < MaxRep16
              \/ s.tag = "REP32" /\ size < MaxRep32
              \/ s.tag = "REP_OUT_OF_LINE"
             THEN [At(n) EXCEPT !.s.words[d] = size]
             ELSE Rebuilt(At(n), [dim_sizes(s) EXCEPT ![d] = size])
  IN  /\ Known(n) /\ d \in 1..s.ndims /\ size >= 0
      /\ Calls("set", n, d, size)
      /\ Put(n, RecomputeNumElements(m))

(* RemoveDim and RemoveLastDims are calls of it.  Negative positions count *)
(* from behind; that way every range can be said.                          *)
RemoveDimRange(n, begin, end) ==
  LET s      == shape[n]
      Pos(i) == IF i < 0 THEN s.ndims + i + 1 ELSE i
      b      == Pos(begin)
      e      == Pos(end)
      sizes  == dim_sizes(s)
  IN  /\ Known(n)
      /\ {b, e} \subseteq 0..s.ndims
      /\ Calls("remove", n, begin, end)
      /\ Put(n, IF b >= e THEN At(n)
                ELSE RecomputeNumElements(
                       Rebuilt(At(n), SubSeq(sizes, 1, b)
                                        \o SubSeq(sizes, e + 1, s.ndims))))

(* MergeWith, of m and another PartialTensorShape, into n, which is not m;  *)
(* up to the first size on which the two disagree.                         *)
Merged(sizes, list) ==
  LET Agree(d) == sizes[d] < 0 \/ list[d] < 0 \/ sizes[d] = list[d]
      upto == CHOOSE k \in 0..Len(list) : /\ \A d \in 1..k : Agree(d)
                                          /\ k < Len(list) => ~Agree(k + 1)
  IN  [d \in 1..upto |-> IF sizes[d] >= 0 THEN sizes[d] ELSE list[d]]

MergeWith(n, m, list) ==
  /\ Known(m) /\ shape[m].partial /\ Live(n)
  /\ shape[n].partial /\ n # m
  /\ IsValidShape(TRUE, list)
  /\ Len(list) = shape[m].ndims
  /\ Calls("merge", n, m, list)
  /\ Put(n, AddDims(Cleared(At(n)), Merged(dim_sizes(shape[m]), list)))

Init == /\ shape = [n \in Names |-> Absent]
        /\ heap = {}
        /\ crashed = FALSE
        /\ call = <<"none">>

Next ==
  /\ ~crashed
  /\ \E n \in Names :
       \/ ForDataType(n) \/ Destroy(n) \/ Clear(n)
       \/ \E partial \in BOOLEAN :
            \/ Default(n, partial)
            \/ \E list \in Lists : \/ FromList(n, partial, list)
                                 \/ FromSizes(n, partial, list)
            \/ \E m \in Names : CopyConstruct(n, m, partial)
       \/ \E m \in Names : \/ Assign(n, m) \/ Move(n, m) \/ AppendShape(n, m)
                           \/ \E list \in Lists : MergeWith(n, m, list)
       \/ \E list \in Lists : MakeShape(n, list)
       \/ \E size \in Sizes :
            \/ Extend(n, size)
            \/ \E d \in 0..MaxDimensions : InsertDim(n, d, size) \/ SetDim(n, d, size)
       \/ \E begin \in 0..MaxDimensions, end \in -(MaxDimensions + 1)..-1 :
            RemoveDimRange(n, begin, end)

Spec == Init /\ [][Next]_vars

-----------------------------------------------------------------------------
(* Every vector on the heap is owned by one shape that is in use, and only *)
(* by one: assignments and moves neither leak nor share one, which the     *)
(* second owner's destructor would free again (SlowCopyFrom, the move      *)
(* operations, ClearAllButDataType).                                       *)
OneOwner ==
  LET owners == {n \in Names : shape[n].tag = "REP_OUT_OF_LINE"}
  IN  /\ heap = {shape[n].vec : n \in owners}
      /\ \A n, m \in owners : shape[n].vec = shape[m].vec => n = m
      /\ \A n \in owners : Live(n)

(* The number of elements, which every edit keeps in its own way, is that  *)
(* of the sizes, and -1 exactly if some size or the rank is unknown, so    *)
(* that AsTensorShape and kernels may trust it.                            *)
ElementsCounted ==
  \A n \in Names : Live(n) =>
    LET s == shape[n]
        sizes == dim_sizes(s)
    IN  s.num_elements =
          IF unknown_rank(s) \/ \E d \in 1..Len(sizes) : sizes[d] = -1 THEN -1
          ELSE Product(sizes)

(* The representations are never seen: shapes behave like lists of sizes,  *)
(* whatever sequence of edits, copies and conversions made them, and a     *)
(* CHECK fails only for a list that IsValidShape would refuse.             *)
Value(n) ==
  LET s == shape[n]
  IN  [life |-> s.life, partial |-> s.partial,
       known |-> s.life = "live" /\ ~unknown_rank(s),
       dims |-> IF s.life = "live" THEN dim_sizes(s) ELSE <<>>]

Intent == INSTANCE DimensionLists WITH value <- [n \in Names |-> Value(n)]

ImplementsLists == Intent!Spec
=============================================================================
