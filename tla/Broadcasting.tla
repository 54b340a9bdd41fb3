---------------------------- MODULE Broadcasting ----------------------------
(***************************************************************************)
(* How the shapes of two tensors are broadcast: BCast of util/bcast.h, and *)
(* MatMulBCast of util/matmul_bcast.h, which applies it to the batch       *)
(* dimensions of a product.  A shape is a sequence of sizes, the outermost *)
(* first; sizes fit an int, in which the code keeps those of the output.   *)
(***************************************************************************)
EXTENDS Integers, Sequences

NumElements(shape) ==
  LET Product[k \in 0..Len(shape)] ==
        IF k = 0 THEN 1 ELSE Product[k - 1] * shape[k]
  IN  Product[Len(shape)]

Larger(a, b) == IF a > b THEN a ELSE b
Smaller(a, b) == IF a < b THEN a ELSE b

(* Mutant: an input that is broadcast moves on like any other. *)
MovesOn(reshape, bcast) == TRUE

(* In this dimension the input is stepped through, not repeated.           *)
Increments(reshape, bcast) == bcast <= 1

(* The batch of the input that makes each batch of the output; one more    *)
(* dimension, from the innermost out.  Batches count from 0.               *)
AddDimension(indices, inner, reshape, bcast) ==
  LET dim  == Larger(reshape, bcast)
      incr == IF Increments(reshape, bcast) THEN inner ELSE 0
  IN  [n \in 1..Len(indices) * dim |->
         indices[((n - 1) % Len(indices)) + 1]
           + incr * ((n - 1) \div Len(indices))]

FirstBatch == [indices |-> <<0>>, inner |-> 1]

NextDimension(r, reshape, bcast) ==
  [indices |-> AddDimension(r.indices, r.inner, reshape, bcast),
   inner |-> r.inner * reshape]

OfDimensions(reshape, bcast) ==
  LET rank == Len(reshape)
      Inner[k \in 0..rank] ==
        IF k = 0 THEN FirstBatch
        ELSE NextDimension(Inner[k - 1], reshape[rank - k + 1], bcast[rank - k + 1])
  IN  Inner[rank]

ComputeBatchIndices(reshape, bcast) == OfDimensions(reshape, bcast).indices

-----------------------------------------------------------------------------
(* BCast of two shapes.  x and y hold, of either, the shape it is to take  *)
(* and how often it is repeated in each dimension; neighbouring dimensions *)
(* of one kind are made one.                                               *)

Extended(shape, rank) == [k \in 1..rank - Len(shape) |-> 1] \o shape

(* Mutant: only a dimension of the first input is broadcast.               *)
CompatibleOneWay(a, b) == a = b \/ a = 1

Compatible(a, b) == a = b \/ a = 1 \/ b = 1

Part(reshape, bcast, reduce) ==
  [reshape |-> reshape, bcast |-> bcast, grad_reduce_idx |-> reduce]

(* The next dimension out: d of x, e of y, dimension k of the output.  A   *)
(* dimension where both are 1 is left out, and does not end a run.         *)
Joined(part, d, out) ==
  [part EXCEPT !.reshape[1] = @ * d,
               !.bcast[1] = @ * IF d = 1 THEN out ELSE 1]

Apart(part, d, out) ==
  [part EXCEPT !.reshape = <<d>> \o @,
               !.bcast = <<IF d = 1 THEN out ELSE 1>> \o @]

Reduced(part, d, k) ==
  IF d = 1 THEN [part EXCEPT !.grad_reduce_idx = <<k>> \o @] ELSE part

(* Which of the two is 1, where not both are.                              *)
OneIs(d, e) == IF d = 1 THEN "x" ELSE IF e = 1 THEN "y" ELSE "neither"

Step(r, d, e, k) ==
  LET out == IF d = 1 THEN e ELSE d
      run == r.one = OneIs(d, e)
      x   == Reduced(r.x, d, k)
      y   == Reduced(r.y, e, k)
  IN  IF d = 1 /\ e = 1
      THEN [r EXCEPT !.x = x, !.y = y, !.output = <<1>> \o @]
      ELSE [x |-> IF run THEN Joined(x, d, out) ELSE Apart(x, d, out),
            y |-> IF run THEN Joined(y, e, out) ELSE Apart(y, e, out),
            output |-> <<out>> \o r.output, one |-> OneIs(d, e)]

NoDimensionYet == [x |-> Part(<<>>, <<>>, <<>>), y |-> Part(<<>>, <<>>, <<>>),
                   output |-> <<>>, one |-> "unknown"]

AllDimensions(xs, ys) ==
  LET rank == Len(xs)
      Inner[k \in 0..rank] ==
        IF k = 0 THEN NoDimensionYet
        ELSE Step(Inner[k - 1], xs[rank - k + 1], ys[rank - k + 1], rank - k)
  IN  Inner[rank]

OneIfNone(part) ==
  IF part.reshape # <<>> THEN part
  ELSE [part EXCEPT !.reshape = <<1>>, !.bcast = <<1>>]

BCast(x, y) ==
  LET rank == Larger(Len(x), Len(y))
      xs   == Extended(x, rank)
      ys   == Extended(y, rank)
      same == Part(<<NumElements(x)>>, <<1>>, <<>>)
      r    == AllDimensions(xs, ys)
  IN  IF x = y THEN [valid |-> TRUE, x |-> same, y |-> same, output |-> x]
      ELSE IF \A k \in 1..rank : Compatible(xs[k], ys[k])
      THEN [valid |-> TRUE, x |-> OneIfNone(r.x), y |-> OneIfNone(r.y),
            output |-> r.output]
      ELSE [valid |-> FALSE]

-----------------------------------------------------------------------------
Batches(shape) == SubSeq(shape, 1, Len(shape) - 2)

(* Of shapes with two dimensions and no batch there is nothing to          *)
(* broadcast.  The batches of a product, as x has them and as y does; only *)
(* where they differ from those of the output are they listed.             *)
MatMulBCast(x, y) ==
  LET b == BCast(Batches(x), Batches(y))
      x_size == NumElements(b.x.reshape)
      y_size == NumElements(b.y.reshape)
      required == Smaller(x_size, y_size) # NumElements(b.output)
      Listed(part) == IF required
                      THEN ComputeBatchIndices(part.reshape, part.bcast) ELSE <<>>
  IN  IF ~b.valid THEN [valid |-> FALSE]
      ELSE [valid |-> TRUE, output_batch_shape |-> b.output,
            broadcasting_required |-> required,
            x_batch_indices |-> Listed(b.x), y_batch_indices |-> Listed(b.y)]
=============================================================================
