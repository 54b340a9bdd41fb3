--------------------------- MODULE DimensionLists ---------------------------
(***************************************************************************)
(* What util/tensor_shape.h promises of a shape, whatever it is stored as: *)
(* a list of sizes, -1 for one that is not known (of a PartialTensorShape  *)
(* only, which may have no known rank either), edited by position.  The    *)
(* process ends at an edit whose result no shape may have.                 *)
(***************************************************************************)
EXTENDS Integers, Sequences

CONSTANTS Names, MaxDimensions, MaxInt64

VARIABLES
  value,     \* of a shape: [life, partial, known, dims]
  crashed,
  call       \* the last call: <<operation, shape, arguments>>

vars == <<value, crashed, call>>

Of(life, partial, known, dims) ==
  [life |-> life, partial |-> partial, known |-> known, dims |-> dims]

Absent         == Of("none", FALSE, FALSE, <<>>)
Moved(partial) == Of("moved", partial, FALSE, <<>>)
Unknown        == Of("live", TRUE, FALSE, <<>>)
Shape(partial, dims) == Of("live", partial, TRUE, dims)

(* The products of the first so many sizes. *)
Products(dims) ==
  LET upto[i \in 0..Len(dims)] == IF i = 0 THEN 1 ELSE upto[i - 1] * dims[i]
  IN  upto

(* The rule of what is too large depends on the order of the sizes: a zero *)
(* makes up for large ones behind it, not for those in front of it, and    *)
(* what is behind an unknown size does not count.                          *)
Allowed(partial, dims) ==
  /\ Len(dims) <= MaxDimensions
  /\ \A i \in 1..Len(dims) : dims[i] >= IF partial THEN -1 ELSE 0
  /\ \A i \in 1..Len(dims) :
       (\A j \in 1..i : dims[j] # -1) => Products(dims)[i] <= MaxInt64

Init == /\ value = [n \in Names |-> Absent]
        /\ crashed = FALSE
        /\ call = <<"none">>

Dims(n) == value[n].dims

(* The longest part of a list that a shape may be. *)
Longest(partial, list) ==
  SubSeq(list, 1, CHOOSE k \in 0..Len(list) :
           /\ Allowed(partial, SubSeq(list, 1, k))
           /\ k < Len(list) => ~Allowed(partial, SubSeq(list, 1, k + 1)))

(* The sizes of both where they agree; up to where they do not. *)
Merged(x, y) ==
  LET Clash(d) == x[d] # -1 /\ y[d] # -1 /\ x[d] # y[d]
      upto == CHOOSE k \in 0..Len(x) : /\ \A d \in 1..k : ~Clash(d)
                                       /\ k < Len(x) => Clash(k + 1)
  IN  [d \in 1..upto |-> IF x[d] # -1 THEN x[d] ELSE y[d]]

Removed(dims, begin, end) ==
  LET At(i) == IF i < 0 THEN Len(dims) + i + 1 ELSE i
      from  == At(begin)
      upto  == At(end)
  IN  IF from >= upto THEN dims
      ELSE SubSeq(dims, 1, from) \o SubSeq(dims, upto + 1, Len(dims))

(* What an edit of n makes of its sizes. *)
Edited(op, n, x, y) ==
  CASE op = "add"    -> Append(Dims(n), x)
    [] op = "append" -> Dims(n) \o Dims(x)
    [] op = "insert" -> SubSeq(Dims(n), 1, x) \o <<y>>
                          \o SubSeq(Dims(n), x + 1, Len(Dims(n)))
    [] op = "set"    -> [Dims(n) EXCEPT ![x] = y]
    [] op = "remove" -> Removed(Dims(n), x, y)
    [] op = "merge"  -> Merged(Dims(x), y)

Become(n, partial, dims) ==
  IF Allowed(partial, dims)
    THEN /\ value' = [value EXCEPT ![n] = Shape(partial, dims)]
         /\ UNCHANGED crashed
    ELSE /\ value' = [m \in Names |-> Absent]
         /\ crashed' = TRUE

Edit(op, n, x, y) ==
  /\ op \in {"add", "append", "insert", "set", "remove", "merge"}
  /\ IF ~value[n].known /\ op # "merge"
       THEN UNCHANGED <<value, crashed>>
       ELSE Become(n, value[n].partial, Edited(op, n, x, y))

FromSizes(op, n, partial, dims) == op = "sizes" /\ Become(n, partial, dims)

(* What n becomes by the other calls.                                      *)
Made(op, n, x, y) ==
  CASE op = "default" -> IF x THEN Unknown ELSE Shape(FALSE, <<>>)
    [] op = "list"    -> Shape(x, y)
    [] op = "copy"    -> Of("live", x, value[y].known, Dims(y))
    [] op = "destroy" -> Absent
    [] op = "clear"   -> Shape(value[n].partial, <<>>)
    [] op = "make"    -> Shape(value[n].partial,
                           IF Len(x) > MaxDimensions THEN <<>>
                           ELSE Longest(value[n].partial, x))

Make(op, n, x, y) ==
  /\ op \in {"default", "list", "copy", "destroy", "clear", "make"}
  /\ value' = [value EXCEPT ![n] = Made(op, n, x, y)]
  /\ UNCHANGED crashed

Move(op, n, m) ==
  /\ op = "move"
  /\ value' = [value EXCEPT ![n] = value[m], ![m] = Moved(value[m].partial)]
  /\ UNCHANGED crashed

Next == \E c \in {call'} : \/ Edit(c[1], c[2], c[3], c[4])
                         \/ FromSizes(c[1], c[2], c[3], c[4])
                         \/ Make(c[1], c[2], c[3], c[4])
                         \/ Move(c[1], c[2], c[3])

Spec == Init /\ [][Next]_vars
=============================================================================
