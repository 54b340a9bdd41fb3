--------------------------- MODULE MCTensorShape ---------------------------
(* A small instance of TensorShape for TLC. *)
EXTENDS TensorShape, TLC

CONSTANTS s1, s2

MCSizes == {-1, 2, 5, 9}

MCLists == { <<>>, <<2>>, <<9>>, <<-1>>, <<-2>>, <<5, -1>>, <<0, 9, 9>>, <<9, 9, 0>>,
             <<-1, 9, 9>>, <<2, 2>>, <<2, -1>>, <<2, 2, 2, 2>> }

(* One of the shapes is explored to its full length while the other is     *)
(* short.                                                                  *)
OneIsShort == \E n \in Names : Len(shape[n].words) <= 1

(* The last call tells no states apart. *)
MCView == <<shape, heap, crashed>>

MCSymmetry == Permutations(Names)
=============================================================================
