----------------------------- MODULE MCFlatMap -----------------------------
(* Small instances of FlatMap for TLC. *)
EXTENDS FlatMap

MCLow(k)  == k - 1
MCHigh(k) == CASE k = 1 -> 0 [] k = 2 -> 0 [] k = 3 -> 1 [] OTHER -> 7

(* The last call tells no states apart. *)
MCView == table
=============================================================================
