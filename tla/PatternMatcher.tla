--------------------------- MODULE PatternMatcher ---------------------------
(***************************************************************************)
(* SubGraphMatcher of graph/utils/pattern_utils: a pattern is a DAG with   *)
(* the root "output", here a function from its labels to                   *)
(*   ops     the ops the node may have; "*" stands for any,                *)
(*   status  "remain", "remove" or "replace",                              *)
(*   args    the labels of its inputs; if there are none, the inputs are   *)
(*           not looked at.                                                *)
(* A label that occurs twice stands for one node.                          *)
(***************************************************************************)
EXTENDS RemapperGraph, TLC
LOCAL INSTANCE SequencesExt

Leaf(ops)         == [ops |-> ops, status |-> "remain", args |-> <<>>]
Inner(ops, args)  == [ops |-> ops, status |-> "remove", args |-> args]
Output(ops, args) == [ops |-> ops, status |-> "replace", args |-> args]

IsSame(ops, x) == "*" \in ops \/ Type(x) \in ops

IsCommutativeOp(ops) ==
  ops \cap {"Add", "AddV2", "Mul", "Maximum", "SquaredDifference"} # {}

(* The inputs of a commutative op are swapped if one of them fits in the   *)
(* other place only: a look one level ahead, not a search.                 *)
Args(p, label, x) ==
  LET args == p[label].args
      Fits(j, k) == IsSame(p[args[j]].ops, In(x, k))
  IN  IF /\ IsCommutativeOp(p[label].ops) /\ Len(args) = 2
         /\ Len(graph[x].ins) = 2
         /\ \/ ~Fits(1, 1) /\ Fits(2, 1)
            \/ ~Fits(2, 2) /\ Fits(1, 2)
      THEN Reverse(args) ELSE args

(* No control edges; those into a node that remains are looked at only if  *)
(* fanins are checked.                                                     *)
MayMatch(p, label, x, fanin_checking) ==
  /\ HasControlFanin(x) => ~fanin_checking /\ p[label].status = "remain"
  /\ ~HasControlFanout(x)
  /\ IsSame(p[label].ops, x)

(* The matches of label with x that extend m: one, or none.                *)
RECURSIVE DoesOpTypePatternMatch(_, _, _, _, _)
DoesOpTypePatternMatch(p, label, x, m, fanin_checking) ==
  LET args == Args(p, label, x)
  IN  IF ~MayMatch(p, label, x, fanin_checking) THEN {}
      ELSE IF label \in DOMAIN m THEN {n \in {m} : m[label] = x}
      ELSE IF args # <<>> /\ Len(args) # Len(graph[x].ins) THEN {}
      ELSE FoldLeftDomain(
             LAMBDA found, k :
               UNION {DoesOpTypePatternMatch(p, args[k], In(x, k), n,
                                             fanin_checking) : n \in found},
             {m @@ (label :> x)}, args)

(* The nodes of match m that p removes.                                    *)
Removed(p, m) == {m[l] : l \in {k \in DOMAIN m : p[k].status = "remove"}}

IsSafeNodesToRemove(p, m) ==
  \A x \in Removed(p, m) : /\ ~IsInPreserveSet(x)
                           /\ Consumers(x) \subseteq Range(m)

GetMatchedNodes(p, x, fanin_checking) ==
  {m \in DoesOpTypePatternMatch(p, "output", x, <<>>, fanin_checking) :
     IsSafeNodesToRemove(p, m)}

(* The match of a pattern: the nodes by their labels, and those to be      *)
(* removed.                                                                *)
Matches(p, x, fanin_checking) ==
  {[node |-> m, gone |-> Removed(p, m)] : m \in GetMatchedNodes(p, x, fanin_checking)}

FirstMatch(patterns, x, fanin_checking) ==
  FirstOf([k \in DOMAIN patterns |-> Matches(patterns[k], x, fanin_checking)])
=============================================================================
