---------------------------- MODULE NodeViewDiff ----------------------------
(***************************************************************************)
(* The pending edit of one node of a graph: internal::NodeViewDiff of      *)
(* graph/utils/graph_view_internal.h and the functions that fill it in,    *)
(* test it and check it.  The functions are pure; Mutation (graph_view.cc) *)
(* keeps one diff per edited node and MutableGraphView applies them.       *)
(*                                                                         *)
(* A node, as a diff sees it, is a record v with                           *)
(*   v.name   its name                                                     *)
(*   v.op     its op (stands for op and device, edited in the same way)    *)
(*   v.ins    its regular fanins, a sequence of tensors <<name, port>>     *)
(*   v.ctl    its controlling fanins, a function from the keys they are    *)
(*            addressed by to their names: the key is a position in        *)
(*            MutableGraphView, and the name itself in GraphMutation       *)
(* Positions count from 1, where the code counts from 0.                   *)
(*                                                                         *)
(* regular_inputs_to_update (positions the node has) and                   *)
(* regular_inputs_to_add (positions beyond them) are one partial function, *)
(* put.  name and op are the values wanted: update_name and update_op hold *)
(* when they differ from the node's.                                       *)
(***************************************************************************)
EXTENDS Naturals

EmptyDiff(v) ==
  [name |-> v.name, op |-> v.op, put |-> [i \in {} |-> {}], rem |-> {},
   cadd |-> {}, crem |-> {}]

UpdateName(d, n) == [d EXCEPT !.name = n]

UpdateOp(d, op) == [d EXCEPT !.op = op]

With(f, i, x)  == [j \in DOMAIN f \cup {i} |-> IF j = i THEN x ELSE f[j]]
Without(f, i)  == [j \in DOMAIN f \ {i} |-> f[j]]

Positions(v) == DOMAIN v.ins

(* A fanin equal to the node's own is not recorded; an edit recorded for   *)
(* the same position by an earlier call stays.                             *)
AddOrUpdateRegularFanin(d, v, i, t) ==
  [d EXCEPT !.rem = @ \ {i},
            !.put = IF i \in Positions(v) /\ v.ins[i] = t THEN @
                    ELSE With(@, i, t)]

(* The call that finds nothing to remove returns FALSE in the code.        *)
NothingToRemove(d, v, i) == i \notin Positions(v) /\ i \notin DOMAIN d.put

RemoveRegularFanin(d, v, i) ==
  [d EXCEPT !.put = Without(@, i),
            !.rem = IF i \in Positions(v) THEN @ \cup {i} ELSE @]

(* key: where the node has n as a controlling fanin, if it has.            *)
AddControllingFanin(d, v, key, n) ==
  IF key \in DOMAIN v.ctl THEN [d EXCEPT !.crem = @ \ {key}]
                   ELSE [d EXCEPT !.cadd = @ \cup {n}]

RemoveControllingFanin(d, v, key, n) ==
  IF key \in DOMAIN v.ctl THEN [d EXCEPT !.crem = @ \cup {key}]
                   ELSE [d EXCEPT !.cadd = @ \ {n}]

IsEmpty(d, v) ==
  /\ d.name = v.name /\ d.op = v.op
  /\ DOMAIN d.put = {} /\ d.rem = {}
  /\ d.cadd = {} /\ d.crem = {}

(* No position is left empty: the added fanins follow each other, nothing  *)
(* is added behind a removed fanin, and the removed fanins are the last.   *)
NoGaps(d, v) ==
  LET added == DOMAIN d.put \ Positions(v)
  IN  /\ \A i \in added : \A j \in 1..i :
            j \in Positions(v) \/ j \in added
      /\ added # {} => d.rem = {}
      /\ \A i \in d.rem : \A j \in Positions(v) : j > i => j \in d.rem

(* internal::IsWellFormed of a diff, given the names there will be after   *)
(* the mutation.  The node's own fanins are only looked at if it is to get *)
(* another name.                                                           *)
IsWellFormed(d, v, names) ==
  /\ NoGaps(d, v)
  /\ \A i \in DOMAIN d.put : d.put[i][1] \in names \ {d.name}
  /\ d.cadd \subseteq names \ {d.name}
  /\ d.name # v.name =>
       /\ \A i \in Positions(v) \ (d.rem \cup DOMAIN d.put) :
             v.ins[i][1] # d.name
       /\ \A k \in DOMAIN v.ctl \ d.crem : v.ctl[k] # d.name

(* What ApplyNodeUpdates makes of the regular fanins.                      *)
EditedFanins(d, v) ==
  [i \in (Positions(v) \ d.rem) \cup DOMAIN d.put |->
      IF i \in DOMAIN d.put THEN d.put[i] ELSE v.ins[i]]

(* A node to be added (internal::NewNode): a record with a name, an op, a  *)
(* partial function of regular fanins and a set of controlling ones.       *)
NewNodeIsWellFormed(w, names) ==
  /\ \A i \in DOMAIN w.ins : \A j \in 1..i : j \in DOMAIN w.ins
  /\ \A i \in DOMAIN w.ins : w.ins[i][1] \in names \ {w.name}
  /\ w.ctl \subseteq names \ {w.name}
=============================================================================
