----------------------------- MODULE GraphIntent -----------------------------
(***************************************************************************)
(* What a mutation promises its client (graph/utils/graph_view.h): the     *)
(* client edits a draft of the graph, node by node; when the mutation is   *)
(* applied the graph becomes the draft, or stays as it is.  A node of the  *)
(* draft that has the name of a node the client left alone replaces it.    *)
(* GraphMutation implements this with diffs and local checks.              *)
(***************************************************************************)
EXTENDS Naturals, Sequences

CONSTANTS Names, Ops, Tensors, InitGraphs

VARIABLES
  graph,   \* name -> node
  draft,   \* name -> what the client made of the node, for those it keeps
  added,   \* the nodes it adds
  status   \* of the last call that returns one

vars == <<graph, draft, added, status>>

(* A fanin list of a draft may have gaps until it is applied.              *)
AsDraft(x) == [name |-> x, op |-> graph[x].op, ins |-> graph[x].ins,
               ctl |-> graph[x].ctl]

Init == /\ graph \in InitGraphs
        /\ draft = [x \in DOMAIN graph |-> AsDraft(x)]
        /\ added = <<>>
        /\ status = "ok"

Put(w, i, t) ==
  [w EXCEPT !.ins = [j \in DOMAIN @ \cup {i} |-> IF j = i THEN t ELSE @[j]]]

Drop(w, i) == [w EXCEPT !.ins = [j \in DOMAIN @ \ {i} |-> @[j]]]

(* w becomes w2 by one edit. *)
OneEdit(w, w2) ==
  \/ \E n \in Names : w2 = [w EXCEPT !.name = n]
  \/ \E op \in Ops : w2 = [w EXCEPT !.op = op]
  \/ \E i \in DOMAIN w2.ins : w2 = Put(w, i, w2.ins[i])
  \/ \E i \in DOMAIN w.ins : w2 = Drop(w, i)
  \/ \E n \in Names : w2 = [w EXCEPT !.ctl = @ \cup {n}]
  \/ \E n \in Names : w2 = [w EXCEPT !.ctl = @ \ {n}]

Edit == /\ UNCHANGED <<graph, added, status>>
        /\ DOMAIN draft' = DOMAIN draft
        /\ \E x \in DOMAIN draft :
             /\ \A y \in DOMAIN draft \ {x} : draft'[y] = draft[y]
             /\ OneEdit(draft[x], draft'[x])

(* Removing a node.                                                        *)
Remove == /\ UNCHANGED <<graph, added, status>>
          /\ \E x \in DOMAIN draft :
               draft' = [y \in DOMAIN draft \ {x} |-> draft[y]]

Add == /\ UNCHANGED <<graph, draft>>
       /\ \/ status' = "ok" /\ Len(added') = Len(added) + 1
             /\ SubSeq(added', 1, Len(added)) = added
          \/ status' = "bad node" /\ UNCHANGED added

EditAdded == /\ UNCHANGED <<graph, draft, status>>
             /\ DOMAIN added' = DOMAIN added
             /\ \E k \in DOMAIN added :
                  /\ \A j \in DOMAIN added \ {k} : added'[j] = added[j]
                  /\ OneEdit(added[k], added'[k])

-----------------------------------------------------------------------------
LeftAlone == {x \in DOMAIN draft : draft[x] = AsDraft(x)}

(* The nodes the client made or changed.                                   *)
Mine == {draft[x] : x \in DOMAIN draft \ LeftAlone}
          \cup {added[k] : k \in DOMAIN added}

MyNames == {w.name : w \in Mine}

(* Two of the client's nodes have one name.                                *)
Clash ==
  \/ \E x, y \in DOMAIN draft \ LeftAlone :
        x # y /\ draft[x].name = draft[y].name
  \/ \E x \in DOMAIN draft \ LeftAlone, k \in DOMAIN added :
        draft[x].name = added[k].name
  \/ \E j, k \in DOMAIN added : j # k /\ added[j].name = added[k].name

Wanted ==
  [n \in MyNames \cup LeftAlone |->
     IF n \in MyNames
     THEN LET w == CHOOSE w \in Mine : w.name = n
          IN  [op |-> w.op, ins |-> w.ins, ctl |-> w.ctl]
     ELSE graph[n]]

(* A graph the view can hold: fanins follow each other, name nodes of the  *)
(* graph, and no node is its own fanin.                                    *)
WellFormed(g) ==
  \A n \in DOMAIN g :
    /\ \A i \in DOMAIN g[n].ins :
         /\ \A j \in 1..i : j \in DOMAIN g[n].ins
         /\ g[n].ins[i][1] \in DOMAIN g \ {n}
    /\ g[n].ctl \subseteq DOMAIN g \ {n}

(* The names some node of the old graph gives up.                          *)
GivenUp == {x \in DOMAIN graph :
              x \notin DOMAIN draft \/ (x \in DOMAIN draft /\ draft[x].name # x)}

(* A node that is replaced consumes a name nobody has any more.  Apply may *)
(* check that node as if it stayed.                                        *)
ReplacedConsumer ==
  \E x \in LeftAlone \cap MyNames, n \in GivenUp \ MyNames :
    \/ n \in graph[x].ctl
    \/ \E i \in DOMAIN graph[x].ins : graph[x].ins[i][1] = n

Discard == /\ draft' = [x \in DOMAIN graph' |-> AsDraft(x)']
           /\ added' = <<>>

(* A draft that is not a graph is refused, and hardly any other.           *)
Commit == /\ status' = "ok"
          /\ Discard
          /\ ~Clash /\ WellFormed(Wanted)
          /\ graph' = Wanted

Refuse == /\ status' = "bad mutation"
          /\ UNCHANGED <<graph, draft, added>>
          /\ Clash \/ ~WellFormed(Wanted) \/ ReplacedConsumer

Reset == UNCHANGED <<graph, status>> /\ Discard

Sort == /\ status' \in {"sorted", "unsorted"}
        /\ UNCHANGED <<graph, draft, added>>

Next == Edit \/ Remove \/ Add \/ EditAdded \/ Reset \/ Sort \/ Commit \/ Refuse

Spec == Init /\ [][Next]_vars
=============================================================================
