-------------------------- MODULE MCNamedGraphView --------------------------
(* Small instances of NamedGraphView for TLC. *)
EXTENDS NamedGraphView

CONSTANTS na, nb, nc, nd

Def(name, op, input) == [name |-> name, op |-> op, input |-> input]

(* na feeds nb and nc, which reads nb too: over one port, two ports, one   *)
(* port twice, with control inputs that are redundant and that are not; na *)
(* is a Switch or not, nb an Identity of it or not.                        *)
MCInitDefs ==
  { << Def(na, "Switch", <<>>), Def(nb, "Identity", << <<na, 1>> >>),
       Def(nc, "P", << <<nb, 0>>, <<nb, 0>>, <<nb, Control>> >>) >>,
    << Def(na, "P", <<>>), Def(nb, "P", << <<na, 1>> >>),
       Def(nc, "P", << <<na, 0>>, <<nb, 1>>, <<na, Control>> >>) >> }

MCAnchor(name, port) == <<name, port>>

MCNewNodes ==
  { [name |-> nd, op |-> "Identity", input |-> << <<na, 0>> >>],
    [name |-> nd, op |-> "P",
     input |-> << <<na, 1>>, <<nb, 0>>, <<nb, Control>>, <<nc, Control>>,
                  <<nc, Control>> >>] }

MCView == <<view, calls>>

(* What the comments of mutable_graph_view.h promise.                      *)
Promised == INSTANCE NamedGraph WITH
  graph <- [name \in {view.def[n].name : n \in Nodes} |->
              LET n == Node(name)
                  k == view.regular[n]
              IN  [op  |-> view.def[n].op,
                   ins |-> SubSeq(InputsOf(n), 1, k),
                   ctl |-> {InputsOf(n)[i][1] : i \in k + 1..Len(InputsOf(n))}]]

ImplementsNamedGraph == Promised!Spec
=============================================================================
