------------------------ MODULE MCMutableGraphView ------------------------
(* Small instances of MutableGraphView for TLC. *)
EXTENDS MutableGraphView

CONSTANTS na, nb, nc, nd

Def(name, input) == [name |-> name, op |-> "P", input |-> input]

(* na feeds nb, by data or control; nc consumes both, over two ports, one *)
(* port twice, and by data and control at once; a control input twice.     *)
MCInitDefs ==
  { << Def(na, <<>>), Def(nb, ib), Def(nc, ic) >> :
      ib \in { << <<na, 1>> >>, << <<na, Control>> >> },
      ic \in { << <<nb, 1>>, <<na, 2>> >>,
               << <<nb, 1>>, <<nb, 1>>, <<nb, Control>>, <<na, Control>>,
                  <<nb, Control>> >> } }

MCOrders == { <<na, nb, nc, nd>>, <<nd, nc, nb, na>> }

MCNewNodes ==
  { [name |-> n, op |-> "P", ins |-> i, ctl |-> k] :
      n \in {na, nd}, i \in {<<>>, << <<nb, 1>> >>}, k \in {{}, {nc}} }

(* One graph for two mutations in a row: nc has data and control fanins.    *)
MCOneInitDefs ==
  { << Def(na, <<>>), Def(nb, << <<na, 1>> >>),
       Def(nc, << <<nb, 1>>, <<nb, Control>>, <<na, Control>> >>) >> }

MCOneNewNode == { [name |-> nd, op |-> "P", ins |-> << <<nb, 1>> >>, ctl |-> {}] }

MCOneOrder == { <<na, nb, nc, nd>> }

(* Graphs out of order, with a loop a NextIteration closes, with a loop    *)
(* nothing closes, with one of control, and with a Merge no Enter feeds.   *)
Op(name, op, input) == [name |-> name, op |-> op, input |-> input]

MCSortDefs ==
  { << Op(nc, oc, ic), Op(nb, ob, ib), Op(na, "P", <<>>), Op(nd, "P", <<>>) >> :
      oc \in {"P", "NextIteration"}, ob \in {"P", "Merge"},
      ic \in { << <<nb, 1>> >>, << <<nb, 1>>, <<na, Control>> >>,
               << <<na, 1>>, <<nd, 1>>, <<nb, Control>> >> },
      ib \in { << <<na, 1>> >>, << <<na, 1>>, <<nc, 1>> >>, << <<nc, 1>> >>,
               << <<na, 1>>, <<nc, Control>> >> } }
=============================================================================
