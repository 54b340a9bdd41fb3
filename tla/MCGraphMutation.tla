-------------------------- MODULE MCGraphMutation --------------------------
(* Small instances of GraphMutation for TLC. *)
EXTENDS GraphMutation

CONSTANTS na, nb, nc, nd

N(op, ins, ctl) == [op |-> op, ins |-> ins, ctl |-> ctl]

(* na feeds nb, by data or control; nc consumes both or one of them, in    *)
(* the ways that differ for Apply: two nodes, one node twice, data and     *)
(* control from the same node.                                             *)
MCInitGraphs ==
  { [x \in {na, nb, nc} |-> CASE x = na -> N("P", <<>>, {})
                           [] x = nb -> vb
                           [] x = nc -> vc] :
      vb \in {N("P", << <<na, 1>> >>, {}), N("P", <<>>, {na})},
      vc \in {N("P", << <<nb, 1>>, <<na, 1>> >>, {}),
              N("P", << <<nb, 1>>, <<nb, 1>> >>, {nb})} }

(* Two of them, for the refinement.                                        *)
MCChainGraphs == {g \in MCInitGraphs : g[nb].ins # <<>>}

MCNewNodes ==
  { [name |-> n, op |-> "P", ins |-> i, ctl |-> k] :
      n \in {na, nd}, i \in {<<>>, << <<nb, 1>> >>}, k \in {{}, {nc}} }
=============================================================================
