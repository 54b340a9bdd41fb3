----------------------------- MODULE NamedGraph -----------------------------
(***************************************************************************)
(* What the comments of graph/graph_view/mutable_graph_view.h promise a    *)
(* client: a graph of named nodes [op, ins, ctl] whose edits are done on   *)
(* the regular inputs, a sequence of <<name, port>>, and the control       *)
(* inputs, a set of names, and on nothing else; or which is refused, and   *)
(* then nothing is modified.  Control dependencies are deduped: a node     *)
(* does not wait for one it reads, but for an Identity that reads a Switch.*)
(***************************************************************************)
EXTENDS Integers, SequencesExt

CONSTANTS InitDefs, SwitchAnchor(_, _)

Control == -1

VARIABLES graph, call, result

Reads(g, n) == {g[n].ins[i][1] : i \in DOMAIN g[n].ins}

ConsumesSwitch(g, n) ==
  /\ g[n].op = "Identity"
  /\ g[n].ins # <<>>
  /\ g[g[n].ins[1][1]].op = "Switch"

(* n does not wait for any of F that it reads.                             *)
Dedup(g, n, F) ==
  [g EXCEPT ![n].ctl = {f \in @ : f \in F /\ f \in Reads(g, n) => ConsumesSwitch(g, f)}]

WithIns(g, n, ins, t) == Dedup([g EXCEPT ![n].ins = ins], n, {t[1]})

(* A control input that would be redundant is not added.                   *)
WithControl(g, n, f) ==
  IF f \in Reads(g, n) /\ ~ConsumesSwitch(g, f) THEN g
  ELSE [g EXCEPT ![n].ctl = @ \cup {f}]

(* t read as what n may wait for: itself, or where it is a Switch an       *)
(* Identity that reads this port, or else a new one.                       *)
Anchors(g, t) ==
  LET found == {m \in DOMAIN g : g[m].op = "Identity" /\ t \in ToSet(g[m].ins)}
  IN  IF g[t[1]].op # "Switch" THEN {t[1]}
      ELSE IF found # {} THEN found ELSE {SwitchAnchor(t[1], t[2])}

WithAnchor(g, t, anchor) ==
  IF anchor \in DOMAIN g THEN g
  ELSE (anchor :> [op |-> "Identity", ins |-> <<t>>, ctl |-> {}]) @@ g

Becomes(g) == graph' = g /\ result' = "ok"
Refused    == UNCHANGED graph /\ result' = "error"

Exist(S) == S \subseteq DOMAIN graph

-----------------------------------------------------------------------------
(* Nodes.                                                                  *)

AddNode(node) ==
  LET ins == SelectSeq(node.input, LAMBDA t : t[2] # Control)
      ctl == {t[1] : t \in {u \in ToSet(node.input) : u[2] = Control}}
  IN  Becomes(Dedup((node.name :> [op |-> node.op, ins |-> ins, ctl |-> ctl]) @@ graph,
                    node.name, ctl))

UpdateNode(n, op) ==
  LET g == [graph EXCEPT ![n].op = op]
  IN  IF ~Exist({n}) \/ (op = "Switch" /\ \E m \in DOMAIN graph : n \in graph[m].ctl)
      THEN Refused
      ELSE Becomes(IF graph[n].op = op THEN graph
                   ELSE [m \in DOMAIN g |-> Dedup(g, m, {n})[m]])

(* The graph with the names of two nodes exchanged wherever they occur.    *)
Exchanged(a, b) ==
  LET Other(n) == IF n = a THEN b ELSE IF n = b THEN a ELSE n
  IN  [n \in {Other(m) : m \in DOMAIN graph} |->
         [op  |-> graph[Other(n)].op,
          ins |-> [i \in DOMAIN graph[Other(n)].ins |->
                     <<Other(graph[Other(n)].ins[i][1]), graph[Other(n)].ins[i][2]>>],
          ctl |-> {Other(f) : f \in graph[Other(n)].ctl}]]

IsRead(n) == \E m \in DOMAIN graph : n \in Reads(graph, m) \cup graph[m].ctl

(* Without update_fanouts a node that has, or once had, fanouts may be     *)
(* refused; one that has them is.                                          *)
UpdateNodeName(a, b, update_fanouts) ==
  IF ~Exist({a}) \/ (a # b /\ Exist({b})) THEN Refused
  ELSE IF a = b THEN Becomes(graph)
  ELSE \/ (update_fanouts \/ ~IsRead(a)) /\ Becomes(Exchanged(a, b))
       \/ ~update_fanouts /\ Refused

(* Without update_fanouts the consumers of both get the other one, and     *)
(* only what they read of each other is exchanged.                         *)
SwapNodeNames(a, b, update_fanouts) ==
  LET Other(n) == IF n = a THEN b ELSE IF n = b THEN a ELSE n
      Turn(n) ==
        IF n \notin {a, b} THEN graph[n]
        ELSE LET old == graph[Other(n)]
             IN  [op  |-> old.op,
                  ins |-> [i \in DOMAIN old.ins |->
                             IF old.ins[i][1] = n THEN <<Other(n), old.ins[i][2]>>
                             ELSE old.ins[i]],
                  ctl |-> {IF f = n THEN Other(n) ELSE f : f \in old.ctl}]
      g == [n \in DOMAIN graph |-> Turn(n)]
      (* Where a Switch was exchanged for another node, the Identities of *)
      (* either no longer stand for the Switch.                           *)
      was  == {n \in {a, b} : g[n].op # "Switch" /\ graph[n].op = "Switch"}
      near == {n \in DOMAIN g : n \in {a, b} \/ Reads(g, n) \cap was # {}}
      SwitchControl(n, m) ==
        graph[n].op = "Switch" /\ \E k \in DOMAIN graph : m \in graph[k].ctl
  IN  IF ~Exist({a}) THEN Refused
      ELSE IF a = b THEN Becomes(graph)
      ELSE IF ~Exist({b}) THEN Refused
      ELSE IF update_fanouts THEN Becomes(Exchanged(a, b))
      ELSE IF SwitchControl(a, b) \/ SwitchControl(b, a) THEN Refused
      ELSE Becomes([n \in DOMAIN g |-> Dedup(g, n, near)[n]])

(* Everybody but b itself reads b where it read a.                         *)
UpdateFanouts(a, b) ==
  LET Turn(n) ==
        IF n = b THEN graph[n]
        ELSE [op  |-> graph[n].op,
              ins |-> [i \in DOMAIN graph[n].ins |->
                         IF graph[n].ins[i][1] = a THEN <<b, graph[n].ins[i][2]>>
                         ELSE graph[n].ins[i]],
              ctl |-> IF a \in graph[n].ctl
                      THEN WithControl([graph EXCEPT ![n].ctl = @ \ {a}], n, b)[n].ctl
                      ELSE graph[n].ctl]
      g == [n \in DOMAIN graph |-> Turn(n)]
  IN  IF ~Exist({a, b}) THEN Refused
      ELSE IF a = b THEN Becomes(graph)
      ELSE IF graph[b].op = "Switch" /\ \E n \in DOMAIN graph \ {b} : a \in graph[n].ctl
      THEN Refused
      ELSE Becomes([n \in DOMAIN g |->
                      IF a \in Reads(graph, n) THEN Dedup(g, n, {b})[n] ELSE g[n]])

DeleteNodes(S) ==
  IF \E n \in DOMAIN graph \ S : (Reads(graph, n) \cup graph[n].ctl) \cap S \cap DOMAIN graph # {}
  THEN Refused
  ELSE Becomes([n \in DOMAIN graph \ S |-> graph[n]])

-----------------------------------------------------------------------------
(* Fanins.                                                                 *)

Regular(t) == t[2] # Control

CannotRead(n, t) == ~Regular(t) \/ n = t[1] \/ ~Exist({n, t[1]})

AddRegularFanin(n, t) ==
  IF CannotRead(n, t) THEN Refused
  ELSE Becomes(WithIns(graph, n, Append(graph[n].ins, t), t))

AddRegularFaninByPort(n, p, t) ==
  IF CannotRead(n, t) \/ p \notin 1..Len(graph[n].ins) + 1 THEN Refused
  ELSE Becomes(WithIns(graph, n, InsertAt(graph[n].ins, p, t), t))

AddControllingFanin(n, t) ==
  IF n = t[1] \/ ~Exist({n, t[1]}) THEN Refused
  ELSE IF graph[t[1]].op = "Switch" /\ ~Regular(t) THEN Refused
  ELSE \E f \in Anchors(graph, t) :
         IF f = n THEN Refused
         ELSE Becomes(WithControl(WithAnchor(graph, t, f), n, f))

RemoveRegularFanin(n, t) ==
  IF CannotRead(n, t) THEN Refused
  ELSE Becomes([graph EXCEPT ![n].ins = SelectSeq(@, LAMBDA u : u # t)])

RemoveRegularFaninByPort(n, p) ==
  IF ~Exist({n}) \/ p \notin 1..Len(graph[n].ins) THEN Refused
  ELSE Becomes([graph EXCEPT ![n].ins = RemoveAt(@, p)])

RemoveControllingFanin(n, f) ==
  IF n = f \/ ~Exist({n, f}) THEN Refused
  ELSE Becomes([graph EXCEPT ![n].ctl = @ \ {f}])

RemoveAllFanins(n, keep) ==
  IF ~Exist({n}) THEN Refused
  ELSE Becomes([graph EXCEPT ![n].ins = <<>>, ![n].ctl = IF keep THEN @ ELSE {}])

(* The control or all regular inputs t of n become u.                      *)
UpdateFanin(n, t, u) ==
  LET has  == IF Regular(t) THEN t \in ToSet(graph[n].ins) ELSE t[1] \in graph[n].ctl
      less == IF Regular(t)
              THEN [graph EXCEPT ![n].ins = SelectSeq(@, LAMBDA x : x # t)]
              ELSE [graph EXCEPT ![n].ctl = @ \ {t[1]}]
  IN  IF ~Exist({n, t[1], u[1]}) \/ n \in {t[1], u[1]}
         \/ (~Regular(u) /\ graph[u[1]].op = "Switch")
      THEN Refused
      ELSE Becomes(
             IF t = u \/ ~has THEN graph
             ELSE IF Regular(t) /\ Regular(u)
             THEN WithIns(graph, n, ReplaceAll(graph[n].ins, t, u), u)
             ELSE IF Regular(u) THEN WithIns(less, n, Append(less[n].ins, u), u)
             ELSE WithControl(less, n, u[1]))

UpdateRegularFaninByPort(n, p, t) ==
  IF CannotRead(n, t) \/ p \notin 1..Len(graph[n].ins) THEN Refused
  ELSE Becomes(IF graph[n].ins[p] = t THEN graph
               ELSE WithIns(graph, n, [graph[n].ins EXCEPT ![p] = t], t))

SwapRegularFaninsByPorts(n, p, q) ==
  IF ~Exist({n}) \/ ~({p, q} \subseteq 1..Len(graph[n].ins)) THEN Refused
  ELSE Becomes([graph EXCEPT ![n].ins = [@ EXCEPT ![p] = graph[n].ins[q],
                                                  ![q] = graph[n].ins[p]]])

(* For each input a node to wait for, the same for the same input.         *)
UpdateAllRegularFaninsToControlling(n) ==
  IF ~Exist({n}) THEN Refused
  ELSE LET ins == ToSet(graph[n].ins)
           choices == {c \in [ins -> UNION {Anchors(graph, t) : t \in ins}] :
                         \A t \in ins : c[t] \in Anchors(graph, t)}
       IN  \E anchor \in choices :
             LET F == {anchor[t] : t \in ins}
                 g == [f \in DOMAIN graph \cup F |->
                         IF f \in DOMAIN graph THEN graph[f]
                         ELSE [op  |-> "Identity", ctl |-> {},
                               ins |-> << CHOOSE t \in ins : anchor[t] = f >>]]
             IN  IF n \in F THEN Refused
                 ELSE Becomes([g EXCEPT ![n].ins = <<>>, ![n].ctl = @ \cup F])

-----------------------------------------------------------------------------
Init ==
  /\ call = <<"MutableGraphView">>
  /\ result = "ok"

Next ==
  LET c == call'
  IN  CASE c[1] = "AddNode" -> AddNode(c[2])
        [] c[1] = "UpdateNode" -> UpdateNode(c[2], c[3])
        [] c[1] = "UpdateNodeName" -> UpdateNodeName(c[2], c[3], c[4])
        [] c[1] = "SwapNodeNames" -> SwapNodeNames(c[2], c[3], c[4])
        [] c[1] = "UpdateFanouts" -> UpdateFanouts(c[2], c[3])
        [] c[1] = "AddRegularFanin" -> AddRegularFanin(c[2], c[3])
        [] c[1] = "AddRegularFaninByPort" -> AddRegularFaninByPort(c[2], c[3], c[4])
        [] c[1] = "AddControllingFanin" -> AddControllingFanin(c[2], c[3])
        [] c[1] = "RemoveRegularFanin" -> RemoveRegularFanin(c[2], c[3])
        [] c[1] = "RemoveRegularFaninByPort" -> RemoveRegularFaninByPort(c[2], c[3])
        [] c[1] = "RemoveControllingFanin" -> RemoveControllingFanin(c[2], c[3])
        [] c[1] = "RemoveAllFanins" -> RemoveAllFanins(c[2], c[3])
        [] c[1] = "UpdateFanin" -> UpdateFanin(c[2], c[3], c[4])
        [] c[1] = "UpdateRegularFaninByPort" -> UpdateRegularFaninByPort(c[2], c[3], c[4])
        [] c[1] = "SwapRegularFaninsByPorts" -> SwapRegularFaninsByPorts(c[2], c[3], c[4])
        [] c[1] = "UpdateAllRegularFaninsToControlling" -> UpdateAllRegularFaninsToControlling(c[2])
        [] c[1] = "DeleteNodes" -> DeleteNodes(c[2])

Spec == Init /\ [][Next]_<<graph, call, result>>
=============================================================================
