-------------------------- MODULE MutableGraphView --------------------------
(***************************************************************************)
(* The index-level graph of graph/utils/graph_view.{h,cc}: every node      *)
(* knows, by index, the fanouts it reads (its fanins) and the fanins that  *)
(* read it (its fanouts), and each of these entries knows the position of  *)
(* its twin in the other node's vector.  Mutation::Apply rewires these     *)
(* entries in place while nodes are renamed, overwritten, appended and,    *)
(* last of all, swapped with the final node and dropped.                   *)
(*                                                                         *)
(* A graph g is a record: g.nodes, a sequence of nodes, and g.at, the      *)
(* index by name.  A node is a record with                                 *)
(*   id, name, op, input   its NodeDef; id stands for the NodeDef's        *)
(*                         address, and an input is <<name, port>>         *)
(*   rfi   regular_fanins_           [node, port, at]                      *)
(*   cfi   controlling_fanins_       [node, at]                            *)
(*   rfo   regular_fanouts_by_port_  per port, [node, at]                  *)
(*   cfo   controlled_fanouts_       [node, at]                            *)
(*   nrfo  num_regular_fanouts_                                            *)
(*   cix   controlling_fanins_index_, by name                              *)
(*   cnt   fanins_count_, by <<id, port>>                                  *)
(*   upd   update_index_                                                   *)
(* where at is fanout_index_ in a fanin and fanin_index_ (also the port    *)
(* field of a regular one) in a fanout.  Indices, positions and ports      *)
(* count from 1 where the code counts from 0; 0 is kMissingIndex, and      *)
(* Control is the port of a control input, kControlSlot.                   *)
(***************************************************************************)
EXTENDS NodeViewDiff, SequencesExt, Functions

CONSTANTS
  Names, Ops, Ports, NewNodes,   \* as in GraphMutation
  MaxFanin, MaxCalls, MaxApplies,
  RenameTo,   \* the names a client renames nodes to
  InitDefs,   \* the node sequences [name, op, input] a view may be built on
  Orders      \* the orders in which a hash container of names is iterated

Missing == 0
Control == 0

Tensors == Names \X Ports

-----------------------------------------------------------------------------
(* Counts of fanins.                                                       *)

Increment(cnt, key) ==
  With(cnt, key, IF key \in DOMAIN cnt THEN cnt[key] + 1 ELSE 1)

(* Mutant: the other fanins from the same port are forgotten. *)
DecrementToNone(cnt, key) == Without(cnt, key)

Decrement(cnt, key) ==
  IF key \notin DOMAIN cnt THEN cnt
  ELSE IF cnt[key] <= 1 THEN Without(cnt, key)
  ELSE With(cnt, key, cnt[key] - 1)

SetAt(s, i, e) == IF i = Len(s) + 1 THEN Append(s, e) ELSE ReplaceAt(s, i, e)

SwapAt(s, i, j) == [s EXCEPT ![i] = s[j], ![j] = s[i]]

(* std::vector::resize and the trimming of trailing empty ports.           *)
WithPort(rfo, p) ==
  IF p <= Len(rfo) THEN rfo ELSE rfo \o [q \in 1..p - Len(rfo) |-> <<>>]

TrimPorts(rfo) ==
  SubSeq(rfo, 1, CHOOSE k \in 0..Len(rfo) :
                   /\ \A q \in k + 1..Len(rfo) : rfo[q] = <<>>
                   /\ k > 0 => rfo[k] # <<>>)

-----------------------------------------------------------------------------
(* Adding and removing the two ends of one fanin.                          *)

(* The fanin t of node x at position i of its regular fanins, replacing    *)
(* what is there.                                                          *)
SetRegularFanin(g, x, i, t) ==
  LET y   == g.at[t[1]]
      p   == t[2]
      rfo == WithPort(g.nodes[y].rfo, p)
  IN  [g EXCEPT
         !.nodes[y].rfo = [rfo EXCEPT ![p] = Append(@, [node |-> x, at |-> i])],
         !.nodes[y].nrfo = @ + 1,
         !.nodes[x].rfi =
            SetAt(@, i, [node |-> y, port |-> p, at |-> Len(rfo[p]) + 1]),
         !.nodes[x].cnt = Increment(@, <<g.nodes[y].id, p>>)]

AddRegularFaninInternal(g, x, t) ==
  SetRegularFanin(g, x, Len(g.nodes[x].rfi) + 1, t)

(* Mutant: the fanout that moves into the gap is not reported to its twin. *)
RemoveFanoutUnreported(g, x, i) ==
  LET f    == g.nodes[x].rfi[i]
      y    == f.node
      outs == g.nodes[y].rfo[f.port]
      g1   == [g EXCEPT !.nodes[x].cnt =
                           Decrement(@, <<g.nodes[y].id, f.port>>)]
  IN  IF f.at = Missing THEN g
      ELSE [g1 EXCEPT
              !.nodes[y].rfo =
                 TrimPorts([@ EXCEPT ![f.port] =
                              Front(IF f.at < Len(outs)
                                    THEN SwapAt(outs, f.at, Len(outs))
                                    ELSE outs)]),
              !.nodes[y].nrfo = @ - 1]

(* Removes the fanout behind fanin i of x; the fanin itself stays for the  *)
(* caller to overwrite or drop.                                            *)
RemoveRegularFaninFanoutInternal(g, x, i) ==
  LET f    == g.nodes[x].rfi[i]
      y    == f.node
      outs == g.nodes[y].rfo[f.port]
      last == outs[Len(outs)]
      g1   == [g EXCEPT !.nodes[x].cnt =
                           Decrement(@, <<g.nodes[y].id, f.port>>)]
      g2   == IF f.at < Len(outs)
              THEN [g1 EXCEPT !.nodes[last.node].rfi[last.at].at = f.at]
              ELSE g1
  IN  IF f.at = Missing THEN g
      ELSE [g2 EXCEPT
              !.nodes[y].rfo =
                 TrimPorts([@ EXCEPT ![f.port] =
                              Front(IF f.at < Len(outs)
                                    THEN SwapAt(outs, f.at, Len(outs))
                                    ELSE outs)]),
              !.nodes[y].nrfo = @ - 1]

UpdateRegularFaninInternal(g, x, i, t) ==
  SetRegularFanin(RemoveRegularFaninFanoutInternal(g, x, i), x, i, t)

(* The control fanin of x from the node named n, but for the NodeDef.      *)
LinkControl(g, x, n) ==
  LET y == g.at[n]
      k == Len(g.nodes[x].cfi) + 1
  IN  [g EXCEPT
         !.nodes[y].cfo = Append(@, [node |-> x, at |-> k]),
         !.nodes[x].cfi =
            Append(@, [node |-> y, at |-> Len(g.nodes[y].cfo) + 1]),
         !.nodes[x].cnt = Increment(@, <<g.nodes[y].id, Control>>),
         !.nodes[x].cix = IF n \in DOMAIN @ THEN @ ELSE With(@, n, k)]

AddControllingFaninInternal(g, x, n) ==
  LinkControl([g EXCEPT !.nodes[x].input = Append(@, <<n, Control>>)], x, n)

RemoveControllingFaninFanoutInternal(g, x, k) ==
  LET f    == g.nodes[x].cfi[k]
      y    == f.node
      outs == g.nodes[y].cfo
      last == outs[Len(outs)]
      g1   == [g EXCEPT
                 !.nodes[x].cnt = Without(@, <<g.nodes[y].id, Control>>),
                 !.nodes[x].cix = Without(@, g.nodes[y].name)]
      g2   == IF f.at < Len(outs)
              THEN [g1 EXCEPT !.nodes[last.node].cfi[last.at].at = f.at]
              ELSE g1
  IN  IF f.at = Missing THEN g
      ELSE [g2 EXCEPT !.nodes[y].cfo =
                         Front(IF f.at < Len(outs)
                               THEN SwapAt(outs, f.at, Len(outs)) ELSE outs)]

(* Removes the control fanins at positions K, the highest first; the last  *)
(* one of the node moves into each gap, in the view and in the NodeDef.    *)
RemoveControllingFaninInternal(g, x, K) ==
  LET drop(h, k) ==
        LET h1   == RemoveControllingFaninFanoutInternal(h, x, k)
            node == h1.nodes[x]
            size == Len(node.cfi)
            regs == Len(node.rfi)
            last == node.cfi[size]
            h2   == IF k = size THEN h1
                    ELSE [h1 EXCEPT
                            !.nodes[last.node].cfo[last.at].at = k,
                            !.nodes[x].cix =
                               With(@, h1.nodes[last.node].name, k),
                            !.nodes[x].input =
                               SwapAt(@, regs + k, regs + size),
                            !.nodes[x].cfi = SwapAt(@, k, size)]
        IN  [h2 EXCEPT !.nodes[x].input = Front(@), !.nodes[x].cfi = Front(@)]
  IN  FoldLeft(drop, g, SetToSortSeq(K, LAMBDA i, j : i > j))

RemoveAllFaninFanoutInternal(g, x) ==
  LET g1 == FoldLeft(LAMBDA h, i : RemoveRegularFaninFanoutInternal(h, x, i),
                     g, [i \in DOMAIN g.nodes[x].rfi |-> i])
      g2 == [g1 EXCEPT !.nodes[x].rfi = <<>>]
      g3 == FoldLeft(LAMBDA h, k : RemoveControllingFaninFanoutInternal(h, x, k),
                     g2, [k \in DOMAIN g.nodes[x].cfi |-> k])
  IN  [g3 EXCEPT !.nodes[x].cfi = <<>>]

-----------------------------------------------------------------------------
(* Building the view on a sequence of NodeDefs.                            *)

(* What the constructor asks of the graph: names are unique, every input   *)
(* names another node, and control inputs come last.                       *)
CheckFaninsInternal(defs) ==
  /\ \A x, y \in DOMAIN defs : x # y => defs[x].name # defs[y].name
  /\ \A x \in DOMAIN defs : \A i \in DOMAIN defs[x].input :
       LET t == defs[x].input[i]
       IN  /\ t[1] # defs[x].name
           /\ \E y \in DOMAIN defs : defs[y].name = t[1]
           /\ t[2] # Control =>
                \A j \in 1..i : defs[x].input[j][2] # Control

(* The view of node x: a control input seen before is swapped behind the   *)
(* last one not yet looked at, and cut off in the end.                     *)
AddFaninsInternal(g, x) ==
  LET step(s, i) ==
        LET t == s.g.nodes[x].input[s.pos]
        IN  IF s.pos > s.last THEN s
            ELSE IF t[2] # Control
            THEN [s EXCEPT !.g = AddRegularFaninInternal(@, x, t),
                           !.pos = @ + 1]
            ELSE IF t[1] \in DOMAIN s.g.nodes[x].cix
            THEN [s EXCEPT !.g.nodes[x].input = SwapAt(@, s.pos, s.last),
                           !.last = @ - 1]
            ELSE [s EXCEPT !.g = LinkControl(@, x, t[1]), !.pos = @ + 1]
      end == FoldLeftDomain(step,
                            [g |-> g, pos |-> 1, last |-> Len(g.nodes[x].input)],
                            g.nodes[x].input)
  IN  [end.g EXCEPT !.nodes[x].input = SubSeq(@, 1, end.last)]

NewNodeView(id, def) ==
  [id |-> id, name |-> def.name, op |-> def.op, input |-> def.input,
   rfi |-> <<>>, cfi |-> <<>>, rfo |-> <<>>, cfo |-> <<>>, nrfo |-> 0,
   cix |-> [n \in {} |-> 0], cnt |-> [k \in {} |-> 0], upd |-> Missing]

AddUniqueNodeInternal(g, def) ==
  LET x == Len(g.nodes) + 1
  IN  [nodes |-> Append(g.nodes, NewNodeView(x, def)),
       at    |-> With(g.at, def.name, x)]

ViewOf(defs) ==
  LET bare == FoldLeft(AddUniqueNodeInternal,
                       [nodes |-> <<>>, at |-> [n \in {} |-> 0]], defs)
  IN  FoldLeft(AddFaninsInternal, bare, [x \in DOMAIN defs |-> x])

-----------------------------------------------------------------------------
(* The stages of Apply.  upds is updated_nodes_; ord is the order in which *)
(* hash containers of names are iterated.                                  *)

InOrder(S, ord) == SelectSeq(ord, LAMBDA n : n \in S)

(* Gives node x the fanouts f.rfo, f.cfo, and points their fanins at x.    *)
ReplaceNodeFanouts(g, x, f) ==
  LET redirect(h, y, port) ==
        [h EXCEPT !.nodes[y].cnt = Increment(@, <<h.nodes[x].id, port>>)]
      regular(h, p, j) ==
        LET c   == f.rfo[p][j]
            old == h.nodes[c.node].rfi[c.at]
            h1  == [h EXCEPT
                      !.nodes[c.node].cnt =
                         Decrement(@, <<h.nodes[old.node].id, old.port>>),
                      !.nodes[c.node].rfi[c.at].node = x]
        IN  redirect(h1, c.node, old.port)
      control(h, j) ==
        LET c   == f.cfo[j]
            old == h.nodes[c.node].cfi[c.at]
            h1  == [h EXCEPT
                      !.nodes[c.node].cnt =
                         Decrement(@, <<h.nodes[old.node].id, Control>>),
                      !.nodes[c.node].cfi[c.at] = [node |-> x, at |-> j]]
        IN  redirect(h1, c.node, Control)
      g1 == [g EXCEPT !.nodes[x].nrfo = f.nrfo, !.nodes[x].rfo = f.rfo]
      g2 == FoldLeftDomain(
              LAMBDA h, p : FoldLeftDomain(LAMBDA k, j : regular(k, p, j),
                                           h, f.rfo[p]),
              g1, f.rfo)
  IN  FoldLeftDomain(control, [g2 EXCEPT !.nodes[x].cfo = f.cfo], f.cfo)

FanoutsOf(v) == [rfo |-> v.rfo, nrfo |-> v.nrfo, cfo |-> v.cfo]

(* The renamed nodes, as positions in upds.                                *)
RenamedIn(g, upds) ==
  SelectSeq([k \in DOMAIN upds |-> k],
            LAMBDA k : upds[k].diff.name # g.nodes[upds[k].node].name)

(* s.fan: the fanouts of renamed nodes nobody has taken over yet, by name; *)
(* s.over: the node each renamed one overwrites; s.gone: removed nodes     *)
(* that lost their name to a renamed one.                                  *)
FixRenamedNodes(g, upds, rems) ==
  LET ren     == RenamedIn(g, upds)
      names   == {g.nodes[upds[k].node].name : k \in Range(ren)}
      target(k) == upds[k].diff.name
      bare(h, k) == [h EXCEPT !.nodes[upds[k].node].rfo = <<>>,
                              !.nodes[upds[k].node].cfo = <<>>,
                              !.at = Without(@, g.nodes[upds[k].node].name)]
      start == [g |-> FoldLeft(bare, g, ren),
                fan |-> [n \in names |-> FanoutsOf(g.nodes[g.at[n]])],
                over |-> [k \in Range(ren) |->
                            IF target(k) \in DOMAIN g.at THEN g.at[target(k)]
                            ELSE Missing],
                gone |-> {}]
      take(s, k) ==
        LET x == upds[k].node
            y == s.over[k]
        IN  IF target(k) \in DOMAIN s.fan
            THEN [s EXCEPT
                    !.g = ReplaceNodeFanouts(@, x, s.fan[target(k)]),
                    !.fan = Without(@, target(k)),
                    !.over[k] = Missing]
            ELSE IF y # Missing
            THEN [s EXCEPT
                    !.g = [ReplaceNodeFanouts(
                             [@ EXCEPT !.nodes[y].rfo = <<>>,
                                       !.nodes[y].cfo = <<>>],
                             x, FanoutsOf(@.nodes[y]))
                           EXCEPT !.at = Without(@, s.g.nodes[y].name)],
                    !.gone = IF y \in rems THEN @ \cup {y} ELSE @]
            ELSE [s EXCEPT !.g.nodes[x].nrfo = 0]
      rename(s, k) ==
        [take(s, k) EXCEPT !.g.nodes[upds[k].node].name = target(k),
                           !.g.at = With(@, target(k), upds[k].node)]
  IN  FoldLeft(rename, start, ren)

FreshId(g) ==
  LET ids == {g.nodes[x].id : x \in DOMAIN g.nodes}
  IN  CHOOSE i \in 1..Len(g.nodes) + 1 : i \notin ids

(* A new node takes over the node of its name, or is appended.  The fanins *)
(* of the node taken over are dropped while the fanouts of renamed nodes   *)
(* are set aside in s.fan: one of these fanins is looked for in a vector   *)
(* that was moved from, and what happens then is undefined.                *)
AddNewNodes(s, news) ==
  LET reads(v, names) == \E i \in DOMAIN v.input : v.input[i][1] \in names
      add(r, w) ==
        IF w.name \in DOMAIN r.g.at
        THEN LET x == r.g.at[w.name]
             IN  IF reads(r.g.nodes[x], DOMAIN r.fan)
                 THEN [r EXCEPT !.undefined = TRUE, !.new = Append(@, x)]
                 ELSE [r EXCEPT
                    !.g = [RemoveAllFaninFanoutInternal(@, x)
                           EXCEPT !.nodes[x].op = w.op, !.nodes[x].input = <<>>],
                    !.rems = @ \ {x},
                    !.new = Append(@, x)]
        ELSE LET x  == Len(r.g.nodes) + 1
                 v  == NewNodeView(FreshId(r.g), [name |-> w.name, op |-> w.op,
                                               input |-> <<>>])
                 g1 == [nodes |-> Append(r.g.nodes, v),
                        at |-> With(r.g.at, w.name, x)]
             IN  [r EXCEPT
                    !.g = IF w.name \in DOMAIN r.fan
                          THEN ReplaceNodeFanouts(g1, x, r.fan[w.name])
                          ELSE g1,
                    !.fan = Without(@, w.name),
                    !.new = Append(@, x)]
  IN  FoldLeft(add, s, news)

(* Fanins of a name nobody took over are marked, so that removing them     *)
(* leaves the fanouts of the node now at that index alone.                 *)
FixRenamedFanouts(g, fan, ord) ==
  LET cut(h, n) ==
        LET regular(k, p, j) ==
              LET c == fan[n].rfo[p][j]
                  f == k.nodes[c.node].rfi[c.at]
              IN  [k EXCEPT
                     !.nodes[c.node].cnt = Without(@, <<k.nodes[f.node].id, f.port>>),
                     !.nodes[c.node].rfi[c.at].at = Missing]
            control(k, j) ==
              LET c == fan[n].cfo[j]
                  f == k.nodes[c.node].cfi[c.at]
              IN  [k EXCEPT
                     !.nodes[c.node].cnt = Without(@, <<k.nodes[f.node].id, Control>>),
                     !.nodes[c.node].cix = Without(@, n),
                     !.nodes[c.node].cfi[c.at].at = Missing]
            h1 == FoldLeftDomain(
                    LAMBDA k, p : FoldLeftDomain(LAMBDA m, j : regular(m, p, j),
                                                 k, fan[n].rfo[p]),
                    h, fan[n].rfo)
        IN  FoldLeftDomain(control, h1, fan[n].cfo)
  IN  FoldLeft(cut, g, InOrder(DOMAIN fan, ord))

Ascending(S) == SetToSortSeq(S, LAMBDA i, j : i < j)

(* The last regular fanins are dropped, in the view and in the NodeDef.    *)
TruncateFanins(g, x, count) ==
  LET n == Len(g.nodes[x].rfi)
      first == n - count
  IN  [FoldLeft(LAMBDA h, i : RemoveRegularFaninFanoutInternal(h, x, i),
                g, Ascending(first + 1..n))
       EXCEPT !.nodes[x].rfi = SubSeq(@, 1, first),
              !.nodes[x].input =
                 SubSeq(@, 1, first) \o SubSeq(@, n + 1, Len(@))]

(* Mutant: the controls stay shifted. *)
AppendFaninsUnrotated(g, x, ts) ==
  LET n == Len(g.nodes[x].rfi)
      add(s, t) ==
        LET g1 == AddRegularFaninInternal(s.g, x, t)
        IN  [g   |-> [g1 EXCEPT !.nodes[x].input =
                         SwapAt(Append(@, t), s.cur, Len(@) + 1)],
             cur |-> s.cur + 1]
  IN  FoldLeft(add, [g |-> g, cur |-> n + 1], ts).g

(* Each new input is appended to the NodeDef and swapped with the control  *)
(* input in its place; the controls, which the swaps shifted in a ring,    *)
(* are rotated back to the order of controlling_fanins_.                   *)
AppendFanins(g, x, ts) ==
  LET n == Len(g.nodes[x].rfi)
      add(s, t) ==
        LET g1   == AddRegularFaninInternal(s.g, x, t)
            size == Len(g1.nodes[x].input) + 1
        IN  [g   |-> [g1 EXCEPT !.nodes[x].input =
                                   SwapAt(Append(@, t), s.cur, size)],
             cur |-> s.cur + 1,
             ctl |-> IF s.ctl = s.cur THEN size ELSE s.ctl]
      end  == FoldLeft(add, [g |-> g, cur |-> n + 1, ctl |-> n + 1], ts)
      v    == end.g.nodes[x]
      regs == Len(v.rfi)
  IN  IF Len(v.cfi) > 1 /\ end.ctl # regs + 1
      THEN [end.g EXCEPT !.nodes[x].input =
                            SubSeq(@, 1, regs) \o SubSeq(@, end.ctl, Len(@))
                              \o SubSeq(@, regs + 1, end.ctl - 1)]
      ELSE end.g

(* One diff of ApplyNodeUpdates; its name has been dealt with.             *)
ApplyDiff(g, x, d, ord) ==
  LET n     == Len(g.nodes[x].rfi)
      added == {i \in DOMAIN d.put : i > n}
      g1 == [g EXCEPT !.nodes[x].op = d.op, !.nodes[x].upd = Missing]
      g2 == IF d.rem # {} THEN TruncateFanins(g1, x, Cardinality(d.rem))
            ELSE IF added # {}
            THEN AppendFanins(g1, x, [k \in 1..Cardinality(added) |-> d.put[n + k]])
            ELSE g1
      g3 == FoldLeft(LAMBDA h, i :
                       [UpdateRegularFaninInternal(h, x, i, d.put[i])
                        EXCEPT !.nodes[x].input[i] = d.put[i]],
                     g2, Ascending(DOMAIN d.put \ added))
      g4 == RemoveControllingFaninInternal(g3, x, d.crem)
  IN  FoldLeft(LAMBDA h, m : AddControllingFaninInternal(h, x, m),
               g4, InOrder(d.cadd, ord))

(* A diff that only renamed its node is empty by now, and skipped.         *)
ApplyNodeUpdates(g, upds, ord) ==
  FoldLeft(LAMBDA h, u : IF IsEmpty(u.diff, h.nodes[u.node]) THEN h
                         ELSE ApplyDiff(h, u.node, u.diff, ord),
           g, upds)

SetNewNodesFanins(g, news, new, ord) ==
  LET fanins(h, k) ==
        LET h1 == FoldLeft(LAMBDA i, t :
                             [AddRegularFaninInternal(i, new[k], t)
                              EXCEPT !.nodes[new[k]].input = Append(@, t)],
                           h, news[k].ins)
        IN  FoldLeft(LAMBDA i, m : AddControllingFaninInternal(i, new[k], m),
                     h1, InOrder(news[k].ctl, ord))
  IN  FoldLeftDomain(fanins, g, news)

(* Node r, which nothing refers to any more, is dropped: the last node     *)
(* takes its index.                                                        *)
DropNode(g, r) ==
  LET last  == Len(g.nodes)
      node  == g.nodes[last]
      g1 == FoldLeft(LAMBDA h, f :
                       [h EXCEPT !.nodes[f.node].rfo[f.port][f.at].node = r],
                     g, node.rfi)
      g2 == FoldLeft(LAMBDA h, f :
                       [h EXCEPT !.nodes[f.node].cfo[f.at].node = r],
                     g1, node.cfi)
      g3 == FoldLeft(LAMBDA h, c :
                       [h EXCEPT !.nodes[c.node].rfi[c.at].node = r],
                     g2, FlattenSeq(node.rfo))
      g4 == FoldLeft(LAMBDA h, c :
                       [h EXCEPT !.nodes[c.node].cfi[c.at].node = r],
                     g3, node.cfo)
      g5 == [g4 EXCEPT !.nodes[r] = g4.nodes[last], !.at[node.name] = r]
  IN  [(IF last > r THEN g5 ELSE g) EXCEPT !.nodes = Front(@)]

RemoveNodesInternal(s, ord) ==
  LET over == {s.over[k] : k \in DOMAIN s.over} \ {Missing}
      g1 == FoldLeft(LAMBDA h, y : RemoveAllFaninFanoutInternal(h, y),
                     s.g, Ascending(over))
      rems == SelectSeq([i \in DOMAIN ord |->
                          IF \E x \in s.rems : g1.nodes[x].name = ord[i]
                          THEN CHOOSE x \in s.rems : g1.nodes[x].name = ord[i]
                          ELSE Missing],
                        LAMBDA x : x # Missing)
      g2 == FoldLeft(LAMBDA h, x :
                       [RemoveAllFaninFanoutInternal(h, x) EXCEPT
                          !.at = IF x \in s.gone THEN @
                                 ELSE Without(@, h.nodes[x].name)],
                     g1, rems)
  IN  FoldLeft(DropNode, g2,
               SetToSortSeq(over \cup s.rems, LAMBDA i, j : i > j))

(* Nodes whose diffs say nothing give them up.                             *)
Unlinked(g, upds) ==
  FoldLeft(LAMBDA h, u : IF IsEmpty(u.diff, h.nodes[u.node])
                         THEN [h EXCEPT !.nodes[u.node].upd = Missing] ELSE h,
           g, upds)

-----------------------------------------------------------------------------
VARIABLES
  g,        \* the view and its GraphDef
  updated,  \* Mutation::updated_nodes_, in order: [node, diff]
  removed,  \* Mutation::removed_nodes_, indices
  fresh,    \* Mutation::new_nodes_
  status, calls, counter   \* as in GraphMutation

vars == <<g, updated, removed, fresh, status, calls, counter>>

Init == /\ \E defs \in InitDefs : CheckFaninsInternal(defs) /\ g = ViewOf(defs)
        /\ updated = <<>>
        /\ removed = {}
        /\ fresh = <<>>
        /\ status = "ok"
        /\ calls = 0
        /\ counter = 0

Called == /\ calls < MaxCalls /\ counter < MaxApplies
          /\ calls' = calls + 1
          /\ UNCHANGED counter

NameOf(x) == g.nodes[x].name

(* Node x as its diff sees it. *)
View(x) ==
  LET v == g.nodes[x]
  IN  [name |-> v.name, op |-> v.op,
       ins |-> [i \in DOMAIN v.rfi |-> <<NameOf(v.rfi[i].node), v.rfi[i].port>>],
       ctl |-> [k \in DOMAIN v.cfi |-> NameOf(v.cfi[k].node)]]

(* Where controlling_fanins_index_ finds n.                                *)
ControlKey(x, n) ==
  IF n \in DOMAIN g.nodes[x].cix THEN g.nodes[x].cix[n] ELSE Missing

DiffOf(x) == IF g.nodes[x].upd = Missing THEN EmptyDiff(View(x))
             ELSE updated[g.nodes[x].upd].diff

AddMutation(x, d) ==
  /\ Called
  /\ IF g.nodes[x].upd = Missing
     THEN /\ updated' = Append(updated, [node |-> x, diff |-> d])
          /\ g' = [g EXCEPT !.nodes[x].upd = Len(updated) + 1]
     ELSE /\ updated' = IF x \in removed THEN updated
                        ELSE [updated EXCEPT ![g.nodes[x].upd].diff = d]
          /\ UNCHANGED g
  /\ UNCHANGED <<removed, fresh, status>>

EditNode ==
  \E x \in IF counter < MaxApplies THEN DOMAIN g.nodes \ removed ELSE {} :
    LET d == DiffOf(x)
        v == View(x)
    IN  \/ \E n \in RenameTo : AddMutation(x, UpdateName(d, n))
        \/ \E op \in Ops : AddMutation(x, UpdateOp(d, op))
        \/ \E i \in 1..MaxFanin, t \in Tensors :
              AddMutation(x, AddOrUpdateRegularFanin(d, v, i, t))
        \/ \E i \in 1..MaxFanin :
              /\ ~NothingToRemove(d, v, i)
              /\ AddMutation(x, RemoveRegularFanin(d, v, i))
        \/ \E n \in Names :
              AddMutation(x, AddControllingFanin(d, v, ControlKey(x, n), n))
        \/ \E n \in Names :
              AddMutation(x, RemoveControllingFanin(d, v, ControlKey(x, n), n))

(* Mutant: the diff that moves is not reported to its node. *)
RemoveNodeUnreported(x) ==
  LET u == g.nodes[x].upd
  IN  /\ Called
      /\ updated' = IF u = Missing THEN updated
                    ELSE Front(SwapAt(updated, u, Len(updated)))
      /\ g' = [g EXCEPT !.nodes[x].upd = Missing]
      /\ removed' = removed \cup {x}
      /\ UNCHANGED <<fresh, status>>

(* The diff of the node is dropped; the last diff takes its place.         *)
RemoveNode(x) ==
  LET u == g.nodes[x].upd
  IN  /\ Called
      /\ updated' = IF u = Missing THEN updated
                    ELSE Front(SwapAt(updated, u, Len(updated)))
      /\ g' = IF u = Missing THEN g
              ELSE [g EXCEPT !.nodes[Last(updated).node].upd = u,
                             !.nodes[x].upd = Missing]
      /\ removed' = removed \cup {x}
      /\ UNCHANGED <<fresh, status>>

AddNode(w) ==
  /\ Called
  /\ IF (\E i \in DOMAIN w.ins : w.ins[i][1] = w.name) \/ w.name \in w.ctl
     THEN status' = "bad node" /\ UNCHANGED fresh
     ELSE status' = "ok" /\ fresh' = Append(fresh, w)
  /\ UNCHANGED <<g, updated, removed>>

Reset ==
  /\ g' = FoldLeft(LAMBDA h, u : [h EXCEPT !.nodes[u.node].upd = Missing],
                   g, updated)
  /\ updated' = <<>> /\ removed' = {} /\ fresh' = <<>> /\ calls' = 0
  /\ UNCHANGED <<status, counter>>

(* The edits of a node to be added, as in GraphMutation.                   *)
EditNewNode(k) ==
  LET Become(w) == /\ Called
                   /\ fresh' = [fresh EXCEPT ![k] = w]
                   /\ UNCHANGED <<g, updated, removed, status>>
      w == fresh[k]
  IN  \/ \E n \in Names : Become([w EXCEPT !.name = n])
      \/ \E i \in 1..MaxFanin, t \in Tensors :
            Become([w EXCEPT !.ins = With(@, i, t)])
      \/ \E i \in DOMAIN w.ins : Become([w EXCEPT !.ins = Without(@, i)])
      \/ \E n \in Names : Become([w EXCEPT !.ctl = @ \cup {n}])
      \/ \E n \in w.ctl : Become([w EXCEPT !.ctl = @ \ {n}])

-----------------------------------------------------------------------------
(* Validation of a mutation.                                               *)

Renamed == {k \in DOMAIN updated : updated[k].diff.name # NameOf(updated[k].node)}
Touched == {k \in DOMAIN updated : ~IsEmpty(updated[k].diff, View(updated[k].node))}

Claims == [k \in Touched |-> updated[k].diff.name]
NewNames == [k \in DOMAIN fresh |-> fresh[k].name]
Claimed == Range(Claims) \cup Range(NewNames)

GivenUp == {NameOf(updated[k].node) : k \in Renamed} \cup {NameOf(x) : x \in removed}
NamesAfter == Claimed \cup (DOMAIN g.at \ GivenUp)

GetNodeNamesAndPartitionUpdatedNodes ==
  /\ IsInjective(Claims) /\ IsInjective(NewNames)
  /\ Range(Claims) \cap Range(NewNames) = {}

Overwritten == {g.at[n] : n \in {updated[k].diff.name : k \in Renamed}
                                 \cap DOMAIN g.at}

(* Mutant: the last fanin kept counts as one removed. *)
FanoutsWellFormedOffByOne ==
  \A m \in GivenUp \ Claimed :
    LET v == g.nodes[g.at[m]]
        gone(c, u) ==
          IF u = Missing THEN c.node \in removed \cup Overwritten
          ELSE \/ c.at >= Len(g.nodes[c.node].rfi) - Cardinality(updated[u].diff.rem)
               \/ c.at \in DOMAIN updated[u].diff.put
    IN  \A p \in DOMAIN v.rfo : \A j \in DOMAIN v.rfo[p] :
           gone(v.rfo[p][j], g.nodes[v.rfo[p][j].node].upd)

(* The consumers of the names left missing are looked up by the fanouts of *)
(* the nodes that had them.                                                *)
RemovedOrMissingNodeFanoutsWellFormed ==
  \A m \in GivenUp \ Claimed :
    LET v == g.nodes[g.at[m]]
        leaves(x) == x \in removed \/ x \in Overwritten
    IN  /\ \A p \in DOMAIN v.rfo : \A j \in DOMAIN v.rfo[p] :
             LET c == v.rfo[p][j]
                 u == g.nodes[c.node].upd
             IN  IF u = Missing THEN leaves(c.node)
                 ELSE \/ c.at > Len(g.nodes[c.node].rfi)
                                  - Cardinality(updated[u].diff.rem)
                      \/ c.at \in DOMAIN updated[u].diff.put
        /\ \A j \in DOMAIN v.cfo :
             LET c == v.cfo[j]
                 u == g.nodes[c.node].upd
             IN  IF u = Missing THEN leaves(c.node)
                 ELSE c.at \in updated[u].diff.crem

ValidateInternal ==
  /\ GetNodeNamesAndPartitionUpdatedNodes
  /\ RemovedOrMissingNodeFanoutsWellFormed
  /\ \A k \in Touched :
       IsWellFormed(updated[k].diff, View(updated[k].node), NamesAfter)
  /\ \A k \in DOMAIN fresh : NewNodeIsWellFormed(fresh[k], NamesAfter)

(* The stages of ApplyMutationInternal on a valid mutation, with the hash  *)
(* containers in the order ord.                                            *)
Rewire(ord) ==
  \E s \in {FixRenamedNodes(Unlinked(g, updated), updated, removed)} :
  \E t \in {AddNewNodes([g |-> s.g, fan |-> s.fan, over |-> s.over,
                         gone |-> s.gone, rems |-> removed, new |-> <<>>,
                         undefined |-> FALSE], fresh)} :
    IF t.undefined THEN status' = "undefined" /\ UNCHANGED g
    ELSE \E g1 \in {FixRenamedFanouts(t.g, t.fan, ord)} :
         \E g2 \in {ApplyNodeUpdates(g1, updated, ord)} :
         \E g3 \in {SetNewNodesFanins(g2, fresh, t.new, ord)} :
           /\ g' = RemoveNodesInternal([t EXCEPT !.g = g3], ord)
           /\ status' = "ok"

Apply ==
  /\ counter < MaxApplies
  /\ IF ValidateInternal
     THEN /\ \E ord \in Orders : Rewire(ord)
          /\ updated' = <<>> /\ removed' = {} /\ fresh' = <<>> /\ calls' = 0
          /\ counter' = counter + 1
     ELSE /\ status' = "bad mutation"
          /\ UNCHANGED <<g, updated, removed, fresh, calls, counter>>

-----------------------------------------------------------------------------
(* SortTopologically: a reversed post-order of depth-first searches from   *)
(* the nodes without fanins, on an explicit stack.  order[x] is the new    *)
(* index of node x.  The callers pass no extra dependencies.               *)

(* Mutant: controlled fanouts are not followed. *)
RegularFanoutIndices(x) ==
  SelectSeq([j \in DOMAIN FlattenSeq(g.nodes[x].rfo) |->
               FlattenSeq(g.nodes[x].rfo)[j].node],
            LAMBDA y : ~(g.nodes[x].op = "NextIteration"
                          /\ g.nodes[y].op = "Merge"))

(* The fanouts of x in the order they are pushed; the edge back from a     *)
(* NextIteration to a Merge is not followed.                               *)
FanoutIndices(x) ==
  SelectSeq([j \in DOMAIN FlattenSeq(g.nodes[x].rfo) |->
               FlattenSeq(g.nodes[x].rfo)[j].node]
              \o [j \in DOMAIN g.nodes[x].cfo |-> g.nodes[x].cfo[j].node],
            LAMBDA y : ~(g.nodes[x].op = "NextIteration"
                          /\ g.nodes[y].op = "Merge"))

RECURSIVE Traverse(_)
Traverse(s) ==
  IF s.stack = <<>> THEN s
  ELSE LET top  == Last(s.stack)
           rest == Front(s.stack)
           outs == FanoutIndices(top.node)
       IN  IF s.state[top.node] = "processed"
           THEN Traverse([s EXCEPT !.stack = rest])
           ELSE IF top.exit
           THEN Traverse([s EXCEPT !.stack = rest,
                                   !.state[top.node] = "processed",
                                   !.order[top.node] = s.pos,
                                   !.pos = @ - 1])
           ELSE LET st == [s.state EXCEPT ![top.node] = "processing"]
                    pending == SelectSeq(outs, LAMBDA y : st[y] = "pending")
                IN  Traverse(
                      [s EXCEPT
                         !.state = st,
                         !.cycle = @ \/ \E y \in Range(outs) : st[y] = "processing",
                         !.stack = Append(rest, [node |-> top.node, exit |-> TRUE])
                                     \o [j \in DOMAIN pending |->
                                           [node |-> pending[j], exit |-> FALSE]]])

SearchFrom(s, x) ==
  IF s.state[x] = "pending"
  THEN Traverse([s EXCEPT !.stack = << [node |-> x, exit |-> FALSE] >>])
  ELSE s

Roots == SelectSeq([i \in DOMAIN g.nodes |-> Len(g.nodes) + 1 - i],
                   LAMBDA x : g.nodes[x].rfi = <<>> /\ g.nodes[x].cfi = <<>>)

Search == FoldLeft(SearchFrom,
                   [stack |-> <<>>, cycle |-> FALSE, pos |-> Len(g.nodes),
                    state |-> [x \in DOMAIN g.nodes |-> "pending"],
                    order |-> [x \in DOMAIN g.nodes |-> 1]],
                   Roots)

(* Node x goes to index order[x], and every index in the view follows it.  *)
Permuted(order) ==
  LET move(s)  == FoldLeft(LAMBDA r, e : Append(r, [e EXCEPT !.node = order[@]]),
                           <<>>, s)
      moved(v) == [v EXCEPT !.rfi = move(@), !.cfi = move(@), !.cfo = move(@),
                            !.rfo = FoldLeft(LAMBDA r, f : Append(r, move(f)),
                                             <<>>, @)]
      place(r, i) ==
        Append(r, moved(g.nodes[CHOOSE x \in DOMAIN g.nodes : order[x] = i]))
  IN  [nodes |-> FoldLeftDomain(place, <<>>, g.nodes),
       at |-> [n \in DOMAIN g.at |-> order[g.at[n]]]]

(* All nodes must be reached unless cycles are ignored.                    *)
Sort(ignore_cycles) ==
  LET found == Search
      all == IF found.pos = 0 THEN found
             ELSE FoldLeft(SearchFrom, found, [x \in DOMAIN g.nodes |-> x])
      fails == \/ updated # <<>> \/ fresh # <<>>
               \/ ~ignore_cycles /\ (found.cycle \/ found.pos # 0)
  IN  /\ IF fails THEN status' = "unsorted" /\ UNCHANGED g
         ELSE status' = "sorted" /\ g' = Permuted(all.order)
      /\ UNCHANGED <<updated, removed, fresh, calls, counter>>

(* A sort moves nodes away from the indices that are to be removed, and    *)
(* the code does not refuse it; no pass of the plugin asks for one then.   *)
SortTopologically == removed = {} /\ \E ignore \in BOOLEAN : Sort(ignore)

-----------------------------------------------------------------------------
Next == \/ EditNode
        \/ \E x \in DOMAIN g.nodes : RemoveNode(x)
        \/ \E w \in NewNodes : AddNode(w)
        \/ \E k \in DOMAIN fresh : EditNewNode(k)
        \/ Apply
        \/ Reset
        \/ SortTopologically

Spec == Init /\ [][Next]_vars

-----------------------------------------------------------------------------
(* Properties.                                                             *)

Indices == DOMAIN g.nodes

(* Every fanin has its twin among the fanouts of the node it reads, at the *)
(* position it says, and every fanout its twin among the fanins.  Removing *)
(* a fanout moves another one, and so does dropping a node: each move must *)
(* fix the twin of what moved.                                             *)
TwinsAgree ==
  \A x \in Indices :
    LET v == g.nodes[x]
    IN  /\ \A i \in DOMAIN v.rfi :
             /\ v.rfi[i].node \in Indices
             /\ v.rfi[i].port \in DOMAIN g.nodes[v.rfi[i].node].rfo
             /\ v.rfi[i].at \in DOMAIN g.nodes[v.rfi[i].node].rfo[v.rfi[i].port]
             /\ g.nodes[v.rfi[i].node].rfo[v.rfi[i].port][v.rfi[i].at]
                  = [node |-> x, at |-> i]
        /\ \A p \in DOMAIN v.rfo : \A j \in DOMAIN v.rfo[p] :
             /\ v.rfo[p][j].node \in Indices
             /\ v.rfo[p][j].at \in DOMAIN g.nodes[v.rfo[p][j].node].rfi
             /\ g.nodes[v.rfo[p][j].node].rfi[v.rfo[p][j].at]
                  = [node |-> x, port |-> p, at |-> j]
        /\ \A k \in DOMAIN v.cfi :
             /\ v.cfi[k].node \in Indices
             /\ v.cfi[k].at \in DOMAIN g.nodes[v.cfi[k].node].cfo
             /\ g.nodes[v.cfi[k].node].cfo[v.cfi[k].at] = [node |-> x, at |-> k]
        /\ \A j \in DOMAIN v.cfo :
             /\ v.cfo[j].node \in Indices
             /\ v.cfo[j].at \in DOMAIN g.nodes[v.cfo[j].node].cfi
             /\ g.nodes[v.cfo[j].node].cfi[v.cfo[j].at] = [node |-> x, at |-> j]

(* The view says what the GraphDef says: the inputs of each NodeDef are    *)
(* the regular fanins and then the controlling fanins of its view, in      *)
(* order, the names lead to the nodes that have them, and the control      *)
(* index finds each control where it is.  In-place appends, swaps and the  *)
(* rotation of inputs must keep step with the vectors of the view.         *)
ViewMatchesGraphDef ==
  /\ \A x \in Indices :
       LET v == g.nodes[x]
       IN  /\ v.input = [i \in DOMAIN v.rfi |->
                           <<NameOf(v.rfi[i].node), v.rfi[i].port>>]
                          \o [k \in DOMAIN v.cfi |->
                                <<NameOf(v.cfi[k].node), Control>>]
           /\ v.cix = [n \in {NameOf(v.cfi[k].node) : k \in DOMAIN v.cfi} |->
                         CHOOSE k \in DOMAIN v.cfi : NameOf(v.cfi[k].node) = n]
           /\ IsInjective([k \in DOMAIN v.cfi |-> v.cfi[k].node])
           /\ v.nrfo = Len(FlattenSeq(v.rfo))
           /\ v.rfo # <<>> => Last(v.rfo) # <<>>
  /\ DOMAIN g.at = {NameOf(x) : x \in Indices}
  /\ \A n \in DOMAIN g.at : NameOf(g.at[n]) = n

(* fanins_count_ counts the fanins, so that HasFanin and HasFanout tell    *)
(* what is there.  It is kept by NodeDef address, while Apply moves and    *)
(* overwrites nodes under the counts.                                      *)
FaninsAre(x, key) ==
  Cardinality({i \in DOMAIN g.nodes[x].rfi :
                 LET f == g.nodes[x].rfi[i]
                 IN  <<g.nodes[f.node].id, f.port>> = key})
    + Cardinality({k \in DOMAIN g.nodes[x].cfi :
                     <<g.nodes[g.nodes[x].cfi[k].node].id, Control>> = key})

CountsAgree ==
  \A x \in Indices :
    LET v == g.nodes[x]
    IN  /\ \A key \in DOMAIN v.cnt : v.cnt[key] = FaninsAre(x, key)
        /\ \A i \in DOMAIN v.rfi :
             <<g.nodes[v.rfi[i].node].id, v.rfi[i].port>> \in DOMAIN v.cnt
        /\ \A k \in DOMAIN v.cfi :
             <<g.nodes[v.cfi[k].node].id, Control>> \in DOMAIN v.cnt

(* update_index_ leads from a node to its diff and is missing when it has  *)
(* none, also after a node with a diff was removed and another diff moved, *)
(* and after an Apply.  Otherwise the next edit goes to another node's     *)
(* diff, or past the end of updated_nodes_.                                *)
DiffsFound ==
  /\ \A x \in Indices : g.nodes[x].upd # Missing =>
       /\ g.nodes[x].upd \in DOMAIN updated
       /\ updated[g.nodes[x].upd].node = x
  /\ \A k \in DOMAIN updated :
       /\ updated[k].node \in Indices \ removed
       /\ g.nodes[updated[k].node].upd = k

(* The view, fanouts, indices and all, does what GraphMutation says of     *)
(* names: GraphDef for graph, and the diffs by name.                       *)
GraphOf(defs) ==
  LET at(n)   == CHOOSE x \in DOMAIN defs : defs[x].name = n
      input(n) == defs[at(n)].input
  IN  [n \in {defs[x].name : x \in DOMAIN defs} |->
         [op  |-> defs[at(n)].op,
          ins |-> SelectSeq(input(n), LAMBDA t : t[2] # Control),
          ctl |-> {input(n)[i][1] : i \in {j \in DOMAIN input(n) :
                                            input(n)[j][2] = Control}}]]

Pending == {updated[k].node : k \in DOMAIN updated}

ByName(x) ==
  LET diff == DiffOf(x)
  IN  [diff EXCEPT !.crem = {NameOf(g.nodes[x].cfi[k].node) : k \in @}]

Mutations ==
  INSTANCE GraphMutation
    WITH graph <- GraphOf(g.nodes),
         diffs <- [n \in {NameOf(x) : x \in Pending} |-> ByName(g.at[n])],
         removed <- {NameOf(x) : x \in removed},
         InitGraphs <- {GraphOf(defs) : defs \in InitDefs}

ImplementsMutation == Mutations!Spec

-----------------------------------------------------------------------------
(* What a sort promises (graph_view.h, SortTopologically).                 *)

Follows(x, y) ==
  /\ \E f \in Range(g.nodes[y].rfi) \cup Range(g.nodes[y].cfi) : f.node = x
  /\ ~(g.nodes[x].op = "NextIteration" /\ g.nodes[y].op = "Merge")

Cyclic == \E S \in SUBSET Indices \ {{}} :
             \A y \in S : \E x \in S : Follows(x, y)

(* A Merge that only a NextIteration feeds cannot be reached.              *)
Reachable == \A y \in Indices :
               \/ g.nodes[y].rfi = <<>> /\ g.nodes[y].cfi = <<>>
               \/ \E x \in Indices : Follows(x, y)

(* A sorted graph has every fanin before its node, if it has no cycle but  *)
(* those a NextIteration closes, and a graph with another cycle is only    *)
(* sorted if that is to be ignored.                                        *)
SortIsTopological ==
  [][\A ignore \in BOOLEAN : Sort(ignore) =>
       /\ status' = "sorted" /\ ~Cyclic =>
            \A x, y \in Indices : Follows(x, y)' => x < y
       /\ Cyclic /\ ~ignore => status' = "unsorted"
       /\ ~Cyclic /\ Reachable /\ updated = <<>> /\ fresh = <<>> =>
            status' = "sorted"]_vars
=============================================================================
