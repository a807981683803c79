-------------------------------- MODULE Cycles --------------------------------
(***************************************************************************)
(* The cycles that crates/reactivity/src/lib.rs reports among the memos of *)
(* a component, by Tarjan's algorithm; index -1 is a node not met yet.     *)
(***************************************************************************)
EXTENDS Component

RECURSIVE StrongConnect(_, _, _)

Smaller(a, b) == IF a < b THEN a ELSE b

PopThrough(v, t) ==
  LET at == SelectInSeq(t.stack, LAMBDA w : w = v)
  IN  [t EXCEPT !.stack = SubSeq(t.stack, 1, at - 1),
                !.sccs  = Append(@, Reverse(SubSeq(t.stack, at, Len(t.stack))))]

\* Mutant: an edge to a node that is off the stack counts too.
FollowAll(acc, v, w) == [acc EXCEPT !.low[v] = Smaller(@, acc.index[w])]

\* An edge from v to a node that was met before.
FollowBack(acc, v, w) ==
  IF w \in Range(acc.stack) THEN [acc EXCEPT !.low[v] = Smaller(@, acc.index[w])] ELSE acc

StrongConnect(g, v, t) ==
  LET entered == [t EXCEPT !.index[v] = t.count, !.low[v] = t.count, !.count = @ + 1, !.stack = Append(@, v)]
      Follow(acc, w) ==
        IF acc.index[w] = -1
        THEN LET r == StrongConnect(g, w, acc) IN [r EXCEPT !.low[v] = Smaller(@, r.low[w])]
        ELSE FollowBack(acc, v, w)
      left == FoldLeft(Follow, entered, g.edges[v])
  IN  IF left.low[v] = left.index[v] THEN PopThrough(v, left) ELSE left

Sccs(g) ==
  LET n == Len(g.nodes)
      t == [index |-> [i \in 1 .. n |-> -1], low |-> [i \in 1 .. n |-> 0], count |-> 0, stack |-> <<>>, sccs |-> <<>>]
  IN  FoldLeft(LAMBDA acc, v : IF acc.index[v] = -1 THEN StrongConnect(g, v, acc) ELSE acc,
               t, [i \in 1 .. n |-> i]).sccs

\* One diagnostic for each component of two memos or more: their names.
Diagnostics(g) ==
  LET Derived(scc) == {g.nodes[i].name : i \in {j \in Range(scc) : g.nodes[j].kind = "Derived"}}
  IN  {d \in {Derived(scc) : scc \in Range(Sccs(g))} : Cardinality(d) > 1}

\* The analysis reports exactly the largest sets of two or more memos that
\* read one another, and no component it reports ever comes to life.
CyclesReported ==
  LET memos == Names(comp, "memo")
      Direct(m) == IF Value(comp, m) = NoExpr THEN {} ELSE Range(ExprRefs(Value(comp, m))) \cap memos
      Reads(m, n) == \A S \in SUBSET memos : Direct(m) \subseteq S /\ (\A k \in S : Direct(k) \subseteq S) => n \in S
      Class(m) == {n \in memos : n = m \/ (Reads(m, n) /\ Reads(n, m))}
  IN  phase \in {"loaded", "live"} /\ pending = <<>> =>
        Diagnostics(Analyse(comp)) = IF phase = "live" THEN {} ELSE {S \in {Class(m) : m \in memos} : Cardinality(S) > 1}
=============================================================================
