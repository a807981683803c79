------------------------------- MODULE TopoSort -------------------------------
(***************************************************************************)
(* The builtin dag_topo_sort of the interpreter (builtins.rs): Kahn's      *)
(* algorithm on an array of names and an array of pairs (name, what it     *)
(* depends on).  A string is a number: its place in the order of strings.  *)
(***************************************************************************)
EXTENDS Syntax, SequencesExt, FiniteSetsExt, Functions

CONSTANT Calls   \* pairs of arguments the builtin is called with

\* What a handle stands for on heap h, or the value itself.
Unbox(h, v) == IF v.k = "Handle" THEN h[v.h] ELSE v

\* What an array or a tuple holds is a sequence of values, and a string has a
\* place in the order of strings.
Composed(h, v) ==
  LET u == Unbox(h, v)
  IN  u.k \in {"Array", "Tuple"} =>
        u.vs \in Seq(Range(u.vs)) /\ \A x \in Range(u.vs) : x.k = "String" => x.s \in Int

\* The values of the language are so composed, whatever program calls.
ASSUME TopoAssumption ==
  \A c \in Calls : \A i \in 1 .. 2 :
    LET u == Unbox(c.heap, c.args[i])
    IN  Composed(c.heap, c.args[i]) /\ (u.k = "Array" => \A x \in Range(u.vs) : Composed(c.heap, x))

VARIABLES
  call,     \* the two arguments
  heap,     \* the arrays and tuples on the heap
  graph,    \* in-degrees and children of each name, once collected
  ready,    \* the names whose dependencies are all out
  order,    \* the names that are out
  result,   \* what the builtin returned
  report    \* what it complained of

tvars == <<call, heap, graph, ready, order, result, report>>

NoGraph == [indeg |-> <<>>, adj |-> <<>>]
Working == [k |-> "Working"]

\* as_array, as_tuple2.
Unboxed(v) == Unbox(heap, v)

IsPair(v) == Unboxed(v).k = "Tuple" /\ Len(Unboxed(v).vs) = 2

Malformed(d) == ~IsPair(d) \/ \E i \in 1 .. 2 : Unboxed(d).vs[i].k # "String"

\* The first thing that is wrong with the arguments, "none" if all is well.
Complaint(args) ==
  LET nodes == Unboxed(args[1])  deps == Unboxed(args[2])
      FirstWrong == SelectInSeq(deps.vs, Malformed)
  IN  CASE nodes.k # "Array" -> "first argument"
        [] deps.k # "Array" -> "second argument"
        [] \E i \in DOMAIN nodes.vs : nodes.vs[i].k # "String" -> "nodes"
        [] FirstWrong # 0 -> IF IsPair(deps.vs[FirstWrong]) THEN "dependency values" ELSE "dependency entries"
        [] OTHER -> "none"

\* entry(n).or_insert(v)
OrInsert(f, n, v) == IF n \in DOMAIN f THEN f ELSE [m \in DOMAIN f \cup {n} |-> IF m = n THEN v ELSE f[m]]

AddName(g, n) == [indeg |-> OrInsert(g.indeg, n, 0), adj |-> OrInsert(g.adj, n, <<>>)]

\* Mutant: a pair given twice is counted once but followed twice.
AddDependencyOnce(g, n, on) ==
  LET h == AddName(AddName(g, n), on)
  IN  [indeg |-> IF n \in Range(h.adj[on]) THEN h.indeg ELSE [h.indeg EXCEPT ![n] = @ + 1],
       adj |-> [h.adj EXCEPT ![on] = Append(@, n)]]

AddDependency(g, n, on) ==
  LET h == AddName(AddName(g, n), on)
  IN  [indeg |-> [h.indeg EXCEPT ![n] = @ + 1], adj |-> [h.adj EXCEPT ![on] = Append(@, n)]]

AddNames(g, names) == FoldLeft(LAMBDA a, n : AddName(a, n.s), g, names)

AddDependencies(g, deps) ==
  FoldLeft(LAMBDA a, d : AddDependency(a, Unboxed(d).vs[1].s, Unboxed(d).vs[2].s), g, deps)

Collected(args) == AddDependencies(AddNames(NoGraph, Unboxed(args[1]).vs), Unboxed(args[2]).vs)

Zeros(g) == {n \in DOMAIN g.indeg : g.indeg[n] = 0}

\* Takes one child of a name that is out off its in-degree.
Release(acc, child) ==
  IF child \notin DOMAIN acc.indeg \/ acc.indeg[child] = 0 THEN acc
  ELSE LET d == acc.indeg[child] - 1
       IN  [indeg |-> [acc.indeg EXCEPT ![child] = d], ready |-> IF d = 0 THEN acc.ready \cup {child} ELSE acc.ready]

ReleaseAll(acc, children) == FoldLeft(Release, acc, children)

----------------------------------------------------------------------------
TopoInit ==
  /\ \E c \in Calls : call = c.args /\ heap = c.heap
  /\ graph = NoGraph /\ ready = {} /\ order = <<>>
  /\ result = Working /\ report = "none"

Reject ==
  /\ result = Working /\ graph = NoGraph
  /\ Complaint(call) # "none"
  /\ report' = Complaint(call) /\ result' = NoneV
  /\ UNCHANGED <<call, heap, graph, ready, order>>

Collect ==
  /\ result = Working /\ graph = NoGraph
  /\ Complaint(call) = "none" /\ Collected(call) # NoGraph
  /\ graph' = Collected(call)
  /\ ready' = Zeros(graph')
  /\ UNCHANGED <<call, heap, order, result, report>>

\* The smallest of the names that are ready is next.
TakeNext ==
  /\ result = Working /\ ready # {}
  /\ LET next == Min(ready)
         left == ReleaseAll([indeg |-> graph.indeg, ready |-> ready \ {next}], graph.adj[next])
     IN  /\ order' = Append(order, next)
         /\ graph' = [graph EXCEPT !.indeg = left.indeg]
         /\ ready' = left.ready
  /\ UNCHANGED <<call, heap, result, report>>

Answer ==
  /\ result = Working /\ ready = {}
  /\ Complaint(call) = "none" /\ (graph # NoGraph \/ Collected(call) = NoGraph)
  /\ IF Len(order) = Cardinality(DOMAIN graph.indeg)
     THEN result' = ArrayV([i \in DOMAIN order |-> StringV(order[i])]) /\ report' = report
     ELSE result' = NoneV /\ report' = "cycle"
  /\ UNCHANGED <<call, heap, graph, ready, order>>

TopoNext == Reject \/ Collect \/ TakeNext \/ Answer

TopoSpec == TopoInit /\ [][TopoNext]_tvars

----------------------------------------------------------------------------
(* Properties.                                                             *)

\* What the names depend on, by the arguments alone.
Pairs == LET deps == Unboxed(call[2]).vs IN {<<Unboxed(d).vs[1].s, Unboxed(d).vs[2].s>> : d \in Range(deps)}
Given == {n.s : n \in Range(Unboxed(call[1]).vs)} \cup UNION {{p[1], p[2]} : p \in Pairs}

\* A set of names each of which depends on another of the set.
Knotted == \E S \in SUBSET Given : S # {} /\ \A n \in S : \E m \in S : <<n, m>> \in Pairs

\* Given names and pairs, dag_topo_sort returns every name once, each after
\* all it depends on, whatever was given twice; it returns none exactly when
\* there is no such order.
OrderRight ==
  result # Working /\ Complaint(call) = "none" =>
    IF Knotted THEN result = NoneV
    ELSE /\ result.k = "Array"
         /\ Len(order) = Cardinality(Given) /\ Range(order) = Given
         /\ \A i, j \in DOMAIN order : <<order[i], order[j]>> \in Pairs => j < i
=============================================================================
