------------------------------ MODULE Reactivity ------------------------------
(***************************************************************************)
(* crates/reactivity/src/lib.rs: the dependency graph of a component and   *)
(* who depends on a binding.  A node is known by its place; edges[i] lists *)
(* what it depends on.                                                     *)
(***************************************************************************)
EXTENDS Syntax, SequencesExt, FiniteSetsExt, Functions

\* The names that collect_expr_refs finds in an expression and
\* collect_template_refs in a view (module References).
CONSTANTS ExprRefs(_), TemplateRefs(_)

\* The first of a sequence of named things that is called x; 0 if none is.
PlaceOf(s, x) ==
  LET places == {i \in DOMAIN s : s[i].name = x}
  IN  IF places = {} THEN 0 ELSE Min(places)

EmptyGraph == [nodes |-> <<>>, edges |-> <<>>]

AddNode(g, name, kind) ==
  [nodes |-> Append(g.nodes, [name |-> name, kind |-> kind]), edges |-> Append(g.edges, <<>>)]

AddEdge(g, from, to) ==
  IF to \in Range(g.edges[from]) THEN g ELSE [g EXCEPT !.edges[from] = Append(@, to)]

NodeByName(g, name) == PlaceOf(g.nodes, name)

----------------------------------------------------------------------------
(* The graph of a component: a node for each binding, a sink for each name *)
(* its view shows, then what the memos read.                               *)

Kind(qualifier) == IF qualifier = "memo" THEN "Derived" ELSE "Source"

AddBinding(g, b) == AddNode(g, b.name, Kind(b.qualifier))

AddBindings(bs) == FoldLeft(AddBinding, EmptyGraph, bs)

\* No binding is named like a sink.
AddSink(g, x) ==
  LET src == NodeByName(g, x)
  IN  IF src = 0 THEN g ELSE AddEdge(AddNode(g, "view:", "Sink"), Len(g.nodes) + 1, src)

AddSinks(g, xs) == FoldLeft(AddSink, g, xs)

\* r is a memo and a name that it reads.
AddReference(g, r) ==
  IF NodeByName(g, r[2]) = 0 THEN g ELSE AddEdge(g, NodeByName(g, r[1]), NodeByName(g, r[2]))

AddReferences(g, rs) == FoldLeft(AddReference, g, rs)

References(b) == LET xs == ExprRefs(b.value) IN [i \in DOMAIN xs |-> <<b.name, xs[i]>>]

AddMemo(g, b) ==
  IF b.qualifier # "memo" \/ b.value = NoExpr THEN g ELSE AddReferences(g, References(b))

AddMemos(g, bs) == FoldLeft(AddMemo, g, bs)

Analyse(c) == AddMemos(AddSinks(AddBindings(c.bindings), TemplateRefs(c.view)), c.bindings)

----------------------------------------------------------------------------
(* dependents_of: a breadth-first search against the edges.  Each of its   *)
(* turns takes one node, so that it has no more turns than there are nodes.*)

\* Looking for who depends on node s.at, the search comes to node n.
Meet(s, n) ==
  IF s.at \in Range(s.g.edges[n]) /\ n \notin s.visited
  THEN [s EXCEPT !.visited = @ \cup {n}, !.queue = Append(@, n)]
  ELSE s

Look(s) == FoldLeft(Meet, s, [n \in DOMAIN s.g.nodes |-> n])

\* One turn of the loop; there are no more turns once the queue is empty.
Turn(s, n) ==
  IF s.queue = <<>> THEN s
  ELSE Look([s EXCEPT !.at = Head(s.queue), !.queue = Tail(@), !.result = Append(@, Head(s.queue))])

Search(s) == FoldLeft(Turn, s, [n \in DOMAIN s.g.nodes |-> n])

DependentsOf(g, root) ==
  Search(Look([g |-> g, at |-> root, visited |-> {root}, queue |-> <<>>, result |-> <<>>])).result
=============================================================================
