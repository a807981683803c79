------------------------------- MODULE MCGraphs -------------------------------
(***************************************************************************)
(* Components and calls of dag_topo_sort over every small graph.  Three    *)
(* memos read up to two of five bindings each, so that they are computed   *)
(* from states and from one another in every shape and in every order of   *)
(* declaration; a few components have what the grid does not: a prop, a    *)
(* ref, a binding without a value, a memo that hides what it reads, two    *)
(* elements of one tag, nodes that are never emitted, and names of the     *)
(* page.                                                                   *)
(***************************************************************************)
EXTENDS Cycles, References, TopoSort

V(x)      == Variable(x)
Listed(xs) == Array([i \in DOMAIN xs |-> V(xs[i])])
State(x)  == Binding("state", x, NoAnn, Num(0))
Memo(x, e) == Binding("memo", x, NoAnn, e)

Readable == <<"s", "t", "m1", "m2", "m3">>
ReadSets == {SelectSeq(Readable, LAMBDA x : x \in S) : S \in {T \in SUBSET Range(Readable) : Cardinality(T) <= 2}}

Grid ==
  {Component("C", <<State("s"), Memo("m1", Listed(a)), Memo("m2", Listed(b)), State("t"), Memo("m3", Listed(c))>>,
             <<TElement("div", <<>>, <<TExpr(V("m3")), TExpr(V("s")), TExpr(V("m1")), TExpr(V("m3"))>>)>>)
    : a \in ReadSets, b \in ReadSets, c \in ReadSets}

Others ==
  {Component("C", <<Binding("prop", "p", NoAnn, NoExpr), State("s"), Memo("m", Binary(Unary("-", V("s")), "+", Grouping(V("p")))),
                    Binding("ref", "r", NoAnn, NoExpr), Binding("state", "u", NoAnn, NoExpr), Memo("n", NoExpr)>>,
             <<TText("w"), TElement("p", <<<<"Dynamic", V("m"), "x">>, <<"Flag", NoExpr, "y">>>>, <<TExpr(V("p")), TExpr(V("m")), TExpr(Binary(V("s"), "+", Num(1))), TExpr(V("u"))>>),
               TIf(V("s"), <<TExpr(V("m"))>>, <<>>), TFor("i", V("r"), NoExpr, <<TText("w")>>), TSlot("", <<TText("w")>>),
               TComponent("D", <<<<"Dynamic", V("s"), "x">>>>, <<>>)>>),
   Component("C", <<State("s"), Memo("m", EnumInit("E", "A", <<V("s")>>)), Memo("n", Template(<<TExpr(V("s"))>>))>>,
             <<TExpr(V("m")), TExpr(V("n"))>>),
   Component("C", <<State("s")>>, <<TElement("div", <<<<"EventHandler", V("s"), "click">>>>, <<TElement("p", <<>>, <<TExpr(V("s"))>>), TElement("p", <<>>, <<>>)>>)>>),
   Component("C", <<Memo("m", Num(1))>>, <<TExpr(V("m"))>>),
   Component("C", <<State("s"), Memo("m", Call(V("round"), <<V("s")>>))>>, <<TExpr(V("m")), TExpr(V("round"))>>),
   Component("C", <<State("s"), Memo("m", V("nobody"))>>, <<TExpr(V("s"))>>),
   Component("C", <<State("s"), Memo("m", V("s"))>>, <<TExpr(V("nobody"))>>)}

AllComponents == Grid \cup Others

----------------------------------------------------------------------------
Str(n)  == StringV(n)
Pair(p) == TupleV(<<Str(p[1]), Str(p[2])>>)
Plain(names, ps) ==
  [args |-> <<ArrayV([i \in DOMAIN names |-> Str(names[i])]), ArrayV([i \in DOMAIN ps |-> Pair(ps[i])])>>, heap |-> <<>>]
\* As a program calls it: the arrays are on the heap, the tuples are not.
Passed(names, ps) ==
  LET here == Plain(names, ps) IN [args |-> <<HandleV(1), HandleV(2)>>, heap |-> here.args]
\* The builtin takes tuples on the heap as well.
Boxed(names, ps) ==
  LET n == Len(ps)
  IN  [args |-> <<HandleV(n + 1), HandleV(n + 2)>>,
       heap |-> [i \in 1 .. n |-> Pair(ps[i])]
                  \o <<ArrayV([i \in DOMAIN names |-> Str(names[i])]), ArrayV([i \in 1 .. n |-> HandleV(i)])>>]

Ps == (1 .. 3) \X (1 .. 3)
Wrong == {[args |-> <<Str(1), ArrayV(<<>>)>>, heap |-> <<>>],
          [args |-> <<ArrayV(<<>>), NoneV>>, heap |-> <<>>],
          [args |-> <<ArrayV(<<IntV(1)>>), ArrayV(<<>>)>>, heap |-> <<>>],
          [args |-> <<ArrayV(<<>>), ArrayV(<<Pair(<<1, 2>>), Str(1)>>)>>, heap |-> <<>>],
          [args |-> <<ArrayV(<<>>), ArrayV(<<TupleV(<<Str(1), IntV(2)>>)>>)>>, heap |-> <<>>]}

AllCalls ==
  Wrong \cup {Passed(<<3, 1>>, ps) : ps \in UNION {[1 .. n -> Ps] : n \in 0 .. 3}}
        \cup {Boxed(<<3, 1>>, ps) : ps \in UNION {[1 .. n -> Ps] : n \in 0 .. 2}}
        \cup {Plain(<<1, 2, 2>>, ps) : ps \in UNION {[1 .. n -> Ps] : n \in 0 .. 2}}
        \cup {Plain(<<>>, <<>>)}

NoComponent == Component("C", <<>>, <<>>)
NoCall      == Plain(<<>>, <<>>)

\* A page or a program.
Init ==
  \/ ComponentInit /\ call = NoCall.args /\ heap = NoCall.heap
     /\ graph = NoGraph /\ ready = {} /\ order = <<>> /\ result = ArrayV(<<>>) /\ report = "none"
  \/ TopoInit /\ comp = NoComponent /\ phase = "none" /\ val = <<>> /\ text = <<>>
     /\ pending = <<>> /\ scheduled = FALSE /\ tasks = <<>> /\ hooks = {} /\ ran = {}

Next == (ComponentNext /\ UNCHANGED tvars) \/ (TopoNext /\ UNCHANGED cvars)

Spec == Init /\ [][Next]_<<cvars, tvars>>
=============================================================================
