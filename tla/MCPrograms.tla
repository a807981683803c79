------------------------------ MODULE MCPrograms ------------------------------
(***************************************************************************)
(* Programs of a main that calls one function f(a, b), and some others;    *)
(* for the typing passes, programs of one to four statements.              *)
(***************************************************************************)
EXTENDS Syntax

V(x) == Variable(x)
Bin(l, op, r) == Binary(l, op, r)
Ret1(e) == Block(<< Return(e) >>)
F(body) == Function("f", <<"a", "b">>, body)
Main(body) == Function("main", <<>>, body)
T1 == Literal(BoolV(TRUE))

Ops   == {"+", "-", "*", "/"}
Atoms == {V("a"), V("b"), V("g"), Num(2)}
Binaries == {Bin(l, o, r) : l \in Atoms, o \in Ops, r \in Atoms}

Plain == {F(Ret1(e)) : e \in Binaries}
         \cup {F(Ret1(Grouping(e))) : e \in {x \in Binaries : x.op = "/"}}
         \cup {F(Ret1(Call(V(c), << V("a") >>))) : c \in {"h", "f"}}

IfArms == {Num(1), Bin(V("a"), "+", V("b")), Bin(V("b"), "-", V("a")), Bin(V("a"), "/", V("b")), V("a")}
Ifs == {F(Block(<< If(c, Ret1(x), Ret1(y)) >>)) : c \in {V("a"), T1, V("g")}, x \in IfArms, y \in IfArms}
       \cup {F(Block(<< If(V("a"), Ret1(Num(1)), NoStmt), Return(Num(2)) >>))}

First  == {PLiteral(IntV(1)), PLiteral(BoolV(TRUE)), PWildcard, PVariable("x"),
           PEnum("", "Some", << PBinding("b") >>)}
Second == {PLiteral(IntV(0)), PWildcard, PVariable("x"), PVariable("b")}
Guards == {NoExpr, Bin(V("b"), ">", Num(1))}
MArms  == {Num(7), V("a"), V("b"), V("x"), Bin(V("a"), "+", V("b"))}
Matches == {F(Block(<< Match(V("a"), << Case(p, g, Return(x)), Case(q, NoExpr, Return(y)) >>) >>)) :
              p \in First, q \in Second, g \in Guards, x \in MArms, y \in MArms}

Dec == Bin(V("a"), "-", Num(1))
Generals == {
  F(Block(<< LetVar("c", Bin(V("a"), "+", V("b"))), Return(Bin(V("c"), "*", V("c"))) >>)),
  F(Block(<< LetVar("c", Num(1)), Block(<< LetVar("c", Num(2)) >>), Return(V("c")) >>)),
  F(Block(<< LetVar("c", Num(1)), LetVar("c", Bin(V("c"), "+", V("a"))), Return(V("c")) >>)),
  F(Block(<< If(Bin(V("a"), "<", V("b")), Ret1(V("a")), NoStmt), Return(V("b")) >>)),
  F(Block(<< If(Bin(V("a"), "<", V("b")), Block(<< LetVar("c", V("a")), Return(V("c")) >>),
                Block(<< LetVar("c", V("b")), Return(V("c")) >>)) >>)),
  F(Block(<< If(Bin(V("a"), "==", V("b")), Ret1(Num(1)),
                If(Bin(V("a"), ">=", Num(2)), Ret1(Num(2)), Ret1(Unary("-", V("b"))))) >>)),
  F(Block(<< If(Bin(V("a"), "<=", Num(0)), Ret1(V("b")),
                Ret1(Call(V("f"), << Dec, Bin(V("b"), "+", V("a")) >>))) >>)),
  F(Block(<< While(Bin(V("a"), ">", Num(0)), Block(<< LetVar("a", Dec) >>)), Return(V("a")) >>)),
  F(Block(<< While(Bin(V("a"), ">", Num(1)), Ret1(V("a"))), Return(V("b")) >>)),
  F(Block(<< While(V("a"), Block(<< Return(Bin(V("a"), "!=", V("b"))) >>)), Return(V("b")) >>)),
  F(Block(<< Expression(Call(V("f2"), << V("a") >>)), Return(V("b")) >>)),
  F(Block(<< Function("inner", <<"z">>, Ret1(Bin(V("z"), "+", Num(1)))), Return(Num(3)) >>)),
  F(Block(<< For("i", V("a"), Block(<<>>)), Return(V("b")) >>)),
  F(Block(<< Return(NoExpr) >>)),
  F(Block(<< If(V("a"), Ret1(V("b")), NoStmt) >>)),
  F(Ret1(Bin(Bin(V("a"), "<", V("b")), "==", Num(1)))),
  F(Ret1(Unary("-", Grouping(Bin(V("a"), "/", V("b")))))) }

Calls == {<<0, 1>>, <<1, 0>>, <<3, 2>>, <<2, 2>>}
MainCalls == {Main(Ret1(Call(V("f"), << Num(c[1]), Num(c[2]) >>))) : c \in Calls}

H == Function("h", <<"t0">>, Ret1(Bin(V("t0"), "*", Num(2))))
K == Function("k", <<"t0">>, Block(<< If(T1, Ret1(Bin(V("t0"), "+", V("t0"))), Ret1(Num(0))) >>))

Others == {
  << Main(Block(<< If(T1, Ret1(Num(10)), Ret1(Num(20))) >>)) >>,
  << H, Main(Ret1(Call(V("h"), << Num(4) >>))) >>,
  << K, Main(Ret1(Call(V("k"), << Num(4) >>))) >>,
  << Function("f", <<>>, Block(<< For("i", Num(1), Block(<<>>)) >>)), Main(Ret1(Call(V("f"), <<>>))) >>,
  << Function("f", <<>>, Block(<< For("i", Num(1), Block(<<>>)) >>)) >>,
  << Function("u", <<>>, Ret1(Bin(V("g"), "+", Num(1)))), Main(Ret1(Bin(Num(1), "+", Num(2)))) >>,
  << Function("main", <<"a">>, Ret1(Bin(V("a"), "+", Num(1)))) >>,
  << F(Ret1(Bin(V("a"), "+", Num(1)))), Main(Ret1(Call(V("f"), << Num(4) >>))) >>,
  << F(Ret1(Bin(V("a"), "+", Num(1)))), Main(Ret1(Bin(Num(2), "-", Num(5)))),
     F(Ret1(Bin(V("a"), "+", Num(2)))) >> }

Built == {<< f, m >> : f \in Plain \cup Ifs \cup Matches \cup Generals, m \in MainCalls} \cup Others

----------------------------------------------------------------------------
(* Statements.                                                                *)

S1 == Literal(StringV("s"))
Acquire == Call(V("capability_acquire"), << S1 >>)
LetA == {LetVar("a", e) : e \in {Num(1), S1, Array(<< V("a") >>), Unary("!", V("b"))}}
LetB == {LetVar("b", e) : e \in {V("a"), Bin(V("a"), "+", S1), Bin(V("a"), "<", Num(2)),
                                 Bin(V("a"), "*", V("a")), Logical(V("a"), "or", Num(1))}}
Apart(e) == Let(PTuple(<< PVariable("c"), PVariable("a") >>), e)
Caps == {LetVar("a", Acquire), Expression(V("a")), LetVar("c", V("b")), LetVar("a", V("a")),
         LetVar("d", Call(V("capability_kind"), << V("a") >>)),
         LetVar("b", V("a")), Expression(Call(V("println"), << V("b") >>)),
         LetVar("b", Logical(V("a"), "or", Num(1))), LetVar("a", Unary("-", Num(1))),
         LetVar("b", Tuple(<< V("a"), Num(1) >>)), Apart(V("b")), Apart(Tuple(<< V("a"), Num(1) >>)),
         Block(<< LetVar("c", V("a")) >>), Return(V("a"))}
Nested == {Block(<< LetVar("a", S1), LetVar("a", T1) >>),
           If(V("a"), Block(<< LetVar("b", Num(2)) >>), Block(<< Expression(V("b")) >>)),
           For("a", Array(<< Num(1), Num(2) >>), Block(<< LetVar("b", V("a")) >>)),
           TryCatch(Block(<< LetVar("b", Num(0)) >>), "a", Block(<< LetVar("b", V("a")) >>)),
           While(Bin(V("b"), "==", Num(9)), Block(<< LetVar("b", S1) >>)),
           Performant(<< LetVar("_t", V("a")), Block(<< LetVar("_t", V("b")) >>) >>),
           Performant(<< While(T1, Block(<< Return(V("a")) >>)) >>)}
Calls1 == {Function("f", <<"p">>, Block(<< LetVar("q", Bin(V("p"), "+", Num(1))), Return(V("q")) >>)),
           Expression(Call(V("f"), << V("a") >>)), LetVar("b", Call(V("f"), << V("b") >>)),
           TypedFunction("f", << <<"T", "Numeric">> >>, <<"p">>, << Named("T") >>, Named("T"),
                         Block(<< Return(V("p")) >>)),
           LetVar("b", TypedCall(V("f"), << Named("String") >>, << V("a") >>)),
           LetTyped(PVariable("b"), Named("str"), V("a"))}
Members == {ImplBlock("Opt", << Method("Opt", TypedFunction("f", <<>>, <<"self", "p">>, << NoAnn, Named("Int") >>,
                                                Named("Int"), Block(<< Return(V("p")) >>))) >>),
            Expression(Template(<< TElement("b", << <<"EventHandler", V("f"), "click">> >>, << TExpr(V("a")) >>) >>))}
Enums == {EnumDecl("Opt", <<<<"Some", << Named("Int") >>>>, <<"No", <<>>>>>>), LetVar("b", EnumInit("", "Some", << V("a") >>)),
          LetVar("b", EnumInit("Opt", "No", <<>>)),
          IfLet(PEnum("", "Some", << PBinding("a") >>), V("b"), Block(<< LetVar("b", V("a")) >>), NoStmt),
          Match(V("a"), << Case(PWildcard, NoExpr, Block(<< LetVar("b", V("a")) >>)) >>)}

Pairs == {Let(PTuple(<< PVariable("a"), PVariable("b") >>), Tuple(<< Num(1), S1 >>)),
          LetVar("c", Tuple(<< V("b"), T1 >>)), Apart(V("c"))}

\* For over what is called for its elements: nothing in the language changes
\* what a function gives, so it ends at once or with the bound.
Options == EnumDecl("Option", <<<<"Some", << Named("Int") >>>>, <<"No", <<>>>>>>)
Gives(e) == Function("f", <<>>, Block(<< Return(e) >>))
Iterations ==
  {<< Options, LetVar("b", Num(0)), Gives(e), For("i", V(x), Block(<< st >>)) >> :
     e \in {EnumInit("Option", "Some", << Num(1) >>), EnumInit("Option", "No", <<>>), Num(1), Literal(NoneV)},
     x \in {"f", "b", "println"},
     st \in {LetVar("b", V("i")), Return(V("i")), Expression(Bin(V("i"), "/", Num(0)))}}

\* Patterns against a variant with a value of its own.
Arms == {PEnum("", "Some", << PBinding("x"), PVariable("y") >>), PEnum("", "Some", <<>>),
         PEnum("Option", "Some", << PLiteral(IntV(2)) >>), PEnum("Opt", "Some", << PWildcard >>),
         PEnum("", "Some", << PEnum("", "Some", << PWildcard >>) >>), PTuple(<< PVariable("x") >>)}
Matchings ==
  {<< Options, LetVar("a", EnumInit("Option", "Some", << e >>)),
      Match(V("a"), << Case(p, NoExpr, Expression(V("a"))), Case(q, NoExpr, Expression(V("x"))) >>),
      IfLet(p, V("a"), Block(<<>>), Return(V("a"))) >> :
     e \in {Num(2), EnumInit("Option", "Some", << Num(1) >>)}, p \in Arms, q \in Arms \cup {PVariable("x")}}

\* Programs that type inference accepts and takes wrongly, one for each thing
\* the properties of typing except (README, observations).
Same(x) == Function(x, <<"p">>, Ret1(V("p")))
Misunderstood == {
  << LetVar("a", Num(1)), Same("a") >>,
  << Same("capability_kind"), LetVar("b", Call(V("capability_kind"), << Num(1) >>)) >>,
  << LetVar("a", Num(1)), Gives(Tuple(<< S1, S1 >>)), Apart(Call(V("f"), <<>>)) >>,
  << If(Literal(BoolV(FALSE)), Block(<< Options >>), NoStmt),
     Match(Num(1), << Case(PWildcard, NoExpr, Block(<< EnumDecl("Opt", <<<<"Some", << Named("Int") >>>>>>) >>)) >>),
     LetVar("b", EnumInit("", "Some", << Num(1) >>)) >>,
  << LetVar("a", Num(1)), Let(PTuple(<< PTuple(<< PVariable("b") >>), PVariable("a") >>), Tuple(<< Num(1), S1 >>)) >>,
  << LetVar("a", S1), Gives(Template(<<>>)), LetVar("a", Bin(Call(V("f"), <<>>), "==", Num(1))) >>,
  << LetVar("a", Acquire), LetVar("c", V("a")),
     Let(PTuple(<< PTuple(<< PVariable("b") >>), PVariable("a") >>), Tuple(<< Num(1), S1 >>)), LetVar("d", V("a")) >>,
  << LetVar("b", V("capability_acquire")), LetVar("a", Call(V("b"), << S1 >>)),
     LetVar("c", V("a")), LetVar("d", V("a")) >> }

StatementGrid == LetA \cup LetB \cup Caps \cup Nested \cup Calls1 \cup Members \cup Enums \cup Pairs
Singles == {<< x >> : x \in StatementGrid}
Triples == StatementGrid \X StatementGrid \X StatementGrid
Quads   == Caps \X Caps \X Caps \X Caps
================================================================================
