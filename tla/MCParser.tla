------------------------------- MODULE MCParser -------------------------------
(***************************************************************************)
(* Texts to parse: the programs of MCPrograms and some that use what they  *)
(* do not, the same with a token changed, and sequences of operators.      *)
(***************************************************************************)
EXTENDS Grammar, MCPrograms

Struct1 == StructInit("Q", << <<"u", Num(1)>>, <<"v", Bin(V("a"), "+", V("b"))>> >>)
Types1 == {Named("Int"), Ann("[", << Named("Int") >>), Ann("(", << Named("Int"), Ann("[", << Named("T") >>) >>),
           Ann("Q", << Named("Int"), Ann("P", << Named("T") >>) >>), Ann("P", << Ann("[]", << Named("Int") >>) >>),
           Ann("P", << Ann("[]", << Named("Int") >>), Named("T") >>)}
Exprs1 == {Tuple(<<>>), Tuple(<< V("a") >>), Tuple(<< V("a"), Num(1) >>), Grouping(Bin(V("a"), "+", Num(1))),
           Array(<<>>), Array(<< Num(1), Array(<< V("b") >>) >>), Literal(NoneV), Unary("!", Unary("-", V("a"))),
           Call(FieldAccess(V("a"), "f"), << Num(1), T1 >>), Call(Call(V("a"), <<>>), << V("b") >>),
           TypedCall(V("f"), << Named("Int"), Ann("[", << Named("T") >>) >>, << V("a") >>),
           EnumInit("Q", "Some", << V("a"), V("b") >>), EnumInit("Q", "No", <<>>), EnumInit("", "No", <<>>),
           EnumInit("", "Some", << EnumInit("", "Some", << V("a") >>) >>),
           FieldAccess(EnumInit("Q", "No", <<>>), "f"), FieldAccess(FieldAccess(V("a"), "f"), "b"),
           Cast(V("a"), Ann("[", << Named("Int") >>)), Bin(Cast(V("a"), Named("Int")), "+", V("b")),
           Weak(V("a")), Unowned(FieldAccess(V("a"), "f")), WeakUpgrade(Grouping(Weak(V("a")))), Weak(WeakUpgrade(V("a"))), UnownedAccess(V("b")),
           SpawnExpr(<< LetVar("a", Num(1)), Expression(Call(V("f"), << V("a") >>)) >>),
           Logical(Logical(V("a"), "and", V("b")), "or", V("a"))}

El(tag, as, ns) == TElement(tag, as, ns)
Nodes1 == {El("p", <<>>, <<>>), El("p", << <<"Flag", NoExpr, "x">>, <<"Static", S1, "y">> >>, << TText(Id("w")) >>),
           El("p", << <<"EventHandler", V("f"), "click">>, <<"Dynamic", Bin(V("a"), "+", Num(1)), "x">> >>,
              << TExpr(V("a")), El("b", <<>>, << TText(Tok("+")), TText(Id("w")) >>), TExpr(Num(1)) >>),
           El("p", <<>>, << TIf(V("a"), << TText(Id("w")) >>, <<>>), El("b", <<>>, <<>>) >>),
           TIf(Bin(V("a"), "==", Num(1)), << El("p", <<>>, <<>>) >>, << TText(Id("w")), TExpr(V("b")) >>),
           TFor("i", V("a"), FieldAccess(V("i"), "f"), << El("p", <<>>, << TExpr(V("i")) >>) >>),
           TSlot("", << TText(Id("w")) >>), TSlot("s", <<>>),
           TComponent("Q", << <<"Dynamic", V("a"), "x">> >>, << TSlot("s", << TText(Id("w")) >>) >>)}

Declarations1 ==
  {StructDecl("Q", <<>>), StructDecl("Q", << <<"u", Named("Int")>>, <<"v", Ann("[", << Named("Q") >>)>> >>),
   EnumDecl("Q", <<>>), EnumDecl("Q", << <<"Some", << Named("Int"), Ann("P", << Named("T") >>) >> >>, <<"No", <<>> >> >>),
   Import(<< "Q" >>), Import(<< "a", "b" >>), Expression(Struct1), LetVar("a", Struct1),
   ImplBlock("Q", << Method("Q", Function("f", << "self" >>, Ret1(V("self")))), Method("Q", Function("g", <<>>, Block(<<>>))) >>),
   Method("Q", Function("f", << "self", "a" >>, Ret1(V("a")))), SpawnActor(<< Expression(V("a")), Return(Num(1)) >>),
   TypedFunction("f", << <<"T", "">>, <<"P", "Numeric">> >>, << "a", "b" >>, << Named("T"), NoAnn >>, Named("P"), Ret1(V("b"))),
   Function("f", <<>>, Block(<< Function("g", << "a" >>, Ret1(V("a"))), Import(<< "Q" >>) >>)),
   Match(V("a"), << Case(PTuple(<<>>), NoExpr, Block(<<>>)),
                    Case(PTuple(<< PVariable("a"), PWildcard, PLiteral(StringV("s")) >>), V("a"), Return(V("a"))),
                    Case(PEnum("Q", "Some", << PBinding("b"), PEnum("", "No", <<>>) >>), NoExpr, Expression(V("b"))) >>),
   IfLet(PEnum("Q", "No", <<>>), V("a"), Expression(Num(1)), IfLet(PVariable("a"), V("b"), Block(<<>>), Block(<<>>))),
   If(V("a"), If(V("b"), Ret1(Num(1)), Ret1(Num(2))), NoStmt), While(T1, Expression(Call(V("f"), <<>>))),
   For("a", V("b"), TryCatch(Block(<<>>), "e", Expression(V("e")))), Return(NoExpr),
   Component("Q", <<>>, <<>>),
   Component("Q", << Binding("state", "a", Named("Int"), Num(0)), Binding("memo", "b", NoAnn, Bin(V("a"), "*", Num(2))),
                     Binding("prop", "c", Ann("[", << Named("T") >>), NoExpr), Binding("ref", "d", NoAnn, NoExpr) >>,
             << El("p", <<>>, << TExpr(V("b")) >>), TText(Id("w")), TExpr(V("a")) >>)}

Stmts1 == Declarations1 \cup {LetTyped(PVariable("a"), ty, Num(1)) : ty \in Types1}
          \cup {LetVar("a", e) : e \in Exprs1} \cup {Expression(e) : e \in {x \in Exprs1 : x.k # "SpawnExpr"}}
Shown1 == {LetVar("a", Template(<< n >>)) : n \in Nodes1}

Programs ==
  {<< x >> : x \in StatementGrid \cup Stmts1} \cup (Declarations1 \X (StatementGrid \cup Stmts1))
  \cup {<< x, Import(<< "Q" >>) >> : x \in Shown1} \cup {<< f >> : f \in Ifs \cup Matches \cup Generals}
Hidden == << Function("f", <<>>, Block(<< LetVar("a", Template(<< TComponent("Q", <<>>, <<>>) >>)) >>)) >>

InitWritten(ss, unknown) ==
  source = [kind |-> "written", from |-> ss, unknown |-> unknown] /\ ParserInit(Written(ss))

----------------------------------------------------------------------------
(* Changed texts.                                                          *)
Bases == {<< x >> : x \in Generals \cup Nested \cup Calls1}
         \cup {<< x >> : x \in {y \in Enums \cup Stmts1 : y.k \notin {"ImplBlock", "ComponentBlock", "IfLet"} /\ (y.k = "Function" => y.owner = "")}}
         \cup {<< LetVar("a", Template(<< n >>)) >> : n \in {m \in Nodes1 : m.k = "TElement" /\ Len(m.children) = 3}}
Replacements == {Tok(";"), Tok("}"), Tok("{"), Tok("("), Tok(")"), Tok("="), Tok("."), Tok(","), Tok("-"), Tok("else"),
                 Tok("let"), Tok(":"), Id("x"), NumT(1)}

InitChanged(ss) ==
  /\ source = [kind |-> "changed"]
  /\ \E w \in {Written(ss)} :
       LET Parsed(c) == c # <<>> /\ Last(c).t \in {";", "}"} /\ ParserInit(c) IN
         \/ \E i \in DOMAIN w : Parsed(RemoveAt(w, i)) \/ Parsed(InsertAt(w, i, w[i]))
         \/ \E i \in 1 .. Len(w) - 1 : Parsed([w EXCEPT ![i] = w[i + 1], ![i + 1] = w[i]])
         \/ \E i \in DOMAIN w, t \in Replacements : Parsed([w EXCEPT ![i] = t])

----------------------------------------------------------------------------
(* Operators.                                                              *)
Unit(pre, x, post) == [pre |-> pre, atom |-> V(x), post |-> post]
Units == {Unit(pre, "a", post) : pre \in {<<>>, << "-" >>, << "weak", "!" >>}, post \in {<<>>, << "!" >>, << ".", "(" >>, << "(", "?" >>}}
BinaryOps == {"|>", "or", "and", "==", "<", "+", "-", "*"}

InitOperators(units, ops) ==
  /\ source = [kind |-> "operators", from |-> << Expression(TreeOf(units, ops)) >>]
  /\ ParserInit(WrittenUnits(units, ops) \o Word(";"))

Init ==
  \/ \E ss \in Programs : InitWritten(ss, 0)
  \/ InitWritten(Hidden, 1)
  \/ \E ss \in Bases : InitChanged(ss)
  \/ \E ops \in [1 .. 4 -> BinaryOps] : InitOperators([i \in 1 .. 5 |-> Unit(<<>>, "a", <<>>)], ops)
  \/ \E x \in Units, y \in Units, z \in Units, o \in {"|>", "and", "-"}, p \in {"|>", "==", "*"} :
       InitOperators(<< x, y, z >>, << o, p >>)

Next == ParserNext /\ UNCHANGED source

Spec == Init /\ [][Next]_<<source, parserVars>>

(* Nested expressions, up to and past the greatest depth.                  *)
Innermost == {V("a"), SpawnExpr(<< Expression(Num(1)) >>), SpawnExpr(<< Match(V("a"), <<>>) >>),
              Grouping(V("a")), Array(<< V("a"), V("b") >>)}
InitDeep ==
  \E ops \in UNION {[1 .. n -> {"-", "!", "weak"}] : n \in 0 .. 3}, e \in Innermost :
    InitWritten(<< LetVar("a", Prefixed(ops, e)) >>, 0)

DeepSpec == InitDeep /\ [][Next]_<<source, parserVars>>
=============================================================================
