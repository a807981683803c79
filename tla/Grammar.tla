------------------------------- MODULE Grammar -------------------------------
(***************************************************************************)
(* What Parser is measured against: the tokens a program is written with,  *)
(* and the tree of a sequence of operators by their precedences.           *)
(***************************************************************************)
EXTENDS Parser, SequencesExt

\* Write writes what a rule of the parser reads.
RECURSIVE WriteType(_), WritePattern(_), Write(_, _)

Word(t) == <<Tok(t)>>
Name(x) == <<Id(x)>>

\* The sequences ws one after the other, with sep between two of them.
Joined(ws, sep) ==
  FoldLeft(LAMBDA acc, i : acc \o (IF i = 1 THEN <<>> ELSE sep) \o ws[i], <<>>, [i \in DOMAIN ws |-> i])
Commas(ws) == Joined(ws, Word(","))
In(open, ws, close) == Word(open) \o Commas(ws) \o Word(close)

\* ws, unless there is nothing: then nothing.
Unless(nothing, ws) == IF nothing THEN <<>> ELSE ws

WriteLiteral(v) ==
  CASE v.k = "Int" -> <<NumT(v.n)>>
    [] v.k = "String" -> <<StrT(v.s)>>
    [] v.k = "None" -> Word("none")
    [] OTHER -> Word(IF v.b THEN "true" ELSE "false")

WriteType(ty) ==
  LET args == [i \in DOMAIN ty.args |-> WriteType(ty.args[i])]
      sized == args # <<>> /\ ty.args[1].name = "[]"
      generics == IF sized THEN Tail(args) ELSE args
  IN  CASE ty.name = "[" -> In("[", args, "]")
        [] ty.name = "(" -> In("(", args, ")")
        [] ty.name = "[]" -> In("[", args, "]")
        [] OTHER -> Name(ty.name) \o Unless(~sized, args[1])
                      \o Unless(generics = <<>>, In("<", generics, ">"))

Colon(ty) == Unless(ty = NoAnn, Word(":") \o WriteType(ty))

WritePattern(x) ==
  LET params == Unless(x.params = <<>>, In("(", [i \in DOMAIN x.params |-> WritePattern(x.params[i])], ")"))
  IN  CASE x.k = "PVariable" -> Name(x.name)
        [] x.k = "PBinding"  -> Word("let") \o Name(x.name)
        [] x.k = "PLiteral"  -> WriteLiteral(x.v)
        [] x.k = "PWildcard" -> Word("_")
        [] x.k = "PTuple"    -> IF x.params = <<>> THEN Word("(") \o Word(")") ELSE params
        [] x.k = "PEnum"     -> Unless(x.en = "", Name(x.en)) \o Word(".") \o Name(x.variant) \o params

Block0(ss) == Word("{") \o Joined([i \in DOMAIN ss |-> Write("statement", ss[i])], <<>>) \o Word("}")

WriteExpression(e) ==
  LET Each(es) == [i \in DOMAIN es |-> Write("expression", es[i])]
  IN  CASE e.k = "Literal"  -> WriteLiteral(e.v)
        [] e.k = "Variable" -> Name(e.name)
        [] e.k = "Grouping" -> In("(", <<Write("expression", e.e)>>, ")")
        [] e.k = "Unary"    -> Word(e.op) \o Write("expression", e.right)
        [] e.k \in {"Binary", "Logical"} -> Write("expression", e.left) \o Word(e.op) \o Write("expression", e.right)
        [] e.k = "Call"     ->
             Write("expression", e.callee)
               \o Unless(e.targs = <<>>,
                         Word("::") \o In("<", [i \in DOMAIN e.targs |-> WriteType(e.targs[i])], ">"))
               \o In("(", Each(e.args), ")")
        [] e.k = "Array"    -> In("[", Each(e.elements), "]")
        [] e.k = "Tuple"    -> In("(", IF Len(e.elements) = 1 THEN Each(e.elements) \o <<<<>>>> ELSE Each(e.elements), ")")
        [] e.k = "EnumInit" -> Unless(e.en = "", Name(e.en)) \o Word(".") \o Name(e.variant)
                                 \o Unless(e.values = <<>>, In("(", Each(e.values), ")"))
        [] e.k = "FieldAccess"   -> Write("expression", e.object) \o Word(".") \o Name(e.field)
        [] e.k = "WeakUpgrade"   -> Write("expression", e.e) \o Word("?")
        [] e.k = "UnownedAccess" -> Write("expression", e.e) \o Word("!")
        [] e.k = "Weak"     -> Word("weak") \o Write("expression", e.e)
        [] e.k = "Unowned"  -> Word("unowned") \o Write("expression", e.e)
        [] e.k = "Cast"     -> Write("expression", e.e) \o Word("as") \o WriteType(e.target)
        [] e.k = "StructInit" ->
             Name(e.name) \o In("{", [i \in DOMAIN e.fields |->
                                        Name(e.fields[i][1]) \o Word(":") \o Write("expression", e.fields[i][2])], "}")
        [] e.k = "SpawnExpr" -> Word("spawn") \o Word("actor") \o Block0(e.body)
        [] e.k = "Template" -> Joined([i \in DOMAIN e.nodes |-> Write("node", e.nodes[i])], <<>>)

Hole(e) == Word("{") \o Write("expression", e) \o Word("}")

WriteAttr(a) ==
  CASE a[1] = "Flag"    -> Name(a[3])
    [] a[1] = "Static"  -> Name(a[3]) \o Word("=") \o Write("expression", a[2])
    [] a[1] = "Dynamic" -> Name(a[3]) \o Word("=") \o Hole(a[2])
    [] OTHER            -> Name("on") \o Word(":") \o Name(a[3]) \o Unless(a[1] = "EventFlag", Word("=") \o Hole(a[2]))

WriteNode(n) ==
  LET Content0(tag, ns) ==
        Word(">") \o Joined([i \in DOMAIN ns |-> Write("node", ns[i])], <<>>) \o Word("<") \o Word("/") \o tag \o Word(">")
      Tagged(tag) ==   \* an else without its if is an element
        Word("<") \o (IF tag = "else" THEN Word(tag) ELSE Name(tag))
          \o Joined([i \in DOMAIN n.attrs |-> WriteAttr(n.attrs[i])], <<>>)
          \o (IF n.children = <<>> THEN Word("/") \o Word(">")
              ELSE Content0(IF tag = "else" THEN Word(tag) ELSE Name(tag), n.children))
  IN  CASE n.k = "TText" -> <<n.text>>
        [] n.k = "TExpr" -> Hole(n.e)
        [] n.k = "TElement"   -> Tagged(n.tag)
        [] n.k = "TComponent" -> Tagged(n.name)
        [] n.k = "TIf"   -> Word("<") \o Word("if") \o Name("cond") \o Word("=") \o Hole(n.cond)
                              \o Content0(Word("if"), n.then)
                              \o Unless(n.else = <<>>, Word("<") \o Word("else") \o Content0(Word("else"), n.else))
        [] n.k = "TFor"  -> Word("<") \o Word("for") \o Name(n.var) \o Word("in") \o Hole(n.items)
                              \o Name("key") \o Word("=") \o Hole(n.key) \o Content0(Word("for"), n.children)
        [] n.k = "TSlot" -> Word("<") \o Name("slot")
                              \o Unless(n.name = "", Name("name") \o Word("=") \o <<StrT(n.name)>>)
                              \o Content0(Name("slot"), n.children)

WriteStatement(st) ==
  LET Else == Unless(st.else = NoStmt, Word("else") \o Write("statement", st.else))
      Parameters == [i \in DOMAIN st.params |-> Name(st.params[i]) \o Colon(st.types[i])]
      Generic ==
        [i \in DOMAIN st.tparams |->
           Name(st.tparams[i][1]) \o Unless(st.tparams[i][2] = "", Word(":") \o Name(st.tparams[i][2]))]
  IN  CASE st.k = "Expression" -> Write("expression", st.e) \o Unless(st.e.k = "StructInit", Word(";"))
        [] st.k = "Let"    -> Word("let") \o WritePattern(st.pattern) \o Colon(st.ty) \o Word("=")
                                \o Write("expression", st.init) \o Word(";")
        [] st.k = "Block"  -> Block0(st.body)
        [] st.k = "If"     -> Word("if") \o Write("expression", st.cond) \o Write("statement", st.then) \o Else
        [] st.k = "IfLet"  -> Word("if") \o Word("let") \o WritePattern(st.pattern) \o Word("=")
                                \o Write("expression", st.value) \o Write("statement", st.then) \o Else
        [] st.k = "Match"  ->
             Word("match") \o Write("expression", st.e) \o Word("{")
               \o Joined([i \in DOMAIN st.cases |->
                            Word("case") \o WritePattern(st.cases[i].pattern)
                              \o Unless(st.cases[i].guard = NoExpr, Word("if") \o Write("expression", st.cases[i].guard))
                              \o Word(":") \o Write("statement", st.cases[i].body)], <<>>) \o Word("}")
        [] st.k = "TryCatch" -> Word("try") \o Write("statement", st.try) \o Word("catch") \o Name(st.name)
                                  \o Write("statement", st.catch)
        [] st.k = "Function" ->
             Word("func") \o Unless(st.owner = "", Name(st.owner) \o Word(".")) \o Name(st.name)
               \o Unless(st.tparams = <<>>, In("<", Generic, ">")) \o In("(", Parameters, ")")
               \o Unless(st.ret = NoAnn, Word("->") \o WriteType(st.ret)) \o Write("statement", st.body)
        [] st.k = "Return" -> Word("return") \o Unless(st.e = NoExpr, Write("expression", st.e)) \o Word(";")
        [] st.k = "While"  -> Word("while") \o Write("expression", st.cond) \o Write("statement", st.body)
        [] st.k = "For"    -> Word("for") \o Name(st.element) \o Word("in") \o Write("expression", st.iterator)
                                \o Write("statement", st.body)
        [] st.k = "Performant" -> Word("performant") \o Block0(st.body)
        [] st.k = "SpawnActor" -> Word("spawn") \o Word("actor") \o Block0(st.body)
        [] st.k = "StructDecl" ->
             Word("struct") \o Name(st.name)
               \o In("{", [i \in DOMAIN st.fields |-> Name(st.fields[i][1]) \o Colon(st.fields[i][2])], "}")
        [] st.k = "EnumDecl" ->
             Word("enum") \o Name(st.name)
               \o In("{", [i \in DOMAIN st.variants |->
                             Name(st.variants[i][1])
                               \o Unless(st.variants[i][2] = <<>>,
                                         In("(", [j \in DOMAIN st.variants[i][2] |-> WriteType(st.variants[i][2][j])], ")"))],
                     "}")
        [] st.k = "Import" -> Word("import") \o Joined([i \in DOMAIN st.path |-> Name(st.path[i])], Word(".")) \o Word(";")
        [] st.k = "ImplBlock" -> Word("impl") \o Name(st.type) \o Word("{")
                                   \o Joined([i \in DOMAIN st.methods |-> Write("statement", [st.methods[i] EXCEPT !.owner = ""])], <<>>)
                                   \o Word("}")
        [] st.k = "QualifiedBinding" ->
             Word(st.qualifier) \o Name(st.name) \o Colon(st.ty)
               \o Unless(st.value = NoExpr, Word("=") \o Write("expression", st.value)) \o Word(";")
        [] st.k = "ComponentBlock" ->
             Word("component") \o Name(st.name) \o Word("{")
               \o Joined([i \in DOMAIN st.bindings |-> Write("statement", st.bindings[i])], <<>>)
               \o Unless(st.view = <<>>, Word("view") \o Word("{")
                                           \o Joined([i \in DOMAIN st.view |-> Write("node", st.view[i])], <<>>) \o Word("}"))
               \o Word("}")

Write(rule, x) ==
  CASE rule = "expression" -> WriteExpression(x)
    [] rule = "node"       -> WriteNode(x)
    [] rule = "statement"  -> WriteStatement(x)

Written(ss) == Joined([i \in DOMAIN ss |-> Write("statement", ss[i])], <<>>)

----------------------------------------------------------------------------
(* Operators.  A unit is an operand: the prefixes before an atom and the   *)
(* postfixes after it.                                                     *)

RECURSIVE Prefixed(_, _), Postfixed(_, _), TreeOf(_, _)
Prefixed(ops, e) == IF ops = <<>> THEN e ELSE Applied(ops[1], Prefixed(Tail(ops), e))
Postfixed(e, ops) ==
  IF ops = <<>> THEN e
  ELSE LET l == Postfixed(e, Front(ops)) op == Last(ops)
       IN  CASE op = "?" -> WeakUpgrade(l) [] op = "!" -> UnownedAccess(l)
             [] op = "." -> FieldAccess(l, "f") [] op = "(" -> Call(l, <<>>)
\* The outermost operator of units joined by ops is the last of those that
\* bind least.
TreeOf(units, ops) ==
  IF ops = <<>> THEN Prefixed(units[1].pre, Postfixed(units[1].atom, units[1].post))
  ELSE LET i == CHOOSE i \in DOMAIN ops : \A j \in DOMAIN ops :
                  \/ TokenPrecedence(ops[i]) < TokenPrecedence(ops[j])
                  \/ TokenPrecedence(ops[i]) = TokenPrecedence(ops[j]) /\ j <= i
           l == TreeOf(SubSeq(units, 1, i), SubSeq(ops, 1, i - 1))
           r == TreeOf(SubSeq(units, i + 1, Len(units)), SubSeq(ops, i + 1, Len(ops)))
       IN  CASE ops[i] = "|>" -> Piped(l, r)
             [] ops[i] \in {"and", "or"} -> Logical(l, ops[i], r)
             [] OTHER -> Binary(l, ops[i], r)

WrittenUnits(units, ops) ==
  LET Post(op) == CASE op = "." -> Word(".") \o Name("f") [] op = "(" -> Word("(") \o Word(")") [] OTHER -> Word(op)
      Unit(u) == Joined([i \in DOMAIN u.pre |-> Word(u.pre[i])], <<>>) \o Write("expression", u.atom)
                   \o Joined([i \in DOMAIN u.post |-> Post(u.post[i])], <<>>)
  IN  Joined([i \in DOMAIN units |-> Unless(i = 1, Word(ops[i - 1])) \o Unit(units[i])], <<>>)

----------------------------------------------------------------------------
(* Properties.  A text of kind "written" was written from the program      *)
(* from, of which unknown components are neither imported nor defined; one *)
(* of kind "operators" from an expression; one of kind "changed" is such a *)
(* text with a token lost, doubled, moved or replaced.                     *)
VARIABLE source

\* A program that is written down and parsed is the same program, without a
\* diagnostic but for unknown components, however its declarations,
\* patterns, types, templates and expressions are nested (Parser::parse).
WrittenIsRead ==
  ended /\ source.kind = "written" => program = source.from /\ parser.diags = source.unknown

\* A sequence of operators is read as the tree their precedences give it:
\* each operator takes all that binds stronger than it on both sides, and
\* operators of one precedence associate to the left (parse_precedence).
ShapeByPrecedence ==
  ended /\ source.kind = "operators" => program = source.from /\ parser.diags = 0

\* Neither separators nor empty brackets, which make no difference after
\* the name of a variant or a function.
Significant(toks) ==
  LET ts == SelectSeq(toks, LAMBDA tok : tok.t \notin {",", ";", "::", "Eof"})
      Opens(i) == i \in 1 .. Len(ts) - 1 /\ <<ts[i].t, ts[i + 1].t>> \in {<<"(", ")">>, <<"<", ">">>}
  IN  FoldLeft(LAMBDA acc, i : IF Opens(i) \/ Opens(i - 1) THEN acc ELSE Append(acc, ts[i]), <<>>,
               [i \in DOMAIN ts |-> i])
Braces(n) == [i \in 1 .. n |-> Tok("}")]

\* What is parsed without a diagnostic is the program that was written: but
\* for separators, and the blocks left open at the end, no token is lost or
\* made up (consume, skip and the recovery of every rule).
NothingLost ==
  ended /\ parser.diags = 0 /\ source.kind = "changed" =>
    \E n \in 0 .. 3 : Significant(Written(program)) = Significant(parser.toks) \o Braces(n)

\* Every loop of the parser takes a token before it goes round again
\* (the fuzz tests: "no panics, no infinite loops").
NeverStuck == ~parser.stuck
=============================================================================
