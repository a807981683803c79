-------------------------------- MODULE Parser --------------------------------
(***************************************************************************)
(* The recursive-descent parser of crates/parser: tokens to the syntax of  *)
(* Syntax.  A token is a record whose field t is its type; an identifier   *)
(* has its lexeme x, a number n and a string s.                            *)
(*                                                                         *)
(* A rule takes the parser p, a record of the tokens toks, the place pos   *)
(* of the cursor, the depth of nested expressions, and diags, how many     *)
(* diagnostics were reported; it returns what it read, v, and the parser   *)
(* after it, p.  stuck says that a loop of the parser did not advance,     *)
(* and so never ends.  Strings with holes and shell commands are left out. *)
(***************************************************************************)
EXTENDS Syntax, FiniteSets

CONSTANTS
  MaxParseDepth,   \* how deeply expressions may nest (MAX_PARSE_DEPTH, 200)
  TypeLike         \* the lexemes that begin with an uppercase letter

ASSUME ParserAssumption == MaxParseDepth \in Nat

Tok(t)   == [t |-> t]
Id(x)    == [t |-> "Identifier", x |-> x]
NumT(n)  == [t |-> "Number", n |-> n]
StrT(s)  == [t |-> "String", s |-> s]

Got(v, p) == [v |-> v, p |-> p]

----------------------------------------------------------------------------
(* The cursor.                                                             *)

NewParser(toks) ==
  [toks |-> IF toks # <<>> /\ toks[Len(toks)].t = "Eof" THEN toks ELSE Append(toks, Tok("Eof")),
   pos |-> 1, depth |-> 0, diags |-> 0, stuck |-> FALSE]

Peek(p)     == p.toks[IF p.pos <= Len(p.toks) THEN p.pos ELSE Len(p.toks)]
AtEnd(p)    == Peek(p).t = "Eof"
Check(p, t) == ~AtEnd(p) /\ Peek(p).t = t
Advance(p)  == IF AtEnd(p) THEN p ELSE [p EXCEPT !.pos = @ + 1]
Report(p)   == [p EXCEPT !.diags = @ + 1]

\* What advance returns: at the end, the token before the cursor once more.
Taken(p) == IF ~AtEnd(p) THEN Peek(p) ELSE p.toks[IF p.pos = 1 THEN 1 ELSE p.pos - 1]

\* match_token, whose answer is Check.
Skip(p, t) == IF Check(p, t) THEN Advance(p) ELSE p

\* Mutant: an expected token that is missing is made up without a report.
ConsumeQuietly(p, t) == IF Check(p, t) THEN Advance(p) ELSE p

Consume(p, t) == IF Check(p, t) THEN Advance(p) ELSE Report(p)

\* consume of an identifier; in place of a missing one, a made-up token.
Identifier(p) == Got(IF Check(p, "Identifier") THEN Peek(p).x ELSE "", Consume(p, "Identifier"))

\* A list that ends in the token close, which may be missing.
Closed(vs, close) == Got(vs.v, Consume(vs.p, close))

TooDeep(p)  == p.depth >= MaxParseDepth
Deeper(p)   == [p EXCEPT !.depth = @ + 1]
PopDepth(p) == [p EXCEPT !.depth = IF @ > 0 THEN @ - 1 ELSE 0]

----------------------------------------------------------------------------
(* Precedences.                                                            *)
Assignment == 1
UnaryLevel == 9

TokenPrecedence(t) ==
  CASE t = "|>" -> 2
    [] t = "or" -> 3
    [] t = "and" -> 4
    [] t \in {"==", "!="} -> 5
    [] t \in {">", ">=", "<", "<="} -> 6
    [] t \in {"+", "-"} -> 7
    [] t \in {"*", "/"} -> 8
    [] t \in {"(", ".", "::", "as", "!"} -> 10
    [] t = "?" -> 11
    [] OTHER -> 0

\* Mutant: an operator of the same precedence may follow on the right.
OperandLevelBelow(t) == TokenPrecedence(t) - 1

\* The precedence above which the right operand of t takes what follows it.
OperandLevel(t) == TokenPrecedence(t)

\* Mutant: every name before a dot is an enum.
AnyTypeLike(e) == e.k = "Variable"

\* An expression that, before a dot, names an enum.
IsTypeLike(e) == e.k = "Variable" /\ e.name \in TypeLike

\* l |> r puts l before the arguments of the call r.
Piped(l, r) == IF r.k = "Call" THEN [r EXCEPT !.args = <<l>> \o @] ELSE Call(r, <<l>>)

None == Literal(NoneV)

LiteralOf(tok) ==
  CASE tok.t = "Number" -> IntV(tok.n)
    [] tok.t = "String" -> StringV(tok.s)
    [] tok.t = "none"   -> NoneV
    [] OTHER            -> BoolV(tok.t = "true")

LiteralTokens == {"Number", "String", "true", "false", "none"}

----------------------------------------------------------------------------
\* Parse reads a rule, given by its name.
RECURSIVE Parse(_, _), Items(_, _, _, _), Item(_, _), ParsePrecedence(_, _), Infixes(_, _), ViewNodes(_),
  Children(_), Element(_, _), Attrs(_, _), IfAttrs(_, _), ForAttrs(_, _), SlotAttrs(_, _), Statements(_, _),
  Cases(_, _), InitFields(_, _), ImplBody(_, _), ComponentBody(_)

\* What was read as r, made into another thing.
As(Op(_), r) == Got(Op(r.v), r.p)

\* What was read as f, and r after it.
Also(f, r) == Got(Append(f.v, r.v), r.p)

\* What follows the token t, if t stands there.
After(t, rule, otherwise, p) == IF Check(p, t) THEN Parse(rule, Advance(p)) ELSE Got(otherwise, p)

(* Lists.  The kind of a list says how one of its items is read, and       *)
(* whether it may end in a comma or at the end of the tokens.              *)
ItemsEnd(kind, p, close) ==
  \/ kind \in {"expression", "type argument", "variant", "field"} /\ Check(p, close)
  \/ kind \in {"expression", "type argument", "variant"} /\ AtEnd(p)

MoreItems(kind, vs, close) == IF Check(vs.p, ",") THEN Items(kind, Advance(vs.p), close, vs.v) ELSE vs

Items(kind, p, close, vs) ==
  IF ItemsEnd(kind, p, close) THEN Got(vs, p)
  ELSE MoreItems(kind, As(LAMBDA v : Append(vs, v), Item(kind, p)), close)

List(kind, p, close) == Closed(IF Check(p, close) THEN Got(<<>>, p) ELSE Items(kind, p, close, <<>>), close)

\* Such a list in round brackets, or nothing.
Bracketed(kind, p) == IF Check(p, "(") THEN List(kind, Advance(p), ")") ELSE Got(<<>>, p)

\* A name, and what follows a colon, if one does.
TypedName(p) ==
  LET x == Identifier(p)
      t == After(":", "type", NoAnn, x.p)
  IN  Got(<<x.v, t.v>>, t.p)

Item(kind, p) ==
  CASE kind = "expression" -> Parse("expression", p)
    [] kind \in {"type", "type argument"} -> Parse("type", p)
    [] kind = "pattern" -> Parse("pattern", p)
    [] kind = "param" -> TypedName(p)
    [] kind = "type param" ->
         LET x == Identifier(p)
             b == After(":", "name", "", x.p)
         IN  Got(<<x.v, b.v>>, b.p)
    [] kind = "field" ->
         LET x == Identifier(p)
             t == Parse("type", Consume(x.p, ":"))
         IN  Got(<<x.v, t.v>>, t.p)
    [] kind = "variant" ->
         LET x == Identifier(p)
             ts == Bracketed("type", x.p)
         IN  Got(<<x.v, ts.v>>, ts.p)

----------------------------------------------------------------------------
(* Blocks.                                                                 *)

\* A loop that is to read another item, and has taken no token for the last.
Stuck(before, after) == after.pos = before.pos
GiveUp(p) == [p EXCEPT !.stuck = TRUE]

Statements(p, ss) ==
  IF AtEnd(p) \/ Check(p, "}") THEN Got(ss, p)
  ELSE LET d == Parse("declaration", p)
       IN  IF Stuck(p, d.p) THEN Got(ss, GiveUp(d.p)) ELSE Statements(d.p, Append(ss, d.v))

\* A block that is still open at the end is closed there.
ParseBlock(p) ==
  LET b == Statements(p, <<>>) IN IF AtEnd(b.p) THEN b ELSE Closed(b, "}")

----------------------------------------------------------------------------
(* Types.                                                                  *)

\* The type in square brackets, p being after the first, under the name it has.
SquareType(name, p) == As(LAMBDA t : Ann(name, <<t>>), Closed(Parse("type", p), "]"))

\* Of Name[T]<U, V> what follows the name.
Sized(p) == IF Check(p, "[") THEN As(LAMBDA t : <<t>>, SquareType("[]", Advance(p))) ELSE Got(<<>>, p)
Generics(b) == IF Check(b.p, "<") THEN Closed(Items("type", Advance(b.p), ">", b.v), ">") ELSE b

ParseType(p) ==
  CASE Check(p, "[") -> SquareType("[", Advance(p))
    [] Check(p, "(") -> As(LAMBDA ts : Ann("(", ts), List("type", Advance(p), ")"))
    [] OTHER -> LET x == Identifier(p) IN As(LAMBDA args : Ann(x.v, args), Generics(Sized(x.p)))

----------------------------------------------------------------------------
(* Patterns.                                                               *)

\* A variant of the enum en, or of one that is not named.
Variant(en, p) ==
  LET v == Identifier(p) IN As(LAMBDA ps : PEnum(en, v.v, ps), Bracketed("pattern", v.p))

NamedPattern(x, p) ==
  CASE Check(p, ".") -> Variant(x, Advance(p))
    [] Check(p, "(") -> As(LAMBDA ps : PEnum("", x, ps), Bracketed("pattern", p))
    [] OTHER -> Got(PVariable(x), p)

ParsePattern(p) ==
  CASE Check(p, ".") -> Variant("", Advance(p))
    [] Check(p, "let") -> As(PBinding, Identifier(Advance(p)))
    [] Check(p, "_") -> Got(PWildcard, Advance(p))
    [] Peek(p).t \in LiteralTokens -> Got(PLiteral(LiteralOf(Peek(p))), Advance(p))
    [] Check(p, "Identifier") -> NamedPattern(Peek(p).x, Advance(p))
    [] Check(p, "(") -> As(PTuple, Bracketed("pattern", p))
    [] OTHER -> Got(PWildcard, Report(p))

----------------------------------------------------------------------------
(* Expressions.                                                            *)

ParseExpression(p) == ParsePrecedence(p, Assignment)

\* p is after the bracket.
Parenthesised(p) ==
  CASE AtEnd(p)        -> Got(None, Report(p))
    [] TooDeep(p)      -> Got(None, Report(Report(p)))
    [] Check(p, ")")   -> Got(Tuple(<<>>), Advance(p))
    [] OTHER ->
         LET e == Parse("expression", Deeper(p))
         IN  IF Check(e.p, ",") THEN
               LET es == Closed(Items("expression", Advance(e.p), ")", <<e.v>>), ")")
               IN  Got(Tuple(es.v), PopDepth(es.p))
             ELSE Got(Grouping(e.v), Consume(PopDepth(e.p), ")"))

TagTokens == {"Identifier", "if", "for", "else"}
TagName(tok) == IF tok.t = "Identifier" THEN tok.x ELSE tok.t

Applied(t, e) ==
  CASE t = "weak" -> Weak(e) [] t = "unowned" -> Unowned(e) [] OTHER -> Unary(t, e)

ParsePrefix(p) ==
  LET tok == Taken(p)
      q   == Advance(p)
  IN  CASE tok.t \in LiteralTokens -> Got(Literal(LiteralOf(tok)), q)
        [] tok.t = "Identifier" -> Got(Variable(tok.x), q)
        [] tok.t = "[" -> As(Array, List("expression", q, "]"))
        [] tok.t = "(" -> Parenthesised(q)
        [] tok.t = "spawn" /\ Check(q, "actor") ->
             As(SpawnExpr, ParseBlock(Consume(Advance(q), "{")))
        [] tok.t \in {"weak", "unowned", "!", "-"} ->
             As(LAMBDA e : Applied(tok.t, e), ParsePrecedence(q, UnaryLevel))
        [] tok.t = "<" /\ Peek(q).t \in TagTokens ->
             As(LAMBDA n : Template(<<n>>), Element(Advance(q), TagName(Peek(q))))
        [] tok.t = "." ->
             LET v == Identifier(q) IN As(LAMBDA es : EnumInit("", v.v, es), Bracketed("expression", v.p))
        [] OTHER -> Got(None, Report(q))

Shallower(e) == Got(e.v, PopDepth(e.p))

\* An expression nested too deeply is none, and takes no token.
ParsePrecedence(p, level) ==
  IF TooDeep(p) THEN Got(None, Report(p))
  ELSE Shallower(Infixes(ParsePrefix(Deeper(p)), level))

\* The operator op has been read; what stands before it is l.
ParseInfix(l, op, p) ==
  CASE op = "::" ->
         LET ts == List("type argument", Consume(p, "<"), ">")
             es == List("expression", Consume(ts.p, "("), ")")
         IN  Got(TypedCall(l, ts.v, es.v), es.p)
    [] op = "(" -> As(LAMBDA es : Call(l, es), List("expression", p, ")"))
    [] op = "." ->
         LET x == Identifier(p)
         IN  IF ~IsTypeLike(l) THEN Got(FieldAccess(l, x.v), x.p)
             ELSE As(LAMBDA es : EnumInit(l.name, x.v, es), Bracketed("expression", x.p))
    [] op = "?" -> Got(WeakUpgrade(l), p)
    [] op = "!" -> Got(UnownedAccess(l), p)
    [] op = "as" -> As(LAMBDA t : Cast(l, t), Parse("type", p))
    [] OTHER ->
         LET r == ParsePrecedence(p, OperandLevel(op))
         IN  Got(CASE op \in {"and", "or"} -> Logical(l, op, r.v)
                   [] op = "|>" -> Piped(l, r.v)
                   [] OTHER -> Binary(l, op, r.v), r.p)

Infixes(l, level) ==
  IF TokenPrecedence(Peek(l.p).t) <= level THEN l
  ELSE Infixes(ParseInfix(l.v, Peek(l.p).t, Advance(l.p)), level)

----------------------------------------------------------------------------
(* Templates.                                                              *)

\* An expression and its closing brace.
Braced(p) == Closed(Parse("expression", p), "}")

\* The event of on:click names the attribute; without a handler it is a flag
\* like the rest, of that name.
Attrs(p, as) ==
  IF ~Check(p, "Identifier") THEN Got(as, p)
  ELSE LET x == Peek(p).x
           q == Advance(p)
       IN  IF x = "on" /\ Check(q, ":") THEN
             LET ev == Identifier(Advance(q))
                 h  == Braced(Consume(Advance(ev.p), "{"))
             IN  IF Check(ev.p, "=") THEN Attrs(h.p, Append(as, <<"EventHandler", h.v, ev.v>>))
                 ELSE Attrs(ev.p, Append(as, <<"EventFlag", NoExpr, ev.v>>))
           ELSE IF ~Check(q, "=") THEN Attrs(q, Append(as, <<"Flag", NoExpr, x>>))
           ELSE IF Check(Advance(q), "{") THEN
             LET e == Braced(Advance(Advance(q))) IN Attrs(e.p, Append(as, <<"Dynamic", e.v, x>>))
           ELSE IF Check(Advance(q), "String") THEN
             Attrs(Advance(Advance(q)), Append(as, <<"Static", Literal(StringV(Peek(Advance(q)).s)), x>>))
           ELSE Attrs(Report(Advance(q)), as)

TagEnds(p) == AtEnd(p) \/ Check(p, ">") \/ Check(p, "/")

\* What the attributes of an if, a for and a slot do not need is skipped.
IfAttrs(p, c) ==
  IF TagEnds(p) THEN Got(c, p)
  ELSE IF Peek(p) = Id("cond") /\ Check(Advance(p), "=") THEN
    LET e == Braced(Consume(Advance(Advance(p)), "{")) IN IfAttrs(e.p, e.v)
  ELSE IfAttrs(Advance(p), c)

ForAttrs(p, f) ==
  LET q == Advance(p)
  IN  CASE TagEnds(p) -> Got(f, p)
        [] ~Check(p, "Identifier") -> ForAttrs(q, f)
        [] Check(p, "Identifier") /\ Check(q, "=") ->
             IF Peek(p).x = "key"
             THEN LET e == Braced(Consume(Advance(q), "{")) IN ForAttrs(e.p, [f EXCEPT !.key = e.v])
             ELSE ForAttrs(Advance(Advance(q)), f)
        [] Check(p, "Identifier") /\ Check(q, "in") ->
             LET e == Braced(Consume(Advance(q), "{"))
             IN  ForAttrs(e.p, [f EXCEPT !.var = Peek(p).x, !.items = e.v])
        [] OTHER -> ForAttrs(q, [f EXCEPT !.var = Peek(p).x])

SlotAttrs(p, n) ==
  LET q == Skip(Advance(p), "=")
  IN  CASE TagEnds(p) -> Got(n, p)
        [] Peek(p) # Id("name") -> SlotAttrs(Advance(p), n)
        [] OTHER -> IF Check(Advance(p), "=") /\ Check(q, "String")
                    THEN SlotAttrs(Advance(q), Peek(q).s) ELSE SlotAttrs(q, n)

ClosingTag(p, tag) ==
  LET q    == Advance(p)
      r    == Advance(q)
      name == Peek(r).t \in TagTokens
      s    == IF name THEN Advance(r) ELSE r
  IN  IF ~Check(p, "<") THEN Report(p)
      ELSE IF ~Check(q, "/") THEN Report(q)
      ELSE Consume(IF name /\ TagName(Peek(r)) = tag THEN s ELSE Report(s), ">")

\* What stands between an opening tag, up to its >, and the closing one.
Content(p, tag) == LET ns == Children(Got(<<>>, Consume(p, ">"))) IN Got(ns.v, ClosingTag(ns.p, tag))

\* A tag that ends in /> has no content.
TagBody(p, tag) == IF Check(p, "/") THEN Got(<<>>, Consume(Advance(p), ">")) ELSE Content(p, tag)

IfElement(c, t) ==
  LET e == IF Check(t.p, "<") /\ Peek(Advance(t.p)).t = "else" THEN Content(Advance(Advance(t.p)), "else")
           ELSE Got(<<>>, t.p)
  IN  Got(TIf(c, t.v, e.v), e.p)

ForElement(f) ==
  LET ns    == TagBody(f.p, "for")
      keyed == Check(f.p, "/") \/ f.v.key # NoExpr
  IN  Got(TFor(f.v.var, f.v.items, f.v.key, ns.v), IF keyed THEN ns.p ELSE Report(ns.p))

SlotElement(n) == As(LAMBDA ns : TSlot(n.v, ns), TagBody(n.p, "slot"))

PlainElement(tag, as) ==
  As(LAMBDA ns : IF tag \in TypeLike THEN TComponent(tag, as.v, ns) ELSE TElement(tag, as.v, ns), TagBody(as.p, tag))

Element(p, tag) ==
  CASE tag = "if"   -> LET c == IfAttrs(p, Literal(BoolV(TRUE))) IN IfElement(c.v, Content(c.p, "if"))
    [] tag = "for"  -> ForElement(ForAttrs(p, [var |-> "", items |-> None, key |-> NoExpr]))
    [] tag = "slot" -> SlotElement(SlotAttrs(p, ""))
    [] OTHER        -> PlainElement(tag, Attrs(p, <<>>))

Children(ns) ==
  LET p == ns.p
      q == Advance(p)
  IN  CASE AtEnd(p) \/ (Check(p, "<") /\ Check(q, "/")) -> ns
        [] Check(p, "<") /\ ~Check(q, "/") ->
             IF Peek(q).t \notin TagTokens THEN Got(ns.v, Report(q))
             ELSE Children(As(LAMBDA n : Append(ns.v, n), Element(Advance(q), TagName(Peek(q)))))
        [] Check(p, "{") -> Children(As(LAMBDA e : Append(ns.v, TExpr(e)), Braced(q)))
        [] OTHER -> Children(Got(Append(ns.v, TText(Peek(p))), q))

\* The nodes of a view; a < that begins no tag is dropped.
ViewNodes(ns) ==
  LET p == ns.p
      q == Advance(p)
  IN  CASE AtEnd(p) \/ Check(p, "}") -> ns
        [] Check(p, "<") ->
             IF Peek(q).t \notin TagTokens THEN ViewNodes(Got(ns.v, q))
             ELSE ViewNodes(As(LAMBDA n : Append(ns.v, n), Element(Advance(q), TagName(Peek(q)))))
        [] Check(p, "{") -> ViewNodes(As(LAMBDA e : Append(ns.v, TExpr(e)), Braced(q)))
        [] OTHER -> ViewNodes(Got(Append(ns.v, TText(Peek(p))), q))

----------------------------------------------------------------------------
(* Statements.                                                             *)

\* The fields of a struct; the commas may be missing.
InitFields(p, fs) ==
  IF AtEnd(p) \/ Check(p, "}") THEN Got(fs, p)
  ELSE IF ~Check(p, "Identifier") THEN Got(fs, Report(p))
  ELSE LET e == Parse("expression", Consume(Advance(p), ":"))
       IN  InitFields(Skip(e.p, ","), Append(fs, <<Peek(p).x, e.v>>))

\* x { ... }, p being after the brace.
StructInitOf(x, p) == As(LAMBDA fs : StructInit(x, fs), Closed(InitFields(p, <<>>), "}"))
StructFollows(e) == e.v.k = "Variable" /\ Check(e.p, "{")

ExpressionStatement(p) ==
  LET e == Parse("expression", p)
  IN  IF StructFollows(e) THEN As(Expression, StructInitOf(e.v.name, Advance(e.p)))
      ELSE Got(Expression(e.v), Skip(IF Check(e.p, "{") THEN Report(Advance(e.p)) ELSE e.p, ";"))

LetDeclaration(p) ==
  LET x == Parse("pattern", p)
      t == After(":", "type", NoAnn, x.p)
      e == Parse("expression", Consume(t.p, "="))
      i == IF StructFollows(e) THEN StructInitOf(e.v.name, Advance(e.p)) ELSE e
  IN  Got(LetTyped(x.v, t.v, i.v), Skip(i.p, ";"))

ElseBranch(p) == After("else", "statement", NoStmt, p)

IfStatement(p) ==
  IF Check(p, "let") THEN
    LET x == Parse("pattern", Advance(p))
        v == Parse("expression", Consume(x.p, "="))
        t == Parse("statement", v.p)
        e == ElseBranch(t.p)
    IN  Got(IfLet(x.v, v.v, t.v, e.v), e.p)
  ELSE
    LET c == Parse("expression", p)
        t == Parse("statement", c.p)
        e == ElseBranch(t.p)
    IN  Got(If(c.v, t.v, e.v), e.p)

Cases(p, cs) ==
  IF AtEnd(p) \/ Check(p, "}") THEN Got(cs, p)
  ELSE LET x == Parse("pattern", Consume(p, "case"))
           g == After("if", "expression", NoExpr, x.p)
           s == Parse("statement", Consume(g.p, ":"))
       IN  IF Stuck(p, s.p) THEN Got(cs, GiveUp(s.p)) ELSE Cases(s.p, Append(cs, Case(x.v, g.v, s.v)))

MatchStatement(p) ==
  LET e == Parse("expression", p)
  IN  As(LAMBDA cs : Match(e.v, cs), Closed(Cases(Consume(e.p, "{"), <<>>), "}"))

TryCatchStatement(p) ==
  LET t == Parse("statement", p)
      x == Identifier(Consume(t.p, "catch"))
      c == Parse("statement", x.p)
  IN  Got(TryCatch(t.v, x.v, c.v), c.p)

ReturnStatement(p) ==
  LET e == IF Check(p, ";") THEN Got(NoExpr, p) ELSE Parse("expression", p) IN Got(Return(e.v), Skip(e.p, ";"))

\* yield e is return Option.Some(e).
YieldStatement(p) ==
  LET e == Parse("expression", p) IN Got(Return(EnumInit("Option", "Some", <<e.v>>)), Skip(e.p, ";"))

WhileStatement(p) ==
  LET c == Parse("expression", p)
      b == Parse("statement", c.p)
  IN  Got(While(c.v, b.v), b.p)

ForStatement(p) ==
  LET x == Identifier(p)
      e == Parse("expression", Consume(x.p, "in"))
      b == Parse("statement", e.p)
  IN  Got(For(x.v, e.v, b.v), b.p)

Statement(p) ==
  LET q == Advance(p)
  IN  CASE Check(p, "spawn")  -> As(SpawnActor, ParseBlock(Consume(Consume(q, "actor"), "{")))
        [] Check(p, "match")  -> MatchStatement(q)
        [] Check(p, "if")     -> IfStatement(q)
        [] Check(p, "try")    -> TryCatchStatement(q)
        [] Check(p, "return") -> ReturnStatement(q)
        [] Check(p, "yield")  -> YieldStatement(q)
        [] Check(p, "while")  -> WhileStatement(q)
        [] Check(p, "for")    -> ForStatement(q)
        [] Check(p, "{")      -> As(Block, ParseBlock(q))
        [] OTHER              -> ExpressionStatement(p)

----------------------------------------------------------------------------
(* Declarations.                                                           *)

\* The owner and the name of a function whose first name is x; a dot that no
\* name follows is dropped.
FunctionName(x) ==
  IF Check(x.p, ".") /\ Check(Advance(x.p), "Identifier")
  THEN As(LAMBDA f : <<x.v, f>>, Identifier(Advance(x.p)))
  ELSE Got(<<"", x.v>>, Skip(x.p, "."))

\* The parts of a function, one read after the other.
TypeParams(f) == Also(f, IF Check(f.p, "<") THEN List("type param", Advance(f.p), ">") ELSE Got(<<>>, f.p))
Params(f)     == Also(f, List("param", Consume(f.p, "("), ")"))
Returns(f)    == Also(f, After("->", "type", NoAnn, f.p))
Body(f)       == Also(f, ParseBlock(Consume(f.p, "{")))

FunctionOf(f) ==
  LET fn == TypedFunction(f[2], f[3], [i \in DOMAIN f[4] |-> f[4][i][1]], [i \in DOMAIN f[4] |-> f[4][i][2]], f[5],
                          Block(f[6]))
  IN  IF f[1] = "" THEN fn ELSE Method(f[1], fn)

FunctionDeclaration(p) == As(FunctionOf, Body(Returns(Params(TypeParams(FunctionName(Identifier(p)))))))

\* What is not a function is skipped.
ImplBody(type, ms) ==
  LET p == ms.p
      Of(m) == IF m.owner = "" THEN Method(type, m) ELSE m
  IN  CASE AtEnd(p) \/ Check(p, "}") -> ms
        [] Check(p, "func") -> ImplBody(type, As(LAMBDA m : Append(ms.v, Of(m)), FunctionDeclaration(Advance(p))))
        [] OTHER -> ImplBody(type, Got(ms.v, Advance(p)))

Qualifiers == {"state", "prop", "memo", "ref"}

\* The bindings and the view of a component; of several views the last counts.
ComponentBody(c) ==
  LET p == c.p
      x == TypedName(Advance(p))
      Bound(e) == <<Append(c.v[1], Binding(Peek(p).t, x.v[1], x.v[2], e)), c.v[2]>>
  IN  CASE AtEnd(p) \/ Check(p, "}") -> c
        [] Peek(p).t \in Qualifiers ->
             LET b == As(Bound, After("=", "expression", NoExpr, x.p)) IN ComponentBody(Got(b.v, Skip(b.p, ";")))
        [] Check(p, "view") ->
             ComponentBody(As(LAMBDA ns : <<c.v[1], ns>>,
                              Closed(ViewNodes(Got(<<>>, Consume(Advance(p), "{"))), "}")))
        [] OTHER -> ComponentBody(Got(c.v, Advance(p)))

RECURSIVE ImportPath(_, _)
ImportPath(p, path) ==
  LET x == Identifier(p)
  IN  IF Check(x.p, ".") THEN ImportPath(Advance(x.p), Append(path, x.v)) ELSE Got(Append(path, x.v), x.p)

Declaration(p) ==
  LET q == Advance(p)
      x == Identifier(q)
      open == Consume(x.p, "{")
      Declares(Op(_, _), r) == As(LAMBDA v : Op(x.v, v), r)
  IN  CASE Check(p, "struct") -> Declares(StructDecl, List("field", open, "}"))
        [] Check(p, "enum")   -> Declares(EnumDecl, List("variant", open, "}"))
        [] Check(p, "let")    -> LetDeclaration(q)
        [] Check(p, "func")   -> FunctionDeclaration(q)
        [] Check(p, "import") -> As(Import, Closed(ImportPath(q, <<>>), ";"))
        [] Check(p, "performant") -> As(Performant, ParseBlock(Consume(q, "{")))
        [] Check(p, "impl")   -> Declares(ImplBlock, Closed(ImplBody(x.v, Got(<<>>, open)), "}"))
        [] Check(p, "component") ->
             As(LAMBDA c : Component(x.v, c[1], c[2]), Closed(ComponentBody(Got(<<<<>>, <<>>>>, open)), "}"))
        [] OTHER -> Parse("statement", p)

----------------------------------------------------------------------------
(* The rules.                                                              *)
Parse(rule, p) ==
  CASE rule = "name"        -> Identifier(p)
    [] rule = "type"        -> ParseType(p)
    [] rule = "pattern"     -> ParsePattern(p)
    [] rule = "expression"  -> ParseExpression(p)
    [] rule = "statement"   -> Statement(p)
    [] rule = "declaration" -> Declaration(p)

----------------------------------------------------------------------------
(* Components that the program shows, and the names they may have.         *)

KnownName(st) ==
  CASE st.k = "Import"     -> {st.path[Len(st.path)]}
    [] st.k = "StructDecl" -> {st.name}
    [] st.k = "Function"   -> {st.name} \cap TypeLike
    [] st.k = "Let" /\ st.pattern.k = "PVariable" -> {st.pattern.name} \cap TypeLike
    [] OTHER -> {}

RECURSIVE TemplateComponents(_), ShownIn(_)
TemplateComponents(ns) ==
  UNION {LET n == ns[i]
         IN  CASE n.k = "TComponent" -> {n.name} \cup TemplateComponents(n.children)
               [] n.k \in {"TElement", "TFor", "TSlot"} -> TemplateComponents(n.children)
               [] n.k = "TIf" -> TemplateComponents(n.then) \cup TemplateComponents(n.else)
               [] OTHER -> {} : i \in DOMAIN ns}

\* Only a template that is a whole expression counts.
ShownBy(e) == IF e.k = "Template" THEN TemplateComponents(e.nodes) ELSE {}

ShownIn(ss) ==
  UNION {LET st == ss[i]
         IN  CASE st.k \in {"Expression", "Return"} -> ShownBy(st.e)
               [] st.k = "Let" -> ShownBy(st.init)
               [] st.k \in {"Block", "SpawnActor", "Performant"} -> ShownIn(st.body)
               [] st.k = "Function" -> ShownIn(<<st.body>>)
               [] st.k = "If" -> ShownBy(st.cond) \cup ShownIn(<<st.then, st.else>>)
               [] st.k = "While" -> ShownBy(st.cond) \cup ShownIn(<<st.body>>)
               [] st.k = "For" -> ShownBy(st.iterator) \cup ShownIn(<<st.body>>)
               [] st.k = "ImplBlock" -> ShownIn(st.methods)
               [] OTHER -> {} : i \in DOMAIN ss}

UnknownComponents(ss) == ShownIn(ss) \ UNION {KnownName(ss[i]) : i \in DOMAIN ss}

----------------------------------------------------------------------------
(* parse: one declaration after the other, then the components.            *)
VARIABLES
  parser,    \* the parser
  program,   \* the declarations read
  ended      \* parse has returned

parserVars == <<parser, program, ended>>

ParserInit(toks) ==
  /\ parser = NewParser(toks)
  /\ program = <<>> /\ ended = FALSE

ParseDeclaration ==
  /\ ~AtEnd(parser) /\ ~parser.stuck
  /\ \E d \in {Parse("declaration", parser)} : parser' = d.p /\ program' = Append(program, d.v)
  /\ UNCHANGED ended

CheckComponentImports ==
  /\ AtEnd(parser) /\ ~parser.stuck /\ ~ended
  /\ parser' = [parser EXCEPT !.diags = @ + Cardinality(UnknownComponents(program))]
  /\ ended' = TRUE
  /\ UNCHANGED program

ParserNext == ParseDeclaration \/ CheckComponentImports
=============================================================================
