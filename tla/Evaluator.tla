------------------------------ MODULE Evaluator ------------------------------
(***************************************************************************)
(* The tree-walking evaluator of crates/interpreter: evaluate and execute  *)
(* over the abstract syntax of Syntax.                                     *)
(*                                                                         *)
(* The interpreter's state is a record s: env, the frames ever made (each  *)
(* the frame enclosing it and its bindings), cur, the frame in force,      *)
(* heap, the composites made, enums and structs, the declarations, diags,  *)
(* the kinds of the diagnostics reported, depth, the nesting of evaluate,  *)
(* and caps, the next capability.  Every operation returns a result: a     *)
(* value, the error that cuts execution short ("" if none) and the state   *)
(* after it.  What a heap object's counts and arenas do is in ArcHeap, so  *)
(* an object lives for ever here, and so does the frame of a closure.      *)
(* Arrays and enum values are on the heap, tuples are not.                 *)
(***************************************************************************)
EXTENDS Syntax, FiniteSets, SequencesExt, TLC

CONSTANTS
  MaxEvalDepth,   \* MAX_EVAL_DEPTH, 128 in the code
  MaxLoop         \* bound: iterations a while loop is followed for

ASSUME EvaluatorAssumption == MaxEvalDepth \in Nat \ {0} /\ MaxLoop \in Nat

Builtins == {"capability_acquire", "capability_kind", "println"}

InitState ==
  [env |-> << [up |-> 0, vals |-> <<>>] >>, cur |-> 1, heap |-> <<>>, enums |-> <<>>, structs |-> {},
   diags |-> <<>>, depth |-> 0, caps |-> 1]

Ok(v, s)      == [v |-> v, err |-> "", s |-> s]
Err(e, v, s)  == [v |-> v, err |-> e, s |-> s]
Report(d, s)  == [s EXCEPT !.diags = Append(@, d)]
Blame(d, s)   == Ok(NoneV, Report(d, s))

\* The ? of Rust: an error of r ends the caller too.
Then(r, F(_, _)) == IF r.err # "" THEN r ELSE F(r.v, r.s)

----------------------------------------------------------------------------
(* Environments.                                                           *)

Define(x, v, s) == [s EXCEPT !.env[s.cur].vals = With(@, x, v)]

\* A new frame under up becomes the one in force.
Enter(up, s) == [s EXCEPT !.env = Append(@, [up |-> up, vals |-> <<>>]), !.cur = Len(s.env) + 1]
Leave(r, f)  == [r EXCEPT !.s.cur = f]

\* The innermost frame that binds x, from frame f outwards; 0 if none does.
FrameOf(x, f, s) ==
  LET chain[g \in 0..Len(s.env)] ==
        IF g = 0 \/ x \in DOMAIN s.env[g].vals THEN g ELSE chain[s.env[g].up]
  IN  chain[f]

\* read_for_eval: reading a capability leaves a moved one behind.
Read(x, s) ==
  LET f == FrameOf(x, s.cur, s)
      v == s.env[f].vals[x]
  IN  IF f = 0 THEN Blame("undefined", s)
      ELSE IF v.k = "Moved" THEN Blame("moved", s)
      ELSE IF v.k = "Capability" THEN Ok(v, [s EXCEPT !.env[f].vals[x] = MovedV])
      ELSE Ok(v, s)

\* A builtin hides every binding of its name but those of the current frame.
ReadVariable(x, s) ==
  IF x \in Builtins /\ x \notin DOMAIN s.env[s.cur].vals THEN Ok(BuiltinV(x), s) ELSE Read(x, s)

----------------------------------------------------------------------------
(* Values.                                                                 *)

Heapify(v, s) == Ok(HandleV(Len(s.heap) + 1), [s EXCEPT !.heap = Append(@, v)])
Resolve(v, s) == IF v.k = "Handle" THEN s.heap[v.h] ELSE v

Truthy(v) ==
  CASE v.k = "Bool"   -> v.b
    [] v.k = "Int"    -> v.n # 0
    [] v.k = "String" -> v.s # ""
    [] v.k = "None"   -> FALSE
    [] OTHER          -> TRUE

AreInts(l, r) == l.k = "Int" /\ r.k = "Int"

\* i64 division truncates towards zero.
Quotient(a, b) ==
  LET abs(n) == IF n < 0 THEN -n ELSE n
      q      == abs(a) \div abs(b)
  IN  IF (a < 0) = (b < 0) THEN q ELSE -q

Compare(op, a, b) ==
  CASE op = "<" -> a < b [] op = "<=" -> a <= b [] op = ">" -> a > b [] op = ">=" -> a >= b
    [] op = "==" -> a = b [] op = "!=" -> a # b

BinaryOp(op, l, r, s) ==
  CASE op = "+" -> IF AreInts(l, r) THEN Ok(IntV(l.n + r.n), s)
                   ELSE IF l.k = "String" /\ r.k = "String" THEN Ok(StringV(l.s \o r.s), s)
                   ELSE Blame("type mismatch", s)
    [] op \in {"-", "*"} ->
         Ok(IF ~AreInts(l, r) THEN NoneV ELSE IntV(IF op = "-" THEN l.n - r.n ELSE l.n * r.n), s)
    [] op = "/" -> IF r = IntV(0) THEN Blame("division by zero", s)
                   ELSE Ok(IF AreInts(l, r) THEN IntV(Quotient(l.n, r.n)) ELSE NoneV, s)
    [] op \in {"<", "<=", ">", ">="} ->
         Ok(IF AreInts(l, r) THEN BoolV(Compare(op, l.n, r.n)) ELSE NoneV, s)
    [] op = "==" -> Ok(BoolV(l = r), s)
    [] op = "!=" -> Ok(BoolV(l # r), s)
    [] OTHER     -> Blame("invalid operator", s)

UnaryOp(op, v, s) ==
  CASE op = "-" -> IF v.k = "Int" THEN Ok(IntV(-v.n), s) ELSE Blame("type mismatch", s)
    [] op = "!" -> Ok(BoolV(~Truthy(v)), s)
    [] OTHER    -> Blame("invalid operator", s)

\* The enum a variant without a qualifier belongs to: the only one that has it.
Owners(variant, s) == {en \in DOMAIN s.enums : variant \in DOMAIN s.enums[en]}

Declared(en, variant, s) == en \in DOMAIN s.enums /\ variant \in DOMAIN s.enums[en]

MakeEnum(en, variant, vs, s) ==
  IF s.enums[en][variant] # Len(vs) THEN Blame("wrong arity", s)
  ELSE Heapify(EnumV(en, variant, vs), s)

FieldOf(o, f, s) ==
  IF o.k = "Array" /\ f = "count" THEN Ok(IntV(Len(o.vs)), s)
  ELSE IF o.k = "Array" /\ f = "sum" /\ \A i \in DOMAIN o.vs : o.vs[i].k = "Int"
       THEN Ok(IntV(FoldLeft(LAMBDA acc, v : acc + v.n, 0, o.vs)), s)
  ELSE Blame("type mismatch", s)

----------------------------------------------------------------------------
(* Patterns: whether they match, the bindings that makes, in order, and    *)
(* the state after it.                                                     *)

NoMatch(s) == [matched |-> FALSE, binds |-> <<>>, s |-> s]
Matched(binds, s) == [matched |-> TRUE, binds |-> binds, s |-> s]

\* Parameters that are not there in the number of the values are reported,
\* unless the pattern has none.  A tuple pattern matches nothing here.
RECURSIVE PatternMatches(_, _, _)
PatternMatches(p, v, s) ==
  LET w == Resolve(v, s)
      next(acc, i) == LET m == PatternMatches(p.params[i], w.vs[i], acc.s)
                      IN  IF acc.matched THEN [m EXCEPT !.binds = acc.binds \o @] ELSE acc
  IN  CASE p.k = "PWildcard" -> Matched(<<>>, s)
        [] p.k = "PLiteral" /\ p.v = v -> Matched(<<>>, s)
        [] p.k \in {"PBinding", "PVariable"} ->
             Matched(<< <<p.name, IF w.k = "Enum" /\ Len(w.vs) = 1 THEN w.vs[1] ELSE w>> >>, s)
        [] p.k = "PEnum" /\ w.k = "Enum" /\ w.variant = p.variant /\ p.en \in {"", w.en} ->
             IF Len(w.vs) = Len(p.params)
             THEN FoldLeft(next, Matched(<<>>, s), [i \in DOMAIN p.params |-> i])
             ELSE NoMatch(IF p.params = <<>> THEN s ELSE Report("pattern arity", s))
        [] OTHER -> NoMatch(s)

DefineAll(binds, s) == FoldLeft(LAMBDA t, b : Define(b[1], b[2], t), s, binds)

\* let binds a variable and the parts of a tuple; any other pattern is ignored.
RECURSIVE BindValue(_, _, _)
BindValue(p, v, s) ==
  CASE p.k = "PVariable" -> Ok(NoneV, Define(p.name, v, s))
    [] p.k = "PTuple" /\ (v.k # "Tuple" \/ Len(v.vs) # Len(p.params)) -> Err("type", NoneV, s)
    [] p.k = "PTuple" ->
         FoldLeft(LAMBDA r, i : Then(r, LAMBDA w, t : BindValue(p.params[i], v.vs[i], t)),
                  Ok(NoneV, s), [i \in DOMAIN p.params |-> i])
    [] OTHER -> Ok(NoneV, s)

----------------------------------------------------------------------------
RECURSIVE Evaluate(_, _), EvaluateInner(_, _), EvaluateAll(_, _, _), HandleCall(_, _),
          CallFunction(_, _, _), CallBuiltin(_, _, _), Execute(_, _), ExecuteAll(_, _),
          ExecuteBlock(_, _), TryCases(_, _, _), Loop(_, _, _), ForBody(_, _, _), ForEach(_, _, _),
          ForCalls(_, _, _, _)

Evaluate(e, s) ==
  IF s.depth >= MaxEvalDepth THEN Blame("too deep", s)
  ELSE LET r == EvaluateInner(e, [s EXCEPT !.depth = @ + 1])
       IN  [r EXCEPT !.s.depth = s.depth]

EvaluateAll(es, vs, s) ==
  IF es = <<>> THEN Ok(vs, s)
  ELSE Then(Evaluate(Head(es), s), LAMBDA v, t : EvaluateAll(Tail(es), Append(vs, v), t))

EvaluateInner(e, s) ==
  CASE e.k = "Literal"  -> Ok(e.v, s)
    [] e.k \in {"Grouping", "Cast"} -> Evaluate(e.e, s)
    [] e.k = "Variable" -> ReadVariable(e.name, s)
    [] e.k = "Unary"    -> Then(Evaluate(e.right, s), LAMBDA v, t : UnaryOp(e.op, v, t))
    [] e.k = "Logical"  ->
         Then(Evaluate(e.left, s), LAMBDA v, t :
              IF Truthy(v) = (e.op = "or") THEN Ok(v, t) ELSE Evaluate(e.right, t))
    [] e.k = "Binary"   ->
         Then(Evaluate(e.left, s), LAMBDA l, t :
              Then(Evaluate(e.right, t), LAMBDA r, u : BinaryOp(e.op, l, r, u)))
    [] e.k = "Call"     -> HandleCall(e, s)
    [] e.k = "Template" -> Err("type", NoneV, s)
    [] e.k = "Array"    ->
         Then(EvaluateAll(e.elements, <<>>, s), LAMBDA vs, t : Heapify(ArrayV(vs), t))
    [] e.k = "Tuple"    ->
         Then(EvaluateAll(e.elements, <<>>, s), LAMBDA vs, t : Ok(TupleV(vs), t))
    [] e.k = "EnumInit" ->
         LET owners == Owners(e.variant, s)
             en     == IF e.en # "" THEN e.en ELSE CHOOSE o \in owners : TRUE
         IN  IF e.en = "" /\ Cardinality(owners) # 1 THEN Blame("ambiguous enum", s)
             ELSE IF ~Declared(en, e.variant, s) THEN Blame("undefined enum", s)
             ELSE Then(EvaluateAll(e.values, <<>>, s),
                       LAMBDA vs, t : MakeEnum(en, e.variant, vs, t))
    [] e.k = "FieldAccess" ->
         Then(Evaluate(e.object, s), LAMBDA v, t : FieldOf(Resolve(v, t), e.field, t))
    [] e.k = "Try"      ->
         Then(Evaluate(e.e, s), LAMBDA v, t :
              IF v.k # "Enum" \/ v.en # "Result" THEN Ok(v, t)
              ELSE LET inner == IF v.vs = <<>> THEN NoneV ELSE Last(v.vs)
                   IN  IF v.variant = "Ok" THEN Ok(inner, t) ELSE Err("return", inner, t))

\* A name that is neither bound nor a builtin is a program of the shell.
HandleCall(e, s) ==
  LET known == e.callee.k # "Variable" \/ e.callee.name \in Builtins
               \/ FrameOf(e.callee.name, s.cur, s) # 0
  IN  IF ~known THEN Blame("shell", s)
      ELSE Then(Evaluate(e.callee, s), LAMBDA f, t :
                CASE f.k = "Function" -> CallFunction(f, e.args, t)
                  [] f.k = "Builtin"  -> CallBuiltin(f.name, e.args, t)
                  [] OTHER            -> Blame("not a function", t))

\* The body runs in a frame under the one the function was declared in; a
\* return is caught here, any other error goes on.
CallFunction(f, args, s) ==
  IF Len(f.fn.params) # Len(args) THEN Blame("wrong arity", s)
  ELSE Then(EvaluateAll(args, <<>>, s), LAMBDA vs, t :
         LET body == DefineAll([i \in DOMAIN vs |-> <<f.fn.params[i], vs[i]>>], Enter(f.closure, t))
             r    == Leave(Execute(f.fn.body, body), t.cur)
         IN  CASE r.err = ""       -> Ok(NoneV, r.s)
               [] r.err = "return" -> Ok(r.v, r.s)
               [] OTHER            -> r)

CallBuiltin(b, args, s) ==
  IF b = "println"
  THEN Then(EvaluateAll(args, <<>>, s), LAMBDA vs, t : Ok(NoneV, t))
  ELSE IF Len(args) # 1 THEN Blame("wrong arity", s)
  ELSE Then(Evaluate(args[1], s), LAMBDA v, t :
         CASE b = "capability_acquire" /\ v.k = "String" ->
                Ok(CapabilityV(v.s, t.caps), [t EXCEPT !.caps = @ + 1])
           [] b = "capability_kind" /\ v.k = "Capability" -> Ok(StringV(v.kind), t)
           [] OTHER -> Blame("bad argument", t))

----------------------------------------------------------------------------
ExecuteAll(ss, s) ==
  IF ss = <<>> THEN Ok(NoneV, s)
  ELSE Then(Execute(Head(ss), s), LAMBDA v, t : ExecuteAll(Tail(ss), t))

ExecuteBlock(ss, s) == Leave(ExecuteAll(ss, Enter(s.cur, s)), s.cur)

\* The first case whose pattern matches and whose guard holds; a guard that
\* fails, with whatever error, is a guard that does not hold.
TryCases(cs, v, s) ==
  IF cs = <<>> THEN Blame("no match", s)
  ELSE LET c     == Head(cs)
           m     == PatternMatches(c.pattern, v, s)
           inner == DefineAll(m.binds, Enter(s.cur, m.s))
           g     == Leave(Evaluate(c.guard, inner), s.cur)
           after == IF c.guard = NoExpr THEN m.s ELSE g.s
           holds == c.guard = NoExpr \/ (g.err = "" /\ Truthy(g.v))
       IN  IF ~m.matched THEN TryCases(Tail(cs), v, m.s)
           ELSE IF ~holds THEN TryCases(Tail(cs), v, after)
           ELSE Leave(Execute(c.body, DefineAll(m.binds, Enter(after.cur, after))), s.cur)

Loop(st, n, s) ==
  IF n = 0 THEN Blame("loop bound", s)
  ELSE Then(Evaluate(st.cond, s), LAMBDA v, t :
         IF ~Truthy(v) THEN Ok(NoneV, t)
         ELSE Then(Execute(st.body, t), LAMBDA w, u : Loop(st, n - 1, u)))

ForBody(st, v, s) == Leave(Execute(st.body, Define(st.element, v, Enter(s.cur, s))), s.cur)

ForEach(st, vs, s) ==
  IF vs = <<>> THEN Ok(NoneV, s)
  ELSE Then(ForBody(st, Head(vs), s), LAMBDA v, t : ForEach(st, Tail(vs), t))

\* A function is called for one element after another until it has no more.
ForCalls(st, f, n, s) ==
  IF n = 0 THEN Blame("loop bound", s)
  ELSE Then(IF f.k = "Function" THEN CallFunction(f, <<>>, s) ELSE CallBuiltin(f.name, <<>>, s), LAMBDA v, t :
         LET w      == Resolve(v, t)
             option == w.k = "Enum" /\ w.en = "Option"
             item   == IF w.vs = <<>> THEN NoneV ELSE w.vs[1]
         IN  CASE option /\ w.variant = "Some" ->
                    Then(ForBody(st, item, t), LAMBDA x, u : ForCalls(st, f, n - 1, u))
               [] w = NoneV \/ (option /\ w.variant # "Some") -> Ok(NoneV, t)
               [] OTHER -> Blame("not an option", t))

Execute(st, s) ==
  CASE st.k = "Expression" -> Evaluate(st.e, s)
    [] st.k = "Let"  -> Then(Evaluate(st.init, s), LAMBDA v, t : BindValue(st.pattern, v, t))
    [] st.k \in {"Block", "Performant"} -> ExecuteBlock(st.body, s)
    [] st.k = "If"   ->
         Then(Evaluate(st.cond, s), LAMBDA v, t :
              IF Truthy(v) THEN Execute(st.then, t)
              ELSE IF st.else # NoStmt THEN Execute(st.else, t) ELSE Ok(NoneV, t))
    [] st.k = "IfLet" ->
         Then(Evaluate(st.value, s), LAMBDA v, t :
              LET m == PatternMatches(st.pattern, v, t)
              IN  IF m.matched
                  THEN Leave(Execute(st.then, DefineAll(m.binds, Enter(t.cur, m.s))), t.cur)
                  ELSE IF st.else # NoStmt THEN Execute(st.else, m.s) ELSE Ok(NoneV, m.s))
    [] st.k = "Match" -> Then(Evaluate(st.e, s), LAMBDA v, t : TryCases(st.cases, v, t))
    [] st.k = "TryCatch" ->
         LET r == Execute(st.try, s)
         IN  IF r.err # "type" THEN r
             ELSE Leave(Execute(st.catch, Define(st.name, StringV(""), Enter(s.cur, r.s))), s.cur)
    \* A method goes to its type, where a call by name does not look.
    [] st.k = "Function" ->
         IF st.owner = "" THEN Ok(NoneV, Define(st.name, FunctionV(st, s.cur), s))
         ELSE IF st.owner \in s.structs \cup DOMAIN s.enums THEN Ok(NoneV, s) ELSE Blame("unknown type", s)
    [] st.k = "ImplBlock" -> ExecuteAll(st.methods, s)
    [] st.k = "Return" ->
         IF st.e = NoExpr THEN Err("return", NoneV, s)
         ELSE Then(Evaluate(st.e, s), LAMBDA v, t : Err("return", v, t))
    [] st.k = "While" -> Loop(st, MaxLoop, s)
    [] st.k = "For"  ->
         Then(Evaluate(st.iterator, s), LAMBDA v, t :
              LET a == Resolve(v, t)
              IN  CASE a.k = "Array" -> ForEach(st, a.vs, t)
                    [] a.k \in {"Function", "Builtin"} -> ForCalls(st, a, MaxLoop, t)
                    [] OTHER -> Blame("not iterable", t))
    [] st.k = "EnumDecl" -> Ok(NoneV, [s EXCEPT !.enums = With(@, st.name, Arities(st.variants))])
    [] st.k = "StructDecl" -> Ok(NoneV, [s EXCEPT !.structs = @ \cup {st.name}])
    [] OTHER -> Ok(NoneV, s)

\* interpret: what each statement of the program comes to.  Only a return
\* ends the program; every other error is dropped.
RunSteps(prog, s) ==
  LET go[i \in 0..Len(prog)] ==
        IF i = 0 THEN Ok(NoneV, s)
        ELSE IF go[i - 1].err = "return" THEN go[i - 1]
        ELSE Execute(prog[i], go[i - 1].s)
  IN  go

RunProgram(prog, s) == RunSteps(prog, s)[Len(prog)]
=============================================================================
