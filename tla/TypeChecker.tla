------------------------------ MODULE TypeChecker ------------------------------
(***************************************************************************)
(* The second typing pass (crates/typeck/src/lib.rs), run by art build     *)
(* --target js: annotations against initialisers, arguments against        *)
(* parameters, type parameters from arguments, and the rules of the        *)
(* bindings of a component.                                                *)
(*                                                                         *)
(* The pass is a record tc: funcs, the signature of every function, scopes,*)
(* the types of the names of each open scope, and diags, the kinds         *)
(* reported.                                                               *)
(***************************************************************************)
EXTENDS Syntax, FiniteSets, SequencesExt, TLC

CONSTANT TypeParameters   \* the names of one capital letter or in small letters

CheckerInit == [funcs |-> <<>>, scopes |-> << <<>> >>, diags |-> <<>>]

Checked(t, tc)   == [t |-> t, tc |-> tc]
Complain(b, d, tc) == IF b THEN [tc EXCEPT !.diags = Append(@, d)] ELSE tc

OpenScope(tc) == [tc EXCEPT !.scopes = Append(@, <<>>)]
CloseScope(tc)  == IF Len(tc.scopes) > 1 THEN [tc EXCEPT !.scopes = Front(@)] ELSE tc
SetType(x, t, tc) == [tc EXCEPT !.scopes[Len(tc.scopes)] = With(@, x, t)]

TypeOf(x, tc) ==
  LET binding == {i \in DOMAIN tc.scopes : x \in DOMAIN tc.scopes[i]}
  IN  IF binding = {} THEN TUnknown ELSE tc.scopes[Max(binding)][x]

----------------------------------------------------------------------------
(* Types.                                                                  *)

RECURSIVE ParseType(_), Fits(_, _), Substitute(_, _), InferBindings(_, _, _)

\* parse_type: the same type has several names.
ParseType(a) ==
  CASE a.name \in {"Int", "i64", "int"} -> TInt
    [] a.name \in {"Float", "f64", "float"} -> TFloat
    [] a.name \in {"Bool", "bool"} -> TBool
    [] a.name \in {"String", "str", "string"} -> TString
    [] a.name = "None" \/ a = Ann("(", <<>>) -> TNone
    [] a.name = "Array" /\ a.args # <<>> -> TArray(ParseType(a.args[1]))
    [] a.name \in {"Result", "Option"} /\ a.args # <<>> ->
         TEnumInstance(a.name, [i \in DOMAIN a.args |-> ParseType(a.args[i])])
    [] a.name \in TypeParameters \cup {"[", "("} -> TGeneric(a.name)
    [] OTHER -> TStruct(a.name)

ParseAnnotation(a) == IF a = NoAnn THEN TUnknown ELSE ParseType(a)

\* types_compatible: what is not known fits everything, an integer a float.
Fits(expected, actual) ==
  \/ expected = actual
  \/ {expected.k, actual.k} \cap {"Unknown", "Generic"} # {}
  \/ expected = TFloat /\ actual = TInt
  \/ expected.k = "Array" /\ actual.k = "Array" /\ Fits(expected.of, actual.of)
  \/ /\ expected.k = "Tuple" /\ actual.k = "Tuple" /\ Len(expected.ts) = Len(actual.ts)
     /\ \A i \in DOMAIN expected.ts : Fits(expected.ts[i], actual.ts[i])

\* The type parameters a parameter's type gives a value to, the first one
\* met for each.
InferBindings(param, arg, binds) ==
  CASE param.k = "Generic" /\ arg # TUnknown ->
         IF param.name \in DOMAIN binds THEN binds ELSE With(binds, param.name, arg)
    [] param.k = "Array" /\ arg.k = "Array" -> InferBindings(param.of, arg.of, binds)
    [] param.k = "Tuple" /\ arg.k = "Tuple" ->
         FoldLeft(LAMBDA acc, i : InferBindings(param.ts[i], arg.ts[i], acc), binds,
                  SelectSeq([i \in DOMAIN param.ts |-> i], LAMBDA i : i \in DOMAIN arg.ts))
    [] OTHER -> binds

Substitute(t, binds) ==
  CASE t.k = "Generic"  -> IF t.name \in DOMAIN binds THEN binds[t.name] ELSE TUnknown
    [] t.k = "Array"    -> TArray(Substitute(t.of, binds))
    [] t.k = "Tuple"    -> TTuple([i \in DOMAIN t.ts |-> Substitute(t.ts[i], binds)])
    [] t.k = "Function" -> TFunction([i \in DOMAIN t.params |-> Substitute(t.params[i], binds)],
                                     Substitute(t.ret, binds))
    [] OTHER -> t

----------------------------------------------------------------------------
(* Declarations: the functions of the top level and of impl blocks.        *)

Signature(st) ==
  [params |-> [i \in DOMAIN st.params |-> <<st.params[i], ParseAnnotation(st.types[i])>>],
   ret |-> ParseAnnotation(st.ret), tparams |-> st.tparams]

RECURSIVE CollectDecl(_, _)
CollectDecl(st, tc) ==
  CASE st.k = "Function" ->
         LET sig == Signature(st)
             fun == TFunction([i \in DOMAIN sig.params |-> sig.params[i][2]], sig.ret)
         IN  SetType(st.name, fun, [tc EXCEPT !.funcs = With(@, st.name, sig)])
    [] st.k = "ImplBlock" -> FoldLeft(LAMBDA acc, m : CollectDecl(m, acc), tc, st.methods)
    [] OTHER -> tc

----------------------------------------------------------------------------
(* Expressions: nothing an expression does changes a scope.                *)

RECURSIVE CheckExpr(_, _), CheckAll(_, _), CheckCall(_, _), CheckNodes(_, _)

\* Mutant: a string on the right of a + is not looked for.
ArithmeticTypeOfLeft(op, l, r) ==
  CASE op \in {"==", "!=", "<", "<=", ">", ">="} -> TBool
    [] op \in {"+", "-", "*", "/", "%"} -> IF TFloat \in {l, r} THEN TFloat ELSE l
    [] OTHER -> TUnknown

ArithmeticType(op, l, r) ==
  CASE op \in {"==", "!=", "<", "<=", ">", ">="} -> TBool
    [] op = "+" -> IF TString \in {l, r} THEN TString ELSE l
    [] op \in {"-", "*", "/", "%"} -> IF TFloat \in {l, r} THEN TFloat ELSE l
    [] OTHER -> TUnknown

CheckAll(es, tc) ==
  FoldLeft(LAMBDA acc, e : LET r == CheckExpr(e, acc.tc) IN [ts |-> Append(acc.ts, r.t), tc |-> r.tc],
           [ts |-> <<>>, tc |-> tc], es)

\* The operands of and and or, the fields of a struct, the values of a
\* variant and what a cast is applied to are not looked at.
CheckExpr(e, tc) ==
  CASE e.k = "Literal"  -> Checked(CASE e.v.k = "Int" -> TInt [] e.v.k = "Bool" -> TBool
                                     [] e.v.k = "String" -> TString [] e.v.k = "None" -> TNone
                                     [] OTHER -> TUnknown, tc)
    [] e.k = "Variable" -> Checked(TypeOf(e.name, tc), tc)
    [] e.k = "Array"    -> IF e.elements = <<>> THEN Checked(TArray(TUnknown), tc)
                           ELSE LET r == CheckExpr(e.elements[1], tc) IN Checked(TArray(r.t), r.tc)
    [] e.k = "Tuple"    -> LET r == CheckAll(e.elements, tc) IN Checked(TTuple(r.ts), r.tc)
    [] e.k = "Binary"   -> LET l == CheckExpr(e.left, tc)
                               r == CheckExpr(e.right, l.tc)
                           IN  Checked(ArithmeticType(e.op, l.t, r.t), r.tc)
    [] e.k = "Logical"  -> Checked(TBool, tc)
    [] e.k = "Unary"    -> IF e.op = "!" THEN Checked(TBool, tc) ELSE CheckExpr(e.right, tc)
    [] e.k \in {"Grouping", "Try", "Weak", "Unowned", "WeakUpgrade", "UnownedAccess"} ->
         CheckExpr(e.e, tc)
    [] e.k = "Call"     -> CheckCall(e, tc)
    [] e.k = "FieldAccess" ->
         Checked(IF e.field \in {"len", "size", "count"} THEN TInt ELSE TUnknown, tc)
    [] e.k = "Cast"     -> Checked(ParseType(e.target), tc)
    [] e.k = "StructInit" -> Checked(TStruct(e.name), tc)
    [] e.k = "EnumInit" -> Checked(TEnum(IF e.en = "" THEN e.variant ELSE e.en), tc)
    [] e.k = "Template" -> Checked(TUnknown, CheckNodes(e.nodes, tc))
    [] OTHER            -> Checked(TUnknown, tc)

\* A handler must not be a plain value; attributes that are not handlers are
\* not looked at.
CheckHandler(a, tc) ==
  LET r == CheckExpr(a[2], tc)
  IN  IF a[1] # "EventHandler" THEN tc
      ELSE Complain(r.t \in {TInt, TFloat, TString, TBool}, "handler", r.tc)

CheckNode(n, tc) ==
  CASE n.k = "TExpr" -> CheckExpr(n.e, tc).tc
    [] n.k = "TIf"   -> CheckNodes(n.then \o n.else, CheckExpr(n.cond, tc).tc)
    [] n.k = "TFor"  -> CheckNodes(n.children, CheckExpr(n.items, tc).tc)
    [] n.k = "TSlot" -> CheckNodes(n.children, tc)
    [] n.k \in {"TElement", "TComponent"} ->
         CheckNodes(n.children, FoldLeft(LAMBDA acc, a : CheckHandler(a, acc), tc, n.attrs))
    [] OTHER -> tc

CheckNodes(ns, tc) == FoldLeft(LAMBDA acc, n : CheckNode(n, acc), tc, ns)

\* The parameters of a call: self is not among them.
Taken(sig) == SelectSeq(sig.params, LAMBDA p : p[1] # "self")

\* The first arguments given explicitly, the others found from the call.
Bindings(sig, targs, types) ==
  LET explicit == FoldLeft(LAMBDA acc, i : With(acc, sig.tparams[i][1], ParseType(targs[i])), <<>>,
                           SelectSeq([i \in DOMAIN sig.tparams |-> i], LAMBDA i : i \in DOMAIN targs))
  IN  FoldLeft(LAMBDA acc, i : InferBindings(Taken(sig)[i][2], types[i], acc), explicit,
               SelectSeq([i \in DOMAIN Taken(sig) |-> i], LAMBDA i : i \in DOMAIN types))

\* Arguments are compared only when every parameter but self is annotated and
\* there are as many; a call with the wrong number of them is never reported.
CheckCall(e, tc) ==
  LET args == CheckAll(e.args, tc)
      name == CASE e.callee.k = "Variable" -> e.callee.name
                [] e.callee.k = "FieldAccess" -> e.callee.field
                [] OTHER -> ""
      sig  == tc.funcs[name]
      binds == Bindings(sig, e.targs, args.ts)
      params == Taken(sig)
      annotated == \A i \in DOMAIN params : params[i][2] # TUnknown
      wrong == {i \in DOMAIN params : ~Fits(Substitute(params[i][2], binds), args.ts[i])}
  IN  IF name \notin DOMAIN tc.funcs THEN Checked(TUnknown, args.tc)
      ELSE Checked(Substitute(sig.ret, binds),
                   Complain(annotated /\ Len(params) = Len(args.ts) /\ wrong # {}, "argument", args.tc))

----------------------------------------------------------------------------
(* Statements.                                                             *)

RECURSIVE CheckStmt(_, _), BindPattern(_, _, _)

BindPattern(p, t, tc) ==
  CASE p.k \in {"PVariable", "PBinding"} -> SetType(p.name, t, tc)
    [] p.k = "PTuple" ->
         LET part(i) == IF t.k # "Tuple" THEN TUnknown ELSE t.ts[i]
             bound   == SelectSeq([i \in DOMAIN p.params |-> i],
                                  LAMBDA i : t.k # "Tuple" \/ i \in DOMAIN t.ts)
         IN  FoldLeft(LAMBDA acc, i : BindPattern(p.params[i], part(i), acc), tc, bound)
    [] p.k = "PEnum" ->
         FoldLeft(LAMBDA acc, q : BindPattern(q, TUnknown, acc), tc, p.params)
    [] OTHER -> tc

\* The type of a let or of a binding: its annotation if it has one.
AnnotatedType(ann, r) ==
  LET t == ParseType(ann)
  IN  IF ann = NoAnn THEN r ELSE Checked(t, Complain(~Fits(t, r.t), "mismatch", r.tc))

CheckEach(ss, tc) == FoldLeft(LAMBDA acc, s : CheckStmt(s, acc), tc, ss)
CheckElse(st, tc) == IF st = NoStmt THEN tc ELSE CheckStmt(st, tc)
CheckIn(ss, tc)   == CloseScope(CheckEach(ss, OpenScope(tc)))

RECURSIVE Refs(_)
\* collect_refs: what stands between parentheses is not looked at.
Refs(e) ==
  CASE e.k = "Variable" -> {e.name}
    [] e.k \in {"Binary", "Logical"} -> Refs(e.left) \cup Refs(e.right)
    [] e.k = "Unary" -> Refs(e.right)
    [] e.k = "Call"  -> Refs(e.callee) \cup UNION {Refs(e.args[i]) : i \in DOMAIN e.args}
    [] e.k \in {"Array", "Tuple"} -> UNION {Refs(e.elements[i]) : i \in DOMAIN e.elements}
    [] e.k = "FieldAccess" -> Refs(e.object)
    [] OTHER -> {}

\* A memo that reads no state or prop of its component would never be
\* computed again.
CheckBinding(sources, b, tc) ==
  LET t == AnnotatedType(b.ty, IF b.value = NoExpr THEN Checked(TUnknown, tc) ELSE CheckExpr(b.value, tc))
      stale == b.qualifier = "memo" /\ b.value # NoExpr /\ Refs(b.value) \cap sources = {}
  IN  SetType(b.name, t.t, Complain(stale, "stale memo", t.tc))

CheckComponent(bs, tc) ==
  LET sources == {bs[i].name : i \in {j \in DOMAIN bs : bs[j].qualifier \in {"state", "prop"}}}
  IN  CloseScope(FoldLeft(LAMBDA acc, b : CheckBinding(sources, b, acc), OpenScope(tc), bs))

CheckFunction(st, tc) ==
  LET params == FoldLeft(LAMBDA acc, i : SetType(st.params[i], ParseAnnotation(st.types[i]), acc),
                         OpenScope(tc), [i \in DOMAIN st.params |-> i])
      tparams == FoldLeft(LAMBDA acc, p : SetType(p[1], TGeneric(p[1]), acc), params, st.tparams)
  IN  CloseScope(CheckStmt(st.body, tparams))

CheckFor(st, tc) ==
  LET r == CheckExpr(st.iterator, tc)
      t == IF r.t.k = "Array" THEN r.t.of ELSE TUnknown
  IN  CloseScope(CheckStmt(st.body, SetType(st.element, t, OpenScope(r.tc))))

\* The names a pattern of a match or an if let binds are not in scope.
CheckCase(c, tc) ==
  CloseScope(CheckStmt(c.body, IF c.guard = NoExpr THEN OpenScope(tc) ELSE CheckExpr(c.guard, OpenScope(tc)).tc))

CheckStmt(st, tc) ==
  CASE st.k = "Let" -> LET r == AnnotatedType(st.ty, CheckExpr(st.init, tc))
                       IN  BindPattern(st.pattern, r.t, r.tc)
    [] st.k = "Function" -> CheckFunction(st, tc)
    [] st.k = "ImplBlock" -> CheckEach(st.methods, tc)
    [] st.k \in {"Block", "Performant", "SpawnActor"} -> CheckIn(st.body, tc)
    [] st.k = "If"    -> CheckElse(st.else, CheckStmt(st.then, CheckExpr(st.cond, tc).tc))
    [] st.k = "IfLet" -> CheckElse(st.else, CheckIn(<<st.then>>, CheckExpr(st.value, tc).tc))
    [] st.k = "While" -> CheckStmt(st.body, CheckExpr(st.cond, tc).tc)
    [] st.k = "For"   -> CheckFor(st, tc)
    [] st.k = "TryCatch" ->
         CloseScope(CheckStmt(st.catch, SetType(st.name, TString, OpenScope(CheckStmt(st.try, tc)))))
    [] st.k = "Match" -> FoldLeft(LAMBDA acc, c : CheckCase(c, acc), CheckExpr(st.e, tc).tc, st.cases)
    [] st.k = "Return" -> IF st.e = NoExpr THEN tc ELSE CheckExpr(st.e, tc).tc
    [] st.k = "Expression" -> CheckExpr(st.e, tc).tc
    [] st.k = "ComponentBlock" -> CheckComponent(st.bindings, tc)
    [] st.k = "QualifiedBinding" -> IF st.value = NoExpr THEN tc ELSE CheckExpr(st.value, tc).tc
    [] OTHER -> tc

CheckProgram(prog) ==
  CheckEach(prog, FoldLeft(LAMBDA acc, st : CollectDecl(st, acc), CheckerInit, prog))
=============================================================================
