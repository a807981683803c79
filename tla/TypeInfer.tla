------------------------------- MODULE TypeInfer -------------------------------
(***************************************************************************)
(* The first of the two typing passes (crates/typeck/src/type_infer.rs):   *)
(* it types names, forbids what may escape from a performant block, checks *)
(* what is sent to actors and follows capabilities from owner to owner.    *)
(* art run and art build-aot refuse a program it reports anything about.   *)
(*                                                                         *)
(* The pass is a record ti: vars, the type of every name, enums, scopes,   *)
(* the names each open scope declares, binds and mbinds, what each open    *)
(* scope must put back of vars and moved, funcs, the functions declared,   *)
(* visiting, those being followed, and diags, the kinds reported.          *)
(***************************************************************************)
EXTENDS Syntax, FiniteSets, SequencesExt, TLC

CONSTANT Temporaries   \* the names that begin with an underscore

TypeInferInit ==
  [vars |-> <<>>, moved |-> <<>>, enums |-> <<>>, scopes |-> <<{}>>, binds |-> <<<<>>>>,
   mbinds |-> <<<<>>>>, funcs |-> <<>>, visiting |-> {}, diags |-> <<>>]

Typed(t, ti)   == [t |-> t, ti |-> ti]
Tell(d, ti)    == [ti EXCEPT !.diags = Append(@, d)]
TellIf(b, d, ti) == IF b THEN Tell(d, ti) ELSE ti
Erase(f, x)      == Restrict(f, DOMAIN f \ {x})

KnownType(x, ti) == IF x \in DOMAIN ti.vars THEN ti.vars[x] ELSE TUnknown
HasMoved(x, ti)  == x \in DOMAIN ti.moved /\ ti.moved[x]

----------------------------------------------------------------------------
(* Scopes.                                                                 *)

\* What f says of x, as a set: to be put back when the scope is left.
Remember(f, x) == <<x, IF x \in DOMAIN f THEN {f[x]} ELSE {}>>

\* Mutant: the oldest memory is put back first.
RestoreForwards(f, saved) ==
  FoldLeft(LAMBDA g, m : IF m[2] = {} THEN Erase(g, m[1])
                         ELSE With(g, m[1], CHOOSE v \in m[2] : TRUE), f, saved)

Restore(f, saved) ==
  FoldRight(LAMBDA m, g : IF m[2] = {} THEN Erase(g, m[1])
                          ELSE With(g, m[1], CHOOSE v \in m[2] : TRUE), saved, f)

PushScope(ti) ==
  [ti EXCEPT !.scopes = Append(@, {}), !.binds = Append(@, <<>>), !.mbinds = Append(@, <<>>)]

PopScope(ti) ==
  [ti EXCEPT !.vars   = Restore(@, Last(ti.binds)),  !.binds  = Front(@),
             !.moved  = Restore(@, Last(ti.mbinds)), !.mbinds = Front(@),
             !.scopes = Front(@)]

Declare(x, ti) == [ti EXCEPT !.scopes[Len(ti.scopes)] = @ \cup {x}]

SetVar(x, t, ti) ==
  [ti EXCEPT !.binds[Len(ti.binds)] = Append(@, Remember(ti.vars, x)), !.vars = With(@, x, t)]

SetMoved(x, b, ti) ==
  [ti EXCEPT !.mbinds[Len(ti.mbinds)] = Append(@, Remember(ti.moved, x)),
             !.moved = With(@, x, b)]

VisibleVars(ti) == UNION Range(ti.scopes) \cup DOMAIN ti.vars

RECURSIVE BindType(_, _, _)
\* Names and tuples of as many parts; any other pattern binds nothing.
BindType(p, t, ti) ==
  CASE p.k = "PVariable" -> Declare(p.name, SetMoved(p.name, FALSE, SetVar(p.name, t, ti)))
    [] p.k = "PTuple" /\ t.k = "Tuple" /\ Len(t.ts) = Len(p.params) ->
         FoldLeft(LAMBDA acc, i : BindType(p.params[i], t.ts[i], acc), ti,
                  [i \in DOMAIN p.params |-> i])
    [] OTHER -> ti

----------------------------------------------------------------------------
(* What an expression may take along.                                      *)

RECURSIVE VarsIn(_), SendSafe(_, _), SendSafeType(_)

\* The body of a spawned actor is not looked into.
VarsIn(e) ==
  IF e.k = "Variable" THEN {e.name}
  ELSE LET subs == Subexpressions(e) IN UNION {VarsIn(subs[i]) : i \in DOMAIN subs}

\* expr_uses_outer_vars.
Captures(e, locals, outer) == (VarsIn(e) \cap outer) \ locals

SendSafe(e, ti) ==
  CASE e.k = "Literal"  -> e.v.k \in {"Int", "Bool", "String", "None"}
    [] e.k = "Variable" -> e.name \in DOMAIN ti.vars /\ SendSafeType(KnownType(e.name, ti))
    [] e.k \in {"Try", "Weak", "Unowned", "WeakUpgrade", "UnownedAccess", "SpawnExpr", "Template"} -> FALSE
    [] OTHER -> LET subs == Subexpressions(e) IN \A i \in DOMAIN subs : SendSafe(subs[i], ti)

SendSafeType(t) ==
  CASE t.k \in {"Int", "Float", "Bool", "String"} -> TRUE
    [] t.k = "Array" -> SendSafeType(t.of)
    [] t.k = "EnumInstance" -> \A i \in DOMAIN t.ts : SendSafeType(t.ts[i])
    [] OTHER -> FALSE

----------------------------------------------------------------------------
(* Expressions: a type and the pass after it.                              *)

RECURSIVE Infer(_, _), InferAll(_, _), InferCall(_, _), InferEnum(_, _), Simulate(_, _, _), Visit(_, _)

ValueType(v) ==
  CASE v.k = "Int" -> TInt [] v.k = "Bool" -> TBool [] v.k = "String" -> TString
    [] v.k = "None" -> TNone [] OTHER -> TUnknown

Comparisons == {"==", "!=", "<", "<=", ">", ">="}
Numeric     == {TInt, TFloat}

\* Mutant: the operands alone decide, as they once did.
BinaryTypeOfOperands(op, l, r) ==
  CASE op = "+" /\ TString \in {l, r} -> TString
    [] {l, r} \subseteq Numeric -> IF TFloat \in {l, r} THEN TFloat ELSE TInt
    [] l = TString /\ r = TString -> TString
    [] OTHER -> TUnknown

\* The operator decides the type of a comparison, a string that of a +.
BinaryType(op, l, r) ==
  CASE op \in Comparisons -> TBool
    [] op = "+" /\ TString \in {l, r} -> TString
    [] {l, r} \subseteq Numeric -> IF TFloat \in {l, r} THEN TFloat ELSE TInt
    [] l = TString /\ r = TString -> TString
    [] OTHER -> TUnknown

Misfit(op, l, r) == TUnknown \notin {l, r} /\ BinaryType(op, l, r) = TUnknown

\* Mutant: a capability that has moved may be used again.
UseAgain(x, ti) ==
  Typed(KnownType(x, ti), IF KnownType(x, ti) = TCapability THEN SetMoved(x, TRUE, ti) ELSE ti)

\* Reading a capability moves it; a let of a bare name does the same.
Use(x, ti) ==
  LET t == KnownType(x, ti)
  IN  Typed(t, IF t # TCapability THEN ti
               ELSE IF HasMoved(x, ti) THEN Tell("moved", ti) ELSE SetMoved(x, TRUE, ti))

InferAll(es, ti) ==
  FoldLeft(LAMBDA acc, e : LET r == Infer(e, acc.ti) IN [ts |-> Append(acc.ts, r.t), ti |-> r.ti],
           [ts |-> <<>>, ti |-> ti], es)

Infer(e, ti) ==
  CASE e.k = "Literal"  -> Typed(ValueType(e.v), ti)
    [] e.k = "Variable" -> Use(e.name, ti)
    [] e.k \in {"Grouping", "Try"} -> Infer(e.e, ti)
    [] e.k = "Unary"    -> Infer(e.right, ti)
    [] e.k = "FieldAccess" -> Infer(e.object, ti)
    [] e.k = "Binary"   -> LET l == Infer(e.left, ti)
                               r == Infer(e.right, l.ti)
                           IN  Typed(BinaryType(e.op, l.t, r.t),
                                     TellIf(Misfit(e.op, l.t, r.t), "operands", r.ti))
    [] e.k = "Logical"  -> Typed(TBool, InferAll(<<e.left, e.right>>, ti).ti)
    [] e.k = "Call"     -> InferCall(e, ti)
    [] e.k = "EnumInit" -> InferEnum(e, ti)
    [] e.k = "StructInit" -> Typed(TStruct(e.name), ti)
    [] e.k \in {"Weak", "Unowned", "UnownedAccess"} -> Typed(TUnknown, Infer(e.e, ti).ti)
    [] e.k = "WeakUpgrade" -> Typed(TNone, Infer(e.e, ti).ti)
    [] e.k = "Array"    -> IF e.elements = <<>> THEN Typed(TArray(TUnknown), ti)
                           ELSE LET r == Infer(e.elements[1], ti) IN Typed(TArray(r.t), r.ti)
    [] e.k = "Tuple"    -> LET r == InferAll(e.elements, ti) IN Typed(TTuple(r.ts), r.ti)
    [] e.k = "Cast"     -> Typed(TStruct(e.target.name), ti)
    [] OTHER            -> Typed(TUnknown, ti)

\* The payload is what actor_send takes second and make_envelope first.
Payload(e) ==
  CASE e.callee.k # "Variable" -> <<>>
    [] e.callee.name = "actor_send" /\ Len(e.args) >= 2 -> <<e.args[2]>>
    [] e.callee.name = "make_envelope" /\ e.args # <<>> -> <<e.args[1]>>
    [] OTHER -> <<>>

\* What capability_acquire and capability_kind are called with is not typed;
\* what any other known function is called with is typed twice.
InferCall(e, ti) ==
  LET c     == Infer(e.callee, ti).ti
      name  == IF e.callee.k = "Variable" THEN e.callee.name ELSE ""
      sent  == Payload(e)
      told  == TellIf(\E i \in DOMAIN sent : ~SendSafe(sent[i], c), "not send-safe", c)
      known == name \in DOMAIN c.funcs
  IN  CASE name = "capability_acquire" -> Typed(TCapability, c)
        [] name = "capability_kind"    -> Typed(TString, c)
        [] OTHER -> Typed(TUnknown, InferAll(e.args, IF known THEN Simulate(name, e, told) ELSE told).ti)

Satisfies(targ, bound) ==
  CASE bound = "Numeric" -> targ \in {"Int", "Float"}
    [] bound \in {"Eq", "Hash"} -> targ \in {"Int", "Float", "String", "Bool"}
    [] OTHER -> TRUE

BadArguments(f, targs) ==
  {i \in DOMAIN targs : Len(targs) = Len(f.tparams) /\ ~Satisfies(targs[i].name, f.tparams[i][2])}

\* A call follows the body of the function with the types of the arguments,
\* unless it is being followed already.
Simulate(name, e, ti) ==
  LET f     == ti.funcs[name]
      told  == FoldSet(LAMBDA i, acc : Tell("constraint", acc), ti, BadArguments(f, e.targs))
      bound == SelectSeq([i \in DOMAIN f.params |-> i], LAMBDA i : i \in DOMAIN e.args)
      inner == FoldLeft(LAMBDA acc, i : LET r == Infer(e.args[i], acc) IN SetVar(f.params[i], r.t, r.ti),
                        PushScope([told EXCEPT !.visiting = @ \cup {name}]), bound)
  IN  IF name \in ti.visiting THEN told
      ELSE [PopScope(Visit(f.body, inner)) EXCEPT !.visiting = @ \ {name}]

\* A variant without its enum belongs to the only one that has it; one with
\* the wrong arity is typed all the same.
InferEnum(e, ti) ==
  LET r      == InferAll(e.values, ti)
      owners == {en \in DOMAIN ti.enums : e.variant \in DOMAIN ti.enums[en]}
      en     == IF e.en # "" THEN e.en ELSE CHOOSE o \in owners : TRUE
      fits   == ti.enums[en][e.variant] = Len(r.ts)
  IN  CASE e.en = "" /\ owners = {} -> Typed(TUnknown, r.ti)
        [] e.en = "" /\ Cardinality(owners) > 1 -> Typed(TUnknown, Tell("ambiguous", r.ti))
        [] en \notin DOMAIN ti.enums -> Typed(TEnum(en), r.ti)
        [] en \notin owners -> Typed(TEnum(en), Tell("unknown variant", r.ti))
        [] OTHER -> Typed(IF fits \/ e.en = "" THEN TEnumInstance(en, r.ts) ELSE TEnum(en),
                          TellIf(~fits, "variant arity", r.ti))

----------------------------------------------------------------------------
(* Statements.                                                             *)

RECURSIVE Performed(_, _, _)

PerformAll(ss, outer, ti) == FoldLeft(LAMBDA acc, s : Performed(s, outer, acc), ti, ss)
PerformIn(ss, outer, ti)  == PopScope(PerformAll(ss, outer, PushScope(ti)))
PerformElse(st, outer, ti) == IF st = NoStmt THEN ti ELSE Performed(st, outer, ti)

BoundNames(p) ==
  CASE p.k = "PVariable" -> {p.name}
    [] p.k = "PTuple" -> {p.params[i].name : i \in {j \in DOMAIN p.params : p.params[j].k = "PVariable"}}
    [] OTHER -> {}

\* A let inside a performant block.
PerformLet(st, outer, ti) ==
  LET names   == BoundNames(st.pattern)
      shadow  == names \cap outer
      lasting == names \ Temporaries
      local   == FoldSet(LAMBDA x, acc : Declare(x, acc), ti, names)
      risky   == st.init.k \in {"Array", "StructInit", "EnumInit", "Call"}
      told    == TellIf(shadow # {}, "outer assignment", local)
      wary    == TellIf(risky /\ lasting # {}, "composite", told)
      caught  == TellIf(Captures(st.init, VisibleVars(wary), outer) # {}, "capture", wary)
  IN  TellIf(lasting # {}, "may escape", caught)

Performed(st, outer, ti) ==
  CASE st.k = "Return"   -> Tell("return", ti)
    [] st.k = "Function" -> Tell("function", ti)
    [] st.k = "SpawnActor" -> Tell("spawn", ti)
    [] st.k = "ImplBlock" -> Tell("impl", ti)
    [] st.k = "Let"      -> PerformLet(st, outer, ti)
    [] st.k \in {"Block", "Performant"} -> PerformIn(st.body, outer, ti)
    [] st.k \in {"If", "IfLet"} ->
         PerformElse(st.else, outer, Performed(st.then, outer, ti))
    [] st.k = "TryCatch" -> Performed(st.catch, outer, Performed(st.try, outer, ti))
    [] st.k = "Match"    -> FoldLeft(LAMBDA acc, c : Performed(c.body, outer, acc), ti, st.cases)
    [] st.k = "While"    -> Performed(st.body, outer, ti)
    [] st.k = "For"      -> PerformIn(<<st.body>>, outer, ti)
    [] OTHER             -> ti

VisitAll(ss, ti) == FoldLeft(LAMBDA acc, s : Visit(s, acc), ti, ss)
VisitIn(st, ti)  == PopScope(Visit(st, PushScope(ti)))
VisitElse(st, ti) == IF st = NoStmt THEN ti ELSE Visit(st, ti)

\* What a return or a match holds is never looked at, and the body of a
\* function only where the function is called.
Visit(st, ti) ==
  CASE st.k = "Expression" -> Infer(st.e, ti).ti
    [] st.k = "Let"   -> LET r == Infer(st.init, ti) IN BindType(st.pattern, r.t, r.ti)
    [] st.k = "Block" -> PopScope(VisitAll(st.body, PushScope(ti)))
    [] st.k = "ImplBlock" -> VisitAll(st.methods, ti)
    [] st.k = "If"    -> VisitElse(st.else, Visit(st.then, Infer(st.cond, ti).ti))
    [] st.k = "IfLet" -> VisitElse(st.else, VisitIn(st.then, Infer(st.value, ti).ti))
    [] st.k = "TryCatch" ->
         LET scope == PushScope(Visit(st.try, ti))
         IN  PopScope(Visit(st.catch, Declare(st.name, SetVar(st.name, TString, scope))))
    [] st.k = "While" -> Visit(st.body, Infer(st.cond, ti).ti)
    [] st.k = "For"   ->
         PopScope(Visit(st.body, Declare(st.element, PushScope(Infer(st.iterator, ti).ti))))
    [] st.k = "Function" -> [ti EXCEPT !.funcs = With(@, st.name, st)]
    [] st.k = "EnumDecl" -> [ti EXCEPT !.enums = With(@, st.name, Arities(st.variants))]
    [] st.k = "Performant" -> PerformIn(st.body, VisibleVars(ti), ti)
    [] st.k = "SpawnActor" ->
         TellIf(\E i \in DOMAIN st.body : st.body[i].k = "Expression" /\
                  Captures(st.body[i].e, VisibleVars(ti), VisibleVars(ti)) # {}, "captured", ti)
    [] OTHER -> ti
=============================================================================
