------------------------------- MODULE Syntax -------------------------------
(***************************************************************************)
(* The abstract syntax the parser builds and every later pass reads: the   *)
(* expressions, statements, patterns and values of crates/core/src/ast.rs  *)
(* and the types of crates/core/src/types.rs.  A node is a record whose    *)
(* field k names the variant; tokens are reduced to their lexemes.         *)
(***************************************************************************)
EXTENDS Integers, Sequences, TLC

\* f with x mapped to v.
With(f, x, v) == (x :> v) @@ f

----------------------------------------------------------------------------
(* Values.  A composite lives on the heap and is known by its handle.      *)
IntV(n)        == [k |-> "Int", n |-> n]
BoolV(b)       == [k |-> "Bool", b |-> b]
StringV(s)     == [k |-> "String", s |-> s]
NoneV          == [k |-> "None"]
TupleV(vs)     == [k |-> "Tuple", vs |-> vs]
ArrayV(vs)     == [k |-> "Array", vs |-> vs]
EnumV(en, variant, vs) == [k |-> "Enum", en |-> en, variant |-> variant, vs |-> vs]
HandleV(h)     == [k |-> "Handle", h |-> h]
FunctionV(fn, closure) == [k |-> "Function", fn |-> fn, closure |-> closure]
BuiltinV(b)    == [k |-> "Builtin", name |-> b]
CapabilityV(kind, id) == [k |-> "Capability", kind |-> kind, id |-> id]
MovedV         == [k |-> "Moved"]

----------------------------------------------------------------------------
(* Expressions.                                                            *)
Literal(v)             == [k |-> "Literal", v |-> v]
Num(n)                 == Literal(IntV(n))
Variable(x)            == [k |-> "Variable", name |-> x]
Grouping(e)            == [k |-> "Grouping", e |-> e]
Unary(op, e)           == [k |-> "Unary", op |-> op, right |-> e]
Binary(l, op, r)       == [k |-> "Binary", left |-> l, op |-> op, right |-> r]
Logical(l, op, r)      == [k |-> "Logical", left |-> l, op |-> op, right |-> r]
TypedCall(callee, targs, args) == [k |-> "Call", callee |-> callee, targs |-> targs, args |-> args]
Call(callee, args)     == TypedCall(callee, <<>>, args)
Array(es)              == [k |-> "Array", elements |-> es]
EnumInit(en, variant, es) == [k |-> "EnumInit", en |-> en, variant |-> variant, values |-> es]
FieldAccess(o, f)      == [k |-> "FieldAccess", object |-> o, field |-> f]
Try(e)                 == [k |-> "Try", e |-> e]
WeakUpgrade(e)         == [k |-> "WeakUpgrade", e |-> e]
UnownedAccess(e)       == [k |-> "UnownedAccess", e |-> e]
Weak(e)                == [k |-> "Weak", e |-> e]
Unowned(e)             == [k |-> "Unowned", e |-> e]
Tuple(es)              == [k |-> "Tuple", elements |-> es]
StructInit(name, fs)   == [k |-> "StructInit", name |-> name, fields |-> fs]
Cast(e, ty)            == [k |-> "Cast", e |-> e, target |-> ty]
SpawnExpr(body)        == [k |-> "SpawnExpr", body |-> body]
Template(nodes)        == [k |-> "Template", nodes |-> nodes]

\* The expressions an expression is made of.
Subexpressions(e) ==
  CASE e.k \in {"Grouping", "Cast", "Try", "Weak", "Unowned", "WeakUpgrade", "UnownedAccess"} -> <<e.e>>
    [] e.k = "Unary" -> <<e.right>>
    [] e.k \in {"Binary", "Logical"} -> <<e.left, e.right>>
    [] e.k = "Call" -> <<e.callee>> \o e.args
    [] e.k \in {"Array", "Tuple"} -> e.elements
    [] e.k = "EnumInit" -> e.values
    [] e.k = "StructInit" -> [i \in DOMAIN e.fields |-> e.fields[i][2]]
    [] e.k = "FieldAccess" -> <<e.object>>
    [] OTHER -> <<>>

----------------------------------------------------------------------------
(* Templates.  An attribute is its kind, its expression and its name.      *)
TText(w)               == [k |-> "TText", text |-> w]
TExpr(e)               == [k |-> "TExpr", e |-> e]
TElement(tag, as, ns)  == [k |-> "TElement", tag |-> tag, attrs |-> as, children |-> ns]
TComponent(n, as, ns)  == [k |-> "TComponent", name |-> n, attrs |-> as, children |-> ns]
TIf(c, t, e)           == [k |-> "TIf", cond |-> c, then |-> t, else |-> e]
TFor(x, e, key, ns)    == [k |-> "TFor", var |-> x, items |-> e, key |-> key, children |-> ns]
TSlot(n, ns)           == [k |-> "TSlot", name |-> n, children |-> ns]

----------------------------------------------------------------------------
(* Type annotations: a name and what stands between its brackets.  NoAnn   *)
(* where there is none.                                                    *)
Ann(name, args)        == [name |-> name, args |-> args]
Named(name)            == Ann(name, <<>>)
NoAnn                  == Named("")

----------------------------------------------------------------------------
(* Patterns.                                                               *)
PVariable(x)           == [k |-> "PVariable", name |-> x]
PBinding(x)            == [k |-> "PBinding", name |-> x]
PLiteral(v)            == [k |-> "PLiteral", v |-> v]
PWildcard              == [k |-> "PWildcard"]
PTuple(ps)             == [k |-> "PTuple", params |-> ps]
PEnum(en, variant, ps) == [k |-> "PEnum", en |-> en, variant |-> variant, params |-> ps]

----------------------------------------------------------------------------
(* Statements.  An absent else branch, guard or return value is NoStmt or  *)
(* NoExpr.                                                                 *)
NoExpr                 == [k |-> "NoExpr"]
NoStmt                 == [k |-> "NoStmt"]
Expression(e)          == [k |-> "Expression", e |-> e]
LetTyped(p, ty, e)     == [k |-> "Let", pattern |-> p, ty |-> ty, init |-> e]
Let(p, e)              == LetTyped(p, NoAnn, e)
LetVar(x, e)           == Let(PVariable(x), e)
Block(ss)              == [k |-> "Block", body |-> ss]
If(c, t, e)            == [k |-> "If", cond |-> c, then |-> t, else |-> e]
IfLet(p, v, t, e)      == [k |-> "IfLet", pattern |-> p, value |-> v, then |-> t, else |-> e]
Match(e, cs)           == [k |-> "Match", e |-> e, cases |-> cs]
Case(p, g, s)          == [pattern |-> p, guard |-> g, body |-> s]
TryCatch(t, x, c)      == [k |-> "TryCatch", try |-> t, name |-> x, catch |-> c]
\* Each type parameter is a pair of its name and its bound ("" if none).
TypedFunction(f, tps, ps, tys, ret, b) ==
  [k |-> "Function", name |-> f, tparams |-> tps, params |-> ps, types |-> tys, ret |-> ret,
   body |-> b, owner |-> ""]
Method(type, f)        == [f EXCEPT !.owner = type]
Function(f, ps, b)     == TypedFunction(f, <<>>, ps, [i \in DOMAIN ps |-> NoAnn], NoAnn, b)
Return(e)              == [k |-> "Return", e |-> e]
While(c, b)            == [k |-> "While", cond |-> c, body |-> b]
For(x, e, b)           == [k |-> "For", element |-> x, iterator |-> e, body |-> b]
Performant(ss)         == [k |-> "Performant", body |-> ss]
SpawnActor(ss)         == [k |-> "SpawnActor", body |-> ss]
\* Each variant is a pair of its name and the types of its payload.
EnumDecl(en, vs)       == [k |-> "EnumDecl", name |-> en, variants |-> vs]
Arities(vs) == [v \in {vs[i][1] : i \in DOMAIN vs} |-> Len(vs[CHOOSE i \in DOMAIN vs : vs[i][1] = v][2])]
StructDecl(n, fs)      == [k |-> "StructDecl", name |-> n, fields |-> fs]
ImplBlock(type, ms)    == [k |-> "ImplBlock", type |-> type, methods |-> ms]
Import(path)           == [k |-> "Import", path |-> path]
\* Inside a component: a state, prop, memo or ref.
Binding(q, x, ty, e)   == [k |-> "QualifiedBinding", qualifier |-> q, name |-> x, ty |-> ty, value |-> e]
Component(n, bs, ns)   == [k |-> "ComponentBlock", name |-> n, bindings |-> bs, view |-> ns]

----------------------------------------------------------------------------
(* Types.                                                                  *)
TInt == [k |-> "Int"]
TFloat == [k |-> "Float"]
TBool == [k |-> "Bool"]
TString == [k |-> "String"]
TNone == [k |-> "None"]
TUnknown == [k |-> "Unknown"]
TArray(t)                      == [k |-> "Array", of |-> t]
TTuple(ts)                     == [k |-> "Tuple", ts |-> ts]
TStruct(n)                     == [k |-> "Struct", name |-> n]
TCapability                    == [k |-> "Capability"]
TEnum(n)                       == [k |-> "Enum", name |-> n]
TEnumInstance(n, ts)           == [k |-> "EnumInstance", name |-> n, ts |-> ts]
TGeneric(n)                    == [k |-> "Generic", name |-> n]
TFunction(ps, r)               == [k |-> "Function", params |-> ps, ret |-> r]
=============================================================================
