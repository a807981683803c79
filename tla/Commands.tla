-------------------------------- MODULE Commands --------------------------------
(***************************************************************************)
(* The commands of cli/src/main.rs on one program: art run types it and    *)
(* evaluates it, art build-aot types it like art run and hands it to Aot,  *)
(* art build --target js runs the other typing pass.  Type inference goes  *)
(* through the program one statement at a time.                            *)
(***************************************************************************)
EXTENDS Aot, TypeInfer, TypeChecker

CONSTANT Requests   \* a sequence of pairs: a command and the programs it is given

VARIABLES
  cmd,     \* the command
  typed,   \* how many statements type inference has visited
  ti,      \* type inference
  tc,      \* the type checker
  out      \* what the program came to when so many statements were run

vars == <<prog, cmd, typed, ti, tc, out, phase, aotVars>>

NotRun == [i \in {0} |-> Ok(NoneV, InitState)]

Init ==
  /\ \E i \in DOMAIN Requests : cmd = Requests[i][1] /\ prog \in Requests[i][2]
  /\ AotInit
  /\ typed = 0
  /\ ti = TypeInferInit /\ tc = CheckerInit
  /\ out = NotRun

InferNext ==
  /\ phase = "start" /\ cmd # "build" /\ typed < Len(prog)
  /\ ti' = Visit(prog[typed + 1], ti)
  /\ typed' = typed + 1
  /\ UNCHANGED <<prog, cmd, tc, out, phase, aotVars>>

\* Anything type inference reports ends the command.
InferDone ==
  /\ phase = "start" /\ cmd # "build" /\ typed = Len(prog)
  /\ phase' = IF ti.diags # <<>> THEN "refused" ELSE IF cmd = "run" THEN "run" ELSE "collect"
  /\ UNCHANGED <<prog, cmd, typed, ti, tc, out, aotVars>>

Interpret ==
  /\ phase = "run"
  /\ out' = RunSteps(prog, InitState)
  /\ phase' = "done"
  /\ UNCHANGED <<prog, cmd, typed, ti, tc, aotVars>>

CheckTypes ==
  /\ phase = "start" /\ cmd = "build"
  /\ tc' = CheckProgram(prog)
  /\ phase' = IF tc'.diags # <<>> THEN "refused" ELSE "done"
  /\ UNCHANGED <<prog, cmd, typed, ti, out, aotVars>>

BuildAot == AotNext /\ UNCHANGED <<cmd, typed, ti, tc, out>>

Next == InferNext \/ InferDone \/ Interpret \/ CheckTypes \/ BuildAot

Spec == Init /\ [][Next]_vars

----------------------------------------------------------------------------
(* What typing promises.                                                   *)

\* Leaving a scope puts back the type of every name it bound: a statement
\* that is not a let leaves the types as they were (type_infer.rs:47 "so we
\* can restore previous types when a scope is popped").
NestingKeepsTypes ==
  [][typed' # typed /\ prog[typed'].k # "Let" => ti'.vars = ti.vars /\ Len(ti'.scopes) = 1]_vars

\* No statement is cut short by an error, which interpret drops.
Completed == \A i \in DOMAIN out : out[i].err = ""

\* The state the program ends in.
Final == out[Len(prog)].s

\* An expression all of whose names type inference looks at, and to which it
\* gives the type of a capability when its value is one: not and and or,
\* which are truth values to it, nor a cast, nor more of an array than its
\* first element, nor what capability_acquire and capability_kind are called
\* with, nor one of them under another name.
RECURSIVE Followed(_)
Followed(e) ==
  LET subs == Subexpressions(e)
  IN  CASE e.k = "Variable" -> e.name \notin Builtins
        [] e.k = "Call"     ->
             /\ e.callee.k = "Variable"
             /\ e.callee.name \in Builtins \ {"println"} => VarsIn(e) = {e.callee.name}
             /\ \A i \in DOMAIN e.args : Followed(e.args[i])
        [] OTHER ->
             /\ e.k \in {"Literal", "Grouping", "Unary", "Binary", "Tuple", "Array", "EnumInit", "FieldAccess", "Try"}
             /\ e.k = "Array" => Len(e.elements) <= 1
             /\ \A i \in DOMAIN subs : Followed(subs[i])

Straight(st) ==
  CASE st.k = "Expression" -> Followed(st.e)
    [] st.k = "Let"        -> Followed(st.init)
    [] OTHER               -> st.k = "EnumDecl"

\* A capability is never used after it has moved in an accepted program of
\* lets and expressions that type inference follows (what happens in a nested
\* scope is forgotten when the scope is left), none of which fails: a let
\* that fails leaves a moved name moved, which type inference does not see.
MovesCaught ==
  cmd = "run" /\ phase = "done" /\ (\A i \in DOMAIN prog : Straight(prog[i])) /\ Completed
    => "moved" \notin Range(Final.diags)

RECURSIVE Describes(_, _, _)
\* t says what v is; none has every type, as an operator that does not know
\* its operands gives none without a word.
Describes(t, v, s) ==
  LET w == Resolve(v, s)
      parts(ts) == Len(w.vs) = Len(ts) /\ \A i \in DOMAIN ts : Describes(ts[i], w.vs[i], s)
  IN  CASE t.k = "Unknown" \/ w = NoneV -> TRUE
        [] t.k = "Capability"   -> w.k \in {"Capability", "Moved"}
        [] t.k = "Array"        -> w.k = "Array" /\ (w.vs = <<>> \/ Describes(t.of, w.vs[1], s))
        [] t.k = "Tuple"        -> w.k = "Tuple" /\ parts(t.ts)
        [] t.k = "Enum"         -> w.k = "Enum" /\ w.en = t.name
        [] t.k = "EnumInstance" -> w.k = "Enum" /\ w.en = t.name /\ parts(t.ts)
        [] OTHER                -> w.k = t.k

\* An expression whose type the pass gets wrong by itself: ! has the type of
\* its operand, and and or are truth values though they give an operand back,
\* a field has the type of the object.
RECURSIVE Misread(_)
Misread(e) ==
  LET subs == Subexpressions(e)
  IN  \/ e.k \in {"Logical", "FieldAccess", "WeakUpgrade", "Cast", "StructInit"}
      \/ e.k = "Unary" /\ e.op = "!"
      \/ \E i \in DOMAIN subs : Misread(subs[i])

\* For each tuple of the pattern the type is a tuple of as many: otherwise the
\* names of the pattern keep the types they had.
RECURSIVE TakesApart(_, _)
TakesApart(p, t) ==
  p.k = "PTuple" => /\ t.k = "Tuple" /\ Len(t.ts) = Len(p.params)
                    /\ \A i \in DOMAIN p.params : TakesApart(p.params[i], t.ts[i])

Lets == {i \in DOMAIN prog : prog[i].k = "Let"}

\* Type inference before statement i.
Before(i) == VisitAll(SubSeq(prog, 1, i - 1), TypeInferInit)

Understood(i) ==
  ~Misread(prog[i].init) /\ TakesApart(prog[i].pattern, Infer(prog[i].init, Before(i)).t)

\* Names of two things: a function leaves the type of a variable of its name,
\* and the type of a call of a builtin is found from its name alone.
Overloaded ==
  (DOMAIN ti.vars \cap DOMAIN ti.funcs) \cup (Builtins \cap (DOMAIN ti.vars \cup DOMAIN ti.funcs))

\* Type inference has seen the enums that there are, not those of a branch
\* that was not taken, and missed none in a branch it does not look at.
SameEnums == \A i \in DOMAIN out : DOMAIN Before(i + 1).enums = DOMAIN out[i].s.enums

\* After an accepted program that runs to its end without a diagnostic or an
\* error, the type found for a name is that of its value.
TypesSound ==
  cmd = "run" /\ phase = "done" /\ Final.diags = <<>> /\ Completed
    /\ Overloaded = {} /\ SameEnums /\ (\A i \in Lets : Understood(i))
  => \A x \in DOMAIN ti.vars \cap DOMAIN Final.env[1].vals :
       Describes(ti.vars[x], Final.env[1].vals[x], Final)

\* One pass calls it the enum with the types of its values, the other the
\* enum, or even the variant, when the enum is not named.
RECURSIVE MakesEnum(_)
MakesEnum(e) ==
  LET subs == Subexpressions(e) IN e.k = "EnumInit" \/ \E i \in DOMAIN subs : MakesEnum(subs[i])

\* A name both passes give a type has a type both allow, however differently
\* they find it (typeck/src/lib.rs:12): art run and art build --target js do
\* not take one expression for two things.
PassesAgree ==
  cmd = "build" /\ phase = "done" =>
    LET other == VisitAll(prog, TypeInferInit)
    IN  other.diags = <<>> /\ (\A i \in Lets : ~Misread(prog[i].init) /\ ~MakesEnum(prog[i].init) /\ prog[i].ty = NoAnn)
        => \A x \in DOMAIN tc.scopes[1] \cap DOMAIN other.vars :
             Fits(tc.scopes[1][x], other.vars[x]) \/ Fits(other.vars[x], tc.scopes[1][x])
=============================================================================
