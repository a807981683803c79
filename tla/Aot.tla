---------------------------------- MODULE Aot ----------------------------------
(***************************************************************************)
(* build-aot (run_aot in cli/src/main.rs): the functions of a program are  *)
(* collected, lowered one by one, emitted and compiled by one of the two   *)
(* back ends.  The evaluator, which runs the same program, says what its   *)
(* main returns.  The binaries kept under the hash of the emitted code are *)
(* left out: a hit copies what compiling the same code made.               *)
(***************************************************************************)
EXTENDS Evaluator, Lowering

Backends == {"c", "llvm"}
NotBuilt == [k |-> "none"]
Refused  == Stuck("not built")

VARIABLES
  prog,      \* the program
  todo,      \* the functions found and not lowered yet
  funcs,     \* the IR functions made
  ignored,   \* the names of the functions the user is warned about
  phase,     \* "start" while the program is typed, "collect", "lower", "built" or "failed"
  binary     \* what each back end's binary does when it is run

aotVars == <<todo, funcs, ignored, binary>>

RECURSIVE Collect(_)
\* collect_functions goes into the bodies of functions and into blocks.
Collect(st) ==
  CASE st.k = "Function" -> << st >> \o Collect(st.body)
    [] st.k = "Block"    -> FoldLeft(LAMBDA acc, s : acc \o Collect(s), <<>>, st.body)
    [] OTHER             -> <<>>

AotInit ==
  /\ todo = <<>> /\ funcs = <<>> /\ ignored = {}
  /\ phase = "start"
  /\ binary = [b \in Backends |-> NotBuilt]

CollectFunctions ==
  /\ phase = "collect"
  /\ todo' = Collect(Block(prog))
  /\ phase' = "lower"
  /\ UNCHANGED <<prog, funcs, ignored, binary>>

LowerNext ==
  /\ phase = "lower" /\ todo # <<>>
  /\ \E f \in {LowerStmtToIr(Head(todo))} :
         IF f = NoFn THEN ignored' = ignored \cup {Head(todo).name} /\ UNCHANGED funcs
         ELSE funcs' = Append(funcs, f) /\ UNCHANGED ignored
  /\ todo' = Tail(todo)
  /\ UNCHANGED <<prog, phase, binary>>

NothingToCompile ==
  /\ phase = "lower" /\ todo = <<>> /\ funcs = <<>>
  /\ phase' = "failed"
  /\ UNCHANGED <<prog, todo, funcs, ignored, binary>>

HasMain == \E i \in DOMAIN funcs : funcs[i].name = "main"

\* The wrapper that calls main is only emitted when there is one; without
\* it the program does not link.
Outcome(b) ==
  IF HasMain /\ Builds(b, funcs) THEN RunNative(b, funcs, "main", <<>>, Fuel) ELSE Refused

Compile(b) ==
  /\ phase \in {"lower", "built"} /\ todo = <<>> /\ funcs # <<>>
  /\ binary[b] = NotBuilt
  /\ binary' = [binary EXCEPT ![b] = Outcome(b)]
  /\ phase' = "built"
  /\ UNCHANGED <<prog, todo, funcs, ignored>>

AotNext ==
  \/ CollectFunctions \/ LowerNext \/ NothingToCompile
  \/ \E b \in Backends : Compile(b)

----------------------------------------------------------------------------
(* What the evaluator makes of a call of main.                             *)

Reference ==
  Evaluate(Call(Variable("main"), <<>>), RunProgram(prog, InitState).s)

\* A number or a truth value, reached without a diagnostic.
Clean(r) == r.err = "" /\ r.s.diags = <<>> /\ r.v.k \in {"Int", "Bool"}
AsNumber(v) == IF v.k = "Bool" THEN Bit(v.b) ELSE v.n
PrintsAs(r) == Clean(r) => binary["llvm"] = Done(AsNumber(r.v))

Fns == ToSet(Collect(Block(prog)))

----------------------------------------------------------------------------
(* The constructs the lowering gives another meaning.                      *)

RECURSIVE Rebinds(_, _), ReturnsAlways(_), MixesBooleans(_)

LetNames(ss, n) == {ss[i].pattern.name : i \in {j \in 1..n : ss[j].k = "Let"}}

\* A let in an inner block of a name that is bound outside it: the slot of
\* the name is the same for the whole function.
RebindsWithin(ss, outer) == \E i \in DOMAIN ss : Rebinds(ss[i], outer \cup LetNames(ss, i))

Rebinds(st, outer) ==
  CASE st.k = "Block" -> LetNames(st.body, Len(st.body)) \cap outer # {} \/ RebindsWithin(st.body, outer)
    [] st.k = "If"    -> Rebinds(st.then, outer) \/ (st.else # NoStmt /\ Rebinds(st.else, outer))
    [] st.k = "While" -> Rebinds(st.body, outer)
    [] OTHER          -> FALSE

\* A function that may end without a value gives none, and natively 0.
ReturnsAlways(st) ==
  CASE st.k = "Return" -> st.e # NoExpr
    [] st.k = "Block"  -> \E i \in DOMAIN st.body : ReturnsAlways(st.body[i])
    [] st.k = "If"     -> st.else # NoStmt /\ ReturnsAlways(st.then) /\ ReturnsAlways(st.else)
    [] st.k = "Match"  -> \A i \in DOMAIN st.cases : ReturnsAlways(st.cases[i].body)
    [] OTHER           -> FALSE

\* A comparison or a truth value as an operand.
IsTruth(e) == (e.k = "Binary" /\ e.op \in DOMAIN Comparison) \/ (e.k = "Literal" /\ e.v.k = "Bool")
MixesBooleans(e) ==
  e.k = "Binary" /\ (IsTruth(e.left) \/ IsTruth(e.right) \/ MixesBooleans(e.left) \/ MixesBooleans(e.right))

\* A match is only understood when its first pattern is a bare integer and
\* the other binds no name of the function's.
MatchMisread(fn) ==
  LET st == OnlyStmt(fn)
      p  == st.cases[1].pattern
      q  == st.cases[2].pattern
  IN  /\ st.k = "Match"
      /\ \/ p.k # "PLiteral" \/ st.cases[1].guard # NoExpr
         \/ p.v.k # "Int"
         \/ (q.k = "PVariable" /\ q.name \in ToSet(fn.params))

Differs(fn) ==
  \/ RebindsWithin(fn.body.body, ToSet(fn.params))
  \/ ~ReturnsAlways(fn.body)
  \/ MatchMisread(fn)
  \/ \E i \in DOMAIN fn.body.body : fn.body.body[i].k = "Return" /\ MixesBooleans(fn.body.body[i].e)

----------------------------------------------------------------------------
\* A program the LLVM back end builds prints what the evaluator returns from
\* main, when that is a number reached without a diagnostic and no function
\* has a construct the lowering misreads (lowering.rs, lower_fn.rs, ssa.rs).
LlvmAgrees ==
  binary["llvm"].k \notin {"none", "not built"} /\ (\A fn \in Fns : ~Differs(fn)) => PrintsAs(Reference)

\* The two back ends print the same (golden_llvm.rs and aot_llvm.md: the
\* LLVM binary mirrors the C one).
BackendsAgree ==
  binary["c"].k = "value" /\ binary["llvm"].k = "value" => binary["c"] = binary["llvm"]

\* The names an expression reads.
RECURSIVE Reads(_)
Reads(e) ==
  CASE e.k = "Variable" -> {e.name}
    [] e.k = "Binary"   -> Reads(e.left) \cup Reads(e.right)
    [] e.k = "Grouping" -> Reads(e.e)
    [] e.k = "Call"     -> UNION {Reads(e.args[i]) : i \in DOMAIN e.args}
    [] OTHER            -> {}

\* A function in a recognised shape that reads a name other than its
\* parameters is lowered all the same, as nothing asks.
ReadsFree(fn) ==
  LET st == UnwrapSingle(fn.body)
      reads(s) == LET r == UnwrapSingle(s) IN IF r.k = "Return" THEN Reads(r.e) ELSE {}
      names == CASE st.k = "Return" -> Reads(st.e)
                 [] st.k = "If"     -> Reads(st.cond) \cup reads(st.then) \cup reads(st.else)
                 [] st.k = "Match"  -> UNION {reads(st.cases[i].body) : i \in DOMAIN st.cases}
                 [] OTHER           -> {}
  IN  ~(names \subseteq ToSet(fn.params))

\* An arm of a match that returns what the pattern of the other arm binds.
BindingEscapes(fn) ==
  LET st == OnlyStmt(fn)
      p  == st.cases[1].pattern
      r  == UnwrapSingle(st.cases[2].body)
  IN  st.k = "Match" /\ p.k = "PEnum" /\ r.k = "Return" /\ r.e.k = "Variable"
      /\ PBinding(r.e.name) \in ToSet(p.params)

\* What makes a compiler refuse the code: a name that is not there, a call of
\* a function that was ignored or does not exist, two functions of one name;
\* in C a call with the wrong arguments; in LLVM a parameter called like a
\* temporary and a binding used where it was not made.
Refusable(b) ==
  \/ ~HasMain \/ ~Linked(funcs)
  \/ \E fn \in Fns : fn.name \notin ignored /\ ReadsFree(fn)
  \/ b = "c" /\ (~ArityOk(funcs) \/ \E fn \in Fns : fn.name = "main" /\ fn.params # <<>>)
  \/ b = "llvm" /\ \E fn \in Fns : BindingEscapes(fn) \/ ToSet(fn.params) \cap Range(TNames) # {}

\* Otherwise the code compiles: single assignment, dominance and complete
\* phis after the SSA passes (ssa.rs) and from the engine of slots
\* (lower_fn.rs), so that one function never spoils the others.
CodeCompiles ==
  \A b \in Backends : binary[b] = Refused => Refusable(b)

\* The textual IR of a function without slots and comparisons is read back
\* as the function; any other is given up, never misread (loader.rs), and
\* the analyzer counts on the text what the loader counts on the function.
TextReadBack ==
  \A i \in DOMAIN funcs :
    LET text  == EmitText(funcs[i])
        back  == ParseText(text)
        plain == \A j \in DOMAIN funcs[i].body :
                   funcs[i].body[j].op \notin {"alloca", "load", "store"} \cup Compares
    IN  /\ back # <<>> <=> plain
        /\ plain => /\ SelectSeq(back, LAMBDA ins : ins.op # "label" \/ ins.l # Entry) = funcs[i].body
                    /\ AnalyzeText(text) = Counts(back)
=============================================================================
