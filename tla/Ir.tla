---------------------------------- MODULE Ir ----------------------------------
(***************************************************************************)
(* The intermediate representation of crates/ir (lib.rs) and what its two  *)
(* back ends make of it: the C program of c_emitter.rs and the LLVM module *)
(* of llvm_emitter.rs, each as the run of the code it emits.               *)
(*                                                                         *)
(* An operand is a literal, a parameter written as a bare name, a          *)
(* temporary %<prefix>_<i>, a temporary %t<i>, the phi %phi_<f>_<i> or the *)
(* slot %<x>.addr.  Labels drop the function's name they begin with.       *)
(***************************************************************************)
EXTENDS Integers, Sequences, FiniteSets, SequencesExt, Functions, TLC

CONSTANT Fuel   \* bound: instructions a native run is followed for

ASSUME IrAssumption == Fuel \in Nat

----------------------------------------------------------------------------
Lit(n)     == [k |-> "lit", n |-> n]
Param(x)   == [k |-> "param", x |-> x]
Tmp(p, i)  == [k |-> "tmp", prefix |-> p, i |-> i]
T(i)       == [k |-> "t", i |-> i]
PhiTmp(i)  == [k |-> "phi", i |-> i]
Slot(x)    == [k |-> "slot", x |-> x]

Arith    == {"add", "sub", "mul", "div"}
Compares == {"lt", "le", "gt", "ge", "eq", "ne"}

Const(d, n)       == [op |-> "const", d |-> d, args |-> << Lit(n) >>]
Op(op, d, a, b)   == [op |-> op, d |-> d, args |-> <<a, b>>]
CallI(d, f, args) == [op |-> "call", d |-> d, f |-> f, args |-> args]
Alloca(s)         == [op |-> "alloca", d |-> s, args |-> <<>>]
Load(d, s)        == [op |-> "load", d |-> d, args |-> <<s>>]
Store(s, v)       == [op |-> "store", args |-> <<s, v>>]
Label(l)          == [op |-> "label", l |-> l, args |-> <<>>]
Br(l)             == [op |-> "br", to |-> <<l>>, args |-> <<>>]
BrCond(p, t, f)   == [op |-> "br_cond", to |-> <<t, f>>, args |-> <<p>>]
Phi(d, pairs)     == [op |-> "phi", d |-> d, args |-> [i \in DOMAIN pairs |-> pairs[i][1]],
                      from |-> [i \in DOMAIN pairs |-> pairs[i][2]]]
Ret(v)            == [op |-> "ret", args |-> <<v>>]

Fn(name, params, body) == [name |-> name, params |-> params, body |-> body]

Defines(i)    == "d" \in DOMAIN i
Terminator(i) == i.op \in {"br", "br_cond", "ret"}
Targets(i)    == IF "to" \in DOMAIN i THEN i.to ELSE <<>>

----------------------------------------------------------------------------
(* Basic blocks: a body is cut in front of its labels; the block before    *)
(* the first label is the entry.                                           *)

Entry == <<"entry">>

\* The block each instruction is in, named by its label.
BlockOf(body) ==
  FoldLeft(LAMBDA acc, ins : Append(acc, IF ins.op = "label" THEN ins.l
                                         ELSE IF acc = <<>> THEN Entry ELSE Last(acc)),
           <<>>, body)

Edges(body) ==
  LET blk == BlockOf(body)
  IN  UNION {{<<blk[j], to>> : to \in ToSet(Targets(body[j]))} : j \in DOMAIN body}

\* The blocks reached from the entry without passing through c.
ReachedAvoiding(c, body) ==
  LET edges == Edges(body)
  IN  FoldLeft(LAMBDA acc, n : acc \cup {e[2] : e \in {x \in edges : x[1] \in acc /\ x[2] # c}},
               {BlockOf(body)[1]} \ {c}, BlockOf(body))

\* The blocks on every path from the entry to each, itself included.
Dominators(body) ==
  LET names == Range(BlockOf(body))
      apart == [c \in names |-> ReachedAvoiding(c, body)]
  IN  [b \in names |-> {b} \cup {c \in names : b \notin apart[c]}]

----------------------------------------------------------------------------
(* What the two compilers accept.                                          *)

\* A parameter is a bare name in the IR and %name in LLVM's text, where it
\* meets the temporaries %t<i>.
TNames == [i \in 0..9 |-> <<"t0", "t1", "t2", "t3", "t4", "t5", "t6", "t7", "t8", "t9">>[i + 1]]
InLlvm(o) == IF o.k = "t" /\ o.i \in DOMAIN TNames THEN Param(TNames[o.i]) ELSE o

DefsOf(f) == {f.body[j].d : j \in {i \in DOMAIN f.body : Defines(f.body[i])}}

\* Static single assignment, as clang checks it: a name is defined once, a
\* use is dominated by its definition, a phi has one entry for each
\* predecessor, a label is written once and blocks end in a terminator.
ValidLlvm(f) ==
  LET body  == f.body
      blk   == BlockOf(body)
      dom   == Dominators(body)
      defs  == {j \in DOMAIN body : Defines(body[j])}
      labels == {j \in DOMAIN body : body[j].op = "label"}
      known == {Param(x) : x \in ToSet(f.params)}
      name(j) == InLlvm(body[j].d)
      fixed(o) == o.k = "lit" \/ o \in known
      reaches(o, j) == \E i \in defs : /\ name(i) = o
                                       /\ IF blk[i] = blk[j] THEN i < j ELSE blk[i] \in dom[blk[j]]
      leaves(o, b) == \E i \in defs : name(i) = o /\ blk[i] \in dom[b]
  IN  /\ \A i, j \in defs : name(i) = name(j) => i = j
      /\ \A i \in defs : name(i) \notin known
      /\ \A i, j \in labels : body[i].l = body[j].l => i = j
      /\ \A j \in DOMAIN body : ToSet(Targets(body[j])) \subseteq Range(blk)
      /\ \A j \in DOMAIN body : Terminator(body[j]) = (j = Len(body) \/ j + 1 \in labels)
      /\ \A j \in DOMAIN body : \A i \in DOMAIN body[j].args :
           LET o == InLlvm(body[j].args[i])
           IN  fixed(o) \/ (IF body[j].op = "phi" THEN leaves(o, body[j].from[i]) ELSE reaches(o, j))
      /\ \A j \in DOMAIN body : body[j].op = "phi" =>
           /\ ToSet(body[j].from) = {e[1] : e \in {x \in Edges(body) : x[2] = blk[j]}}
           /\ Len(body[j].from) = Cardinality(ToSet(body[j].from))

\* C declares every name the function defines at its head: what is used must
\* be one of them or a parameter.
ValidC(f) ==
  \A j \in DOMAIN f.body : \A i \in DOMAIN f.body[j].args :
    LET o == f.body[j].args[i]
    IN  o.k = "lit" \/ o \in DefsOf(f) \cup {Param(x) : x \in ToSet(f.params)}

Callees(f) == {f.body[j].f : j \in {i \in DOMAIN f.body : f.body[i].op = "call"}}

\* One definition of each function, and one for every function called.
Linked(funcs) ==
  /\ \A i, j \in DOMAIN funcs : funcs[i].name = funcs[j].name => i = j
  /\ \A i \in DOMAIN funcs : Callees(funcs[i]) \subseteq {funcs[j].name : j \in DOMAIN funcs}

\* C also checks the arguments against the prototypes, the entry's included.
ArityOk(funcs) ==
  \A i, g \in DOMAIN funcs : \A j \in DOMAIN funcs[i].body :
    LET ins == funcs[i].body[j]
    IN  ins.op = "call" /\ ins.f = funcs[g].name => Len(ins.args) = Len(funcs[g].params)

Builds(backend, funcs) ==
  /\ Linked(funcs)
  /\ \A i \in DOMAIN funcs : IF backend = "c" THEN ValidC(funcs[i]) ELSE ValidLlvm(funcs[i])
  /\ backend = "c" => /\ ArityOk(funcs)
                      /\ \A i \in DOMAIN funcs : funcs[i].name = "main" => funcs[i].params = <<>>

----------------------------------------------------------------------------
(* Running the emitted code.  env gives the names their values, prev and   *)
(* cur the blocks before and in force.                                     *)

Truncated(a, b) ==
  LET abs(n) == IF n < 0 THEN -n ELSE n
      q      == abs(a) \div abs(b)
  IN  IF (a < 0) = (b < 0) THEN q ELSE -q

Bit(p) == IF p THEN 1 ELSE 0

Compute(op, a, b) ==
  CASE op = "add" -> a + b
    [] op = "sub" -> a - b
    [] op = "mul" -> a * b
    [] op = "div" -> Truncated(a, b)
    [] op = "lt"  -> Bit(a < b)
    [] op = "le"  -> Bit(a <= b)
    [] op = "gt"  -> Bit(a > b)
    [] op = "ge"  -> Bit(a >= b)
    [] op = "eq"  -> Bit(a = b)
    [] op = "ne"  -> Bit(a # b)

Value(o, env) == IF o.k = "lit" THEN o.n ELSE env[o]
Set(env, o, n) == (o :> n) @@ env

Position(body, l) == CHOOSE j \in DOMAIN body : body[j].op = "label" /\ body[j].l = l

\* LLVM takes the operand of the block the edge came from.
LlvmPhi(ins, env, prev) ==
  LET i == CHOOSE k \in DOMAIN ins.from : ins.from[k] = prev IN Set(env, ins.d, Value(ins.args[i], env))

\* C compares _prev_block, and leaves the local alone when no block matches.
CPhi(ins, env, prev) ==
  IF prev \in ToSet(ins.from) THEN LlvmPhi(ins, env, prev) ELSE env

\* A goto jumps behind the statements that move _prev_block and _curr_block,
\* which come before the label: only falling into it runs them.
CEdge(l, prev, cur)    == [prev |-> prev, cur |-> cur]
LlvmEdge(l, prev, cur) == [prev |-> cur, cur |-> l]

Done(n)    == [k |-> "value", n |-> n]
Stuck(why) == [k |-> why]

RECURSIVE RunFrom(_, _, _, _, _, _, _, _), RunNative(_, _, _, _, _)

\* Runs funcs[g] from the instruction at pc; a div by zero stops the C
\* program and is undefined in LLVM's.
RunFrom(backend, funcs, g, pc, env, prev, cur, fuel) ==
  LET ins   == funcs[g].body[pc]
      val(i) == Value(ins.args[i], env)
      go(e) == RunFrom(backend, funcs, g, pc + 1, e, prev, cur, fuel - 1)
      jump(l) == LET edge == IF backend = "c" THEN CEdge(l, prev, cur) ELSE LlvmEdge(l, prev, cur)
                 IN  RunFrom(backend, funcs, g, Position(funcs[g].body, l) + 1, env,
                             edge.prev, edge.cur, fuel - 1)
  IN  IF fuel = 0 THEN Stuck("running")
      ELSE CASE ins.op = "const"  -> go(Set(env, ins.d, val(1)))
             [] ins.op \in Arith \cup Compares ->
                  IF ins.op = "div" /\ val(2) = 0 THEN Stuck("division by zero")
                  ELSE go(Set(env, ins.d, Compute(ins.op, val(1), val(2))))
             [] ins.op = "call"   ->
                  LET r == RunNative(backend, funcs, ins.f, [i \in DOMAIN ins.args |-> val(i)],
                                     fuel - 1)
                  IN  IF r.k = "value" THEN go(Set(env, ins.d, r.n)) ELSE r
             [] ins.op = "alloca" -> go(Set(env, ins.d, 0))
             [] ins.op = "load"   -> go(Set(env, ins.d, val(1)))
             [] ins.op = "store"  -> go(Set(env, ins.args[1], val(2)))
             [] ins.op = "label"  -> RunFrom(backend, funcs, g, pc + 1, env, cur, ins.l, fuel - 1)
             [] ins.op = "br"     -> jump(ins.to[1])
             [] ins.op = "br_cond" -> jump(ins.to[IF val(1) # 0 THEN 1 ELSE 2])
             [] ins.op = "phi"    ->
                  go(IF backend = "c" THEN CPhi(ins, env, prev) ELSE LlvmPhi(ins, env, prev))
             [] ins.op = "ret"    -> Done(val(1))

\* A call: C zeroes the locals first.
RunNative(backend, funcs, f, args, fuel) ==
  LET g    == CHOOSE i \in DOMAIN funcs : funcs[i].name = f
      ps   == funcs[g].params
      zero == [d \in DefsOf(funcs[g]) |-> 0]
      given == [p \in {Param(x) : x \in ToSet(ps)} |->
                  args[CHOOSE i \in DOMAIN ps : Param(ps[i]) = p]]
  IN  IF fuel = 0 THEN Stuck("running")
      ELSE IF Len(ps) # Len(args) THEN Stuck("wrong arity")
      ELSE RunFrom(backend, funcs, g, 1, given @@ zero, <<>>, Entry, fuel)

----------------------------------------------------------------------------
(* The textual IR (emit_text) and the reader of it (loader.rs).  A text    *)
(* has a line for each instruction; only an entry label is ever added.     *)

EmitText(f) ==
  IF \E j \in DOMAIN f.body : f.body[j].op = "label" THEN f.body
  ELSE << Label(Entry) >> \o f.body

\* The lines the reader knows; another assignment makes it give the file up,
\* and a line that is no assignment (a store) is passed over.
Readable(i)   == i.op \in {"const", "phi", "call", "label", "br", "br_cond", "ret"} \cup Arith
\* Mutant: what is not known is passed over.
ParseLeniently(ls) == SelectSeq(ls, Readable)

ParseText(ls) ==
  IF \E j \in DOMAIN ls : Defines(ls[j]) /\ ~Readable(ls[j]) THEN <<>>
  ELSE SelectSeq(ls, Readable)

Counts(body) ==
  LET labels == Cardinality({j \in DOMAIN body : body[j].op = "label"})
  IN  [blocks |-> IF labels = 0 /\ body # <<>> THEN 1 ELSE labels,
       instrs |-> Len(body) - labels,
       calls  |-> Cardinality({j \in DOMAIN body : body[j].op = "call"})]

\* analyze_ir_text counts the same over the lines, without reading them.
AnalyzeText(ls) ==
  LET labels == Cardinality({j \in DOMAIN ls : ls[j].op = "label"})
  IN  [blocks |-> labels, instrs |-> Len(ls) - labels,
       calls  |-> Cardinality({j \in DOMAIN ls : ls[j].op = "call"})]
=============================================================================
