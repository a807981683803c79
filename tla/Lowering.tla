------------------------------- MODULE Lowering -------------------------------
(***************************************************************************)
(* The lowering of a function to the IR: the three shapes lowering.rs      *)
(* recognises (a single return, a single if, a single match of two cases), *)
(* the SSA passes of ssa.rs that follow two of them, and the general       *)
(* engine of lower_fn.rs.  NoFn stands for a function that is refused.     *)
(***************************************************************************)
EXTENDS Syntax, Ir

NoFn == Fn("", <<>>, <<>>)

Opcode == [o \in {"+", "-", "*", "/"} |->
            CASE o = "+" -> "add" [] o = "-" -> "sub" [] o = "*" -> "mul" [] o = "/" -> "div"]

RECURSIVE UnwrapSingle(_)
UnwrapSingle(st) == IF st.k = "Block" /\ Len(st.body) = 1 THEN UnwrapSingle(st.body[1]) ELSE st

\* The only statement of the function's body, if it is a block of one.
OnlyStmt(fn) == IF fn.body.k = "Block" /\ Len(fn.body.body) = 1 THEN fn.body.body[1] ELSE NoStmt

----------------------------------------------------------------------------
(* lower_plain: return x op y, possibly in parentheses, or return f(x, y), *)
(* of names and integers.  Whether a name is a parameter is not asked.     *)

IsAtom(e) == e.k = "Variable" \/ (e.k = "Literal" /\ e.v.k = "Int")
Atom(e)   == IF e.k = "Variable" THEN Param(e.name) ELSE Lit(e.v.n)

PlainReturn(fn) ==
  LET st == IF fn.body.k = "Return" THEN fn.body ELSE OnlyStmt(fn)
      e  == IF st.k = "Return" THEN st.e ELSE NoExpr
  IN  IF e.k = "Grouping" THEN (IF e.e.k = "Binary" THEN e.e ELSE NoExpr) ELSE e

LowerPlain(fn) ==
  LET e    == PlainReturn(fn)
      dest == Tmp(fn.name, 0)
  IN  CASE e.k = "Binary" /\ e.op \in DOMAIN Opcode /\ IsAtom(e.left) /\ IsAtom(e.right) ->
             Fn(fn.name, fn.params,
                << Op(Opcode[e.op], dest, Atom(e.left), Atom(e.right)), Ret(dest) >>)
        [] e.k = "Call" /\ e.callee.k = "Variable" /\ \A i \in DOMAIN e.args : IsAtom(e.args[i]) ->
             Fn(fn.name, fn.params,
                << CallI(dest, e.callee.name, [i \in DOMAIN e.args |-> Atom(e.args[i])]), Ret(dest) >>)
        [] OTHER -> NoFn

----------------------------------------------------------------------------
(* An arm of an if or of a match that returns at once: the operand it      *)
(* returns and the instructions that make it, or nothing.                  *)

NoArm == [ok |-> FALSE, v |-> Lit(0), body |-> <<>>, used |-> 0]
Arm(v, body) == [ok |-> TRUE, v |-> v, body |-> body, used |-> Len(body)]

IsVarOp(e) == e.k = "Binary" /\ e.op \in DOMAIN Opcode
              /\ e.left.k = "Variable" /\ e.right.k = "Variable"

\* n is the next temporary; an arm takes at most one.
LowerArm(st, fname, n) ==
  LET e == IF st.k = "Return" THEN st.e ELSE NoExpr
      t == Tmp(fname, n)
  IN  CASE e.k = "Literal" /\ e.v.k = "Int" -> Arm(t, << Const(t, e.v.n) >>)
        [] IsVarOp(e) -> Arm(t, << Op(Opcode[e.op], t, Atom(e.left), Atom(e.right)) >>)
        [] OTHER -> NoArm

\* Two arms that meet in a phi.
Diamond(head, thenL, pre, a, elseL, b, dest) ==
  head \o << Label(thenL) >> \o pre \o a.body \o << Br(<<"merge">>) >>
       \o << Label(elseL) >> \o b.body \o << Br(<<"merge">>) >>
       \o << Label(<<"merge">>), Phi(dest, << <<a.v, thenL>>, <<b.v, elseL>> >>), Ret(dest) >>

----------------------------------------------------------------------------
(* lower_if_function: if c { return } else { return }.                     *)

LowerIf(fn) ==
  LET st   == OnlyStmt(fn)
      lit  == st.k = "If" /\ st.cond.k = "Literal" /\ st.cond.v.k = "Bool"
      var  == st.k = "If" /\ st.cond.k = "Variable"
      n    == IF lit THEN 1 ELSE 0
      cond == IF lit THEN Tmp(fn.name, 0) ELSE Param(st.cond.name)
      pre  == IF lit THEN << Const(cond, IF st.cond.v.b THEN 1 ELSE 0) >> ELSE <<>>
      a    == LowerArm(UnwrapSingle(st.then), fn.name, n)
      b    == LowerArm(UnwrapSingle(st.else), fn.name, n + 1)
  IN  IF ~(lit \/ var) \/ ~a.ok \/ ~b.ok THEN NoFn
      ELSE Fn(fn.name, fn.params,
              Diamond(pre \o << BrCond(cond, <<"then">>, <<"else">>) >>, <<"then">>, <<>>, a,
                      <<"else">>, b, Tmp(fn.name, n + 2)))

----------------------------------------------------------------------------
(* lower_match_function: match x of two cases.  The test is of the first   *)
(* pattern alone: equality with an integer, the truth of x for any other.  *)
(* Guards are not looked at, and what an enum pattern binds is 0.          *)

MatchBindings(fn, p) ==
  LET bound == IF p.k = "PEnum" THEN SelectSeq(p.params, LAMBDA q : q.k = "PBinding") ELSE <<>>
  IN  [i \in DOMAIN bound |-> [name |-> bound[i].name, tmp |-> Tmp(bound[i].name, i - 1)]]

LowerMatchArm(st, fname, n, binds) ==
  LET e == IF st.k = "Return" THEN st.e ELSE NoExpr
      of == {i \in DOMAIN binds : binds[i].name = e.name}
      last == CHOOSE i \in of : \A j \in of : j <= i
  IN  IF e.k = "Variable" THEN Arm(IF of = {} THEN Param(e.name) ELSE binds[last].tmp, <<>>)
      ELSE LowerArm(st, fname, n)

LowerMatch(fn) ==
  LET st    == OnlyStmt(fn)
      shape == st.k = "Match" /\ Len(st.cases) = 2 /\ st.e.k = "Variable"
      p     == st.cases[1].pattern
      x     == Param(st.e.name)
      binds == MatchBindings(fn, p)
      a     == LowerMatchArm(st.cases[1].body, fn.name, Len(binds), binds)
      b     == LowerMatchArm(st.cases[2].body, fn.name, Len(binds) + a.used, binds)
      n     == Len(binds) + a.used + b.used
      isInt == p.k = "PLiteral" /\ p.v.k = "Int"
      test  == IF isInt THEN << Op("sub", Tmp(fn.name, n), x, Lit(p.v.n)),
                                BrCond(Tmp(fn.name, n), <<"case1">>, <<"case0">>) >>
               ELSE << BrCond(x, <<"case0">>, <<"case1">>) >>
      zeros == [i \in DOMAIN binds |-> Const(binds[i].tmp, 0)]
  IN  IF ~shape THEN NoFn ELSE IF ~a.ok \/ ~b.ok THEN NoFn
      ELSE Fn(fn.name, fn.params,
              Diamond(test, <<"case0">>, zeros, a, <<"case1">>, b,
                      Tmp(fn.name, n + (IF isInt THEN 1 ELSE 0))))

----------------------------------------------------------------------------
(* ssa.rs.  Both passes know only the temporaries named after the function *)
(* and only some of the instructions.                                      *)

IsCandidate(o, fname) == o.k = "tmp" /\ o.prefix = fname

\* The definitions the passes see: neither comparisons nor loads.
Seen == {"const", "call", "phi"} \cup Arith

\* The instructions insert_phi_nodes rewrites the operands of.
Rewritten == {"call", "br_cond"} \cup Arith

LastDef(body, b, fname) ==
  LET blk  == BlockOf(body)
      defs == {j \in DOMAIN body : blk[j] = b /\ body[j].op \in Seen /\ IsCandidate(body[j].d, fname)}
  IN  IF defs = {} THEN {} ELSE {body[CHOOSE j \in defs : \A i \in defs : i <= j].d}

\* The predecessors of b in the order of their blocks, an edge at a time.
PredsInOrder(body, b) ==
  LET blk == BlockOf(body)
      of(j) == SelectSeq(Targets(body[j]), LAMBDA to : to = b)
  IN  FoldLeft(LAMBDA acc, j : acc \o [i \in DOMAIN of(j) |-> blk[j]], <<>>,
               [j \in DOMAIN body |-> j])

\* One block: a phi of the last definitions of its predecessors, when they
\* differ, and the uses of these in the block turned to it.  i is the
\* block's position.
InsertPhiAt(body, b, i, fname) ==
  LET blk      == BlockOf(body)
      preds    == PredsInOrder(body, b)
      having   == SelectSeq(preds, LAMBDA p : LastDef(body, p, fname) # {})
      incoming == [q \in DOMAIN having |-> <<CHOOSE d \in LastDef(body, having[q], fname) : TRUE,
                                             having[q]>>]
      values   == {incoming[q][1] : q \in DOMAIN incoming}
      dest     == PhiTmp(i)
      turn(o)  == IF IsCandidate(o, fname) /\ o \in values THEN dest ELSE o
      new      == [j \in DOMAIN body |->
                     IF blk[j] = b /\ body[j].op \in Rewritten
                     THEN [body[j] EXCEPT !.args = [k \in DOMAIN @ |-> turn(@[k])]] ELSE body[j]]
      at       == CHOOSE j \in DOMAIN body : blk[j] = b /\ \A k \in DOMAIN body : blk[k] = b => j <= k
  IN  IF Len(preds) <= 1 \/ Cardinality(values) <= 1 THEN body
      ELSE SubSeq(new, 1, at) \o << Phi(dest, incoming) >> \o SubSeq(new, at + 1, Len(new))

InsertPhiNodes(f) ==
  LET labels == SelectSeq(f.body, LAMBDA ins : ins.op = "label")
  IN  [f EXCEPT !.body = FoldLeft(LAMBDA body, i : InsertPhiAt(body, labels[i].l, i, f.name),
                                  @, [i \in DOMAIN labels |-> i])]

RenameTemps(f) ==
  LET defs   == SelectSeq(f.body, LAMBDA ins : ins.op \in Seen /\ IsCandidate(ins.d, f.name))
      order  == FoldLeft(LAMBDA acc, ins : IF ins.d \in Range(acc) THEN acc ELSE Append(acc, ins.d),
                         <<>>, defs)
      new(o) == IF o \in Range(order) THEN T((CHOOSE i \in DOMAIN order : order[i] = o) - 1) ELSE o
      rename(ins) == IF Defines(ins) /\ ins.op # "alloca"
                     THEN [ins EXCEPT !.d = new(@), !.args = [k \in DOMAIN @ |-> new(@[k])]]
                     ELSE [ins EXCEPT !.args = [k \in DOMAIN @ |-> new(@[k])]]
  IN  [f EXCEPT !.body = [j \in DOMAIN @ |-> rename(@[j])]]

----------------------------------------------------------------------------
(* lower_fn.rs: the general engine.  Its state w has the slots given to    *)
(* names, the body, the counters, whether the block is terminated and      *)
(* whether all was understood; w.v is the operand of the last expression.  *)

NewLowerer == [slots |-> <<>>, body |-> <<>>, tmp |-> 0, lbl |-> 0, terminated |-> FALSE,
               ok |-> TRUE, v |-> Lit(0)]

Push(w, ins)   == [w EXCEPT !.body = Append(@, ins)]
Result(w, ins) == [Push(w, ins) EXCEPT !.tmp = @ + 1, !.v = ins.d]
Unsupported(w) == [w EXCEPT !.ok = FALSE]
SlotFor(w, x)  == IF x \in ToSet(w.slots) THEN w ELSE [w EXCEPT !.slots = Append(@, x)]
StoreTo(w, x, v) == Push(SlotFor(w, x), Store(Slot(x), v))
\* Mutant: the branch to the merge block follows a return.
BrToAlways(w, l) == Push(w, Br(l))

BrTo(w, l)     == IF w.terminated THEN w ELSE Push(w, Br(l))
StartBlock(w, l) == [Push(w, Label(l)) EXCEPT !.terminated = FALSE]
\* Mutant: the targets are swapped.
BranchSwapped(w, c, t, f) == [Push(w, BrCond(c, f, t)) EXCEPT !.terminated = TRUE]

Branch(w, c, t, f) == [Push(w, BrCond(c, t, f)) EXCEPT !.terminated = TRUE]

Comparison == [o \in {"<", "<=", ">", ">=", "==", "!="} |->
                CASE o = "<" -> "lt" [] o = "<=" -> "le" [] o = ">" -> "gt" [] o = ">=" -> "ge"
                  [] o = "==" -> "eq" [] o = "!=" -> "ne"]

BinaryOpcode(o) == IF o \in DOMAIN Opcode THEN Opcode[o] ELSE Comparison[o]

RECURSIVE LowerExpr(_, _), LowerArgs(_, _, _), LowerStmt(_, _), LowerAll(_, _)

LowerArgs(es, vs, w) ==
  IF es = <<>> THEN [w |-> w, vs |-> vs]
  ELSE LET u == LowerExpr(Head(es), w) IN LowerArgs(Tail(es), Append(vs, u.v), u)

LowerExpr(e, w) ==
  CASE e.k = "Literal" /\ e.v.k = "Int"  -> [w EXCEPT !.v = Lit(e.v.n)]
    [] e.k = "Literal" /\ e.v.k = "Bool" -> [w EXCEPT !.v = Lit(IF e.v.b THEN 1 ELSE 0)]
    [] e.k = "Variable" /\ e.name \in ToSet(w.slots) -> Result(w, Load(T(w.tmp), Slot(e.name)))
    [] e.k = "Grouping" -> LowerExpr(e.e, w)
    [] e.k = "Unary" /\ e.op = "-" ->
         LET u == LowerExpr(e.right, w) IN Result(u, Op("sub", T(u.tmp), Lit(0), u.v))
    [] e.k = "Binary" /\ e.op \in DOMAIN Opcode \cup DOMAIN Comparison ->
         LET l == LowerExpr(e.left, w)
             r == LowerExpr(e.right, l)
         IN  Result(r, Op(BinaryOpcode(e.op), T(r.tmp), l.v, r.v))
    [] e.k = "Call" /\ e.callee.k = "Variable" ->
         LET a == LowerArgs(e.args, <<>>, w) IN Result(a.w, CallI(T(a.w.tmp), e.callee.name, a.vs))
    [] OTHER -> Unsupported(w)

LowerAll(ss, w) == IF ss = <<>> THEN w ELSE LowerAll(Tail(ss), LowerStmt(Head(ss), w))

LowerIfStmt(st, w) ==
  LET c     == LowerExpr(st.cond, w)
      both  == st.else # NoStmt
      thenL == <<"then", c.lbl>>
      merge == <<"merge", c.lbl + 1>>
      elseL == IF both THEN <<"else", c.lbl + 2>> ELSE merge
      b     == Branch([c EXCEPT !.lbl = @ + (IF both THEN 3 ELSE 2)], c.v, thenL, elseL)
      t     == BrTo(LowerStmt(st.then, StartBlock(b, thenL)), merge)
      e     == IF both THEN BrTo(LowerStmt(st.else, StartBlock(t, elseL)), merge) ELSE t
  IN  StartBlock(e, merge)

LowerWhile(st, w) ==
  LET head == <<"while_head", w.lbl>>
      body == <<"while_body", w.lbl + 1>>
      exit == <<"while_exit", w.lbl + 2>>
      c    == LowerExpr(st.cond, StartBlock(BrTo([w EXCEPT !.lbl = @ + 3], head), head))
      b    == LowerStmt(st.body, StartBlock(Branch(c, c.v, body, exit), body))
  IN  StartBlock(BrTo(b, head), exit)

LowerStmt(st, w) ==
  IF w.terminated THEN w
  ELSE CASE st.k = "Block" -> LowerAll(st.body, w)
         [] st.k = "Let" /\ st.pattern.k \in {"PVariable", "PBinding"} ->
              LET u == LowerExpr(st.init, w) IN StoreTo(u, st.pattern.name, u.v)
         [] st.k = "Expression" -> LowerExpr(st.e, w)
         [] st.k = "Return" ->
              LET u == IF st.e = NoExpr THEN [w EXCEPT !.v = Lit(0)] ELSE LowerExpr(st.e, w)
              IN  [Push(u, Ret(u.v)) EXCEPT !.terminated = TRUE]
         [] st.k = "If"    -> LowerIfStmt(st, w)
         [] st.k = "While" -> LowerWhile(st, w)
         [] OTHER          -> Unsupported(w)

\* The parameters are stored first; a body that may fall off its end
\* returns 0.  The slots come before everything else.
Lowered(fn, w) ==
  LET body == IF w.terminated THEN w.body ELSE Append(w.body, Ret(Lit(0)))
  IN  IF ~w.ok THEN NoFn
      ELSE Fn(fn.name, fn.params, [i \in DOMAIN w.slots |-> Alloca(Slot(w.slots[i]))] \o body)

LowerFunction(fn) ==
  Lowered(fn, LowerStmt(fn.body, FoldLeft(LAMBDA w, x : StoreTo(w, x, Param(x)), NewLowerer, fn.params)))

\* lower_stmt: the first shape that fits.
LowerStmtToIr(fn) ==
  LET plain == LowerPlain(fn)
      iff   == LowerIf(fn)
      match == LowerMatch(fn)
  IN  CASE plain # NoFn -> plain
        [] plain = NoFn /\ iff # NoFn -> RenameTemps(InsertPhiNodes(iff))
        [] plain = NoFn /\ iff = NoFn /\ match # NoFn -> RenameTemps(InsertPhiNodes(match))
        [] OTHER -> LowerFunction(fn)
=============================================================================
