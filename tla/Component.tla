------------------------------ MODULE Component ------------------------------
(***************************************************************************)
(* An ArtKit component in the browser: what emit_component of              *)
(* crates/codegen_js/src/lib.rs writes for it - the function X_create, a   *)
(* setter for each state, the updater a setter schedules - run on the      *)
(* scheduler and the lifecycle registry of cli/src/bundler.rs, between     *)
(* microtasks and the calls of the page.                                   *)
(***************************************************************************)
EXTENDS Reactivity

CONSTANTS
  Components,    \* the components a page may load
  StateValues,   \* what the page passes to a setter
  MaxPending,    \* bound on the updaters that wait for a flush
  Globals,       \* the names the page itself defines
  JsNames(_),    \* the names the JavaScript of an expression reads
  Emitted(_)     \* what emit_template_node_create writes for a view (module References)

\* Bindings, references and sinks come in lists, and a variable is read where
\* it is named.
ASSUME ComponentAssumption ==
  \A c \in Components :
    /\ c.bindings \in Seq(Range(c.bindings))
    /\ TemplateRefs(c.view) \in Seq(Range(TemplateRefs(c.view)))
    /\ \A b \in Range(c.bindings) : b.value # NoExpr =>
         /\ ExprRefs(b.value) \in Seq(Range(ExprRefs(b.value)))
         /\ b.value.k = "Variable" => b.value.name \in Range(JsNames(b.value))

VARIABLES
  comp,       \* the component
  phase,      \* loaded, refused (a SyntaxError), crashed in X_create, live
  val,        \* the local variables of X_create
  text,       \* the content of the text nodes of the view, in order
  pending,    \* __pending: the states whose updaters wait
  scheduled,  \* __scheduled
  tasks,      \* the queue of microtasks
  hooks,      \* the callbacks registered, each under the object it was given
  ran         \* the callbacks that have run

cvars == <<comp, phase, val, text, pending, scheduled, tasks, hooks, ran>>

----------------------------------------------------------------------------
(* The emitted program.                                                    *)

Names(c, q) == {b.name : b \in {x \in Range(c.bindings) : x.qualifier = q}}
Bound(c)    == {b.name : b \in Range(c.bindings)}

Shown(c) == LET texts == SelectSeq(Emitted(c.view), LAMBDA x : x[1] = "text") IN [i \in DOMAIN texts |-> texts[i][2]]

\* Only a text node that shows a binding and nothing else has a name.
Patched(c, i) == Shown(c)[i].k = "Variable" /\ Shown(c)[i].name \in Bound(c)

\* Each element is a const named for its tag, all in one function.
Declares(c) ==
  LET els == SelectSeq(Emitted(c.view), LAMBDA x : x[1] = "const") IN [i \in DOMAIN els |-> els[i][2]]

Parses(c) == IsInjective(Declares(c)) /\ IsInjective([i \in DOMAIN c.bindings |-> c.bindings[i].name])

\* A name that is no binding is the page's own and stands for itself.
Read(env, x) == IF x \in DOMAIN env THEN env[x] ELSE x

\* The value of an expression stands for what it was computed from.
JsValue(e, env) ==
  CASE e.k = "Variable" -> Read(env, e.name)
    [] e.k = "Literal"  -> e.v.n
    [] OTHER -> [i \in DOMAIN JsNames(e) |-> Read(env, JsNames(e)[i])]

Position(c, x) == PlaceOf(c.bindings, x)

\* A binding that reads a later one, or itself, is a ReferenceError, and so is
\* a name that nobody defines.
Initialises(c) ==
  /\ \A i \in DOMAIN c.bindings :
       c.bindings[i].value = NoExpr \/ c.bindings[i].qualifier = "prop"
         \/ \A x \in Range(JsNames(c.bindings[i].value)) :
              IF x \in Bound(c) THEN Position(c, x) < i ELSE x \in Globals
  /\ \A i \in DOMAIN Shown(c) : Range(JsNames(Shown(c)[i])) \subseteq Bound(c) \cup Globals

Undefined == -1
Attribute == -2

Assign(env, x, v) == [y \in DOMAIN env \cup {x} |-> IF y = x THEN v ELSE env[y]]

Declare(env, b) ==
  Assign(env, b.name, IF b.qualifier = "prop" THEN Attribute
                      ELSE IF b.value = NoExpr THEN Undefined ELSE JsValue(b.value, env))

Locals(c) == FoldLeft(Declare, <<>>, c.bindings)

\* The memos that depend on x.
DerivedFrom(g, x) ==
  {g.nodes[i].name : i \in {j \in Range(DependentsOf(g, NodeByName(g, x))) : g.nodes[j].kind = "Derived"}}

Affected(c, x) == DerivedFrom(Analyse(c), x)
Changed(c, x)  == {x} \cup Affected(c, x)

Value(c, x) == c.bindings[Position(c, x)].value

\* d is a binding and whether the updater computes it again.
Recompute(env, d) ==
  IF ~d.affected \/ d.b.value = NoExpr THEN env ELSE Assign(env, d.b.name, JsValue(d.b.value, env))

\* Mutant: the affected memos in the order the search found them.
RecomputedAsFound(c, x, env) ==
  LET g     == Analyse(c)
      found == SelectSeq(DependentsOf(g, NodeByName(g, x)), LAMBDA i : g.nodes[i].kind = "Derived")
  IN  FoldLeft(Recompute, env, [i \in DOMAIN found |-> [b |-> c.bindings[found[i]], affected |-> TRUE]])

\* The affected memos, in the order of their declarations.
Recomputed(c, x, env) ==
  LET affected == Affected(c, x)
  IN  FoldLeft(Recompute, env,
               [i \in DOMAIN c.bindings |-> [b |-> c.bindings[i], affected |-> c.bindings[i].name \in affected]])

\* The updater of x: the memos, then the text nodes, then the callbacks.
Update(s, x) ==
  LET computed == Recomputed(comp, x, s.val)
      changed  == Changed(comp, x)
  IN  [val  |-> computed,
       text |-> [i \in DOMAIN s.text |->
                  IF Patched(comp, i) /\ Shown(comp)[i].name \in changed
                  THEN computed[Shown(comp)[i].name] ELSE s.text[i]],
       ran  |-> s.ran \cup {h \in hooks : h.on = "update" /\ h.object = "component" /\ h.deps \cap changed # {}}]

\* The updaters that waited, in the order they were scheduled.
Updated == FoldLeft(Update, [val |-> val, text |-> text, ran |-> ran], pending)

\* X_create returns its setters and keeps the object the hooks run for.
Returned(c) == IF Names(c, "state") = {} THEN {} ELSE {"setters"}

----------------------------------------------------------------------------
ComponentInit ==
  /\ comp \in Components
  /\ phase = "loaded"
  /\ val = <<>> /\ text = <<>>
  /\ pending = <<>> /\ scheduled = FALSE /\ tasks = <<>>
  /\ hooks = {} /\ ran = {}

Refuse ==
  /\ phase = "loaded" /\ ~Parses(comp)
  /\ phase' = "refused"
  /\ UNCHANGED <<comp, val, text, pending, scheduled, tasks, hooks, ran>>

Crash ==
  /\ phase = "loaded" /\ Parses(comp) /\ ~Initialises(comp)
  /\ phase' = "crashed"
  /\ UNCHANGED <<comp, val, text, pending, scheduled, tasks, hooks, ran>>

Create ==
  /\ phase = "loaded" /\ Parses(comp) /\ Initialises(comp)
  /\ val' = Locals(comp)
  /\ text' = [i \in DOMAIN Shown(comp) |-> JsValue(Shown(comp)[i], val')]
  /\ tasks' = <<"mount">>
  /\ phase' = "live"
  /\ UNCHANGED <<comp, pending, scheduled, hooks, ran>>

\* set_x(v): the variable at once, the rest in a microtask.
SetState(x, v) ==
  /\ phase = "live" /\ Len(pending) < MaxPending
  /\ val' = Assign(val, x, v)
  /\ pending' = Append(pending, x)
  /\ scheduled' = TRUE
  /\ tasks' = IF scheduled THEN tasks ELSE Append(tasks, "flush")
  /\ UNCHANGED <<comp, phase, text, hooks, ran>>

\* The page registers its callbacks right after X_create returned.
Register(h) ==
  /\ phase = "live" /\ tasks # <<>> /\ Head(tasks) = "mount"
  /\ h.object \in Returned(comp)
  /\ hooks' = hooks \cup {h}
  /\ UNCHANGED <<comp, phase, val, text, pending, scheduled, tasks, ran>>

RunMount ==
  /\ tasks # <<>> /\ Head(tasks) = "mount"
  /\ tasks' = Tail(tasks)
  /\ ran' = ran \cup {h \in hooks : h.on = "mount" /\ h.object = "component"}
  /\ UNCHANGED <<comp, phase, val, text, pending, scheduled, hooks>>

Flush ==
  /\ tasks # <<>> /\ Head(tasks) = "flush"
  /\ \E s \in {Updated} : val' = s.val /\ text' = s.text /\ ran' = s.ran
  /\ pending' = <<>> /\ scheduled' = FALSE
  /\ tasks' = Tail(tasks)
  /\ UNCHANGED <<comp, phase, hooks>>

Hooks == {[object |-> "setters", on |-> "mount", deps |-> {}]}
           \cup {[object |-> "setters", on |-> "update", deps |-> {x}] : x \in Names(comp, "state")}

ComponentNext ==
  \/ Refuse \/ Crash \/ Create \/ RunMount \/ Flush
  \/ \E x \in Names(comp, "state"), v \in StateValues : SetState(x, v)
  \/ \E h \in Hooks : Register(h)

ComponentSpec == ComponentInit /\ [][ComponentNext]_cvars

----------------------------------------------------------------------------
(* Properties.                                                             *)

Quiet == phase = "live" /\ tasks = <<>>

\* The names collect_expr_refs finds are those the expression reads.
SeenWhole(e) == Range(ExprRefs(e)) = Range(JsNames(e))

Whole(c) == \A b \in Range(c.bindings) : b.value = NoExpr \/ SeenWhole(b.value)

\* Once the microtasks have run, every memo is what its expression gives
\* now and every text node that shows a binding shows its value: whatever
\* setters were called between two flushes, and however memos read memos.
MemosFresh ==
  Quiet /\ Whole(comp) =>
    /\ \A m \in Names(comp, "memo") : Value(comp, m) = NoExpr \/ val[m] = JsValue(Value(comp, m), val)
    /\ \A i \in DOMAIN text : Patched(comp, i) => text[i] = val[Shown(comp)[i].name]

\* The callbacks the page registered before the component was mounted have
\* run once it is (docs/guides/artkit_quickstart.md).
HooksRun == Quiet => \A h \in hooks : h.on = "mount" => h \in ran
=============================================================================
