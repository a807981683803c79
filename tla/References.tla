------------------------------ MODULE References ------------------------------
(***************************************************************************)
(* What the passes over a component collect from its syntax: the names     *)
(* crates/reactivity/src/lib.rs finds in it, and what                      *)
(* crates/codegen_js/src/lib.rs writes for its expressions and its view.   *)
(***************************************************************************)
EXTENDS Syntax, SequencesExt

RECURSIVE CollectExprRefs(_), CollectTemplateRefs(_), EmittedNames(_), EmittedNodes(_)

CollectRefs(es) == FlattenSeq([i \in DOMAIN es |-> CollectExprRefs(es[i])])

\* The payload of an enum is not looked into, nor the body of an actor.
CollectExprRefs(e) ==
  CASE e.k = "Variable" -> <<e.name>>
    [] e.k = "Template" -> CollectTemplateRefs(e.nodes)
    [] e.k \in {"SpawnExpr", "Literal", "EnumInit"} -> <<>>
    [] OTHER -> CollectRefs(Subexpressions(e))

AttrExprs(as) ==
  LET dynamic == SelectSeq(as, LAMBDA a : a[1] \in {"Dynamic", "EventHandler"})
  IN  [i \in DOMAIN dynamic |-> dynamic[i][2]]

CollectTemplateRefs(ns) ==
  LET Of(n) ==
        CASE n.k = "TExpr" -> CollectExprRefs(n.e)
          [] n.k \in {"TElement", "TComponent"} -> CollectRefs(AttrExprs(n.attrs)) \o CollectTemplateRefs(n.children)
          [] n.k = "TIf"   -> CollectExprRefs(n.cond) \o CollectTemplateRefs(n.then) \o CollectTemplateRefs(n.else)
          [] n.k = "TFor"  -> CollectExprRefs(n.items) \o CollectTemplateRefs(n.children)
          [] n.k = "TSlot" -> CollectTemplateRefs(n.children)
          [] OTHER         -> <<>>
  IN  FlattenSeq([i \in DOMAIN ns |-> Of(ns[i])])

\* The names the JavaScript of an expression reads.
EmittedNames(e) ==
  LET subs == Subexpressions(e)
  IN  CASE e.k = "Variable" -> <<e.name>>
        [] e.k = "Template" -> CollectTemplateRefs(e.nodes)
        [] OTHER -> FlattenSeq([i \in DOMAIN subs |-> EmittedNames(subs[i])])

\* What emit_template_node_create writes for the nodes of a view, in order:
\* it passes over if, for and slot, and over the children of a component.
EmittedNodes(ns) ==
  LET Of(n) ==
        CASE n.k = "TElement"   -> <<<<"const", n.tag>>>> \o EmittedNodes(n.children)
          [] n.k = "TExpr"      -> <<<<"text", n.e>>>>
          [] OTHER              -> <<>>
  IN  FlattenSeq([i \in DOMAIN ns |-> Of(ns[i])])
=============================================================================
