------------------------------- MODULE ArcOps -------------------------------
(***************************************************************************)
(* The reference-counted heap of the interpreter as operators on a heap    *)
(* value: a function from the ids present to HeapObject records.           *)
(*                                                                         *)
(* A stored value is abstracted to the one handle it holds ("kid"), as in  *)
(* `let p = [k]`; None is a value without handles.  Ids grow with every    *)
(* registration, so a kid is always older (smaller) than its parent.       *)
(***************************************************************************)
EXTENDS Naturals, FiniteSets

None == 0          \* no handle, no arena, a scalar binding

HeapObject ==
  [strong: Nat, weak: Nat, alive: BOOLEAN, arena: Nat, kid: Nat]

NewObject(arena, kid) ==
  [strong |-> 1, weak |-> 0, alive |-> TRUE, arena |-> arena, kid |-> kid]

\* Mutant: a count brings a dead object back.
IncResurrects(o) == [o EXCEPT !.strong = @ + 1, !.alive = TRUE]

inc_strong(o) == IF o.alive THEN [o EXCEPT !.strong = @ + 1] ELSE o

inc_weak(o) == IF o.alive THEN [o EXCEPT !.weak = @ + 1] ELSE o

\* Mutant: the count is taken down without looking at it.
DecBelowZero(o) == [o EXCEPT !.strong = @ - 1, !.alive = @ /\ o.strong # 1]

\* Mutant: the object dies one count early.
DecKillsEarly(o) ==
  IF o.strong = 0 THEN o
  ELSE [o EXCEPT !.strong = @ - 1, !.alive = @ /\ o.strong > 2]

dec_strong(o) ==
  IF o.strong = 0 THEN o
  ELSE [o EXCEPT !.strong = @ - 1, !.alive = @ /\ o.strong # 1]

force_strong_to_one(o) == IF o.strong > 0 THEN [o EXCEPT !.strong = 1] ELSE o

\* Mutant: a handle stored in an object is not counted.
Uncounted(h, id) == h

inc_heap_strong(h, id) ==
  [i \in DOMAIN h |-> IF i = id THEN inc_strong(h[i]) ELSE h[i]]

heap_register(h, id, arena, kid) ==
  inc_heap_strong([i \in DOMAIN h \cup {id} |->
                     IF i = id THEN NewObject(arena, kid) ELSE h[i]], kid)

\* heapify_composite registers, which counts the children, and then counts
\* the children of the stored snapshot a second time.
heapify_composite(h, id, arena, kid) ==
  inc_heap_strong(heap_register(h, id, arena, kid), kid)

-----------------------------------------------------------------------------
(* Dropping a handle. *)

Forget(h, ids) == [i \in DOMAIN h \ ids |-> h[i]]

Referenced(h, id) == \E i \in DOMAIN h : h[i].alive /\ h[i].kid = id

\* The ids the worklist of dec_object_strong_recursive pops: it goes on to
\* the child of every object that is dead once its own count was taken down,
\* the ones that were dead before included.
Visited(h, id) ==
  LET path[n \in 0..id] ==
        IF n = 0 THEN id
        ELSE LET i == path[n - 1]
             IN  IF i \in DOMAIN h /\ ~dec_strong(h[i]).alive THEN h[i].kid ELSE None
  IN  {path[n] : n \in 0..id} \cap DOMAIN h

Dying(h, id) == {i \in Visited(h, id) : ~dec_strong(h[i]).alive}

DecAll(h, ids) == [i \in DOMAIN h |-> IF i \in ids THEN dec_strong(h[i]) ELSE h[i]]

\* Only the object the drop started at is removed, when it is dead, has no
\* weak references and no living object holds it.
RemoveRoot(h, id) ==
  IF id \in DOMAIN h /\ ~h[id].alive /\ h[id].weak = 0 /\ ~Referenced(h, id)
  THEN Forget(h, {id})
  ELSE h

dec_object_strong_recursive(h, id) == RemoveRoot(DecAll(h, Visited(h, id)), id)

-----------------------------------------------------------------------------
(* Ending an arena. *)

ArenaIds(h, arena) == {i \in DOMAIN h : h[i].alive /\ h[i].arena = arena}

\* Mutant: the end of an arena takes one count from each object.
WithoutForce(h, id) == h

ForceToOne(h, id) ==
  [i \in DOMAIN h |-> IF i = id THEN force_strong_to_one(h[i]) ELSE h[i]]

debug_sweep_dead(h) ==
  Forget(h, {i \in DOMAIN h : ~h[i].alive /\ h[i].weak = 0 /\ ~Referenced(h, i)})

\* "Hardening": an uncounted object does not stay alive.
Normalize(h) == [i \in DOMAIN h |-> [h[i] EXCEPT !.alive = @ /\ h[i].strong > 0]]

\* The objects of the arena that are dead and have no weak references go,
\* referenced or not; the sweeps that follow ask who holds them.
PurgeArena(h, arena) ==
  LET dead == {i \in DOMAIN h : h[i].arena = arena /\ ~h[i].alive /\ h[i].weak = 0}
  IN  debug_sweep_dead(Normalize(debug_sweep_dead(Forget(h, dead))))

-----------------------------------------------------------------------------
(* Promotion out of an arena. *)

\* The objects promote_if_escaping copies when a handle to id is bound where
\* the arena is target: those of a younger arena, down the chain of children.
Escaping(h, target, id) ==
  LET path[n \in 0..id] ==
        LET i == IF n = 0 THEN id
                 ELSE IF path[n - 1] = None THEN None ELSE h[path[n - 1]].kid
        IN  IF i \in DOMAIN h /\ h[i].arena > target THEN i ELSE None
  IN  {path[n] : n \in 0..id} \cap DOMAIN h

\* Children are registered before their parents, from the next free id on.
CopyOf(E, next, i) == next + Cardinality({j \in E : j < i})

Promoted(E, next, i) == IF i \in E THEN CopyOf(E, next, i) ELSE i

\* The heap after the promotion: every copy has the one count it starts with
\* and one more from the copy that holds it; the first child that stays is
\* counted once more.
PromoteHeap(h, next, target, id) ==
  LET E == Escaping(h, target, id)
      Copies == {CopyOf(E, next, i) : i \in E}
      Source(c) == CHOOSE i \in E : CopyOf(E, next, i) = c
      Copy(i) == LET o == NewObject(target, Promoted(E, next, h[i].kid))
                 IN  IF i = id THEN o ELSE inc_strong(o)
      Kept == {h[i].kid : i \in E} \ E
  IN  [c \in DOMAIN h \cup Copies |->
         IF c \in Copies THEN Copy(Source(c))
         ELSE IF c \in Kept THEN inc_strong(h[c]) ELSE h[c]]

PromoteNext(h, next, target, id) == next + Cardinality(Escaping(h, target, id))

promote_if_escaping(h, next, target, id) ==
  Promoted(Escaping(h, target, id), next, id)
=============================================================================
