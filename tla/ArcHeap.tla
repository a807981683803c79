------------------------------ MODULE ArcHeap ------------------------------
(***************************************************************************)
(* Scopes, reference counts and arenas of the Artcode interpreter.         *)
(*                                                                         *)
(* A program is a nondeterministic sequence of the statements that touch   *)
(* the heap.  Leaving a scope is what the interpreter does in several      *)
(* calls (drop every handle of the scope, end its arena object by object,  *)
(* restore the enclosing environment); they are the items of "work", done  *)
(* head first before the next statement, the objects of an ending arena in *)
(* the order of their ids: a finalizer runs between two of them.           *)
(***************************************************************************)
EXTENDS ArcOps, Sequences, SequencesExt

CONSTANTS Vars,        \* variable names
          Flag,        \* the variable every finalizer binds
          Program,     \* the kinds of statement the program uses
          MaxAlloc,    \* no statement that allocates starts above this id
          MaxDepth,    \* bound on the environment chain
          MaxArena,    \* bound on the arenas opened
          MaxHandles,  \* bound on the handles of one scope
          MaxWeak      \* bound on the weak references to one object

Statements == {"alias", "weak", "finalizer", "block", "loop", "performant",
               "call", "for"}

ASSUME ArcAssumption ==
  /\ Flag \in Vars
  /\ Program \subseteq Statements
  /\ MaxAlloc \in Nat /\ MaxDepth \in Nat /\ MaxArena \in Nat
  /\ MaxHandles \in Nat /\ MaxWeak \in Nat

VARIABLES
  heap,         \* heap_objects
  next,         \* next_heap_id
  nextArena,    \* next_arena_id
  current,      \* current_arena
  arenaStack,   \* arena_stack
  finalizers,   \* the ids with a finalizer
  envs,         \* the environments, the innermost last
  ret,          \* the value a return is carrying outwards
  doomed,       \* the objects of an ending arena that are still to be dropped
  work          \* what is left of leaving a scope or of a binding

vars == <<heap, next, nextArena, current, arenaStack, finalizers, envs, ret, doomed, work>>

Env ==
  [kind: {"root", "block", "loop", "performant", "call", "for"},
   values: [Vars -> Nat], handles: Seq(Nat), arena: Nat,
   own: Nat,          \* the arena the scope opened
   saved: Nat,        \* current_arena before a performant block
   dest: Vars]        \* the variable the result of a call is bound to

Item == [op: {"drop", "bind", "arena", "purge", "leave"}, var: Vars, arg: Nat]

NotReturning == [on |-> FALSE, val |-> None]

Do(op, arg) == [op |-> op, var |-> Flag, arg |-> arg]

NewEnv(kind, arena) ==
  [kind |-> kind, values |-> [x \in Vars |-> None], handles |-> << >>,
   arena |-> arena, own |-> None, saved |-> None, dest |-> Flag]

Init ==
  /\ heap = << >> /\ next = 1 /\ nextArena = 1
  /\ current = None /\ arenaStack = << >>
  /\ finalizers = {}
  /\ envs = <<NewEnv("root", None)>>
  /\ ret = NotReturning /\ doomed = {} /\ work = << >>

Depth == Len(envs)
Top == envs[Depth]

\* The enclosing chain: outwards to the innermost call, then the root, where
\* functions are declared.
Chain == {i \in 1..Depth : i = 1 \/ \A j \in (i + 1)..Depth : envs[j].kind # "call"}

\* Environment::get: the innermost binding along the chain, if there is one.
Lookup(x) ==
  {envs[i].values[x] : i \in {k \in Chain :
      /\ envs[k].values[x] # None
      /\ \A j \in Chain : j > k => envs[j].values[x] = None}}

Visible == UNION {Lookup(x) : x \in Vars}

\* Statements are executed by the scopes that have a body, one at a time.
Ready ==
  /\ work = << >> /\ ~ret.on
  /\ Top.kind \in {"root", "block", "loop", "performant"}

-----------------------------------------------------------------------------
(* Environment::define, and the rebinding that precedes it. *)

RemoveHandle(hs, id) ==
  LET k == CHOOSE i \in DOMAIN hs : hs[i] = id /\ \A j \in 1..(i - 1) : hs[j] # id
  IN  IF \E i \in DOMAIN hs : hs[i] = id
      THEN [i \in 1..(Len(hs) - 1) |-> IF i < k THEN hs[i] ELSE hs[i + 1]]
      ELSE hs

define(env, x, id) ==
  LET kept == IF env.values[x] # None THEN RemoveHandle(env.handles, env.values[x])
              ELSE env.handles
  IN  [env EXCEPT !.values[x] = id,
                  !.handles = IF id # None THEN Append(kept, id) ELSE kept]

BindItem(x, id) == [op |-> "bind", var |-> x, arg |-> id]

\* Mutant: the old value is looked up in the enclosing scopes too.
RebindThroughScopes(env, x, id) ==
  SetToSeq({Do("drop", old) : old \in Lookup(x)}) \o <<BindItem(x, id)>>

\* bind_value_to_pattern: the old value of the scope loses a count, then the
\* new one is defined; binding does not count the new handle.
Rebind(env, x, id) ==
  (IF env.values[x] # None THEN <<Do("drop", env.values[x])>> ELSE << >>)
    \o <<BindItem(x, id)>>

LetPromoted(h, n, env, x, id) ==
  /\ heap' = PromoteHeap(h, n, env.arena, id)
  /\ next' = PromoteNext(h, n, env.arena, id)
  /\ work' = Rebind(env, x, promote_if_escaping(h, n, env.arena, id))

\* let x = [] or let x = [y]: the literal is registered in the current arena.
LetNew(x, kid) ==
  /\ Ready /\ next <= MaxAlloc /\ Len(Top.handles) < MaxHandles
  /\ LetPromoted(heapify_composite(heap, next, current, kid), next + 1, Top, x, next)
  /\ UNCHANGED <<nextArena, current, arenaStack, finalizers, envs, ret, doomed>>

\* let x = y: the second handle is not counted.
LetAlias(x, id) ==
  /\ Ready /\ "alias" \in Program /\ next <= MaxAlloc /\ Len(Top.handles) < MaxHandles
  /\ LetPromoted(heap, next, Top, x, id)
  /\ UNCHANGED <<nextArena, current, arenaStack, finalizers, envs, ret, doomed>>

\* weak y: nothing takes the weak count down again.
WeakNew(id) ==
  /\ Ready /\ "weak" \in Program
  /\ id \in DOMAIN heap /\ heap[id].weak < MaxWeak
  /\ heap' = [heap EXCEPT ![id] = inc_weak(@)]
  /\ UNCHANGED <<next, nextArena, current, arenaStack, finalizers, envs, ret, doomed, work>>

OnFinalize(id) ==
  /\ Ready /\ "finalizer" \in Program
  /\ id \in DOMAIN heap /\ heap[id].alive
  /\ finalizers' = finalizers \cup {id}
  /\ UNCHANGED <<heap, next, nextArena, current, arenaStack, envs, ret, doomed, work>>

-----------------------------------------------------------------------------
(* Opening a scope. *)

Open(es, own) ==
  /\ Depth + Len(es) <= MaxDepth
  /\ envs' = envs \o es
  /\ nextArena' = IF own = None THEN nextArena ELSE nextArena + 1
  /\ UNCHANGED <<finalizers, ret, work, doomed>>

\* { ... }
EnterBlock ==
  /\ Ready /\ "block" \in Program
  /\ Open(<<NewEnv("block", Top.arena)>>, None)
  /\ UNCHANGED <<heap, next, current, arenaStack>>

\* One iteration of a while loop: an implicit arena around the body's block,
\* which keeps the arena its environment is associated with.
EnterLoop ==
  /\ Ready /\ "loop" \in Program /\ nextArena <= MaxArena
  /\ Open(<<[NewEnv("loop", Top.arena) EXCEPT !.own = nextArena]>>, nextArena)
  /\ arenaStack' = Append(arenaStack, nextArena)
  /\ current' = nextArena
  /\ UNCHANGED <<heap, next>>

\* performant { ... }: not on the stack of implicit arenas.
EnterPerformant ==
  /\ Ready /\ "performant" \in Program /\ nextArena <= MaxArena
  /\ Open(<<[NewEnv("performant", nextArena) EXCEPT !.own = nextArena,
                                                            !.saved = current]>>, nextArena)
  /\ current' = nextArena
  /\ UNCHANGED <<heap, next, arenaStack>>

\* let x = f(y), for a function declared at top level with one parameter.
\* The new arena is the youngest, so the argument is not promoted; binding it
\* gives an object a second, uncounted handle.
EnterCall(x, param, id) ==
  /\ Ready /\ "call" \in Program /\ nextArena <= MaxArena /\ next <= MaxAlloc
  /\ id # None => "alias" \in Program
  /\ LET frame == [NewEnv("call", nextArena) EXCEPT !.own = nextArena, !.dest = x]
     IN  Open(<<define(frame, param, id), NewEnv("block", nextArena)>>, nextArena)
  /\ arenaStack' = Append(arenaStack, nextArena)
  /\ current' = nextArena
  /\ UNCHANGED <<heap, next>>

\* for x in y, for an array y of one element: the element is bound uncounted.
EnterFor(x, id) ==
  /\ Ready /\ "for" \in Program /\ id \in DOMAIN heap /\ next <= MaxAlloc
  /\ LET element == heap[id].kid
         frame == NewEnv("for", Top.arena)
     IN  /\ heap' = PromoteHeap(heap, next, Top.arena, element)
         /\ next' = PromoteNext(heap, next, Top.arena, element)
         /\ Open(<<define(frame, x, promote_if_escaping(heap, next, Top.arena, element)),
                   NewEnv("block", Top.arena)>>, None)
  /\ UNCHANGED <<current, arenaStack>>

-----------------------------------------------------------------------------
(* Leaving a scope. *)

Drops(env) == [i \in DOMAIN env.handles |-> Do("drop", env.handles[i])]

\* drop_scope_heap_objects, finalize_arena, and the enclosing environment.
Teardown(env) ==
  Drops(env) \o (IF env.own # None THEN <<Do("arena", env.own)>> ELSE << >>)
    \o <<Do("leave", None)>>

\* The end of the statements of a scope; the environments of a call and of a
\* for loop have no statements of their own.
Exit ==
  /\ work = << >> /\ ~ret.on /\ Depth > 1
  /\ work' = Teardown(Top)
  /\ UNCHANGED <<heap, next, nextArena, current, arenaStack, finalizers, envs, ret, doomed>>

\* return y, inside a function.
Return(id) ==
  /\ Ready /\ \E i \in 1..Depth : envs[i].kind = "call"
  /\ ret' = [on |-> TRUE, val |-> id]
  /\ UNCHANGED <<heap, next, nextArena, current, arenaStack, finalizers, envs, doomed, work>>

\* A return crosses the scopes one by one.  A block promotes the value to the
\* environment around it and counts it once more; a call promotes it to the
\* caller's environment; a performant block and a for loop do neither.
Unwind ==
  /\ work = << >> /\ ret.on /\ Depth > 1
  /\ LET target == envs[Depth - 1].arena
         id == promote_if_escaping(heap, next, target, ret.val)
         promoted == PromoteHeap(heap, next, target, ret.val)
     IN  CASE Top.kind \in {"block", "loop"} ->
                /\ heap' = inc_heap_strong(promoted, id)
                /\ next' = PromoteNext(heap, next, target, ret.val)
                /\ ret' = [ret EXCEPT !.val = id]
           [] Top.kind = "call" ->
                /\ heap' = promoted
                /\ next' = PromoteNext(heap, next, target, ret.val)
                /\ ret' = [ret EXCEPT !.val = id]
           [] OTHER -> UNCHANGED <<heap, next, ret>>
  /\ work' = Teardown(Top)
  /\ UNCHANGED <<nextArena, current, arenaStack, finalizers, envs, doomed>>

-----------------------------------------------------------------------------
(* The items of work. *)

\* The ids one finalizer takes: it binds one new array, which is promoted to
\* the root environment when it was allocated in an arena.
IdsPerFinalizer == IF current = None THEN 1 ELSE 2

\* Mutant: the finalizer stays registered after it ran.
FinalizersStay(ran, h) ==
  /\ heap' = h
  /\ UNCHANGED <<next, finalizers, envs>>

\* The finalizers of the objects that die run one after the other in a child
\* of the root environment, whose names and handles then move to the root.
\* A finalizer is taken to bind one new array to Flag.
RunFinalizers(ran, h) ==
  LET k == Cardinality(ran)
      Bound(i) == next + IdsPerFinalizer * i - 1
      kept == {Bound(i) : i \in 1..k}
      new == next..Bound(k)
  IN  /\ heap' = [i \in DOMAIN h \cup new |->
                    IF i \notin new THEN h[i]
                    ELSE NewObject(IF i \in kept THEN None ELSE current, None)]
      /\ next' = Bound(k) + 1
      /\ finalizers' = finalizers \ ran
      /\ envs' = IF k = 0 THEN envs
                 ELSE [envs EXCEPT ![1].values[Flag] = Bound(k),
                                   ![1].handles = @ \o [i \in 1..k |-> Bound(i)]]

Doing(op) == doomed = {} /\ work # << >> /\ Head(work).op = op
Item1 == Head(work)

\* dec_object_strong_recursive on a handle.
Drop ==
  /\ Doing("drop")
  /\ RunFinalizers(Dying(heap, Item1.arg) \cap finalizers,
                   dec_object_strong_recursive(heap, Item1.arg))
  /\ work' = Tail(work)
  /\ UNCHANGED <<nextArena, current, arenaStack, ret, doomed>>

Bind ==
  /\ Doing("bind")
  /\ envs' = [envs EXCEPT ![Depth] = define(@, Item1.var, Item1.arg)]
  /\ work' = Tail(work)
  /\ UNCHANGED <<heap, next, nextArena, current, arenaStack, finalizers, ret, doomed>>

\* finalize_arena: the objects alive at its start are dropped, whatever their
\* count, in the order of their ids.
Arena ==
  /\ Doing("arena")
  /\ doomed' = ArenaIds(heap, Item1.arg)
  /\ work' = <<Do("purge", Item1.arg)>> \o Tail(work)
  /\ UNCHANGED <<heap, next, nextArena, current, arenaStack, finalizers, envs, ret>>

Kill(id) ==
  /\ \A i \in doomed : id <= i
  /\ LET h == ForceToOne(heap, id)
     IN  RunFinalizers(Dying(h, id) \cap finalizers, dec_object_strong_recursive(h, id))
  /\ doomed' = doomed \ {id}
  /\ UNCHANGED <<nextArena, current, arenaStack, ret, work>>

Purge ==
  /\ Doing("purge")
  /\ heap' = PurgeArena(heap, Item1.arg)
  /\ work' = Tail(work)
  /\ UNCHANGED <<next, nextArena, current, arenaStack, finalizers, envs, ret, doomed>>

\* The enclosing environment is current again.  After a pop of the stack of
\* implicit arenas the current arena is its new top, after a performant block
\* the one before it.  A call that ends hands its value to the caller's let.
Leave ==
  /\ Doing("leave") /\ Depth > 1
  /\ envs' = SubSeq(envs, 1, Depth - 1)
  /\ CASE Top.kind \in {"loop", "call"} ->
            LET rest == Front(arenaStack)
            IN  /\ arenaStack' = rest
                /\ current' = IF rest = << >> THEN None ELSE Last(rest)
       [] Top.kind = "performant" -> current' = Top.saved /\ UNCHANGED arenaStack
       [] OTHER -> UNCHANGED <<current, arenaStack>>
  /\ IF Top.kind = "call"
       THEN /\ LetPromoted(heap, next, envs[Depth - 1], Top.dest, ret.val)
            /\ ret' = NotReturning
       ELSE /\ work' = Tail(work)
            /\ UNCHANGED <<heap, next, ret>>
  /\ UNCHANGED <<nextArena, finalizers, doomed>>

Statement ==
  \/ \E x \in Vars, kid \in Visible \cup {None} : LetNew(x, kid)
  \/ \E x \in Vars, id \in Visible : LetAlias(x, id)
  \/ \E id \in Visible : WeakNew(id) \/ OnFinalize(id) \/ Return(id)
  \/ EnterBlock \/ EnterLoop \/ EnterPerformant
  \/ \E x, param \in Vars, id \in Visible \cup {None} : EnterCall(x, param, id)
  \/ \E x \in Vars, id \in Visible : EnterFor(x, id)

Next ==
  \/ Statement \/ Exit \/ Unwind
  \/ Drop \/ Bind \/ Arena \/ Purge \/ Leave
  \/ \E id \in doomed : Kill(id)

Spec == Init /\ [][Next]_vars

-----------------------------------------------------------------------------
(* Properties. *)

TypeOK ==
  /\ DOMAIN heap \subseteq 1..(next - 1)
  /\ \A i \in DOMAIN heap : heap[i] \in HeapObject
  /\ next \in Nat \ {0} /\ nextArena \in Nat \ {0}
  /\ current \in Nat /\ arenaStack \in Seq(Nat)
  /\ finalizers \subseteq Nat
  /\ envs \in Seq(Env) /\ envs # << >>
  /\ ret \in [on: BOOLEAN, val: Nat]
  /\ doomed \subseteq Nat
  /\ work \in Seq(Item)

\* A counted object is alive and an uncounted one is dead, whatever order the
\* drops, forced drops, promotions and sweeps came in.
AliveIffStrong == \A i \in DOMAIN heap : heap[i].alive <=> heap[i].strong > 0

\* No id is reused and no dead object comes back to life.
DeadStaysDead ==
  [][\A i \in 1..(next - 1) :
        /\ i \in DOMAIN heap' => i \in DOMAIN heap
        /\ (i \in DOMAIN heap /\ i \in DOMAIN heap' /\ ~heap[i].alive) => ~heap'[i].alive]_vars

\* A registered finalizer waits on a living object: none is lost when its
\* object dies or is swept, and none is run twice.
FinalizersWait == \A i \in finalizers : i \in DOMAIN heap /\ heap[i].alive

\* Nothing is left of an arena once its scope is closed.
OpenArenas == {envs[i].own : i \in 1..Depth}

ArenaDrained ==
  work = << >> =>
    \A i \in DOMAIN heap :
      heap[i].alive /\ heap[i].arena # None => heap[i].arena \in OpenArenas

\* What a program can name is alive.
BoundAlive ==
  work = << >> =>
    \A i \in 1..Depth, x \in Vars :
      LET id == envs[i].values[x]
      IN  id # None => id \in DOMAIN heap /\ heap[id].alive

\* So is everything a living object holds.
ChildAlive ==
  work = << >> =>
    \A i \in DOMAIN heap :
      heap[i].alive /\ heap[i].kid # None
        => heap[i].kid \in DOMAIN heap /\ heap[heap[i].kid].alive
=============================================================================
