--------------------------- MODULE ArcHeapProofs ---------------------------
(***************************************************************************)
(* What ArcHeap keeps for every program, any number of objects, scopes and *)
(* arenas; that what a program can name is alive, and so is what a living  *)
(* object holds, for programs that neither bind an object twice nor use    *)
(* arenas; and that no arena outlives its scope, for programs that         *)
(* register no finalizer.                                                  *)
(***************************************************************************)
EXTENDS ArcHeap, ListLemmas, SequenceTheorems

\* A heap whose ids are below n, with liveness that follows the counts.
HeapOK(h, n) ==
  /\ n \in Nat \ {0}
  /\ DOMAIN h \subseteq 1..(n - 1)
  /\ \A i \in DOMAIN h : h[i] \in HeapObject /\ (h[i].alive <=> h[i].strong > 0)

\* From h to g: new ids are fresh, and nobody is revived.
Evolves(h, n, g, m) ==
  /\ HeapOK(g, m) /\ m >= n
  /\ \A i \in 1..(n - 1) :
       i \in DOMAIN g => i \in DOMAIN h /\ (~h[i].alive => ~g[i].alive)

\* The living of h other than the ones in ids live on in g.
Lives(h, g, ids) ==
  \A i \in DOMAIN h \ ids : h[i].alive => i \in DOMAIN g /\ g[i].alive

LEMMA EvolvesFurther ==
  ASSUME NEW h, NEW n \in Nat, NEW g, NEW m \in Nat, NEW k, NEW l \in Nat,
         Evolves(h, n, g, m), Evolves(g, m, k, l)
  PROVE  Evolves(h, n, k, l)
<1>1. l >= n
  BY DEF Evolves
<1>2. 1..(n - 1) \subseteq 1..(m - 1)
  BY DEF Evolves
<1> QED
  BY <1>1, <1>2 DEF Evolves

LEMMA LivesFurther ==
  ASSUME NEW h, NEW g, NEW k, NEW ids, Lives(h, g, {}), Lives(g, k, ids)
  PROVE  Lives(h, k, ids)
  BY DEF Lives

-----------------------------------------------------------------------------
(* The counts. *)

LEMMA IncObject ==
  ASSUME NEW o \in HeapObject, o.alive <=> o.strong > 0
  PROVE  /\ inc_strong(o) \in HeapObject
         /\ inc_strong(o).alive <=> inc_strong(o).strong > 0
         /\ inc_strong(o).alive <=> o.alive
  BY DEF inc_strong, HeapObject

LEMMA DecObject ==
  ASSUME NEW o \in HeapObject, o.alive <=> o.strong > 0
  PROVE  /\ dec_strong(o) \in HeapObject
         /\ dec_strong(o).alive <=> dec_strong(o).strong > 0
         /\ dec_strong(o).alive => o.alive
<1> DEFINE d == dec_strong(o)
<1>1. CASE o.strong = 0
  BY <1>1 DEF dec_strong
<1>2. CASE o.strong # 0
  <2>1. o.strong \in Nat /\ o.alive = TRUE
    BY <1>2 DEF HeapObject
  <2>2. d = [o EXCEPT !.strong = o.strong - 1, !.alive = (o.alive /\ o.strong # 1)]
    BY <1>2 DEF dec_strong
  <2> HIDE DEF d
  <2>3. d.strong = o.strong - 1 /\ (d.alive <=> o.strong # 1)
    BY <2>1, <2>2 DEF HeapObject
  <2>4. d \in HeapObject
    <3> DEFINE a == o.alive /\ o.strong # 1
               s == o.strong - 1
    <3>1. a \in BOOLEAN /\ s \in Nat
      BY <1>2, <2>1
    <3>2. d = [o EXCEPT !.strong = s, !.alive = a]
      BY <2>2
    <3> HIDE DEF a, s
    <3> QED
      BY <3>1, <3>2 DEF HeapObject
  <2>5. d.alive <=> d.strong > 0
    BY <1>2, <2>1, <2>3
  <2> QED
    BY <2>1, <2>4, <2>5 DEF d
<1> QED
  BY <1>1, <1>2

LEMMA ForceObject ==
  ASSUME NEW o \in HeapObject, o.alive <=> o.strong > 0
  PROVE  /\ force_strong_to_one(o) \in HeapObject
         /\ force_strong_to_one(o).alive <=> force_strong_to_one(o).strong > 0
         /\ force_strong_to_one(o).alive <=> o.alive
  BY DEF force_strong_to_one, HeapObject

LEMMA NewObjectOK ==
  ASSUME NEW arena \in Nat, NEW kid \in Nat
  PROVE  /\ NewObject(arena, kid) \in HeapObject
         /\ NewObject(arena, kid).alive
         /\ NewObject(arena, kid).strong > 0
  BY DEF NewObject, HeapObject

LEMMA IncHeap ==
  ASSUME NEW h, NEW n, HeapOK(h, n), NEW id
  PROVE  /\ Evolves(h, n, inc_heap_strong(h, id), n)
         /\ Lives(h, inc_heap_strong(h, id), {})
<1> DEFINE g == inc_heap_strong(h, id)
<1>1. DOMAIN g = DOMAIN h /\ \A i \in DOMAIN h : g[i] = IF i = id THEN inc_strong(h[i]) ELSE h[i]
  BY DEF inc_heap_strong
<1> HIDE DEF g
<1>2. \A i \in DOMAIN h :
        g[i] \in HeapObject /\ (g[i].alive <=> g[i].strong > 0) /\ (g[i].alive <=> h[i].alive)
  BY <1>1, IncObject DEF HeapOK
<1> QED
  BY <1>1, <1>2 DEF g, HeapOK, Evolves, Lives

\* heapify_composite takes the next id.
LEMMA HeapifyHeap ==
  ASSUME NEW h, NEW n, HeapOK(h, n), NEW arena \in Nat, NEW kid \in Nat
  PROVE  /\ Evolves(h, n, heapify_composite(h, n, arena, kid), n + 1)
         /\ Lives(h, heapify_composite(h, n, arena, kid), {})
<1> DEFINE g == [i \in DOMAIN h \cup {n} |-> IF i = n THEN NewObject(arena, kid) ELSE h[i]]
           r == heap_register(h, n, arena, kid)
<1>1. Evolves(h, n, g, n + 1) /\ Lives(h, g, {})
  BY NewObjectOK DEF HeapOK, Evolves, Lives
<1>2. r = inc_heap_strong(g, kid)
  BY DEF heap_register
<1>3. HeapOK(g, n + 1) /\ n \in Nat /\ n + 1 \in Nat
  BY <1>1 DEF Evolves, HeapOK
<1> HIDE DEF g, r
<1>4. Evolves(g, n + 1, r, n + 1) /\ Lives(g, r, {})
  BY <1>2, <1>3, IncHeap
<1>5. HeapOK(r, n + 1)
  BY <1>4 DEF Evolves
<1>6. heapify_composite(h, n, arena, kid) = inc_heap_strong(r, kid)
  BY DEF r, heapify_composite
<1>7. Evolves(r, n + 1, inc_heap_strong(r, kid), n + 1) /\ Lives(r, inc_heap_strong(r, kid), {})
  BY <1>5, IncHeap
<1>8. Evolves(h, n, r, n + 1) /\ Lives(h, r, {})
  BY <1>1, <1>3, <1>4, EvolvesFurther, LivesFurther
<1> QED
  BY <1>3, <1>6, <1>7, <1>8, EvolvesFurther, LivesFurther

-----------------------------------------------------------------------------
(* Drops and the end of an arena. *)

\* The heap without some of its dead objects.
LEMMA ForgetHeap ==
  ASSUME NEW h, NEW n, HeapOK(h, n), NEW ids, \A i \in DOMAIN h \cap ids : ~h[i].alive
  PROVE  Evolves(h, n, Forget(h, ids), n) /\ Lives(h, Forget(h, ids), {})
<1>1. DOMAIN Forget(h, ids) = DOMAIN h \ ids /\ \A i \in DOMAIN h \ ids : Forget(h, ids)[i] = h[i]
  BY DEF Forget
<1> QED
  BY <1>1 DEF HeapOK, Evolves, Lives

LEMMA VisitedPresent ==
  ASSUME NEW h, NEW id
  PROVE  Visited(h, id) \subseteq DOMAIN h
  BY DEF Visited

LEMMA DecAllHeap ==
  ASSUME NEW h, NEW n, HeapOK(h, n), NEW ids
  PROVE  /\ Evolves(h, n, DecAll(h, ids), n)
         /\ Lives(h, DecAll(h, ids), {i \in ids : ~dec_strong(h[i]).alive})
<1> DEFINE g == DecAll(h, ids)
<1>1. DOMAIN g = DOMAIN h /\ \A i \in DOMAIN h : g[i] = IF i \in ids THEN dec_strong(h[i]) ELSE h[i]
  BY DEF DecAll
<1> HIDE DEF g
<1>2. \A i \in DOMAIN h :
        g[i] \in HeapObject /\ (g[i].alive <=> g[i].strong > 0) /\ (g[i].alive => h[i].alive)
  BY <1>1, DecObject DEF HeapOK
<1>3. Evolves(h, n, g, n)
  BY <1>1, <1>2 DEF HeapOK, Evolves
<1>4. Lives(h, g, {i \in ids : ~dec_strong(h[i]).alive})
  BY <1>1 DEF Lives
<1> QED
  BY <1>3, <1>4 DEF g

LEMMA DropHeap ==
  ASSUME NEW h, NEW n, HeapOK(h, n), NEW id
  PROVE  /\ Evolves(h, n, dec_object_strong_recursive(h, id), n)
         /\ Lives(h, dec_object_strong_recursive(h, id), Dying(h, id))
<1> DEFINE V == Visited(h, id)
           g == DecAll(h, V)
           k == dec_object_strong_recursive(h, id)
<1>1. Evolves(h, n, g, n) /\ Lives(h, g, Dying(h, id))
  BY DecAllHeap DEF Dying
<1>2. k = RemoveRoot(g, id)
  BY DEF dec_object_strong_recursive
<1> HIDE DEF V, g, k
<1>3. HeapOK(g, n) /\ n \in Nat
  BY <1>1 DEF Evolves, HeapOK
<1>4. Evolves(g, n, k, n) /\ Lives(g, k, {})
  <2>1. CASE k = g
    BY <1>3, <2>1 DEF Evolves, Lives
  <2>2. CASE id \in DOMAIN g /\ ~g[id].alive /\ k = Forget(g, {id})
    <3>1. \A i \in DOMAIN g \cap {id} : ~g[i].alive
      BY <2>2
    <3> QED
      BY <1>3, <2>2, <3>1, ForgetHeap
  <2> QED
    BY <1>2, <2>1, <2>2 DEF RemoveRoot
<1>5. Evolves(h, n, k, n)
  BY <1>1, <1>3, <1>4, EvolvesFurther
<1>6. Lives(h, k, Dying(h, id))
  BY <1>1, <1>4 DEF Lives
<1> QED
  BY <1>5, <1>6 DEF k

LEMMA ForceHeap ==
  ASSUME NEW h, NEW n, HeapOK(h, n), NEW id
  PROVE  Evolves(h, n, ForceToOne(h, id), n) /\ Lives(h, ForceToOne(h, id), {})
<1> DEFINE g == ForceToOne(h, id)
<1>1. DOMAIN g = DOMAIN h /\ \A i \in DOMAIN h : g[i] = IF i = id THEN force_strong_to_one(h[i]) ELSE h[i]
  BY DEF ForceToOne
<1> HIDE DEF g
<1>2. \A i \in DOMAIN h :
        g[i] \in HeapObject /\ (g[i].alive <=> g[i].strong > 0) /\ (g[i].alive <=> h[i].alive)
  BY <1>1, ForceObject DEF HeapOK
<1> QED
  BY <1>1, <1>2 DEF g, HeapOK, Evolves, Lives

LEMMA SweepHeap ==
  ASSUME NEW h, NEW n, HeapOK(h, n)
  PROVE  Evolves(h, n, debug_sweep_dead(h), n) /\ Lives(h, debug_sweep_dead(h), {})
<1> DEFINE ids == {i \in DOMAIN h : ~h[i].alive /\ h[i].weak = 0 /\ ~Referenced(h, i)}
<1>1. \A i \in DOMAIN h \cap ids : ~h[i].alive
  OBVIOUS
<1>2. debug_sweep_dead(h) = Forget(h, ids)
  BY DEF debug_sweep_dead
<1> HIDE DEF ids
<1> QED
  BY <1>1, <1>2, ForgetHeap

LEMMA NormalizeHeap ==
  ASSUME NEW h, NEW n, HeapOK(h, n)
  PROVE  Evolves(h, n, Normalize(h), n) /\ Lives(h, Normalize(h), {})
<1> DEFINE g == Normalize(h)
<1>1. DOMAIN g = DOMAIN h
      /\ \A i \in DOMAIN h : g[i] = [h[i] EXCEPT !.alive = h[i].alive /\ h[i].strong > 0]
  BY DEF Normalize
<1> HIDE DEF g
<1>2. ASSUME NEW i \in DOMAIN h PROVE g[i] = h[i]
  <2>1. (h[i].alive /\ h[i].strong > 0) = h[i].alive
    BY DEF HeapOK, HeapObject
  <2> QED
    BY <1>1, <2>1 DEF HeapOK, HeapObject
<1> QED
  BY <1>1, <1>2 DEF g, HeapOK, Evolves, Lives

LEMMA PurgeHeap ==
  ASSUME NEW h, NEW n, HeapOK(h, n), NEW arena
  PROVE  Evolves(h, n, PurgeArena(h, arena), n) /\ Lives(h, PurgeArena(h, arena), {})
<1> DEFINE dead == {i \in DOMAIN h : h[i].arena = arena /\ ~h[i].alive /\ h[i].weak = 0}
           a == Forget(h, dead)
           b == debug_sweep_dead(a)
           c == Normalize(b)
           d == debug_sweep_dead(c)
<1>1. \A i \in DOMAIN h \cap dead : ~h[i].alive
  OBVIOUS
<1>2. PurgeArena(h, arena) = d
  BY DEF PurgeArena
<1> HIDE DEF dead
<1>3. n \in Nat
  BY DEF HeapOK
<1>4. Evolves(h, n, a, n) /\ Lives(h, a, {})
  BY <1>1, ForgetHeap
<1> HIDE DEF a
<1>5. Evolves(a, n, b, n) /\ Lives(a, b, {})
  BY <1>4, SweepHeap DEF Evolves
<1> HIDE DEF b
<1>6. Evolves(b, n, c, n) /\ Lives(b, c, {})
  BY <1>5, NormalizeHeap DEF Evolves
<1> HIDE DEF c
<1>7. Evolves(c, n, d, n) /\ Lives(c, d, {})
  BY <1>6, SweepHeap DEF Evolves
<1> HIDE DEF d
<1>8. Evolves(h, n, b, n) /\ Lives(h, b, {})
  BY <1>3, <1>4, <1>5, EvolvesFurther, LivesFurther
<1>9. Evolves(h, n, c, n) /\ Lives(h, c, {})
  BY <1>3, <1>6, <1>8, EvolvesFurther, LivesFurther
<1> QED
  BY <1>2, <1>3, <1>7, <1>9, EvolvesFurther, LivesFurther

-----------------------------------------------------------------------------
(* Promotion. *)

LEMMA PresentFinite ==
  ASSUME NEW h, NEW n, HeapOK(h, n), NEW S \in SUBSET DOMAIN h
  PROVE  IsFiniteSet(S) /\ Cardinality(S) \in Nat
<1>1. IsFiniteSet(1..(n - 1))
  BY FS_Interval DEF HeapOK
<1>2. S \subseteq 1..(n - 1)
  BY DEF HeapOK
<1> QED
  BY <1>1, <1>2, FS_Subset, FS_CardinalityType

\* Every copy takes a free id, below the next one after the promotion.
LEMMA CopyRange ==
  ASSUME NEW h, NEW n, HeapOK(h, n), NEW E \in SUBSET DOMAIN h, NEW i \in DOMAIN h
  PROVE  /\ CopyOf(E, n, i) \in Nat
         /\ i \in E => CopyOf(E, n, i) \in n..(n + Cardinality(E) - 1)
<1> DEFINE older == {j \in E : j < i}
<1>1. IsFiniteSet(E) /\ Cardinality(E) \in Nat /\ n \in Nat
  BY PresentFinite DEF HeapOK
<1>2. older \in SUBSET E
  OBVIOUS
<1>3. i \notin older
  BY DEF HeapOK
<1>4. CopyOf(E, n, i) = n + Cardinality(older)
  BY DEF CopyOf
<1> HIDE DEF older
<1>5. Cardinality(older) \in Nat /\ Cardinality(older) <= Cardinality(E)
  BY <1>1, <1>2, FS_Subset, FS_CardinalityType
<1>6. i \in E => Cardinality(older) # Cardinality(E)
  BY <1>1, <1>2, <1>3, FS_Subset
<1> QED
  BY <1>1, <1>4, <1>5, <1>6

LEMMA PromotedId ==
  ASSUME NEW h, NEW n, HeapOK(h, n), NEW E \in SUBSET DOMAIN h, NEW i \in Nat
  PROVE  Promoted(E, n, i) \in Nat
<1>1. CASE i \in E
  BY <1>1, CopyRange DEF Promoted
<1>2. CASE i \notin E
  BY <1>2 DEF Promoted
<1> QED
  BY <1>1, <1>2

LEMMA EscapingPresent ==
  ASSUME NEW h, NEW target, NEW id
  PROVE  Escaping(h, target, id) \in SUBSET DOMAIN h
  BY DEF Escaping

LEMMA Promotion ==
  ASSUME NEW h, NEW n, HeapOK(h, n), NEW target \in Nat, NEW id \in Nat
  PROVE  /\ Evolves(h, n, PromoteHeap(h, n, target, id), PromoteNext(h, n, target, id))
         /\ Lives(h, PromoteHeap(h, n, target, id), {})
         /\ promote_if_escaping(h, n, target, id) \in Nat
<1> DEFINE E == Escaping(h, target, id)
           Copies == {CopyOf(E, n, i) : i \in E}
           Source(c) == CHOOSE i \in E : CopyOf(E, n, i) = c
           Object(i) == NewObject(target, Promoted(E, n, h[i].kid))
           Copy(i) == IF i = id THEN Object(i) ELSE inc_strong(Object(i))
           Kept == {h[i].kid : i \in E} \ E
           g == PromoteHeap(h, n, target, id)
           m == PromoteNext(h, n, target, id)
<1>1. E \in SUBSET DOMAIN h
  BY EscapingPresent
<1>2. g = [c \in DOMAIN h \cup Copies |->
             IF c \in Copies THEN Copy(Source(c))
             ELSE IF c \in Kept THEN inc_strong(h[c]) ELSE h[c]]
  BY DEF PromoteHeap
<1>3. m = n + Cardinality(E)
  BY DEF PromoteNext
<1>4. promote_if_escaping(h, n, target, id) = Promoted(E, n, id)
  BY DEF promote_if_escaping
<1> HIDE DEF E
<1>5. promote_if_escaping(h, n, target, id) \in Nat
  BY <1>1, <1>4, PromotedId
<1>6. Cardinality(E) \in Nat /\ n \in Nat \ {0}
  BY <1>1, PresentFinite DEF HeapOK
<1>7. Copies \subseteq n..(m - 1)
  <2> SUFFICES ASSUME NEW i \in E PROVE CopyOf(E, n, i) \in n..(m - 1)
    OBVIOUS
  <2>1. CopyOf(E, n, i) \in n..(n + Cardinality(E) - 1)
    BY <1>1, CopyRange
  <2> QED
    BY <1>3, <1>6, <2>1
<1>8. \A c \in Copies : Source(c) \in E
  OBVIOUS
<1>9. \A i \in E : Copy(i) \in HeapObject /\ (Copy(i).alive <=> Copy(i).strong > 0)
  <2> TAKE i \in E
  <2>1. h[i].kid \in Nat
    BY <1>1 DEF HeapOK, HeapObject
  <2>2. Promoted(E, n, h[i].kid) \in Nat
    BY <1>1, <2>1, PromotedId
  <2>3. Object(i) \in HeapObject /\ Object(i).alive /\ Object(i).strong > 0
    BY <2>2, NewObjectOK
  <2> HIDE DEF Object
  <2> QED
    BY <2>3, IncObject
<1>10. \A c \in Copies : g[c] = Copy(Source(c))
  BY <1>2
<1>11. \A c \in DOMAIN h : c \notin Copies => g[c] = IF c \in Kept THEN inc_strong(h[c]) ELSE h[c]
  BY <1>2
<1>12. DOMAIN g = DOMAIN h \cup Copies
  BY <1>2
<1> HIDE DEF Copy, Source, Kept, g, m, Copies
<1>13. \A c \in Copies : g[c] \in HeapObject /\ (g[c].alive <=> g[c].strong > 0)
  BY <1>8, <1>9, <1>10
<1>14. \A c \in DOMAIN h : c \notin Copies
  BY <1>6, <1>7 DEF HeapOK
<1>15. \A c \in DOMAIN h : /\ g[c] \in HeapObject /\ (g[c].alive <=> g[c].strong > 0)
                           /\ g[c].alive <=> h[c].alive
  BY <1>11, <1>14, IncObject DEF HeapOK
<1>16. m \in Nat \ {0} /\ m >= n
  BY <1>3, <1>6
<1>17. HeapOK(g, m)
  <2>1. DOMAIN g \subseteq 1..(m - 1)
    <3>1. 1..(n - 1) \subseteq 1..(m - 1) /\ n..(m - 1) \subseteq 1..(m - 1)
      BY <1>6, <1>16
    <3>2. DOMAIN h \subseteq 1..(n - 1)
      BY DEF HeapOK
    <3> QED
      BY <1>7, <1>12, <3>1, <3>2
  <2> QED
    BY <1>12, <1>13, <1>15, <1>16, <2>1 DEF HeapOK
<1>18. Evolves(h, n, g, m)
  <2>1. \A i \in 1..(n - 1) : i \notin Copies
    BY <1>6, <1>7
  <2> QED
    BY <1>12, <1>15, <1>16, <1>17, <2>1 DEF Evolves
<1>19. Lives(h, g, {})
  BY <1>12, <1>15 DEF Lives
<1> QED
  BY <1>5, <1>18, <1>19 DEF g, m

-----------------------------------------------------------------------------
(* Environments and the items of work. *)

Kinds == {"root", "block", "loop", "performant", "call", "for"}

Ops == {"drop", "bind", "arena", "purge", "leave"}

LEMMA NewEnvOK ==
  ASSUME NEW kind \in Kinds, NEW arena \in Nat
  PROVE  NewEnv(kind, arena) \in Env
<1>1. << >> \in Seq(Nat) /\ [x \in Vars |-> None] \in [Vars -> Nat] /\ None \in Nat
  BY DEF None
<1>2. Flag \in Vars
  BY ArcAssumption
<1> QED
  BY <1>1, <1>2 DEF NewEnv, Env, Kinds

LEMMA RemoveHandleOK ==
  ASSUME NEW hs \in Seq(Nat), NEW id
  PROVE  RemoveHandle(hs, id) \in Seq(Nat)
<1> DEFINE k == CHOOSE i \in DOMAIN hs : hs[i] = id /\ \A j \in 1..(i - 1) : hs[j] # id
           shorter == [i \in 1..(Len(hs) - 1) |-> IF i < k THEN hs[i] ELSE hs[i + 1]]
<1>1. CASE \E i \in DOMAIN hs : hs[i] = id
  <2>1. Len(hs) \in Nat /\ Len(hs) # 0
    BY <1>1
  <2>2. \A i \in 1..(Len(hs) - 1) : hs[i] \in Nat /\ hs[i + 1] \in Nat
    BY <2>1
  <2>3. RemoveHandle(hs, id) = shorter
    BY <1>1 DEF RemoveHandle
  <2> HIDE DEF k
  <2>4. shorter \in [1..(Len(hs) - 1) -> Nat]
    BY <2>2
  <2>5. Len(hs) - 1 \in Nat
    BY <2>1
  <2> QED
    BY <2>3, <2>4, <2>5
<1>2. CASE ~\E i \in DOMAIN hs : hs[i] = id
  BY <1>2 DEF RemoveHandle
<1> QED
  BY <1>1, <1>2

LEMMA DefineOK ==
  ASSUME NEW env \in Env, NEW x \in Vars, NEW id \in Nat
  PROVE  define(env, x, id) \in Env
<1> DEFINE kept == IF env.values[x] # None THEN RemoveHandle(env.handles, env.values[x])
                   ELSE env.handles
           hs == IF id # None THEN Append(kept, id) ELSE kept
           vs == [env.values EXCEPT ![x] = id]
<1>1. env.handles \in Seq(Nat) /\ env.values \in [Vars -> Nat]
  BY DEF Env
<1>2. kept \in Seq(Nat)
  BY <1>1, RemoveHandleOK
<1>3. define(env, x, id) = [env EXCEPT !.values = vs, !.handles = hs]
  BY DEF define, Env
<1> HIDE DEF kept
<1>4. hs \in Seq(Nat)
  BY <1>2
<1>5. vs \in [Vars -> Nat]
  BY <1>1
<1> HIDE DEF hs, vs
<1> QED
  BY <1>3, <1>4, <1>5 DEF Env

LEMMA DoOK ==
  ASSUME NEW op \in Ops, NEW arg \in Nat
  PROVE  Do(op, arg) \in Item
  BY ArcAssumption DEF Do, Item, Ops

LEMMA BindItemOK ==
  ASSUME NEW x \in Vars, NEW id \in Nat
  PROVE  BindItem(x, id) \in Item
  BY DEF BindItem, Item

LEMMA RebindOK ==
  ASSUME NEW env \in Env, NEW x \in Vars, NEW id \in Nat
  PROVE  Rebind(env, x, id) \in Seq(Item)
<1>1. env.values[x] \in Nat
  BY DEF Env
<1>2. Do("drop", env.values[x]) \in Item
  BY <1>1, DoOK DEF Ops
<1>3. BindItem(x, id) \in Item
  BY BindItemOK
<1>4. <<Do("drop", env.values[x])>> \in Seq(Item) /\ << >> \in Seq(Item)
      /\ <<BindItem(x, id)>> \in Seq(Item)
  BY <1>2, <1>3
<1> QED
  BY <1>4 DEF Rebind

LEMMA TeardownOK ==
  ASSUME NEW env \in Env
  PROVE  Teardown(env) \in Seq(Item)
<1>1. env.handles \in Seq(Nat) /\ env.own \in Nat
  BY DEF Env
<1>2. \A i \in DOMAIN env.handles : Do("drop", env.handles[i]) \in Item
  BY <1>1, DoOK DEF Ops
<1>3. Drops(env) \in [1..Len(env.handles) -> Item] /\ Len(env.handles) \in Nat
  BY <1>1, <1>2 DEF Drops
<1>4. Drops(env) \in Seq(Item)
  BY <1>3
<1>5. Do("arena", env.own) \in Item /\ Do("leave", None) \in Item
  BY <1>1, DoOK DEF Ops, None
<1>6. <<Do("arena", env.own)>> \in Seq(Item) /\ <<Do("leave", None)>> \in Seq(Item)
      /\ << >> \in Seq(Item)
  BY <1>5
<1> QED
  BY <1>4, <1>6 DEF Teardown

-----------------------------------------------------------------------------
(* The inductive invariant, and what single steps keep of it. *)

RestOK ==
  /\ nextArena \in Nat \ {0} /\ current \in Nat /\ arenaStack \in Seq(Nat)
  /\ finalizers \subseteq Nat
  /\ envs \in Seq(Env) /\ envs # << >>
  /\ ret \in [on: BOOLEAN, val: Nat]
  /\ doomed \subseteq Nat
  /\ work \in Seq(Item)

IInv == HeapOK(heap, next) /\ RestOK

LEMMA IInvMeans == IInv <=> TypeOK /\ AliveIffStrong
  BY DEF IInv, HeapOK, RestOK, TypeOK, AliveIffStrong

LEMMA SameHeap ==
  ASSUME NEW h, NEW n, HeapOK(h, n)
  PROVE  Evolves(h, n, h, n) /\ Lives(h, h, {})
  BY DEF HeapOK, Evolves, Lives

LEMMA TopOK ==
  ASSUME RestOK
  PROVE  /\ Depth \in Nat \ {0} /\ Top \in Env
         /\ \A i \in 1..Depth : envs[i] \in Env
<1>1. Depth \in Nat \ {0} /\ \A i \in 1..Depth : envs[i] \in Env
  BY DEF RestOK, Depth
<1> QED
  BY <1>1 DEF Top

LEMMA VisibleOK ==
  ASSUME RestOK, NEW id \in Visible
  PROVE  id \in Nat
<1>1. PICK x \in Vars : id \in Lookup(x)
  BY DEF Visible
<1>2. PICK i \in Chain : id = envs[i].values[x]
  BY <1>1 DEF Lookup
<1>3. i \in 1..Depth
  BY <1>2 DEF Chain
<1>4. envs[i] \in Env
  BY <1>3, TopOK
<1> QED
  BY <1>2, <1>4 DEF Env

LEMMA LetPromotedOK ==
  ASSUME NEW h, NEW n, HeapOK(h, n), NEW env \in Env, NEW x \in Vars, NEW id \in Nat,
         LetPromoted(h, n, env, x, id)
  PROVE  /\ Evolves(h, n, heap', next') /\ Lives(h, heap', {})
         /\ work' \in Seq(Item)
<1>1. env.arena \in Nat
  BY DEF Env
<1>2. Evolves(h, n, heap', next') /\ Lives(h, heap', {})
      /\ promote_if_escaping(h, n, env.arena, id) \in Nat
  BY <1>1, Promotion DEF LetPromoted
<1>3. work' = Rebind(env, x, promote_if_escaping(h, n, env.arena, id))
  BY DEF LetPromoted
<1> QED
  BY <1>2, <1>3, RebindOK

LEMMA Ranges ==
  ASSUME NEW a \in Nat \ {0}, NEW b \in Nat, b >= a
  PROVE  /\ 1..(a - 1) \subseteq 1..(b - 1) /\ a..(b - 1) \subseteq 1..(b - 1)
         /\ \A i \in 1..(a - 1) : i \notin a..(b - 1)
  OBVIOUS

\* A finalizer's ids are fresh, and its handles move to the root.
LEMMA RunFinalizersOK ==
  ASSUME RestOK, NEW h, HeapOK(h, next), NEW ran, IsFiniteSet(ran), RunFinalizers(ran, h)
  PROVE  /\ Evolves(h, next, heap', next') /\ Lives(h, heap', {})
         /\ finalizers' = finalizers \ ran
         /\ envs' \in Seq(Env) /\ envs' # << >>
<1> DEFINE k == Cardinality(ran)
           Bnd(i) == next + IdsPerFinalizer * i - 1
           kept == {Bnd(i) : i \in 1..k}
           new == next..Bnd(k)
<1>1. k \in Nat
  BY FS_CardinalityType
<1>2. next \in Nat \ {0}
  BY DEF HeapOK
<1>3. heap' = [i \in DOMAIN h \cup new |->
                 IF i \notin new THEN h[i]
                 ELSE NewObject(IF i \in kept THEN None ELSE current, None)]
  BY DEF RunFinalizers
<1>4. next' = Bnd(k) + 1 /\ finalizers' = finalizers \ ran
  BY DEF RunFinalizers
<1>5. envs' = IF k = 0 THEN envs
              ELSE [envs EXCEPT ![1].values[Flag] = Bnd(k),
                                ![1].handles = @ \o [i \in 1..k |-> Bnd(i)]]
  BY DEF RunFinalizers
<1>6. IdsPerFinalizer \in {1, 2}
  BY DEF IdsPerFinalizer
<1>7. \A i \in 1..k : Bnd(i) \in Nat
  BY <1>2, <1>6
<1>8. next' \in Nat \ {0} /\ next' >= next /\ new = next..(next' - 1)
  <2>1. CASE IdsPerFinalizer = 1
    BY <1>1, <1>2, <1>4, <2>1
  <2>2. CASE IdsPerFinalizer = 2
    BY <1>1, <1>2, <1>4, <2>2
  <2> QED
    BY <1>6, <2>1, <2>2
<1>9. \A i \in new : NewObject(IF i \in kept THEN None ELSE current, None) \in HeapObject
                     /\ NewObject(IF i \in kept THEN None ELSE current, None).alive
                     /\ NewObject(IF i \in kept THEN None ELSE current, None).strong > 0
  BY NewObjectOK DEF RestOK, None
<1>10. ASSUME k # 0 PROVE envs' \in Seq(Env) /\ envs' # << >>
  <2> DEFINE hs == envs[1].handles \o [i \in 1..k |-> Bnd(i)]
             vs == [envs[1].values EXCEPT ![Flag] = Bnd(k)]
             root == [envs[1] EXCEPT !.values = vs, !.handles = hs]
  <2>1. envs[1] \in Env /\ Depth \in Nat \ {0}
    BY TopOK
  <2>2. [i \in 1..k |-> Bnd(i)] \in [1..k -> Nat]
    BY <1>7
  <2>3. [i \in 1..k |-> Bnd(i)] \in Seq(Nat)
    <3> HIDE DEF k, Bnd
    <3> QED
      BY <1>1, <2>2
  <2>4. Bnd(k) \in Nat
    BY <1>1, <1>7, <1>10
  <2> HIDE DEF k, Bnd
  <2>5. hs \in Seq(Nat)
    BY <2>1, <2>3 DEF Env
  <2>6. vs \in [Vars -> Nat]
    BY <2>1, <2>4 DEF Env
  <2>7. envs' = [envs EXCEPT ![1] = root]
    BY <1>5, <1>10, <2>1 DEF Env
  <2> HIDE DEF hs, vs
  <2>8. root \in Env
    BY <2>1, <2>5, <2>6 DEF Env
  <2> HIDE DEF root
  <2>9. envs \in Seq(Env) /\ Len(envs) \in Nat \ {0}
    BY <2>1 DEF Depth, RestOK
  <2> QED
    BY <2>7, <2>8, <2>9
<1>11. envs' \in Seq(Env) /\ envs' # << >>
  BY <1>5, <1>10 DEF RestOK
<1> HIDE DEF kept, new
<1>18. next' \in Nat \ {0} /\ next' >= next
  BY <1>8
<1>12. DOMAIN heap' = DOMAIN h \cup new
  BY <1>3
<1>13. \A i \in new : heap'[i] \in HeapObject /\ (heap'[i].alive <=> heap'[i].strong > 0)
  BY <1>3, <1>9
<1>14. \A i \in DOMAIN h : i \notin new
  BY <1>8 DEF HeapOK
<1>15. \A i \in DOMAIN h : heap'[i] = h[i]
  BY <1>3, <1>14
<1>16. HeapOK(heap', next')
  <2>1. 1..(next - 1) \subseteq 1..(next' - 1) /\ new \subseteq 1..(next' - 1)
    BY <1>2, <1>8, <1>18, Ranges
  <2>2. DOMAIN heap' \subseteq 1..(next' - 1)
    BY <1>12, <2>1 DEF HeapOK
  <2> QED
    BY <1>8, <1>12, <1>13, <1>15, <2>2 DEF HeapOK
<1>17. \A i \in 1..(next - 1) : i \notin new
  BY <1>2, <1>8, <1>18, Ranges
<1> QED
  BY <1>4, <1>8, <1>11, <1>12, <1>15, <1>16, <1>17 DEF Evolves, Lives

-----------------------------------------------------------------------------
(* The actions. *)

StepOK ==
  /\ Evolves(heap, next, heap', next')
  /\ RestOK'
  /\ FinalizersWait => FinalizersWait'

LEMMA WaitKept ==
  ASSUME FinalizersWait, NEW ids, Lives(heap, heap', ids), finalizers' \subseteq finalizers \ ids
  PROVE  FinalizersWait'
  BY DEF FinalizersWait, Lives

LEMMA HeapUntouched ==
  ASSUME IInv, RestOK', UNCHANGED <<heap, next, finalizers>>
  PROVE  StepOK
  BY SameHeap DEF IInv, StepOK, FinalizersWait

LEMMA LetNewStep ==
  ASSUME IInv, NEW x \in Vars, NEW kid \in Nat, LetNew(x, kid)
  PROVE  StepOK
<1> DEFINE h == heapify_composite(heap, next, current, kid)
<1>1. Top \in Env /\ next \in Nat /\ next + 1 \in Nat
  BY TopOK DEF IInv, HeapOK
<1>2. Evolves(heap, next, h, next + 1) /\ Lives(heap, h, {})
  BY HeapifyHeap DEF IInv, RestOK
<1>3. LetPromoted(h, next + 1, Top, x, next)
  BY DEF LetNew
<1> HIDE DEF h
<1>4. HeapOK(h, next + 1)
  BY <1>2 DEF Evolves
<1>5. Evolves(h, next + 1, heap', next') /\ Lives(h, heap', {}) /\ work' \in Seq(Item)
  BY <1>1, <1>3, <1>4, LetPromotedOK
<1>6. next' \in Nat
  BY <1>5 DEF Evolves, HeapOK
<1>7. Evolves(heap, next, heap', next') /\ Lives(heap, heap', {})
  BY <1>1, <1>2, <1>5, <1>6, EvolvesFurther, LivesFurther
<1>8. UNCHANGED <<nextArena, current, arenaStack, finalizers, envs, ret, doomed>>
  BY DEF LetNew
<1>9. RestOK'
  BY <1>5, <1>8 DEF IInv, RestOK
<1>10. FinalizersWait => FinalizersWait'
  BY <1>7, <1>8, WaitKept
<1> QED
  BY <1>7, <1>9, <1>10 DEF StepOK

LEMMA LetAliasStep ==
  ASSUME IInv, NEW x \in Vars, NEW id \in Nat, LetAlias(x, id)
  PROVE  StepOK
<1>1. Evolves(heap, next, heap', next') /\ Lives(heap, heap', {}) /\ work' \in Seq(Item)
  BY LetPromotedOK, TopOK DEF IInv, LetAlias
<1>2. UNCHANGED <<nextArena, current, arenaStack, finalizers, envs, ret, doomed>>
  BY DEF LetAlias
<1>3. RestOK'
  BY <1>1, <1>2 DEF IInv, RestOK
<1>4. FinalizersWait => FinalizersWait'
  BY <1>1, <1>2, WaitKept
<1> QED
  BY <1>1, <1>3, <1>4 DEF StepOK

LEMMA WeakNewStep ==
  ASSUME IInv, NEW id \in Nat, WeakNew(id)
  PROVE  StepOK
<1>1. heap' = [heap EXCEPT ![id] = inc_weak(heap[id])] /\ next' = next /\ id \in DOMAIN heap
  BY DEF WeakNew
<1>2. heap[id] \in HeapObject /\ (heap[id].alive <=> heap[id].strong > 0)
  BY <1>1 DEF IInv, HeapOK
<1>3. /\ inc_weak(heap[id]) \in HeapObject
      /\ inc_weak(heap[id]).alive = heap[id].alive
      /\ inc_weak(heap[id]).strong = heap[id].strong
  BY <1>2 DEF inc_weak, HeapObject
<1>4. DOMAIN heap' = DOMAIN heap
      /\ \A i \in DOMAIN heap : heap'[i] = IF i = id THEN inc_weak(heap[id]) ELSE heap[i]
  BY <1>1
<1>5. \A i \in DOMAIN heap :
        heap'[i] \in HeapObject /\ (heap'[i].alive <=> heap'[i].strong > 0)
          /\ heap'[i].alive = heap[i].alive
  BY <1>2, <1>3, <1>4 DEF IInv, HeapOK
<1>6. Evolves(heap, next, heap', next') /\ Lives(heap, heap', {})
  BY <1>1, <1>4, <1>5 DEF IInv, HeapOK, Evolves, Lives
<1>7. UNCHANGED <<nextArena, current, arenaStack, finalizers, envs, ret, doomed, work>>
  BY DEF WeakNew
<1>8. RestOK'
  BY <1>7 DEF IInv, RestOK
<1>9. FinalizersWait => FinalizersWait'
  BY <1>6, <1>7, WaitKept
<1> QED
  BY <1>6, <1>8, <1>9 DEF StepOK

LEMMA OnFinalizeStep ==
  ASSUME IInv, NEW id \in Nat, OnFinalize(id)
  PROVE  StepOK
<1>1. UNCHANGED <<heap, next, nextArena, current, arenaStack, envs, ret, doomed, work>>
  BY DEF OnFinalize
<1>2. finalizers' = finalizers \cup {id} /\ id \in DOMAIN heap /\ heap[id].alive
  BY DEF OnFinalize
<1>3. RestOK'
  BY <1>1, <1>2 DEF IInv, RestOK
<1>4. FinalizersWait => FinalizersWait'
  BY <1>1, <1>2 DEF FinalizersWait
<1>5. Evolves(heap, next, heap', next')
  BY <1>1, SameHeap DEF IInv
<1> QED
  BY <1>3, <1>4, <1>5 DEF StepOK

\* Opening scopes adds environments to the chain.
LEMMA OpenOK ==
  ASSUME RestOK, NEW es \in Seq(Env), NEW own, Open(es, own)
  PROVE  /\ envs' \in Seq(Env) /\ envs' # << >> /\ nextArena' \in Nat \ {0}
         /\ UNCHANGED <<finalizers, ret, work, doomed>>
<1>1. envs \in Seq(Env) /\ envs # << >> /\ nextArena \in Nat \ {0}
  BY DEF RestOK
<1>2. envs' = envs \o es /\ nextArena' = (IF own = None THEN nextArena ELSE nextArena + 1)
      /\ UNCHANGED <<finalizers, ret, work, doomed>>
  BY DEF Open
<1>3. envs \o es \in Seq(Env) /\ envs \o es # << >>
  BY <1>1
<1>4. nextArena' \in Nat \ {0}
  BY <1>1, <1>2
<1> QED
  BY <1>2, <1>3, <1>4

LEMMA EnterBlockStep ==
  ASSUME IInv, EnterBlock
  PROVE  StepOK
<1>1. Top.arena \in Nat
  BY TopOK DEF IInv, Env
<1>2. NewEnv("block", Top.arena) \in Env
  BY <1>1, NewEnvOK DEF Kinds
<1>3. Open(<<NewEnv("block", Top.arena)>>, None)
      /\ UNCHANGED <<heap, next, current, arenaStack>>
  BY DEF EnterBlock
<1>4. /\ envs' \in Seq(Env) /\ envs' # << >> /\ nextArena' \in Nat \ {0}
      /\ UNCHANGED <<finalizers, ret, work, doomed>>
  <2>1. <<NewEnv("block", Top.arena)>> \in Seq(Env)
    BY <1>2
  <2> QED
    BY <1>3, <2>1, OpenOK DEF IInv
<1>5. RestOK'
  BY <1>3, <1>4 DEF IInv, RestOK
<1> QED
  BY <1>3, <1>4, <1>5, HeapUntouched

LEMMA EnterLoopStep ==
  ASSUME IInv, EnterLoop
  PROVE  StepOK
<1> DEFINE e == [NewEnv("loop", Top.arena) EXCEPT !.own = nextArena]
<1>1. Top.arena \in Nat /\ nextArena \in Nat
  BY TopOK DEF IInv, Env, RestOK
<1>2. NewEnv("loop", Top.arena) \in Env
  BY <1>1, NewEnvOK DEF Kinds
<1>3. e \in Env
  BY <1>1, <1>2 DEF Env
<1>4. Open(<<e>>, nextArena) /\ arenaStack' = Append(arenaStack, nextArena)
      /\ current' = nextArena /\ UNCHANGED <<heap, next>>
  BY DEF EnterLoop
<1> HIDE DEF e
<1>5. /\ envs' \in Seq(Env) /\ envs' # << >> /\ nextArena' \in Nat \ {0}
      /\ UNCHANGED <<finalizers, ret, work, doomed>>
  <2>1. <<e>> \in Seq(Env)
    BY <1>3
  <2> QED
    BY <1>4, <2>1, OpenOK DEF IInv
<1>6. RestOK'
  BY <1>1, <1>4, <1>5 DEF IInv, RestOK
<1> QED
  BY <1>4, <1>5, <1>6, HeapUntouched

LEMMA EnterPerformantStep ==
  ASSUME IInv, EnterPerformant
  PROVE  StepOK
<1> DEFINE e == [NewEnv("performant", nextArena) EXCEPT !.own = nextArena, !.saved = current]
<1>1. nextArena \in Nat /\ current \in Nat
  BY DEF IInv, RestOK
<1>2. NewEnv("performant", nextArena) \in Env
  BY <1>1, NewEnvOK DEF Kinds
<1>3. e \in Env
  BY <1>1, <1>2 DEF Env
<1>4. Open(<<e>>, nextArena) /\ current' = nextArena /\ UNCHANGED <<heap, next, arenaStack>>
  BY DEF EnterPerformant
<1> HIDE DEF e
<1>5. /\ envs' \in Seq(Env) /\ envs' # << >> /\ nextArena' \in Nat \ {0}
      /\ UNCHANGED <<finalizers, ret, work, doomed>>
  <2>1. <<e>> \in Seq(Env)
    BY <1>3
  <2> QED
    BY <1>4, <2>1, OpenOK DEF IInv
<1>6. RestOK'
  BY <1>1, <1>4, <1>5 DEF IInv, RestOK
<1> QED
  BY <1>4, <1>5, <1>6, HeapUntouched

LEMMA EnterCallStep ==
  ASSUME IInv, NEW x \in Vars, NEW param \in Vars, NEW id \in Nat, EnterCall(x, param, id)
  PROVE  StepOK
<1> DEFINE frame == [NewEnv("call", nextArena) EXCEPT !.own = nextArena, !.dest = x]
           body == NewEnv("block", nextArena)
<1>1. nextArena \in Nat
  BY DEF IInv, RestOK
<1>2. NewEnv("call", nextArena) \in Env /\ body \in Env
  BY <1>1, NewEnvOK DEF Kinds
<1>3. frame \in Env
  BY <1>1, <1>2 DEF Env
<1>4. Open(<<define(frame, param, id), body>>, nextArena)
      /\ arenaStack' = Append(arenaStack, nextArena)
      /\ current' = nextArena /\ UNCHANGED <<heap, next>>
  BY DEF EnterCall
<1> HIDE DEF frame, body
<1>5. <<define(frame, param, id), body>> \in Seq(Env)
  BY <1>2, <1>3, DefineOK
<1>6. /\ envs' \in Seq(Env) /\ envs' # << >> /\ nextArena' \in Nat \ {0}
      /\ UNCHANGED <<finalizers, ret, work, doomed>>
  BY <1>4, <1>5, OpenOK DEF IInv
<1>7. RestOK'
  BY <1>1, <1>4, <1>6 DEF IInv, RestOK
<1> QED
  BY <1>4, <1>6, <1>7, HeapUntouched

LEMMA EnterForStep ==
  ASSUME IInv, NEW x \in Vars, NEW id \in Nat, EnterFor(x, id)
  PROVE  StepOK
<1> DEFINE kid == heap[id].kid
           t == Top.arena
           frame == NewEnv("for", t)
           bound == promote_if_escaping(heap, next, t, kid)
           body == NewEnv("block", t)
<1>1. t \in Nat
  BY TopOK DEF IInv, Env
<1>2. kid \in Nat
  BY DEF IInv, HeapOK, HeapObject, EnterFor
<1>3. frame \in Env /\ body \in Env
  BY <1>1, NewEnvOK DEF Kinds
<1>4. /\ heap' = PromoteHeap(heap, next, t, kid) /\ next' = PromoteNext(heap, next, t, kid)
      /\ Open(<<define(frame, x, bound), body>>, None)
      /\ UNCHANGED <<current, arenaStack>>
  BY DEF EnterFor
<1> HIDE DEF kid, t, frame, body
<1>5. Evolves(heap, next, heap', next') /\ Lives(heap, heap', {}) /\ bound \in Nat
  BY <1>1, <1>2, <1>4, Promotion DEF IInv
<1> HIDE DEF bound
<1>6. <<define(frame, x, bound), body>> \in Seq(Env)
  BY <1>3, <1>5, DefineOK
<1>7. /\ envs' \in Seq(Env) /\ envs' # << >> /\ nextArena' \in Nat \ {0}
      /\ UNCHANGED <<finalizers, ret, work, doomed>>
  BY <1>4, <1>6, OpenOK DEF IInv
<1>8. RestOK'
  BY <1>4, <1>7 DEF IInv, RestOK
<1>9. FinalizersWait => FinalizersWait'
  BY <1>5, <1>7, WaitKept
<1> QED
  BY <1>5, <1>8, <1>9 DEF StepOK

LEMMA ExitStep ==
  ASSUME IInv, Exit
  PROVE  StepOK
<1>1. work' = Teardown(Top)
      /\ UNCHANGED <<heap, next, nextArena, current, arenaStack, finalizers, envs, ret, doomed>>
  BY DEF Exit
<1>2. work' \in Seq(Item)
  BY <1>1, TopOK, TeardownOK DEF IInv
<1>3. RestOK'
  BY <1>1, <1>2 DEF IInv, RestOK
<1> QED
  BY <1>1, <1>3, HeapUntouched

LEMMA ReturnStep ==
  ASSUME IInv, NEW id \in Nat, Return(id)
  PROVE  StepOK
<1>1. ret' = [on |-> TRUE, val |-> id]
      /\ UNCHANGED <<heap, next, nextArena, current, arenaStack, finalizers, envs, doomed, work>>
  BY DEF Return
<1>2. RestOK'
  BY <1>1 DEF IInv, RestOK
<1> QED
  BY <1>1, <1>2, HeapUntouched

\* A return promotes its value, counts it, or leaves it alone.
LEMMA UnwindStep ==
  ASSUME IInv, Unwind
  PROVE  StepOK
<1> DEFINE target == envs[Depth - 1].arena
           id == promote_if_escaping(heap, next, target, ret.val)
           promoted == PromoteHeap(heap, next, target, ret.val)
           m == PromoteNext(heap, next, target, ret.val)
<1>1. target \in Nat /\ ret.val \in Nat
  <2>1. Depth \in Nat /\ Depth > 1
    BY TopOK DEF IInv, Unwind
  <2>2. envs[Depth - 1] \in Env
    BY <2>1, TopOK DEF IInv
  <2> QED
    BY <2>2 DEF IInv, RestOK, Env
<1>2. /\ CASE Top.kind \in {"block", "loop"} ->
                /\ heap' = inc_heap_strong(promoted, id) /\ next' = m
                /\ ret' = [ret EXCEPT !.val = id]
           [] Top.kind = "call" ->
                /\ heap' = promoted /\ next' = m
                /\ ret' = [ret EXCEPT !.val = id]
           [] OTHER -> UNCHANGED <<heap, next, ret>>
      /\ work' = Teardown(Top)
      /\ UNCHANGED <<nextArena, current, arenaStack, finalizers, envs, doomed>>
  BY DEF Unwind
<1> HIDE DEF target
<1>3. Evolves(heap, next, promoted, m) /\ Lives(heap, promoted, {}) /\ id \in Nat
  BY <1>1, Promotion DEF IInv
<1> HIDE DEF id, promoted, m
<1>4. HeapOK(promoted, m) /\ m \in Nat
  BY <1>3 DEF Evolves, HeapOK
<1>5. /\ Evolves(promoted, m, inc_heap_strong(promoted, id), m)
      /\ Lives(promoted, inc_heap_strong(promoted, id), {})
  BY <1>4, IncHeap
<1>6. Evolves(heap, next, heap', next') /\ Lives(heap, heap', {})
  <2>1. CASE heap' = inc_heap_strong(promoted, id) /\ next' = m
    <3>1. next \in Nat
      BY DEF IInv, HeapOK
    <3> QED
      BY <1>3, <1>4, <1>5, <2>1, <3>1, EvolvesFurther, LivesFurther
  <2>2. CASE heap' = promoted /\ next' = m
    BY <1>3, <2>2
  <2>3. CASE UNCHANGED <<heap, next>>
    BY <2>3, SameHeap DEF IInv
  <2> QED
    BY <1>2, <2>1, <2>2, <2>3
<1>7. ret' \in [on: BOOLEAN, val: Nat]
  <2>1. ret \in [on: BOOLEAN, val: Nat]
    BY DEF IInv, RestOK
  <2>2. ret' = ret \/ ret' = [ret EXCEPT !.val = id]
    BY <1>2
  <2> QED
    BY <1>3, <2>1, <2>2
<1>8. work' \in Seq(Item)
  BY <1>2, TopOK, TeardownOK DEF IInv
<1>9. RestOK'
  BY <1>2, <1>7, <1>8 DEF IInv, RestOK
<1>10. FinalizersWait => FinalizersWait'
  BY <1>2, <1>6, WaitKept
<1> QED
  BY <1>6, <1>9, <1>10 DEF StepOK

-----------------------------------------------------------------------------
(* The items of work. *)

LEMMA ItemOK ==
  ASSUME RestOK, NEW op, Doing(op)
  PROVE  Item1 \in Item /\ Tail(work) \in Seq(Item) /\ Item1.arg \in Nat /\ Item1.var \in Vars
<1>1. work \in Seq(Item) /\ work # << >>
  BY DEF RestOK, Doing
<1>2. Head(work) \in Item /\ Tail(work) \in Seq(Item)
  BY <1>1
<1> QED
  BY <1>2 DEF Item1, Item

\* The finalizers of the objects that die run, and no others.
LEMMA DropAndFinalize ==
  ASSUME IInv, NEW h, Evolves(heap, next, h, next), Lives(heap, h, {}), NEW id,
         RunFinalizers(Dying(h, id) \cap finalizers, dec_object_strong_recursive(h, id))
  PROVE  /\ Evolves(heap, next, heap', next')
         /\ finalizers' \subseteq Nat /\ envs' \in Seq(Env) /\ envs' # << >>
         /\ FinalizersWait => FinalizersWait'
<1> DEFINE ran == Dying(h, id) \cap finalizers
           k == dec_object_strong_recursive(h, id)
<1>1. HeapOK(h, next) /\ next \in Nat
  BY DEF Evolves, HeapOK
<1>2. Evolves(h, next, k, next) /\ Lives(h, k, Dying(h, id))
  BY <1>1, DropHeap
<1>3. IsFiniteSet(ran)
  <2>1. ran \in SUBSET DOMAIN h
    BY VisitedPresent DEF Dying
  <2> HIDE DEF ran
  <2> QED
    BY <1>1, <2>1, PresentFinite
<1>4. RunFinalizers(ran, k)
  OBVIOUS
<1> HIDE DEF ran, k
<1>5. /\ Evolves(k, next, heap', next') /\ Lives(k, heap', {})
      /\ finalizers' = finalizers \ ran
      /\ envs' \in Seq(Env) /\ envs' # << >>
  BY <1>2, <1>3, <1>4, RunFinalizersOK DEF IInv, Evolves
<1>6. next' \in Nat
  BY <1>5 DEF Evolves, HeapOK
<1>7. Evolves(h, next, heap', next')
  BY <1>1, <1>2, <1>5, <1>6, EvolvesFurther
<1>8. Evolves(heap, next, heap', next')
  BY <1>1, <1>6, <1>7, EvolvesFurther
<1>9. Lives(heap, heap', Dying(h, id))
  BY <1>2, <1>5 DEF Lives
<1>10. finalizers' \subseteq finalizers \ Dying(h, id)
  BY <1>5 DEF ran
<1>11. finalizers' \subseteq Nat
  BY <1>5 DEF IInv, RestOK
<1> QED
  BY <1>5, <1>8, <1>9, <1>10, <1>11, WaitKept

LEMMA DropStep ==
  ASSUME IInv, Drop
  PROVE  StepOK
<1>1. Evolves(heap, next, heap, next) /\ Lives(heap, heap, {})
  BY SameHeap DEF IInv
<1>2. /\ RunFinalizers(Dying(heap, Item1.arg) \cap finalizers,
                       dec_object_strong_recursive(heap, Item1.arg))
      /\ work' = Tail(work) /\ UNCHANGED <<nextArena, current, arenaStack, ret, doomed>>
  BY DEF Drop
<1>3. /\ Evolves(heap, next, heap', next')
      /\ finalizers' \subseteq Nat /\ envs' \in Seq(Env) /\ envs' # << >>
      /\ FinalizersWait => FinalizersWait'
  BY <1>1, <1>2, DropAndFinalize
<1>4. work' \in Seq(Item)
  BY <1>2, ItemOK DEF IInv, Drop
<1>5. RestOK'
  BY <1>2, <1>3, <1>4 DEF IInv, RestOK
<1> QED
  BY <1>3, <1>5 DEF StepOK

LEMMA KillStep ==
  ASSUME IInv, NEW id \in doomed, Kill(id)
  PROVE  StepOK
<1> DEFINE h == ForceToOne(heap, id)
<1>1. Evolves(heap, next, h, next) /\ Lives(heap, h, {})
  BY ForceHeap DEF IInv
<1>2. /\ RunFinalizers(Dying(h, id) \cap finalizers, dec_object_strong_recursive(h, id))
      /\ doomed' = doomed \ {id} /\ UNCHANGED <<nextArena, current, arenaStack, ret, work>>
  BY DEF Kill
<1> HIDE DEF h
<1>3. /\ Evolves(heap, next, heap', next')
      /\ finalizers' \subseteq Nat /\ envs' \in Seq(Env) /\ envs' # << >>
      /\ FinalizersWait => FinalizersWait'
  BY <1>1, <1>2, DropAndFinalize
<1>4. RestOK'
  BY <1>2, <1>3 DEF IInv, RestOK
<1> QED
  BY <1>3, <1>4 DEF StepOK

LEMMA BindStep ==
  ASSUME IInv, Bind
  PROVE  StepOK
<1>1. envs' = [envs EXCEPT ![Depth] = define(Top, Item1.var, Item1.arg)]
      /\ work' = Tail(work)
      /\ UNCHANGED <<heap, next, nextArena, current, arenaStack, finalizers, ret, doomed>>
  BY DEF Bind, Top
<1>2. Item1.var \in Vars /\ Item1.arg \in Nat /\ work' \in Seq(Item)
  BY <1>1, ItemOK DEF IInv, Bind
<1>3. define(Top, Item1.var, Item1.arg) \in Env
  BY <1>2, TopOK, DefineOK DEF IInv
<1>4. envs \in Seq(Env) /\ Len(envs) = Depth /\ Depth \in Nat \ {0}
  BY TopOK DEF IInv, RestOK, Depth
<1>5. envs' \in Seq(Env) /\ envs' # << >>
  BY <1>1, <1>3, <1>4
<1>6. RestOK'
  BY <1>1, <1>2, <1>5 DEF IInv, RestOK
<1> QED
  BY <1>1, <1>6, HeapUntouched

LEMMA ArenaStep ==
  ASSUME IInv, Arena
  PROVE  StepOK
<1>1. doomed' = ArenaIds(heap, Item1.arg) /\ work' = <<Do("purge", Item1.arg)>> \o Tail(work)
      /\ UNCHANGED <<heap, next, nextArena, current, arenaStack, finalizers, envs, ret>>
  BY DEF Arena
<1>2. Item1.arg \in Nat /\ Tail(work) \in Seq(Item)
  BY ItemOK DEF IInv, Arena
<1>3. Do("purge", Item1.arg) \in Item
  BY <1>2, DoOK DEF Ops
<1>4. <<Do("purge", Item1.arg)>> \in Seq(Item)
  BY <1>3
<1>5. work' \in Seq(Item)
  BY <1>1, <1>2, <1>4
<1>6. doomed' \subseteq Nat
  BY <1>1 DEF ArenaIds, IInv, HeapOK
<1>7. RestOK'
  BY <1>1, <1>5, <1>6 DEF IInv, RestOK
<1> QED
  BY <1>1, <1>7, HeapUntouched

LEMMA PurgeStep ==
  ASSUME IInv, Purge
  PROVE  StepOK
<1>1. heap' = PurgeArena(heap, Item1.arg) /\ work' = Tail(work)
      /\ UNCHANGED <<next, nextArena, current, arenaStack, finalizers, envs, ret, doomed>>
  BY DEF Purge
<1>2. Evolves(heap, next, heap', next') /\ Lives(heap, heap', {})
  BY <1>1, PurgeHeap DEF IInv
<1>3. work' \in Seq(Item)
  BY <1>1, ItemOK DEF IInv, Purge
<1>4. RestOK'
  BY <1>1, <1>3 DEF IInv, RestOK
<1>5. FinalizersWait => FinalizersWait'
  BY <1>1, <1>2, WaitKept
<1> QED
  BY <1>2, <1>4, <1>5 DEF StepOK

\* The arenas that stay on the stack.
LEMMA StackOK ==
  ASSUME NEW s \in Seq(Nat), NEW rest, rest = Front(s)
  PROVE  /\ rest \in Seq(Nat)
         /\ (IF rest = << >> THEN None ELSE Last(rest)) \in Nat
<1>1. Len(s) \in Nat
  OBVIOUS
<1>2. rest = SubSeq(s, 1, Len(s) - 1)
  BY DEF Front
<1>3. rest \in Seq(Nat)
  <2>1. \A i \in 1..(Len(s) - 1) : s[i] \in Nat
    BY <1>1
  <2> QED
    BY <1>1, <1>2, <2>1
<1>4. rest # << >> => Last(rest) \in Nat
  <2>1. rest # << >> => Len(rest) \in DOMAIN rest
    BY <1>3
  <2> QED
    BY <1>3, <2>1 DEF Last
<1> QED
  BY <1>3, <1>4 DEF None

LEMMA LeaveStep ==
  ASSUME IInv, Leave
  PROVE  StepOK
<1>1. Depth \in Nat /\ Depth > 1 /\ Top \in Env /\ envs[Depth - 1] \in Env
  <2>1. Depth \in Nat /\ Depth > 1 /\ Top \in Env
    BY TopOK DEF IInv, Leave
  <2>2. Depth - 1 \in 1..Depth
    BY <2>1
  <2> QED
    BY <2>1, <2>2, TopOK DEF IInv
<1>2. envs' \in Seq(Env) /\ envs' # << >>
  <2>1. envs' = SubSeq(envs, 1, Depth - 1) /\ envs \in Seq(Env) /\ Len(envs) = Depth
    BY DEF Leave, IInv, RestOK, Depth
  <2>2. \A i \in 1..(Depth - 1) : envs[i] \in Env
    BY <1>1, TopOK DEF IInv
  <2>3. Depth - 1 \in Nat /\ Depth - 1 # 0
    BY <1>1
  <2>4. envs' \in Seq(Env)
    BY <2>1, <2>2, <2>3
  <2>5. Len(envs') = Depth - 1
    BY <2>1, <2>3
  <2> QED
    BY <2>3, <2>4, <2>5
<1>3. arenaStack' \in Seq(Nat) /\ current' \in Nat
  <2>1. arenaStack \in Seq(Nat) /\ current \in Nat /\ Top.saved \in Nat
    BY <1>1 DEF IInv, RestOK, Env
  <2>2. CASE /\ arenaStack' = Front(arenaStack)
             /\ current' = IF Front(arenaStack) = << >> THEN None ELSE Last(Front(arenaStack))
    BY <2>1, <2>2, StackOK
  <2>3. CASE current' = Top.saved /\ UNCHANGED arenaStack
    BY <2>1, <2>3
  <2>4. CASE UNCHANGED <<current, arenaStack>>
    BY <2>1, <2>4
  <2> QED
    BY <2>2, <2>3, <2>4 DEF Leave
<1>4. UNCHANGED <<nextArena, finalizers, doomed>>
  BY DEF Leave
<1>5. /\ Evolves(heap, next, heap', next') /\ Lives(heap, heap', {})
      /\ work' \in Seq(Item) /\ ret' \in [on: BOOLEAN, val: Nat]
  <2>1. CASE Top.kind = "call"
    <3>1. LetPromoted(heap, next, envs[Depth - 1], Top.dest, ret.val) /\ ret' = NotReturning
      BY <2>1 DEF Leave
    <3>2. Top.dest \in Vars /\ ret.val \in Nat
      BY <1>1 DEF IInv, RestOK, Env
    <3>3. NotReturning \in [on: BOOLEAN, val: Nat]
      BY DEF NotReturning, None
    <3>4. /\ Evolves(heap, next, heap', next') /\ Lives(heap, heap', {})
          /\ work' \in Seq(Item)
      BY <1>1, <3>1, <3>2, LetPromotedOK DEF IInv
    <3> QED
      BY <3>1, <3>3, <3>4
  <2>2. CASE Top.kind # "call"
    <3>1. work' = Tail(work) /\ UNCHANGED <<heap, next, ret>>
      BY <2>2 DEF Leave
    <3>2. Tail(work) \in Seq(Item)
      BY ItemOK DEF IInv, Leave
    <3>3. Evolves(heap, next, heap', next') /\ Lives(heap, heap', {})
      BY <3>1, SameHeap DEF IInv
    <3> QED
      BY <3>1, <3>2, <3>3 DEF IInv, RestOK
  <2> QED
    BY <2>1, <2>2
<1>6. RestOK'
  BY <1>2, <1>3, <1>4, <1>5 DEF RestOK, IInv
<1>7. FinalizersWait => FinalizersWait'
  BY <1>4, <1>5, WaitKept
<1> QED
  BY <1>5, <1>6, <1>7 DEF StepOK

-----------------------------------------------------------------------------
(* The theorems. *)

LEMMA InitOK == Init => IInv /\ FinalizersWait
<1> SUFFICES ASSUME Init PROVE IInv /\ FinalizersWait
  OBVIOUS
<1>1. HeapOK(heap, next)
  BY DEF Init, HeapOK
<1>2. NewEnv("root", None) \in Env
  BY NewEnvOK DEF Kinds, None
<1>3. envs \in Seq(Env) /\ envs # << >>
  BY <1>2 DEF Init
<1>4. NotReturning \in [on: BOOLEAN, val: Nat]
  BY DEF NotReturning, None
<1>5. RestOK
  BY <1>3, <1>4 DEF Init, RestOK, None
<1> QED
  BY <1>1, <1>5 DEF Init, IInv, FinalizersWait

LEMMA StatementStep ==
  ASSUME IInv, Statement
  PROVE  StepOK
<1>1. ASSUME NEW x \in Vars, NEW kid \in Visible \cup {None}, LetNew(x, kid) PROVE StepOK
  <2>1. kid \in Nat
    BY VisibleOK DEF IInv, None
  <2> QED
    BY <1>1, <2>1, LetNewStep
<1>2. ASSUME NEW x \in Vars, NEW id \in Visible, LetAlias(x, id) PROVE StepOK
  <2>1. id \in Nat
    BY VisibleOK DEF IInv
  <2> QED
    BY <1>2, <2>1, LetAliasStep
<1>3. ASSUME NEW id \in Visible, WeakNew(id) \/ OnFinalize(id) \/ Return(id) PROVE StepOK
  <2>1. id \in Nat
    BY VisibleOK DEF IInv
  <2> QED
    BY <1>3, <2>1, WeakNewStep, OnFinalizeStep, ReturnStep
<1>4. ASSUME EnterBlock \/ EnterLoop \/ EnterPerformant PROVE StepOK
  BY <1>4, EnterBlockStep, EnterLoopStep, EnterPerformantStep
<1>5. ASSUME NEW x \in Vars, NEW param \in Vars, NEW id \in Visible \cup {None}, EnterCall(x, param, id)
      PROVE  StepOK
  <2>1. id \in Nat
    BY VisibleOK DEF IInv, None
  <2> QED
    BY <1>5, <2>1, EnterCallStep
<1>6. ASSUME NEW x \in Vars, NEW id \in Visible, EnterFor(x, id) PROVE StepOK
  <2>1. id \in Nat
    BY VisibleOK DEF IInv
  <2> QED
    BY <1>6, <2>1, EnterForStep
<1> QED
  BY <1>1, <1>2, <1>3, <1>4, <1>5, <1>6 DEF Statement

LEMMA NextStep ==
  ASSUME IInv, [Next]_vars
  PROVE  StepOK
<1>1. CASE Statement
  BY <1>1, StatementStep
<1>2. CASE Exit \/ Unwind
  BY <1>2, ExitStep, UnwindStep
<1>3. CASE Drop \/ Bind \/ Arena \/ Purge \/ Leave
  BY <1>3, DropStep, BindStep, ArenaStep, PurgeStep, LeaveStep
<1>4. CASE \E id \in doomed : Kill(id)
  BY <1>4, KillStep
<1>5. CASE UNCHANGED vars
  <2>1. RestOK'
    BY <1>5 DEF vars, IInv, RestOK
  <2> QED
    BY <1>5, <2>1, HeapUntouched DEF vars
<1> QED
  BY <1>1, <1>2, <1>3, <1>4, <1>5 DEF Next

LEMMA StepKeeps ==
  ASSUME StepOK
  PROVE  IInv'
  BY DEF StepOK, IInv, Evolves

\* The heap is well-formed: ids below the next one, and liveness by counts.
THEOREM InductiveInvariant == Spec => []IInv
<1>1. Init => IInv
  BY InitOK
<1>2. IInv /\ [Next]_vars => IInv'
  BY NextStep, StepKeeps
<1> QED
  BY <1>1, <1>2, PTL DEF Spec

\* Every reachable state is of its type: no count falls below zero, no id is
\* reused, whatever programs nest, return and finalize.
THEOREM TypeCorrect == Spec => []TypeOK
<1>1. IInv => TypeOK
  BY IInvMeans
<1> QED
  BY <1>1, InductiveInvariant, PTL

\* An object is alive exactly while its count is above zero.
THEOREM LivenessFollowsCounts == Spec => []AliveIffStrong
<1>1. IInv => AliveIffStrong
  BY IInvMeans
<1> QED
  BY <1>1, InductiveInvariant, PTL

\* No step revives a dead object or reuses an id.
THEOREM NoRevival == Spec => DeadStaysDead
<1>1. IInv /\ [Next]_vars =>
        [\A i \in 1..(next - 1) :
           /\ i \in DOMAIN heap' => i \in DOMAIN heap
           /\ (i \in DOMAIN heap /\ i \in DOMAIN heap' /\ ~heap[i].alive) => ~heap'[i].alive]_vars
  BY NextStep DEF StepOK, Evolves
<1> QED
  BY <1>1, InductiveInvariant, PTL DEF Spec, DeadStaysDead

\* A finalizer registered on an object waits for that object's death: the
\* steps that kill or remove objects run and unregister it.
THEOREM FinalizersKept == Spec => []FinalizersWait
<1>1. Init => FinalizersWait
  BY InitOK
<1>2. IInv /\ FinalizersWait /\ [Next]_vars => FinalizersWait'
  BY NextStep DEF StepOK
<1> QED
  BY <1>1, <1>2, InductiveInvariant, PTL DEF Spec

-----------------------------------------------------------------------------
(* Ownership.                                                              *)

OwnedProgram == Program \subseteq {"block", "weak", "finalizer"}

-----------------------------------------------------------------------------
(* Paths down the chain of children, which ArcOps walks by recursion.      *)

\* A path that follows g for b steps from a.
LEMMA PathExists ==
  ASSUME NEW a \in Nat, NEW g \in [Nat -> Nat], NEW b \in Nat
  PROVE  \E w \in [0..b -> Nat] : w[0] = a /\ \A n \in 1..b : w[n] = g[w[n - 1]]
<1> DEFINE OK(m, w) == w \in [0..m -> Nat] /\ w[0] = a /\ \A n \in 1..m : w[n] = g[w[n - 1]]
           S == {m \in Nat : \E w : OK(m, w)}
<1>1. 0 \in S
  <2>1. OK(0, [n \in 0..0 |-> a])
    OBVIOUS
  <2> QED
    BY <2>1
<1>2. ASSUME NEW m \in Nat, m \in S PROVE m + 1 \in S
  <2>1. PICK w : OK(m, w)
    BY <1>2
  <2> DEFINE v == [n \in 0..(m + 1) |-> IF n = m + 1 THEN g[w[m]] ELSE w[n]]
  <2>2. v \in [0..(m + 1) -> Nat]
    BY <2>1
  <2>3. v[0] = a
    BY <2>1
  <2>4. ASSUME NEW n \in 1..(m + 1) PROVE v[n] = g[v[n - 1]]
    <3>1. CASE n = m + 1
      <4>1. v[n] = g[w[m]] /\ n - 1 = m /\ v[m] = w[m]
        BY <3>1
      <4> QED
        BY <4>1
    <3>2. CASE n # m + 1
      <4>1. n \in 1..m /\ n - 1 \in 0..m
        BY <3>2
      <4>2. v[n] = w[n] /\ v[n - 1] = w[n - 1]
        BY <4>1
      <4>3. w[n] = g[w[n - 1]]
        BY <2>1, <4>1
      <4> QED
        BY <4>2, <4>3
    <3> QED
      BY <3>1, <3>2
  <2> HIDE DEF v
  <2>5. OK(m + 1, v)
    BY <2>2, <2>3, <2>4
  <2> HIDE DEF OK
  <2>6. \E u : OK(m + 1, u)
    BY <2>5
  <2> QED
    BY <2>6
<1> HIDE DEF S
<1>3. b \in S
  BY <1>1, <1>2, NatSet
<1> QED
  BY <1>3 DEF S

\* The drop comes to an object from one that held it and dies.
LEMMA VisitedPath ==
  ASSUME NEW h, NEW id \in Nat, \A i \in DOMAIN h : h[i].kid \in Nat
  PROVE  \E w \in [0..id -> Nat] :
           /\ Visited(h, id) = {w[n] : n \in 0..id} \cap DOMAIN h
           /\ w[0] = id
           /\ \A n \in 1..id :
                w[n] = IF w[n - 1] \in DOMAIN h /\ ~dec_strong(h[w[n - 1]]).alive
                       THEN h[w[n - 1]].kid ELSE None
<1> DEFINE Below(v) == IF v \in DOMAIN h /\ ~dec_strong(h[v]).alive THEN h[v].kid ELSE None
           g == [v \in Nat |-> Below(v)]
           path == CHOOSE w : w = [n \in 0..id |-> IF n = 0 THEN id ELSE Below(w[n - 1])]
<1>1. Visited(h, id) = {path[n] : n \in 0..id} \cap DOMAIN h
  BY DEF Visited
<1>2. \A v \in Nat : Below(v) \in Nat
  BY DEF None
<1> HIDE DEF Below
<1>3. g \in [Nat -> Nat]
  BY <1>2
<1>4. \A v \in Nat : g[v] = Below(v)
  OBVIOUS
<1> HIDE DEF g
<1>5. PICK u \in [0..id -> Nat] : u[0] = id /\ \A n \in 1..id : u[n] = g[u[n - 1]]
  BY <1>3, PathExists
<1>6. u = [n \in 0..id |-> IF n = 0 THEN id ELSE Below(u[n - 1])]
  <2>1. \A n \in 1..id : u[n - 1] \in Nat
    BY <1>5
  <2>2. \A n \in 0..id : u[n] = IF n = 0 THEN id ELSE Below(u[n - 1])
    <3> TAKE n \in 0..id
    <3>1. n = 0 \/ n \in 1..id
      OBVIOUS
    <3> QED
      BY <1>4, <1>5, <2>1, <3>1
  <2> QED
    BY <1>5, <2>2
<1>7. path = [n \in 0..id |-> IF n = 0 THEN id ELSE Below(path[n - 1])]
  BY <1>6
<1> HIDE DEF path
<1>8. path[0] = id /\ \A n \in 1..id : path[n] = Below(path[n - 1])
  BY <1>7
<1>9. path \in [0..id -> Nat]
  <2> DEFINE S == {n \in Nat : n \in 0..id => path[n] \in Nat}
  <2>1. 0 \in S
    BY <1>8
  <2>2. ASSUME NEW n \in Nat, n \in S PROVE n + 1 \in S
    <3>1. n + 1 \in 0..id => n \in 0..id /\ n + 1 \in 1..id /\ (n + 1) - 1 = n
      OBVIOUS
    <3>2. n + 1 \in 0..id => path[n + 1] = Below(path[n])
      BY <1>8, <3>1
    <3>3. ASSUME n + 1 \in 0..id PROVE path[n + 1] \in Nat
      <4>1. path[n] \in Nat
        BY <2>2, <3>1, <3>3
      <4> QED
        BY <1>2, <3>2, <3>3, <4>1
    <3> QED
      BY <3>3
  <2> HIDE DEF S
  <2>3. Nat \subseteq S
    BY <2>1, <2>2, NatSet
  <2>4. \A n \in 0..id : path[n] \in Nat
    BY <2>3 DEF S
  <2> QED
    BY <1>7, <2>4
<1> QED
  BY <1>1, <1>8, <1>9 DEF Below

\* Below no arena, nothing escapes.
LEMMA NothingEscapes ==
  ASSUME NEW h, NEW n, HeapOK(h, n), NEW target \in Nat, NEW id \in Nat,
         \A i \in DOMAIN h : h[i].arena <= target
  PROVE  Escaping(h, target, id) = {}
<1> DEFINE Younger(i) == IF i \in DOMAIN h /\ h[i].arena > target THEN i ELSE None
           At(w, k) == Younger(IF k = 0 THEN id
                               ELSE IF w[k - 1] = None THEN None ELSE h[w[k - 1]].kid)
           path == CHOOSE w : w = [k \in 0..id |-> At(w, k)]
           u == [k \in 0..id |-> None]
<1>1. Escaping(h, target, id) = {path[k] : k \in 0..id} \cap DOMAIN h
  BY DEF Escaping
<1>2. \A i \in DOMAIN h : ~(h[i].arena > target)
  BY DEF HeapOK, HeapObject
<1>3. \A i : Younger(i) = None
  BY <1>2
<1> HIDE DEF Younger
<1>4. u = [k \in 0..id |-> At(u, k)]
  BY <1>3
<1> HIDE DEF u
<1>5. path = [k \in 0..id |-> At(path, k)]
  BY <1>4
<1> HIDE DEF path
<1>6. \A k \in 0..id : path[k] = None
  BY <1>3, <1>5
<1>7. None \notin DOMAIN h
  BY DEF HeapOK, None
<1> QED
  BY <1>1, <1>6, <1>7
-----------------------------------------------------------------------------
(* Counts against owners: a handle that is held, and the living parents.   *)

Parents(h, i) == {j \in DOMAIN h : h[j].alive /\ h[j].kid = i}

Owners(h, held, i) == Cardinality(Parents(h, i)) + (IF i \in held THEN 1 ELSE 0)

CountsOK(h, held) ==
  /\ held \subseteq DOMAIN h
  /\ \A i \in DOMAIN h : h[i].alive /\ h[i].kid # None => h[i].kid \in DOMAIN h
  /\ \A i \in DOMAIN h : h[i].strong >= Owners(h, held, i)

LEMMA ParentsFinite ==
  ASSUME NEW h, NEW n, HeapOK(h, n), NEW i
  PROVE  IsFiniteSet(Parents(h, i)) /\ Cardinality(Parents(h, i)) \in Nat
<1>1. Parents(h, i) \in SUBSET DOMAIN h
  BY DEF Parents
<1> QED
  BY <1>1, PresentFinite

\* More owners, more counts.
LEMMA FewerOwners ==
  ASSUME NEW h, NEW n, HeapOK(h, n), NEW g, NEW m, HeapOK(g, m), NEW held, NEW kept, NEW i,
         Parents(g, i) \subseteq Parents(h, i), i \in kept => i \in held
  PROVE  /\ Owners(g, kept, i) \in Nat /\ Owners(h, held, i) \in Nat
         /\ Owners(g, kept, i) <= Owners(h, held, i)
         /\ (i \in held /\ i \notin kept) => Owners(g, kept, i) < Owners(h, held, i)
         /\ Parents(g, i) # Parents(h, i) => Owners(g, kept, i) < Owners(h, held, i)
<1>1. IsFiniteSet(Parents(h, i)) /\ Cardinality(Parents(h, i)) \in Nat
      /\ Cardinality(Parents(g, i)) \in Nat
  BY ParentsFinite
<1>2. Cardinality(Parents(g, i)) <= Cardinality(Parents(h, i))
      /\ (Parents(g, i) # Parents(h, i) => Cardinality(Parents(g, i)) # Cardinality(Parents(h, i)))
  BY <1>1, FS_Subset
<1> QED
  BY <1>1, <1>2 DEF Owners

LEMMA CountsFewer ==
  ASSUME NEW h, NEW n, HeapOK(h, n), NEW held, CountsOK(h, held), NEW kept \in SUBSET held
  PROVE  CountsOK(h, kept)
<1>1. ASSUME NEW i \in DOMAIN h PROVE h[i].strong >= Owners(h, kept, i)
  <2>1. Owners(h, kept, i) \in Nat /\ Owners(h, held, i) \in Nat
        /\ Owners(h, kept, i) <= Owners(h, held, i)
    BY FewerOwners
  <2>2. h[i].strong \in Nat /\ h[i].strong >= Owners(h, held, i)
    BY DEF CountsOK, HeapOK, HeapObject
  <2> QED
    BY <2>1, <2>2
<1> QED
  BY <1>1 DEF CountsOK

LEMMA OwnedAlive ==
  ASSUME NEW h, NEW n, HeapOK(h, n), NEW held, CountsOK(h, held), NEW i \in DOMAIN h,
         i \in held \/ \E j \in DOMAIN h : h[j].alive /\ h[j].kid = i
  PROVE  h[i].alive /\ h[i].strong > 0
<1>1. IsFiniteSet(Parents(h, i)) /\ Cardinality(Parents(h, i)) \in Nat
  BY ParentsFinite
<1>2. i \in held \/ Parents(h, i) # {}
  BY DEF Parents
<1>3. i \in held \/ Cardinality(Parents(h, i)) # 0
  BY <1>1, <1>2, FS_EmptySet
<1>4. Owners(h, held, i) \in Nat /\ Owners(h, held, i) > 0
  BY <1>1, <1>3 DEF Owners
<1>5. h[i].strong \in Nat /\ h[i].strong >= Owners(h, held, i) /\ (h[i].alive <=> h[i].strong > 0)
  BY DEF CountsOK, HeapOK, HeapObject
<1> QED
  BY <1>4, <1>5

\* The same counts and children in another heap.
LEMMA CountsSame ==
  ASSUME NEW h, NEW held, CountsOK(h, held), NEW g, DOMAIN g = DOMAIN h,
         \A i \in DOMAIN h : g[i].alive = h[i].alive /\ g[i].strong = h[i].strong /\ g[i].kid = h[i].kid
  PROVE  CountsOK(g, held)
<1>1. \A i : Parents(g, i) = Parents(h, i)
  BY DEF Parents
<1>2. \A i : Owners(g, held, i) = Owners(h, held, i)
  BY <1>1 DEF Owners
<1> QED
  BY <1>2 DEF CountsOK

\* New objects without children.
LEMMA CountsGrow ==
  ASSUME NEW h, NEW n, HeapOK(h, n), NEW held, CountsOK(h, held),
         NEW new, \A i \in DOMAIN h : i \notin new,
         NEW g, NEW m, HeapOK(g, m), DOMAIN g = DOMAIN h \cup new,
         \A i \in DOMAIN h : g[i] = h[i],
         \A i \in new : g[i].alive /\ g[i].kid = None
  PROVE  CountsOK(g, held \cup new)
<1>1. \A i \in DOMAIN g : i # None
  BY DEF HeapOK, None
<1>2. ASSUME NEW i \in DOMAIN g PROVE g[i].strong >= Owners(g, held \cup new, i)
  <2>1. CASE i \in DOMAIN h
    <3>1. Parents(g, i) = Parents(h, i)
      BY <1>1 DEF Parents
    <3>2. Owners(g, held \cup new, i) = Owners(h, held, i)
      BY <2>1, <3>1 DEF Owners
    <3> QED
      BY <2>1, <3>2 DEF CountsOK
  <2>2. CASE i \in new
    <3>1. Parents(g, i) = {}
      BY <1>1, <2>2 DEF Parents, CountsOK
    <3>2. Owners(g, held \cup new, i) = 1
      BY <2>2, <3>1, FS_EmptySet DEF Owners
    <3>3. g[i].strong \in Nat /\ g[i].strong > 0
      BY <2>2 DEF HeapOK, HeapObject
    <3> QED
      BY <3>2, <3>3
  <2> QED
    BY <2>1, <2>2
<1>3. \A i \in DOMAIN g : g[i].alive /\ g[i].kid # None => g[i].kid \in DOMAIN g
  BY DEF CountsOK
<1>4. held \cup new \subseteq DOMAIN g
  BY DEF CountsOK
<1> QED
  BY <1>2, <1>3, <1>4 DEF CountsOK

\* From h to k, one object was allocated.
Allocates(h, n, arena, k) ==
  /\ DOMAIN k = DOMAIN h \cup {n} /\ k[n].arena = arena
  /\ \A i \in DOMAIN h : k[i].arena = h[i].arena

LEMMA IncFields ==
  ASSUME NEW o \in HeapObject, o.alive
  PROVE  /\ inc_strong(o) \in HeapObject
         /\ inc_strong(o).alive = o.alive /\ inc_strong(o).strong = o.strong + 1
         /\ inc_strong(o).kid = o.kid /\ inc_strong(o).arena = o.arena
<1> DEFINE s == o.strong + 1
<1>1. s \in Nat
  BY DEF HeapObject
<1>2. inc_strong(o) = [o EXCEPT !.strong = s]
  BY DEF inc_strong
<1> HIDE DEF s
<1>3. /\ inc_strong(o) \in HeapObject
      /\ inc_strong(o).alive = o.alive /\ inc_strong(o).strong = s
      /\ inc_strong(o).kid = o.kid /\ inc_strong(o).arena = o.arena
  BY <1>1, <1>2 DEF HeapObject
<1> QED
  BY <1>3 DEF s

LEMMA DecFields ==
  ASSUME NEW o \in HeapObject, o.strong > 0
  PROVE  /\ dec_strong(o).strong = o.strong - 1
         /\ dec_strong(o).kid = o.kid /\ dec_strong(o).arena = o.arena
<1> DEFINE s == o.strong - 1
           a == o.alive /\ o.strong # 1
<1>1. s \in Nat /\ a \in BOOLEAN
  BY DEF HeapObject
<1>2. dec_strong(o) = [o EXCEPT !.strong = s, !.alive = a]
  BY DEF dec_strong, HeapObject
<1> HIDE DEF s, a
<1>3. dec_strong(o).strong = s /\ dec_strong(o).kid = o.kid /\ dec_strong(o).arena = o.arena
  BY <1>1, <1>2 DEF HeapObject
<1> QED
  BY <1>3 DEF s

\* A new literal: its child gains a parent and two counts.
LEMMA CountsHeapify ==
  ASSUME NEW h, NEW n, HeapOK(h, n), NEW held, CountsOK(h, held),
         NEW arena \in Nat, NEW kid, kid \in held \/ kid = None,
         NEW k, k = heapify_composite(h, n, arena, kid)
  PROVE  CountsOK(k, held \cup {n}) /\ Allocates(h, n, arena, k)
<1> DEFINE g == [i \in DOMAIN h \cup {n} |-> IF i = n THEN NewObject(arena, kid) ELSE h[i]]
<1>1. n \in Nat \ {0} /\ n \notin DOMAIN h /\ None \notin DOMAIN h /\ None = 0
  BY DEF HeapOK, None
<1>2. kid \in Nat /\ kid # n /\ (kid # None => kid \in DOMAIN h)
  BY <1>1 DEF CountsOK, HeapOK
<1>3. k = inc_heap_strong(inc_heap_strong(g, kid), kid)
  BY DEF heapify_composite, heap_register
<1>4. DOMAIN g = DOMAIN h \cup {n} /\ g[n] = NewObject(arena, kid)
      /\ \A i \in DOMAIN h : g[i] = h[i]
  BY <1>1
<1>5. DOMAIN k = DOMAIN h \cup {n} /\ k[n] = NewObject(arena, kid)
      /\ \A i \in DOMAIN h : k[i] = IF i = kid THEN inc_strong(inc_strong(h[i])) ELSE h[i]
  BY <1>2, <1>3, <1>4 DEF inc_heap_strong
<1>6. HeapOK(k, n + 1)
  BY <1>2, HeapifyHeap DEF Evolves
<1> HIDE DEF g
<1>7. kid # None => h[kid].alive
  BY <1>2, OwnedAlive
<1>8. ASSUME NEW i \in DOMAIN h
      PROVE  /\ k[i].alive = h[i].alive /\ k[i].kid = h[i].kid /\ k[i].arena = h[i].arena
             /\ k[i].strong = IF i = kid THEN h[i].strong + 2 ELSE h[i].strong
  <2>1. h[i] \in HeapObject
    BY DEF HeapOK
  <2>2. CASE i = kid
    <3>1. h[i].alive /\ k[i] = inc_strong(inc_strong(h[i]))
      BY <1>1, <1>5, <1>7, <2>2
    <3>3. inc_strong(h[i]).alive /\ inc_strong(h[i]).strong = h[i].strong + 1
          /\ inc_strong(h[i]).kid = h[i].kid /\ inc_strong(h[i]).arena = h[i].arena
          /\ inc_strong(h[i]).alive = h[i].alive
          /\ inc_strong(h[i]) \in HeapObject
      BY <2>1, <3>1, IncFields
    <3> DEFINE o == inc_strong(h[i])
    <3>4. k[i] = inc_strong(o)
      BY <3>1
    <3>5. h[i].strong \in Nat
      BY <2>1 DEF HeapObject
    <3> HIDE DEF o
    <3>6. o \in HeapObject /\ o.strong = h[i].strong + 1 /\ o.kid = h[i].kid
          /\ o.alive = h[i].alive /\ o.arena = h[i].arena
      BY <3>3 DEF o
    <3>7. o.alive
      BY <3>1, <3>6
    <3>8. k[i].alive = o.alive /\ k[i].strong = o.strong + 1
          /\ k[i].kid = o.kid /\ k[i].arena = o.arena
      BY <3>4, <3>6, <3>7, IncFields
    <3> QED
      BY <2>2, <3>5, <3>6, <3>8
  <2>3. CASE i # kid
    BY <1>5, <2>3
  <2> QED
    BY <2>2, <2>3
<1>9. k[n].alive /\ k[n].kid = kid /\ k[n].strong = 1 /\ k[n].arena = arena
  BY <1>5 DEF NewObject
<1>10. ASSUME NEW i \in DOMAIN k PROVE k[i].strong >= Owners(k, held \cup {n}, i)
  <2>1. CASE i = n
    <3>1. Parents(k, i) = {}
      BY <1>1, <1>2, <1>5, <1>8, <1>9, <2>1 DEF Parents, CountsOK
    <3>2. Owners(k, held \cup {n}, i) = 1
      BY <2>1, <3>1, FS_EmptySet DEF Owners
    <3> QED
      BY <1>9, <2>1, <3>2
  <2>2. CASE i \in DOMAIN h /\ i # kid
    <3>1. Parents(k, i) = Parents(h, i)
      BY <1>1, <1>5, <1>8, <1>9, <2>2 DEF Parents
    <3>2. Owners(k, held \cup {n}, i) = Owners(h, held, i)
      BY <1>1, <2>2, <3>1 DEF Owners
    <3> QED
      BY <1>8, <2>2, <3>2 DEF CountsOK
  <2>3. CASE i \in DOMAIN h /\ i = kid
    <3>1. Parents(k, i) = Parents(h, i) \cup {n} /\ n \notin Parents(h, i)
      BY <1>1, <1>5, <1>8, <1>9, <2>3 DEF Parents
    <3>2. IsFiniteSet(Parents(h, i)) /\ Cardinality(Parents(h, i)) \in Nat
      BY ParentsFinite
    <3>3. Cardinality(Parents(k, i)) = Cardinality(Parents(h, i)) + 1
      BY <3>1, <3>2, FS_AddElement
    <3>4. Owners(k, held \cup {n}, i) = Owners(h, held, i) + 1 /\ Owners(h, held, i) \in Nat
      BY <1>1, <2>3, <3>2, <3>3 DEF Owners
    <3>5. h[i].strong \in Nat /\ h[i].strong >= Owners(h, held, i)
      BY <2>3 DEF CountsOK, HeapOK, HeapObject
    <3> QED
      BY <1>8, <2>3, <3>4, <3>5
  <2> QED
    BY <1>5, <2>1, <2>2, <2>3
<1>11. \A i \in DOMAIN k : k[i].alive /\ k[i].kid # None => k[i].kid \in DOMAIN k
  BY <1>2, <1>5, <1>8, <1>9 DEF CountsOK
<1>12. held \cup {n} \subseteq DOMAIN k
  BY <1>5 DEF CountsOK
<1>13. CountsOK(k, held \cup {n})
  BY <1>10, <1>11, <1>12 DEF CountsOK
<1> QED
  BY <1>5, <1>8, <1>9, <1>13 DEF Allocates

-----------------------------------------------------------------------------
(* Dropping a handle. *)

\* A drop only comes to the living: the handle it starts with counts, and so
\* does every parent that dies.
LEMMA VisitedOwned ==
  ASSUME NEW h, NEW n, HeapOK(h, n), NEW held, CountsOK(h, held), NEW id \in held
  PROVE  /\ \A j \in Visited(h, id) : j \in DOMAIN h /\ h[j].alive
         /\ \A j \in Visited(h, id) \ {id} :
              \E i \in Visited(h, id) : h[i].kid = j /\ ~dec_strong(h[i]).alive
         /\ id \in Visited(h, id)
<1>1. id \in DOMAIN h /\ id \in Nat /\ \A i \in DOMAIN h : i # None /\ h[i].kid \in Nat
  BY DEF CountsOK, HeapOK, HeapObject, None
<1>2. PICK w \in [0..id -> Nat] :
         /\ Visited(h, id) = {w[m] : m \in 0..id} \cap DOMAIN h
         /\ w[0] = id
         /\ \A m \in 1..id :
              w[m] = IF w[m - 1] \in DOMAIN h /\ ~dec_strong(h[w[m - 1]]).alive
                     THEN h[w[m - 1]].kid ELSE None
  BY <1>1, VisitedPath
<1>3. ASSUME NEW j \in Visited(h, id), j # id
      PROVE  \E i \in Visited(h, id) : h[i].kid = j /\ ~dec_strong(h[i]).alive
  <2>1. PICK m \in 0..id : j = w[m]
    BY <1>2
  <2>2. j \in DOMAIN h /\ j # None
    BY <1>1, <1>2
  <2>3. m \in 1..id /\ m - 1 \in 0..id
    BY <1>1, <1>2, <1>3, <2>1
  <2>4. w[m - 1] \in DOMAIN h /\ ~dec_strong(h[w[m - 1]]).alive /\ h[w[m - 1]].kid = j
    BY <1>2, <2>1, <2>2, <2>3
  <2>5. w[m - 1] \in Visited(h, id)
    BY <1>2, <2>3, <2>4
  <2> QED
    BY <2>4, <2>5
<1>4. \A m \in 0..id : w[m] \in DOMAIN h => h[w[m]].alive
  <2> DEFINE S == {m \in Nat : m \in 0..id => (w[m] \in DOMAIN h => h[w[m]].alive)}
  <2>1. 0 \in S
    BY <1>1, <1>2, OwnedAlive
  <2>2. ASSUME NEW m \in Nat, m \in S PROVE m + 1 \in S
    <3>1. ASSUME m + 1 \in 0..id, w[m + 1] \in DOMAIN h PROVE h[w[m + 1]].alive
      <4>1. m \in 0..id /\ m + 1 \in 1..id /\ (m + 1) - 1 = m
        BY <1>1, <3>1
      <4>2. w[m + 1] = IF w[m] \in DOMAIN h /\ ~dec_strong(h[w[m]]).alive
                       THEN h[w[m]].kid ELSE None
        BY <1>2, <4>1
      <4>3. w[m] \in DOMAIN h /\ h[w[m]].kid = w[m + 1]
        BY <1>1, <3>1, <4>2
      <4>4. h[w[m]].alive
        BY <2>2, <4>1, <4>3
      <4> QED
        BY <3>1, <4>3, <4>4, OwnedAlive
    <3> QED
      BY <3>1
  <2> HIDE DEF S
  <2>3. Nat \subseteq S
    BY <2>1, <2>2, NatSet
  <2> QED
    BY <2>3 DEF S
<1>5. \A j \in Visited(h, id) : j \in DOMAIN h /\ h[j].alive
  BY <1>2, <1>4
<1>6. id \in Visited(h, id)
  BY <1>1, <1>2
<1> QED
  BY <1>3, <1>5, <1>6

LEMMA CountsDecAll ==
  ASSUME NEW h, NEW n, HeapOK(h, n), NEW held, CountsOK(h, held), NEW id \in held
  PROVE  LET g == DecAll(h, Visited(h, id))
         IN  /\ CountsOK(g, held \ {id}) /\ HeapOK(g, n) /\ DOMAIN g = DOMAIN h
             /\ \A i \in DOMAIN h : g[i].arena = h[i].arena /\ (g[i].alive => h[i].alive)
<1> DEFINE V == Visited(h, id)
           g == DecAll(h, V)
<1>1. /\ \A j \in V : j \in DOMAIN h /\ h[j].alive
      /\ \A j \in V \ {id} : \E i \in V : h[i].kid = j /\ ~dec_strong(h[i]).alive
      /\ id \in V
  BY VisitedOwned
<1>2. DOMAIN g = DOMAIN h /\ \A i \in DOMAIN h : g[i] = IF i \in V THEN dec_strong(h[i]) ELSE h[i]
  BY DEF DecAll
<1>3. HeapOK(g, n)
  BY DecAllHeap DEF Evolves
<1> HIDE DEF V, g
<1>4. \A i \in DOMAIN h : h[i] \in HeapObject /\ h[i].strong \in Nat
                          /\ (h[i].alive <=> h[i].strong > 0)
  BY DEF HeapOK, HeapObject
<1>5. ASSUME NEW i \in DOMAIN h
      PROVE  /\ g[i].strong = IF i \in V THEN h[i].strong - 1 ELSE h[i].strong
             /\ g[i].kid = h[i].kid /\ g[i].arena = h[i].arena
             /\ g[i].alive => h[i].alive
  <2>1. CASE i \in V
    <3>1. h[i].strong > 0 /\ h[i].alive /\ g[i] = dec_strong(h[i])
      BY <1>1, <1>2, <1>4, <2>1
    <3> QED
      BY <1>4, <2>1, <3>1, DecFields
  <2>2. CASE i \notin V
    BY <1>2, <2>2
  <2> QED
    BY <2>1, <2>2
<1>6. \A i : Parents(g, i) \subseteq Parents(h, i)
  BY <1>2, <1>5 DEF Parents
<1>7. ASSUME NEW i \in DOMAIN h PROVE g[i].strong >= Owners(g, held \ {id}, i)
  <2>1. /\ Owners(g, held \ {id}, i) \in Nat /\ Owners(h, held, i) \in Nat
        /\ Owners(g, held \ {id}, i) <= Owners(h, held, i)
        /\ i = id => Owners(g, held \ {id}, i) < Owners(h, held, i)
        /\ Parents(g, i) # Parents(h, i) => Owners(g, held \ {id}, i) < Owners(h, held, i)
    BY <1>3, <1>6, FewerOwners
  <2>2. h[i].strong >= Owners(h, held, i) /\ h[i].strong \in Nat
    BY <1>4 DEF CountsOK
  <2>3. i \in V => i = id \/ Parents(g, i) # Parents(h, i)
    <3> SUFFICES ASSUME i \in V, i # id PROVE Parents(g, i) # Parents(h, i)
      OBVIOUS
    <3>1. PICK j \in V : h[j].kid = i /\ ~dec_strong(h[j]).alive
      BY <1>1
    <3>2. j \in Parents(h, i)
      BY <1>1, <3>1 DEF Parents
    <3>3. j \notin Parents(g, i)
      BY <1>1, <1>2, <3>1 DEF Parents
    <3> QED
      BY <3>2, <3>3
  <2> QED
    BY <1>5, <2>1, <2>2, <2>3
<1>8. \A i \in DOMAIN g : g[i].alive /\ g[i].kid # None => g[i].kid \in DOMAIN g
  BY <1>2, <1>5 DEF CountsOK
<1>9. held \ {id} \subseteq DOMAIN g
  BY <1>2 DEF CountsOK
<1>10. CountsOK(g, held \ {id})
  BY <1>2, <1>7, <1>8, <1>9 DEF CountsOK
<1> QED
  BY <1>2, <1>3, <1>5, <1>10 DEF V, g

\* A drop takes one owner away, and nobody else's.
LEMMA CountsDrop ==
  ASSUME NEW h, NEW n, HeapOK(h, n), NEW held, CountsOK(h, held), NEW id \in held
  PROVE  LET k == dec_object_strong_recursive(h, id)
         IN  /\ CountsOK(k, held \ {id}) /\ HeapOK(k, n)
             /\ DOMAIN k \subseteq DOMAIN h
             /\ \A i \in DOMAIN k : k[i].arena = h[i].arena
<1> DEFINE g == DecAll(h, Visited(h, id))
           k == dec_object_strong_recursive(h, id)
<1>1. /\ CountsOK(g, held \ {id}) /\ HeapOK(g, n) /\ DOMAIN g = DOMAIN h
      /\ \A i \in DOMAIN h : g[i].arena = h[i].arena
  BY CountsDecAll
<1>2. k = RemoveRoot(g, id)
  BY DEF dec_object_strong_recursive
<1>3. HeapOK(k, n)
  BY DropHeap DEF Evolves
<1> HIDE DEF g, k
<1>4. CASE k = g
  BY <1>1, <1>3, <1>4 DEF k
<1>5. CASE k # g
  <2>1. id \in DOMAIN g /\ ~g[id].alive /\ ~Referenced(g, id) /\ k = Forget(g, {id})
    BY <1>2, <1>5 DEF RemoveRoot
  <2>2. DOMAIN k = DOMAIN g \ {id} /\ \A i \in DOMAIN k : k[i] = g[i]
    BY <2>1 DEF Forget
  <2>3. \A i : Parents(k, i) \subseteq Parents(g, i)
    BY <2>2 DEF Parents
  <2>4. ASSUME NEW i \in DOMAIN k PROVE k[i].strong >= Owners(k, held \ {id}, i)
    <3>1. /\ Owners(k, held \ {id}, i) \in Nat /\ Owners(g, held \ {id}, i) \in Nat
          /\ Owners(k, held \ {id}, i) <= Owners(g, held \ {id}, i)
      BY <1>1, <1>3, <2>3, FewerOwners
    <3>2. k[i].strong = g[i].strong /\ g[i].strong >= Owners(g, held \ {id}, i) /\ g[i].strong \in Nat
      BY <1>1, <2>2 DEF CountsOK, HeapOK, HeapObject
    <3> QED
      BY <3>1, <3>2
  <2>5. \A i \in DOMAIN k : k[i].alive /\ k[i].kid # None => k[i].kid \in DOMAIN k
    BY <1>1, <2>1, <2>2 DEF CountsOK, Referenced
  <2>6. CountsOK(k, held \ {id})
    BY <1>1, <2>2, <2>4, <2>5 DEF CountsOK
  <2> QED
    BY <1>1, <1>3, <2>2, <2>6 DEF k
<1> QED
  BY <1>4, <1>5

-----------------------------------------------------------------------------
(* The bindings that own, and the handles that are on their way.           *)

\* The bindings of a chain of environments.
SlotsOf(es) == {s \in (1..Len(es)) \X Vars : es[s[1]].values[s[2]] # None}

At(es, s) == es[s[1]].values[s[2]]

\* Every owner, the bindings of S and the handles of L, has a handle of its
\* own, and the counts cover them.
Sound(h, es, S, L) ==
  /\ \A s, t \in S : At(es, s) = At(es, t) => s = t
  /\ \A s \in S : At(es, s) \notin L
  /\ CountsOK(h, {At(es, s) : s \in S} \cup L)

\* A scope tracks each of its bindings at most once, and nothing else.
Tracks(env) ==
  /\ \A k \in DOMAIN env.handles :
       \E x \in Vars : env.values[x] = env.handles[k] /\ env.values[x] # None
  /\ \A k, l \in DOMAIN env.handles : env.handles[k] = env.handles[l] => k = l

Plain ==
  /\ current = None /\ ~ret.on /\ doomed = {}
  /\ \A i \in DOMAIN heap : heap[i].arena = None
  /\ \A i \in 1..Depth : /\ envs[i].kind \in {"root", "block"}
                         /\ envs[i].arena = None /\ envs[i].own = None
  /\ \A i \in 2..Depth : Tracks(envs[i])

Between == work = << >> /\ Sound(heap, envs, SlotsOf(envs), {})

Binding(x, id) ==
  /\ Len(work) = 1 /\ work[1] = BindItem(x, id)
  /\ Sound(heap, envs, SlotsOf(envs) \ {<<Depth, x>>}, {id})

Rebinding(x, id) ==
  /\ Len(work) = 2 /\ work[1] = Do("drop", Top.values[x]) /\ work[2] = BindItem(x, id)
  /\ Top.values[x] # None
  /\ Sound(heap, envs, SlotsOf(envs), {id})

\* The scope is left; the handles in ids are still to be dropped.
Leaving(ids) ==
  /\ Depth > 1 /\ Len(work) = Len(ids) + 1
  /\ \A k \in 1..Len(ids) : work[k].op = "drop" /\ work[k].arg = ids[k]
  /\ work[Len(work)].op = "leave"
  /\ \A k, l \in 1..Len(ids) : ids[k] = ids[l] => k = l
  /\ Sound(heap, envs, SlotsOf(envs) \ ({Depth} \X Vars), {ids[k] : k \in 1..Len(ids)})

Owned ==
  /\ Plain
  /\ \/ Between
     \/ \E x \in Vars, id \in Nat : Binding(x, id) \/ Rebinding(x, id)
     \/ \E ids \in Seq(Nat) : Leaving(ids)

-----------------------------------------------------------------------------

LEMMA SlotOK ==
  ASSUME RestOK, NEW s \in SlotsOf(envs)
  PROVE  s[1] \in 1..Depth /\ s[2] \in Vars /\ s = <<s[1], s[2]>> /\ At(envs, s) \in Nat \ {None}
<1>1. s[1] \in 1..Depth /\ s[2] \in Vars /\ s = <<s[1], s[2]>> /\ At(envs, s) # None
  BY DEF SlotsOf, Depth, At
<1>2. envs[s[1]] \in Env
  BY <1>1, TopOK
<1> QED
  BY <1>1, <1>2 DEF Env, At

\* The same owners in another chain, or fewer.
LEMMA SoundFewer ==
  ASSUME NEW h, NEW n, HeapOK(h, n), NEW es, NEW S, NEW L, Sound(h, es, S, L),
         NEW fs, NEW T \in SUBSET S, \A s \in T : At(fs, s) = At(es, s), NEW M,
         \A i \in M : i \in L \/ \E s \in S \ T : At(es, s) = i
  PROVE  Sound(h, fs, T, M)
<1>1. {At(fs, s) : s \in T} \cup M \in SUBSET ({At(es, s) : s \in S} \cup L)
  OBVIOUS
<1>2. CountsOK(h, {At(fs, s) : s \in T} \cup M)
  <2> DEFINE A == {At(fs, s) : s \in T} \cup M
             B == {At(es, s) : s \in S} \cup L
  <2>1. A \in SUBSET B /\ CountsOK(h, B)
    BY <1>1 DEF Sound
  <2> HIDE DEF A, B
  <2>2. CountsOK(h, A)
    BY <2>1, CountsFewer
  <2> QED
    BY <2>2 DEF A
<1>3. \A s, t \in T : At(fs, s) = At(fs, t) => s = t
  BY DEF Sound
<1>4. \A s \in T : At(fs, s) \notin M
  BY DEF Sound
<1> QED
  BY <1>2, <1>3, <1>4 DEF Sound

\* The same counts in another heap.
LEMMA SoundSame ==
  ASSUME NEW h, NEW es, NEW S, NEW L, Sound(h, es, S, L), NEW g, DOMAIN g = DOMAIN h,
         \A i \in DOMAIN h : g[i].alive = h[i].alive /\ g[i].strong = h[i].strong /\ g[i].kid = h[i].kid
  PROVE  Sound(g, es, S, L)
  BY CountsSame DEF Sound

\* From the owners S and L to T and M, the handle id is given up.
Releases(es, S, L, T, M, id) ==
  /\ T \subseteq S /\ M \subseteq L
  /\ \/ id \in L \ M
     \/ id \notin M /\ \E s \in S \ T : At(es, s) = id

\* From h to k, objects were only removed and their counts changed.
Shrinks(h, k) == DOMAIN k \subseteq DOMAIN h /\ \A i \in DOMAIN k : k[i].arena = h[i].arena

\* A handle that is dropped.
LEMMA SoundDrop ==
  ASSUME NEW h, NEW n, HeapOK(h, n), NEW es, NEW S, NEW L, Sound(h, es, S, L),
         NEW T, NEW M, NEW id, Releases(es, S, L, T, M, id),
         NEW k, k = dec_object_strong_recursive(h, id)
  PROVE  Sound(k, es, T, M) /\ HeapOK(k, n) /\ Shrinks(h, k)
<1> DEFINE A == {At(es, s) : s \in T} \cup M
           B == {At(es, s) : s \in S} \cup L
<1>1. id \in B /\ A \in SUBSET (B \ {id})
  BY DEF Sound, Releases
<1>2. CountsOK(h, B)
  BY DEF Sound
<1> HIDE DEF A, B
<1>3. CountsOK(k, B \ {id}) /\ HeapOK(k, n) /\ Shrinks(h, k)
  <2>1. id \in B
    BY <1>1
  <2> QED
    BY <1>2, <2>1, CountsDrop DEF Shrinks
<1>4. CountsOK(k, A)
  BY <1>1, <1>3, CountsFewer
<1>5. Sound(k, es, T, M)
  BY <1>4 DEF Sound, A, Releases
<1> QED
  BY <1>3, <1>5

\* Outside arenas nothing is promoted.
LEMMA NothingPromoted ==
  ASSUME NEW h, NEW n, HeapOK(h, n), NEW id \in Nat, \A i \in DOMAIN h : h[i].arena = None
  PROVE  /\ DOMAIN PromoteHeap(h, n, None, id) = DOMAIN h
         /\ \A i \in DOMAIN h : PromoteHeap(h, n, None, id)[i] = h[i]
         /\ PromoteNext(h, n, None, id) = n
         /\ promote_if_escaping(h, n, None, id) = id
<1>1. Escaping(h, None, id) = {}
  BY NothingEscapes DEF None
<1>2. n \in Nat
  BY DEF HeapOK
<1>3. PromoteNext(h, n, None, id) = n
  BY <1>1, <1>2, FS_EmptySet DEF PromoteNext
<1>4. promote_if_escaping(h, n, None, id) = id
  BY <1>1 DEF promote_if_escaping, Promoted
<1>5. DOMAIN PromoteHeap(h, n, None, id) = DOMAIN h
      /\ \A i \in DOMAIN h : PromoteHeap(h, n, None, id)[i] = h[i]
  BY <1>1 DEF PromoteHeap
<1> QED
  BY <1>3, <1>4, <1>5

\* The finalizers that run give the root's Flag a fresh object.
LEMMA FinalizersSound ==
  ASSUME RestOK, current = None, NEW g, HeapOK(g, next), \A i \in DOMAIN g : g[i].arena = None,
         NEW ran, IsFiniteSet(ran), RunFinalizers(ran, g),
         NEW X, NEW L, Sound(g, envs, SlotsOf(envs) \ X, L)
  PROVE  /\ Sound(heap', envs', SlotsOf(envs') \ X, L)
         /\ \A i \in DOMAIN heap' : heap'[i].arena = None
         /\ Len(envs') = Len(envs)
         /\ \A i \in 2..Len(envs) : envs'[i] = envs[i]
         /\ envs'[1].kind = envs[1].kind /\ envs'[1].arena = envs[1].arena
         /\ envs'[1].own = envs[1].own
<1> DEFINE k == Cardinality(ran)
           Bnd(i) == next + IdsPerFinalizer * i - 1
           kept == {Bnd(i) : i \in 1..k}
           new == next..Bnd(k)
           H == {At(envs, s) : s \in SlotsOf(envs) \ X} \cup L
           V == {At(envs', s) : s \in SlotsOf(envs') \ X} \cup L
<1>1. k \in Nat /\ next \in Nat \ {0}
  BY FS_CardinalityType DEF HeapOK
<1>2. heap' = [i \in DOMAIN g \cup new |->
                 IF i \notin new THEN g[i]
                 ELSE NewObject(IF i \in kept THEN None ELSE current, None)]
  BY DEF RunFinalizers
<1>3. envs' = IF k = 0 THEN envs
              ELSE [envs EXCEPT ![1].values[Flag] = Bnd(k),
                                ![1].handles = @ \o [i \in 1..k |-> Bnd(i)]]
  BY DEF RunFinalizers
<1>4. Bnd(k) = next + k - 1
  BY <1>1 DEF IdsPerFinalizer
<1>5. HeapOK(heap', next')
  BY RunFinalizersOK DEF Evolves
<1> HIDE DEF k, kept
<1>6. \A i \in DOMAIN g : i \notin new
  BY <1>1, <1>4 DEF HeapOK
<1>7. k # 0 => Bnd(k) \in new
  BY <1>1, <1>4
<1> HIDE DEF Bnd, new
<1>8. DOMAIN heap' = DOMAIN g \cup new /\ \A i \in DOMAIN g : heap'[i] = g[i]
  BY <1>2, <1>6
<1>9. \A i \in new : heap'[i].alive /\ heap'[i].kid = None /\ heap'[i].arena = None
  BY <1>2 DEF NewObject
<1>10. CountsOK(heap', H \cup new)
  <2>1. CountsOK(g, H)
    BY DEF Sound
  <2> HIDE DEF H
  <2> QED
    BY <1>5, <1>6, <1>8, <1>9, <2>1, CountsGrow
<1>11. Depth \in Nat \ {0} /\ Len(envs) = Depth /\ \A i \in 1..Depth : envs[i] \in Env
  BY TopOK DEF Depth
<1>12. ASSUME k # 0
       PROVE  /\ Len(envs') = Len(envs)
              /\ \A i \in 2..Len(envs) : envs'[i] = envs[i]
              /\ envs'[1].kind = envs[1].kind /\ envs'[1].arena = envs[1].arena
              /\ envs'[1].own = envs[1].own
              /\ envs'[1].values = [envs[1].values EXCEPT ![Flag] = Bnd(k)]
  <2> DEFINE hs == envs[1].handles \o [i \in 1..k |-> Bnd(i)]
             vs == [envs[1].values EXCEPT ![Flag] = Bnd(k)]
             root == [envs[1] EXCEPT !.values = vs, !.handles = hs]
  <2>1. envs[1] \in Env /\ 1 \in 1..Len(envs) /\ envs \in Seq(Env)
    BY <1>11 DEF RestOK
  <2>2. envs' = [envs EXCEPT ![1] = root]
    BY <1>3, <1>12, <2>1 DEF Env
  <2> HIDE DEF hs, vs
  <2>3. root.kind = envs[1].kind /\ root.arena = envs[1].arena /\ root.own = envs[1].own
        /\ root.values = vs
    BY <2>1 DEF Env
  <2> HIDE DEF root
  <2>4. envs'[1] = root /\ Len(envs') = Len(envs) /\ \A i \in 2..Len(envs) : envs'[i] = envs[i]
    BY <1>11, <2>1, <2>2
  <2> QED
    BY <2>3, <2>4 DEF vs
<1>13. /\ Len(envs') = Len(envs)
       /\ \A i \in 2..Len(envs) : envs'[i] = envs[i]
       /\ envs'[1].kind = envs[1].kind /\ envs'[1].arena = envs[1].arena
       /\ envs'[1].own = envs[1].own
  BY <1>3, <1>12
<1>14. ASSUME NEW s \in SlotsOf(envs')
       PROVE  \/ s \in SlotsOf(envs) /\ At(envs', s) = At(envs, s)
              \/ s = <<1, Flag>> /\ At(envs', s) \in new
  <2>1. s[1] \in 1..Depth /\ s[2] \in Vars /\ s = <<s[1], s[2]>> /\ envs'[s[1]].values[s[2]] # None
    BY <1>11, <1>13 DEF SlotsOf
  <2>2. CASE k = 0
    BY <1>3, <1>14, <2>2
  <2>3. CASE k # 0 /\ s[1] # 1
    <3>1. envs'[s[1]] = envs[s[1]]
      BY <1>11, <1>13, <2>1, <2>3
    <3> QED
      BY <1>11, <2>1, <3>1 DEF SlotsOf, At
  <2>4. CASE k # 0 /\ s[1] = 1
    <3>1. envs'[1].values = [envs[1].values EXCEPT ![Flag] = Bnd(k)] /\ envs[1].values \in [Vars -> Nat]
      BY <1>11, <1>12, <2>4 DEF Env
    <3>2. CASE s[2] = Flag
      BY <1>7, <2>1, <2>4, <3>1, <3>2 DEF At
    <3>3. CASE s[2] # Flag
      <4>1. envs'[1].values[s[2]] = envs[1].values[s[2]]
        BY <2>1, <3>1, <3>3
      <4> QED
        BY <1>11, <2>1, <2>4, <4>1 DEF SlotsOf, At
    <3> QED
      BY <3>2, <3>3
  <2> QED
    BY <2>2, <2>3, <2>4
<1>15. H \subseteq DOMAIN g
  BY DEF Sound, CountsOK
<1>16. V \in SUBSET (H \cup new)
  BY <1>14
<1>17. CountsOK(heap', V)
  <2> HIDE DEF V, H
  <2> QED
    BY <1>5, <1>10, <1>16, CountsFewer
<1>18. \A s, t \in SlotsOf(envs') \ X : At(envs', s) = At(envs', t) => s = t
  <2> TAKE s, t \in SlotsOf(envs') \ X
  <2>1. \A r \in SlotsOf(envs) \ X : At(envs, r) \in DOMAIN g
    BY <1>15
  <2>2. CASE s \in SlotsOf(envs) /\ At(envs', s) = At(envs, s)
             /\ t \in SlotsOf(envs) /\ At(envs', t) = At(envs, t)
    BY <2>2 DEF Sound
  <2> QED
    BY <1>6, <1>14, <2>1, <2>2
<1>19. \A s \in SlotsOf(envs') \ X : At(envs', s) \notin L
  <2> TAKE s \in SlotsOf(envs') \ X
  <2>1. CASE s \in SlotsOf(envs) /\ At(envs', s) = At(envs, s)
    BY <2>1 DEF Sound
  <2> QED
    BY <1>6, <1>14, <1>15, <2>1
<1>20. Sound(heap', envs', SlotsOf(envs') \ X, L)
  BY <1>17, <1>18, <1>19 DEF Sound
<1>21. \A i \in DOMAIN heap' : heap'[i].arena = None
  BY <1>8, <1>9
<1> QED
  BY <1>13, <1>20, <1>21

-----------------------------------------------------------------------------
(* What a scope tracks. *)

\* Of handles that are all different, taking one out leaves the others.
LEMMA RemoveOnce ==
  ASSUME NEW hs \in Seq(Nat), NEW id,
         \A k, l \in DOMAIN hs : hs[k] = hs[l] => k = l
  PROVE  LET rs == RemoveHandle(hs, id)
         IN  /\ \A k \in DOMAIN rs : \E l \in DOMAIN hs : rs[k] = hs[l] /\ hs[l] # id
             /\ \A k, l \in DOMAIN rs : rs[k] = rs[l] => k = l
<1> DEFINE First(i) == i \in DOMAIN hs /\ hs[i] = id /\ \A j \in 1..(i - 1) : hs[j] # id
           m == CHOOSE i \in DOMAIN hs : hs[i] = id /\ \A j \in 1..(i - 1) : hs[j] # id
           rs == RemoveHandle(hs, id)
<1>1. Len(hs) \in Nat /\ DOMAIN hs = 1..Len(hs)
  OBVIOUS
<1>2. CASE \E i \in DOMAIN hs : hs[i] = id
  <2>1. PICK i \in DOMAIN hs : hs[i] = id
    BY <1>2
  <2>2. \A j \in 1..(i - 1) : hs[j] # id
    BY <1>1, <2>1
  <2>3. m \in DOMAIN hs /\ hs[m] = id
    BY <2>1, <2>2
  <2>4. rs = [j \in 1..(Len(hs) - 1) |-> IF j < m THEN hs[j] ELSE hs[j + 1]]
    BY <1>2 DEF RemoveHandle
  <2> HIDE DEF m, rs
  <2>5. DOMAIN rs = 1..(Len(hs) - 1)
    BY <2>4
  <2> DEFINE Old(j) == IF j < m THEN j ELSE j + 1
  <2>6. ASSUME NEW j \in DOMAIN rs
        PROVE  Old(j) \in DOMAIN hs /\ Old(j) # m /\ rs[j] = hs[Old(j)]
    <3>1. j \in 1..(Len(hs) - 1) /\ j \in Nat /\ m \in Nat
      BY <1>1, <2>3, <2>5
    <3> QED
      BY <1>1, <2>4, <3>1
  <2>7. \A j \in DOMAIN rs : hs[Old(j)] # id
    BY <2>3, <2>6
  <2>8. ASSUME NEW j \in DOMAIN rs, NEW l \in DOMAIN rs, rs[j] = rs[l] PROVE j = l
    <3>1. j \in Nat /\ l \in Nat /\ m \in Nat
      BY <1>1, <2>3, <2>5
    <3>2. Old(j) = Old(l)
      BY <2>6, <2>8
    <3> QED
      BY <3>1, <3>2
  <2> QED
    BY <2>6, <2>7, <2>8 DEF rs
<1>3. CASE ~\E i \in DOMAIN hs : hs[i] = id
  BY <1>3 DEF RemoveHandle
<1> QED
  BY <1>2, <1>3

\* Defining a name takes its old handle out and puts the new one in.
LEMMA DefineTracks ==
  ASSUME NEW env \in Env, Tracks(env), NEW x \in Vars, NEW id \in Nat,
         \A y \in Vars \ {x} : env.values[y] # id \/ id = None
  PROVE  Tracks(define(env, x, id))
<1> DEFINE kept == IF env.values[x] # None THEN RemoveHandle(env.handles, env.values[x])
                   ELSE env.handles
           hs == IF id # None THEN Append(kept, id) ELSE kept
           vs == [env.values EXCEPT ![x] = id]
           d == define(env, x, id)
<1>1. env.handles \in Seq(Nat) /\ env.values \in [Vars -> Nat]
  BY DEF Env
<1>2. kept \in Seq(Nat)
  BY <1>1, RemoveHandleOK
<1>3. d = [env EXCEPT !.values = vs, !.handles = hs]
  BY DEF define, Env
<1>4. /\ \A k \in DOMAIN kept : \E y \in Vars \ {x} : env.values[y] = kept[k] /\ kept[k] # None
      /\ \A k, l \in DOMAIN kept : kept[k] = kept[l] => k = l
  <2>1. CASE env.values[x] # None
    <3>1. /\ \A k \in DOMAIN kept : \E l \in DOMAIN env.handles :
                kept[k] = env.handles[l] /\ env.handles[l] # env.values[x]
          /\ \A k, l \in DOMAIN kept : kept[k] = kept[l] => k = l
      BY <1>1, <2>1, RemoveOnce DEF Tracks
    <3> HIDE DEF kept
    <3> QED
      BY <3>1 DEF Tracks
  <2>2. CASE env.values[x] = None
    BY <2>2 DEF Tracks
  <2> QED
    BY <2>1, <2>2
<1> HIDE DEF kept
<1>5. /\ \A k \in DOMAIN hs : \E y \in Vars : vs[y] = hs[k] /\ vs[y] # None
      /\ \A k, l \in DOMAIN hs : hs[k] = hs[l] => k = l
  <2>1. CASE id # None
    <3>1. hs = Append(kept, id) /\ Len(kept) \in Nat
      BY <1>2, <2>1
    <3>2. DOMAIN hs = DOMAIN kept \cup {Len(kept) + 1} /\ hs[Len(kept) + 1] = id
          /\ \A k \in DOMAIN kept : hs[k] = kept[k]
      BY <1>2, <3>1
    <3>3. \A k \in DOMAIN kept : kept[k] # id
      BY <1>4, <2>1
    <3>4. \A y \in Vars \ {x} : vs[y] = env.values[y]
      BY <1>1
    <3>5. vs[x] = id
      BY <1>1
    <3> HIDE DEF hs, vs
    <3> QED
      BY <1>4, <2>1, <3>2, <3>3, <3>4, <3>5
  <2>2. CASE id = None
    <3>1. \A y \in Vars \ {x} : vs[y] = env.values[y]
      BY <1>1
    <3> QED
      BY <1>4, <2>2, <3>1
  <2> QED
    BY <2>1, <2>2
<1> HIDE DEF hs, vs
<1>6. d.values = vs /\ d.handles = hs
  BY <1>3 DEF Env
<1> HIDE DEF d
<1>7. Tracks(d)
  BY <1>5, <1>6 DEF Tracks
<1> QED
  BY <1>7 DEF d

-----------------------------------------------------------------------------
(* The actions. *)

\* A name that is looked up is bound somewhere on the chain.
LEMMA VisibleBound ==
  ASSUME RestOK, NEW id \in Visible
  PROVE  \E s \in SlotsOf(envs) : At(envs, s) = id
<1>1. PICK x \in Vars : id \in Lookup(x)
  BY DEF Visible
<1>2. PICK i \in Chain : id = envs[i].values[x] /\ envs[i].values[x] # None
  BY <1>1 DEF Lookup
<1>3. i \in 1..Len(envs)
  BY <1>2 DEF Chain, Depth
<1>4. <<i, x>> \in SlotsOf(envs) /\ At(envs, <<i, x>>) = id
  BY <1>2, <1>3 DEF SlotsOf, At
<1> QED
  BY <1>4

LEMMA StatementBetween ==
  ASSUME Owned, work = << >>
  PROVE  Between
<1>1. \A x \in Vars, id \in Nat : ~Binding(x, id) /\ ~Rebinding(x, id)
  BY DEF Binding, Rebinding
<1>2. \A ids \in Seq(Nat) : ~Leaving(ids)
  BY DEF Leaving
<1> QED
  BY <1>1, <1>2 DEF Owned

\* A literal is bound, after the old value of its name was dropped.
LEMMA LetNewOwned ==
  ASSUME IInv, Owned, NEW x \in Vars, NEW kid \in Visible \cup {None}, LetNew(x, kid)
  PROVE  Owned'
<1> DEFINE h == heapify_composite(heap, next, current, kid)
           H == {At(envs, s) : s \in SlotsOf(envs)} \cup {}
<1>1. Between /\ Plain /\ RestOK
  BY StatementBetween DEF LetNew, Ready, Owned, IInv
<1>2. Top \in Env /\ Depth \in Nat \ {0} /\ Depth \in 1..Depth
  BY <1>1, TopOK
<1>3. Top.arena = None /\ current = None
  BY <1>1, <1>2 DEF Plain, Top
<1>4. CountsOK(heap, H)
  BY <1>1 DEF Between, Sound
<1>5. kid \in H \cup {None} /\ kid \in Nat
  BY <1>1, VisibleBound, VisibleOK DEF None
<1>6. /\ CountsOK(h, H \cup {next})
      /\ DOMAIN h = DOMAIN heap \cup {next}
      /\ \A i \in DOMAIN h : h[i].arena = None
  <2> HIDE DEF H
  <2>1. current \in Nat
    BY <1>3 DEF None
  <2> QED
    <3>1. HeapOK(heap, next) /\ kid \in H \cup {None}
      BY <1>5 DEF IInv
    <3>2. CountsOK(h, H \cup {next}) /\ Allocates(heap, next, current, h)
      <4>1. h = heapify_composite(heap, next, current, kid) /\ (kid \in H \/ kid = None)
        BY <3>1
      <4> HIDE DEF h
      <4> QED
        BY <1>4, <2>1, <3>1, <4>1, CountsHeapify
    <3> HIDE DEF h
    <3> QED
      BY <1>1, <1>3, <3>2 DEF Plain, Allocates
<1>7. HeapOK(h, next + 1) /\ next \in Nat \ {0} /\ next \notin DOMAIN heap
  <2>1. HeapOK(heap, next) /\ current \in Nat /\ kid \in Nat
    BY <1>3, <1>5 DEF IInv, None
  <2>2. HeapOK(h, next + 1)
    BY <2>1, HeapifyHeap DEF Evolves
  <2> HIDE DEF h
  <2> QED
    BY <2>1, <2>2 DEF HeapOK
<1>8. LetPromoted(h, next + 1, Top, x, next)
      /\ UNCHANGED <<nextArena, current, arenaStack, finalizers, envs, ret, doomed>>
  BY DEF LetNew
<1>9. \A s \in SlotsOf(envs) : At(envs, s) \in DOMAIN heap
  BY <1>4 DEF CountsOK
<1>10. Sound(h, envs, SlotsOf(envs), {next})
  <2>1. \A s, t \in SlotsOf(envs) : At(envs, s) = At(envs, t) => s = t
    BY <1>1 DEF Between, Sound
  <2>2. \A s \in SlotsOf(envs) : At(envs, s) \notin {next}
    BY <1>7, <1>9
  <2> QED
    BY <1>6, <2>1, <2>2 DEF Sound
<1> HIDE DEF h, H
<1>11. /\ DOMAIN heap' = DOMAIN h /\ \A i \in DOMAIN h : heap'[i] = h[i]
       /\ work' = Rebind(Top, x, next)
  BY <1>3, <1>6, <1>7, <1>8, NothingPromoted DEF LetPromoted
<1>12. Sound(heap', envs, SlotsOf(envs), {next})
  BY <1>10, <1>11, SoundSame
<1>13. Plain'
  BY <1>1, <1>6, <1>8, <1>11 DEF Plain, Depth
<1>14. CASE Top.values[x] # None
  <2>1. Len(work') = 2 /\ work'[1] = Do("drop", Top.values[x]) /\ work'[2] = BindItem(x, next)
    <3> DEFINE a == Do("drop", Top.values[x])
               b == BindItem(x, next)
    <3>1. a \in {a, b} /\ b \in {a, b} /\ work' = <<a>> \o <<b>>
      BY <1>11, <1>14 DEF Rebind
    <3> HIDE DEF a, b
    <3>2. <<a>> \in Seq({a, b}) /\ <<b>> \in Seq({a, b}) /\ Len(<<a>>) = 1 /\ Len(<<b>>) = 1
      BY <3>1
    <3>3. Len(work') = 2 /\ work'[1] = a /\ work'[2] = b
      BY <3>1, <3>2, ConcatProperties
    <3> QED
      BY <3>3 DEF a, b
  <2>2. PICK n \in Nat : n = next
    BY <1>7
  <2>3. Rebinding(x, n)'
    BY <1>8, <1>12, <1>14, <2>1, <2>2 DEF Rebinding, Top, Depth
  <2> QED
    BY <1>13, <2>3 DEF Owned
<1>15. CASE Top.values[x] = None
  <2>1. Len(work') = 1 /\ work'[1] = BindItem(x, next)
    <3> DEFINE b == BindItem(x, next)
    <3>1. work' = << >> \o <<b>>
      BY <1>11, <1>15 DEF Rebind
    <3> HIDE DEF b
    <3>2. << >> \o <<b>> = <<b>>
      BY <3>1, ConcatEmptySeq
    <3> QED
      BY <3>1, <3>2 DEF b
  <2>2. <<Depth, x>> \notin SlotsOf(envs)
    BY <1>15 DEF SlotsOf, Top
  <2>3. SlotsOf(envs) \ {<<Depth, x>>} = SlotsOf(envs)
    BY <2>2
  <2>4. PICK n \in Nat : n = next
    BY <1>7
  <2>5. Binding(x, n)'
    BY <1>8, <1>12, <2>1, <2>3, <2>4 DEF Binding, Depth
  <2> QED
    BY <1>13, <2>5 DEF Owned
<1> QED
  BY <1>14, <1>15

LEMMA WeakNewOwned ==
  ASSUME IInv, Owned, NEW id, WeakNew(id)
  PROVE  Owned'
<1>1. Between /\ Plain
  BY StatementBetween DEF WeakNew, Ready, Owned
<1>2. heap' = [heap EXCEPT ![id] = inc_weak(heap[id])] /\ id \in DOMAIN heap
      /\ UNCHANGED <<next, nextArena, current, arenaStack, finalizers, envs, ret, doomed, work>>
  BY DEF WeakNew
<1>3. heap[id] \in HeapObject
  BY <1>2 DEF IInv, HeapOK
<1>4. /\ inc_weak(heap[id]).alive = heap[id].alive /\ inc_weak(heap[id]).strong = heap[id].strong
      /\ inc_weak(heap[id]).kid = heap[id].kid /\ inc_weak(heap[id]).arena = heap[id].arena
  BY <1>3 DEF inc_weak, HeapObject
<1>5. DOMAIN heap' = DOMAIN heap
      /\ \A i \in DOMAIN heap : /\ heap'[i].alive = heap[i].alive /\ heap'[i].strong = heap[i].strong
                               /\ heap'[i].kid = heap[i].kid /\ heap'[i].arena = heap[i].arena
  BY <1>2, <1>4
<1>6. Sound(heap', envs, SlotsOf(envs), {})
  BY <1>1, <1>5, SoundSame DEF Between
<1>7. Between'
  BY <1>1, <1>2, <1>6 DEF Between
<1>8. Plain'
  BY <1>1, <1>2, <1>5 DEF Plain, Depth
<1> QED
  BY <1>7, <1>8 DEF Owned

LEMMA EnterBlockOwned ==
  ASSUME IInv, Owned, EnterBlock
  PROVE  Owned'
<1> DEFINE e == NewEnv("block", Top.arena)
<1>1. Between /\ Plain /\ RestOK
  BY StatementBetween DEF EnterBlock, Ready, Owned, IInv
<1>2. envs' = envs \o <<e>>
      /\ UNCHANGED <<heap, next, current, arenaStack, finalizers, ret, work, doomed>>
  BY DEF EnterBlock, Open
<1>3. Depth \in Nat \ {0} /\ Len(envs) = Depth /\ envs \in Seq(Env) /\ Top.arena = None
  BY <1>1, TopOK DEF Depth, RestOK, Plain, Top
<1>4. e.kind = "block" /\ e.arena = None /\ e.own = None /\ e.handles = << >>
      /\ \A x \in Vars : e.values[x] = None
  BY <1>3 DEF NewEnv
<1>5. e \in Env
  BY <1>3, NewEnvOK DEF Kinds, None
<1> HIDE DEF e
<1>6. Len(envs') = Depth + 1 /\ envs'[Depth + 1] = e /\ \A i \in 1..Depth : envs'[i] = envs[i]
  BY <1>2, <1>3, <1>5
<1>7. SlotsOf(envs') = SlotsOf(envs) /\ \A s \in SlotsOf(envs) : At(envs', s) = At(envs, s)
  <2>1. \A i \in 1..(Depth + 1) : i \in 1..Depth \/ i = Depth + 1
    BY <1>3
  <2>2. \A i \in 1..Depth : i \in 1..(Depth + 1)
    BY <1>3
  <2> QED
    BY <1>3, <1>4, <1>6, <2>1, <2>2 DEF SlotsOf, At
<1>8. Sound(heap, envs', SlotsOf(envs), {})
  BY <1>1, <1>7, SoundFewer DEF Between, IInv
<1>9. Between'
  BY <1>1, <1>2, <1>7, <1>8 DEF Between
<1>10. Tracks(e)
  BY <1>4 DEF Tracks
<1>11. Plain'
  <2>1. Depth' = Depth + 1
    BY <1>6 DEF Depth
  <2>2. \A i \in 1..(Depth + 1) : (i \in 1..Depth /\ envs'[i] = envs[i]) \/ envs'[i] = e
    BY <1>3, <1>6
  <2>3. \A i \in 2..(Depth + 1) : (i \in 2..Depth /\ envs'[i] = envs[i]) \/ envs'[i] = e
    BY <1>3, <1>6
  <2>4. \A i \in 1..Depth' : envs'[i].kind \in {"root", "block"}
          /\ envs'[i].arena = None /\ envs'[i].own = None
    BY <1>1, <1>4, <2>1, <2>2 DEF Plain
  <2>5. \A i \in 2..Depth' : Tracks(envs'[i])
    BY <1>1, <1>10, <2>1, <2>3 DEF Plain
  <2> QED
    BY <1>1, <1>2, <2>4, <2>5 DEF Plain
<1> QED
  BY <1>9, <1>11 DEF Owned

LEMMA OwnedSame ==
  ASSUME Owned, UNCHANGED <<heap, envs, work, current, ret, doomed>>
  PROVE  Owned'
<1>1. Plain'
  BY DEF Owned, Plain, Depth
<1>2. CASE Between
  BY <1>1, <1>2 DEF Between, Owned
<1>3. ASSUME NEW x \in Vars, NEW id \in Nat, Binding(x, id) PROVE Owned'
  <2>1. Binding(x, id)'
    BY <1>3 DEF Binding, Depth
  <2> QED
    BY <1>1, <2>1 DEF Owned
<1>4. ASSUME NEW x \in Vars, NEW id \in Nat, Rebinding(x, id) PROVE Owned'
  <2>1. Rebinding(x, id)'
    BY <1>4 DEF Rebinding, Top, Depth
  <2> QED
    BY <1>1, <2>1 DEF Owned
<1>5. ASSUME NEW ids \in Seq(Nat), Leaving(ids) PROVE Owned'
  <2>1. Leaving(ids)'
    BY <1>5 DEF Leaving, Depth
  <2> QED
    BY <1>1, <2>1 DEF Owned
<1> QED
  BY <1>2, <1>3, <1>4, <1>5 DEF Owned

\* The handles a scope drops when it is left are the ones of its bindings.
LEMMA ExitOwned ==
  ASSUME IInv, Owned, Exit
  PROVE  Owned'
<1>1. Between /\ Plain /\ RestOK
  BY StatementBetween DEF Exit, Owned, IInv
<1>2. work' = Teardown(Top) /\ Depth > 1
      /\ UNCHANGED <<heap, next, nextArena, current, arenaStack, finalizers, envs, ret, doomed>>
  BY DEF Exit
<1>3. Depth \in Nat \ {0} /\ Top \in Env /\ Top = envs[Depth]
  BY <1>1, TopOK DEF Top
<1>4. Top.own = None /\ Tracks(Top) /\ Top.handles \in Seq(Nat)
  BY <1>1, <1>2, <1>3 DEF Plain, Env
<1>5. PICK ids \in Seq(Nat) : ids = Top.handles
  BY <1>4
<1>6. /\ Len(work') = Len(ids) + 1
      /\ \A k \in 1..Len(ids) : work'[k].op = "drop" /\ work'[k].arg = ids[k]
      /\ work'[Len(ids) + 1].op = "leave"
  <2> DEFINE a == Drops(Top)
             e == << >>
             b == <<Do("leave", None)>>
  <2>1. \A i \in DOMAIN ids : Do("drop", ids[i]) \in Item
    BY DoOK DEF Ops
  <2>2. DOMAIN a = 1..Len(ids) /\ \A k \in 1..Len(ids) : a[k] = Do("drop", ids[k])
    BY <1>5 DEF Drops
  <2>3. a \in [1..Len(ids) -> Item] /\ Len(ids) \in Nat
    BY <1>5, <2>1 DEF Drops
  <2>4. a \in Seq(Item)
    BY <2>3
  <2>5. Len(a) = Len(ids)
    BY <2>2, <2>4
  <2>6. Do("leave", None) \in Item
    BY DoOK DEF Ops, None
  <2>7. b \in Seq(Item) /\ Len(b) = 1 /\ b[1] = Do("leave", None)
    BY <2>6
  <2>8. work' = (a \o e) \o b
    BY <1>2, <1>4 DEF Teardown
  <2> HIDE DEF a, b
  <2>9. a \o e = a
    BY <2>4, ConcatEmptySeq
  <2>10. /\ Len(work') = Len(ids) + 1
         /\ \A k \in 1..(Len(ids) + 1) : work'[k] = IF k <= Len(ids) THEN a[k] ELSE b[k - Len(ids)]
    <3>1. a \in Seq(Item) /\ b \in Seq(Item) /\ work' = a \o b
      BY <2>4, <2>7, <2>8, <2>9
    <3>2. /\ Len(a \o b) = Len(a) + Len(b)
          /\ \A k \in 1..(Len(a) + Len(b)) : (a \o b)[k] = IF k <= Len(a) THEN a[k] ELSE b[k - Len(a)]
      BY <3>1, ConcatProperties
    <3> QED
      BY <2>5, <2>7, <3>1, <3>2
  <2>11. \A k \in 1..Len(ids) : work'[k] = Do("drop", ids[k])
    BY <2>2, <2>3, <2>10
  <2>12. work'[Len(ids) + 1] = Do("leave", None)
    <3>1. Len(ids) + 1 \in 1..(Len(ids) + 1) /\ ~(Len(ids) + 1 <= Len(ids))
          /\ (Len(ids) + 1) - Len(ids) = 1
      BY <2>3
    <3> QED
      BY <2>7, <2>10, <3>1
  <2> QED
    <3>1. \A arg : Do("drop", arg).op = "drop" /\ Do("drop", arg).arg = arg
          /\ Do("leave", arg).op = "leave"
      BY DEF Do
    <3> QED
      BY <2>10, <2>11, <2>12, <3>1
<1>7. \A k, l \in 1..Len(ids) : ids[k] = ids[l] => k = l
  BY <1>4, <1>5 DEF Tracks
<1>8. Sound(heap, envs, SlotsOf(envs) \ ({Depth} \X Vars), {ids[k] : k \in 1..Len(ids)})
  <2> DEFINE S == SlotsOf(envs)
             T == S \ ({Depth} \X Vars)
             M == {ids[k] : k \in 1..Len(ids)}
  <2>1. ASSUME NEW k \in 1..Len(ids) PROVE \E s \in S \ T : At(envs, s) = ids[k]
    <3>1. PICK x \in Vars : Top.values[x] = ids[k] /\ Top.values[x] # None
      BY <1>4, <1>5 DEF Tracks
    <3>2. Depth \in 1..Len(envs) /\ Top = envs[Depth]
      BY <1>3 DEF Depth, Top
    <3>3. <<Depth, x>> \in S /\ <<Depth, x>> \in {Depth} \X Vars /\ At(envs, <<Depth, x>>) = ids[k]
      BY <3>1, <3>2 DEF SlotsOf, At
    <3> QED
      BY <3>3
  <2>2. \A i \in M : \E s \in S \ T : At(envs, s) = i
    BY <2>1
  <2>3. T \in SUBSET S /\ Sound(heap, envs, S, {})
    BY <1>1 DEF Between
  <2> HIDE DEF S, T, M
  <2>4. Sound(heap, envs, T, M)
    BY <2>2, <2>3, SoundFewer DEF IInv
  <2> QED
    BY <2>4 DEF S, T, M
<1>9. Leaving(ids)'
  BY <1>2, <1>6, <1>7, <1>8 DEF Leaving, Depth
<1>10. Plain'
  BY <1>1, <1>2 DEF Plain, Depth
<1> QED
  BY <1>9, <1>10 DEF Owned

\* The item at the head, and the ones behind it.
LEMMA HeadAndTail ==
  ASSUME RestOK, NEW op, Doing(op)
  PROVE  /\ Item1 = work[1] /\ work[1].op = op /\ Len(work) \in Nat \ {0}
         /\ Len(Tail(work)) = Len(work) - 1
         /\ \A k \in 1..(Len(work) - 1) : Tail(work)[k] = work[k + 1]
<1>1. work \in Seq(Item) /\ work # << >> /\ Head(work).op = op
  BY DEF RestOK, Doing
<1>2. Item1 = work[1] /\ Len(work) \in Nat \ {0}
  BY <1>1 DEF Item1
<1>3. Len(Tail(work)) = Len(work) - 1
      /\ \A k \in 1..(Len(work) - 1) : Tail(work)[k] = work[k + 1]
  BY <1>1
<1> QED
  BY <1>1, <1>2, <1>3 DEF Item1

\* What a drop and its finalizers leave, for the bindings outside X.
LEMMA DropSound ==
  ASSUME IInv, Plain, NEW id, NEW S, NEW L, Sound(heap, envs, S, L),
         NEW X, NEW M, Releases(envs, S, L, SlotsOf(envs) \ X, M, id),
         RunFinalizers(Dying(heap, id) \cap finalizers, dec_object_strong_recursive(heap, id)),
         UNCHANGED <<current, ret, doomed>>
  PROVE  Sound(heap', envs', SlotsOf(envs') \ X, M) /\ Depth' = Depth /\ Plain'
<1> DEFINE ran == Dying(heap, id) \cap finalizers
           k == dec_object_strong_recursive(heap, id)
           T == SlotsOf(envs) \ X
<1>1. RestOK /\ HeapOK(heap, next)
  BY DEF IInv
<1>2. Sound(k, envs, T, M) /\ HeapOK(k, next) /\ Shrinks(heap, k)
  BY <1>1, SoundDrop
<1>3. IsFiniteSet(ran)
  <2>1. ran \in SUBSET DOMAIN heap
    BY VisitedPresent DEF Dying
  <2> HIDE DEF ran
  <2> QED
    BY <1>1, <2>1, PresentFinite
<1>4. RunFinalizers(ran, k)
  OBVIOUS
<1>5. \A i \in DOMAIN k : k[i].arena = None
  BY <1>2 DEF Plain, Shrinks
<1> HIDE DEF ran, k
<1>6. /\ Sound(heap', envs', SlotsOf(envs') \ X, M)
      /\ \A i \in DOMAIN heap' : heap'[i].arena = None
      /\ Len(envs') = Len(envs)
      /\ \A i \in 2..Len(envs) : envs'[i] = envs[i]
      /\ envs'[1].kind = envs[1].kind /\ envs'[1].arena = envs[1].arena
      /\ envs'[1].own = envs[1].own
  BY <1>1, <1>2, <1>3, <1>4, <1>5, FinalizersSound DEF Plain
<1>7. Depth' = Depth /\ Depth \in Nat \ {0} /\ Len(envs) = Depth
  BY <1>1, <1>6, TopOK DEF Depth
<1>8. Plain'
  <2>1. ASSUME NEW i \in 1..Depth
        PROVE  envs'[i].kind \in {"root", "block"} /\ envs'[i].arena = None /\ envs'[i].own = None
    <3>1. i = 1 \/ i \in 2..Depth
      BY <1>7
    <3> QED
      BY <1>6, <1>7, <2>1, <3>1 DEF Plain
  <2>2. \A i \in 2..Depth : Tracks(envs'[i])
    BY <1>6, <1>7 DEF Plain
  <2>3. current' = None /\ ~ret'.on /\ doomed' = {}
    BY DEF Plain
  <2> QED
    BY <1>6, <1>7, <2>1, <2>2, <2>3 DEF Plain
<1> QED
  BY <1>6, <1>7, <1>8

\* The old value of a name, or the next handle of a scope that is left.
LEMMA DropOwned ==
  ASSUME IInv, Owned, Drop
  PROVE  Owned'
<1> DEFINE id == Item1.arg
<1>1. /\ RunFinalizers(Dying(heap, id) \cap finalizers, dec_object_strong_recursive(heap, id))
      /\ work' = Tail(work) /\ UNCHANGED <<current, ret, doomed>>
  BY DEF Drop
<1>2. /\ id = work[1].arg /\ work[1].op = "drop" /\ Len(work) \in Nat \ {0}
      /\ Len(Tail(work)) = Len(work) - 1
      /\ \A k \in 1..(Len(work) - 1) : Tail(work)[k] = work[k + 1]
  BY HeadAndTail DEF IInv, Drop
<1> HIDE DEF id
<1>3. Plain
  BY DEF Owned
<1>4. ~Between /\ \A x \in Vars, n \in Nat : ~Binding(x, n)
  <2>1. Len(<< >>) = 0
    OBVIOUS
  <2> QED
    BY <1>2, <2>1 DEF Between, Binding, BindItem
<1>5. ASSUME NEW x \in Vars, NEW n \in Nat, Rebinding(x, n) PROVE Owned'
  <2> DEFINE S == SlotsOf(envs)
             X == {<<Depth, x>>}
  <2>1. /\ Len(work) = 2 /\ work[1] = Do("drop", Top.values[x]) /\ work[2] = BindItem(x, n)
        /\ Top.values[x] # None /\ Sound(heap, envs, S, {n})
    BY <1>5 DEF Rebinding
  <2>2. id = Top.values[x]
    BY <1>2, <2>1 DEF Do
  <2>3. <<Depth, x>> \in S /\ At(envs, <<Depth, x>>) = id
    <3>1. Depth \in 1..Len(envs)
      BY TopOK DEF IInv, Depth
    <3> QED
      BY <2>1, <2>2, <3>1 DEF SlotsOf, At, Top
  <2>4. id \notin {n}
    BY <2>1, <2>3 DEF Sound
  <2>5. <<Depth, x>> \in S \ (S \ X)
    BY <2>3
  <2>6. PICK d \in Nat : d = Depth
    BY TopOK DEF IInv
  <2>7. Sound(heap', envs', SlotsOf(envs') \ {<<d, x>>}, {n}) /\ Depth' = Depth /\ Plain'
    <3>1. \E s \in S \ (SlotsOf(envs) \ {<<d, x>>}) : At(envs, s) = id
      BY <2>3, <2>5, <2>6
    <3>2. Releases(envs, S, {n}, SlotsOf(envs) \ {<<d, x>>}, {n}, id)
      BY <2>4, <3>1 DEF Releases
    <3> QED
      BY <1>1, <1>3, <2>1, <3>2, DropSound
  <2>8. Len(work') = 1 /\ work'[1] = BindItem(x, n)
    <3>1. Len(work) = 2
      BY <2>1
    <3>2. Len(Tail(work)) = 1 /\ Tail(work)[1] = work[2]
      BY <1>2, <3>1
    <3>3. work[2] = BindItem(x, n)
      BY <2>1
    <3> QED
      BY <1>1, <3>2, <3>3
  <2>9. Binding(x, n)'
    BY <2>6, <2>7, <2>8 DEF Binding
  <2> QED
    BY <2>7, <2>9 DEF Owned
<1>6. ASSUME NEW ids \in Seq(Nat), Leaving(ids) PROVE Owned'
  <2> DEFINE L == {ids[k] : k \in 1..Len(ids)}
             rest == Tail(ids)
             M == {rest[k] : k \in 1..Len(rest)}
  <2>1. /\ Depth > 1 /\ Len(work) = Len(ids) + 1
        /\ \A k \in 1..Len(ids) : work[k].op = "drop" /\ work[k].arg = ids[k]
        /\ work[Len(work)].op = "leave"
        /\ \A k, l \in 1..Len(ids) : ids[k] = ids[l] => k = l
        /\ Sound(heap, envs, SlotsOf(envs) \ ({Depth} \X Vars), L)
    BY <1>6 DEF Leaving
  <2>2. Len(ids) \in Nat /\ Len(ids) # 0
    BY <1>2, <2>1
  <2>3. id = ids[1]
    BY <1>2, <2>1, <2>2
  <2>4. rest \in Seq(Nat) /\ Len(rest) = Len(ids) - 1
        /\ \A k \in 1..(Len(ids) - 1) : rest[k] = ids[k + 1]
    BY <2>2
  <2> HIDE DEF rest
  <2>5. \A k \in 1..(Len(ids) - 1) : k + 1 \in 1..Len(ids) /\ k + 1 # 1 /\ 1 \in 1..Len(ids)
    BY <2>2
  <2>6. M \subseteq L /\ id \in L \ M
    <3>1. \A k \in 1..Len(rest) : rest[k] \in L /\ rest[k] # ids[1]
      BY <2>1, <2>4, <2>5
    <3>2. ids[1] \in L
      BY <2>2
    <3> QED
      BY <2>3, <3>1, <3>2
  <2>7. PICK d \in Nat : d = Depth
    BY TopOK DEF IInv
  <2>8. Sound(heap', envs', SlotsOf(envs') \ ({d} \X Vars), M) /\ Depth' = Depth /\ Plain'
    <3> DEFINE S == SlotsOf(envs) \ ({d} \X Vars)
    <3>1. Sound(heap, envs, S, L)
      BY <2>1, <2>7
    <3> HIDE DEF L, M
    <3>2. Releases(envs, S, L, SlotsOf(envs) \ ({d} \X Vars), M, id)
      BY <2>6 DEF Releases
    <3> HIDE DEF S
    <3> QED
      BY <1>1, <1>3, <3>1, <3>2, DropSound
  <2>9. Len(work') = Len(rest) + 1 /\ work'[Len(work')].op = "leave"
    <3>1. Len(work') = Len(work) - 1 /\ Len(work') \in 1..(Len(work) - 1)
      BY <1>1, <1>2, <2>1, <2>2
    <3>2. work'[Len(work')] = work[Len(work') + 1]
      BY <1>1, <1>2, <3>1
    <3> QED
      BY <2>1, <2>2, <2>4, <3>1, <3>2
  <2>10. \A k \in 1..Len(rest) : work'[k].op = "drop" /\ work'[k].arg = rest[k]
    <3> TAKE k \in 1..Len(rest)
    <3>1. k \in 1..(Len(ids) - 1) /\ k \in 1..(Len(work) - 1)
      BY <2>1, <2>2, <2>4
    <3>2. work'[k] = work[k + 1] /\ rest[k] = ids[k + 1] /\ k + 1 \in 1..Len(ids)
      BY <1>1, <1>2, <2>4, <2>5, <3>1
    <3> QED
      BY <2>1, <3>2
  <2>11. ASSUME NEW k \in 1..Len(rest), NEW l \in 1..Len(rest), rest[k] = rest[l] PROVE k = l
    <3>1. k \in 1..(Len(ids) - 1) /\ l \in 1..(Len(ids) - 1)
      BY <2>4
    <3>2. k + 1 \in 1..Len(ids) /\ l + 1 \in 1..Len(ids) /\ ids[k + 1] = ids[l + 1]
      BY <2>4, <2>5, <2>11, <3>1
    <3>3. k + 1 = l + 1
      BY <2>1, <3>2
    <3> QED
      BY <3>3
  <2>12. PICK r \in Seq(Nat) : r = rest
    BY <2>4
  <2>13. Leaving(r)'
    BY <2>1, <2>7, <2>8, <2>9, <2>10, <2>11, <2>12 DEF Leaving
  <2> QED
    BY <2>8, <2>13 DEF Owned
<1> QED
  BY <1>4, <1>5, <1>6 DEF Owned

\* The new value is bound.
LEMMA BindOwned ==
  ASSUME IInv, Owned, Bind
  PROVE  Owned'
<1>1. envs' = [envs EXCEPT ![Depth] = define(Top, Item1.var, Item1.arg)] /\ work' = Tail(work)
      /\ UNCHANGED <<heap, next, nextArena, current, arenaStack, finalizers, ret, doomed>>
  BY DEF Bind, Top
<1>2. /\ Item1 = work[1] /\ work[1].op = "bind" /\ Len(work) \in Nat \ {0}
      /\ Len(Tail(work)) = Len(work) - 1 /\ Tail(work) \in Seq(Item)
  BY HeadAndTail, ItemOK DEF IInv, Bind
<1>3. Plain /\ RestOK /\ HeapOK(heap, next)
  BY DEF Owned, IInv
<1>4. ~Between /\ \A x \in Vars, n \in Nat : ~Rebinding(x, n)
  <2>1. Len(<< >>) = 0
    OBVIOUS
  <2> QED
    BY <1>2, <2>1 DEF Between, Rebinding, Do
<1>5. \A ids \in Seq(Nat) : ~Leaving(ids)
  <2> SUFFICES ASSUME NEW ids \in Seq(Nat), Leaving(ids) PROVE FALSE
    OBVIOUS
  <2>1. Len(ids) \in Nat /\ Len(work) = Len(ids) + 1
        /\ (\A k \in 1..Len(ids) : work[k].op = "drop") /\ work[Len(work)].op = "leave"
    BY DEF Leaving
  <2>2. CASE Len(ids) = 0
    BY <1>2, <2>1, <2>2
  <2>3. CASE Len(ids) # 0
    <3>1. 1 \in 1..Len(ids)
      BY <2>1, <2>3
    <3> QED
      BY <1>2, <2>1, <3>1
  <2> QED
    BY <2>2, <2>3
<1>6. PICK x \in Vars, n \in Nat : Binding(x, n)
  BY <1>4, <1>5 DEF Owned
<1> DEFINE S == SlotsOf(envs) \ {<<Depth, x>>}
           d == define(Top, x, n)
           H == {At(envs, s) : s \in S} \cup {n}
<1>7. Len(work) = 1 /\ Item1.var = x /\ Item1.arg = n /\ Sound(heap, envs, S, {n})
  BY <1>2, <1>6 DEF Binding, BindItem
<1>8. work' = << >>
  BY <1>1, <1>2, <1>7
<1>9. Depth \in Nat \ {0} /\ Depth \in 1..Depth /\ Len(envs) = Depth
      /\ Top = envs[Depth] /\ Top \in Env /\ envs \in Seq(Env)
  BY <1>3, TopOK DEF Top, Depth, RestOK
<1>10. d.kind = Top.kind /\ d.arena = Top.arena /\ d.own = Top.own
       /\ d.values = [Top.values EXCEPT ![x] = n]
  <2> DEFINE kept == IF Top.values[x] # None THEN RemoveHandle(Top.handles, Top.values[x])
                     ELSE Top.handles
             hs == IF n # None THEN Append(kept, n) ELSE kept
             vs == [Top.values EXCEPT ![x] = n]
  <2>1. d = [Top EXCEPT !.values = vs, !.handles = hs]
    BY <1>9 DEF define, Env
  <2> HIDE DEF hs, vs, d
  <2>2. d.kind = Top.kind /\ d.arena = Top.arena /\ d.own = Top.own /\ d.values = vs
    BY <1>9, <2>1 DEF Env
  <2> QED
    BY <2>2 DEF vs
<1> HIDE DEF d
<1>11. Len(envs') = Depth /\ envs'[Depth] = d /\ \A i \in 1..Depth : i # Depth => envs'[i] = envs[i]
  BY <1>1, <1>7, <1>9 DEF d
<1>12. n \in DOMAIN heap /\ n # None
  BY <1>3, <1>7 DEF Sound, CountsOK, HeapOK, None
<1>13. \A y \in Vars : d.values[y] = IF y = x THEN n ELSE Top.values[y]
  BY <1>9, <1>10 DEF Env
<1>14. SlotsOf(envs') = S \cup {<<Depth, x>>}
       /\ At(envs', <<Depth, x>>) = n /\ \A s \in S : At(envs', s) = At(envs, s)
  <2>1. ASSUME NEW i \in 1..Depth, NEW y \in Vars
        PROVE  envs'[i].values[y] = IF i = Depth /\ y = x THEN n ELSE envs[i].values[y]
    <3>1. CASE i = Depth
      BY <1>9, <1>11, <1>13, <3>1
    <3>2. CASE i # Depth
      BY <1>11, <3>2
    <3> QED
      BY <3>1, <3>2
  <2> QED
    BY <1>9, <1>11, <1>12, <2>1 DEF SlotsOf, At
<1>15. Sound(heap, envs', SlotsOf(envs'), {})
  <2>1. \A s, t \in S : At(envs, s) = At(envs, t) => s = t
    BY <1>7 DEF Sound
  <2>2. \A s \in S : At(envs, s) # n
    BY <1>7 DEF Sound
  <2>3. {At(envs', s) : s \in SlotsOf(envs')} \cup {} = H
    BY <1>14
  <2>4. CountsOK(heap, H)
    BY <1>7 DEF Sound
  <2> HIDE DEF S, H
  <2>5. \A s, t \in SlotsOf(envs') : At(envs', s) = At(envs', t) => s = t
    BY <1>14, <2>1, <2>2
  <2> QED
    BY <2>3, <2>4, <2>5 DEF Sound
<1>16. Between'
  BY <1>1, <1>8, <1>15 DEF Between
<1>17. Plain'
  <2>1. ASSUME NEW i \in 2..Depth PROVE Tracks(envs'[i])
    <3>1. i \in 1..Depth
      BY <1>9
    <3>2. CASE i # Depth
      BY <1>3, <1>11, <3>1, <3>2 DEF Plain
    <3>3. CASE i = Depth
      <4>1. Tracks(Top)
        BY <1>3, <1>9, <3>3 DEF Plain
      <4>2. \A y \in Vars \ {x} : Top.values[y] # n
        <5> SUFFICES ASSUME NEW y \in Vars \ {x}, Top.values[y] = n PROVE FALSE
          OBVIOUS
        <5>1. <<Depth, y>> \in S /\ At(envs, <<Depth, y>>) = n
          BY <1>9, <1>12 DEF SlotsOf, At
        <5> QED
          BY <1>7, <5>1 DEF Sound
      <4>3. Tracks(define(Top, x, n))
        BY <1>9, <4>1, <4>2, DefineTracks
      <4> QED
        BY <1>11, <3>3, <4>3 DEF d
    <3> QED
      BY <3>2, <3>3
  <2>2. ASSUME NEW i \in 1..Depth
        PROVE  envs'[i].kind \in {"root", "block"} /\ envs'[i].arena = None /\ envs'[i].own = None
    <3>1. CASE i # Depth
      BY <1>3, <1>11, <3>1 DEF Plain
    <3>2. CASE i = Depth
      BY <1>3, <1>9, <1>10, <1>11, <3>2 DEF Plain
    <3> QED
      BY <3>1, <3>2
  <2>3. Depth' = Depth
    BY <1>11 DEF Depth
  <2> QED
    BY <1>1, <1>3, <2>1, <2>2, <2>3 DEF Plain
<1> QED
  BY <1>16, <1>17 DEF Owned

\* The scope is gone once its handles are dropped.
LEMMA LeaveOwned ==
  ASSUME IInv, Owned, Leave
  PROVE  Owned'
<1>1. /\ work[1].op = "leave" /\ Len(work) \in Nat \ {0}
      /\ Len(Tail(work)) = Len(work) - 1 /\ Tail(work) \in Seq(Item)
  BY HeadAndTail, ItemOK DEF IInv, Leave
<1>2. Plain /\ RestOK /\ HeapOK(heap, next)
  BY DEF Owned, IInv
<1>3. ~Between /\ \A x \in Vars, n \in Nat : ~Rebinding(x, n) /\ ~Binding(x, n)
  <2>1. Len(<< >>) = 0
    OBVIOUS
  <2> QED
    BY <1>1, <2>1 DEF Between, Rebinding, Binding, Do, BindItem
<1>4. PICK ids \in Seq(Nat) : Leaving(ids)
  BY <1>3 DEF Owned
<1> DEFINE S == SlotsOf(envs) \ ({Depth} \X Vars)
           L == {ids[k] : k \in 1..Len(ids)}
<1>5. /\ Len(ids) \in Nat /\ Len(work) = Len(ids) + 1
      /\ \A k \in 1..Len(ids) : work[k].op = "drop"
      /\ Sound(heap, envs, S, L)
  BY <1>4 DEF Leaving
<1>6. Len(ids) = 0
  <2> SUFFICES ASSUME Len(ids) # 0 PROVE FALSE
    OBVIOUS
  <2>1. 1 \in 1..Len(ids)
    BY <1>5
  <2> QED
    BY <1>1, <1>5, <2>1
<1>7. Depth \in Nat /\ Depth > 1 /\ Top = envs[Depth] /\ Len(envs) = Depth /\ envs \in Seq(Env)
      /\ Depth \in 1..Depth
  BY <1>2, TopOK DEF Leave, Top, Depth, RestOK
<1>8. Top.kind \in {"root", "block"}
  BY <1>2, <1>7 DEF Plain
<1>9. envs' = SubSeq(envs, 1, Depth - 1) /\ work' = Tail(work)
      /\ UNCHANGED <<current, heap, next, ret, doomed>>
  BY <1>8 DEF Leave
<1>10. work' = << >>
  BY <1>1, <1>5, <1>6, <1>9
<1>11. Len(envs') = Depth - 1 /\ \A i \in 1..(Depth - 1) : envs'[i] = envs[i]
  BY <1>7, <1>9
<1>12. SlotsOf(envs') = S /\ \A s \in S : At(envs', s) = At(envs, s)
  <2>1. \A i \in 1..Depth : i # Depth <=> i \in 1..(Depth - 1)
    BY <1>7
  <2>2. \A i \in 1..(Depth - 1) : i \in 1..Depth
    BY <1>7
  <2> QED
    BY <1>7, <1>11, <2>1, <2>2 DEF SlotsOf, At
<1>13. Sound(heap, envs', SlotsOf(envs'), {})
  <2> HIDE DEF S, L
  <2>1. Sound(heap, envs', S, {})
    BY <1>2, <1>5, <1>12, SoundFewer
  <2> QED
    BY <1>12, <2>1
<1>14. Between'
  BY <1>9, <1>10, <1>13 DEF Between
<1>15. Plain'
  <2>1. Depth' = Depth - 1
    BY <1>11 DEF Depth
  <2>2. \A i \in 1..(Depth - 1) : i \in 1..Depth
    BY <1>7
  <2>3. \A i \in 2..(Depth - 1) : i \in 2..Depth /\ i \in 1..(Depth - 1)
    BY <1>7
  <2> QED
    BY <1>2, <1>9, <1>11, <2>1, <2>2, <2>3 DEF Plain
<1> QED
  BY <1>14, <1>15 DEF Owned

-----------------------------------------------------------------------------
(* The theorems. *)

LEMMA InitOwned ==
  ASSUME Init
  PROVE  Owned
<1>1. Len(envs) = 1 /\ envs[1] = NewEnv("root", None) /\ Depth = 1
  BY DEF Init, Depth
<1>2. SlotsOf(envs) = {}
  BY <1>1 DEF SlotsOf, NewEnv
<1>3. {At(envs, s) : s \in SlotsOf(envs)} \cup {} = {} /\ DOMAIN heap = {}
  BY <1>2 DEF Init
<1>4. CountsOK(heap, {})
  BY <1>3 DEF CountsOK
<1>5. Sound(heap, envs, SlotsOf(envs), {})
  BY <1>2, <1>3, <1>4 DEF Sound
<1>6. Plain
  BY <1>1, <1>3 DEF Init, Plain, NotReturning, NewEnv
<1> QED
  BY <1>5, <1>6 DEF Init, Owned, Between

LEMMA NextOwned ==
  ASSUME OwnedProgram, IInv, Owned, [Next]_vars
  PROVE  Owned'
<1>1. Plain
  BY DEF Owned
<1>2. \A p \in {"alias", "loop", "performant", "call", "for"} : p \notin Program
  BY DEF OwnedProgram
<1>3. CASE Statement
  <2>1. ASSUME NEW x \in Vars, NEW kid \in Visible \cup {None}, LetNew(x, kid) PROVE Owned'
    BY <2>1, LetNewOwned
  <2>2. ASSUME NEW id \in Visible, WeakNew(id) PROVE Owned'
    BY <2>2, WeakNewOwned
  <2>3. ASSUME NEW id \in Visible, OnFinalize(id) PROVE Owned'
    BY <2>3, OwnedSame DEF OnFinalize
  <2>4. \A id : ~Return(id)
    BY <1>1 DEF Return, Plain
  <2>5. ~EnterLoop /\ ~EnterPerformant /\ (\A x, id : ~LetAlias(x, id) /\ ~EnterFor(x, id))
        /\ \A x, param, id : ~EnterCall(x, param, id)
    BY <1>2 DEF EnterLoop, EnterPerformant, LetAlias, EnterFor, EnterCall
  <2> QED
    BY <1>3, <2>1, <2>2, <2>3, <2>4, <2>5, EnterBlockOwned DEF Statement
<1>4. CASE Exit
  BY <1>4, ExitOwned
<1>5. ~Unwind
  BY <1>1 DEF Unwind, Plain
<1>6. CASE Drop \/ Bind \/ Leave
  BY <1>6, DropOwned, BindOwned, LeaveOwned
<1>7. ~Arena /\ ~Purge
  <2> SUFFICES ASSUME NEW op \in {"arena", "purge"}, Doing(op) PROVE FALSE
    BY DEF Arena, Purge
  <2>1. work[1].op \notin {"drop", "bind", "leave"} /\ Len(work) \in Nat \ {0}
    BY HeadAndTail DEF IInv
  <2>2. ~Between
    <3>1. Len(<< >>) = 0
      OBVIOUS
    <3> QED
      BY <2>1, <3>1 DEF Between
  <2>3. \A x \in Vars, n \in Nat : ~Binding(x, n) /\ ~Rebinding(x, n)
    BY <2>1 DEF Binding, Rebinding, BindItem, Do
  <2>4. ASSUME NEW ids \in Seq(Nat), Leaving(ids) PROVE FALSE
    <3>1. Len(ids) \in Nat /\ Len(work) = Len(ids) + 1
          /\ (\A k \in 1..Len(ids) : work[k].op = "drop") /\ work[Len(work)].op = "leave"
      BY <2>4 DEF Leaving
    <3>2. Len(ids) = 0 \/ 1 \in 1..Len(ids)
      BY <3>1
    <3> QED
      BY <2>1, <3>1, <3>2
  <2> QED
    BY <2>2, <2>3, <2>4 DEF Owned
<1>8. \A id \in doomed : ~Kill(id)
  BY <1>1 DEF Plain
<1>9. CASE UNCHANGED vars
  BY <1>9, OwnedSame DEF vars
<1> QED
  BY <1>3, <1>4, <1>5, <1>6, <1>7, <1>8, <1>9 DEF Next

\* A program that neither binds an object twice nor opens an arena keeps every
\* handle counted: its bindings, what is being rebound or dropped, and the
\* children of the living.
THEOREM HandlesCounted == OwnedProgram => (Spec => []Owned)
<1> SUFFICES ASSUME OwnedProgram PROVE Spec => []Owned
  OBVIOUS
<1>1. Init => Owned
  BY InitOwned
<1>2. IInv /\ Owned /\ [Next]_vars => Owned'
  BY NextOwned
<1> QED
  BY <1>1, <1>2, InductiveInvariant, PTL DEF Spec

\* Whatever such a program can name is alive, however deep its scopes nest,
\* whatever it rebinds and whatever its finalizers do.
THEOREM NamesAlive == OwnedProgram => (Spec => []BoundAlive)
<1> SUFFICES ASSUME OwnedProgram PROVE Spec => []BoundAlive
  OBVIOUS
<1>1. ASSUME IInv, Owned PROVE BoundAlive
  <2> SUFFICES ASSUME work = << >>, NEW i \in 1..Depth, NEW x \in Vars, envs[i].values[x] # None
               PROVE  envs[i].values[x] \in DOMAIN heap /\ heap[envs[i].values[x]].alive
    BY DEF BoundAlive
  <2> DEFINE H == {At(envs, s) : s \in SlotsOf(envs)} \cup {}
  <2>1. CountsOK(heap, H)
    BY <1>1, StatementBetween DEF Between, Sound
  <2>2. <<i, x>> \in SlotsOf(envs) /\ At(envs, <<i, x>>) = envs[i].values[x]
    BY DEF SlotsOf, At, Depth
  <2>3. envs[i].values[x] \in H
    BY <2>2
  <2> HIDE DEF H
  <2>4. HeapOK(heap, next) /\ envs[i].values[x] \in DOMAIN heap
    BY <1>1, <2>1, <2>3 DEF IInv, CountsOK
  <2> QED
    BY <2>1, <2>3, <2>4, OwnedAlive
<1>2. Spec => []Owned
  BY HandlesCounted
<1> QED
  BY <1>1, <1>2, InductiveInvariant, PTL

\* Whatever a living object of such a program holds is alive.
THEOREM ChildrenAlive == OwnedProgram => (Spec => []ChildAlive)
<1> SUFFICES ASSUME OwnedProgram PROVE Spec => []ChildAlive
  OBVIOUS
<1>1. ASSUME IInv, Owned PROVE ChildAlive
  <2> SUFFICES ASSUME work = << >>, NEW i \in DOMAIN heap, heap[i].alive, heap[i].kid # None
               PROVE  heap[i].kid \in DOMAIN heap /\ heap[heap[i].kid].alive
    BY DEF ChildAlive
  <2> DEFINE H == {At(envs, s) : s \in SlotsOf(envs)} \cup {}
  <2>1. CountsOK(heap, H)
    BY <1>1, StatementBetween DEF Between, Sound
  <2> HIDE DEF H
  <2>2. HeapOK(heap, next) /\ heap[i].kid \in DOMAIN heap
    BY <1>1, <2>1 DEF IInv, CountsOK
  <2> QED
    BY <2>1, <2>2, OwnedAlive
<1>2. Spec => []Owned
  BY HandlesCounted
<1> QED
  BY <1>1, <1>2, InductiveInvariant, PTL

-----------------------------------------------------------------------------
(* No arena outlives its scope, for programs that register no finalizer: a *)
(* finalizer allocates in the arena whose end runs it, and what it         *)
(* allocates there is not dropped with the rest.                           *)

NoFinalizers == "finalizer" \notin Program

\* The living objects are of the arenas in A.
Within(h, A) == \A i \in DOMAIN h : h[i].alive => h[i].arena \in A

\* From h to g, the living stay where they were, or came into A.
Placed(h, g, A) ==
  \A i \in DOMAIN g :
    g[i].alive => \/ i \in DOMAIN h /\ h[i].alive /\ g[i].arena = h[i].arena
                  \/ g[i].arena \in A

LEMMA PlacedFurther ==
  ASSUME NEW h, NEW g, NEW k, NEW A, Placed(h, g, A), Placed(g, k, A)
  PROVE  Placed(h, k, A)
  BY DEF Placed

LEMMA PlacedWithin ==
  ASSUME NEW h, NEW g, NEW A, NEW B, Placed(h, g, A), A \subseteq B, Within(h, B)
  PROVE  Within(g, B)
  BY DEF Placed, Within

-----------------------------------------------------------------------------
(* Where the operators on the heap leave its objects.                      *)

LEMMA IncPlace ==
  ASSUME NEW o \in HeapObject
  PROVE  inc_strong(o).arena = o.arena /\ inc_strong(o).alive = o.alive
<1>1. CASE o.alive
  BY <1>1, IncFields
<1>2. CASE ~o.alive
  BY <1>2 DEF inc_strong
<1> QED
  BY <1>1, <1>2

LEMMA DecPlace ==
  ASSUME NEW o \in HeapObject
  PROVE  dec_strong(o).arena = o.arena
<1>1. CASE o.strong > 0
  BY <1>1, DecFields
<1>2. CASE ~(o.strong > 0)
  BY <1>2 DEF dec_strong, HeapObject
<1> QED
  BY <1>1, <1>2

LEMMA ForcePlace ==
  ASSUME NEW o \in HeapObject
  PROVE  force_strong_to_one(o).arena = o.arena
  BY DEF force_strong_to_one, HeapObject

LEMMA IncHeapPlaced ==
  ASSUME NEW h, NEW n, HeapOK(h, n), NEW id
  PROVE  Placed(h, inc_heap_strong(h, id), {})
<1> DEFINE g == inc_heap_strong(h, id)
<1>1. DOMAIN g = DOMAIN h /\ \A i \in DOMAIN h : g[i] = IF i = id THEN inc_strong(h[i]) ELSE h[i]
  BY DEF inc_heap_strong
<1> HIDE DEF g
<1>2. \A i \in DOMAIN h : h[i] \in HeapObject
  BY DEF HeapOK
<1> QED
  BY <1>1, <1>2, IncPlace DEF g, Placed

LEMMA HeapifyPlaced ==
  ASSUME NEW h, NEW n, HeapOK(h, n), NEW arena \in Nat, NEW kid \in Nat
  PROVE  Placed(h, heapify_composite(h, n, arena, kid), {arena})
<1> DEFINE g == [i \in DOMAIN h \cup {n} |-> IF i = n THEN NewObject(arena, kid) ELSE h[i]]
           r == inc_heap_strong(g, kid)
<1>1. n \in Nat /\ n \notin DOMAIN h
  BY DEF HeapOK
<1>2. HeapOK(g, n + 1)
  BY NewObjectOK DEF HeapOK
<1>3. Placed(h, g, {arena})
  BY DEF Placed, NewObject
<1>4. heapify_composite(h, n, arena, kid) = inc_heap_strong(r, kid)
  BY DEF heapify_composite, heap_register
<1> HIDE DEF g
<1>5. HeapOK(r, n + 1)
  BY <1>2, IncHeap DEF Evolves
<1>6. Placed(g, r, {})
  BY <1>2, IncHeapPlaced
<1> HIDE DEF r
<1>7. Placed(r, inc_heap_strong(r, kid), {})
  BY <1>5, IncHeapPlaced
<1> QED
  BY <1>3, <1>4, <1>6, <1>7 DEF Placed

\* A drop leaves everything where it was.
LEMMA DropPlaced ==
  ASSUME NEW h, NEW n, HeapOK(h, n), NEW id
  PROVE  /\ Placed(h, dec_object_strong_recursive(h, id), {})
         /\ DOMAIN dec_object_strong_recursive(h, id) \subseteq DOMAIN h
<1> DEFINE V == Visited(h, id)
           g == DecAll(h, V)
           k == dec_object_strong_recursive(h, id)
<1>1. DOMAIN g = DOMAIN h /\ \A i \in DOMAIN h : g[i] = IF i \in V THEN dec_strong(h[i]) ELSE h[i]
  BY DEF DecAll
<1>2. k = RemoveRoot(g, id)
  BY DEF dec_object_strong_recursive
<1> HIDE DEF V, g, k
<1>3. \A i \in DOMAIN h : h[i] \in HeapObject /\ (h[i].alive <=> h[i].strong > 0)
  BY DEF HeapOK
<1>4. \A i \in DOMAIN h : g[i].arena = h[i].arena /\ (g[i].alive => h[i].alive)
  BY <1>1, <1>3, DecObject, DecPlace
<1>5. DOMAIN k \subseteq DOMAIN g /\ \A i \in DOMAIN k : k[i] = g[i]
  BY <1>2 DEF RemoveRoot, Forget
<1> QED
  BY <1>1, <1>4, <1>5 DEF k, Placed

LEMMA ForcePlaced ==
  ASSUME NEW h, NEW n, HeapOK(h, n), NEW id
  PROVE  Placed(h, ForceToOne(h, id), {}) /\ DOMAIN ForceToOne(h, id) = DOMAIN h
<1> DEFINE g == ForceToOne(h, id)
<1>1. DOMAIN g = DOMAIN h /\ \A i \in DOMAIN h : g[i] = IF i = id THEN force_strong_to_one(h[i]) ELSE h[i]
  BY DEF ForceToOne
<1> HIDE DEF g
<1>2. \A i \in DOMAIN h : h[i] \in HeapObject /\ (h[i].alive <=> h[i].strong > 0)
  BY DEF HeapOK
<1>3. \A i \in DOMAIN h : g[i].arena = h[i].arena /\ (g[i].alive => h[i].alive)
  BY <1>1, <1>2, ForceObject, ForcePlace
<1> QED
  BY <1>1, <1>3 DEF g, Placed

\* An object of an ending arena dies of one drop, whoever else counts it.
LEMMA ForcedDrop ==
  ASSUME NEW h, NEW n, HeapOK(h, n), NEW id \in Nat,
         NEW k, k = dec_object_strong_recursive(ForceToOne(h, id), id)
  PROVE  Placed(h, k, {}) /\ (id \in DOMAIN k => ~k[id].alive)
<1> DEFINE g == ForceToOne(h, id)
<1>1. Placed(h, g, {}) /\ DOMAIN g = DOMAIN h
  BY ForcePlaced
<1>2. HeapOK(g, n)
  BY ForceHeap DEF Evolves
<1>3. id \in DOMAIN h => g[id] = force_strong_to_one(h[id])
  BY DEF ForceToOne
<1> HIDE DEF g
<1>4. Placed(g, k, {}) /\ DOMAIN k \subseteq DOMAIN g
  <2>1. k = dec_object_strong_recursive(g, id)
    BY DEF g
  <2> QED
    BY <1>2, <2>1, DropPlaced
<1>5. ASSUME id \in DOMAIN k PROVE ~k[id].alive
  <2>1. id \in DOMAIN h /\ id \in DOMAIN g
    BY <1>1, <1>4, <1>5
  <2>2. \A i \in DOMAIN g : g[i].kid \in Nat
    BY <1>2 DEF HeapOK, HeapObject
  <2>3. id \in Visited(g, id)
    <3>1. PICK w \in [0..id -> Nat] :
            /\ Visited(g, id) = {w[i] : i \in 0..id} \cap DOMAIN g
            /\ w[0] = id
            /\ \A i \in 1..id :
                 w[i] = IF w[i - 1] \in DOMAIN g /\ ~dec_strong(g[w[i - 1]]).alive
                        THEN g[w[i - 1]].kid ELSE None
      BY <2>2, VisitedPath
    <3>2. 0 \in 0..id
      OBVIOUS
    <3> QED
      BY <2>1, <3>1, <3>2
  <2>4. ~dec_strong(g[id]).alive
    <3>1. h[id] \in HeapObject /\ (h[id].alive <=> h[id].strong > 0)
      BY <2>1 DEF HeapOK
    <3>2. g[id].strong = 0 \/ g[id].strong = 1
      BY <1>3, <2>1, <3>1 DEF force_strong_to_one, HeapObject
    <3>3. g[id] \in HeapObject /\ (g[id].alive <=> g[id].strong > 0)
      BY <1>2, <2>1 DEF HeapOK
    <3>4. CASE g[id].strong = 0
      BY <3>3, <3>4 DEF dec_strong
    <3>5. CASE g[id].strong = 1
      <4>1. dec_strong(g[id]).strong = 0
        BY <3>3, <3>5, DecFields
      <4>2. dec_strong(g[id]).alive <=> dec_strong(g[id]).strong > 0
        BY <3>3, DecObject
      <4> QED
        BY <4>1, <4>2
    <3> QED
      BY <3>2, <3>4, <3>5
  <2>5. DecAll(g, Visited(g, id))[id] = dec_strong(g[id])
    BY <2>1, <2>3 DEF DecAll
  <2>6. k = RemoveRoot(DecAll(g, Visited(g, id)), id)
    BY DEF dec_object_strong_recursive, g
  <2>7. k[id] = DecAll(g, Visited(g, id))[id]
    BY <1>5, <2>6 DEF RemoveRoot, Forget
  <2> QED
    BY <2>4, <2>5, <2>7
<1> QED
  BY <1>1, <1>4, <1>5, PlacedFurther

LEMMA ForgetPlaced ==
  ASSUME NEW h, NEW ids
  PROVE  Placed(h, Forget(h, ids), {})
  BY DEF Forget, Placed

LEMMA PurgePlaced ==
  ASSUME NEW h, NEW n, HeapOK(h, n), NEW arena
  PROVE  Placed(h, PurgeArena(h, arena), {})
<1> DEFINE a == Forget(h, {i \in DOMAIN h : h[i].arena = arena /\ ~h[i].alive /\ h[i].weak = 0})
           b == debug_sweep_dead(a)
           c == Normalize(b)
           d == debug_sweep_dead(c)
<1>1. PurgeArena(h, arena) = d
  BY DEF PurgeArena
<1>2. Placed(h, a, {}) /\ Placed(a, b, {}) /\ Placed(c, d, {})
  BY ForgetPlaced DEF debug_sweep_dead
<1>3. DOMAIN b \subseteq DOMAIN h /\ \A i \in DOMAIN b : b[i] = h[i]
  BY DEF debug_sweep_dead, Forget
<1>4. DOMAIN c = DOMAIN b
      /\ \A i \in DOMAIN b : c[i] = [b[i] EXCEPT !.alive = b[i].alive /\ b[i].strong > 0]
  BY DEF Normalize
<1> HIDE DEF a, b, c, d
<1>5. \A i \in DOMAIN b : c[i].arena = b[i].arena /\ (c[i].alive => b[i].alive)
  BY <1>3, <1>4 DEF HeapOK, HeapObject
<1>6. Placed(b, c, {})
  BY <1>4, <1>5 DEF Placed
<1> QED
  BY <1>1, <1>2, <1>6, PlacedFurther

\* The copies of a promotion are of the arena it promotes to.
LEMMA PromotionPlaced ==
  ASSUME NEW h, NEW n, HeapOK(h, n), NEW target \in Nat, NEW id \in Nat
  PROVE  Placed(h, PromoteHeap(h, n, target, id), {target})
<1> DEFINE E == Escaping(h, target, id)
           Copies == {CopyOf(E, n, i) : i \in E}
           Source(c) == CHOOSE i \in E : CopyOf(E, n, i) = c
           Object(i) == NewObject(target, Promoted(E, n, h[i].kid))
           Copy(i) == IF i = id THEN Object(i) ELSE inc_strong(Object(i))
           Kept == {h[i].kid : i \in E} \ E
           g == PromoteHeap(h, n, target, id)
<1>1. g = [c \in DOMAIN h \cup Copies |->
             IF c \in Copies THEN Copy(Source(c))
             ELSE IF c \in Kept THEN inc_strong(h[c]) ELSE h[c]]
  BY DEF PromoteHeap
<1>2. \A i : Copy(i).arena = target
  BY DEF NewObject, inc_strong
<1> HIDE DEF E, Copy, Source, Kept, Copies
<1>3. ASSUME NEW c \in DOMAIN g
      PROVE  g[c].alive => \/ c \in DOMAIN h /\ h[c].alive /\ g[c].arena = h[c].arena
                           \/ g[c].arena \in {target}
  <2>1. CASE c \in Copies
    BY <1>1, <1>2, <2>1
  <2>2. CASE c \notin Copies
    <3>1. c \in DOMAIN h /\ g[c] = IF c \in Kept THEN inc_strong(h[c]) ELSE h[c]
      BY <1>1, <1>3, <2>2
    <3>2. h[c] \in HeapObject
      BY <3>1 DEF HeapOK
    <3> QED
      BY <3>1, <3>2, IncPlace
  <2> QED
    BY <2>1, <2>2
<1> QED
  BY <1>3 DEF Placed

-----------------------------------------------------------------------------
(* The arenas the scopes opened.                                           *)

Opening == {"loop", "call", "performant"}

\* The arenas of the m outermost scopes.
Owns(es, m) == {es[j].own : j \in 1..m} \cup {None}

\* Scopes open ever younger arenas, work in arenas that are open, and return
\* to arenas that were open before them.
Scopes(es, fresh, cur, stack) ==
  /\ \A i \in 1..Len(es) :
       /\ es[i].arena \in Owns(es, i) /\ es[i].saved \in Owns(es, i - 1)
       /\ es[i].own < fresh /\ (es[i].own # None <=> es[i].kind \in Opening)
  /\ \A i, j \in 1..Len(es) : i < j /\ es[j].own # None => es[i].own < es[j].own
  /\ \A k \in 1..Len(stack) :
       \E i \in 1..Len(es) : es[i].kind \in {"loop", "call"} /\ stack[k] = es[i].own
  /\ \A k, l \in 1..Len(stack) : k < l => stack[k] < stack[l]
  /\ cur \in Owns(es, Len(es))

Grows(es, e, fs) ==
  /\ Len(fs) = Len(es) + 1
  /\ \A i \in 1..Len(es) : fs[i] = es[i]
  /\ fs[Len(es) + 1] = e

\* The scopes differ in their bindings only.
Alike(es, fs) ==
  /\ Len(fs) = Len(es)
  /\ \A i \in 1..Len(es) : /\ fs[i].kind = es[i].kind /\ fs[i].arena = es[i].arena
                           /\ fs[i].own = es[i].own /\ fs[i].saved = es[i].saved

LEMMA AlikeScopes ==
  ASSUME NEW es \in Seq(Env), NEW fs, Alike(es, fs), NEW fresh, NEW cur, NEW stack,
         Scopes(es, fresh, cur, stack)
  PROVE  Scopes(fs, fresh, cur, stack) /\ Owns(fs, Len(fs)) = Owns(es, Len(es))
<1>1. Len(es) \in Nat /\ Len(fs) = Len(es)
  BY DEF Alike
<1>2. \A m \in 0..Len(es) : Owns(fs, m) = Owns(es, m)
  BY <1>1 DEF Alike, Owns
<1>3. \A i \in 1..Len(es) : i \in 0..Len(es) /\ i - 1 \in 0..Len(es)
  BY <1>1
<1>4. Len(es) \in 0..Len(es)
  BY <1>1
<1>5. ASSUME NEW i \in 1..Len(es)
      PROVE  /\ fs[i].arena \in Owns(fs, i) /\ fs[i].saved \in Owns(fs, i - 1)
             /\ fs[i].own < fresh /\ (fs[i].own # None <=> fs[i].kind \in Opening)
  <2>1. Owns(fs, i) = Owns(es, i) /\ Owns(fs, i - 1) = Owns(es, i - 1)
    BY <1>2, <1>3
  <2>2. fs[i].kind = es[i].kind /\ fs[i].arena = es[i].arena
        /\ fs[i].own = es[i].own /\ fs[i].saved = es[i].saved
    BY DEF Alike
  <2>3. /\ es[i].arena \in Owns(es, i) /\ es[i].saved \in Owns(es, i - 1)
        /\ es[i].own < fresh /\ (es[i].own # None <=> es[i].kind \in Opening)
    BY DEF Scopes
  <2> QED
    BY <2>1, <2>2, <2>3
<1>6. \A i, j \in 1..Len(es) : i < j /\ fs[j].own # None => fs[i].own < fs[j].own
  BY DEF Scopes, Alike
<1>7. \A k \in 1..Len(stack) :
        \E i \in 1..Len(es) : fs[i].kind \in {"loop", "call"} /\ stack[k] = fs[i].own
  BY DEF Scopes, Alike
<1>8. /\ \A k, l \in 1..Len(stack) : k < l => stack[k] < stack[l]
      /\ cur \in Owns(fs, Len(es))
  BY <1>2, <1>4 DEF Scopes
<1> QED
  BY <1>1, <1>2, <1>4, <1>5, <1>6, <1>7, <1>8 DEF Scopes

LEMMA GrowsOwns ==
  ASSUME NEW es \in Seq(Env), NEW e, NEW fs, Grows(es, e, fs)
  PROVE  /\ \A m \in 0..Len(es) : Owns(fs, m) = Owns(es, m)
         /\ Owns(fs, Len(fs)) = Owns(es, Len(es)) \cup {e.own}
<1>1. Len(es) \in Nat /\ Len(fs) = Len(es) + 1
  BY DEF Grows
<1>2. \A m \in 0..Len(es) : Owns(fs, m) = Owns(es, m)
  BY <1>1 DEF Grows, Owns
<1>3. 1..Len(fs) = 1..Len(es) \cup {Len(es) + 1}
  BY <1>1
<1>4. Owns(fs, Len(fs)) = Owns(es, Len(es)) \cup {e.own}
  BY <1>1, <1>3 DEF Grows, Owns
<1> QED
  BY <1>2, <1>4

\* A scope without an arena of its own.
LEMMA PlainScope ==
  ASSUME NEW es \in Seq(Env), es # << >>, NEW e \in Env, NEW fs, Grows(es, e, fs),
         NEW fresh \in Nat \ {0}, NEW cur, NEW stack, Scopes(es, fresh, cur, stack),
         e.own = None, e.kind \notin Opening, e.saved = None,
         e.arena \in Owns(es, Len(es))
  PROVE  Scopes(fs, fresh, cur, stack) /\ Owns(fs, Len(fs)) = Owns(es, Len(es))
<1> DEFINE n == Len(es)
<1>1. n \in Nat /\ Len(fs) = n + 1 /\ fs[n + 1] = e /\ \A i \in 1..n : fs[i] = es[i]
  BY DEF Grows
<1>2. \A m \in 0..n : Owns(fs, m) = Owns(es, m)
  BY GrowsOwns
<1>3. Owns(fs, n + 1) = Owns(es, n)
  <2>1. Owns(fs, n + 1) = Owns(es, n) \cup {None}
    BY <1>1, GrowsOwns
  <2> QED
    BY <2>1 DEF Owns
<1> HIDE DEF n
<1>4. ASSUME NEW i \in 1..(n + 1)
      PROVE  /\ fs[i].arena \in Owns(fs, i) /\ fs[i].saved \in Owns(fs, i - 1)
             /\ fs[i].own < fresh /\ (fs[i].own # None <=> fs[i].kind \in Opening)
  <2>1. CASE i = n + 1
    <3>1. fs[i] = e /\ i - 1 = n
      BY <1>1, <2>1
    <3>2. None \in Owns(fs, n)
      BY DEF Owns
    <3>3. None < fresh
      BY DEF None
    <3> QED
      BY <1>3, <2>1, <3>1, <3>2, <3>3 DEF n
  <2>2. CASE i # n + 1
    <3>1. i \in 1..n /\ i \in 0..n /\ i - 1 \in 0..n
      BY <1>1, <2>2
    <3>2. /\ es[i].arena \in Owns(es, i) /\ es[i].saved \in Owns(es, i - 1)
          /\ es[i].own < fresh /\ (es[i].own # None <=> es[i].kind \in Opening)
      BY <3>1 DEF Scopes, n
    <3> QED
      BY <1>1, <1>2, <3>1, <3>2
  <2> QED
    BY <2>1, <2>2
<1>5. ASSUME NEW i \in 1..(n + 1), NEW j \in 1..(n + 1), i < j, fs[j].own # None
      PROVE  fs[i].own < fs[j].own
  <2>1. i \in 1..n /\ j \in 1..n
    BY <1>1, <1>5
  <2> QED
    BY <1>1, <1>5, <2>1 DEF Scopes, n
<1>6. ASSUME NEW k \in 1..Len(stack)
      PROVE  \E i \in 1..(n + 1) : fs[i].kind \in {"loop", "call"} /\ stack[k] = fs[i].own
  <2>1. PICK i \in 1..n : es[i].kind \in {"loop", "call"} /\ stack[k] = es[i].own
    BY DEF Scopes, n
  <2>2. i \in 1..(n + 1)
    BY <1>1
  <2> QED
    BY <1>1, <2>1, <2>2
<1>7. \A k, l \in 1..Len(stack) : k < l => stack[k] < stack[l]
  BY DEF Scopes
<1>8. cur \in Owns(fs, n + 1)
  BY <1>3 DEF Scopes, n
<1>9. Scopes(fs, fresh, cur, stack)
  BY <1>1, <1>4, <1>5, <1>6, <1>7, <1>8 DEF Scopes
<1> QED
  BY <1>1, <1>3, <1>9 DEF n

\* An implicit arena goes on the stack.
Stacks(e, fresh, stack, stack2) ==
  \/ e.kind = "performant" /\ stack2 = stack
  \/ e.kind # "performant" /\ stack2 = Append(stack, fresh)

\* A scope that opens the next arena.
LEMMA ArenaScope ==
  ASSUME NEW es \in Seq(Env), es # << >>, NEW e \in Env, NEW fs, Grows(es, e, fs),
         NEW fresh \in Nat \ {0}, NEW cur, NEW stack \in Seq(Nat), Scopes(es, fresh, cur, stack),
         e.own = fresh, e.kind \in Opening, e.saved \in Owns(es, Len(es)),
         e.arena \in Owns(es, Len(es)) \cup {fresh},
         NEW stack2, Stacks(e, fresh, stack, stack2)
  PROVE  /\ Scopes(fs, fresh + 1, fresh, stack2)
         /\ Owns(fs, Len(fs)) = Owns(es, Len(es)) \cup {fresh}
<1> DEFINE n == Len(es)
<1>1. n \in Nat /\ Len(fs) = n + 1 /\ fs[n + 1] = e /\ \A i \in 1..n : fs[i] = es[i]
  BY DEF Grows
<1>2. \A m \in 0..n : Owns(fs, m) = Owns(es, m)
  BY GrowsOwns
<1>3. Owns(fs, n + 1) = Owns(es, n) \cup {fresh}
  BY <1>1, GrowsOwns
<1>4. \A i \in 1..n : es[i].own \in Nat /\ es[i].own < fresh
  <2>1. \A i \in 1..n : es[i] \in Env
    BY <1>1
  <2> QED
    BY <2>1 DEF Scopes, Env
<1>5. fresh # None
  BY DEF None
<1>6. n \in 0..n
  BY <1>1
<1>7. e.saved \in Owns(es, n) /\ e.arena \in Owns(es, n) \cup {fresh}
  OBVIOUS
<1>8. \A i \in 1..n :
        /\ es[i].arena \in Owns(es, i) /\ es[i].saved \in Owns(es, i - 1)
        /\ es[i].own < fresh /\ (es[i].own # None <=> es[i].kind \in Opening)
  BY DEF Scopes
<1>9. \A i, j \in 1..n : i < j /\ es[j].own # None => es[i].own < es[j].own
  BY DEF Scopes
<1>10. \A k \in 1..Len(stack) :
         \E i \in 1..n : es[i].kind \in {"loop", "call"} /\ stack[k] = es[i].own
  BY DEF Scopes
<1>11. \A k, l \in 1..Len(stack) : k < l => stack[k] < stack[l]
  BY DEF Scopes
<1> HIDE DEF n
<1>12. ASSUME NEW i \in 1..(n + 1)
       PROVE  /\ fs[i].arena \in Owns(fs, i) /\ fs[i].saved \in Owns(fs, i - 1)
              /\ fs[i].own < fresh + 1 /\ (fs[i].own # None <=> fs[i].kind \in Opening)
  <2>1. CASE i = n + 1
    <3>1. fs[i] = e /\ i - 1 = n
      BY <1>1, <2>1
    <3>2. fresh < fresh + 1
      OBVIOUS
    <3>3. Owns(fs, i - 1) = Owns(es, n)
      BY <1>2, <1>6, <3>1
    <3> QED
      BY <1>3, <1>5, <1>7, <2>1, <3>1, <3>2, <3>3
  <2>2. CASE i # n + 1
    <3>1. i \in 1..n /\ i \in 0..n /\ i - 1 \in 0..n
      BY <1>1, <2>2
    <3>2. fs[i].own < fresh + 1
      BY <1>1, <1>4, <3>1
    <3> QED
      BY <1>1, <1>2, <1>8, <3>1, <3>2
  <2> QED
    BY <2>1, <2>2
<1>13. ASSUME NEW i \in 1..(n + 1), NEW j \in 1..(n + 1), i < j, fs[j].own # None
       PROVE  fs[i].own < fs[j].own
  <2>1. i \in 1..n
    BY <1>1, <1>13
  <2>2. CASE j = n + 1
    BY <1>1, <1>4, <2>1, <2>2
  <2>3. CASE j # n + 1
    <3>1. j \in 1..n
      BY <1>1, <2>3
    <3> QED
      BY <1>1, <1>9, <1>13, <2>1, <3>1
  <2> QED
    BY <2>2, <2>3
<1>14. ASSUME NEW k \in 1..Len(stack)
       PROVE  /\ \E i \in 1..(n + 1) : fs[i].kind \in {"loop", "call"} /\ stack[k] = fs[i].own
              /\ stack[k] < fresh
  <2>1. PICK i \in 1..n : es[i].kind \in {"loop", "call"} /\ stack[k] = es[i].own
    BY <1>10
  <2>2. i \in 1..(n + 1)
    BY <1>1
  <2> QED
    BY <1>1, <1>4, <2>1, <2>2
<1>15. /\ \A k \in 1..Len(stack2) :
            \E i \in 1..(n + 1) : fs[i].kind \in {"loop", "call"} /\ stack2[k] = fs[i].own
       /\ \A k, l \in 1..Len(stack2) : k < l => stack2[k] < stack2[l]
  <2>1. CASE e.kind = "performant"
    BY <1>11, <1>14, <2>1 DEF Stacks
  <2>2. CASE e.kind # "performant"
    <3>1. stack2 = Append(stack, fresh) /\ Len(stack) \in Nat
      BY <2>2 DEF Stacks
    <3>2. /\ Len(stack2) = Len(stack) + 1 /\ stack2[Len(stack) + 1] = fresh
          /\ \A k \in 1..Len(stack) : stack2[k] = stack[k]
      BY <3>1
    <3>3. e.kind \in {"loop", "call"}
      BY <2>2 DEF Opening
    <3>4. n + 1 \in 1..(n + 1)
      BY <1>1
    <3>5. \A k \in 1..(Len(stack) + 1) : k \in 1..Len(stack) \/ k = Len(stack) + 1
      BY <3>1
    <3>6. \A k \in 1..Len(stack2) :
            \E i \in 1..(n + 1) : fs[i].kind \in {"loop", "call"} /\ stack2[k] = fs[i].own
      BY <1>1, <1>14, <3>2, <3>3, <3>4, <3>5
    <3>7. ASSUME NEW k \in 1..Len(stack2), NEW l \in 1..Len(stack2), k < l
          PROVE  stack2[k] < stack2[l]
      <4>1. k \in 1..Len(stack)
        BY <3>1, <3>2, <3>7
      <4>2. stack2[k] = stack[k] /\ stack[k] < fresh
        BY <1>14, <3>2, <4>1
      <4> QED
        BY <1>11, <3>2, <3>5, <3>7, <4>1, <4>2
    <3> QED
      BY <3>6, <3>7
  <2> QED
    BY <2>1, <2>2
<1>16. fresh \in Owns(fs, n + 1)
  BY <1>3
<1>17. Scopes(fs, fresh + 1, fresh, stack2)
  BY <1>1, <1>12, <1>13, <1>15, <1>16 DEF Scopes
<1> QED
  BY <1>1, <1>3, <1>17 DEF n

\* What leaving the innermost scope does to the stack and the current arena.
Returns(e, cur, stack, cur2, stack2) ==
  \/ /\ e.kind \in {"loop", "call"} /\ stack2 = Front(stack)
     /\ cur2 = IF stack2 = << >> THEN None ELSE Last(stack2)
  \/ e.kind = "performant" /\ stack2 = stack /\ cur2 = e.saved
  \/ e.kind \notin Opening /\ stack2 = stack /\ cur2 = cur

\* The innermost arena is the youngest, so it is the top of the stack.
LEMMA LeaveScope ==
  ASSUME NEW es \in Seq(Env), NEW e, NEW fs \in Seq(Env), Grows(fs, e, es),
         NEW fresh \in Nat \ {0}, NEW cur, NEW stack \in Seq(Nat), Scopes(es, fresh, cur, stack),
         NEW cur2, NEW stack2, Returns(e, cur, stack, cur2, stack2)
  PROVE  /\ Scopes(fs, fresh, cur2, stack2)
         /\ Owns(es, Len(es)) = Owns(fs, Len(fs)) \cup {e.own}
         /\ e.own # None => e.own \notin Owns(fs, Len(fs))
<1> DEFINE n == Len(fs)
<1>1. n \in Nat /\ Len(es) = n + 1 /\ es[n + 1] = e /\ \A i \in 1..n : es[i] = fs[i]
  BY DEF Grows
<1>2. \A m \in 0..n : Owns(es, m) = Owns(fs, m)
  BY GrowsOwns
<1>3. Owns(es, n + 1) = Owns(fs, n) \cup {e.own}
  BY <1>1, GrowsOwns
<1>4. \A i \in 1..(n + 1) :
        /\ es[i].arena \in Owns(es, i) /\ es[i].saved \in Owns(es, i - 1)
        /\ es[i].own < fresh /\ (es[i].own # None <=> es[i].kind \in Opening)
  BY <1>1 DEF Scopes
<1>5. \A i, j \in 1..(n + 1) : i < j /\ es[j].own # None => es[i].own < es[j].own
  BY <1>1 DEF Scopes
<1>6. \A k \in 1..Len(stack) :
        \E i \in 1..(n + 1) : es[i].kind \in {"loop", "call"} /\ stack[k] = es[i].own
  BY <1>1 DEF Scopes
<1>7. \A k, l \in 1..Len(stack) : k < l => stack[k] < stack[l]
  BY DEF Scopes
<1>8. cur \in Owns(es, n + 1)
  BY <1>1 DEF Scopes
<1>9. \A i \in 1..(n + 1) : es[i].own \in Nat
  <2>1. \A i \in 1..(n + 1) : es[i] \in Env
    BY <1>1
  <2> QED
    BY <2>1 DEF Env
<1> HIDE DEF n
<1>10. n + 1 \in 1..(n + 1) /\ \A i \in 1..n : i \in 1..(n + 1) /\ i < n + 1
  BY <1>1
<1>11. /\ e.own \in Nat /\ e.saved \in Owns(es, n) /\ (e.own # None <=> e.kind \in Opening)
       /\ \A i \in 1..n : e.own # None => fs[i].own < e.own /\ fs[i].own \in Nat
  <2>1. (n + 1) - 1 = n
    BY <1>1
  <2> QED
    BY <1>1, <1>4, <1>5, <1>9, <1>10, <2>1
<1>12. e.own # None => e.own \notin Owns(fs, n)
  <2>1. \A i \in 1..n : e.own # None => fs[i].own # e.own
    BY <1>11
  <2> QED
    BY <2>1 DEF Owns
<1>13. \A i \in 1..n :
         /\ fs[i].arena \in Owns(fs, i) /\ fs[i].saved \in Owns(fs, i - 1)
         /\ fs[i].own < fresh /\ (fs[i].own # None <=> fs[i].kind \in Opening)
  <2> TAKE i \in 1..n
  <2>1. i \in 1..(n + 1) /\ i \in 0..n /\ i - 1 \in 0..n
    BY <1>1
  <2> QED
    BY <1>1, <1>2, <1>4, <2>1
<1>14. \A i, j \in 1..n : i < j /\ fs[j].own # None => fs[i].own < fs[j].own
  BY <1>1, <1>5, <1>10
<1>15. Owns(es, n) = Owns(fs, n)
  <2>1. n \in 0..n
    BY <1>1
  <2> QED
    BY <1>2, <2>1
<1>16. /\ \A k \in 1..Len(stack2) :
            \E i \in 1..n : fs[i].kind \in {"loop", "call"} /\ stack2[k] = fs[i].own
       /\ \A k, l \in 1..Len(stack2) : k < l => stack2[k] < stack2[l]
       /\ cur2 \in Owns(fs, n)
  <2>1. CASE e.kind \notin {"loop", "call"}
    <3>1. stack2 = stack
      BY <2>1 DEF Returns
    <3>2. ASSUME NEW k \in 1..Len(stack)
          PROVE  \E i \in 1..n : fs[i].kind \in {"loop", "call"} /\ stack[k] = fs[i].own
      <4>1. PICK i \in 1..(n + 1) : es[i].kind \in {"loop", "call"} /\ stack[k] = es[i].own
        BY <1>6
      <4>2. i # n + 1
        BY <1>1, <2>1, <4>1
      <4>3. i \in 1..n
        BY <1>1, <4>1, <4>2
      <4> QED
        BY <1>1, <4>1, <4>3
    <3>3. cur2 \in Owns(fs, n)
      <4>1. CASE cur2 = e.saved
        BY <1>11, <1>15, <4>1
      <4>2. CASE e.kind \notin Opening /\ cur2 = cur
        <5>1. e.own = None
          BY <1>11, <4>2
        <5>2. cur \in Owns(fs, n) \cup {None}
          BY <1>3, <1>8, <5>1
        <5> QED
          BY <4>2, <5>2 DEF Owns
      <4> QED
        BY <2>1, <4>1, <4>2 DEF Returns
    <3> QED
      BY <1>7, <3>1, <3>2, <3>3
  <2>2. CASE e.kind \in {"loop", "call"}
    <3>1. e.own # None
      BY <1>11, <2>2 DEF Opening
    <3>2. stack2 = Front(stack) /\ cur2 = IF stack2 = << >> THEN None ELSE Last(stack2)
      BY <2>2 DEF Returns, Opening
    <3>3. CASE stack = << >>
      <4>1. Len(stack) = 0
        BY <3>3
      <4>2. stack2 = SubSeq(stack, 1, 0 - 1)
        BY <3>2, <4>1 DEF Front
      <4>3. stack2 = << >>
        BY <3>3, <4>2
      <4>4. Len(stack2) = 0
        BY <4>3
      <4> QED
        BY <3>2, <4>3, <4>4 DEF Owns
    <3>4. CASE stack # << >>
      <4> DEFINE m == Len(stack)
      <4>1. m \in Nat \ {0}
        BY <3>4
      <4>2. stack2 = SubSeq(stack, 1, m - 1)
        BY <3>2 DEF Front
      <4>3. stack2 \in Seq(Nat) /\ Len(stack2) = m - 1 /\ \A k \in 1..(m - 1) : stack2[k] = stack[k]
        <5>1. \A k \in 1..(m - 1) : stack[k] \in Nat
          BY <4>1
        <5> HIDE DEF m
        <5>2. m - 1 \in Int /\ 1 \in Int
          BY <4>1
        <5>3. /\ SubSeq(stack, 1, m - 1) \in Seq(Nat)
              /\ Len(SubSeq(stack, 1, m - 1)) = IF 1 <= m - 1 THEN (m - 1) - 1 + 1 ELSE 0
              /\ \A k \in 1..((m - 1) - 1 + 1) : SubSeq(stack, 1, m - 1)[k] = stack[1 + k - 1]
          BY <5>1, <5>2, SubSeqProperties
        <5>4. \A k \in 1..(m - 1) : k \in 1..((m - 1) - 1 + 1) /\ 1 + k - 1 = k
          BY <4>1
        <5>5. \A k \in 1..(m - 1) : SubSeq(stack, 1, m - 1)[k] = stack[k]
          BY <5>3, <5>4
        <5>6. Len(SubSeq(stack, 1, m - 1)) = m - 1
          BY <4>1, <5>3
        <5> QED
          BY <4>2, <5>3, <5>5, <5>6
      <4>4. \A k \in 1..m : stack[k] \in Nat
        OBVIOUS
      <4> HIDE DEF m
      <4>5. m \in 1..m /\ \A k \in 1..(m - 1) : k \in 1..m /\ k < m
        BY <4>1
      <4>6. ASSUME NEW k \in 1..(m - 1)
            PROVE  \E i \in 1..n : fs[i].kind \in {"loop", "call"} /\ stack[k] = fs[i].own
        <5>1. k \in 1..m /\ stack[k] < stack[m]
          BY <1>7, <4>5 DEF m
        <5>2. PICK i \in 1..(n + 1) : es[i].kind \in {"loop", "call"} /\ stack[k] = es[i].own
          BY <1>6, <5>1 DEF m
        <5>3. PICK j \in 1..(n + 1) : stack[m] = es[j].own
          BY <1>6, <4>5 DEF m
        <5>4. stack[m] = e.own \/ stack[m] < e.own
          <6>1. CASE j = n + 1
            BY <1>1, <5>3, <6>1
          <6>2. CASE j # n + 1
            <7>1. j \in 1..n
              BY <1>1, <6>2
            <7> QED
              BY <1>1, <1>11, <3>1, <5>3, <7>1
          <6> QED
            BY <6>1, <6>2
        <5>5. i # n + 1
          <6>1. stack[k] \in Nat /\ stack[m] \in Nat
            BY <4>4, <4>5
          <6> QED
            BY <1>1, <1>11, <5>1, <5>2, <5>4, <6>1
        <5>6. i \in 1..n
          BY <1>1, <5>5
        <5> QED
          BY <1>1, <5>2, <5>6
      <4>7. \A k \in 1..Len(stack2) :
              \E i \in 1..n : fs[i].kind \in {"loop", "call"} /\ stack2[k] = fs[i].own
        BY <4>3, <4>6
      <4>8. \A k, l \in 1..Len(stack2) : k < l => stack2[k] < stack2[l]
        BY <1>7, <4>3, <4>5 DEF m
      <4>9. cur2 \in Owns(fs, n)
        <5>1. CASE stack2 = << >>
          BY <3>2, <5>1 DEF Owns
        <5>2. CASE stack2 # << >>
          <6>1. cur2 = stack2[Len(stack2)] /\ Len(stack2) \in 1..Len(stack2)
            BY <3>2, <4>3, <5>2 DEF Last
          <6>2. PICK i \in 1..n : cur2 = fs[i].own
            BY <4>7, <6>1
          <6> QED
            BY <6>2 DEF Owns
        <5> QED
          BY <5>1, <5>2
      <4> QED
        BY <4>7, <4>8, <4>9
    <3> QED
      BY <3>3, <3>4
  <2> QED
    BY <2>1, <2>2
<1>17. Scopes(fs, fresh, cur2, stack2)
  BY <1>13, <1>14, <1>16 DEF Scopes, n
<1> QED
  BY <1>1, <1>3, <1>12, <1>17 DEF n

-----------------------------------------------------------------------------
(* The phases of leaving a scope.                                          *)

Idle == doomed = {} /\ \A k \in 1..Len(work) : work[k].op \in {"drop", "bind"}

\* m handles are still to be dropped, then the arena ends, if there is one.
Closing(w, own, m) ==
  /\ Len(w) = m + (IF own = None THEN 1 ELSE 2)
  /\ \A k \in 1..m : w[k].op = "drop"
  /\ own # None => w[m + 1].op = "arena" /\ w[m + 1].arg = own
  /\ w[Len(w)].op = "leave"

Dropping(m) == doomed = {} /\ Depth > 1 /\ Closing(work, Top.own, m)

\* What lives in the arena is still to be dropped.
Ending ==
  /\ Depth > 1 /\ Top.own # None
  /\ Len(work) = 2 /\ work[1].op = "purge" /\ work[2].op = "leave"
  /\ \A i \in DOMAIN heap : heap[i].alive /\ heap[i].arena = Top.own => i \in doomed

Ended ==
  /\ doomed = {} /\ Depth > 1 /\ Top.own # None
  /\ Len(work) = 1 /\ work[1].op = "leave"
  /\ \A i \in DOMAIN heap : heap[i].alive => heap[i].arena # Top.own

Settled ==
  /\ finalizers = {}
  /\ Scopes(envs, nextArena, current, arenaStack)
  /\ Within(heap, Owns(envs, Depth))

Drained == Settled /\ (Idle \/ (\E m \in Nat : Dropping(m)) \/ Ending \/ Ended)

\* The heap changes within the arenas that are open.
LEMMA HeapSettles ==
  ASSUME Settled, UNCHANGED <<envs, nextArena, current, arenaStack, finalizers>>,
         NEW A, A \subseteq Owns(envs, Depth), Placed(heap, heap', A)
  PROVE  Settled'
<1>1. Within(heap', Owns(envs, Depth))
  BY PlacedWithin DEF Settled
<1> QED
  BY <1>1 DEF Settled, Depth

LEMMA DrainedSame ==
  ASSUME Drained, UNCHANGED <<heap, nextArena, current, arenaStack, finalizers, envs, doomed, work>>
  PROVE  Drained'
  BY DEF Drained, Settled, Idle, Dropping, Ending, Ended, Depth, Top

LEMMA NoWorkIdle ==
  ASSUME RestOK, Drained, work = << >>
  PROVE  Idle /\ doomed = {}
<1>1. Len(work) = 0
  OBVIOUS
<1>2. \A m \in Nat : ~Dropping(m)
  BY <1>1 DEF Dropping, Closing
<1> QED
  BY <1>1, <1>2 DEF Drained, Idle, Ending, Ended

\* A scope on top of the chain settles.
LEMMA SettledTop ==
  ASSUME RestOK, Settled
  PROVE  /\ Depth = Len(envs) /\ envs \in Seq(Env) /\ envs # << >> /\ Top \in Env
         /\ Top = envs[Depth] /\ Depth \in Nat \ {0}
         /\ Top.arena \in Owns(envs, Depth) /\ Top.saved \in Owns(envs, Depth - 1)
         /\ current \in Owns(envs, Depth)
<1>1. Depth \in Nat \ {0} /\ Top \in Env /\ Top = envs[Depth] /\ Depth = Len(envs)
  BY TopOK DEF Top, Depth
<1>2. Depth \in 1..Depth
  BY <1>1
<1> QED
  BY <1>1, <1>2 DEF Settled, Scopes, RestOK

-----------------------------------------------------------------------------
(* Bindings.                                                               *)

LEMMA RebindOps ==
  ASSUME NEW env \in Env, NEW x \in Vars, NEW id \in Nat
  PROVE  \A k \in 1..Len(Rebind(env, x, id)) : Rebind(env, x, id)[k].op \in {"drop", "bind"}
<1> DEFINE a == IF env.values[x] # None THEN <<Do("drop", env.values[x])>> ELSE << >>
           b == <<BindItem(x, id)>>
           r == Rebind(env, x, id)
<1>1. r = a \o b
  BY DEF Rebind
<1>2. env.values[x] \in Nat
  BY DEF Env
<1>3. Do("drop", env.values[x]) \in Item /\ BindItem(x, id) \in Item
  BY <1>2, DoOK, BindItemOK DEF Ops
<1>4. a \in Seq(Item) /\ b \in Seq(Item)
  BY <1>3
<1>5. \A k \in 1..Len(a) : a[k] = Do("drop", env.values[x])
  OBVIOUS
<1>6. Len(b) = 1 /\ b[1] = BindItem(x, id)
  OBVIOUS
<1> HIDE DEF a, b, r
<1>7. /\ Len(r) = Len(a) + Len(b)
      /\ \A k \in 1..(Len(a) + Len(b)) : r[k] = IF k <= Len(a) THEN a[k] ELSE b[k - Len(a)]
  BY <1>1, <1>4, ConcatProperties
<1>8. Len(a) \in Nat
  BY <1>4
<1>9. \A k \in 1..Len(r) : r[k] = Do("drop", env.values[x]) \/ r[k] = BindItem(x, id)
  <2> TAKE k \in 1..Len(r)
  <2>1. k \in 1..Len(a) \/ k = Len(a) + 1
    BY <1>6, <1>7, <1>8
  <2> QED
    BY <1>5, <1>6, <1>7, <1>8, <2>1
<1> QED
  BY <1>9 DEF r, Do, BindItem

LEMMA LetPromotedPlaced ==
  ASSUME NEW h, NEW n, HeapOK(h, n), NEW env \in Env, NEW x \in Vars, NEW id \in Nat,
         LetPromoted(h, n, env, x, id), doomed' = {}
  PROVE  Placed(h, heap', {env.arena}) /\ Idle'
<1>1. env.arena \in Nat
  BY DEF Env
<1>2. promote_if_escaping(h, n, env.arena, id) \in Nat
  BY <1>1, Promotion
<1>3. Placed(h, heap', {env.arena})
  BY <1>1, PromotionPlaced DEF LetPromoted
<1>4. work' = Rebind(env, x, promote_if_escaping(h, n, env.arena, id))
  BY DEF LetPromoted
<1>5. \A k \in 1..Len(work') : work'[k].op \in {"drop", "bind"}
  BY <1>2, <1>4, RebindOps
<1> QED
  BY <1>3, <1>5 DEF Idle

LEMMA LetNewDrained ==
  ASSUME IInv, Drained, NEW x \in Vars, NEW kid \in Nat, LetNew(x, kid)
  PROVE  Drained'
<1> DEFINE g == heapify_composite(heap, next, current, kid)
<1>1. RestOK /\ HeapOK(heap, next) /\ Settled /\ current \in Nat /\ next \in Nat
  BY DEF IInv, RestOK, Drained, HeapOK
<1>2. /\ LetPromoted(g, next + 1, Top, x, next) /\ work = << >>
      /\ UNCHANGED <<nextArena, current, arenaStack, finalizers, envs, ret, doomed>>
  BY DEF LetNew, Ready
<1>3. doomed' = {}
  BY <1>1, <1>2, NoWorkIdle
<1>4. Placed(heap, g, {current}) /\ HeapOK(g, next + 1)
  BY <1>1, HeapifyPlaced, HeapifyHeap DEF Evolves
<1> HIDE DEF g
<1>5. Top \in Env /\ Top.arena \in Owns(envs, Depth) /\ current \in Owns(envs, Depth)
  BY <1>1, SettledTop
<1>6. Placed(g, heap', {Top.arena}) /\ Idle'
  BY <1>1, <1>2, <1>3, <1>4, <1>5, LetPromotedPlaced
<1>7. Placed(heap, heap', {current, Top.arena})
  BY <1>4, <1>6 DEF Placed
<1>8. Settled'
  BY <1>1, <1>2, <1>5, <1>7, HeapSettles
<1> QED
  BY <1>6, <1>8 DEF Drained

LEMMA LetAliasDrained ==
  ASSUME IInv, Drained, NEW x \in Vars, NEW id \in Nat, LetAlias(x, id)
  PROVE  Drained'
<1>1. RestOK /\ HeapOK(heap, next) /\ Settled
  BY DEF IInv, Drained
<1>2. /\ LetPromoted(heap, next, Top, x, id) /\ work = << >>
      /\ UNCHANGED <<nextArena, current, arenaStack, finalizers, envs, ret, doomed>>
  BY DEF LetAlias, Ready
<1>3. doomed' = {}
  BY <1>1, <1>2, NoWorkIdle
<1>4. Top \in Env /\ Top.arena \in Owns(envs, Depth)
  BY <1>1, SettledTop
<1>5. Placed(heap, heap', {Top.arena}) /\ Idle'
  BY <1>1, <1>2, <1>3, <1>4, LetPromotedPlaced
<1>6. Settled'
  BY <1>1, <1>2, <1>4, <1>5, HeapSettles
<1> QED
  BY <1>5, <1>6 DEF Drained

LEMMA WeakNewDrained ==
  ASSUME IInv, Drained, NEW id, WeakNew(id)
  PROVE  Drained'
<1>1. RestOK /\ HeapOK(heap, next) /\ Settled
  BY DEF IInv, Drained
<1>2. /\ work = << >> /\ id \in DOMAIN heap
      /\ heap' = [heap EXCEPT ![id] = inc_weak(heap[id])]
      /\ UNCHANGED <<nextArena, current, arenaStack, finalizers, envs, doomed, work>>
  BY DEF WeakNew, Ready
<1>3. Idle
  BY <1>1, <1>2, NoWorkIdle
<1>4. inc_weak(heap[id]).arena = heap[id].arena /\ inc_weak(heap[id]).alive = heap[id].alive
  <2>1. heap[id] \in HeapObject
    BY <1>1, <1>2 DEF HeapOK
  <2> QED
    BY <2>1 DEF inc_weak, HeapObject
<1>5. Placed(heap, heap', {})
  BY <1>2, <1>4 DEF Placed
<1>6. Settled'
  BY <1>1, <1>2, <1>5, HeapSettles
<1>7. Idle'
  BY <1>2, <1>3 DEF Idle
<1> QED
  BY <1>6, <1>7 DEF Drained

-----------------------------------------------------------------------------
(* Opening a scope.                                                        *)

LEMMA GrowsByOne ==
  ASSUME NEW es \in Seq(Env), NEW e \in Env
  PROVE  Grows(es, e, es \o <<e>>) /\ es \o <<e>> \in Seq(Env) /\ es \o <<e>> # << >>
<1>1. <<e>> \in Seq(Env) /\ Len(<<e>>) = 1 /\ <<e>>[1] = e /\ Len(es) \in Nat
  OBVIOUS
<1> DEFINE b == <<e>>
<1> HIDE DEF b
<1>2. /\ es \o b \in Seq(Env) /\ Len(es \o b) = Len(es) + Len(b)
      /\ \A k \in 1..(Len(es) + Len(b)) :
           (es \o b)[k] = IF k <= Len(es) THEN es[k] ELSE b[k - Len(es)]
  BY <1>1, ConcatProperties DEF b
<1>3. Len(b) = 1 /\ b[1] = e
  BY <1>1 DEF b
<1>4. \A k \in 1..Len(es) : (es \o b)[k] = es[k]
  BY <1>1, <1>2, <1>3
<1>5. (es \o b)[Len(es) + 1] = e
  BY <1>1, <1>2, <1>3
<1>6. Len(es \o b) = Len(es) + 1 /\ es \o b # << >>
  BY <1>1, <1>2, <1>3
<1> QED
  BY <1>2, <1>4, <1>5, <1>6 DEF Grows, b

LEMMA GrowsByTwo ==
  ASSUME NEW es \in Seq(Env), NEW e \in Env, NEW f \in Env
  PROVE  Grows(es \o <<e>>, f, es \o <<e, f>>)
<1> DEFINE b == <<e, f>>
           m == es \o <<e>>
<1>1. b \in Seq(Env) /\ Len(b) = 2 /\ b[1] = e /\ b[2] = f /\ Len(es) \in Nat
  OBVIOUS
<1> HIDE DEF b
<1>2. /\ Len(es \o b) = Len(es) + Len(b)
      /\ \A k \in 1..(Len(es) + Len(b)) :
           (es \o b)[k] = IF k <= Len(es) THEN es[k] ELSE b[k - Len(es)]
  BY <1>1, ConcatProperties
<1>3. Grows(es, e, m)
  BY GrowsByOne
<1> HIDE DEF m
<1>4. \A k \in 1..Len(es) : (es \o b)[k] = m[k]
  BY <1>1, <1>2, <1>3 DEF Grows
<1>5. (es \o b)[Len(es) + 1] = m[Len(es) + 1] /\ (es \o b)[Len(es) + 2] = f
  BY <1>1, <1>2, <1>3 DEF Grows
<1>6. Len(m) = Len(es) + 1 /\ Len(es \o b) = Len(m) + 1
  BY <1>1, <1>2, <1>3 DEF Grows
<1>7. \A k \in 1..Len(m) : k \in 1..Len(es) \/ k = Len(es) + 1
  BY <1>1, <1>6
<1>8. Len(m) + 1 = Len(es) + 2
  BY <1>1, <1>6
<1>9. Grows(m, f, es \o b)
  BY <1>4, <1>5, <1>6, <1>7, <1>8 DEF Grows
<1> QED
  BY <1>9 DEF b, m

\* A binding changes nothing of a scope's arenas.
LEMMA DefineFields ==
  ASSUME NEW env \in Env, NEW x \in Vars, NEW id \in Nat
  PROVE  /\ define(env, x, id).kind = env.kind /\ define(env, x, id).arena = env.arena
         /\ define(env, x, id).own = env.own /\ define(env, x, id).saved = env.saved
  BY DEF define, Env

LEMMA EnterDrained ==
  ASSUME IInv, Drained, work = << >>, UNCHANGED <<work, doomed, finalizers>>,
         Scopes(envs', nextArena', current', arenaStack'),
         Owns(envs, Depth) \subseteq Owns(envs', Len(envs')),
         NEW A, A \subseteq Owns(envs', Len(envs')), Placed(heap, heap', A)
  PROVE  Drained'
<1>1. Idle /\ Settled
  BY NoWorkIdle DEF IInv, Drained
<1>2. Within(heap, Owns(envs', Len(envs')))
  BY <1>1 DEF Settled, Within
<1>3. Within(heap', Owns(envs', Len(envs')))
  BY <1>2, PlacedWithin
<1>4. Settled'
  BY <1>1, <1>3 DEF Settled, Depth
<1>5. Idle'
  BY <1>1 DEF Idle
<1> QED
  BY <1>4, <1>5 DEF Drained

LEMMA HeapStays == Placed(heap, heap, {})
  BY DEF Placed

LEMMA EnterBlockDrained ==
  ASSUME IInv, Drained, EnterBlock
  PROVE  Drained'
<1> DEFINE e == NewEnv("block", Top.arena)
<1>1. RestOK /\ Settled /\ Scopes(envs, nextArena, current, arenaStack) /\ nextArena \in Nat \ {0}
  BY DEF IInv, RestOK, Drained, Settled
<1>2. /\ Depth = Len(envs) /\ envs \in Seq(Env) /\ envs # << >> /\ Top \in Env
      /\ Top.arena \in Owns(envs, Depth)
  BY <1>1, SettledTop
<1>3. /\ work = << >> /\ envs' = envs \o <<e>> /\ nextArena' = nextArena
      /\ UNCHANGED <<heap, current, arenaStack, work, doomed, finalizers>>
  BY DEF EnterBlock, Ready, Open
<1>4. e \in Env
  BY <1>2, NewEnvOK DEF Kinds, Env
<1>5. e.own = None /\ e.kind \notin Opening /\ e.saved = None /\ e.arena = Top.arena
  BY DEF NewEnv, Opening
<1> HIDE DEF e
<1>6. Grows(envs, e, envs')
  BY <1>2, <1>3, <1>4, GrowsByOne
<1>7. Scopes(envs', nextArena, current, arenaStack) /\ Owns(envs', Len(envs')) = Owns(envs, Depth)
  BY <1>1, <1>2, <1>4, <1>5, <1>6, PlainScope
<1>8. Scopes(envs', nextArena', current', arenaStack')
  BY <1>3, <1>7
<1> QED
  BY <1>3, <1>7, <1>8, HeapStays, EnterDrained

LEMMA EnterLoopDrained ==
  ASSUME IInv, Drained, EnterLoop
  PROVE  Drained'
<1> DEFINE b == NewEnv("loop", Top.arena)
           e == [b EXCEPT !.own = nextArena]
<1>1. RestOK /\ Settled /\ Scopes(envs, nextArena, current, arenaStack) /\ nextArena \in Nat \ {0}
      /\ arenaStack \in Seq(Nat)
  BY DEF IInv, RestOK, Drained, Settled
<1>2. /\ Depth = Len(envs) /\ envs \in Seq(Env) /\ envs # << >> /\ Top \in Env
      /\ Top.arena \in Owns(envs, Depth)
  BY <1>1, SettledTop
<1>3. /\ work = << >> /\ envs' = envs \o <<e>> /\ nextArena' = nextArena + 1
      /\ current' = nextArena /\ arenaStack' = Append(arenaStack, nextArena)
      /\ UNCHANGED <<heap, work, doomed, finalizers>>
  BY <1>1 DEF EnterLoop, Ready, Open, None
<1>4. b \in Env
  BY <1>2, NewEnvOK DEF Kinds, Env
<1>5. e \in Env
  BY <1>1, <1>4 DEF Env
<1>6. e.own = nextArena /\ e.kind = "loop" /\ e.saved = None /\ e.arena = Top.arena
  BY DEF NewEnv
<1> HIDE DEF e, b
<1>7. Grows(envs, e, envs')
  BY <1>2, <1>3, <1>5, GrowsByOne
<1>8. e.saved \in Owns(envs, Len(envs)) /\ e.kind \in Opening
      /\ e.arena \in Owns(envs, Len(envs)) \cup {nextArena}
  BY <1>2, <1>6 DEF Owns, Opening
<1>9. Stacks(e, nextArena, arenaStack, arenaStack')
  BY <1>3, <1>6 DEF Stacks
<1>10. /\ Scopes(envs', nextArena + 1, nextArena, arenaStack')
       /\ Owns(envs', Len(envs')) = Owns(envs, Len(envs)) \cup {nextArena}
  BY <1>1, <1>2, <1>5, <1>6, <1>7, <1>8, <1>9, ArenaScope
<1>11. Scopes(envs', nextArena', current', arenaStack')
       /\ Owns(envs, Depth) \subseteq Owns(envs', Len(envs'))
  BY <1>2, <1>3, <1>10
<1> QED
  BY <1>3, <1>11, HeapStays, EnterDrained

LEMMA EnterPerformantDrained ==
  ASSUME IInv, Drained, EnterPerformant
  PROVE  Drained'
<1> DEFINE b == NewEnv("performant", nextArena)
           e == [b EXCEPT !.own = nextArena, !.saved = current]
<1>1. RestOK /\ Settled /\ Scopes(envs, nextArena, current, arenaStack) /\ nextArena \in Nat \ {0}
      /\ arenaStack \in Seq(Nat) /\ current \in Nat
  BY DEF IInv, RestOK, Drained, Settled
<1>2. /\ Depth = Len(envs) /\ envs \in Seq(Env) /\ envs # << >> /\ current \in Owns(envs, Depth)
  BY <1>1, SettledTop
<1>3. /\ work = << >> /\ envs' = envs \o <<e>> /\ nextArena' = nextArena + 1
      /\ current' = nextArena
      /\ UNCHANGED <<heap, arenaStack, work, doomed, finalizers>>
  BY <1>1 DEF EnterPerformant, Ready, Open, None
<1>4. b \in Env
  BY <1>1, NewEnvOK DEF Kinds
<1>5. e \in Env
  BY <1>1, <1>4 DEF Env
<1>6. e.own = nextArena /\ e.kind = "performant" /\ e.saved = current /\ e.arena = nextArena
  BY DEF NewEnv
<1> HIDE DEF e, b
<1>7. Grows(envs, e, envs')
  BY <1>2, <1>3, <1>5, GrowsByOne
<1>8. e.saved \in Owns(envs, Len(envs)) /\ e.kind \in Opening
      /\ e.arena \in Owns(envs, Len(envs)) \cup {nextArena}
  BY <1>2, <1>6 DEF Opening
<1>9. Stacks(e, nextArena, arenaStack, arenaStack')
  BY <1>3, <1>6 DEF Stacks
<1>10. /\ Scopes(envs', nextArena + 1, nextArena, arenaStack')
       /\ Owns(envs', Len(envs')) = Owns(envs, Len(envs)) \cup {nextArena}
  BY <1>1, <1>2, <1>5, <1>6, <1>7, <1>8, <1>9, ArenaScope
<1>11. Scopes(envs', nextArena', current', arenaStack')
       /\ Owns(envs, Depth) \subseteq Owns(envs', Len(envs'))
  BY <1>2, <1>3, <1>10
<1> QED
  BY <1>3, <1>11, HeapStays, EnterDrained

\* A call opens its frame, with the arena, and the block of its body.
LEMMA EnterCallDrained ==
  ASSUME IInv, Drained, NEW x \in Vars, NEW param \in Vars, NEW id \in Nat,
         EnterCall(x, param, id)
  PROVE  Drained'
<1> DEFINE b == NewEnv("call", nextArena)
           frame == [b EXCEPT !.own = nextArena, !.dest = x]
           e == define(frame, param, id)
           f == NewEnv("block", nextArena)
           mid == envs \o <<e>>
<1>1. RestOK /\ Settled /\ Scopes(envs, nextArena, current, arenaStack) /\ nextArena \in Nat \ {0}
      /\ arenaStack \in Seq(Nat)
  BY DEF IInv, RestOK, Drained, Settled
<1>2. Depth = Len(envs) /\ envs \in Seq(Env) /\ envs # << >>
  BY <1>1, SettledTop
<1>3. /\ work = << >> /\ envs' = envs \o <<e, f>> /\ nextArena' = nextArena + 1
      /\ current' = nextArena /\ arenaStack' = Append(arenaStack, nextArena)
      /\ UNCHANGED <<heap, work, doomed, finalizers>>
  BY <1>1 DEF EnterCall, Ready, Open, None
<1>4. b \in Env /\ f \in Env
  BY <1>1, NewEnvOK DEF Kinds
<1>5. frame \in Env
  BY <1>1, <1>4 DEF Env
<1>6. frame.own = nextArena /\ frame.kind = "call" /\ frame.saved = None /\ frame.arena = nextArena
      /\ f.own = None /\ f.kind \notin Opening /\ f.saved = None /\ f.arena = nextArena
  BY DEF NewEnv, Opening
<1> HIDE DEF b, frame, f
<1>7. e \in Env /\ e.own = nextArena /\ e.kind = "call" /\ e.saved = None /\ e.arena = nextArena
  BY <1>5, <1>6, DefineOK, DefineFields
<1> HIDE DEF e
<1>8. Grows(envs, e, mid) /\ mid \in Seq(Env) /\ mid # << >> /\ Grows(mid, f, envs')
  BY <1>2, <1>3, <1>4, <1>7, GrowsByOne, GrowsByTwo
<1> HIDE DEF mid
<1>9. e.saved \in Owns(envs, Len(envs)) /\ e.kind \in Opening
      /\ e.arena \in Owns(envs, Len(envs)) \cup {nextArena}
  BY <1>7 DEF Owns, Opening
<1>10. Stacks(e, nextArena, arenaStack, arenaStack')
  BY <1>3, <1>7 DEF Stacks
<1>11. /\ Scopes(mid, nextArena + 1, nextArena, arenaStack')
       /\ Owns(mid, Len(mid)) = Owns(envs, Len(envs)) \cup {nextArena}
  BY <1>1, <1>2, <1>7, <1>8, <1>9, <1>10, ArenaScope
<1>12. nextArena + 1 \in Nat \ {0} /\ f.arena \in Owns(mid, Len(mid))
  BY <1>1, <1>6, <1>11
<1>13. /\ Scopes(envs', nextArena + 1, nextArena, arenaStack')
       /\ Owns(envs', Len(envs')) = Owns(mid, Len(mid))
  BY <1>4, <1>6, <1>8, <1>11, <1>12, PlainScope
<1>14. Scopes(envs', nextArena', current', arenaStack')
       /\ Owns(envs, Depth) \subseteq Owns(envs', Len(envs'))
  BY <1>2, <1>3, <1>11, <1>13
<1> QED
  BY <1>3, <1>14, HeapStays, EnterDrained

LEMMA EnterForDrained ==
  ASSUME IInv, Drained, NEW x \in Vars, NEW id \in Nat, EnterFor(x, id)
  PROVE  Drained'
<1> DEFINE element == heap[id].kid
           frame == NewEnv("for", Top.arena)
           bound == promote_if_escaping(heap, next, Top.arena, element)
           e == define(frame, x, bound)
           f == NewEnv("block", Top.arena)
           mid == envs \o <<e>>
<1>1. RestOK /\ Settled /\ Scopes(envs, nextArena, current, arenaStack) /\ nextArena \in Nat \ {0}
      /\ HeapOK(heap, next)
  BY DEF IInv, RestOK, Drained, Settled
<1>2. /\ Depth = Len(envs) /\ envs \in Seq(Env) /\ envs # << >> /\ Top \in Env
      /\ Top.arena \in Owns(envs, Depth) /\ Top.arena \in Nat
  BY <1>1, SettledTop DEF Env
<1>3. /\ work = << >> /\ id \in DOMAIN heap /\ envs' = envs \o <<e, f>> /\ nextArena' = nextArena
      /\ heap' = PromoteHeap(heap, next, Top.arena, element)
      /\ UNCHANGED <<current, arenaStack, work, doomed, finalizers>>
  BY DEF EnterFor, Ready, Open
<1>4. element \in Nat
  BY <1>1, <1>3 DEF HeapOK, HeapObject
<1> HIDE DEF element
<1>5. bound \in Nat /\ Placed(heap, heap', {Top.arena})
  BY <1>1, <1>2, <1>3, <1>4, Promotion, PromotionPlaced
<1> HIDE DEF bound
<1>6. frame \in Env /\ f \in Env
  BY <1>2, NewEnvOK DEF Kinds
<1>7. frame.own = None /\ frame.kind \notin Opening /\ frame.saved = None /\ frame.arena = Top.arena
      /\ f.own = None /\ f.kind \notin Opening /\ f.saved = None /\ f.arena = Top.arena
  BY DEF NewEnv, Opening
<1> HIDE DEF frame, f
<1>8. e \in Env /\ e.own = None /\ e.kind \notin Opening /\ e.saved = None /\ e.arena = Top.arena
  BY <1>5, <1>6, <1>7, DefineOK, DefineFields
<1> HIDE DEF e
<1>9. Grows(envs, e, mid) /\ mid \in Seq(Env) /\ mid # << >> /\ Grows(mid, f, envs')
  BY <1>2, <1>3, <1>6, <1>8, GrowsByOne, GrowsByTwo
<1> HIDE DEF mid
<1>10. /\ Scopes(mid, nextArena, current, arenaStack)
       /\ Owns(mid, Len(mid)) = Owns(envs, Depth)
  BY <1>1, <1>2, <1>8, <1>9, PlainScope
<1>11. /\ Scopes(envs', nextArena, current, arenaStack)
       /\ Owns(envs', Len(envs')) = Owns(mid, Len(mid))
  BY <1>1, <1>2, <1>6, <1>7, <1>9, <1>10, PlainScope
<1>12. Scopes(envs', nextArena', current', arenaStack')
       /\ Owns(envs', Len(envs')) = Owns(envs, Depth)
  BY <1>3, <1>10, <1>11
<1> QED
  BY <1>2, <1>3, <1>5, <1>12, EnterDrained

-----------------------------------------------------------------------------
(* Leaving a scope.                                                        *)

LEMMA TeardownCloses ==
  ASSUME NEW env \in Env, NEW w, w = Teardown(env)
  PROVE  Closing(w, env.own, Len(env.handles))
<1> DEFINE m == Len(env.handles)
           a == Drops(env)
           e == IF env.own # None THEN <<Do("arena", env.own)>> ELSE << >>
           b == <<Do("leave", None)>>
           c == a \o e
<1>1. env.handles \in Seq(Nat) /\ m \in Nat /\ env.own \in Nat /\ None \in Nat
  BY DEF Env, None
<1>2. \A i \in 1..m : Do("drop", env.handles[i]) \in Item
  BY <1>1, DoOK DEF Ops
<1>3. Do("arena", env.own) \in Item /\ Do("leave", None) \in Item
  BY <1>1, DoOK DEF Ops
<1>4. a = [i \in 1..m |-> Do("drop", env.handles[i])]
  BY <1>1 DEF Drops
<1>5. a \in Seq(Item) /\ Len(a) = m /\ \A k \in 1..m : a[k] = Do("drop", env.handles[k])
  BY <1>1, <1>2, <1>4
<1>6. e \in Seq(Item) /\ Len(e) = (IF env.own # None THEN 1 ELSE 0)
      /\ (env.own # None => e[1] = Do("arena", env.own))
  BY <1>3
<1>7. b \in Seq(Item) /\ Len(b) = 1 /\ b[1] = Do("leave", None)
  BY <1>3
<1>8. w = c \o b
  BY DEF Teardown
<1> HIDE DEF m, a, e, b
<1>9. /\ c \in Seq(Item) /\ Len(c) = Len(a) + Len(e)
      /\ \A k \in 1..(Len(a) + Len(e)) : c[k] = IF k <= Len(a) THEN a[k] ELSE e[k - Len(a)]
  BY <1>5, <1>6, ConcatProperties
<1> HIDE DEF c
<1>10. /\ Len(w) = Len(c) + Len(b)
       /\ \A k \in 1..(Len(c) + Len(b)) : w[k] = IF k <= Len(c) THEN c[k] ELSE b[k - Len(c)]
  <2>0. c \in Seq(Item) /\ b \in Seq(Item)
    BY <1>7, <1>9
  <2>1. /\ Len(c \o b) = Len(c) + Len(b)
        /\ \A k \in 1..(Len(c) + Len(b)) : (c \o b)[k] = IF k <= Len(c) THEN c[k] ELSE b[k - Len(c)]
    BY <2>0, ConcatProperties
  <2> QED
    BY <1>8, <2>1
<1>11. Len(w) = m + (IF env.own = None THEN 1 ELSE 2)
  BY <1>1, <1>5, <1>6, <1>7, <1>9, <1>10
<1>12. \A k \in 1..m : w[k] = Do("drop", env.handles[k])
  <2> TAKE k \in 1..m
  <2>1. k \in 1..(Len(a) + Len(e)) /\ k <= Len(a) /\ k \in 1..(Len(c) + Len(b)) /\ k <= Len(c)
    BY <1>1, <1>5, <1>6, <1>7, <1>9
  <2> QED
    BY <1>5, <1>9, <1>10, <2>1
<1>13. env.own # None => w[m + 1] = Do("arena", env.own)
  <2> SUFFICES ASSUME env.own # None PROVE w[m + 1] = Do("arena", env.own)
    OBVIOUS
  <2>1. /\ m + 1 \in 1..(Len(a) + Len(e)) /\ ~(m + 1 <= Len(a)) /\ (m + 1) - Len(a) = 1
        /\ m + 1 \in 1..(Len(c) + Len(b)) /\ m + 1 <= Len(c)
    BY <1>1, <1>5, <1>6, <1>7, <1>9
  <2> QED
    BY <1>6, <1>9, <1>10, <2>1
<1>14. w[Len(w)] = Do("leave", None)
  <2>1. /\ Len(w) \in 1..(Len(c) + Len(b)) /\ ~(Len(w) <= Len(c)) /\ Len(w) - Len(c) = 1
    BY <1>1, <1>5, <1>6, <1>7, <1>9, <1>10
  <2> QED
    BY <1>7, <1>10, <2>1
<1>15. /\ \A arg : Do("drop", arg).op = "drop" /\ Do("leave", arg).op = "leave"
       /\ \A arg : Do("arena", arg).op = "arena" /\ Do("arena", arg).arg = arg
  BY DEF Do
<1>16. Closing(w, env.own, m)
  BY <1>11, <1>12, <1>13, <1>14, <1>15 DEF Closing
<1> QED
  BY <1>16 DEF m

LEMMA ExitDrained ==
  ASSUME IInv, Drained, Exit
  PROVE  Drained'
<1>1. RestOK /\ Settled
  BY DEF IInv, Drained
<1>2. /\ work = << >> /\ work' = Teardown(Top) /\ Depth > 1
      /\ UNCHANGED <<heap, nextArena, current, arenaStack, finalizers, envs, doomed>>
  BY DEF Exit
<1>3. doomed = {} /\ Top \in Env
  BY <1>1, <1>2, NoWorkIdle, SettledTop
<1>4. Closing(work', Top.own, Len(Top.handles)) /\ Len(Top.handles) \in Nat
  BY <1>2, <1>3, TeardownCloses DEF Env
<1>5. Dropping(Len(Top.handles))'
  BY <1>2, <1>3, <1>4 DEF Dropping, Depth, Top
<1>6. Settled'
  BY <1>1, <1>2, HeapStays, HeapSettles
<1>7. PICK m \in Nat : m = Len(Top.handles)
  BY <1>4
<1>8. Dropping(m)'
  BY <1>2, <1>3, <1>4, <1>7 DEF Dropping, Depth, Top
<1> QED
  BY <1>6, <1>8 DEF Drained

\* A return that crosses a scope promotes to an arena that stays open.
LEMMA UnwindDrained ==
  ASSUME IInv, Drained, Unwind
  PROVE  Drained'
<1> DEFINE target == envs[Depth - 1].arena
           id == promote_if_escaping(heap, next, target, ret.val)
           promoted == PromoteHeap(heap, next, target, ret.val)
           m == PromoteNext(heap, next, target, ret.val)
<1>1. RestOK /\ Settled /\ HeapOK(heap, next) /\ ret.val \in Nat
  BY DEF IInv, Drained, RestOK
<1>2. /\ work = << >> /\ work' = Teardown(Top) /\ Depth > 1
      /\ UNCHANGED <<nextArena, current, arenaStack, finalizers, envs, doomed>>
      /\ heap' = inc_heap_strong(promoted, id) \/ heap' = promoted \/ heap' = heap
  BY DEF Unwind
<1>3. /\ Depth = Len(envs) /\ envs \in Seq(Env) /\ Top \in Env /\ Depth \in Nat \ {0}
  BY <1>1, SettledTop
<1>4. target \in Nat /\ target \in Owns(envs, Depth)
  <2>1. Depth - 1 \in 1..Len(envs) /\ 1..(Depth - 1) \subseteq 1..Depth
    BY <1>2, <1>3
  <2>2. target \in Owns(envs, Depth - 1) /\ envs[Depth - 1] \in Env
    BY <1>1, <1>3, <2>1 DEF Settled, Scopes
  <2> QED
    BY <2>1, <2>2 DEF Owns, Env
<1> HIDE DEF target
<1>5. Placed(heap, promoted, {target}) /\ HeapOK(promoted, m)
  BY <1>1, <1>4, PromotionPlaced, Promotion DEF Evolves
<1> HIDE DEF id, promoted, m
<1>6. Placed(promoted, inc_heap_strong(promoted, id), {})
  BY <1>5, IncHeapPlaced
<1>7. Placed(heap, heap', {target})
  BY <1>2, <1>5, <1>6 DEF Placed
<1>8. Settled'
  BY <1>1, <1>2, <1>4, <1>7, HeapSettles
<1>9. doomed = {}
  BY <1>1, <1>2, NoWorkIdle DEF Idle
<1>10. PICK d \in Nat : d = Len(Top.handles)
  BY <1>3 DEF Env
<1>11. Closing(work', Top.own, d)
  BY <1>2, <1>3, <1>10, TeardownCloses
<1>12. Dropping(d)'
  BY <1>2, <1>9, <1>11 DEF Dropping, Depth, Top
<1> QED
  BY <1>8, <1>12 DEF Drained

-----------------------------------------------------------------------------
(* The items of work.                                                      *)

\* What a head of the work tells of the phase, and its tail of the next.
LEMMA Phases ==
  ASSUME RestOK, Drained, NEW op, Doing(op)
  PROVE  \/ op \in {"drop", "bind"} /\ Idle
         \/ op = "drop" /\ \E m \in Nat : m > 0 /\ Dropping(m)
         \/ op = "arena" /\ Dropping(0) /\ Top.own # None /\ Item1.arg = Top.own
         \/ op = "leave" /\ Dropping(0) /\ Top.own = None
         \/ op = "purge" /\ Ending
         \/ op = "leave" /\ Ended
<1>1. Item1 = work[1] /\ work[1].op = op /\ Len(work) \in Nat \ {0}
  BY HeadAndTail
<1>2. CASE Idle
  <2>1. 1 \in 1..Len(work)
    BY <1>1
  <2> QED
    BY <1>1, <1>2, <2>1 DEF Idle
<1>3. CASE \E m \in Nat : Dropping(m)
  <2>1. PICK m \in Nat : Dropping(m)
    BY <1>3
  <2>2. CASE m > 0
    <3>1. 1 \in 1..m
      BY <2>2
    <3> QED
      BY <1>1, <2>1, <2>2, <3>1 DEF Dropping, Closing
  <2>3. CASE m = 0 /\ Top.own # None
    <3>1. work[1].op = "arena" /\ work[1].arg = Top.own
      BY <2>1, <2>3 DEF Dropping, Closing
    <3> QED
      BY <1>1, <2>1, <2>3, <3>1
  <2>4. CASE m = 0 /\ Top.own = None
    <3>1. work[1].op = "leave"
      BY <2>1, <2>4 DEF Dropping, Closing
    <3> QED
      BY <1>1, <2>1, <2>4, <3>1
  <2> QED
    BY <2>2, <2>3, <2>4
<1>4. CASE Ending
  BY <1>1, <1>4 DEF Ending
<1>5. CASE Ended
  BY <1>1, <1>5 DEF Ended
<1> QED
  BY <1>2, <1>3, <1>4, <1>5 DEF Drained

\* No finalizer runs.
LEMMA NoneRun ==
  ASSUME finalizers = {}, HeapOK(heap, next), NEW S, NEW h, RunFinalizers(S \cap finalizers, h)
  PROVE  /\ DOMAIN heap' = DOMAIN h /\ (\A i \in DOMAIN h : heap'[i] = h[i])
         /\ finalizers' = {} /\ envs' = envs
<1> DEFINE ran == S \cap finalizers
           k == Cardinality(ran)
           Bound(i) == next + IdsPerFinalizer * i - 1
           kept == {Bound(i) : i \in 1..k}
           new == next..Bound(k)
<1>1. next \in Nat /\ IdsPerFinalizer \in Nat
  BY DEF HeapOK, IdsPerFinalizer
<1>2. ran = {} /\ k = 0
  BY FS_EmptySet
<1>3. new = {}
  <2>1. Bound(0) = next - 1
    BY <1>1
  <2> QED
    BY <1>1, <1>2, <2>1
<1>4. /\ heap' = [i \in DOMAIN h \cup new |->
                    IF i \notin new THEN h[i]
                    ELSE NewObject(IF i \in kept THEN None ELSE current, None)]
      /\ finalizers' = finalizers \ ran
      /\ envs' = IF k = 0 THEN envs
                 ELSE [envs EXCEPT ![1].values[Flag] = Bound(k),
                                   ![1].handles = @ \o [i \in 1..k |-> Bound(i)]]
  BY DEF RunFinalizers
<1> HIDE DEF ran, k, new, kept
<1>5. envs' = envs /\ finalizers' = {}
  BY <1>2, <1>4
<1>6. DOMAIN heap' = DOMAIN h /\ \A i \in DOMAIN h : heap'[i] = h[i]
  BY <1>3, <1>4
<1> QED
  BY <1>5, <1>6

LEMMA PlacedSame ==
  ASSUME NEW h, NEW k, NEW A, Placed(h, k, A), NEW g,
         DOMAIN g = DOMAIN k, \A i \in DOMAIN k : g[i] = k[i]
  PROVE  Placed(h, g, A)
  BY DEF Placed

LEMMA DropDrained ==
  ASSUME IInv, Drained, Drop
  PROVE  Drained'
<1> DEFINE k == dec_object_strong_recursive(heap, Item1.arg)
<1>1. RestOK /\ HeapOK(heap, next) /\ Settled /\ finalizers = {}
  BY DEF IInv, Drained, Settled
<1>2. /\ Doing("drop") /\ work' = Tail(work)
      /\ RunFinalizers(Dying(heap, Item1.arg) \cap finalizers, k)
      /\ UNCHANGED <<nextArena, current, arenaStack, ret, doomed>>
  BY DEF Drop
<1>3. Placed(heap, k, {})
  BY <1>1, DropPlaced
<1> HIDE DEF k
<1>4. /\ DOMAIN heap' = DOMAIN k /\ (\A i \in DOMAIN k : heap'[i] = k[i])
      /\ finalizers' = {} /\ envs' = envs
  BY <1>1, <1>2, NoneRun
<1>5. Placed(heap, heap', {})
  BY <1>3, <1>4, PlacedSame
<1>6. Settled'
  BY <1>1, <1>2, <1>4, <1>5, HeapSettles
<1>7. /\ Len(work) \in Nat \ {0} /\ Len(work') = Len(work) - 1
      /\ \A j \in 1..(Len(work) - 1) : work'[j] = work[j + 1]
  BY <1>1, <1>2, HeadAndTail
<1>8. CASE Idle
  <2>1. \A j \in 1..Len(work') : j + 1 \in 1..Len(work) /\ work'[j] = work[j + 1]
    BY <1>7
  <2>2. Idle'
    BY <1>2, <1>8, <2>1 DEF Idle
  <2> QED
    BY <1>6, <2>2 DEF Drained
<1>9. ASSUME NEW m \in Nat, m > 0, Dropping(m) PROVE Drained'
  <2>1. PICK l \in Nat : m = l + 1
    <3>1. m - 1 \in Nat /\ m = (m - 1) + 1
      BY <1>9
    <3> QED
      BY <3>1
  <2>2. Closing(work, Top.own, m) /\ doomed = {} /\ Depth > 1
    BY <1>9 DEF Dropping
  <2>3. Closing(work', Top.own, l)
    <3>1. Len(work') = l + (IF Top.own = None THEN 1 ELSE 2)
      BY <1>7, <2>1, <2>2 DEF Closing
    <3>2. \A j \in 1..l : work'[j].op = "drop"
      <4>1. \A j \in 1..l : j \in 1..(Len(work) - 1) /\ j + 1 \in 1..m
        BY <2>1, <2>2 DEF Closing
      <4> QED
        BY <1>7, <2>2, <4>1 DEF Closing
    <3>3. Top.own # None => work'[l + 1] = work[m + 1]
      BY <1>7, <2>1, <2>2 DEF Closing
    <3>4. work'[Len(work')] = work[Len(work)]
      <4>1. Len(work') \in 1..(Len(work) - 1) /\ Len(work') + 1 = Len(work)
        BY <1>7, <3>1
      <4> QED
        BY <1>7, <4>1
    <3> QED
      BY <2>2, <3>1, <3>2, <3>3, <3>4 DEF Closing
  <2>4. Dropping(l)'
    BY <1>2, <1>4, <2>2, <2>3 DEF Dropping, Depth, Top
  <2> QED
    BY <1>6, <2>4 DEF Drained
<1> QED
  BY <1>1, <1>2, <1>8, <1>9, Phases

LEMMA BindDrained ==
  ASSUME IInv, Drained, Bind
  PROVE  Drained'
<1>1. RestOK /\ HeapOK(heap, next) /\ Settled
  BY DEF IInv, Drained
<1>2. /\ Doing("bind") /\ work' = Tail(work)
      /\ envs' = [envs EXCEPT ![Depth] = define(Top, Item1.var, Item1.arg)]
      /\ UNCHANGED <<heap, next, nextArena, current, arenaStack, finalizers, ret, doomed>>
  BY DEF Bind, Top
<1>3. Depth = Len(envs) /\ envs \in Seq(Env) /\ Top \in Env /\ Top = envs[Depth] /\ Depth \in Nat \ {0}
  BY <1>1, SettledTop
<1>4. Item1.var \in Vars /\ Item1.arg \in Nat
  BY <1>1, <1>2, ItemOK
<1> DEFINE e == define(Top, Item1.var, Item1.arg)
<1>5. e.kind = Top.kind /\ e.arena = Top.arena /\ e.own = Top.own /\ e.saved = Top.saved
  BY <1>3, <1>4, DefineFields
<1> HIDE DEF e
<1>6. Len(envs') = Len(envs) /\ \A i \in 1..Len(envs) : envs'[i] = IF i = Depth THEN e ELSE envs[i]
  BY <1>2, <1>3 DEF e
<1>7. Alike(envs, envs')
  BY <1>3, <1>5, <1>6 DEF Alike
<1>8. Scopes(envs, nextArena, current, arenaStack)
  BY <1>1 DEF Settled
<1>9. Scopes(envs', nextArena, current, arenaStack) /\ Owns(envs', Len(envs')) = Owns(envs, Len(envs))
  BY <1>3, <1>7, <1>8, AlikeScopes
<1>10. Settled'
  BY <1>1, <1>2, <1>3, <1>9 DEF Settled, Depth
<1>11. Idle
  BY <1>1, <1>2, Phases
<1>12. /\ Len(work) \in Nat \ {0} /\ Len(work') = Len(work) - 1
       /\ \A j \in 1..(Len(work) - 1) : work'[j] = work[j + 1]
  BY <1>1, <1>2, HeadAndTail
<1>13. \A j \in 1..Len(work') : j + 1 \in 1..Len(work) /\ work'[j] = work[j + 1]
  BY <1>12
<1>14. Idle'
  BY <1>2, <1>11, <1>13 DEF Idle
<1> QED
  BY <1>10, <1>14 DEF Drained

\* All that lives in the arena is to be dropped.
LEMMA ArenaDrains ==
  ASSUME IInv, Drained, Arena
  PROVE  Drained'
<1>1. RestOK /\ HeapOK(heap, next) /\ Settled
  BY DEF IInv, Drained
<1>2. /\ Doing("arena") /\ doomed' = ArenaIds(heap, Item1.arg)
      /\ work' = <<Do("purge", Item1.arg)>> \o Tail(work)
      /\ UNCHANGED <<heap, next, nextArena, current, arenaStack, finalizers, envs, ret>>
  BY DEF Arena
<1>3. Dropping(0) /\ Top.own # None /\ Item1.arg = Top.own
  BY <1>1, <1>2, Phases
<1>4. Len(work) = 2 /\ work[2].op = "leave" /\ Depth > 1
  BY <1>3 DEF Dropping, Closing
<1>5. Len(Tail(work)) = 1 /\ Tail(work)[1] = work[2] /\ Tail(work) \in Seq(Item)
  <2>1. Len(Tail(work)) = Len(work) - 1
        /\ \A k \in 1..(Len(work) - 1) : Tail(work)[k] = work[k + 1]
    BY <1>1, <1>2, HeadAndTail
  <2>2. Tail(work) \in Seq(Item)
    BY <1>1, <1>2, ItemOK
  <2> QED
    BY <1>4, <2>1, <2>2
<1> DEFINE a == <<Do("purge", Item1.arg)>>
           b == Tail(work)
<1>6. Item1.arg \in Nat
  BY <1>1, <1>2, ItemOK
<1>7. Do("purge", Item1.arg) \in Item
  BY <1>6, DoOK DEF Ops
<1>8. a \in Seq(Item) /\ Len(a) = 1 /\ a[1] = Do("purge", Item1.arg)
  BY <1>7
<1> HIDE DEF a, b
<1>9. a \in Seq(Item) /\ b \in Seq(Item) /\ work' = a \o b
  BY <1>2, <1>5, <1>8 DEF a, b
<1>10. /\ Len(a \o b) = Len(a) + Len(b)
       /\ \A k \in 1..(Len(a) + Len(b)) : (a \o b)[k] = IF k <= Len(a) THEN a[k] ELSE b[k - Len(a)]
  BY <1>9, ConcatProperties
<1>11. Len(work') = 2 /\ work'[1] = Do("purge", Item1.arg) /\ work'[2] = work[2]
  <2>1. Len(b) = 1 /\ b[1] = work[2]
    BY <1>5 DEF b
  <2> QED
    BY <1>8, <1>9, <1>10, <2>1
<1>12. Do("purge", Item1.arg).op = "purge"
  BY DEF Do
<1>13. \A i \in DOMAIN heap : heap[i].alive /\ heap[i].arena = Top.own => i \in doomed'
  BY <1>2, <1>3 DEF ArenaIds
<1>14. Ending'
  BY <1>2, <1>3, <1>4, <1>11, <1>12, <1>13 DEF Ending, Depth, Top
<1>15. Settled'
  BY <1>1, <1>2, HeapStays, HeapSettles
<1> QED
  BY <1>14, <1>15 DEF Drained

LEMMA KillDrained ==
  ASSUME IInv, Drained, NEW id \in doomed, Kill(id)
  PROVE  Drained'
<1> DEFINE k == dec_object_strong_recursive(ForceToOne(heap, id), id)
           S == Dying(ForceToOne(heap, id), id)
<1>1. RestOK /\ HeapOK(heap, next) /\ Settled /\ finalizers = {} /\ id \in Nat
  BY DEF IInv, Drained, Settled, RestOK
<1>2. /\ RunFinalizers(S \cap finalizers, k)
      /\ doomed' = doomed \ {id}
      /\ UNCHANGED <<nextArena, current, arenaStack, ret, work>>
  BY DEF Kill
<1>3. Ending
  BY DEF Drained, Idle, Dropping, Ended
<1>4. Placed(heap, k, {}) /\ (id \in DOMAIN k => ~k[id].alive)
  BY <1>1, ForcedDrop
<1> HIDE DEF k, S
<1>5. /\ DOMAIN heap' = DOMAIN k /\ (\A i \in DOMAIN k : heap'[i] = k[i])
      /\ finalizers' = {} /\ envs' = envs
  BY <1>1, <1>2, NoneRun
<1>6. Placed(heap, heap', {}) /\ (id \in DOMAIN heap' => ~heap'[id].alive)
  BY <1>4, <1>5, PlacedSame
<1>7. Settled'
  BY <1>1, <1>2, <1>5, <1>6, HeapSettles
<1>8. ASSUME NEW i \in DOMAIN heap', heap'[i].alive, heap'[i].arena = Top.own
      PROVE  i \in doomed'
  <2>1. i \in DOMAIN heap /\ heap[i].alive /\ heap[i].arena = Top.own
    BY <1>6, <1>8 DEF Placed
  <2>2. i \in doomed
    BY <1>3, <2>1 DEF Ending
  <2>3. i # id
    BY <1>6, <1>8
  <2> QED
    BY <1>2, <2>2, <2>3
<1>9. Depth > 1 /\ Top.own # None /\ Len(work) = 2 /\ work[1].op = "purge" /\ work[2].op = "leave"
  BY <1>3 DEF Ending
<1>10. Depth' = Depth /\ Top' = Top
  BY <1>5 DEF Depth, Top
<1>11. Ending'
  BY <1>2, <1>8, <1>9, <1>10 DEF Ending
<1> QED
  BY <1>7, <1>11 DEF Drained

LEMMA PurgeDrained ==
  ASSUME IInv, Drained, Purge
  PROVE  Drained'
<1>1. RestOK /\ HeapOK(heap, next) /\ Settled
  BY DEF IInv, Drained
<1>2. /\ Doing("purge") /\ heap' = PurgeArena(heap, Item1.arg) /\ work' = Tail(work)
      /\ UNCHANGED <<next, nextArena, current, arenaStack, finalizers, envs, ret, doomed>>
  BY DEF Purge
<1>3. Ending /\ doomed = {}
  BY <1>1, <1>2, Phases DEF Doing
<1>4. Placed(heap, heap', {})
  BY <1>1, <1>2, PurgePlaced
<1>5. Settled'
  BY <1>1, <1>2, <1>4, HeapSettles
<1>6. Len(work') = 1 /\ work'[1] = work[2]
  <2>1. Len(work') = Len(work) - 1 /\ \A j \in 1..(Len(work) - 1) : work'[j] = work[j + 1]
    BY <1>1, <1>2, HeadAndTail
  <2> QED
    BY <1>3, <2>1 DEF Ending
<1>7. \A i \in DOMAIN heap' : heap'[i].alive => heap'[i].arena # Top.own
  BY <1>3, <1>4 DEF Ending, Placed
<1>8. Ended'
  BY <1>2, <1>3, <1>6, <1>7 DEF Ended, Ending, Depth, Top
<1> QED
  BY <1>5, <1>8 DEF Drained

LEMMA LeaveDrained ==
  ASSUME IInv, Drained, Leave
  PROVE  Drained'
<1>1. RestOK /\ HeapOK(heap, next) /\ Settled /\ Scopes(envs, nextArena, current, arenaStack)
      /\ nextArena \in Nat \ {0} /\ arenaStack \in Seq(Nat) /\ finalizers = {}
      /\ ret.val \in Nat
  BY DEF IInv, Drained, Settled, RestOK
<1>2. /\ Doing("leave") /\ Depth > 1 /\ envs' = SubSeq(envs, 1, Depth - 1)
      /\ UNCHANGED <<nextArena, finalizers, doomed>>
  BY DEF Leave
<1>3. /\ Depth = Len(envs) /\ envs \in Seq(Env) /\ Top \in Env /\ Top = envs[Depth]
      /\ Depth \in Nat \ {0}
  BY <1>1, SettledTop
<1>4. doomed' = {}
  BY <1>2 DEF Doing
<1>5. envs' \in Seq(Env) /\ Grows(envs', Top, envs) /\ Len(envs') = Depth - 1
  <2>1. PICK d \in Nat : Depth = d + 1 /\ d > 0
    <3>1. Depth - 1 \in Nat /\ Depth = (Depth - 1) + 1 /\ Depth - 1 > 0
      BY <1>2, <1>3
    <3> QED
      BY <3>1
  <2>2. Depth - 1 = d /\ \A i \in 1..d : envs[i] \in Env
    <3>1. \A i \in 1..Depth : envs[i] \in Env
      BY <1>1, TopOK
    <3> QED
      BY <2>1, <3>1
  <2>3. 1 \in Int /\ d \in Int
    BY <2>1
  <2>4. /\ SubSeq(envs, 1, d) \in Seq(Env)
        /\ Len(SubSeq(envs, 1, d)) = IF 1 <= d THEN d - 1 + 1 ELSE 0
        /\ \A i \in 1..(d - 1 + 1) : SubSeq(envs, 1, d)[i] = envs[1 + i - 1]
    BY <2>2, <2>3, SubSeqProperties
  <2>5. \A i \in 1..d : i \in 1..(d - 1 + 1) /\ 1 + i - 1 = i
    BY <2>1
  <2>6. \A i \in 1..d : envs'[i] = envs[i]
    BY <1>2, <2>2, <2>4, <2>5
  <2>7. Len(envs') = d
    BY <1>2, <2>1, <2>2, <2>4
  <2> QED
    BY <1>2, <1>3, <2>1, <2>2, <2>4, <2>6, <2>7 DEF Grows
<1>6. Returns(Top, current, arenaStack, current', arenaStack')
  <2>1. CASE Top.kind \in {"loop", "call"}
    BY <2>1 DEF Leave, Returns
  <2>2. CASE Top.kind = "performant"
    BY <2>2 DEF Leave, Returns
  <2>3. CASE Top.kind \notin Opening
    BY <2>3 DEF Leave, Returns, Opening
  <2> QED
    BY <2>1, <2>2, <2>3 DEF Opening
<1>7. /\ Scopes(envs', nextArena', current', arenaStack')
      /\ Owns(envs, Len(envs)) = Owns(envs', Len(envs')) \cup {Top.own}
  <2>1. PICK fs \in Seq(Env) : fs = envs'
    BY <1>5
  <2>2. Grows(fs, Top, envs)
    BY <1>5, <2>1
  <2>3. /\ Scopes(fs, nextArena, current', arenaStack')
        /\ Owns(envs, Len(envs)) = Owns(fs, Len(fs)) \cup {Top.own}
    BY <1>1, <1>3, <1>6, <2>2, LeaveScope
  <2> QED
    BY <1>2, <2>1, <2>3
<1>8. Within(heap, Owns(envs', Len(envs')))
  <2>1. Within(heap, Owns(envs, Len(envs)))
    BY <1>1, <1>3 DEF Settled
  <2>2. CASE Top.own = None
    <3>1. Owns(envs, Len(envs)) = Owns(envs', Len(envs'))
      BY <1>7, <2>2 DEF Owns
    <3> QED
      BY <2>1, <3>1
  <2>3. CASE Ended
    BY <1>7, <2>1, <2>3 DEF Ended, Within
  <2> QED
    BY <1>1, <1>2, <2>2, <2>3, Phases
<1>9. /\ \E A : A \subseteq Owns(envs', Len(envs')) /\ Placed(heap, heap', A)
      /\ Idle'
  <2>1. CASE Top.kind = "call"
    <3>1. LetPromoted(heap, next, envs[Depth - 1], Top.dest, ret.val)
      BY <2>1 DEF Leave
    <3>2. Depth - 1 \in 1..Len(envs) /\ Len(envs') \in 0..Len(envs')
      BY <1>2, <1>3, <1>5
    <3>3. envs[Depth - 1] \in Env /\ Top.dest \in Vars
      <4>1. \A i \in 1..Depth : envs[i] \in Env
        BY <1>1, TopOK
      <4> QED
        BY <1>3, <3>2, <4>1 DEF Env
    <3>4. envs[Depth - 1].arena \in Owns(envs, Len(envs'))
      BY <1>1, <1>5, <3>2 DEF Scopes
    <3>5. envs[Depth - 1].arena \in Owns(envs', Len(envs'))
      <4>1. PICK fs \in Seq(Env) : fs = envs'
        BY <1>5
      <4>2. \A m \in 0..Len(fs) : Owns(envs, m) = Owns(fs, m)
        BY <1>5, <4>1, GrowsOwns
      <4> QED
        BY <3>2, <3>4, <4>1, <4>2
    <3>6. Placed(heap, heap', {envs[Depth - 1].arena}) /\ Idle'
      BY <1>1, <1>4, <3>1, <3>3, LetPromotedPlaced
    <3> QED
      BY <3>5, <3>6
  <2>2. CASE Top.kind # "call"
    <3>1. work' = Tail(work) /\ heap' = heap
      BY <2>2 DEF Leave
    <3>2. Len(work) = 1
      BY <1>1, <1>2, Phases DEF Dropping, Closing, Ended
    <3>3. Len(work') = 0
      BY <1>1, <1>2, <3>1, <3>2, HeadAndTail
    <3>4. Idle'
      BY <1>4, <3>3 DEF Idle
    <3>5. Placed(heap, heap', {}) /\ {} \subseteq Owns(envs', Len(envs'))
      BY <3>1, HeapStays
    <3> QED
      BY <3>4, <3>5
  <2> QED
    BY <2>1, <2>2
<1>10. Within(heap', Owns(envs', Len(envs')))
  BY <1>8, <1>9, PlacedWithin
<1>11. Settled'
  BY <1>1, <1>2, <1>7, <1>10 DEF Settled, Depth
<1> QED
  BY <1>9, <1>11 DEF Drained

-----------------------------------------------------------------------------
(* The theorem.                                                            *)

LEMMA InitDrained == Init => Drained
<1> SUFFICES ASSUME Init PROVE Drained
  OBVIOUS
<1> DEFINE e == NewEnv("root", None)
<1>1. /\ heap = << >> /\ finalizers = {} /\ envs = <<e>> /\ nextArena = 1 /\ current = None
      /\ arenaStack = << >> /\ doomed = {} /\ work = << >>
  BY DEF Init
<1>2. e.arena = None /\ e.own = None /\ e.saved = None /\ e.kind = "root"
  BY DEF NewEnv
<1> HIDE DEF e
<1>3. Len(envs) = 1 /\ envs[1] = e /\ Len(arenaStack) = 0 /\ Len(work) = 0
  BY <1>1
<1>4. \A m : None \in Owns(envs, m)
  BY DEF Owns
<1>5. None < nextArena
  BY <1>1 DEF None
<1>6. \A i \in 1..Len(envs) :
        /\ envs[i].arena \in Owns(envs, i) /\ envs[i].saved \in Owns(envs, i - 1)
        /\ envs[i].own < nextArena /\ (envs[i].own # None <=> envs[i].kind \in Opening)
  BY <1>2, <1>3, <1>4, <1>5 DEF Opening
<1>7. Scopes(envs, nextArena, current, arenaStack)
  BY <1>1, <1>2, <1>3, <1>4, <1>6 DEF Scopes
<1>8. Within(heap, Owns(envs, Depth))
  BY <1>1 DEF Within
<1>9. Idle
  BY <1>1, <1>3 DEF Idle
<1> QED
  BY <1>1, <1>7, <1>8, <1>9 DEF Drained, Settled

LEMMA StatementDrained ==
  ASSUME NoFinalizers, IInv, Drained, Statement
  PROVE  Drained'
<1>1. ASSUME NEW x \in Vars, NEW kid \in Visible \cup {None}, LetNew(x, kid) PROVE Drained'
  <2>1. kid \in Nat
    BY VisibleOK DEF IInv, None
  <2> QED
    BY <1>1, <2>1, LetNewDrained
<1>2. ASSUME NEW x \in Vars, NEW id \in Visible, LetAlias(x, id) PROVE Drained'
  <2>1. id \in Nat
    BY VisibleOK DEF IInv
  <2> QED
    BY <1>2, <2>1, LetAliasDrained
<1>3. ASSUME NEW id \in Visible, WeakNew(id) \/ OnFinalize(id) \/ Return(id) PROVE Drained'
  <2>1. CASE WeakNew(id)
    BY <2>1, WeakNewDrained
  <2>2. CASE OnFinalize(id)
    BY <2>2 DEF OnFinalize, NoFinalizers
  <2>3. CASE Return(id)
    BY <2>3, DrainedSame DEF Return
  <2> QED
    BY <1>3, <2>1, <2>2, <2>3
<1>4. ASSUME EnterBlock \/ EnterLoop \/ EnterPerformant PROVE Drained'
  BY <1>4, EnterBlockDrained, EnterLoopDrained, EnterPerformantDrained
<1>5. ASSUME NEW x \in Vars, NEW param \in Vars, NEW id \in Visible \cup {None}, EnterCall(x, param, id)
      PROVE  Drained'
  <2>1. id \in Nat
    BY VisibleOK DEF IInv, None
  <2> QED
    BY <1>5, <2>1, EnterCallDrained
<1>6. ASSUME NEW x \in Vars, NEW id \in Visible, EnterFor(x, id) PROVE Drained'
  <2>1. id \in Nat
    BY VisibleOK DEF IInv
  <2> QED
    BY <1>6, <2>1, EnterForDrained
<1> QED
  BY <1>1, <1>2, <1>3, <1>4, <1>5, <1>6 DEF Statement

LEMMA NextDrained ==
  ASSUME NoFinalizers, IInv, Drained, [Next]_vars
  PROVE  Drained'
<1>1. CASE Statement
  BY <1>1, StatementDrained
<1>2. CASE Exit \/ Unwind
  BY <1>2, ExitDrained, UnwindDrained
<1>3. CASE Drop \/ Bind \/ Arena \/ Purge \/ Leave
  BY <1>3, DropDrained, BindDrained, ArenaDrains, PurgeDrained, LeaveDrained
<1>4. CASE \E id \in doomed : Kill(id)
  BY <1>4, KillDrained
<1>5. CASE UNCHANGED vars
  BY <1>5, DrainedSame DEF vars
<1> QED
  BY <1>1, <1>2, <1>3, <1>4, <1>5 DEF Next

\* In a program that registers no finalizer, what lives is of an arena that a
\* scope still holds open: finalize_arena leaves nothing of its arena alive,
\* however the objects were counted, promoted and returned before.
THEOREM ArenasEnd == NoFinalizers => (Spec => []ArenaDrained)
<1> SUFFICES ASSUME NoFinalizers PROVE Spec => []ArenaDrained
  OBVIOUS
<1>1. Init => Drained
  BY InitDrained
<1>2. IInv /\ Drained /\ [Next]_vars => Drained'
  BY NextDrained
<1>3. Drained => ArenaDrained
  BY DEF Drained, Settled, Within, Owns, ArenaDrained, OpenArenas
<1> QED
  BY <1>1, <1>2, <1>3, InductiveInvariant, PTL DEF Spec
=============================================================================
