---------------------------- MODULE TopoSortProofs ----------------------------
(***************************************************************************)
(* dag_topo_sort gives every name once, after all it depends on, or says   *)
(* that there is no such order: proved for every call.                     *)
(***************************************************************************)
EXTENDS TopoSort, ListLemmas

-----------------------------------------------------------------------------
(* The graph.                                                              *)

\* A graph over the names in D.
GraphOn(D) == [indeg : [D -> Nat], adj : [D -> Seq(Int)]]

FiniteSubsets == {D \in SUBSET Int : IsFiniteSet(D)}

Graphs == UNION {GraphOn(D) : D \in FiniteSubsets}

LEMMA NoGraphTyped == NoGraph \in GraphOn({})
<1>1. <<>> \in [{} -> Nat] /\ <<>> \in [{} -> Seq(Int)]
  OBVIOUS
<1> QED BY <1>1 DEF NoGraph, GraphOn

\* k is f with v at n unless there was something.
Inserted(k, f, D, S, n, v) ==
  /\ k \in [D \cup {n} -> S]
  /\ \A m \in D \cup {n} : k[m] = IF m \in D THEN f[m] ELSE v

LEMMA OrInsertProperties ==
  ASSUME NEW D, NEW S, NEW f \in [D -> S], NEW n, NEW v \in S
  PROVE  Inserted(OrInsert(f, n, v), f, D, S, n, v)
<1>1. CASE n \in D
  BY <1>1 DEF OrInsert, Inserted
<1>2. CASE n \notin D
  BY <1>2 DEF OrInsert, Inserted
<1> QED BY <1>1, <1>2

\* What g counts and lists for a name, and for one it has not met.
Count(g, D, m) == IF m \in D THEN g.indeg[m] ELSE 0
Children(g, D, m) == IF m \in D THEN g.adj[m] ELSE <<>>

NameAdded(h, g, D, n) ==
  /\ h \in GraphOn(D \cup {n})
  /\ \A m \in D \cup {n} : h.indeg[m] = Count(g, D, m) /\ h.adj[m] = Children(g, D, m)

LEMMA AddNameProperties ==
  ASSUME NEW D, NEW g \in GraphOn(D), NEW n
  PROVE  NameAdded(AddName(g, n), g, D, n)
<1>1. g.indeg \in [D -> Nat] /\ g.adj \in [D -> Seq(Int)] /\ 0 \in Nat /\ <<>> \in Seq(Int)
  BY DEF GraphOn
<1>2. /\ Inserted(OrInsert(g.indeg, n, 0), g.indeg, D, Nat, n, 0)
      /\ Inserted(OrInsert(g.adj, n, <<>>), g.adj, D, Seq(Int), n, <<>>)
  BY <1>1, OrInsertProperties
<1> QED BY <1>2 DEF Inserted, AddName, GraphOn, NameAdded, Count, Children

DependencyAdded(h, g, D, n, on) ==
  LET E == D \cup {n, on}
  IN  /\ h \in GraphOn(E)
      /\ \A m \in E : h.indeg[m] = IF m = n THEN Count(g, D, m) + 1 ELSE Count(g, D, m)
      /\ \A m \in E : h.adj[m] = IF m = on THEN Append(Children(g, D, m), n) ELSE Children(g, D, m)

LEMMA AddDependencyProperties ==
  ASSUME NEW D, NEW g \in GraphOn(D), NEW n \in Int, NEW on \in Int
  PROVE  DependencyAdded(AddDependency(g, n, on), g, D, n, on)
<1> DEFINE a == AddName(g, n)
           b == AddName(a, on)
           E == D \cup {n, on}
<1>1. NameAdded(a, g, D, n)
  BY AddNameProperties
<1>2. NameAdded(b, a, D \cup {n}, on)
  <2> HIDE DEF a
  <2>1. a \in GraphOn(D \cup {n})
    BY <1>1 DEF NameAdded
  <2> QED BY <2>1, AddNameProperties
<1>3. (D \cup {n}) \cup {on} = E
  OBVIOUS
<1>4. AddDependency(g, n, on) = [indeg |-> [b.indeg EXCEPT ![n] = @ + 1], adj |-> [b.adj EXCEPT ![on] = Append(@, n)]]
  BY DEF AddDependency
<1> HIDE DEF a, b
<1>5. \A m \in E : b.indeg[m] = Count(g, D, m) /\ b.adj[m] = Children(g, D, m)
  BY <1>1, <1>2, <1>3 DEF NameAdded, Count, Children
<1>6. b.indeg \in [E -> Nat] /\ b.adj \in [E -> Seq(Int)]
  BY <1>2, <1>3 DEF GraphOn, NameAdded
<1>7. n \in E /\ on \in E
  OBVIOUS
<1> HIDE DEF E
<1>8. /\ [b.indeg EXCEPT ![n] = @ + 1] \in [E -> Nat]
      /\ \A m \in E : [b.indeg EXCEPT ![n] = @ + 1][m] = IF m = n THEN b.indeg[m] + 1 ELSE b.indeg[m]
  BY <1>6, <1>7
<1>9. /\ [b.adj EXCEPT ![on] = Append(@, n)] \in [E -> Seq(Int)]
      /\ \A m \in E : [b.adj EXCEPT ![on] = Append(@, n)][m] = IF m = on THEN Append(b.adj[m], n) ELSE b.adj[m]
  <2>1. b.adj[on] \in Seq(Int)
    BY <1>6, <1>7
  <2>2. Append(b.adj[on], n) \in Seq(Int)
    BY <2>1
  <2> QED BY <1>6, <1>7, <2>2
<1>10. AddDependency(g, n, on) \in GraphOn(E)
  BY <1>4, <1>8, <1>9 DEF GraphOn
<1> QED BY <1>4, <1>5, <1>8, <1>9, <1>10 DEF DependencyAdded, E

\* The names entered one after the other.
NameSteps(g, s, p) == g[0] = NoGraph /\ \A k \in 1 .. p : g[k] = AddName(g[k - 1], s[k].s)

LEMMA NamesFold ==
  ASSUME NEW p \in Nat, NEW s, DOMAIN s = 1 .. p, \A k \in 1 .. p : s[k].s \in Int
  PROVE  \E g : NameSteps(g, s, p) /\ AddNames(NoGraph, s) = g[p]
<1> DEFINE D == 1 .. p
           Step(f, T) == IF T = {} THEN NoGraph ELSE AddName(f[T \ {Max(T)}], s[Max(T)].s)
           fold == CHOOSE f : f = [T \in SUBSET D |-> Step(f, T)]
           F == [x \in Graphs \X D |-> AddName(x[1], s[x[2]].s)]
<1>1. AddNames(NoGraph, s) = fold[D]
  BY DEF AddNames, FoldLeft, MapThenFoldSet
<1>2. NoGraph \in Graphs
  <2>1. {} \in FiniteSubsets
    BY FS_EmptySet DEF FiniteSubsets
  <2> QED BY <2>1, NoGraphTyped DEF Graphs
<1>3. F \in [Graphs \X D -> Graphs]
  <2> SUFFICES ASSUME NEW g \in Graphs, NEW k \in D PROVE AddName(g, s[k].s) \in Graphs
    OBVIOUS
  <2>1. PICK E \in FiniteSubsets : g \in GraphOn(E)
    BY DEF Graphs
  <2>2. AddName(g, s[k].s) \in GraphOn(E \cup {s[k].s})
    BY <2>1, AddNameProperties DEF NameAdded
  <2>3. E \cup {s[k].s} \in FiniteSubsets
    BY FS_AddElement DEF FiniteSubsets
  <2> QED BY <2>2, <2>3 DEF Graphs
<1>4. PICK h : Folded(h, Graphs, NoGraph, F, p)
  <2> HIDE DEF F
  <2> QED BY <1>2, <1>3, FoldExists
<1>5. ASSUME NEW T \in SUBSET D PROVE h[T] = Step(h, T)
  <2>1. CASE T = {}
    BY <1>4, <2>1 DEF Folded
  <2>2. CASE T # {}
    <3>1. Max(T) \in D /\ T \ {Max(T)} \in SUBSET D
      BY <2>2, MaxIn
    <3>2. h[T \ {Max(T)}] \in Graphs
      BY <1>4, <3>1 DEF Folded
    <3>3. F[<<h[T \ {Max(T)}], Max(T)>>] = AddName(h[T \ {Max(T)}], s[Max(T)].s)
      BY <3>1, <3>2
    <3>4. h[T] = F[<<h[T \ {Max(T)}], Max(T)>>]
      <4> HIDE DEF F
      <4> QED BY <1>4, <2>2 DEF Folded
    <3> QED BY <2>2, <3>3, <3>4
  <2> QED BY <2>1, <2>2
<1>6. h = [T \in SUBSET D |-> Step(h, T)]
  <2> HIDE DEF Step, F
  <2>1. h = [T \in SUBSET D |-> h[T]]
    BY <1>4 DEF Folded
  <2> QED BY <1>5, <2>1
<1>7. fold = [T \in SUBSET D |-> Step(fold, T)]
  <2> HIDE DEF Step
  <2> QED BY <1>6
<1> HIDE DEF fold, F
<1> DEFINE g == [k \in 0 .. p |-> fold[1 .. k]]
<1>8. \A T \in SUBSET D : fold[T] = Step(fold, T)
  <2> HIDE DEF Step
  <2> QED BY <1>7
<1>9. g[0] = NoGraph /\ g[p] = fold[D]
  <2>1. 1 .. 0 = {} /\ 0 \in 0 .. p /\ p \in 0 .. p
    OBVIOUS
  <2> QED BY <1>8, <2>1
<1>10. ASSUME NEW k \in 1 .. p PROVE g[k] = AddName(g[k - 1], s[k].s)
  <2>1. Max(1 .. k) = k /\ (1 .. k) \ {k} = 1 .. (k - 1)
    BY PrefixMax
  <2>2. 1 .. k \in SUBSET D /\ k \in 1 .. k /\ k \in 0 .. p /\ k - 1 \in 0 .. p
    OBVIOUS
  <2> QED BY <1>8, <2>1, <2>2
<1> HIDE DEF g
<1> QED BY <1>1, <1>9, <1>10 DEF NameSteps

LEMMA TwoMore ==
  ASSUME NEW D \in FiniteSubsets, NEW m \in Int, NEW n \in Int
  PROVE  D \cup {m, n} \in FiniteSubsets
<1>1. IsFiniteSet((D \cup {m}) \cup {n})
  BY FS_AddElement DEF FiniteSubsets
<1>2. (D \cup {m}) \cup {n} = D \cup {m, n}
  OBVIOUS
<1> QED BY <1>1, <1>2 DEF FiniteSubsets

\* The dependencies entered one after the other.
Dependent(d) == Unboxed(d).vs[1].s
DependsOn(d) == Unboxed(d).vs[2].s

DependencySteps(g, b, s, p) ==
  g[0] = b /\ \A k \in 1 .. p : g[k] = AddDependency(g[k - 1], Dependent(s[k]), DependsOn(s[k]))

LEMMA DependenciesFold ==
  ASSUME NEW p \in Nat, NEW s, DOMAIN s = 1 .. p, NEW b \in Graphs,
         \A k \in 1 .. p : Dependent(s[k]) \in Int /\ DependsOn(s[k]) \in Int
  PROVE  \E g : DependencySteps(g, b, s, p) /\ AddDependencies(b, s) = g[p]
<1> DEFINE D == 1 .. p
           Step(f, T) == IF T = {} THEN b ELSE AddDependency(f[T \ {Max(T)}], Dependent(s[Max(T)]), DependsOn(s[Max(T)]))
           fold == CHOOSE f : f = [T \in SUBSET D |-> Step(f, T)]
           F == [x \in Graphs \X D |-> AddDependency(x[1], Dependent(s[x[2]]), DependsOn(s[x[2]]))]
<1>1. AddDependencies(b, s) = fold[D]
  BY DEF AddDependencies, FoldLeft, MapThenFoldSet, Dependent, DependsOn
<1>2. F \in [Graphs \X D -> Graphs]
  <2> SUFFICES ASSUME NEW g \in Graphs, NEW k \in D PROVE AddDependency(g, Dependent(s[k]), DependsOn(s[k])) \in Graphs
    OBVIOUS
  <2>1. PICK E \in FiniteSubsets : g \in GraphOn(E)
    BY DEF Graphs
  <2>2. AddDependency(g, Dependent(s[k]), DependsOn(s[k])) \in GraphOn(E \cup {Dependent(s[k]), DependsOn(s[k])})
    BY <2>1, AddDependencyProperties DEF DependencyAdded
  <2>3. E \cup {Dependent(s[k]), DependsOn(s[k])} \in FiniteSubsets
    BY TwoMore
  <2> QED BY <2>2, <2>3 DEF Graphs
<1>4. PICK h : Folded(h, Graphs, b, F, p)
  <2> HIDE DEF F
  <2> QED BY <1>2, FoldExists
<1>5. ASSUME NEW T \in SUBSET D PROVE h[T] = Step(h, T)
  <2>1. CASE T = {}
    BY <1>4, <2>1 DEF Folded
  <2>2. CASE T # {}
    <3>1. Max(T) \in D /\ T \ {Max(T)} \in SUBSET D
      BY <2>2, MaxIn
    <3>2. h[T \ {Max(T)}] \in Graphs
      BY <1>4, <3>1 DEF Folded
    <3>3. F[<<h[T \ {Max(T)}], Max(T)>>] = AddDependency(h[T \ {Max(T)}], Dependent(s[Max(T)]), DependsOn(s[Max(T)]))
      BY <3>1, <3>2
    <3>4. h[T] = F[<<h[T \ {Max(T)}], Max(T)>>]
      <4> HIDE DEF F
      <4> QED BY <1>4, <2>2 DEF Folded
    <3> QED BY <2>2, <3>3, <3>4
  <2> QED BY <2>1, <2>2
<1>6. h = [T \in SUBSET D |-> Step(h, T)]
  <2> HIDE DEF Step, F
  <2>1. h = [T \in SUBSET D |-> h[T]]
    BY <1>4 DEF Folded
  <2> QED BY <1>5, <2>1
<1>7. fold = [T \in SUBSET D |-> Step(fold, T)]
  <2> HIDE DEF Step
  <2> QED BY <1>6
<1> HIDE DEF fold, F
<1> DEFINE g == [k \in 0 .. p |-> fold[1 .. k]]
<1>8. \A T \in SUBSET D : fold[T] = Step(fold, T)
  <2> HIDE DEF Step
  <2> QED BY <1>7
<1>9. g[0] = b /\ g[p] = fold[D]
  <2>1. 1 .. 0 = {} /\ 0 \in 0 .. p /\ p \in 0 .. p
    OBVIOUS
  <2> QED BY <1>8, <2>1
<1>10. ASSUME NEW k \in 1 .. p PROVE g[k] = AddDependency(g[k - 1], Dependent(s[k]), DependsOn(s[k]))
  <2>1. Max(1 .. k) = k /\ (1 .. k) \ {k} = 1 .. (k - 1)
    BY PrefixMax
  <2>2. 1 .. k \in SUBSET D /\ k \in 1 .. k /\ k \in 0 .. p /\ k - 1 \in 0 .. p
    OBVIOUS
  <2> QED BY <1>8, <2>1, <2>2
<1> HIDE DEF g
<1> QED BY <1>1, <1>9, <1>10 DEF DependencySteps

-----------------------------------------------------------------------------
(* What is collected: a name's in-degree is the number of its dependencies *)
(* and it is listed under what it depends on once for each of them.        *)

\* How often m stands in a sequence.
Occurs(q, m) == Cardinality({j \in 1 .. Len(q) : q[j] = m})

LEMMA OccursProperties ==
  ASSUME NEW S, NEW q \in Seq(S), NEW n \in S, NEW m
  PROVE  /\ Occurs(q, m) \in Nat
         /\ Occurs(<<>>, m) = 0
         /\ Occurs(Append(q, n), m) = Occurs(q, m) + (IF m = n THEN 1 ELSE 0)
<1> DEFINE X == {j \in 1 .. (Len(q) + 1) : Append(q, n)[j] = m}
<1>1. /\ Len(q) \in Nat /\ Len(Append(q, n)) = Len(q) + 1
      /\ \A j \in 1 .. Len(q) : Append(q, n)[j] = q[j]
      /\ Append(q, n)[Len(q) + 1] = n
  OBVIOUS
<1>2. /\ {j \in 1 .. Len(q) : q[j] = m} = (1 .. Len(q)) \cap X
      /\ {j \in 1 .. Len(Append(q, n)) : Append(q, n)[j] = m} = (1 .. (Len(q) + 1)) \cap X
      /\ Len(q) + 1 \in X <=> m = n
  BY <1>1
<1>3. {j \in 1 .. Len(<<>>) : <<>>[j] = m} = {}
  OBVIOUS
<1> HIDE DEF X
<1>4. /\ Occurs(q, m) = Cardinality((1 .. Len(q)) \cap X)
      /\ Occurs(Append(q, n), m) = Cardinality((1 .. (Len(q) + 1)) \cap X)
      /\ Occurs(<<>>, m) = 0
  BY <1>2, <1>3, FS_EmptySet DEF Occurs
<1>5. /\ Cardinality((1 .. Len(q)) \cap X) \in Nat
      /\ Cardinality((1 .. (Len(q) + 1)) \cap X) =
           Cardinality((1 .. Len(q)) \cap X) + (IF Len(q) + 1 \in X THEN 1 ELSE 0)
  BY <1>1, CountOneMore
<1> QED BY <1>2, <1>4, <1>5

\* An element occurs, and what occurs is an element.
LEMMA OccursPositive ==
  ASSUME NEW S, NEW q \in Seq(S), NEW m
  PROVE  Occurs(q, m) # 0 <=> \E j \in 1 .. Len(q) : q[j] = m
<1> DEFINE X == {j \in 1 .. Len(q) : q[j] = m}
<1>1. IsFiniteSet(X)
  <2>1. IsFiniteSet(1 .. Len(q))
    BY FS_Interval
  <2> QED BY <2>1, FS_Subset
<1>2. Cardinality(X) = 0 <=> X = {}
  BY <1>1, FS_EmptySet
<1> QED BY <1>2 DEF Occurs

\* The dependencies of m, and those on another name.
Of(s, m)     == {i \in DOMAIN s : Dependent(s[i]) = m}
OnName(s, m) == {i \in DOMAIN s : DependsOn(s[i]) = m}

\* What the graph holds after k dependencies.
Holds(g, D, s, k) ==
  /\ g \in GraphOn(D) /\ D \in FiniteSubsets
  /\ \A m \in D : g.indeg[m] = Cardinality((1 .. k) \cap Of(s, m))
  /\ \A on \in D, m \in Int : Occurs(g.adj[on], m) = Cardinality((1 .. k) \cap (Of(s, m) \cap OnName(s, on)))

LEMMA HoldsNames ==
  ASSUME NEW p \in Nat, NEW s, DOMAIN s = 1 .. p, \A k \in 1 .. p : s[k].s \in Int, NEW deps
  PROVE  Holds(AddNames(NoGraph, s), {s[k].s : k \in 1 .. p}, deps, 0)
<1>1. PICK g : NameSteps(g, s, p) /\ AddNames(NoGraph, s) = g[p]
  BY NamesFold
<1> DEFINE D(k) == {s[j].s : j \in 1 .. k}
           Empty(h, E) == /\ h \in GraphOn(E) /\ E \in FiniteSubsets
                          /\ \A m \in E : h.indeg[m] = 0 /\ h.adj[m] = <<>>
           S == {k \in 0 .. p : Empty(g[k], D(k))}
<1>2. 0 \in S
  <2>1. D(0) = {} /\ {} \in FiniteSubsets
    BY FS_EmptySet DEF FiniteSubsets
  <2>2. g[0] = NoGraph
    BY <1>1 DEF NameSteps
  <2>3. Empty(NoGraph, {})
    BY <2>1, NoGraphTyped
  <2>4. 0 \in 0 .. p
    OBVIOUS
  <2> HIDE DEF D, Empty
  <2> QED BY <2>1, <2>2, <2>3, <2>4
<1>3. ASSUME NEW k \in 0 .. p, k < p, k \in S PROVE k + 1 \in S
  <2> DEFINE n == s[k + 1].s
             h == g[k + 1]
  <2>1. k + 1 \in 1 .. p /\ k + 1 \in 0 .. p /\ n \in Int /\ (k + 1) - 1 = k
    BY <1>3
  <2>2. h = AddName(g[k], n)
    BY <1>1, <2>1 DEF NameSteps
  <2>3. D(k + 1) = D(k) \cup {n}
    BY <1>3
  <2>4. Empty(g[k], D(k))
    BY <1>3
  <2> HIDE DEF D, n, h
  <2>5. NameAdded(h, g[k], D(k), n)
    BY <2>2, <2>4, AddNameProperties
  <2>6. D(k) \cup {n} \in FiniteSubsets
    BY <2>1, <2>4, FS_AddElement DEF FiniteSubsets
  <2>7. Empty(h, D(k) \cup {n})
    BY <2>4, <2>5, <2>6 DEF NameAdded, Count, Children
  <2> QED BY <2>1, <2>3, <2>7 DEF h
<1>4. p \in 0 .. p
  OBVIOUS
<1>5. p \in S
  <2> HIDE DEF S
  <2> QED BY <1>2, <1>3, <1>4, UpTo
<1>6. Empty(g[p], D(p))
  BY <1>5
<1> HIDE DEF D
<1>7. ASSUME NEW X PROVE Cardinality((1 .. 0) \cap X) = 0
  BY FS_EmptySet
<1>8. \A m : Occurs(<<>>, m) = 0
  <2>1. <<>> \in Seq({0})
    OBVIOUS
  <2> QED BY <2>1, OccursProperties
<1>9. Holds(g[p], D(p), deps, 0)
  BY <1>6, <1>7, <1>8 DEF Holds
<1> QED BY <1>1, <1>9 DEF D

\* The names that are met after k dependencies.
Met(D, s, k) == D \cup {Dependent(s[i]) : i \in 1 .. k} \cup {DependsOn(s[i]) : i \in 1 .. k}

\* One dependency more.
LEMMA HoldsOneMore ==
  ASSUME NEW p \in Nat, NEW s, DOMAIN s = 1 .. p, NEW k \in 0 .. p, k < p,
         Dependent(s[k + 1]) \in Int, DependsOn(s[k + 1]) \in Int,
         NEW g, NEW D, Holds(g, D, s, k), \A i \in 1 .. k : Dependent(s[i]) \in D /\ DependsOn(s[i]) \in D
  PROVE  Holds(AddDependency(g, Dependent(s[k + 1]), DependsOn(s[k + 1])),
               D \cup {Dependent(s[k + 1]), DependsOn(s[k + 1])}, s, k + 1)
<1> DEFINE n == Dependent(s[k + 1])
           on == DependsOn(s[k + 1])
           h == AddDependency(g, n, on)
           E == D \cup {n, on}
           Upto(j, X) == Cardinality((1 .. j) \cap X)
<1>1. g \in GraphOn(D) /\ D \in FiniteSubsets /\ D \subseteq Int
  BY DEF Holds, FiniteSubsets
<1>2. k + 1 \in 1 .. p /\ k \in Nat
  OBVIOUS
<1>3. DependencyAdded(h, g, D, n, on) /\ E \in FiniteSubsets
  BY <1>1, AddDependencyProperties, TwoMore
<1>4. ASSUME NEW X PROVE Upto(k, X) \in Nat /\ Upto(k + 1, X) = Upto(k, X) + (IF k + 1 \in X THEN 1 ELSE 0)
  BY <1>2, CountOneMore
<1>5. \A m : (k + 1 \in Of(s, m) <=> m = n) /\ (k + 1 \in OnName(s, m) <=> m = on)
  BY <1>2 DEF Of, OnName
<1>6. \A m : m \notin D => (1 .. k) \cap Of(s, m) = {} /\ (1 .. k) \cap OnName(s, m) = {}
  BY DEF Of, OnName
<1>7. \A m \in E : Count(g, D, m) = Upto(k, Of(s, m))
  BY <1>6, FS_EmptySet DEF Holds, Count
<1>8. \A c \in E, m \in Int : Occurs(Children(g, D, c), m) = Upto(k, Of(s, m) \cap OnName(s, c))
  <2> TAKE c \in E, m \in Int
  <2>1. CASE c \in D
    BY <2>1 DEF Holds, Children
  <2>2. CASE c \notin D
    <3>1. (1 .. k) \cap (Of(s, m) \cap OnName(s, c)) = {}
      BY <1>6, <2>2
    <3>2. Occurs(<<>>, m) = 0
      <4>1. <<>> \in Seq({0})
        OBVIOUS
      <4> QED BY <4>1, OccursProperties
    <3> QED BY <2>2, <3>1, <3>2, FS_EmptySet DEF Children
  <2> QED BY <2>1, <2>2
<1>9. \A c \in E : Children(g, D, c) \in Seq(Int)
  BY <1>1 DEF Children, GraphOn
<1>10. n \in Int
  OBVIOUS
<1> HIDE DEF n, on, h, E, Upto
<1>11. h \in GraphOn(E)
  BY <1>3 DEF DependencyAdded, E
<1>12. \A m \in E : h.indeg[m] = Upto(k + 1, Of(s, m))
  <2> TAKE m \in E
  <2>1. h.indeg[m] = IF m = n THEN Count(g, D, m) + 1 ELSE Count(g, D, m)
    BY <1>3 DEF DependencyAdded, E
  <2>2. Upto(k + 1, Of(s, m)) = Upto(k, Of(s, m)) + (IF m = n THEN 1 ELSE 0) /\ Upto(k, Of(s, m)) \in Nat
    BY <1>4, <1>5
  <2> QED BY <2>1, <2>2, <1>7
<1>13. \A c \in E, m \in Int : Occurs(h.adj[c], m) = Upto(k + 1, Of(s, m) \cap OnName(s, c))
  <2> TAKE c \in E, m \in Int
  <2>1. h.adj[c] = IF c = on THEN Append(Children(g, D, c), n) ELSE Children(g, D, c)
    BY <1>3 DEF DependencyAdded, E
  <2>2. Occurs(Append(Children(g, D, c), n), m) = Occurs(Children(g, D, c), m) + (IF m = n THEN 1 ELSE 0)
    BY <1>9, <1>10, OccursProperties
  <2>3. /\ Upto(k, Of(s, m) \cap OnName(s, c)) \in Nat
        /\ Upto(k + 1, Of(s, m) \cap OnName(s, c)) =
             Upto(k, Of(s, m) \cap OnName(s, c)) + (IF k + 1 \in Of(s, m) \cap OnName(s, c) THEN 1 ELSE 0)
    BY <1>4
  <2>4. k + 1 \in Of(s, m) \cap OnName(s, c) <=> m = n /\ c = on
    BY <1>5
  <2>5. Occurs(Children(g, D, c), m) = Upto(k, Of(s, m) \cap OnName(s, c))
    BY <1>8
  <2> QED BY <2>1, <2>2, <2>3, <2>4, <2>5
<1>14. Holds(h, E, s, k + 1)
  BY <1>3, <1>11, <1>12, <1>13 DEF Holds, Upto
<1> QED BY <1>14 DEF h, E, n, on

LEMMA HoldsDependencies ==
  ASSUME NEW p \in Nat, NEW s, DOMAIN s = 1 .. p, NEW b, NEW D, Holds(b, D, s, 0),
         \A k \in 1 .. p : Dependent(s[k]) \in Int /\ DependsOn(s[k]) \in Int
  PROVE  Holds(AddDependencies(b, s), Met(D, s, p), s, p)
<1>1. b \in Graphs
  BY DEF Holds, Graphs
<1>2. PICK g : DependencySteps(g, b, s, p) /\ AddDependencies(b, s) = g[p]
  BY <1>1, DependenciesFold
<1> DEFINE S == {k \in 0 .. p : Holds(g[k], Met(D, s, k), s, k)}
<1>3. 0 \in S
  <2>1. Met(D, s, 0) = D
    BY DEF Met
  <2>2. g[0] = b /\ 0 \in 0 .. p
    BY <1>2 DEF DependencySteps
  <2> QED BY <2>1, <2>2
<1>4. ASSUME NEW k \in 0 .. p, k < p, k \in S PROVE k + 1 \in S
  <2>1. k + 1 \in 1 .. p /\ k + 1 \in 0 .. p /\ (k + 1) - 1 = k
    BY <1>4
  <2>2. g[k + 1] = AddDependency(g[k], Dependent(s[k + 1]), DependsOn(s[k + 1]))
    BY <1>2, <2>1 DEF DependencySteps
  <2>3. Met(D, s, k + 1) = Met(D, s, k) \cup {Dependent(s[k + 1]), DependsOn(s[k + 1])}
    BY <1>4 DEF Met
  <2>4. \A i \in 1 .. k : Dependent(s[i]) \in Met(D, s, k) /\ DependsOn(s[i]) \in Met(D, s, k)
    BY DEF Met
  <2>5. Holds(g[k], Met(D, s, k), s, k)
    BY <1>4
  <2>6. Holds(g[k + 1], Met(D, s, k + 1), s, k + 1)
    BY <1>4, <2>1, <2>2, <2>3, <2>4, <2>5, HoldsOneMore
  <2> QED BY <2>1, <2>6
<1>5. p \in 0 .. p
  OBVIOUS
<1>6. p \in S
  <2> HIDE DEF S
  <2> QED BY <1>3, <1>4, <1>5, UpTo
<1> QED BY <1>2, <1>6

-----------------------------------------------------------------------------
(* The children of a name that is out.                                     *)

Released(D) == [indeg : [D -> Nat], ready : SUBSET D]

LEMMA ReleaseTyped ==
  ASSUME NEW D, NEW a \in Released(D), NEW c \in D
  PROVE  LET d == a.indeg[c]
         IN  Release(a, c) = IF d = 0 THEN a
                             ELSE [indeg |-> [a.indeg EXCEPT ![c] = d - 1],
                                   ready |-> IF d = 1 THEN a.ready \cup {c} ELSE a.ready]
<1>1. a.indeg \in [D -> Nat] /\ a.indeg[c] \in Nat
  BY DEF Released
<1> QED BY <1>1 DEF Release

LEMMA ReleaseClosed ==
  ASSUME NEW D, NEW a \in Released(D), NEW c \in D
  PROVE  Release(a, c) \in Released(D)
<1>1. a.indeg \in [D -> Nat] /\ a.ready \in SUBSET D /\ a.indeg[c] \in Nat
  BY DEF Released
<1>2. CASE a.indeg[c] = 0
  BY <1>2, ReleaseTyped
<1>3. CASE a.indeg[c] # 0
  <2>1. a.indeg[c] - 1 \in Nat
    BY <1>1, <1>3
  <2>2. [a.indeg EXCEPT ![c] = a.indeg[c] - 1] \in [D -> Nat]
    BY <1>1, <2>1
  <2>3. (IF a.indeg[c] = 1 THEN a.ready \cup {c} ELSE a.ready) \in SUBSET D
    BY <1>1
  <2>4. Release(a, c) = [indeg |-> [a.indeg EXCEPT ![c] = a.indeg[c] - 1],
                         ready |-> IF a.indeg[c] = 1 THEN a.ready \cup {c} ELSE a.ready]
    BY <1>3, ReleaseTyped
  <2> QED BY <2>2, <2>3, <2>4 DEF Released
<1> QED BY <1>2, <1>3

\* The children released one after the other.
ReleaseSteps(g, b, s) == g[0] = b /\ \A k \in 1 .. Len(s) : g[k] = Release(g[k - 1], s[k])

LEMMA ReleaseFold ==
  ASSUME NEW D, NEW b \in Released(D), NEW s \in Seq(D)
  PROVE  \E g : ReleaseSteps(g, b, s) /\ ReleaseAll(b, s) = g[Len(s)]
<1> DEFINE p == Len(s)
           I == 1 .. p
           A == Released(D)
           Step(f, T) == IF T = {} THEN b ELSE Release(f[T \ {Max(T)}], s[Max(T)])
           fold == CHOOSE f : f = [T \in SUBSET I |-> Step(f, T)]
           F == [x \in A \X I |-> Release(x[1], s[x[2]])]
<1>0. p \in Nat /\ DOMAIN s = I
  OBVIOUS
<1>1. ReleaseAll(b, s) = fold[I]
  BY <1>0 DEF ReleaseAll, FoldLeft, MapThenFoldSet
<1>2. F \in [A \X I -> A]
  BY ReleaseClosed
<1>3. PICK h : Folded(h, A, b, F, p)
  <2> HIDE DEF F
  <2> QED BY <1>0, <1>2, FoldExists
<1>4. ASSUME NEW T \in SUBSET I PROVE h[T] = Step(h, T)
  <2>1. CASE T = {}
    BY <1>3, <2>1 DEF Folded
  <2>2. CASE T # {}
    <3>1. Max(T) \in I /\ T \ {Max(T)} \in SUBSET I
      BY <1>0, <2>2, MaxIn
    <3>2. h[T \ {Max(T)}] \in A
      BY <1>3, <3>1 DEF Folded
    <3>3. F[<<h[T \ {Max(T)}], Max(T)>>] = Release(h[T \ {Max(T)}], s[Max(T)])
      BY <3>1, <3>2
    <3>4. h[T] = F[<<h[T \ {Max(T)}], Max(T)>>]
      <4> HIDE DEF F
      <4> QED BY <1>3, <2>2 DEF Folded
    <3> QED BY <2>2, <3>3, <3>4
  <2> QED BY <2>1, <2>2
<1>5. h = [T \in SUBSET I |-> Step(h, T)]
  <2> HIDE DEF Step, F
  <2>1. h = [T \in SUBSET I |-> h[T]]
    BY <1>3 DEF Folded
  <2> QED BY <1>4, <2>1
<1>6. fold = [T \in SUBSET I |-> Step(fold, T)]
  <2> HIDE DEF Step
  <2> QED BY <1>5
<1> HIDE DEF fold, F
<1> DEFINE g == [k \in 0 .. p |-> fold[1 .. k]]
<1>7. \A T \in SUBSET I : fold[T] = Step(fold, T)
  <2> HIDE DEF Step
  <2> QED BY <1>6
<1>8. g[0] = b /\ g[p] = fold[I]
  <2>1. 1 .. 0 = {} /\ 0 \in 0 .. p /\ p \in 0 .. p
    BY <1>0
  <2> QED BY <1>7, <2>1
<1>9. ASSUME NEW k \in 1 .. p PROVE g[k] = Release(g[k - 1], s[k])
  <2>1. Max(1 .. k) = k /\ (1 .. k) \ {k} = 1 .. (k - 1)
    BY PrefixMax
  <2>2. 1 .. k \in SUBSET I /\ k \in 1 .. k /\ k \in 0 .. p /\ k - 1 \in 0 .. p
    BY <1>0
  <2> QED BY <1>7, <2>1, <2>2
<1> HIDE DEF g
<1> QED BY <1>1, <1>8, <1>9 DEF ReleaseSteps

\* ready are the names not yet out, in O, that wait for nothing.
ReadyRight(a, D, O) == a.ready = {m \in D \ O : a.indeg[m] = 0}

\* If no name is released more often than it waits, its degree falls by as
\* much, and the names whose degree falls to nothing become ready.
LEMMA ReleaseAllProperties ==
  ASSUME NEW D, NEW O, NEW b \in Released(D), ReadyRight(b, D, O), NEW s \in Seq(D),
         \A m \in D : Occurs(s, m) <= b.indeg[m],
         \A m \in D \cap O : b.indeg[m] = 0
  PROVE  LET left == ReleaseAll(b, s)
         IN  /\ left \in Released(D)
             /\ ReadyRight(left, D, O)
             /\ \A m \in D : left.indeg[m] = b.indeg[m] - Occurs(s, m)
<1>1. PICK g : ReleaseSteps(g, b, s) /\ ReleaseAll(b, s) = g[Len(s)]
  BY ReleaseFold
<1> DEFINE p == Len(s)
           At(m) == {j \in 1 .. p : s[j] = m}
           Upto(k, m) == Cardinality((1 .. k) \cap At(m))
           S == {k \in 0 .. p : /\ g[k] \in Released(D)
                                /\ ReadyRight(g[k], D, O)
                                /\ \A m \in D : g[k].indeg[m] = b.indeg[m] - Upto(k, m)}
<1>0. p \in Nat /\ b.indeg \in [D -> Nat] /\ \A j \in 1 .. p : s[j] \in D
  BY DEF Released
<1>2. \A k \in Nat, m \in D :
        Upto(k, m) \in Nat /\ Upto(k + 1, m) = Upto(k, m) + (IF k + 1 \in At(m) THEN 1 ELSE 0)
  <2> TAKE k \in Nat, m \in D
  <2> DEFINE X == At(m)
  <2> HIDE DEF X
  <2>1. /\ Cardinality((1 .. k) \cap X) \in Nat
        /\ Cardinality((1 .. (k + 1)) \cap X) = Cardinality((1 .. k) \cap X) + (IF k + 1 \in X THEN 1 ELSE 0)
    BY CountOneMore
  <2> QED BY <2>1 DEF X
<1>3. \A m \in D : Upto(p, m) = Occurs(s, m)
  <2> TAKE m \in D
  <2>1. (1 .. p) \cap At(m) = At(m)
    OBVIOUS
  <2> QED BY <2>1 DEF Occurs
<1>4. \A k \in 0 .. p, m \in D : k < p /\ s[k + 1] = m => Upto(k, m) < b.indeg[m]
  <2> SUFFICES ASSUME NEW k \in 0 .. p, NEW m \in D, k < p, s[k + 1] = m
               PROVE  Upto(k, m) < b.indeg[m]
    OBVIOUS
  <2>1. k \in Nat /\ k + 1 \in At(m)
    BY <1>0
  <2>2. Upto(k + 1, m) = Upto(k, m) + 1 /\ Upto(k, m) \in Nat
    BY <2>1, <1>2
  <2>3. Upto(k + 1, m) <= Upto(p, m)
    <3>1. (1 .. (k + 1)) \cap At(m) \in SUBSET At(m) /\ (1 .. p) \cap At(m) = At(m)
      OBVIOUS
    <3>2. IsFiniteSet(At(m))
      <4>1. IsFiniteSet(1 .. p)
        BY <1>0, FS_Interval
      <4> QED BY <4>1, FS_Subset
    <3> QED BY <3>1, <3>2, FS_Subset
  <2>4. Upto(p, m) \in Nat /\ b.indeg[m] \in Nat /\ Upto(p, m) <= b.indeg[m]
    BY <1>0, <1>2, <1>3
  <2> HIDE DEF Upto
  <2> QED BY <2>2, <2>3, <2>4
<1>5. 0 \in S
  <2>1. g[0] = b /\ 0 \in 0 .. p
    BY <1>0, <1>1 DEF ReleaseSteps
  <2>2. \A m \in D : Upto(0, m) = 0
    BY FS_EmptySet
  <2> HIDE DEF Upto
  <2> QED BY <1>0, <2>1, <2>2
<1>6. ASSUME NEW k \in 0 .. p, k < p, k \in S PROVE k + 1 \in S
  <2> DEFINE a == g[k]
             c == s[k + 1]
  <2>1. k + 1 \in 1 .. p /\ k + 1 \in 0 .. p /\ (k + 1) - 1 = k /\ k \in Nat
    BY <1>0, <1>6
  <2>2. c \in D /\ g[k + 1] = Release(a, c)
    BY <1>0, <1>1, <2>1 DEF ReleaseSteps
  <2>3. a \in Released(D) /\ ReadyRight(a, D, O) /\ \A m \in D : a.indeg[m] = b.indeg[m] - Upto(k, m)
    BY <1>6
  <2>4. \A m \in D : (k + 1 \in At(m) <=> m = c)
    BY <2>1
  <2>5. \A m \in D : Upto(k, m) \in Nat /\ Upto(k + 1, m) = Upto(k, m) + (IF m = c THEN 1 ELSE 0)
    BY <1>2, <2>1, <2>4
  <2>6. Upto(k, c) < b.indeg[c]
    BY <1>4, <1>6, <2>2
  <2> HIDE DEF a, c, Upto, At
  <2>7. a.indeg \in [D -> Nat] /\ a.ready \in SUBSET D
    BY <2>3 DEF Released
  <2>8. a.indeg[c] # 0 /\ a.indeg[c] \in Nat /\ c \notin O
    <3>1. b.indeg[c] \in Nat /\ b.indeg[c] # 0
      BY <1>0, <2>2, <2>5, <2>6
    <3>2. c \notin O
      BY <2>2, <3>1
    <3> QED BY <2>2, <2>3, <2>5, <2>6, <2>7, <3>1, <3>2
  <2>9. Release(a, c) = [indeg |-> [a.indeg EXCEPT ![c] = a.indeg[c] - 1],
                         ready |-> IF a.indeg[c] = 1 THEN a.ready \cup {c} ELSE a.ready]
    BY <2>2, <2>3, <2>8, ReleaseTyped
  <2>10. \A m \in D : Release(a, c).indeg[m] = IF m = c THEN a.indeg[m] - 1 ELSE a.indeg[m]
    BY <2>2, <2>7, <2>9
  <2>11. ReadyRight(Release(a, c), D, O)
    <3>1. a.ready = {m \in D \ O : a.indeg[m] = 0}
      BY <2>3 DEF ReadyRight
    <3>2. Release(a, c).ready = IF a.indeg[c] = 1 THEN a.ready \cup {c} ELSE a.ready
      BY <2>9
    <3>3. \A m \in D : (Release(a, c).indeg[m] = 0 <=> a.indeg[m] = 0 \/ (m = c /\ a.indeg[c] = 1))
      BY <2>2, <2>7, <2>8, <2>10
    <3> QED BY <2>2, <2>8, <3>1, <3>2, <3>3 DEF ReadyRight
  <2>12. \A m \in D : Release(a, c).indeg[m] = b.indeg[m] - Upto(k + 1, m)
    <3> TAKE m \in D
    <3>1. b.indeg[m] \in Nat /\ Upto(k, m) \in Nat
      BY <1>0, <2>5
    <3>2. a.indeg[m] = b.indeg[m] - Upto(k, m)
      BY <2>3
    <3>3. Upto(k + 1, m) = Upto(k, m) + (IF m = c THEN 1 ELSE 0)
      BY <2>5
    <3>4. Release(a, c).indeg[m] = IF m = c THEN a.indeg[m] - 1 ELSE a.indeg[m]
      BY <2>10
    <3> QED BY <3>1, <3>2, <3>3, <3>4
  <2>13. Release(a, c) \in Released(D)
    BY <2>2, <2>3, ReleaseClosed
  <2> QED BY <2>1, <2>2, <2>11, <2>12, <2>13
<1>7. p \in 0 .. p
  BY <1>0
<1>8. p \in S
  <2> HIDE DEF S
  <2> QED BY <1>0, <1>5, <1>6, <1>7, UpTo
<1> QED BY <1>1, <1>3, <1>8

-----------------------------------------------------------------------------
(* The arguments.                                                          *)

Names == Unboxed(call[1]).vs
Deps  == Unboxed(call[2]).vs

CallOK == \E c \in Calls : call = c.args /\ heap = c.heap

\* What a call with no complaint is made of.
ArgumentsOK ==
  /\ Names \in Seq(Range(Names)) /\ \A k \in 1 .. Len(Names) : Names[k].s \in Int
  /\ Deps \in Seq(Range(Deps))
  /\ \A k \in 1 .. Len(Deps) : Dependent(Deps[k]) \in Int /\ DependsOn(Deps[k]) \in Int

LEMMA ArgumentsTyped ==
  ASSUME CallOK, Complaint(call) = "none"
  PROVE  ArgumentsOK
<1> DEFINE I == {i \in 1 .. Len(Deps) : Malformed(Deps[i])}
<1>1. /\ Unboxed(call[1]).k = "Array" /\ Unboxed(call[2]).k = "Array"
      /\ \A i \in DOMAIN Names : Names[i].k = "String"
      /\ (IF I # {} THEN Min(I) ELSE 0) = 0
  BY DEF Complaint, SelectInSeq, Names, Deps
<1>2. PICK c \in Calls : call = c.args /\ heap = c.heap
  BY DEF CallOK
<1>3. /\ Composed(heap, call[1]) /\ Composed(heap, call[2])
      /\ \A x \in Range(Deps) : Composed(heap, x)
  <2>1. \A i \in 1 .. 2 : /\ Composed(heap, call[i])
                          /\ (Unbox(heap, call[i]).k = "Array" => \A x \in Range(Unbox(heap, call[i]).vs) : Composed(heap, x))
    BY <1>2, TopoAssumption
  <2>2. 1 \in 1 .. 2 /\ 2 \in 1 .. 2
    OBVIOUS
  <2>3. Unbox(heap, call[2]).k = "Array" /\ Deps = Unbox(heap, call[2]).vs
    BY <1>1 DEF Unboxed, Deps
  <2> QED BY <2>1, <2>2, <2>3
<1>4. /\ Names \in Seq(Range(Names)) /\ Deps \in Seq(Range(Deps))
      /\ \A x \in Range(Names) : x.k = "String" => x.s \in Int
  BY <1>1, <1>3 DEF Composed, Unboxed, Names, Deps
<1>5. \A k \in 1 .. Len(Names) : Names[k].s \in Int
  <2> TAKE k \in 1 .. Len(Names)
  <2>1. k \in DOMAIN Names /\ Names[k] \in Range(Names)
    BY <1>4, SeqPlaces
  <2> QED BY <1>1, <1>4, <2>1
<1>6. \A k \in 1 .. Len(Deps) : ~Malformed(Deps[k])
  <2> SUFFICES ASSUME I # {} PROVE FALSE
    OBVIOUS
  <2>1. Len(Deps) \in Nat
    BY <1>4, SeqPlaces
  <2>2. I \subseteq Nat
    BY <2>1
  <2>3. \E x \in I : \A y \in I : x <= y
    <3> HIDE DEF I
    <3> QED BY <2>2, NatMin
  <2>4. Min(I) \in I
    <3> HIDE DEF I
    <3> QED BY <2>3 DEF Min
  <2>5. 0 \notin I
    BY <2>1
  <2> HIDE DEF I
  <2> QED BY <1>1, <2>4, <2>5
<1>7. ASSUME NEW k \in 1 .. Len(Deps) PROVE Dependent(Deps[k]) \in Int /\ DependsOn(Deps[k]) \in Int
  <2> DEFINE u == Unboxed(Deps[k])
  <2>1. u.k = "Tuple" /\ Len(u.vs) = 2 /\ u.vs[1].k = "String" /\ u.vs[2].k = "String"
    <3>1. ~Malformed(Deps[k]) /\ 1 \in 1 .. 2 /\ 2 \in 1 .. 2
      BY <1>6
    <3> QED BY <3>1 DEF Malformed, IsPair
  <2>2. Composed(heap, Deps[k])
    <3>1. Deps[k] \in Range(Deps)
      BY <1>4, SeqPlaces
    <3> QED BY <1>3, <3>1
  <2>3. u.vs \in Seq(Range(u.vs)) /\ \A x \in Range(u.vs) : x.k = "String" => x.s \in Int
    BY <2>1, <2>2 DEF Composed, Unboxed
  <2> HIDE DEF u
  <2>4. u.vs[1] \in Range(u.vs) /\ u.vs[2] \in Range(u.vs)
    <3>1. 1 \in 1 .. Len(u.vs) /\ 2 \in 1 .. Len(u.vs)
      BY <2>1
    <3> QED BY <2>3, <3>1, SeqPlaces
  <2> QED BY <2>1, <2>3, <2>4 DEF Dependent, DependsOn, u
<1> QED BY <1>4, <1>5, <1>7 DEF ArgumentsOK

\* The pairs and the names, by the places of the arguments.
LEMMA GivenByPlaces ==
  ASSUME ArgumentsOK
  PROVE  /\ Pairs = {<<Dependent(Deps[i]), DependsOn(Deps[i])>> : i \in 1 .. Len(Deps)}
         /\ Given = Met({Names[k].s : k \in 1 .. Len(Names)}, Deps, Len(Deps))
<1>1. /\ DOMAIN Deps = 1 .. Len(Deps) /\ DOMAIN Names = 1 .. Len(Names)
  BY DEF ArgumentsOK
<1>2. Pairs = {<<Dependent(Deps[i]), DependsOn(Deps[i])>> : i \in 1 .. Len(Deps)}
  <2>1. Range(Deps) = {Deps[i] : i \in 1 .. Len(Deps)}
    BY <1>1 DEF Range
  <2> QED BY <2>1 DEF Pairs, Deps, Dependent, DependsOn
<1>3. UNION {{p[1], p[2]} : p \in Pairs}
      = {Dependent(Deps[i]) : i \in 1 .. Len(Deps)} \cup {DependsOn(Deps[i]) : i \in 1 .. Len(Deps)}
  <2>1. \A i \in 1 .. Len(Deps) : <<Dependent(Deps[i]), DependsOn(Deps[i])>> \in Pairs
    BY <1>2
  <2>2. \A q \in Pairs : \E i \in 1 .. Len(Deps) : q = <<Dependent(Deps[i]), DependsOn(Deps[i])>>
    BY <1>2
  <2>3. \A q \in Pairs : \E i \in 1 .. Len(Deps) : q[1] = Dependent(Deps[i]) /\ q[2] = DependsOn(Deps[i])
    BY <2>2
  <2>4. \A i \in 1 .. Len(Deps) : \E q \in Pairs : q[1] = Dependent(Deps[i]) /\ q[2] = DependsOn(Deps[i])
    BY <2>1
  <2> QED BY <2>3, <2>4
<1>4. {n.s : n \in Range(Names)} = {Names[k].s : k \in 1 .. Len(Names)}
  BY <1>1 DEF Range
<1> QED BY <1>2, <1>3, <1>4 DEF Given, Met, Names

LEMMA CollectedRight ==
  ASSUME ArgumentsOK
  PROVE  Holds(Collected(call), Given, Deps, Len(Deps))
<1> DEFINE B == {Names[k].s : k \in 1 .. Len(Names)}
<1>1. /\ DOMAIN Deps = 1 .. Len(Deps) /\ DOMAIN Names = 1 .. Len(Names)
      /\ Len(Names) \in Nat /\ Len(Deps) \in Nat
      /\ \A k \in 1 .. Len(Names) : Names[k].s \in Int
      /\ \A k \in 1 .. Len(Deps) : Dependent(Deps[k]) \in Int /\ DependsOn(Deps[k]) \in Int
  BY DEF ArgumentsOK
<1>2. Holds(AddNames(NoGraph, Names), B, Deps, 0)
  BY <1>1, HoldsNames
<1>3. Holds(AddDependencies(AddNames(NoGraph, Names), Deps), Met(B, Deps, Len(Deps)), Deps, Len(Deps))
  <2> HIDE DEF B
  <2> QED BY <1>1, <1>2, HoldsDependencies
<1>4. Collected(call) = AddDependencies(AddNames(NoGraph, Names), Deps)
  BY DEF Collected, Names, Deps
<1> QED BY <1>3, <1>4, GivenByPlaces

-----------------------------------------------------------------------------
(* The invariant.                                                          *)

\* The dependencies of m on names that are not in O.
Waits(m, O) == {i \in Of(Deps, m) : DependsOn(Deps[i]) \notin O}

\* The names in o are listed once, each after all it depends on.
OrderOK(o) ==
  /\ o \in Seq(Given)
  /\ \A i, j \in 1 .. Len(o) : o[i] = o[j] => i = j
  /\ \A i \in DOMAIN Deps, j \in 1 .. Len(o) :
       Dependent(Deps[i]) = o[j] => \E l \in 1 .. Len(o) : l < j /\ o[l] = DependsOn(Deps[i])

\* With the names in O out, the degree of a name is the number of its
\* dependencies that are not, and the others that wait for none are ready.
GraphOK(g, r, O) ==
  /\ Given \in FiniteSubsets /\ g \in GraphOn(Given)
  /\ \A m \in Given : g.indeg[m] = Cardinality(Waits(m, O))
  /\ \A on \in Given, m \in Int : Occurs(g.adj[on], m) = Cardinality(Of(Deps, m) \cap OnName(Deps, on))
  /\ r = {m \in Given \ O : g.indeg[m] = 0}

Untouched == graph = NoGraph /\ ready = {} /\ order = <<>> /\ result = Working
Sorting   == OrderOK(order) /\ GraphOK(graph, ready, Range(order))

SortInv ==
  /\ CallOK
  /\ Complaint(call) = "none" => Untouched \/ Sorting
  /\ OrderRight

LEMMA InitStep == TopoInit => SortInv
BY DEF TopoInit, SortInv, CallOK, Untouched, OrderRight

\* What the arguments say does not change.
LEMMA ArgumentsKept ==
  ASSUME call' = call, heap' = heap
  PROVE  /\ CallOK' = CallOK
         /\ Complaint(call)' = Complaint(call)
         /\ Given' = Given /\ Pairs' = Pairs /\ Knotted' = Knotted
         /\ OrderOK(order') /\ GraphOK(graph', ready', Range(order')) => Sorting'
<1>1. CallOK' = CallOK
  BY DEF CallOK
<1>2. Complaint(call)' = Complaint(call)
  BY DEF Complaint, SelectInSeq, Min, Malformed, IsPair, Unboxed
<1>3. Given' = Given /\ Pairs' = Pairs /\ Knotted' = Knotted
  BY DEF Pairs, Given, Knotted, Unboxed
<1>4. Deps' = Deps
  BY DEF Deps, Unboxed
<1>5. OrderOK(order') => OrderOK(order)'
  BY <1>3, <1>4 DEF OrderOK, Dependent, DependsOn, Unboxed
<1>6. \A m : /\ Of(Deps, m)' = Of(Deps, m) /\ OnName(Deps, m)' = OnName(Deps, m)
  BY <1>4 DEF Of, OnName, Dependent, DependsOn, Unboxed
<1>7. \A m : Waits(m, Range(order))' = Waits(m, Range(order'))
  BY <1>4 DEF Waits, Of, Dependent, DependsOn, Unboxed, Range
<1>8. GraphOK(graph', ready', Range(order')) => GraphOK(graph, ready, Range(order))'
  BY <1>3, <1>4, <1>6, <1>7 DEF GraphOK, Range
<1> QED BY <1>1, <1>2, <1>3, <1>5, <1>8 DEF Sorting

-----------------------------------------------------------------------------
(* The steps.                                                              *)

\* Nothing is out of what was just collected, and its names without
\* dependencies are ready.
LEMMA CollectedSorting ==
  ASSUME ArgumentsOK
  PROVE  OrderOK(<<>>) /\ GraphOK(Collected(call), Zeros(Collected(call)), Range(<<>>))
<1> DEFINE g == Collected(call)
           q == Len(Deps)
<1>1. Holds(g, Given, Deps, q) /\ DOMAIN Deps = 1 .. q
  BY CollectedRight DEF ArgumentsOK
<1>2. Range(<<>>) = {}
  BY DEF Range
<1>3. \A m : Waits(m, {}) = (1 .. q) \cap Of(Deps, m)
  BY <1>1 DEF Waits, Of
<1>4. \A m, on : (1 .. q) \cap (Of(Deps, m) \cap OnName(Deps, on)) = Of(Deps, m) \cap OnName(Deps, on)
  BY <1>1 DEF Of
<1> HIDE DEF g, q
<1>5. DOMAIN g.indeg = Given
  BY <1>1 DEF Holds, GraphOn
<1>6. Zeros(g) = {m \in Given \ {} : g.indeg[m] = 0}
  BY <1>5 DEF Zeros
<1>7. GraphOK(g, Zeros(g), {})
  BY <1>1, <1>3, <1>4, <1>6 DEF GraphOK, Holds
<1>8. OrderOK(<<>>)
  BY DEF OrderOK
<1> QED BY <1>2, <1>7, <1>8 DEF g

\* Before anything is collected, nothing is out.
LEMMA NothingOut ==
  ASSUME graph = NoGraph, Untouched \/ Sorting
  PROVE  order = <<>>
<1>1. CASE Untouched
  BY <1>1 DEF Untouched
<1>2. CASE Sorting
  <2>1. graph \in GraphOn(Given) /\ order \in Seq(Given)
    BY <1>2 DEF Sorting, OrderOK, GraphOK
  <2>2. DOMAIN graph.indeg = Given
    BY <2>1 DEF GraphOn
  <2>3. DOMAIN NoGraph.indeg = {}
    BY DEF NoGraph
  <2>4. Given = {}
    BY <2>2, <2>3
  <2> QED BY <2>1, <2>4
<1> QED BY <1>1, <1>2

LEMMA CollectStep ==
  ASSUME SortInv, Collect
  PROVE  SortInv'
<1>1. /\ call' = call /\ heap' = heap /\ Complaint(call) = "none" /\ CallOK
      /\ graph' = Collected(call) /\ ready' = Zeros(graph') /\ order' = order /\ result' = Working
      /\ graph = NoGraph /\ (Untouched \/ Sorting)
  BY DEF Collect, SortInv
<1>2. ArgumentsOK
  BY <1>1, ArgumentsTyped
<1>3. order' = <<>>
  BY <1>1, NothingOut
<1>4. OrderOK(order') /\ GraphOK(graph', ready', Range(order'))
  BY <1>1, <1>2, <1>3, CollectedSorting
<1>5. CallOK' /\ Sorting'
  BY <1>1, <1>4, ArgumentsKept
<1> QED BY <1>1, <1>5 DEF SortInv, OrderRight

\* The dependencies of a name that is out are out.
LEMMA NothingWaits ==
  ASSUME ArgumentsOK, OrderOK(order), NEW m, m \in Range(order)
  PROVE  Waits(m, Range(order)) = {}
<1>1. DOMAIN order = 1 .. Len(order)
  BY DEF OrderOK
<1>2. PICK j \in 1 .. Len(order) : order[j] = m
  BY <1>1 DEF Range
<1> SUFFICES ASSUME NEW i \in Waits(m, Range(order)) PROVE FALSE
  OBVIOUS
<1>3. i \in DOMAIN Deps /\ Dependent(Deps[i]) = m /\ DependsOn(Deps[i]) \notin Range(order)
  BY DEF Waits, Of
<1>4. PICK l \in 1 .. Len(order) : order[l] = DependsOn(Deps[i])
  BY <1>2, <1>3 DEF OrderOK
<1> QED BY <1>1, <1>3, <1>4 DEF Range

LEMMA WaitsFinite ==
  ASSUME ArgumentsOK, NEW m, NEW O
  PROVE  IsFiniteSet(Of(Deps, m)) /\ IsFiniteSet(Waits(m, O))
<1>1. DOMAIN Deps = 1 .. Len(Deps) /\ Len(Deps) \in Nat
  BY DEF ArgumentsOK
<1>2. IsFiniteSet(1 .. Len(Deps))
  BY <1>1, FS_Interval
<1>3. Of(Deps, m) \in SUBSET (1 .. Len(Deps)) /\ Waits(m, O) \in SUBSET (1 .. Len(Deps))
  BY <1>1 DEF Of, Waits
<1> QED BY <1>2, <1>3, FS_Subset

\* A name that waits for nothing follows what it depends on.
LEMMA OrderExtended ==
  ASSUME ArgumentsOK, OrderOK(order), NEW n \in Given, n \notin Range(order), Waits(n, Range(order)) = {}
  PROVE  OrderOK(Append(order, n)) /\ Range(Append(order, n)) = Range(order) \cup {n}
<1> DEFINE o == Append(order, n)
           k == Len(order)
<1>1. /\ order \in Seq(Given) /\ k \in Nat /\ DOMAIN order = 1 .. k
      /\ o \in Seq(Given) /\ Len(o) = k + 1 /\ DOMAIN o = 1 .. (k + 1)
      /\ \A j \in 1 .. k : o[j] = order[j]
      /\ o[k + 1] = n
  BY DEF OrderOK
<1>2. \A j \in 1 .. k : order[j] \in Range(order) /\ order[j] # n
  BY <1>1 DEF Range
<1>3. Range(o) = Range(order) \cup {n}
  <2> HIDE DEF o, k
  <2>1. Range(o) = {o[j] : j \in 1 .. (k + 1)} /\ Range(order) = {order[j] : j \in 1 .. k}
    BY <1>1 DEF Range
  <2> QED BY <1>1, <2>1
<1>4. \A i, j \in 1 .. (k + 1) : o[i] = o[j] => i = j
  <2>1. \A i, j \in 1 .. k : order[i] = order[j] => i = j
    BY DEF OrderOK
  <2>2. \A j \in 1 .. (k + 1) : j = k + 1 \/ j \in 1 .. k
    BY <1>1
  <2> HIDE DEF o, k
  <2> QED BY <1>1, <1>2, <2>1, <2>2
<1>5. ASSUME NEW i \in DOMAIN Deps, NEW j \in 1 .. (k + 1), Dependent(Deps[i]) = o[j]
      PROVE  \E l \in 1 .. (k + 1) : l < j /\ o[l] = DependsOn(Deps[i])
  <2>1. CASE j = k + 1
    <3>1. i \in Of(Deps, n)
      BY <1>1, <1>5, <2>1 DEF Of
    <3>2. DependsOn(Deps[i]) \in Range(order)
      BY <3>1 DEF Waits
    <3>3. PICK l \in 1 .. k : order[l] = DependsOn(Deps[i])
      BY <1>1, <3>2 DEF Range
    <3>4. l \in 1 .. (k + 1) /\ l < j
      BY <1>1, <2>1
    <3> QED BY <1>1, <3>3, <3>4
  <2>2. CASE j # k + 1
    <3>1. j \in 1 .. k
      BY <1>1, <2>2
    <3>2. PICK l \in 1 .. k : l < j /\ order[l] = DependsOn(Deps[i])
      BY <1>1, <1>5, <3>1 DEF OrderOK
    <3>3. l \in 1 .. (k + 1)
      BY <1>1
    <3> QED BY <1>1, <3>2, <3>3
  <2> QED BY <2>1, <2>2
<1> HIDE DEF o, k
<1>6. OrderOK(o)
  BY <1>1, <1>4, <1>5 DEF OrderOK
<1> QED BY <1>3, <1>6 DEF o

LEMMA TakeNextStep ==
  ASSUME SortInv, TakeNext
  PROVE  SortInv'
<1> DEFINE next == Min(ready)
           O == Range(order)
           P == O \cup {next}
           b == [indeg |-> graph.indeg, ready |-> ready \ {next}]
           left == ReleaseAll(b, graph.adj[next])
           g == [graph EXCEPT !.indeg = left.indeg]
<1>1. /\ call' = call /\ heap' = heap /\ result' = result /\ result = Working /\ ready # {} /\ CallOK
      /\ order' = Append(order, next) /\ graph' = g /\ ready' = left.ready
  BY DEF TakeNext, SortInv
<1>2. result' = Working
  BY <1>1
<1> SUFFICES ASSUME Complaint(call) = "none" PROVE OrderOK(order') /\ GraphOK(graph', ready', Range(order'))
  BY <1>1, <1>2, ArgumentsKept DEF SortInv, OrderRight
<1>3. ArgumentsOK
  BY <1>1, ArgumentsTyped
<1>4. OrderOK(order) /\ GraphOK(graph, ready, O)
  BY <1>1 DEF SortInv, Untouched, Sorting
<1>5. /\ Given \subseteq Int /\ IsFiniteSet(Given) /\ ready \subseteq Given
      /\ graph = [indeg |-> graph.indeg, adj |-> graph.adj]
      /\ graph.indeg \in [Given -> Nat] /\ graph.adj \in [Given -> Seq(Int)]
      /\ ready = {m \in Given \ O : graph.indeg[m] = 0}
  BY <1>4 DEF GraphOK, GraphOn, FiniteSubsets
<1>6. next \in ready
  <2>1. IsFiniteSet(ready) /\ ready \subseteq Int
    BY <1>5, FS_Subset
  <2>2. \E x \in ready : \A y \in ready : x <= y
    BY <1>1, <2>1, FiniteIntMin
  <2> QED BY <2>2 DEF Min
<1> HIDE DEF next, O, P, b, left, g
<1>7. next \in Given /\ next \notin O /\ graph.indeg[next] = 0
  BY <1>5, <1>6
<1>8. \A m \in Given : graph.indeg[m] = Cardinality(Waits(m, O)) /\ IsFiniteSet(Waits(m, O))
  BY <1>3, <1>4, WaitsFinite DEF GraphOK
<1>9. Waits(next, O) = {}
  BY <1>7, <1>8, FS_EmptySet
<1>10. OrderOK(order') /\ Range(order') = P
  BY <1>1, <1>3, <1>4, <1>7, <1>9, OrderExtended DEF O, P
<1> DEFINE s == graph.adj[next]
           Freed(m) == Of(Deps, m) \cap OnName(Deps, next)
<1>11. \A m \in Int : Occurs(s, m) = Cardinality(Freed(m))
  BY <1>4, <1>7 DEF GraphOK
<1>12. \A m : Freed(m) \in SUBSET Waits(m, O) /\ Waits(m, P) = Waits(m, O) \ Freed(m)
  BY <1>7 DEF Waits, Of, OnName, P
<1>13. \A m \in Given : /\ Occurs(s, m) \in Nat
                        /\ Occurs(s, m) <= graph.indeg[m]
                        /\ Cardinality(Waits(m, P)) = graph.indeg[m] - Occurs(s, m)
  <2> TAKE m \in Given
  <2> DEFINE W == Waits(m, O)
             F == Freed(m)
  <2>1. F \in SUBSET W /\ IsFiniteSet(W) /\ Waits(m, P) = W \ F
        /\ Occurs(s, m) = Cardinality(F) /\ graph.indeg[m] = Cardinality(W)
    BY <1>5, <1>8, <1>11, <1>12
  <2> HIDE DEF W, F, s
  <2>2. IsFiniteSet(F) /\ Cardinality(F) <= Cardinality(W) /\ Cardinality(F) \in Nat
    BY <2>1, FS_Subset, FS_CardinalityType
  <2>3. W \cap F = F
    BY <2>1
  <2>4. Cardinality(W \ F) = Cardinality(W) - Cardinality(F)
    BY <2>1, <2>3, FS_Difference
  <2> QED BY <2>1, <2>2, <2>4
<1>14. s \in Seq(Given)
  <2>1. s \in Seq(Int)
    BY <1>5, <1>7
  <2>2. ASSUME NEW j \in 1 .. Len(s) PROVE s[j] \in Given
    <3>1. s[j] \in Int /\ Occurs(s, s[j]) # 0
      BY <2>1, OccursPositive
    <3>2. Freed(s[j]) # {}
      BY <1>11, <3>1, FS_EmptySet
    <3>3. PICK i \in DOMAIN Deps : Dependent(Deps[i]) = s[j]
      BY <3>2 DEF Of
    <3>4. i \in 1 .. Len(Deps)
      BY <1>3 DEF ArgumentsOK
    <3> QED BY <1>3, <3>3, <3>4, GivenByPlaces DEF Met
  <2> QED BY <2>1, <2>2
<1>15. \A m \in Given \cap P : graph.indeg[m] = 0
  <2> TAKE m \in Given \cap P
  <2>1. CASE m \in O
    <3>1. Waits(m, O) = {}
      BY <1>3, <1>4, <2>1, NothingWaits DEF O
    <3> QED BY <1>8, <3>1, FS_EmptySet
  <2>2. CASE m = next
    BY <1>7, <2>2
  <2> QED BY <2>1, <2>2 DEF P
<1>16. b \in Released(Given) /\ ReadyRight(b, Given, P) /\ b.indeg = graph.indeg
  BY <1>5 DEF b, Released, ReadyRight, P
<1> HIDE DEF s, Freed
<1>17. /\ left \in Released(Given) /\ ReadyRight(left, Given, P)
       /\ \A m \in Given : left.indeg[m] = graph.indeg[m] - Occurs(s, m)
  <2>1. /\ \A m \in Given : Occurs(s, m) <= b.indeg[m]
        /\ \A m \in Given \cap P : b.indeg[m] = 0
    BY <1>13, <1>15, <1>16
  <2>2. left = ReleaseAll(b, s)
    BY DEF left, s
  <2>3. LET l == ReleaseAll(b, s)
        IN  /\ l \in Released(Given) /\ ReadyRight(l, Given, P)
            /\ \A m \in Given : l.indeg[m] = b.indeg[m] - Occurs(s, m)
    BY <1>14, <1>16, <2>1, ReleaseAllProperties
  <2> QED BY <1>16, <2>2, <2>3
<1>18. /\ g.indeg = left.indeg /\ g.adj = graph.adj /\ g \in GraphOn(Given)
  <2>1. left.indeg \in [Given -> Nat]
    BY <1>17 DEF Released
  <2>2. g = [indeg |-> left.indeg, adj |-> graph.adj]
    BY <1>5 DEF g
  <2> QED BY <1>5, <2>1, <2>2 DEF GraphOn
<1>19. GraphOK(g, left.ready, P)
  <2>1. \A m \in Given : g.indeg[m] = Cardinality(Waits(m, P))
    BY <1>13, <1>17, <1>18
  <2>2. left.ready = {m \in Given \ P : g.indeg[m] = 0}
    BY <1>17, <1>18 DEF ReadyRight
  <2> QED BY <1>4, <1>18, <2>1, <2>2 DEF GraphOK
<1> QED BY <1>1, <1>10, <1>19

LEMMA RejectStep ==
  ASSUME SortInv, Reject
  PROVE  SortInv'
<1>1. call' = call /\ heap' = heap /\ Complaint(call) # "none" /\ CallOK
  BY DEF Reject, SortInv
<1>2. CallOK' /\ Complaint(call)' # "none"
  BY <1>1, ArgumentsKept
<1> QED BY <1>2 DEF SortInv, OrderRight

\* When no name is ready, the names that are not out form a knot.
LEMMA KnotLeft ==
  ASSUME ArgumentsOK, Sorting, ready = {}, Given # Range(order)
  PROVE  Knotted
<1> DEFINE O == Range(order)
           S == Given \ O
<1>1. OrderOK(order) /\ GraphOK(graph, {}, O)
  BY DEF Sorting
<1>2. O \subseteq Given
  <2>1. DOMAIN order = 1 .. Len(order) /\ \A i \in 1 .. Len(order) : order[i] \in Given
    BY <1>1 DEF OrderOK
  <2> QED BY <2>1 DEF Range
<1>3. S # {} /\ S \in SUBSET Given
  BY <1>2
<1>4. ASSUME NEW n \in S PROVE \E m \in S : <<n, m>> \in Pairs
  <2>1. graph.indeg[n] # 0
    BY <1>1 DEF GraphOK
  <2>2. Waits(n, O) # {}
    BY <1>1, <2>1, FS_EmptySet DEF GraphOK
  <2>3. PICK i \in DOMAIN Deps : Dependent(Deps[i]) = n /\ DependsOn(Deps[i]) \notin O
    BY <2>2 DEF Waits, Of
  <2>4. i \in 1 .. Len(Deps)
    BY DEF ArgumentsOK
  <2>5. DependsOn(Deps[i]) \in Given /\ <<n, DependsOn(Deps[i])>> \in Pairs
    BY <2>3, <2>4, GivenByPlaces DEF Met
  <2> QED BY <2>3, <2>5
<1> HIDE DEF S
<1> QED BY <1>3, <1>4 DEF Knotted

\* When all names are out, none of a set depends only on others of the set:
\* not the one that came out first.
LEMMA NoKnot ==
  ASSUME ArgumentsOK, OrderOK(order), Given = Range(order)
  PROVE  /\ ~Knotted
         /\ \A i, j \in DOMAIN order : <<order[i], order[j]>> \in Pairs => j < i
<1>1. DOMAIN order = 1 .. Len(order) /\ Len(order) \in Nat
  BY DEF OrderOK
<1>2. ASSUME NEW i \in 1 .. Len(order), NEW m, <<order[i], m>> \in Pairs
      PROVE  \E l \in 1 .. Len(order) : l < i /\ order[l] = m
  <2>1. PICK d \in 1 .. Len(Deps) : <<order[i], m>> = <<Dependent(Deps[d]), DependsOn(Deps[d])>>
    BY <1>2, GivenByPlaces
  <2>2. d \in DOMAIN Deps /\ Dependent(Deps[d]) = order[i] /\ DependsOn(Deps[d]) = m
    BY <2>1 DEF ArgumentsOK
  <2> QED BY <2>2 DEF OrderOK
<1>3. \A i, j \in DOMAIN order : <<order[i], order[j]>> \in Pairs => j < i
  <2> SUFFICES ASSUME NEW i \in DOMAIN order, NEW j \in DOMAIN order, <<order[i], order[j]>> \in Pairs
               PROVE  j < i
    OBVIOUS
  <2>1. PICK l \in 1 .. Len(order) : l < i /\ order[l] = order[j]
    BY <1>1, <1>2
  <2>2. l = j
    BY <1>1, <2>1 DEF OrderOK
  <2> QED BY <2>1, <2>2
<1>4. ASSUME NEW S \in SUBSET Given, S # {}, \A n \in S : \E m \in S : <<n, m>> \in Pairs PROVE FALSE
  <2> DEFINE I == {i \in 1 .. Len(order) : order[i] \in S}
  <2>1. \A n \in S : \E i \in 1 .. Len(order) : order[i] = n
    BY <1>1 DEF Range
  <2>2. I \subseteq Nat /\ I # {}
    BY <1>1, <1>4, <2>1
  <2>3. PICK i \in I : \A j \in I : i <= j
    <3> HIDE DEF I
    <3> QED BY <2>2, NatMin
  <2>4. PICK m \in S : <<order[i], m>> \in Pairs
    BY <1>4
  <2>5. PICK l \in 1 .. Len(order) : l < i /\ order[l] = m
    BY <1>2, <2>4
  <2>6. l \in I
    BY <2>4, <2>5
  <2> QED BY <1>1, <2>3, <2>5, <2>6
<1> QED BY <1>3, <1>4 DEF Knotted

LEMMA AnswerStep ==
  ASSUME SortInv, Answer
  PROVE  SortInv'
<1>1. /\ call' = call /\ heap' = heap /\ graph' = graph /\ ready' = ready /\ order' = order
      /\ Complaint(call) = "none" /\ CallOK /\ ready = {} /\ (Untouched \/ Sorting)
      /\ (graph # NoGraph \/ Collected(call) = NoGraph)
  BY DEF Answer, SortInv
<1>2. ArgumentsOK
  BY <1>1, ArgumentsTyped
<1>3. Sorting
  <2>1. CASE graph = NoGraph
    <3>1. order = <<>> /\ Collected(call) = NoGraph
      BY <1>1, <2>1, NothingOut
    <3>2. Zeros(NoGraph) = {}
      BY DEF Zeros, NoGraph
    <3> QED BY <1>1, <1>2, <2>1, <3>1, <3>2, CollectedSorting DEF Sorting
  <2>2. CASE graph # NoGraph
    BY <1>1, <2>2 DEF Untouched
  <2> QED BY <2>1, <2>2
<1>4. /\ order \in Seq(Given) /\ DOMAIN graph.indeg = Given /\ IsFiniteSet(Given)
      /\ DOMAIN order = 1 .. Len(order)
      /\ \A i, j \in 1 .. Len(order) : order[i] = order[j] => i = j
  BY <1>3 DEF Sorting, OrderOK, GraphOK, GraphOn, FiniteSubsets
<1>5. Range(order) \in SUBSET Given
  <2>1. \A i \in DOMAIN order : order[i] \in Given
    BY <1>4
  <2> QED BY <2>1 DEF Range
<1>6. Len(order) = Cardinality(Given) <=> Given = Range(order)
  <2>1. Cardinality(Range(order)) = Len(order)
    BY <1>4, ListCount
  <2> QED BY <1>4, <1>5, <2>1, FS_Subset
<1>7. CallOK' /\ Sorting' /\ Given' = Given /\ Pairs' = Pairs /\ Knotted' = Knotted
  BY <1>1, <1>3, ArgumentsKept DEF Sorting
<1>8. CASE Len(order) = Cardinality(Given)
  <2>1. result' = ArrayV([i \in DOMAIN order |-> StringV(order[i])])
    BY <1>4, <1>8 DEF Answer
  <2>2. result'.k = "Array"
    BY <2>1 DEF ArrayV
  <2>3. ~Knotted /\ \A i, j \in DOMAIN order : <<order[i], order[j]>> \in Pairs => j < i
    BY <1>2, <1>3, <1>6, <1>8, NoKnot DEF Sorting
  <2>4. /\ ~Knotted' /\ result'.k = "Array"
        /\ Len(order') = Cardinality(Given') /\ Range(order') = Given'
        /\ \A i, j \in DOMAIN order' : <<order'[i], order'[j]>> \in Pairs' => j < i
    BY <1>1, <1>6, <1>7, <1>8, <2>2, <2>3
  <2>5. OrderRight'
    BY <2>4 DEF OrderRight
  <2> QED BY <1>7, <2>5 DEF SortInv
<1>9. CASE Len(order) # Cardinality(Given)
  <2>1. result' = NoneV
    BY <1>4, <1>9 DEF Answer
  <2>2. Knotted
    BY <1>1, <1>2, <1>3, <1>6, <1>9, KnotLeft
  <2> QED BY <1>7, <2>1, <2>2 DEF SortInv, OrderRight
<1> QED BY <1>8, <1>9

LEMMA StutterStep ==
  ASSUME SortInv, UNCHANGED tvars
  PROVE  SortInv'
<1>1. /\ call' = call /\ heap' = heap /\ graph' = graph /\ ready' = ready
      /\ order' = order /\ result' = result /\ CallOK
  BY DEF tvars, SortInv
<1>2. /\ CallOK' /\ Complaint(call)' = Complaint(call) /\ (Sorting => Sorting')
      /\ Given' = Given /\ Pairs' = Pairs /\ Knotted' = Knotted
  BY <1>1, ArgumentsKept DEF Sorting
<1>3. Untouched => Untouched'
  BY <1>1 DEF Untouched
<1>4. OrderRight'
  BY <1>1, <1>2 DEF OrderRight, SortInv
<1> QED BY <1>2, <1>3, <1>4 DEF SortInv

\* The names that are out keep their order, the degrees count what is not
\* out, and what is ready waits for nothing: at every step of every call.
THEOREM InductiveInvariant == TopoSpec => []SortInv
<1>1. SortInv /\ [TopoNext]_tvars => SortInv'
  BY RejectStep, CollectStep, TakeNextStep, AnswerStep, StutterStep DEF TopoNext
<1> QED BY InitStep, <1>1, PTL DEF TopoSpec

\* Kahn's algorithm is right: whatever names and pairs dag_topo_sort is
\* given, and whatever is given twice, it returns each name once after all
\* it depends on, and none exactly when names depend on one another in a
\* circle.
THEOREM Right == TopoSpec => []OrderRight
<1>1. SortInv => OrderRight
  BY DEF SortInv
<1> QED BY <1>1, InductiveInvariant, PTL
=============================================================================
