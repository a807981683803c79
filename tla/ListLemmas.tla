------------------------------ MODULE ListLemmas ------------------------------
(***************************************************************************)
(* Induction over the naturals, lists and the folds over them: what the    *)
(* proofs of several components cite.                                      *)
(***************************************************************************)
EXTENDS Integers, Sequences, FiniteSetsExt, Functions, FiniteSetTheorems, WellFoundedInduction, TLAPS

\* A non-empty set of naturals has a least element.
LEMMA NatMin ==
  ASSUME NEW T, T \subseteq Nat, T # {}
  PROVE  \E x \in T : \A y \in T : x <= y
<1> DEFINE R == {p \in Nat \X Nat : p[1] < p[2]}
<1>1. IsWellFoundedOn(R, Nat)
  BY NatLessThanWellFounded DEF OpToRel
<1>2. PICK x \in T : \A y \in T : ~ (<<y, x>> \in R)
  <2> HIDE DEF R
  <2> QED BY <1>1, WFMin
<1>3. ASSUME NEW y \in T PROVE x <= y
  <2>1. <<y, x>> \in Nat \X Nat /\ <<y, x>>[1] = y /\ <<y, x>>[2] = x
    OBVIOUS
  <2>2. ~ (y < x)
    BY <1>2, <2>1
  <2> QED BY <2>2
<1> QED BY <1>3

\* Induction, as a fact about the set of the numbers a statement holds of.
LEMMA NatSet ==
  ASSUME NEW S, 0 \in S, \A n \in Nat : n \in S => n + 1 \in S
  PROVE  Nat \subseteq S
<1> DEFINE T == Nat \ S
<1> SUFFICES ASSUME T # {} PROVE FALSE
  OBVIOUS
<1>1. PICK x \in T : \A y \in T : x <= y
  <2>1. T \subseteq Nat
    OBVIOUS
  <2> HIDE DEF T
  <2> QED BY <2>1, NatMin
<1>2. x \in Nat /\ x # 0 /\ x - 1 \in Nat
  OBVIOUS
<1>3. x - 1 \in S => x \in S
  BY <1>2
<1>4. x - 1 \in T /\ x - 1 < x
  BY <1>2, <1>3
<1> QED BY <1>1, <1>2, <1>4

\* The same up to a number.
LEMMA UpTo ==
  ASSUME NEW n \in Nat, NEW S, 0 \in S, \A k \in 0 .. n : k < n /\ k \in S => k + 1 \in S
  PROVE  0 .. n \subseteq S
<1> DEFINE T == {k \in Nat : k <= n => k \in S}
<1>1. 0 \in T
  OBVIOUS
<1>2. \A k \in Nat : k \in T => k + 1 \in T
  OBVIOUS
<1> HIDE DEF T
<1>3. Nat \subseteq T
  BY <1>1, <1>2, NatSet
<1> QED BY <1>3 DEF T

\* A finite non-empty set of integers has a least element.
LEMMA FiniteIntMin ==
  ASSUME NEW T, T \subseteq Int, IsFiniteSet(T), T # {}
  PROVE  \E x \in T : \A y \in T : x <= y
<1> DEFINE Small(n) == \A U \in SUBSET Int : IsFiniteSet(U) /\ U # {} /\ Cardinality(U) = n
                          => \E x \in U : \A y \in U : x <= y
           S == {n \in Nat : Small(n)}
<1>1. 0 \in S
  BY FS_EmptySet
<1>2. ASSUME NEW n \in Nat, n \in S PROVE n + 1 \in S
  <2> SUFFICES ASSUME NEW U \in SUBSET Int, IsFiniteSet(U), U # {}, Cardinality(U) = n + 1
               PROVE  \E x \in U : \A y \in U : x <= y
    OBVIOUS
  <2>1. PICK x \in U : TRUE
    OBVIOUS
  <2> DEFINE W == U \ {x}
  <2>2. IsFiniteSet(W) /\ Cardinality(W) = n
    <3>1. IsFiniteSet(W) /\ Cardinality(W) = Cardinality(U) - 1
      BY <2>1, FS_RemoveElement
    <3> QED BY <3>1
  <2>3. CASE W = {}
    <3>1. \A y \in U : y = x
      BY <2>3
    <3> QED BY <2>1, <3>1
  <2>4. CASE W # {}
    <3>1. PICK z \in W : \A y \in W : z <= y
      BY <1>2, <2>2, <2>4
    <3>2. x \in Int /\ z \in Int /\ z \in U /\ \A y \in U : y \in Int /\ (y = x \/ z <= y)
      BY <2>1, <3>1
    <3>3. CASE z <= x
      BY <3>2, <3>3
    <3>4. CASE x < z
      <4>1. \A y \in U : x <= y
        BY <3>2, <3>4
      <4> QED BY <2>1, <4>1
    <3> QED BY <3>2, <3>3, <3>4
  <2> QED BY <2>3, <2>4
<1>3. Cardinality(T) \in Nat
  BY FS_CardinalityType
<1>4. Cardinality(T) \in S
  <2> HIDE DEF S
  <2> QED BY <1>1, <1>2, <1>3, NatSet
<1> QED BY <1>4

\* The next number counts if it is in the set.
LEMMA CountOneMore ==
  ASSUME NEW k \in Nat, NEW X
  PROVE  /\ IsFiniteSet((1 .. k) \cap X) /\ Cardinality((1 .. k) \cap X) \in Nat
         /\ Cardinality((1 .. (k + 1)) \cap X) =
              Cardinality((1 .. k) \cap X) + (IF k + 1 \in X THEN 1 ELSE 0)
<1>1. IsFiniteSet(1 .. k)
  BY FS_Interval
<1>2. IsFiniteSet((1 .. k) \cap X) /\ Cardinality((1 .. k) \cap X) \in Nat
  BY <1>1, FS_Intersection, FS_CardinalityType
<1>3. CASE k + 1 \in X
  <2>1. (1 .. (k + 1)) \cap X = ((1 .. k) \cap X) \cup {k + 1} /\ k + 1 \notin (1 .. k) \cap X
    BY <1>3
  <2> QED BY <2>1, <1>2, <1>3, FS_AddElement
<1>4. CASE k + 1 \notin X
  <2>1. (1 .. (k + 1)) \cap X = (1 .. k) \cap X
    BY <1>4
  <2> QED BY <2>1, <1>2, <1>4
<1> QED BY <1>2, <1>3, <1>4

\* A sequence, its places and what stands in it.
LEMMA SeqPlaces ==
  ASSUME NEW s, s \in Seq(Range(s))
  PROVE  /\ Len(s) \in Nat /\ DOMAIN s = 1 .. Len(s)
         /\ \A i \in 1 .. Len(s) : s[i] \in Range(s)
         /\ Range(s) = {s[i] : i \in 1 .. Len(s)}
<1>1. Len(s) \in Nat /\ DOMAIN s = 1 .. Len(s)
  OBVIOUS
<1> QED BY <1>1 DEF Range

\* A list without repetitions is as long as it has members.
LEMMA ListCount ==
  ASSUME NEW S, NEW s \in Seq(S), \A i, j \in 1 .. Len(s) : s[i] = s[j] => i = j
  PROVE  IsFiniteSet(Range(s)) /\ Cardinality(Range(s)) = Len(s)
<1>1. Len(s) \in Nat /\ DOMAIN s = 1 .. Len(s)
  OBVIOUS
<1>2. Range(s) = {s[i] : i \in 1 .. Len(s)}
  BY <1>1 DEF Range
<1> DEFINE b == [i \in 1 .. Len(s) |-> s[i]]
<1>3. b \in Bijection(1 .. Len(s), Range(s))
  <2>1. b \in [1 .. Len(s) -> Range(s)]
    BY <1>2
  <2>2. \A i, j \in 1 .. Len(s) : b[i] = b[j] => i = j
    OBVIOUS
  <2>3. \A e \in Range(s) : \E i \in 1 .. Len(s) : b[i] = e
    BY <1>2
  <2> HIDE DEF b
  <2> QED BY <2>1, <2>2, <2>3 DEF Bijection, Injection, Surjection, IsInjective
<1>4. ExistsBijection(1 .. Len(s), Range(s))
  BY <1>3 DEF ExistsBijection
<1>5. IsFiniteSet(1 .. Len(s)) /\ Cardinality(1 .. Len(s)) = Len(s)
  <2>1. 1 \in Int /\ Len(s) \in Int
    BY <1>1
  <2>2. IsFiniteSet(1 .. Len(s)) /\ Cardinality(1 .. Len(s)) = IF 1 > Len(s) THEN 0 ELSE Len(s) - 1 + 1
    BY <2>1, FS_Interval
  <2> QED BY <1>1, <2>2
<1> QED BY <1>4, <1>5, FS_Bijection

-----------------------------------------------------------------------------
(* Folds.  What a fold over a sequence of n elements gives is the last of  *)
(* its n + 1 steps.                                                        *)

\* The greatest of the numbers up to k is k.
LEMMA MaxUpTo ==
  ASSUME NEW k \in Nat, k # 0
  PROVE  Max(1 .. k) = k
<1>1. k \in 1 .. k /\ \A y \in 1 .. k : k >= y
  OBVIOUS
<1>2. \A x \in 1 .. k : (\A y \in 1 .. k : x >= y) => x = k
  OBVIOUS
<1>3. \E x \in 1 .. k : \A y \in 1 .. k : x >= y
  BY <1>1
<1> QED BY <1>2, <1>3 DEF Max

\* h is a fold of F from b over the subsets of 1 .. k.
Folded(h, A, b, F, k) ==
  /\ h \in [SUBSET (1 .. k) -> A]
  /\ \A T \in SUBSET (1 .. k) : h[T] = IF T = {} THEN b ELSE F[<<h[T \ {Max(T)}], Max(T)>>]

LEMMA MaxWithTop ==
  ASSUME NEW k \in Nat, NEW T \in SUBSET (1 .. (k + 1)), k + 1 \in T
  PROVE  Max(T) = k + 1 /\ T \ {k + 1} \in SUBSET (1 .. k)
<1>1. \A y \in T : k + 1 >= y
  OBVIOUS
<1>2. \A x \in T : (\A y \in T : x >= y) => x = k + 1
  BY <1>1
<1>3. \E x \in T : \A y \in T : x >= y
  BY <1>1
<1>4. Max(T) = k + 1
  BY <1>2, <1>3 DEF Max
<1> QED BY <1>4

LEMMA FoldExists ==
  ASSUME NEW A, NEW b \in A, NEW n \in Nat, NEW F \in [A \X (1 .. n) -> A]
  PROVE  \E h : Folded(h, A, b, F, n)
<1> DEFINE S == {k \in 0 .. n : \E h : Folded(h, A, b, F, k)}
<1>1. 0 \in S
  <2> DEFINE h == [T \in SUBSET (1 .. 0) |-> b]
  <2>1. SUBSET (1 .. 0) = {{}}
    OBVIOUS
  <2>2. Folded(h, A, b, F, 0)
    BY <2>1 DEF Folded
  <2> QED BY <2>2
<1>2. ASSUME NEW k \in 0 .. n, k < n, k \in S
      PROVE  k + 1 \in S
  <2>1. PICK h : Folded(h, A, b, F, k)
    BY <1>2
  <2> DEFINE g == [T \in SUBSET (1 .. (k + 1)) |->
                    IF k + 1 \in T THEN F[<<h[T \ {k + 1}], k + 1>>] ELSE h[T]]
  <2>2. ASSUME NEW T \in SUBSET (1 .. (k + 1))
        PROVE  /\ g[T] \in A
               /\ g[T] = IF T = {} THEN b ELSE F[<<g[T \ {Max(T)}], Max(T)>>]
    <3>1. CASE k + 1 \in T
      <4>1. Max(T) = k + 1 /\ T \ {k + 1} \in SUBSET (1 .. k)
        BY <3>1, MaxWithTop
      <4>2. T \ {k + 1} \in SUBSET (1 .. (k + 1)) /\ k + 1 \notin T \ {k + 1}
        OBVIOUS
      <4>3. g[T \ {k + 1}] = h[T \ {k + 1}]
        BY <4>2
      <4>4. h[T \ {k + 1}] \in A
        BY <2>1, <4>1 DEF Folded
      <4>5. <<h[T \ {k + 1}], k + 1>> \in A \X (1 .. n)
        BY <4>4, <1>2
      <4>6. g[T] = F[<<h[T \ {k + 1}], k + 1>>]
        BY <3>1
      <4> HIDE DEF g
      <4> QED BY <3>1, <4>1, <4>3, <4>5, <4>6
    <3>2. CASE k + 1 \notin T
      <4>1. T \in SUBSET (1 .. k)
        BY <3>2
      <4>2. g[T] = h[T]
        BY <3>2
      <4>3. g[T \ {Max(T)}] = h[T \ {Max(T)}]
        BY <3>2
      <4>4. h[T] \in A /\ h[T] = IF T = {} THEN b ELSE F[<<h[T \ {Max(T)}], Max(T)>>]
        BY <2>1, <4>1 DEF Folded
      <4> HIDE DEF g
      <4> QED BY <4>2, <4>3, <4>4
    <3> QED BY <3>1, <3>2
  <2>3. g \in [SUBSET (1 .. (k + 1)) -> A]
    BY <2>2
  <2>4. Folded(g, A, b, F, k + 1)
    <3> HIDE DEF g
    <3> QED BY <2>2, <2>3 DEF Folded
  <2>5. k + 1 \in 0 .. n
    BY <1>2
  <2> QED BY <2>4, <2>5
<1>3. n \in 0 .. n
  OBVIOUS
<1>4. 0 .. n \subseteq S
  <2> HIDE DEF S
  <2> QED BY <1>1, <1>2, UpTo
<1> QED BY <1>3, <1>4

\* A non-empty set of such numbers has a greatest element.
LEMMA MaxIn ==
  ASSUME NEW n \in Nat, NEW T \in SUBSET (1 .. n), T # {}
  PROVE  Max(T) \in T
<1> DEFINE U == {n - x : x \in T}
<1>1. U \subseteq Nat /\ U # {}
  <2>1. \A x \in T : n - x \in Nat
    OBVIOUS
  <2> QED BY <2>1
<1>2. PICK u \in U : \A w \in U : u <= w
  <2> HIDE DEF U
  <2> QED BY <1>1, NatMin
<1>3. PICK x \in T : u = n - x
  BY <1>2
<1>4. \A y \in T : x >= y
  <2> TAKE y \in T
  <2>1. n - y \in U
    OBVIOUS
  <2>2. n - x <= n - y
    BY <1>2, <1>3, <2>1
  <2> QED BY <2>2
<1> QED BY <1>4 DEF Max

LEMMA PrefixMax ==
  ASSUME NEW k \in Nat, k # 0
  PROVE  Max(1 .. k) = k /\ (1 .. k) \ {k} = 1 .. (k - 1)
<1>1. Max(1 .. k) = k
  BY MaxUpTo
<1> QED BY <1>1

\* h is defined on the subsets of 1 .. k; g goes on as h does, and as e says
\* for the sets that hold k + 1.
Extended(g, h, e, k) ==
  /\ g = [T \in SUBSET (1 .. (k + 1)) |-> g[T]]
  /\ g[{}] = h[{}] /\ {} \in SUBSET (1 .. k)
  /\ \A T \in SUBSET (1 .. (k + 1)) : T # {} =>
       /\ T \ {Max(T)} \in SUBSET (1 .. k) /\ g[T \ {Max(T)}] = h[T \ {Max(T)}]
       /\ k + 1 \in T => Max(T) = k + 1 /\ g[T] = e[T \ {Max(T)}]
       /\ k + 1 \notin T => T \in SUBSET (1 .. k) /\ g[T] = h[T]

LEMMA ExtendedRight ==
  ASSUME NEW k \in Nat, NEW h, NEW e, NEW g,
         g = [T \in SUBSET (1 .. (k + 1)) |-> IF k + 1 \in T THEN e[T \ {k + 1}] ELSE h[T]]
  PROVE  Extended(g, h, e, k)
<1>1. g[{}] = h[{}] /\ {} \in SUBSET (1 .. k)
  <2>1. {} \in SUBSET (1 .. (k + 1))
    OBVIOUS
  <2> QED BY <2>1
<1>2. ASSUME NEW T \in SUBSET (1 .. (k + 1)), T # {}
      PROVE  /\ T \ {Max(T)} \in SUBSET (1 .. k) /\ g[T \ {Max(T)}] = h[T \ {Max(T)}]
             /\ k + 1 \in T => Max(T) = k + 1 /\ g[T] = e[T \ {Max(T)}]
             /\ k + 1 \notin T => T \in SUBSET (1 .. k) /\ g[T] = h[T]
  <2>1. CASE k + 1 \in T
    <3>1. Max(T) = k + 1 /\ T \ {k + 1} \in SUBSET (1 .. k)
      BY <2>1, MaxWithTop
    <3>2. T \ {k + 1} \in SUBSET (1 .. (k + 1)) /\ k + 1 \notin T \ {k + 1}
      OBVIOUS
    <3> QED BY <2>1, <3>1, <3>2
  <2>2. CASE k + 1 \notin T
    <3>1. T \in SUBSET (1 .. k)
      BY <2>2
    <3>2. T \ {Max(T)} \in SUBSET (1 .. k) /\ T \ {Max(T)} \in SUBSET (1 .. (k + 1)) /\ k + 1 \notin T \ {Max(T)}
      BY <3>1, <2>2
    <3> QED BY <2>2, <3>1, <3>2
  <2> QED BY <2>1, <2>2
<1> QED BY <1>1, <1>2 DEF Extended

\* The steps of a fold are what it gives for the beginnings of the list.
Beginnings(g, fold, n) ==
  /\ g[n] = fold[1 .. n] /\ g[0] = fold[{}] /\ {} \in SUBSET (1 .. n)
  /\ \A k \in 1 .. n : /\ 1 .. k \in SUBSET (1 .. n) /\ 1 .. k # {}
                       /\ g[k] = fold[1 .. k] /\ g[k - 1] = fold[(1 .. k) \ {Max(1 .. k)}]
                       /\ Max(1 .. k) = k

LEMMA BeginningsRight ==
  ASSUME NEW n \in Nat, NEW fold, NEW g, g = [k \in 0 .. n |-> fold[1 .. k]]
  PROVE  Beginnings(g, fold, n)
<1>1. n \in 0 .. n /\ 0 \in 0 .. n /\ 1 .. 0 = {}
  OBVIOUS
<1>2. ASSUME NEW k \in 1 .. n
      PROVE  /\ 1 .. k \in SUBSET (1 .. n) /\ 1 .. k # {}
             /\ g[k] = fold[1 .. k] /\ g[k - 1] = fold[(1 .. k) \ {Max(1 .. k)}]
             /\ Max(1 .. k) = k
  <2>1. Max(1 .. k) = k /\ (1 .. k) \ {k} = 1 .. (k - 1)
    BY PrefixMax
  <2>2. k \in 0 .. n /\ k - 1 \in 0 .. n /\ k \in 1 .. k /\ 1 .. k \in SUBSET (1 .. n)
    OBVIOUS
  <2> QED BY <2>1, <2>2
<1> QED BY <1>1, <1>2 DEF Beginnings

\* What holds of the first step and of each step after one it holds of, holds of all.
LEMMA StepsTyped ==
  ASSUME NEW n \in Nat, NEW A, NEW g, g[0] \in A, \A k \in 1 .. n : g[k - 1] \in A => g[k] \in A
  PROVE  \A k \in 0 .. n : g[k] \in A
<1> DEFINE S == {k \in 0 .. n : g[k] \in A}
<1>1. 0 \in S
  OBVIOUS
<1>2. ASSUME NEW k \in 0 .. n, k < n /\ k \in S PROVE k + 1 \in S
  <2>1. k + 1 \in 1 .. n /\ (k + 1) - 1 = k /\ g[k] \in A
    BY <1>2
  <2> QED BY <2>1
<1>3. 0 .. n \subseteq S
  <2> HIDE DEF S
  <2> QED BY <1>1, <1>2, UpTo
<1> QED BY <1>3
=============================================================================
