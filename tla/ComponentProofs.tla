--------------------------- MODULE ComponentProofs ---------------------------
(***************************************************************************)
(* The memos and the text of a component are up to date once its updaters  *)
(* have run: proved for every component, every number of setters called    *)
(* between two flushes and every order of them.                            *)
(***************************************************************************)
EXTENDS Component, ListLemmas

-----------------------------------------------------------------------------
(* The folds: each is the last of the steps it makes.                      *)

\* A node for each binding.
BindingSteps(g, b, s, n) == g[0] = b /\ \A k \in 1 .. n : g[k] = AddBinding(g[k - 1], s[k])

LEMMA BindingsFold ==
  ASSUME NEW n \in Nat, NEW s, DOMAIN s = 1 .. n, NEW A, NEW b \in A,
         \A a \in A, k \in 1 .. n : AddBinding(a, s[k]) \in A
  PROVE  \E g : BindingSteps(g, b, s, n) /\ FoldLeft(AddBinding, b, s) = g[n] /\ \A k \in 0 .. n : g[k] \in A
<1> DEFINE D == 1 .. n
           Step(f, T) == IF T = {} THEN b ELSE AddBinding(f[T \ {Max(T)}], s[Max(T)])
           fold == CHOOSE f : f = [T \in SUBSET D |-> Step(f, T)]
           S == {k \in 0 .. n : \E h : h = [T \in SUBSET (1 .. k) |-> Step(h, T)]}
<1>1. FoldLeft(AddBinding, b, s) = fold[D]
  BY DEF FoldLeft, MapThenFoldSet
<1>2. 0 \in S
  <2> DEFINE h == [T \in SUBSET (1 .. 0) |-> b]
  <2>1. h = [T \in SUBSET (1 .. 0) |-> Step(h, T)]
    <3>1. \A T \in SUBSET (1 .. 0) : T = {}
      OBVIOUS
    <3> QED BY <3>1
  <2> HIDE DEF Step, h
  <2> QED BY <2>1
<1>3. ASSUME NEW k \in 0 .. n, k < n /\ k \in S PROVE k + 1 \in S
  <2>1. PICK h : h = [T \in SUBSET (1 .. k) |-> Step(h, T)]
    BY <1>3
  <2> DEFINE e == [T \in SUBSET (1 .. k) |-> AddBinding(h[T], s[k + 1])]
             g == [T \in SUBSET (1 .. (k + 1)) |-> IF k + 1 \in T THEN e[T \ {k + 1}] ELSE h[T]]
  <2>2. \A T \in SUBSET (1 .. k) : h[T] = Step(h, T)
    <3> HIDE DEF Step
    <3> QED BY <2>1
  <2>3. \A T \in SUBSET (1 .. k) : e[T] = AddBinding(h[T], s[k + 1])
    OBVIOUS
  <2> HIDE DEF e
  <2>4. Extended(g, h, e, k)
    <3>1. g = [T \in SUBSET (1 .. (k + 1)) |-> IF k + 1 \in T THEN e[T \ {k + 1}] ELSE h[T]]
      OBVIOUS
    <3>2. k \in Nat
      OBVIOUS
    <3> HIDE DEF g
    <3> QED BY <3>1, <3>2, ExtendedRight
  <2> HIDE DEF g
  <2>5. \A T \in SUBSET (1 .. (k + 1)) : g[T] = Step(g, T)
    BY <2>2, <2>3, <2>4 DEF Extended
  <2>6. g = [T \in SUBSET (1 .. (k + 1)) |-> Step(g, T)]
    <3> HIDE DEF Step
    <3> QED BY <2>4, <2>5 DEF Extended
  <2>7. k + 1 \in 0 .. n
    BY <1>3
  <2> HIDE DEF Step
  <2> QED BY <2>6, <2>7
<1>4. n \in S
  <2> HIDE DEF S
  <2>1. 0 .. n \subseteq S
    BY <1>2, <1>3, UpTo
  <2> QED BY <2>1
<1>5. fold = [T \in SUBSET D |-> Step(fold, T)]
  <2> HIDE DEF Step
  <2> QED BY <1>4
<1> HIDE DEF fold, S
<1>6. \A T \in SUBSET D : fold[T] = Step(fold, T)
  <2> HIDE DEF Step
  <2> QED BY <1>5
<1> DEFINE g == [k \in 0 .. n |-> fold[1 .. k]]
<1>7. Beginnings(g, fold, n)
  BY BeginningsRight
<1> HIDE DEF g
<1>8. BindingSteps(g, b, s, n)
  BY <1>6, <1>7 DEF BindingSteps, Beginnings
<1>9. \A k \in 0 .. n : g[k] \in A
  <2>1. g[0] \in A /\ \A k \in 1 .. n : g[k - 1] \in A => g[k] \in A
    BY <1>8 DEF BindingSteps
  <2> QED BY <2>1, StepsTyped
<1> QED BY <1>1, <1>7, <1>8, <1>9 DEF Beginnings

\* A sink for each name of the view.
SinkSteps(g, b, s, n) == g[0] = b /\ \A k \in 1 .. n : g[k] = AddSink(g[k - 1], s[k])

LEMMA SinksFold ==
  ASSUME NEW n \in Nat, NEW s, DOMAIN s = 1 .. n, NEW A, NEW b \in A,
         \A a \in A, k \in 1 .. n : AddSink(a, s[k]) \in A
  PROVE  \E g : SinkSteps(g, b, s, n) /\ AddSinks(b, s) = g[n] /\ \A k \in 0 .. n : g[k] \in A
<1> DEFINE D == 1 .. n
           Step(f, T) == IF T = {} THEN b ELSE AddSink(f[T \ {Max(T)}], s[Max(T)])
           fold == CHOOSE f : f = [T \in SUBSET D |-> Step(f, T)]
           S == {k \in 0 .. n : \E h : h = [T \in SUBSET (1 .. k) |-> Step(h, T)]}
<1>1. AddSinks(b, s) = fold[D]
  BY DEF AddSinks, FoldLeft, MapThenFoldSet
<1>2. 0 \in S
  <2> DEFINE h == [T \in SUBSET (1 .. 0) |-> b]
  <2>1. h = [T \in SUBSET (1 .. 0) |-> Step(h, T)]
    <3>1. \A T \in SUBSET (1 .. 0) : T = {}
      OBVIOUS
    <3> QED BY <3>1
  <2> HIDE DEF Step, h
  <2> QED BY <2>1
<1>3. ASSUME NEW k \in 0 .. n, k < n /\ k \in S PROVE k + 1 \in S
  <2>1. PICK h : h = [T \in SUBSET (1 .. k) |-> Step(h, T)]
    BY <1>3
  <2> DEFINE e == [T \in SUBSET (1 .. k) |-> AddSink(h[T], s[k + 1])]
             g == [T \in SUBSET (1 .. (k + 1)) |-> IF k + 1 \in T THEN e[T \ {k + 1}] ELSE h[T]]
  <2>2. \A T \in SUBSET (1 .. k) : h[T] = Step(h, T)
    <3> HIDE DEF Step
    <3> QED BY <2>1
  <2>3. \A T \in SUBSET (1 .. k) : e[T] = AddSink(h[T], s[k + 1])
    OBVIOUS
  <2> HIDE DEF e
  <2>4. Extended(g, h, e, k)
    <3>1. g = [T \in SUBSET (1 .. (k + 1)) |-> IF k + 1 \in T THEN e[T \ {k + 1}] ELSE h[T]]
      OBVIOUS
    <3>2. k \in Nat
      OBVIOUS
    <3> HIDE DEF g
    <3> QED BY <3>1, <3>2, ExtendedRight
  <2> HIDE DEF g
  <2>5. \A T \in SUBSET (1 .. (k + 1)) : g[T] = Step(g, T)
    BY <2>2, <2>3, <2>4 DEF Extended
  <2>6. g = [T \in SUBSET (1 .. (k + 1)) |-> Step(g, T)]
    <3> HIDE DEF Step
    <3> QED BY <2>4, <2>5 DEF Extended
  <2>7. k + 1 \in 0 .. n
    BY <1>3
  <2> HIDE DEF Step
  <2> QED BY <2>6, <2>7
<1>4. n \in S
  <2> HIDE DEF S
  <2>1. 0 .. n \subseteq S
    BY <1>2, <1>3, UpTo
  <2> QED BY <2>1
<1>5. fold = [T \in SUBSET D |-> Step(fold, T)]
  <2> HIDE DEF Step
  <2> QED BY <1>4
<1> HIDE DEF fold, S
<1>6. \A T \in SUBSET D : fold[T] = Step(fold, T)
  <2> HIDE DEF Step
  <2> QED BY <1>5
<1> DEFINE g == [k \in 0 .. n |-> fold[1 .. k]]
<1>7. Beginnings(g, fold, n)
  BY BeginningsRight
<1> HIDE DEF g
<1>8. SinkSteps(g, b, s, n)
  BY <1>6, <1>7 DEF SinkSteps, Beginnings
<1>9. \A k \in 0 .. n : g[k] \in A
  <2>1. g[0] \in A /\ \A k \in 1 .. n : g[k - 1] \in A => g[k] \in A
    BY <1>8 DEF SinkSteps
  <2> QED BY <2>1, StepsTyped
<1> QED BY <1>1, <1>7, <1>8, <1>9 DEF Beginnings

\* An edge for each name a memo reads.
ReferenceSteps(g, b, s, n) == g[0] = b /\ \A k \in 1 .. n : g[k] = AddReference(g[k - 1], s[k])

LEMMA ReferencesFold ==
  ASSUME NEW n \in Nat, NEW s, DOMAIN s = 1 .. n, NEW A, NEW b \in A,
         \A a \in A, k \in 1 .. n : AddReference(a, s[k]) \in A
  PROVE  \E g : ReferenceSteps(g, b, s, n) /\ AddReferences(b, s) = g[n] /\ \A k \in 0 .. n : g[k] \in A
<1> DEFINE D == 1 .. n
           Step(f, T) == IF T = {} THEN b ELSE AddReference(f[T \ {Max(T)}], s[Max(T)])
           fold == CHOOSE f : f = [T \in SUBSET D |-> Step(f, T)]
           S == {k \in 0 .. n : \E h : h = [T \in SUBSET (1 .. k) |-> Step(h, T)]}
<1>1. AddReferences(b, s) = fold[D]
  BY DEF AddReferences, FoldLeft, MapThenFoldSet
<1>2. 0 \in S
  <2> DEFINE h == [T \in SUBSET (1 .. 0) |-> b]
  <2>1. h = [T \in SUBSET (1 .. 0) |-> Step(h, T)]
    <3>1. \A T \in SUBSET (1 .. 0) : T = {}
      OBVIOUS
    <3> QED BY <3>1
  <2> HIDE DEF Step, h
  <2> QED BY <2>1
<1>3. ASSUME NEW k \in 0 .. n, k < n /\ k \in S PROVE k + 1 \in S
  <2>1. PICK h : h = [T \in SUBSET (1 .. k) |-> Step(h, T)]
    BY <1>3
  <2> DEFINE e == [T \in SUBSET (1 .. k) |-> AddReference(h[T], s[k + 1])]
             g == [T \in SUBSET (1 .. (k + 1)) |-> IF k + 1 \in T THEN e[T \ {k + 1}] ELSE h[T]]
  <2>2. \A T \in SUBSET (1 .. k) : h[T] = Step(h, T)
    <3> HIDE DEF Step
    <3> QED BY <2>1
  <2>3. \A T \in SUBSET (1 .. k) : e[T] = AddReference(h[T], s[k + 1])
    OBVIOUS
  <2> HIDE DEF e
  <2>4. Extended(g, h, e, k)
    <3>1. g = [T \in SUBSET (1 .. (k + 1)) |-> IF k + 1 \in T THEN e[T \ {k + 1}] ELSE h[T]]
      OBVIOUS
    <3>2. k \in Nat
      OBVIOUS
    <3> HIDE DEF g
    <3> QED BY <3>1, <3>2, ExtendedRight
  <2> HIDE DEF g
  <2>5. \A T \in SUBSET (1 .. (k + 1)) : g[T] = Step(g, T)
    BY <2>2, <2>3, <2>4 DEF Extended
  <2>6. g = [T \in SUBSET (1 .. (k + 1)) |-> Step(g, T)]
    <3> HIDE DEF Step
    <3> QED BY <2>4, <2>5 DEF Extended
  <2>7. k + 1 \in 0 .. n
    BY <1>3
  <2> HIDE DEF Step
  <2> QED BY <2>6, <2>7
<1>4. n \in S
  <2> HIDE DEF S
  <2>1. 0 .. n \subseteq S
    BY <1>2, <1>3, UpTo
  <2> QED BY <2>1
<1>5. fold = [T \in SUBSET D |-> Step(fold, T)]
  <2> HIDE DEF Step
  <2> QED BY <1>4
<1> HIDE DEF fold, S
<1>6. \A T \in SUBSET D : fold[T] = Step(fold, T)
  <2> HIDE DEF Step
  <2> QED BY <1>5
<1> DEFINE g == [k \in 0 .. n |-> fold[1 .. k]]
<1>7. Beginnings(g, fold, n)
  BY BeginningsRight
<1> HIDE DEF g
<1>8. ReferenceSteps(g, b, s, n)
  BY <1>6, <1>7 DEF ReferenceSteps, Beginnings
<1>9. \A k \in 0 .. n : g[k] \in A
  <2>1. g[0] \in A /\ \A k \in 1 .. n : g[k - 1] \in A => g[k] \in A
    BY <1>8 DEF ReferenceSteps
  <2> QED BY <2>1, StepsTyped
<1> QED BY <1>1, <1>7, <1>8, <1>9 DEF Beginnings

\* The edges of each memo.
MemoSteps(g, b, s, n) == g[0] = b /\ \A k \in 1 .. n : g[k] = AddMemo(g[k - 1], s[k])

LEMMA MemosFold ==
  ASSUME NEW n \in Nat, NEW s, DOMAIN s = 1 .. n, NEW A, NEW b \in A,
         \A a \in A, k \in 1 .. n : AddMemo(a, s[k]) \in A
  PROVE  \E g : MemoSteps(g, b, s, n) /\ AddMemos(b, s) = g[n] /\ \A k \in 0 .. n : g[k] \in A
<1> DEFINE D == 1 .. n
           Step(f, T) == IF T = {} THEN b ELSE AddMemo(f[T \ {Max(T)}], s[Max(T)])
           fold == CHOOSE f : f = [T \in SUBSET D |-> Step(f, T)]
           S == {k \in 0 .. n : \E h : h = [T \in SUBSET (1 .. k) |-> Step(h, T)]}
<1>1. AddMemos(b, s) = fold[D]
  BY DEF AddMemos, FoldLeft, MapThenFoldSet
<1>2. 0 \in S
  <2> DEFINE h == [T \in SUBSET (1 .. 0) |-> b]
  <2>1. h = [T \in SUBSET (1 .. 0) |-> Step(h, T)]
    <3>1. \A T \in SUBSET (1 .. 0) : T = {}
      OBVIOUS
    <3> QED BY <3>1
  <2> HIDE DEF Step, h
  <2> QED BY <2>1
<1>3. ASSUME NEW k \in 0 .. n, k < n /\ k \in S PROVE k + 1 \in S
  <2>1. PICK h : h = [T \in SUBSET (1 .. k) |-> Step(h, T)]
    BY <1>3
  <2> DEFINE e == [T \in SUBSET (1 .. k) |-> AddMemo(h[T], s[k + 1])]
             g == [T \in SUBSET (1 .. (k + 1)) |-> IF k + 1 \in T THEN e[T \ {k + 1}] ELSE h[T]]
  <2>2. \A T \in SUBSET (1 .. k) : h[T] = Step(h, T)
    <3> HIDE DEF Step
    <3> QED BY <2>1
  <2>3. \A T \in SUBSET (1 .. k) : e[T] = AddMemo(h[T], s[k + 1])
    OBVIOUS
  <2> HIDE DEF e
  <2>4. Extended(g, h, e, k)
    <3>1. g = [T \in SUBSET (1 .. (k + 1)) |-> IF k + 1 \in T THEN e[T \ {k + 1}] ELSE h[T]]
      OBVIOUS
    <3>2. k \in Nat
      OBVIOUS
    <3> HIDE DEF g
    <3> QED BY <3>1, <3>2, ExtendedRight
  <2> HIDE DEF g
  <2>5. \A T \in SUBSET (1 .. (k + 1)) : g[T] = Step(g, T)
    BY <2>2, <2>3, <2>4 DEF Extended
  <2>6. g = [T \in SUBSET (1 .. (k + 1)) |-> Step(g, T)]
    <3> HIDE DEF Step
    <3> QED BY <2>4, <2>5 DEF Extended
  <2>7. k + 1 \in 0 .. n
    BY <1>3
  <2> HIDE DEF Step
  <2> QED BY <2>6, <2>7
<1>4. n \in S
  <2> HIDE DEF S
  <2>1. 0 .. n \subseteq S
    BY <1>2, <1>3, UpTo
  <2> QED BY <2>1
<1>5. fold = [T \in SUBSET D |-> Step(fold, T)]
  <2> HIDE DEF Step
  <2> QED BY <1>4
<1> HIDE DEF fold, S
<1>6. \A T \in SUBSET D : fold[T] = Step(fold, T)
  <2> HIDE DEF Step
  <2> QED BY <1>5
<1> DEFINE g == [k \in 0 .. n |-> fold[1 .. k]]
<1>7. Beginnings(g, fold, n)
  BY BeginningsRight
<1> HIDE DEF g
<1>8. MemoSteps(g, b, s, n)
  BY <1>6, <1>7 DEF MemoSteps, Beginnings
<1>9. \A k \in 0 .. n : g[k] \in A
  <2>1. g[0] \in A /\ \A k \in 1 .. n : g[k - 1] \in A => g[k] \in A
    BY <1>8 DEF MemoSteps
  <2> QED BY <2>1, StepsTyped
<1> QED BY <1>1, <1>7, <1>8, <1>9 DEF Beginnings

\* Who depends on a node, of those before n.
MeetSteps(g, b, s, n) == g[0] = b /\ \A k \in 1 .. n : g[k] = Meet(g[k - 1], s[k])

LEMMA MeetFold ==
  ASSUME NEW n \in Nat, NEW s, DOMAIN s = 1 .. n, NEW A, NEW b \in A,
         \A a \in A, k \in 1 .. n : Meet(a, s[k]) \in A
  PROVE  \E g : MeetSteps(g, b, s, n) /\ FoldLeft(Meet, b, s) = g[n] /\ \A k \in 0 .. n : g[k] \in A
<1> DEFINE D == 1 .. n
           Step(f, T) == IF T = {} THEN b ELSE Meet(f[T \ {Max(T)}], s[Max(T)])
           fold == CHOOSE f : f = [T \in SUBSET D |-> Step(f, T)]
           S == {k \in 0 .. n : \E h : h = [T \in SUBSET (1 .. k) |-> Step(h, T)]}
<1>1. FoldLeft(Meet, b, s) = fold[D]
  BY DEF FoldLeft, MapThenFoldSet
<1>2. 0 \in S
  <2> DEFINE h == [T \in SUBSET (1 .. 0) |-> b]
  <2>1. h = [T \in SUBSET (1 .. 0) |-> Step(h, T)]
    <3>1. \A T \in SUBSET (1 .. 0) : T = {}
      OBVIOUS
    <3> QED BY <3>1
  <2> HIDE DEF Step, h
  <2> QED BY <2>1
<1>3. ASSUME NEW k \in 0 .. n, k < n /\ k \in S PROVE k + 1 \in S
  <2>1. PICK h : h = [T \in SUBSET (1 .. k) |-> Step(h, T)]
    BY <1>3
  <2> DEFINE e == [T \in SUBSET (1 .. k) |-> Meet(h[T], s[k + 1])]
             g == [T \in SUBSET (1 .. (k + 1)) |-> IF k + 1 \in T THEN e[T \ {k + 1}] ELSE h[T]]
  <2>2. \A T \in SUBSET (1 .. k) : h[T] = Step(h, T)
    <3> HIDE DEF Step
    <3> QED BY <2>1
  <2>3. \A T \in SUBSET (1 .. k) : e[T] = Meet(h[T], s[k + 1])
    OBVIOUS
  <2> HIDE DEF e
  <2>4. Extended(g, h, e, k)
    <3>1. g = [T \in SUBSET (1 .. (k + 1)) |-> IF k + 1 \in T THEN e[T \ {k + 1}] ELSE h[T]]
      OBVIOUS
    <3>2. k \in Nat
      OBVIOUS
    <3> HIDE DEF g
    <3> QED BY <3>1, <3>2, ExtendedRight
  <2> HIDE DEF g
  <2>5. \A T \in SUBSET (1 .. (k + 1)) : g[T] = Step(g, T)
    BY <2>2, <2>3, <2>4 DEF Extended
  <2>6. g = [T \in SUBSET (1 .. (k + 1)) |-> Step(g, T)]
    <3> HIDE DEF Step
    <3> QED BY <2>4, <2>5 DEF Extended
  <2>7. k + 1 \in 0 .. n
    BY <1>3
  <2> HIDE DEF Step
  <2> QED BY <2>6, <2>7
<1>4. n \in S
  <2> HIDE DEF S
  <2>1. 0 .. n \subseteq S
    BY <1>2, <1>3, UpTo
  <2> QED BY <2>1
<1>5. fold = [T \in SUBSET D |-> Step(fold, T)]
  <2> HIDE DEF Step
  <2> QED BY <1>4
<1> HIDE DEF fold, S
<1>6. \A T \in SUBSET D : fold[T] = Step(fold, T)
  <2> HIDE DEF Step
  <2> QED BY <1>5
<1> DEFINE g == [k \in 0 .. n |-> fold[1 .. k]]
<1>7. Beginnings(g, fold, n)
  BY BeginningsRight
<1> HIDE DEF g
<1>8. MeetSteps(g, b, s, n)
  BY <1>6, <1>7 DEF MeetSteps, Beginnings
<1>9. \A k \in 0 .. n : g[k] \in A
  <2>1. g[0] \in A /\ \A k \in 1 .. n : g[k - 1] \in A => g[k] \in A
    BY <1>8 DEF MeetSteps
  <2> QED BY <2>1, StepsTyped
<1> QED BY <1>1, <1>7, <1>8, <1>9 DEF Beginnings

\* The turns of a search.
TurnSteps(g, b, s, n) == g[0] = b /\ \A k \in 1 .. n : g[k] = Turn(g[k - 1], s[k])

LEMMA TurnsFold ==
  ASSUME NEW n \in Nat, NEW s, DOMAIN s = 1 .. n, NEW A, NEW b \in A,
         \A a \in A, k \in 1 .. n : Turn(a, s[k]) \in A
  PROVE  \E g : TurnSteps(g, b, s, n) /\ FoldLeft(Turn, b, s) = g[n] /\ \A k \in 0 .. n : g[k] \in A
<1> DEFINE D == 1 .. n
           Step(f, T) == IF T = {} THEN b ELSE Turn(f[T \ {Max(T)}], s[Max(T)])
           fold == CHOOSE f : f = [T \in SUBSET D |-> Step(f, T)]
           S == {k \in 0 .. n : \E h : h = [T \in SUBSET (1 .. k) |-> Step(h, T)]}
<1>1. FoldLeft(Turn, b, s) = fold[D]
  BY DEF FoldLeft, MapThenFoldSet
<1>2. 0 \in S
  <2> DEFINE h == [T \in SUBSET (1 .. 0) |-> b]
  <2>1. h = [T \in SUBSET (1 .. 0) |-> Step(h, T)]
    <3>1. \A T \in SUBSET (1 .. 0) : T = {}
      OBVIOUS
    <3> QED BY <3>1
  <2> HIDE DEF Step, h
  <2> QED BY <2>1
<1>3. ASSUME NEW k \in 0 .. n, k < n /\ k \in S PROVE k + 1 \in S
  <2>1. PICK h : h = [T \in SUBSET (1 .. k) |-> Step(h, T)]
    BY <1>3
  <2> DEFINE e == [T \in SUBSET (1 .. k) |-> Turn(h[T], s[k + 1])]
             g == [T \in SUBSET (1 .. (k + 1)) |-> IF k + 1 \in T THEN e[T \ {k + 1}] ELSE h[T]]
  <2>2. \A T \in SUBSET (1 .. k) : h[T] = Step(h, T)
    <3> HIDE DEF Step
    <3> QED BY <2>1
  <2>3. \A T \in SUBSET (1 .. k) : e[T] = Turn(h[T], s[k + 1])
    OBVIOUS
  <2> HIDE DEF e
  <2>4. Extended(g, h, e, k)
    <3>1. g = [T \in SUBSET (1 .. (k + 1)) |-> IF k + 1 \in T THEN e[T \ {k + 1}] ELSE h[T]]
      OBVIOUS
    <3>2. k \in Nat
      OBVIOUS
    <3> HIDE DEF g
    <3> QED BY <3>1, <3>2, ExtendedRight
  <2> HIDE DEF g
  <2>5. \A T \in SUBSET (1 .. (k + 1)) : g[T] = Step(g, T)
    BY <2>2, <2>3, <2>4 DEF Extended
  <2>6. g = [T \in SUBSET (1 .. (k + 1)) |-> Step(g, T)]
    <3> HIDE DEF Step
    <3> QED BY <2>4, <2>5 DEF Extended
  <2>7. k + 1 \in 0 .. n
    BY <1>3
  <2> HIDE DEF Step
  <2> QED BY <2>6, <2>7
<1>4. n \in S
  <2> HIDE DEF S
  <2>1. 0 .. n \subseteq S
    BY <1>2, <1>3, UpTo
  <2> QED BY <2>1
<1>5. fold = [T \in SUBSET D |-> Step(fold, T)]
  <2> HIDE DEF Step
  <2> QED BY <1>4
<1> HIDE DEF fold, S
<1>6. \A T \in SUBSET D : fold[T] = Step(fold, T)
  <2> HIDE DEF Step
  <2> QED BY <1>5
<1> DEFINE g == [k \in 0 .. n |-> fold[1 .. k]]
<1>7. Beginnings(g, fold, n)
  BY BeginningsRight
<1> HIDE DEF g
<1>8. TurnSteps(g, b, s, n)
  BY <1>6, <1>7 DEF TurnSteps, Beginnings
<1>9. \A k \in 0 .. n : g[k] \in A
  <2>1. g[0] \in A /\ \A k \in 1 .. n : g[k - 1] \in A => g[k] \in A
    BY <1>8 DEF TurnSteps
  <2> QED BY <2>1, StepsTyped
<1> QED BY <1>1, <1>7, <1>8, <1>9 DEF Beginnings

\* The declarations of X_create.
DeclareSteps(g, b, s, n) == g[0] = b /\ \A k \in 1 .. n : g[k] = Declare(g[k - 1], s[k])

LEMMA DeclareFold ==
  ASSUME NEW n \in Nat, NEW s, DOMAIN s = 1 .. n, NEW b
  PROVE  \E g : DeclareSteps(g, b, s, n) /\ FoldLeft(Declare, b, s) = g[n]
<1> DEFINE D == 1 .. n
           Step(f, T) == IF T = {} THEN b ELSE Declare(f[T \ {Max(T)}], s[Max(T)])
           fold == CHOOSE f : f = [T \in SUBSET D |-> Step(f, T)]
           S == {k \in 0 .. n : \E h : h = [T \in SUBSET (1 .. k) |-> Step(h, T)]}
<1>1. FoldLeft(Declare, b, s) = fold[D]
  BY DEF FoldLeft, MapThenFoldSet
<1>2. 0 \in S
  <2> DEFINE h == [T \in SUBSET (1 .. 0) |-> b]
  <2>1. h = [T \in SUBSET (1 .. 0) |-> Step(h, T)]
    <3>1. \A T \in SUBSET (1 .. 0) : T = {}
      OBVIOUS
    <3> QED BY <3>1
  <2> HIDE DEF Step, h
  <2> QED BY <2>1
<1>3. ASSUME NEW k \in 0 .. n, k < n /\ k \in S PROVE k + 1 \in S
  <2>1. PICK h : h = [T \in SUBSET (1 .. k) |-> Step(h, T)]
    BY <1>3
  <2> DEFINE e == [T \in SUBSET (1 .. k) |-> Declare(h[T], s[k + 1])]
             g == [T \in SUBSET (1 .. (k + 1)) |-> IF k + 1 \in T THEN e[T \ {k + 1}] ELSE h[T]]
  <2>2. \A T \in SUBSET (1 .. k) : h[T] = Step(h, T)
    <3> HIDE DEF Step
    <3> QED BY <2>1
  <2>3. \A T \in SUBSET (1 .. k) : e[T] = Declare(h[T], s[k + 1])
    OBVIOUS
  <2> HIDE DEF e
  <2>4. Extended(g, h, e, k)
    <3>1. g = [T \in SUBSET (1 .. (k + 1)) |-> IF k + 1 \in T THEN e[T \ {k + 1}] ELSE h[T]]
      OBVIOUS
    <3>2. k \in Nat
      OBVIOUS
    <3> HIDE DEF g
    <3> QED BY <3>1, <3>2, ExtendedRight
  <2> HIDE DEF g
  <2>5. \A T \in SUBSET (1 .. (k + 1)) : g[T] = Step(g, T)
    BY <2>2, <2>3, <2>4 DEF Extended
  <2>6. g = [T \in SUBSET (1 .. (k + 1)) |-> Step(g, T)]
    <3> HIDE DEF Step
    <3> QED BY <2>4, <2>5 DEF Extended
  <2>7. k + 1 \in 0 .. n
    BY <1>3
  <2> HIDE DEF Step
  <2> QED BY <2>6, <2>7
<1>4. n \in S
  <2> HIDE DEF S
  <2>1. 0 .. n \subseteq S
    BY <1>2, <1>3, UpTo
  <2> QED BY <2>1
<1>5. fold = [T \in SUBSET D |-> Step(fold, T)]
  <2> HIDE DEF Step
  <2> QED BY <1>4
<1> HIDE DEF fold, S
<1>6. \A T \in SUBSET D : fold[T] = Step(fold, T)
  <2> HIDE DEF Step
  <2> QED BY <1>5
<1> DEFINE g == [k \in 0 .. n |-> fold[1 .. k]]
<1>7. Beginnings(g, fold, n)
  BY BeginningsRight
<1> HIDE DEF g
<1>8. DeclareSteps(g, b, s, n)
  BY <1>6, <1>7 DEF DeclareSteps, Beginnings
<1> QED BY <1>1, <1>7, <1>8 DEF Beginnings

\* What an updater computes.
RecomputeSteps(g, b, s, n) == g[0] = b /\ \A k \in 1 .. n : g[k] = Recompute(g[k - 1], s[k])

LEMMA RecomputeFold ==
  ASSUME NEW n \in Nat, NEW s, DOMAIN s = 1 .. n, NEW b
  PROVE  \E g : RecomputeSteps(g, b, s, n) /\ FoldLeft(Recompute, b, s) = g[n]
<1> DEFINE D == 1 .. n
           Step(f, T) == IF T = {} THEN b ELSE Recompute(f[T \ {Max(T)}], s[Max(T)])
           fold == CHOOSE f : f = [T \in SUBSET D |-> Step(f, T)]
           S == {k \in 0 .. n : \E h : h = [T \in SUBSET (1 .. k) |-> Step(h, T)]}
<1>1. FoldLeft(Recompute, b, s) = fold[D]
  BY DEF FoldLeft, MapThenFoldSet
<1>2. 0 \in S
  <2> DEFINE h == [T \in SUBSET (1 .. 0) |-> b]
  <2>1. h = [T \in SUBSET (1 .. 0) |-> Step(h, T)]
    <3>1. \A T \in SUBSET (1 .. 0) : T = {}
      OBVIOUS
    <3> QED BY <3>1
  <2> HIDE DEF Step, h
  <2> QED BY <2>1
<1>3. ASSUME NEW k \in 0 .. n, k < n /\ k \in S PROVE k + 1 \in S
  <2>1. PICK h : h = [T \in SUBSET (1 .. k) |-> Step(h, T)]
    BY <1>3
  <2> DEFINE e == [T \in SUBSET (1 .. k) |-> Recompute(h[T], s[k + 1])]
             g == [T \in SUBSET (1 .. (k + 1)) |-> IF k + 1 \in T THEN e[T \ {k + 1}] ELSE h[T]]
  <2>2. \A T \in SUBSET (1 .. k) : h[T] = Step(h, T)
    <3> HIDE DEF Step
    <3> QED BY <2>1
  <2>3. \A T \in SUBSET (1 .. k) : e[T] = Recompute(h[T], s[k + 1])
    OBVIOUS
  <2> HIDE DEF e
  <2>4. Extended(g, h, e, k)
    <3>1. g = [T \in SUBSET (1 .. (k + 1)) |-> IF k + 1 \in T THEN e[T \ {k + 1}] ELSE h[T]]
      OBVIOUS
    <3>2. k \in Nat
      OBVIOUS
    <3> HIDE DEF g
    <3> QED BY <3>1, <3>2, ExtendedRight
  <2> HIDE DEF g
  <2>5. \A T \in SUBSET (1 .. (k + 1)) : g[T] = Step(g, T)
    BY <2>2, <2>3, <2>4 DEF Extended
  <2>6. g = [T \in SUBSET (1 .. (k + 1)) |-> Step(g, T)]
    <3> HIDE DEF Step
    <3> QED BY <2>4, <2>5 DEF Extended
  <2>7. k + 1 \in 0 .. n
    BY <1>3
  <2> HIDE DEF Step
  <2> QED BY <2>6, <2>7
<1>4. n \in S
  <2> HIDE DEF S
  <2>1. 0 .. n \subseteq S
    BY <1>2, <1>3, UpTo
  <2> QED BY <2>1
<1>5. fold = [T \in SUBSET D |-> Step(fold, T)]
  <2> HIDE DEF Step
  <2> QED BY <1>4
<1> HIDE DEF fold, S
<1>6. \A T \in SUBSET D : fold[T] = Step(fold, T)
  <2> HIDE DEF Step
  <2> QED BY <1>5
<1> DEFINE g == [k \in 0 .. n |-> fold[1 .. k]]
<1>7. Beginnings(g, fold, n)
  BY BeginningsRight
<1> HIDE DEF g
<1>8. RecomputeSteps(g, b, s, n)
  BY <1>6, <1>7 DEF RecomputeSteps, Beginnings
<1> QED BY <1>1, <1>7, <1>8 DEF Beginnings

\* The updaters of a flush.
UpdateSteps(g, b, s, n) == g[0] = b /\ \A k \in 1 .. n : g[k] = Update(g[k - 1], s[k])

LEMMA UpdatesFold ==
  ASSUME NEW n \in Nat, NEW s, DOMAIN s = 1 .. n, NEW b
  PROVE  \E g : UpdateSteps(g, b, s, n) /\ FoldLeft(Update, b, s) = g[n]
<1> DEFINE D == 1 .. n
           Step(f, T) == IF T = {} THEN b ELSE Update(f[T \ {Max(T)}], s[Max(T)])
           fold == CHOOSE f : f = [T \in SUBSET D |-> Step(f, T)]
           S == {k \in 0 .. n : \E h : h = [T \in SUBSET (1 .. k) |-> Step(h, T)]}
<1>1. FoldLeft(Update, b, s) = fold[D]
  BY DEF FoldLeft, MapThenFoldSet
<1>2. 0 \in S
  <2> DEFINE h == [T \in SUBSET (1 .. 0) |-> b]
  <2>1. h = [T \in SUBSET (1 .. 0) |-> Step(h, T)]
    <3>1. \A T \in SUBSET (1 .. 0) : T = {}
      OBVIOUS
    <3> QED BY <3>1
  <2> HIDE DEF Step, h
  <2> QED BY <2>1
<1>3. ASSUME NEW k \in 0 .. n, k < n /\ k \in S PROVE k + 1 \in S
  <2>1. PICK h : h = [T \in SUBSET (1 .. k) |-> Step(h, T)]
    BY <1>3
  <2> DEFINE e == [T \in SUBSET (1 .. k) |-> Update(h[T], s[k + 1])]
             g == [T \in SUBSET (1 .. (k + 1)) |-> IF k + 1 \in T THEN e[T \ {k + 1}] ELSE h[T]]
  <2>2. \A T \in SUBSET (1 .. k) : h[T] = Step(h, T)
    <3> HIDE DEF Step
    <3> QED BY <2>1
  <2>3. \A T \in SUBSET (1 .. k) : e[T] = Update(h[T], s[k + 1])
    OBVIOUS
  <2> HIDE DEF e
  <2>4. Extended(g, h, e, k)
    <3>1. g = [T \in SUBSET (1 .. (k + 1)) |-> IF k + 1 \in T THEN e[T \ {k + 1}] ELSE h[T]]
      OBVIOUS
    <3>2. k \in Nat
      OBVIOUS
    <3> HIDE DEF g
    <3> QED BY <3>1, <3>2, ExtendedRight
  <2> HIDE DEF g
  <2>5. \A T \in SUBSET (1 .. (k + 1)) : g[T] = Step(g, T)
    BY <2>2, <2>3, <2>4 DEF Extended
  <2>6. g = [T \in SUBSET (1 .. (k + 1)) |-> Step(g, T)]
    <3> HIDE DEF Step
    <3> QED BY <2>4, <2>5 DEF Extended
  <2>7. k + 1 \in 0 .. n
    BY <1>3
  <2> HIDE DEF Step
  <2> QED BY <2>6, <2>7
<1>4. n \in S
  <2> HIDE DEF S
  <2>1. 0 .. n \subseteq S
    BY <1>2, <1>3, UpTo
  <2> QED BY <2>1
<1>5. fold = [T \in SUBSET D |-> Step(fold, T)]
  <2> HIDE DEF Step
  <2> QED BY <1>4
<1> HIDE DEF fold, S
<1>6. \A T \in SUBSET D : fold[T] = Step(fold, T)
  <2> HIDE DEF Step
  <2> QED BY <1>5
<1> DEFINE g == [k \in 0 .. n |-> fold[1 .. k]]
<1>7. Beginnings(g, fold, n)
  BY BeginningsRight
<1> HIDE DEF g
<1>8. UpdateSteps(g, b, s, n)
  BY <1>6, <1>7 DEF UpdateSteps, Beginnings
<1> QED BY <1>1, <1>7, <1>8 DEF Beginnings

-----------------------------------------------------------------------------
(* The bindings of a component that parses.                                *)

BindingsOK(c) ==
  /\ Len(c.bindings) \in Nat /\ DOMAIN c.bindings = 1 .. Len(c.bindings)
  /\ \A i \in 1 .. Len(c.bindings) : c.bindings[i] \in Range(c.bindings) /\ c.bindings[i].name \in Bound(c)
  /\ \A b \in Range(c.bindings) : \E i \in 1 .. Len(c.bindings) : b = c.bindings[i]
  /\ \A x \in Bound(c) : \E i \in 1 .. Len(c.bindings) : x = c.bindings[i].name
  /\ \A i, j \in 1 .. Len(c.bindings) : c.bindings[i].name = c.bindings[j].name => i = j

LEMMA BindingsProperties ==
  ASSUME NEW c \in Components, Parses(c)
  PROVE  BindingsOK(c)
<1>1. c.bindings \in Seq(Range(c.bindings))
  BY ComponentAssumption
<1>2. /\ Len(c.bindings) \in Nat /\ DOMAIN c.bindings = 1 .. Len(c.bindings)
      /\ \A i \in 1 .. Len(c.bindings) : c.bindings[i] \in Range(c.bindings)
      /\ Range(c.bindings) = {c.bindings[i] : i \in 1 .. Len(c.bindings)}
  BY <1>1, SeqPlaces
<1>3. \A i, j \in 1 .. Len(c.bindings) : c.bindings[i].name = c.bindings[j].name => i = j
  BY <1>2 DEF Parses, IsInjective
<1> QED BY <1>2, <1>3 DEF BindingsOK, Bound

\* The first place of a name, or 0.
PlaceRight(s, n, x) ==
  /\ PlaceOf(s, x) \in 0 .. n
  /\ PlaceOf(s, x) # 0 => s[PlaceOf(s, x)].name = x
  /\ \A i \in 1 .. n : s[i].name = x => PlaceOf(s, x) \in 1 .. i

LEMMA PlaceOfProperties ==
  ASSUME NEW n \in Nat, NEW s, DOMAIN s = 1 .. n, NEW x
  PROVE  PlaceRight(s, n, x)
<1> DEFINE places == {i \in DOMAIN s : s[i].name = x}
<1>1. CASE places = {}
  BY <1>1 DEF PlaceRight, PlaceOf
<1>2. CASE places # {}
  <2>1. places \subseteq Nat
    OBVIOUS
  <2>2. \E m \in places : \A y \in places : m <= y
    <3> HIDE DEF places
    <3> QED BY <1>2, <2>1, NatMin
  <2>3. Min(places) \in places /\ \A y \in places : Min(places) <= y
    <3> HIDE DEF places
    <3> QED BY <2>2 DEF Min
  <2>4. PlaceOf(s, x) = Min(places)
    BY <1>2 DEF PlaceOf
  <2>5. /\ PlaceOf(s, x) \in 1 .. n /\ s[PlaceOf(s, x)].name = x
        /\ \A i \in 1 .. n : s[i].name = x => PlaceOf(s, x) <= i
    BY <2>3, <2>4
  <2> HIDE DEF places
  <2> QED BY <2>5 DEF PlaceRight
<1> QED BY <1>1, <1>2

\* The place of a binding is the one it stands at.
LEMMA PositionRight ==
  ASSUME NEW c \in Components, Parses(c), NEW i \in 1 .. Len(c.bindings)
  PROVE  Position(c, c.bindings[i].name) = i
<1>1. BindingsOK(c)
  BY BindingsProperties
<1>2. PlaceRight(c.bindings, Len(c.bindings), c.bindings[i].name)
  BY <1>1, PlaceOfProperties DEF BindingsOK
<1> DEFINE j == Position(c, c.bindings[i].name)
<1>3. j \in 0 .. Len(c.bindings) /\ (j # 0 => c.bindings[j].name = c.bindings[i].name) /\ j \in 1 .. i
  BY <1>2 DEF PlaceRight, Position
<1> HIDE DEF j
<1>4. j \in 1 .. Len(c.bindings) /\ c.bindings[j].name = c.bindings[i].name
  BY <1>3
<1>5. j = i
  BY <1>1, <1>4 DEF BindingsOK
<1> QED BY <1>5 DEF j

-----------------------------------------------------------------------------
(* The graph: the bindings first, and sinks after them.                    *)

Node(c) == [name : Bound(c) \cup {"view:"}, kind : {"Source", "Derived", "Sink"}]

NodesOK(c, nodes) ==
  /\ Len(nodes) >= Len(c.bindings)
  /\ \A i \in 1 .. Len(nodes) :
       IF i <= Len(c.bindings)
       THEN nodes[i].name = c.bindings[i].name /\ nodes[i].kind = Kind(c.bindings[i].qualifier)
       ELSE nodes[i].kind = "Sink"

GraphsOf(c) ==
  {g \in [nodes : Seq(Node(c)), edges : Seq(Seq(Nat))] :
     Len(g.edges) = Len(g.nodes) /\ NodesOK(c, g.nodes)}

\* From g to h edges were added.
Wider(g, h) ==
  /\ h.nodes = g.nodes
  /\ \A i \in 1 .. Len(g.nodes) : Range(g.edges[i]) \subseteq Range(h.edges[i])

LEMMA GraphNames ==
  ASSUME NEW c \in Components, Parses(c), NEW g \in GraphsOf(c)
  PROVE  /\ \A x : NodeByName(g, x) \in 0 .. Len(g.nodes)
         /\ \A i \in 1 .. Len(c.bindings) : NodeByName(g, c.bindings[i].name) = i
<1>1. BindingsOK(c) /\ NodesOK(c, g.nodes) /\ Len(g.nodes) \in Nat /\ DOMAIN g.nodes = 1 .. Len(g.nodes)
  BY BindingsProperties DEF GraphsOf
<1>2. \A x : PlaceRight(g.nodes, Len(g.nodes), x)
  BY <1>1, PlaceOfProperties
<1>3. \A x : NodeByName(g, x) \in 0 .. Len(g.nodes)
  BY <1>2 DEF PlaceRight, NodeByName
<1>4. ASSUME NEW i \in 1 .. Len(c.bindings)
      PROVE  NodeByName(g, c.bindings[i].name) = i
  <2> DEFINE j == PlaceOf(g.nodes, c.bindings[i].name)
  <2>1. i \in 1 .. Len(g.nodes) /\ g.nodes[i].name = c.bindings[i].name
    BY <1>1 DEF NodesOK, BindingsOK
  <2>2. j \in 1 .. i /\ g.nodes[j].name = c.bindings[i].name
    BY <1>2, <2>1 DEF PlaceRight
  <2>3. j \in 1 .. Len(c.bindings) /\ j \in 1 .. Len(g.nodes) /\ j <= Len(c.bindings)
    BY <2>1, <2>2, <1>1 DEF BindingsOK
  <2>4. c.bindings[j].name = c.bindings[i].name
    <3> HIDE DEF j
    <3> QED BY <2>2, <2>3, <1>1 DEF NodesOK
  <2>5. j = i
    <3> HIDE DEF j
    <3> QED BY <2>3, <2>4, <1>1 DEF BindingsOK
  <2> QED BY <2>5 DEF NodeByName
<1> QED BY <1>3, <1>4

\* What a list holds after one more is put at its end.
Appended(t, s, x) ==
  /\ Len(t) = Len(s) + 1 /\ t[Len(s) + 1] = x
  /\ \A i \in 1 .. Len(s) : t[i] = s[i]
  /\ Range(t) = Range(s) \cup {x}

LEMMA AppendedRight ==
  ASSUME NEW S, NEW s \in Seq(S), NEW x
  PROVE  Appended(Append(s, x), s, x)
<1>1. DOMAIN s = 1 .. Len(s) /\ Len(s) \in Nat
  OBVIOUS
<1>2. DOMAIN Append(s, x) = 1 .. (Len(s) + 1) /\ Append(s, x)[Len(s) + 1] = x
      /\ (\A i \in 1 .. Len(s) : Append(s, x)[i] = s[i]) /\ Len(Append(s, x)) = Len(s) + 1
  OBVIOUS
<1>3. 1 .. (Len(s) + 1) = (1 .. Len(s)) \cup {Len(s) + 1}
  BY <1>1
<1> HIDE DEF Range
<1>4. Range(Append(s, x)) = {Append(s, x)[i] : i \in (1 .. Len(s)) \cup {Len(s) + 1}}
  BY <1>2, <1>3 DEF Range
<1>5. Range(s) = {s[i] : i \in 1 .. Len(s)}
  BY <1>1 DEF Range
<1>6. Range(Append(s, x)) = Range(s) \cup {x}
  BY <1>2, <1>4, <1>5
<1> QED BY <1>2, <1>6 DEF Appended

LEMMA AddEdgeProperties ==
  ASSUME NEW c, NEW g \in GraphsOf(c), NEW from \in 1 .. Len(g.nodes), NEW to \in Nat
  PROVE  /\ AddEdge(g, from, to) \in GraphsOf(c)
         /\ Wider(g, AddEdge(g, from, to))
         /\ to \in Range(AddEdge(g, from, to).edges[from])
<1>1. /\ g = [nodes |-> g.nodes, edges |-> g.edges] /\ g.nodes \in Seq(Node(c)) /\ g.edges \in Seq(Seq(Nat))
      /\ Len(g.edges) = Len(g.nodes) /\ NodesOK(c, g.nodes)
  BY DEF GraphsOf
<1>2. CASE to \in Range(g.edges[from])
  BY <1>2 DEF AddEdge, Wider
<1>3. CASE to \notin Range(g.edges[from])
  <2> DEFINE e == [g.edges EXCEPT ![from] = Append(@, to)]
  <2>1. AddEdge(g, from, to) = [nodes |-> g.nodes, edges |-> e]
    BY <1>1, <1>3 DEF AddEdge
  <2>2. g.edges[from] \in Seq(Nat) /\ from \in DOMAIN g.edges
    BY <1>1
  <2>3. e \in Seq(Seq(Nat)) /\ Len(e) = Len(g.edges) /\ e[from] = Append(g.edges[from], to)
        /\ \A i \in 1 .. Len(g.nodes) : i # from => e[i] = g.edges[i]
    BY <1>1, <2>2
  <2>4. Range(e[from]) = Range(g.edges[from]) \cup {to}
    <3>1. Appended(Append(g.edges[from], to), g.edges[from], to)
      BY <2>2, AppendedRight
    <3> QED BY <2>3, <3>1 DEF Appended
  <2>5. \A i \in 1 .. Len(g.nodes) : Range(g.edges[i]) \subseteq Range(e[i])
    BY <2>3, <2>4
  <2> HIDE DEF e
  <2>6. [nodes |-> g.nodes, edges |-> e] \in GraphsOf(c)
    BY <1>1, <2>3 DEF GraphsOf
  <2> QED BY <2>1, <2>4, <2>5, <2>6 DEF Wider
<1> QED BY <1>2, <1>3

\* The bindings alone.
LEMMA BindingsGraph ==
  ASSUME NEW c \in Components, Parses(c)
  PROVE  AddBindings(c.bindings) \in GraphsOf(c)
<1> DEFINE n == Len(c.bindings)
           A == [nodes : Seq(Node(c)), edges : Seq(Seq(Nat))]
<1>1. BindingsOK(c)
  BY BindingsProperties
<1>2. \A b \in Range(c.bindings) : b.name \in Bound(c)
  BY DEF Bound
<1>3. ASSUME NEW g \in A, NEW b \in Range(c.bindings)
      PROVE  AddBinding(g, b) = [nodes |-> Append(g.nodes, [name |-> b.name, kind |-> Kind(b.qualifier)]),
                                 edges |-> Append(g.edges, <<>>)]
             /\ AddBinding(g, b) \in A
  <2>1. [name |-> b.name, kind |-> Kind(b.qualifier)] \in Node(c)
    BY <1>2 DEF Node, Kind
  <2>2. <<>> \in Seq(Nat) /\ g.nodes \in Seq(Node(c)) /\ g.edges \in Seq(Seq(Nat))
    OBVIOUS
  <2> QED BY <2>1, <2>2 DEF AddBinding, AddNode
<1>4. EmptyGraph \in A
  BY DEF EmptyGraph
<1>5. n \in Nat /\ DOMAIN c.bindings = 1 .. n /\ \A k \in 1 .. n : c.bindings[k] \in Range(c.bindings)
  BY <1>1 DEF BindingsOK
<1> HIDE DEF A
<1>6. PICK g : /\ BindingSteps(g, EmptyGraph, c.bindings, n)
               /\ FoldLeft(AddBinding, EmptyGraph, c.bindings) = g[n]
               /\ \A k \in 0 .. n : g[k] \in A
  BY <1>3, <1>4, <1>5, BindingsFold
<1> DEFINE Right(k) ==
             /\ Len(g[k].nodes) = k /\ Len(g[k].edges) = k
             /\ \A i \in 1 .. k : /\ g[k].nodes[i].name = c.bindings[i].name
                                  /\ g[k].nodes[i].kind = Kind(c.bindings[i].qualifier)
           S == {k \in 0 .. n : Right(k)}
<1>7. 0 \in S
  <2>1. g[0] = [nodes |-> <<>>, edges |-> <<>>]
    BY <1>6 DEF BindingSteps, EmptyGraph
  <2> QED BY <2>1, <1>5
<1>8. ASSUME NEW k \in 0 .. n, k < n /\ k \in S PROVE k + 1 \in S
  <2> DEFINE b == c.bindings[k + 1]
  <2>1. k + 1 \in 1 .. n /\ (k + 1) - 1 = k /\ b \in Range(c.bindings)
    BY <1>5, <1>8
  <2>2. g[k + 1] = AddBinding(g[k], b) /\ g[k] \in A
    BY <1>6, <2>1 DEF BindingSteps
  <2>3. g[k + 1] = [nodes |-> Append(g[k].nodes, [name |-> b.name, kind |-> Kind(b.qualifier)]),
                    edges |-> Append(g[k].edges, <<>>)]
    BY <1>3, <2>1, <2>2
  <2>4. g[k].nodes \in Seq(Node(c)) /\ g[k].edges \in Seq(Seq(Nat)) /\ Len(g[k].nodes) = k /\ Len(g[k].edges) = k
    BY <1>8, <2>2 DEF A
  <2>5. Appended(g[k + 1].nodes, g[k].nodes, [name |-> b.name, kind |-> Kind(b.qualifier)])
        /\ Appended(g[k + 1].edges, g[k].edges, <<>>)
    <3>1. /\ g[k + 1].nodes = Append(g[k].nodes, [name |-> b.name, kind |-> Kind(b.qualifier)])
          /\ g[k + 1].edges = Append(g[k].edges, <<>>)
      BY <2>3
    <3> QED BY <2>4, <3>1, AppendedRight
  <2>6. /\ Len(g[k + 1].nodes) = k + 1 /\ Len(g[k + 1].edges) = k + 1
        /\ g[k + 1].nodes[k + 1] = [name |-> b.name, kind |-> Kind(b.qualifier)]
        /\ \A i \in 1 .. k : g[k + 1].nodes[i] = g[k].nodes[i]
    BY <2>4, <2>5 DEF Appended
  <2>7. \A i \in 1 .. (k + 1) : i = k + 1 \/ i \in 1 .. k
    BY <2>1
  <2>8. \A i \in 1 .. k : g[k].nodes[i].name = c.bindings[i].name
                         /\ g[k].nodes[i].kind = Kind(c.bindings[i].qualifier)
    BY <1>8
  <2>9. g[k + 1].nodes[k + 1].name = b.name /\ g[k + 1].nodes[k + 1].kind = Kind(b.qualifier)
    BY <2>6
  <2>10. ASSUME NEW i \in 1 .. (k + 1)
         PROVE  g[k + 1].nodes[i].name = c.bindings[i].name /\ g[k + 1].nodes[i].kind = Kind(c.bindings[i].qualifier)
    <3>1. CASE i = k + 1
      BY <2>9, <3>1
    <3>2. CASE i \in 1 .. k
      BY <2>6, <2>8, <3>2
    <3> QED BY <2>7, <3>1, <3>2
  <2>11. Right(k + 1)
    BY <2>6, <2>10
  <2> QED BY <2>1, <2>11
<1>9. n \in S
  <2> HIDE DEF S
  <2>1. 0 .. n \subseteq S
    BY <1>5, <1>7, <1>8, UpTo
  <2> QED BY <1>5, <2>1
<1>10. g[n] \in A /\ Right(n)
  BY <1>5, <1>6, <1>9
<1> QED BY <1>5, <1>6, <1>10 DEF GraphsOf, NodesOK, AddBindings, A

\* A sink comes after the bindings.
LEMMA SinkGraph ==
  ASSUME NEW c \in Components, Parses(c), NEW g \in GraphsOf(c), NEW x
  PROVE  AddSink(g, x) \in GraphsOf(c)
<1> DEFINE src == NodeByName(g, x)
           h == AddNode(g, "view:", "Sink")
<1>1. src \in Nat
  BY GraphNames DEF GraphsOf
<1>2. g.nodes \in Seq(Node(c)) /\ g.edges \in Seq(Seq(Nat)) /\ Len(g.edges) = Len(g.nodes) /\ NodesOK(c, g.nodes)
  BY DEF GraphsOf
<1>3. h = [nodes |-> Append(g.nodes, [name |-> "view:", kind |-> "Sink"]), edges |-> Append(g.edges, <<>>)]
  BY DEF AddNode
<1> HIDE DEF h
<1>4. [name |-> "view:", kind |-> "Sink"] \in Node(c) /\ <<>> \in Seq(Nat)
  BY DEF Node
<1>5. h.nodes \in Seq(Node(c)) /\ h.edges \in Seq(Seq(Nat))
  BY <1>2, <1>3, <1>4
<1>6. /\ Len(h.edges) = Len(g.nodes) + 1 /\ Len(h.nodes) = Len(g.nodes) + 1
      /\ h.nodes[Len(g.nodes) + 1].kind = "Sink" /\ \A i \in 1 .. Len(g.nodes) : h.nodes[i] = g.nodes[i]
  <2>1. Appended(h.nodes, g.nodes, [name |-> "view:", kind |-> "Sink"])
    BY <1>2, <1>3, AppendedRight
  <2>2. Appended(h.edges, g.edges, <<>>)
    BY <1>2, <1>3, AppendedRight
  <2>3. Len(h.edges) = Len(g.nodes) + 1
    BY <1>2, <2>2 DEF Appended
  <2>4. h.nodes[Len(g.nodes) + 1].kind = "Sink"
    BY <2>1 DEF Appended
  <2>5. Len(h.nodes) = Len(g.nodes) + 1 /\ \A i \in 1 .. Len(g.nodes) : h.nodes[i] = g.nodes[i]
    BY <2>1 DEF Appended
  <2> QED BY <2>3, <2>4, <2>5
<1>7. NodesOK(c, h.nodes)
  <2>1. Len(g.nodes) \in Nat /\ Len(c.bindings) \in Nat /\ Len(g.nodes) >= Len(c.bindings)
    BY <1>2, BindingsProperties DEF NodesOK, BindingsOK
  <2>2. \A i \in 1 .. Len(h.nodes) : i \in 1 .. Len(g.nodes) \/ (i = Len(g.nodes) + 1 /\ ~(i <= Len(c.bindings)))
    BY <1>6, <2>1
  <2>3. Len(h.nodes) >= Len(c.bindings)
    BY <1>6, <2>1
  <2>4. ASSUME NEW i \in 1 .. Len(h.nodes)
        PROVE  IF i <= Len(c.bindings)
               THEN h.nodes[i].name = c.bindings[i].name /\ h.nodes[i].kind = Kind(c.bindings[i].qualifier)
               ELSE h.nodes[i].kind = "Sink"
    <3>1. CASE i \in 1 .. Len(g.nodes)
      BY <1>2, <1>6, <3>1 DEF NodesOK
    <3>2. CASE i = Len(g.nodes) + 1 /\ ~(i <= Len(c.bindings))
      BY <1>6, <3>2
    <3> QED BY <2>2, <3>1, <3>2
  <2> QED BY <2>3, <2>4 DEF NodesOK
<1>8. h \in GraphsOf(c)
  <2>1. h = [nodes |-> h.nodes, edges |-> h.edges]
    BY <1>3
  <2> QED BY <1>5, <1>6, <1>7, <2>1 DEF GraphsOf
<1>9. Len(g.nodes) + 1 \in 1 .. Len(h.nodes)
  BY <1>2, <1>6
<1>10. AddEdge(h, Len(g.nodes) + 1, src) \in GraphsOf(c)
  <2> HIDE DEF src
  <2> QED BY <1>1, <1>8, <1>9, AddEdgeProperties
<1> QED BY <1>10, g \in GraphsOf(c) DEF AddSink, h

LEMMA SinksGraph ==
  ASSUME NEW c \in Components, Parses(c)
  PROVE  AddSinks(AddBindings(c.bindings), TemplateRefs(c.view)) \in GraphsOf(c)
<1> DEFINE xs == TemplateRefs(c.view)
           n == Len(xs)
           b == AddBindings(c.bindings)
           A == GraphsOf(c)
<1>1. n \in Nat /\ DOMAIN xs = 1 .. n
  BY ComponentAssumption, SeqPlaces
<1>2. b \in A
  BY BindingsGraph
<1>3. \A g \in A, k \in 1 .. n : AddSink(g, xs[k]) \in A
  BY SinkGraph
<1> HIDE DEF A, b, xs
<1>4. PICK g : SinkSteps(g, b, xs, n) /\ AddSinks(b, xs) = g[n] /\ \A k \in 0 .. n : g[k] \in A
  BY <1>1, <1>2, <1>3, SinksFold
<1> QED BY <1>1, <1>4 DEF A, b, xs

LEMMA WiderFurther ==
  ASSUME NEW g, NEW h, NEW k, Wider(g, h), Wider(h, k)
  PROVE  Wider(g, k)
BY DEF Wider

\* Binding i has an edge to each binding that it reads.
EdgesOf(c, g, i) ==
  \A j \in 1 .. Len(c.bindings) :
    c.bindings[j].name \in Range(ExprRefs(c.bindings[i].value)) => j \in Range(g.edges[i])

LEMMA EdgesKept ==
  ASSUME NEW c \in Components, Parses(c), NEW g \in GraphsOf(c), NEW h, Wider(g, h),
         NEW i \in 1 .. Len(c.bindings), EdgesOf(c, g, i)
  PROVE  EdgesOf(c, h, i)
<1>1. i \in 1 .. Len(g.nodes)
  BY BindingsProperties DEF GraphsOf, NodesOK, BindingsOK
<1> QED BY <1>1 DEF EdgesOf, Wider

LEMMA ReferenceProperties ==
  ASSUME NEW c \in Components, Parses(c), NEW g \in GraphsOf(c),
         NEW i \in 1 .. Len(c.bindings), NEW x
  PROVE  /\ AddReference(g, <<c.bindings[i].name, x>>) \in GraphsOf(c)
         /\ Wider(g, AddReference(g, <<c.bindings[i].name, x>>))
         /\ \A j \in 1 .. Len(c.bindings) :
              c.bindings[j].name = x => j \in Range(AddReference(g, <<c.bindings[i].name, x>>).edges[i])
<1> DEFINE r == <<c.bindings[i].name, x>>
           to == NodeByName(g, x)
<1>1. NodeByName(g, r[1]) = i /\ r[2] = x /\ to \in Nat
      /\ \A j \in 1 .. Len(c.bindings) : c.bindings[j].name = x => to = j
  <2>1. to \in 0 .. Len(g.nodes) /\ \A j \in 1 .. Len(c.bindings) : NodeByName(g, c.bindings[j].name) = j
    BY GraphNames
  <2>2. Len(g.nodes) \in Nat
    BY DEF GraphsOf
  <2>3. to \in Nat
    BY <2>1, <2>2
  <2> QED BY <2>1, <2>3
<1>2. i \in 1 .. Len(g.nodes)
  BY BindingsProperties DEF GraphsOf, NodesOK, BindingsOK
<1>3. CASE to = 0
  <2>1. AddReference(g, r) = g
    BY <1>1, <1>3 DEF AddReference
  <2>2. \A j \in 1 .. Len(c.bindings) : c.bindings[j].name # x
    BY <1>1, <1>3
  <2> QED BY <2>1, <2>2 DEF Wider
<1>4. CASE to # 0
  <2>1. AddReference(g, r) = AddEdge(g, i, to)
    BY <1>1, <1>4 DEF AddReference
  <2>2. /\ AddEdge(g, i, to) \in GraphsOf(c) /\ Wider(g, AddEdge(g, i, to))
        /\ to \in Range(AddEdge(g, i, to).edges[i])
    BY <1>1, <1>2, AddEdgeProperties
  <2> QED BY <1>1, <2>1, <2>2
<1> QED BY <1>3, <1>4

LEMMA MemoReferences ==
  ASSUME NEW c \in Components, Parses(c), NEW g \in GraphsOf(c),
         NEW i \in 1 .. Len(c.bindings), c.bindings[i].value # NoExpr
  PROVE  /\ AddReferences(g, References(c.bindings[i])) \in GraphsOf(c)
         /\ Wider(g, AddReferences(g, References(c.bindings[i])))
         /\ EdgesOf(c, AddReferences(g, References(c.bindings[i])), i)
<1> DEFINE b == c.bindings[i]
           xs == ExprRefs(b.value)
           rs == References(b)
           n == Len(xs)
           A == GraphsOf(c)
<1>1. n \in Nat /\ DOMAIN xs = 1 .. n /\ Range(xs) = {xs[k] : k \in 1 .. n}
  <2>1. b \in Range(c.bindings)
    BY BindingsProperties DEF BindingsOK
  <2>2. xs \in Seq(Range(xs))
    BY <2>1, ComponentAssumption
  <2> QED BY <2>2, SeqPlaces
<1>2. DOMAIN rs = 1 .. n /\ \A k \in 1 .. n : rs[k] = <<b.name, xs[k]>>
  BY <1>1 DEF References
<1>3. \A h \in A, k \in 1 .. n : AddReference(h, rs[k]) \in A
  BY <1>2, ReferenceProperties
<1> HIDE DEF A, rs, xs
<1>4. PICK h : ReferenceSteps(h, g, rs, n) /\ AddReferences(g, rs) = h[n] /\ \A k \in 0 .. n : h[k] \in A
  <2>1. g \in A
    BY DEF A
  <2> QED BY <1>1, <1>2, <1>3, <2>1, ReferencesFold
<1> DEFINE Right(k) == /\ Wider(g, h[k])
                       /\ \A l \in 1 .. k, j \in 1 .. Len(c.bindings) :
                            c.bindings[j].name = xs[l] => j \in Range(h[k].edges[i])
           S == {k \in 0 .. n : Right(k)}
<1>5. 0 \in S
  <2>1. h[0] = g
    BY <1>4 DEF ReferenceSteps
  <2> QED BY <1>1, <2>1 DEF Wider
<1>6. ASSUME NEW k \in 0 .. n, k < n /\ k \in S PROVE k + 1 \in S
  <2>1. k + 1 \in 1 .. n /\ (k + 1) - 1 = k /\ k + 1 \in 0 .. n
    BY <1>1, <1>6
  <2>2. h[k + 1] = AddReference(h[k], <<b.name, xs[k + 1]>>) /\ h[k] \in GraphsOf(c)
    BY <1>2, <1>4, <2>1 DEF ReferenceSteps, A
  <2>3. /\ Wider(h[k], h[k + 1])
        /\ \A j \in 1 .. Len(c.bindings) : c.bindings[j].name = xs[k + 1] => j \in Range(h[k + 1].edges[i])
    BY <2>2, ReferenceProperties
  <2>4. Wider(g, h[k + 1])
    BY <1>6, <2>3, WiderFurther
  <2>5. i \in 1 .. Len(h[k].nodes)
    BY <2>2, BindingsProperties DEF GraphsOf, NodesOK, BindingsOK
  <2>6. Range(h[k].edges[i]) \subseteq Range(h[k + 1].edges[i])
    BY <2>3, <2>5 DEF Wider
  <2>7. ASSUME NEW l \in 1 .. (k + 1), NEW j \in 1 .. Len(c.bindings), c.bindings[j].name = xs[l]
        PROVE  j \in Range(h[k + 1].edges[i])
    <3>1. CASE l = k + 1
      BY <2>3, <2>7, <3>1
    <3>2. CASE l # k + 1
      <4>1. l \in 1 .. k
        BY <2>1, <3>2
      <4> QED BY <1>6, <2>6, <2>7, <4>1
    <3> QED BY <3>1, <3>2
  <2> QED BY <2>1, <2>4, <2>7
<1>7. n \in S
  <2> HIDE DEF S
  <2>1. 0 .. n \subseteq S
    BY <1>1, <1>5, <1>6, UpTo
  <2> QED BY <1>1, <2>1
<1>8. Right(n) /\ h[n] \in GraphsOf(c)
  BY <1>1, <1>4, <1>7 DEF A
<1>9. EdgesOf(c, h[n], i)
  <2>1. \A x \in Range(xs) : \E l \in 1 .. n : x = xs[l]
    BY <1>1
  <2> QED BY <1>8, <2>1 DEF EdgesOf, xs
<1> QED BY <1>4, <1>8, <1>9 DEF rs

\* Once analysed, every memo has an edge to each binding that it reads.
Analysed(c, g) ==
  /\ g \in GraphsOf(c)
  /\ \A i \in 1 .. Len(c.bindings) :
       c.bindings[i].qualifier = "memo" /\ c.bindings[i].value # NoExpr => EdgesOf(c, g, i)

LEMMA AnalyseProperties ==
  ASSUME NEW c \in Components, Parses(c)
  PROVE  Analysed(c, Analyse(c))
<1> DEFINE A == GraphsOf(c)
           g == AddSinks(AddBindings(c.bindings), TemplateRefs(c.view))
           bs == c.bindings
           n == Len(bs)
<1>1. n \in Nat /\ DOMAIN bs = 1 .. n
  BY BindingsProperties DEF BindingsOK
<1>2. g \in A
  BY SinksGraph
<1>3. ASSUME NEW h \in A, NEW k \in 1 .. n
      PROVE  /\ AddMemo(h, bs[k]) \in A /\ Wider(h, AddMemo(h, bs[k]))
             /\ bs[k].qualifier = "memo" /\ bs[k].value # NoExpr => EdgesOf(c, AddMemo(h, bs[k]), k)
  <2>1. CASE bs[k].qualifier # "memo" \/ bs[k].value = NoExpr
    <3>1. AddMemo(h, bs[k]) = h
      BY <2>1 DEF AddMemo
    <3> QED BY <2>1, <3>1 DEF Wider
  <2>2. CASE ~(bs[k].qualifier # "memo" \/ bs[k].value = NoExpr)
    <3>1. AddMemo(h, bs[k]) = AddReferences(h, References(bs[k]))
      BY <2>2 DEF AddMemo
    <3> QED BY <2>2, <3>1, MemoReferences
  <2> QED BY <2>1, <2>2
<1> HIDE DEF A, g
<1>4. PICK h : MemoSteps(h, g, bs, n) /\ AddMemos(g, bs) = h[n] /\ \A k \in 0 .. n : h[k] \in A
  BY <1>1, <1>2, <1>3, MemosFold
<1> DEFINE Right(k) == \A i \in 1 .. k :
                         bs[i].qualifier = "memo" /\ bs[i].value # NoExpr => EdgesOf(c, h[k], i)
           S == {k \in 0 .. n : Right(k)}
<1>5. 0 \in S
  BY <1>1
<1>6. ASSUME NEW k \in 0 .. n, k < n /\ k \in S PROVE k + 1 \in S
  <2>1. k + 1 \in 1 .. n /\ (k + 1) - 1 = k /\ k + 1 \in 0 .. n
    BY <1>1, <1>6
  <2>2. h[k + 1] = AddMemo(h[k], bs[k + 1]) /\ h[k] \in A
    BY <1>4, <2>1 DEF MemoSteps
  <2>3. /\ Wider(h[k], h[k + 1])
        /\ bs[k + 1].qualifier = "memo" /\ bs[k + 1].value # NoExpr => EdgesOf(c, h[k + 1], k + 1)
    BY <1>3, <2>1, <2>2
  <2>4. ASSUME NEW i \in 1 .. (k + 1), bs[i].qualifier = "memo", bs[i].value # NoExpr
        PROVE  EdgesOf(c, h[k + 1], i)
    <3>1. CASE i = k + 1
      BY <2>3, <2>4, <3>1
    <3>2. CASE i # k + 1
      <4>1. i \in 1 .. k /\ i \in 1 .. n
        BY <2>1, <3>2
      <4>2. EdgesOf(c, h[k], i)
        BY <1>6, <2>4, <4>1
      <4> QED BY <2>2, <2>3, <4>1, <4>2, EdgesKept DEF A
    <3> QED BY <3>1, <3>2
  <2> QED BY <2>1, <2>4
<1>7. n \in S
  <2> HIDE DEF S
  <2>1. 0 .. n \subseteq S
    BY <1>1, <1>5, <1>6, UpTo
  <2> QED BY <1>1, <2>1
<1>8. Right(n) /\ h[n] \in A
  BY <1>1, <1>4, <1>7
<1> QED BY <1>4, <1>8 DEF Analysed, Analyse, A, g

-----------------------------------------------------------------------------
(* The search for dependents.                                              *)

\* The states of a search on g.
Searches(g) ==
  [g : {g}, at : Nat, visited : SUBSET (1 .. Len(g.nodes)),
   queue : Seq(1 .. Len(g.nodes)), result : Seq(1 .. Len(g.nodes))]

\* Those of the first k nodes that depend on id.
Depending(g, id, k) == {n \in 1 .. k : id \in Range(g.edges[n])}

LEMMA VisitedFinite ==
  ASSUME NEW n \in Nat, NEW V \in SUBSET (1 .. n)
  PROVE  IsFiniteSet(V) /\ Cardinality(V) \in Nat /\ Cardinality(V) <= n
<1>1. IsFiniteSet(1 .. n) /\ Cardinality(1 .. n) = n
  <2>1. IsFiniteSet(1 .. n) /\ Cardinality(1 .. n) = IF 1 > n THEN 0 ELSE n - 1 + 1
    BY FS_Interval
  <2> QED BY <2>1
<1> QED BY <1>1, FS_Subset, FS_CardinalityType

\* From s to t those in V were met: they are visited, and wait in the queue.
Met(t, s, V) ==
  /\ t.at = s.at /\ t.result = s.result
  /\ t.visited = s.visited \cup V
  /\ Range(t.queue) = Range(s.queue) \cup (V \ s.visited)
  /\ Cardinality(t.visited) - Len(t.queue) = Cardinality(s.visited) - Len(s.queue)

LEMMA MeetProperties ==
  ASSUME NEW g, Len(g.nodes) \in Nat, NEW s \in Searches(g), NEW n \in 1 .. Len(g.nodes)
  PROVE  /\ Meet(s, n) \in Searches(g)
         /\ Met(Meet(s, n), s, IF s.at \in Range(g.edges[n]) THEN {n} ELSE {})
<1> DEFINE N == Len(g.nodes)
<1>1. /\ s.g = g /\ s.at \in Nat /\ s.visited \in SUBSET (1 .. N) /\ s.queue \in Seq(1 .. N) /\ s.result \in Seq(1 .. N)
      /\ s = [g |-> g, at |-> s.at, visited |-> s.visited, queue |-> s.queue, result |-> s.result]
  BY DEF Searches
<1>2. CASE s.at \in Range(g.edges[n]) /\ n \notin s.visited
  <2>1. Meet(s, n) = [g |-> g, at |-> s.at, visited |-> s.visited \cup {n}, queue |-> Append(s.queue, n), result |-> s.result]
    BY <1>1, <1>2 DEF Meet
  <2>2. Appended(Append(s.queue, n), s.queue, n) /\ Append(s.queue, n) \in Seq(1 .. N)
    BY <1>1, AppendedRight
  <2>3. Cardinality(s.visited) \in Nat /\ Cardinality(s.visited \cup {n}) = Cardinality(s.visited) + 1
    <3>1. IsFiniteSet(s.visited) /\ Cardinality(s.visited) \in Nat
      BY <1>1, VisitedFinite
    <3> QED BY <1>2, <3>1, FS_AddElement
  <2>4. Len(s.queue) \in Nat /\ Len(Append(s.queue, n)) = Len(s.queue) + 1
        /\ Range(Append(s.queue, n)) = Range(s.queue) \cup {n}
    BY <1>1, <2>2 DEF Appended
  <2>5. Cardinality(s.visited \cup {n}) - Len(Append(s.queue, n)) = Cardinality(s.visited) - Len(s.queue)
    BY <2>3, <2>4
  <2>6. Meet(s, n) \in Searches(g)
    BY <1>1, <2>1, <2>2 DEF Searches
  <2> QED BY <1>2, <2>1, <2>4, <2>5, <2>6 DEF Met
<1>3. CASE ~(s.at \in Range(g.edges[n]) /\ n \notin s.visited)
  <2>1. Meet(s, n) = s
    BY <1>1, <1>3 DEF Meet
  <2> QED BY <1>3, <2>1 DEF Met
<1> QED BY <1>2, <1>3

LEMMA LookProperties ==
  ASSUME NEW g, Len(g.nodes) \in Nat, DOMAIN g.nodes = 1 .. Len(g.nodes), NEW s \in Searches(g)
  PROVE  /\ Look(s) \in Searches(g)
         /\ Met(Look(s), s, Depending(g, s.at, Len(g.nodes)))
<1> DEFINE N == Len(g.nodes)
           ids == [n \in DOMAIN s.g.nodes |-> n]
           A == Searches(g)
<1>1. s.g = g /\ DOMAIN ids = 1 .. N /\ \A k \in 1 .. N : ids[k] = k
  BY DEF Searches
<1>2. \A t \in A, k \in 1 .. N : Meet(t, ids[k]) \in A
  BY <1>1, MeetProperties
<1>3. Look(s) = FoldLeft(Meet, s, ids)
  BY DEF Look
<1> HIDE DEF A, ids
<1>4. PICK t : MeetSteps(t, s, ids, N) /\ FoldLeft(Meet, s, ids) = t[N] /\ \A k \in 0 .. N : t[k] \in A
  <2>1. s \in A
    BY DEF A
  <2> QED BY <1>1, <1>2, <2>1, MeetFold
<1> DEFINE S == {k \in 0 .. N : Met(t[k], s, Depending(g, s.at, k))}
<1>5. 0 \in S
  <2>1. t[0] = s /\ Depending(g, s.at, 0) = {}
    BY <1>4 DEF MeetSteps, Depending
  <2> QED BY <2>1 DEF Met
<1>6. ASSUME NEW k \in 0 .. N, k < N /\ k \in S PROVE k + 1 \in S
  <2> DEFINE V == IF s.at \in Range(g.edges[k + 1]) THEN {k + 1} ELSE {}
  <2>1. k + 1 \in 1 .. N /\ (k + 1) - 1 = k /\ k + 1 \in 0 .. N
    BY <1>6
  <2>2. t[k + 1] = Meet(t[k], k + 1) /\ t[k] \in Searches(g) /\ t[k + 1] \in Searches(g)
    BY <1>1, <1>4, <2>1 DEF MeetSteps, A
  <2>3. Met(t[k], s, Depending(g, s.at, k))
    BY <1>6
  <2>4. t[k].at = s.at
    BY <2>3 DEF Met
  <2>5. Met(t[k + 1], t[k], V)
    BY <2>1, <2>2, <2>4, MeetProperties
  <2>6. Depending(g, s.at, k + 1) = Depending(g, s.at, k) \cup V
    <3>1. 1 .. (k + 1) = (1 .. k) \cup {k + 1}
      BY <2>1
    <3> QED BY <3>1 DEF Depending
  <2> HIDE DEF V
  <2>7. Range(t[k + 1].queue) = Range(s.queue) \cup (Depending(g, s.at, k + 1) \ s.visited)
    BY <2>3, <2>5, <2>6 DEF Met
  <2>8. Cardinality(t[k + 1].visited) - Len(t[k + 1].queue) = Cardinality(s.visited) - Len(s.queue)
    BY <2>3, <2>5 DEF Met
  <2>9. Met(t[k + 1], s, Depending(g, s.at, k + 1))
    BY <2>3, <2>5, <2>6, <2>7, <2>8 DEF Met
  <2> QED BY <2>1, <2>9
<1>7. N \in S
  <2> HIDE DEF S
  <2>1. 0 .. N \subseteq S
    BY <1>5, <1>6, UpTo
  <2> QED BY <2>1
<1> QED BY <1>3, <1>4, <1>7 DEF A

\* The first of a list and the others.
LEMMA HeadAndTail ==
  ASSUME NEW S, NEW s \in Seq(S), s # <<>>
  PROVE  /\ Head(s) \in S /\ Tail(s) \in Seq(S) /\ Len(Tail(s)) = Len(s) - 1 /\ Len(s) \in Nat /\ Len(s) > 0
         /\ Range(s) = {Head(s)} \cup Range(Tail(s))
<1>1. Head(s) \in S /\ Tail(s) \in Seq(S) /\ Len(Tail(s)) = Len(s) - 1 /\ Len(s) \in Nat /\ Len(s) > 0
  OBVIOUS
<1>2. Head(s) = s[1] /\ \A i \in 1 .. (Len(s) - 1) : Tail(s)[i] = s[i + 1]
  OBVIOUS
<1>3. DOMAIN s = 1 .. Len(s) /\ DOMAIN Tail(s) = 1 .. (Len(s) - 1)
  BY <1>1
<1>4. Range(s) \subseteq {Head(s)} \cup Range(Tail(s))
  <2> SUFFICES ASSUME NEW i \in 1 .. Len(s) PROVE s[i] \in {Head(s)} \cup Range(Tail(s))
    BY <1>3 DEF Range
  <2>1. CASE i = 1
    BY <1>2, <2>1
  <2>2. CASE i # 1
    <3>1. i - 1 \in 1 .. (Len(s) - 1) /\ Tail(s)[i - 1] = s[i]
      BY <1>1, <1>2, <2>2
    <3> QED BY <1>3, <3>1 DEF Range
  <2> QED BY <2>1, <2>2
<1>5. {Head(s)} \cup Range(Tail(s)) \subseteq Range(s)
  <2>1. Head(s) \in Range(s)
    <3>1. 1 \in DOMAIN s
      BY <1>1, <1>3
    <3> QED BY <1>2, <3>1 DEF Range
  <2>2. ASSUME NEW i \in 1 .. (Len(s) - 1) PROVE Tail(s)[i] \in Range(s)
    <3>1. i + 1 \in DOMAIN s /\ Tail(s)[i] = s[i + 1]
      BY <1>1, <1>2, <1>3
    <3> QED BY <3>1 DEF Range
  <2>3. \A e \in Range(Tail(s)) : e \in Range(s)
    <3>1. \A e \in Range(Tail(s)) : \E i \in 1 .. (Len(s) - 1) : e = Tail(s)[i]
      BY <1>3 DEF Range
    <3> QED BY <2>2, <3>1
  <2> QED BY <2>1, <2>3
<1> QED BY <1>1, <1>4, <1>5

\* In a search from root, who depends on root or on a node of the answer was
\* visited, and the visited are those of the answer and of the queue.
SearchOK(g, root, s) ==
  /\ s \in Searches(g)
  /\ s.visited = {root} \cup Range(s.result) \cup Range(s.queue)
  /\ Cardinality(s.visited) - Len(s.queue) = Len(s.result) + 1
  /\ \A id \in {root} \cup Range(s.result) : Depending(g, id, Len(g.nodes)) \subseteq s.visited

LEMMA TurnProperties ==
  ASSUME NEW g, Len(g.nodes) \in Nat, DOMAIN g.nodes = 1 .. Len(g.nodes),
         NEW root, NEW s, SearchOK(g, root, s), NEW n
  PROVE  /\ SearchOK(g, root, Turn(s, n))
         /\ s.queue = <<>> => Turn(s, n) = s
         /\ s.queue # <<>> => Len(Turn(s, n).result) = Len(s.result) + 1
<1> DEFINE N == Len(g.nodes)
<1>1. CASE s.queue = <<>>
  BY <1>1 DEF Turn
<1>2. CASE s.queue # <<>>
  <2> DEFINE id == Head(s.queue)
             u == [s EXCEPT !.at = id, !.queue = Tail(@), !.result = Append(@, id)]
             t == Look(u)
  <2>1. /\ s.g = g /\ s.visited \in SUBSET (1 .. N) /\ s.queue \in Seq(1 .. N) /\ s.result \in Seq(1 .. N)
        /\ s = [g |-> g, at |-> s.at, visited |-> s.visited, queue |-> s.queue, result |-> s.result]
    BY DEF SearchOK, Searches
  <2>2. /\ id \in 1 .. N /\ Tail(s.queue) \in Seq(1 .. N) /\ Len(Tail(s.queue)) = Len(s.queue) - 1
        /\ Len(s.queue) \in Nat /\ Range(s.queue) = {id} \cup Range(Tail(s.queue))
    BY <1>2, <2>1, HeadAndTail
  <2> HIDE DEF id
  <2>3. u = [g |-> g, at |-> id, visited |-> s.visited, queue |-> Tail(s.queue), result |-> Append(s.result, id)]
    <3> DEFINE v == s.visited
               q == s.queue
               r == s.result
               a == s.at
    <3>1. s = [g |-> g, at |-> a, visited |-> v, queue |-> q, result |-> r]
      BY <2>1
    <3>2. u = [s EXCEPT !.at = id, !.queue = Tail(q), !.result = Append(r, id)]
      OBVIOUS
    <3> HIDE DEF u, v, q, r, a
    <3>3. u = [g |-> g, at |-> id, visited |-> v, queue |-> Tail(q), result |-> Append(r, id)]
      BY <3>1, <3>2
    <3> QED BY <3>3 DEF v, q, r
  <2>4. Appended(Append(s.result, id), s.result, id)
    BY <2>1, AppendedRight
  <2> HIDE DEF u
  <2>5. Len(u.result) = Len(s.result) + 1 /\ Range(u.result) = Range(s.result) \cup {id} /\ Len(s.result) \in Nat
    BY <2>1, <2>3, <2>4 DEF Appended
  <2>6. u \in Searches(g)
    BY <2>1, <2>2, <2>3 DEF Searches
  <2>7. t \in Searches(g) /\ Met(t, u, Depending(g, id, N))
    <3>1. u.at = id
      BY <2>3
    <3> QED BY <2>6, <3>1, LookProperties
  <2>8. Turn(s, n) = t
    BY <1>2 DEF Turn, u, id
  <2> HIDE DEF t
  <2>9. /\ t.result = u.result /\ t.visited = s.visited \cup Depending(g, id, N)
        /\ Range(t.queue) = Range(Tail(s.queue)) \cup (Depending(g, id, N) \ s.visited)
        /\ Cardinality(t.visited) - Len(t.queue) = Cardinality(s.visited) - Len(Tail(s.queue))
    BY <2>3, <2>7 DEF Met
  <2>10. t.visited = {root} \cup Range(t.result) \cup Range(t.queue)
    BY <2>2, <2>5, <2>9 DEF SearchOK
  <2>11. Cardinality(t.visited) - Len(t.queue) = Len(t.result) + 1
    <3>1. Cardinality(s.visited) - Len(s.queue) = Len(s.result) + 1 /\ Cardinality(s.visited) \in Nat
      BY <2>1, VisitedFinite DEF SearchOK
    <3>2. Cardinality(s.visited) - Len(Tail(s.queue)) = Len(u.result) + 1
      BY <2>2, <2>5, <3>1
    <3> QED BY <2>9, <3>2
  <2>12. \A e \in {root} \cup Range(t.result) : Depending(g, e, N) \subseteq t.visited
    BY <2>5, <2>9 DEF SearchOK
  <2>13. Len(t.result) = Len(s.result) + 1
    BY <2>5, <2>9
  <2> QED BY <1>2, <2>7, <2>8, <2>10, <2>11, <2>12, <2>13 DEF SearchOK
<1> QED BY <1>1, <1>2

\* Nobody outside depends on root or on one of the answer.
Closed(g, root) ==
  /\ Range(DependentsOf(g, root)) \subseteq 1 .. Len(g.nodes)
  /\ \A id \in {root} \cup Range(DependentsOf(g, root)) :
       Depending(g, id, Len(g.nodes)) \subseteq {root} \cup Range(DependentsOf(g, root))

LEMMA DependentsProperties ==
  ASSUME NEW g, Len(g.nodes) \in Nat, DOMAIN g.nodes = 1 .. Len(g.nodes), NEW root \in 1 .. Len(g.nodes)
  PROVE  Closed(g, root)
<1> DEFINE N == Len(g.nodes)
           s == [g |-> g, at |-> root, visited |-> {root}, queue |-> <<>>, result |-> <<>>]
           b == Look(s)
           ids == [n \in DOMAIN b.g.nodes |-> n]
           A == {t \in Searches(g) : SearchOK(g, root, t)}
<1>1. s \in Searches(g) /\ s.at = root /\ s.visited = {root} /\ s.queue = <<>> /\ s.result = <<>>
  BY DEF Searches
<1> HIDE DEF s
<1>2. b \in Searches(g) /\ Met(b, s, Depending(g, root, N))
  BY <1>1, LookProperties
<1> HIDE DEF b
<1>3. SearchOK(g, root, b) /\ Len(b.result) = 0
  <2>1. /\ b.result = <<>> /\ b.visited = {root} \cup Depending(g, root, N)
        /\ Range(b.queue) = Range(s.queue) \cup (Depending(g, root, N) \ {root})
        /\ Cardinality(b.visited) - Len(b.queue) = Cardinality({root}) - Len(s.queue)
    BY <1>1, <1>2 DEF Met
  <2>2. Range(<<>>) = {} /\ Len(<<>>) = 0
    BY DEF Range
  <2>3. Cardinality({root}) = 1
    BY FS_Singleton
  <2> QED BY <1>1, <1>2, <2>1, <2>2, <2>3 DEF SearchOK
<1>4. DOMAIN ids = 1 .. N /\ b \in A
  BY <1>2, <1>3 DEF Searches
<1>5. \A t \in A, k \in 1 .. N : Turn(t, ids[k]) \in A
  <2> TAKE t \in A, k \in 1 .. N
  <2>1. SearchOK(g, root, Turn(t, ids[k]))
    BY TurnProperties
  <2> QED BY <2>1 DEF SearchOK
<1>6. Search(b) = FoldLeft(Turn, b, ids)
  BY DEF Search
<1> HIDE DEF ids, A
<1>7. PICK t : TurnSteps(t, b, ids, N) /\ FoldLeft(Turn, b, ids) = t[N] /\ \A k \in 0 .. N : t[k] \in A
  BY <1>4, <1>5, TurnsFold
<1> DEFINE S == {k \in 0 .. N : t[k].queue = <<>> \/ Len(t[k].result) = k}
<1>8. 0 \in S
  BY <1>3, <1>7 DEF TurnSteps
<1>9. ASSUME NEW k \in 0 .. N, k < N /\ k \in S PROVE k + 1 \in S
  <2>1. k + 1 \in 1 .. N /\ (k + 1) - 1 = k /\ k + 1 \in 0 .. N
    BY <1>9
  <2>2. t[k + 1] = Turn(t[k], ids[k + 1]) /\ SearchOK(g, root, t[k])
    BY <1>7, <2>1 DEF TurnSteps, A
  <2>3. /\ t[k].queue = <<>> => t[k + 1] = t[k]
        /\ t[k].queue # <<>> => Len(t[k + 1].result) = Len(t[k].result) + 1
    BY <2>2, TurnProperties
  <2> QED BY <1>9, <2>1, <2>3
<1>10. N \in S
  <2> HIDE DEF S
  <2>1. 0 .. N \subseteq S
    BY <1>8, <1>9, UpTo
  <2> QED BY <2>1
<1> DEFINE z == t[N]
<1>11. SearchOK(g, root, z)
  BY <1>7 DEF A
<1>12. z.queue = <<>>
  <2> SUFFICES ASSUME z.queue # <<>>, Len(z.result) = N PROVE FALSE
    BY <1>10
  <2> HIDE DEF z
  <2>1. z.visited \in SUBSET (1 .. N) /\ z.queue \in Seq(1 .. N)
    BY <1>11 DEF SearchOK, Searches
  <2>2. Cardinality(z.visited) \in Nat /\ Cardinality(z.visited) <= N
    BY <2>1, VisitedFinite
  <2>3. Len(z.queue) \in Nat /\ Len(z.queue) > 0
    BY <2>1, HeadAndTail
  <2>4. Cardinality(z.visited) - Len(z.queue) = N + 1
    BY <1>11 DEF SearchOK
  <2> QED BY <2>2, <2>3, <2>4
<1>13. DependentsOf(g, root) = z.result
  BY <1>6, <1>7 DEF DependentsOf, b, s
<1> HIDE DEF z
<1>14. Range(z.queue) = {} /\ z.visited \in SUBSET (1 .. N)
  <2>1. Range(<<>>) = {}
    BY DEF Range
  <2>2. z.visited \in SUBSET (1 .. N)
    BY <1>11 DEF SearchOK, Searches
  <2> QED BY <1>12, <2>1, <2>2
<1> QED BY <1>11, <1>13, <1>14 DEF SearchOK, Closed

-----------------------------------------------------------------------------
(* What a component computes.                                              *)

\* A component that comes to life, and is seen whole.
Alive(c) == c \in Components /\ Parses(c) /\ Initialises(c) /\ Whole(c)

Memo(c, i) == c.bindings[i].qualifier = "memo" /\ c.bindings[i].value # NoExpr

\* The names that binding i reads.
ReadBy(c, i) == Range(JsNames(c.bindings[i].value))

LEMMA NamedBinding ==
  ASSUME NEW c, BindingsOK(c), NEW q, NEW x \in Names(c, q)
  PROVE  \E r \in 1 .. Len(c.bindings) : x = c.bindings[r].name /\ c.bindings[r].qualifier = q
<1>1. PICK b \in Range(c.bindings) : b.qualifier = q /\ x = b.name
  BY DEF Names
<1>2. PICK r \in 1 .. Len(c.bindings) : b = c.bindings[r]
  BY DEF BindingsOK
<1> QED BY <1>1, <1>2

\* What changes with x is closed: a memo that reads any of it is of it.
LEMMA AffectedClosed ==
  ASSUME NEW c, Alive(c), NEW x \in Names(c, "state"),
         NEW i \in 1 .. Len(c.bindings), Memo(c, i), NEW y \in ReadBy(c, i), y \in Changed(c, x)
  PROVE  c.bindings[i].name \in Affected(c, x)
<1> DEFINE g == Analyse(c)
           n == Len(c.bindings)
           root == NodeByName(g, x)
           R == Range(DependentsOf(g, root))
<1>1. Analysed(c, g) /\ BindingsOK(c) /\ c \in Components /\ Parses(c)
  BY AnalyseProperties, BindingsProperties DEF Alive
<1> HIDE DEF g
<1>2. /\ g \in GraphsOf(c) /\ NodesOK(c, g.nodes) /\ Len(g.nodes) \in Nat /\ DOMAIN g.nodes = 1 .. Len(g.nodes)
      /\ Len(g.nodes) >= n /\ n \in Nat
  BY <1>1 DEF Analysed, GraphsOf, NodesOK, BindingsOK
<1>3. \A j \in 1 .. n : j \in 1 .. Len(g.nodes) /\ g.nodes[j].name = c.bindings[j].name
                        /\ g.nodes[j].kind = Kind(c.bindings[j].qualifier) /\ NodeByName(g, c.bindings[j].name) = j
  BY <1>1, <1>2, GraphNames DEF NodesOK
<1>4. PICK r \in 1 .. n : x = c.bindings[r].name /\ c.bindings[r].qualifier = "state"
  BY <1>1, NamedBinding
<1>5. root = r
  BY <1>3, <1>4
<1> HIDE DEF root
<1>6. Closed(g, r)
  BY <1>2, <1>3, DependentsProperties
<1>7. DerivedFrom(g, x) = {g.nodes[k].name : k \in {j \in R : g.nodes[j].kind = "Derived"}}
  BY DEF DerivedFrom, root
<1>8. PICK j \in 1 .. n : y = c.bindings[j].name /\ j \in {r} \cup R
  <2>1. CASE y = x
    BY <1>4, <2>1
  <2>2. CASE y # x
    <3>1. y \in DerivedFrom(g, x)
      BY <2>2 DEF Changed, Affected, g
    <3>2. PICK k \in R : g.nodes[k].kind = "Derived" /\ y = g.nodes[k].name
      BY <1>7, <3>1
    <3>3. k \in 1 .. Len(g.nodes)
      BY <1>5, <1>6, <3>2 DEF Closed
    <3>4. k <= n
      BY <1>2, <3>2, <3>3 DEF NodesOK
    <3>5. k \in 1 .. n
      BY <3>3, <3>4, <1>2
    <3> QED BY <1>3, <3>2, <3>5
  <2> QED BY <2>1, <2>2
<1>9. j \in Range(g.edges[i])
  <2>1. y \in Range(ExprRefs(c.bindings[i].value))
    <3>1. SeenWhole(c.bindings[i].value)
      BY <1>1 DEF Alive, Whole, Memo, BindingsOK
    <3> QED BY <3>1 DEF SeenWhole, ReadBy
  <2> QED BY <1>1, <1>8, <2>1 DEF Analysed, EdgesOf, Memo
<1>10. i \in {r} \cup R
  <2>1. i \in Depending(g, j, Len(g.nodes))
    BY <1>3, <1>9 DEF Depending
  <2> QED BY <1>5, <1>6, <1>8, <2>1 DEF Closed
<1>11. i # r
  BY <1>4 DEF Memo
<1>12. i \in R /\ g.nodes[i].kind = "Derived" /\ g.nodes[i].name = c.bindings[i].name
  BY <1>3, <1>10, <1>11 DEF Kind, Memo
<1>13. c.bindings[i].name \in DerivedFrom(g, x)
  BY <1>7, <1>12
<1> QED BY <1>13 DEF Affected, g

\* Only memos are affected.
LEMMA AffectedMemos ==
  ASSUME NEW c, Alive(c), NEW x \in Names(c, "state"),
         NEW i \in 1 .. Len(c.bindings), c.bindings[i].name \in Affected(c, x)
  PROVE  c.bindings[i].qualifier = "memo"
<1> DEFINE g == Analyse(c)
           n == Len(c.bindings)
           root == NodeByName(g, x)
           R == Range(DependentsOf(g, root))
<1>1. Analysed(c, g) /\ BindingsOK(c) /\ c \in Components /\ Parses(c)
  BY AnalyseProperties, BindingsProperties DEF Alive
<1> HIDE DEF g
<1>2. /\ g \in GraphsOf(c) /\ NodesOK(c, g.nodes) /\ Len(g.nodes) \in Nat /\ DOMAIN g.nodes = 1 .. Len(g.nodes)
      /\ Len(g.nodes) >= n /\ n \in Nat
  BY <1>1 DEF Analysed, GraphsOf, NodesOK, BindingsOK
<1>3. \A j \in 1 .. n : j \in 1 .. Len(g.nodes) /\ g.nodes[j].name = c.bindings[j].name
                        /\ g.nodes[j].kind = Kind(c.bindings[j].qualifier) /\ NodeByName(g, c.bindings[j].name) = j
  BY <1>1, <1>2, GraphNames DEF NodesOK
<1>4. PICK r \in 1 .. n : x = c.bindings[r].name
  BY <1>1, NamedBinding
<1>5. root \in 1 .. Len(g.nodes)
  BY <1>3, <1>4
<1> HIDE DEF root
<1>6. Closed(g, root)
  BY <1>2, <1>5, DependentsProperties
<1>7. DerivedFrom(g, x) = {g.nodes[k].name : k \in {j \in R : g.nodes[j].kind = "Derived"}}
  BY DEF DerivedFrom, root
<1>8. PICK k \in R : g.nodes[k].kind = "Derived" /\ c.bindings[i].name = g.nodes[k].name
  BY <1>7 DEF Affected, g
<1>9. k \in 1 .. Len(g.nodes)
  BY <1>6, <1>8 DEF Closed
<1>10. k <= n
  BY <1>2, <1>8, <1>9 DEF NodesOK
<1>11. k \in 1 .. n
  BY <1>2, <1>9, <1>10
<1>12. k = i
  BY <1>1, <1>3, <1>8, <1>11 DEF BindingsOK
<1>13. Kind(c.bindings[i].qualifier) = "Derived"
  BY <1>3, <1>8, <1>11, <1>12
<1> QED BY <1>13 DEF Kind

\* A memo reads bindings that stand before it, and names of the page.
LEMMA ReadsEarlier ==
  ASSUME NEW c, Alive(c), NEW i \in 1 .. Len(c.bindings), Memo(c, i), NEW y \in ReadBy(c, i), y \in Bound(c)
  PROVE  \E j \in 1 .. (i - 1) : y = c.bindings[j].name
<1>1. BindingsOK(c) /\ c \in Components /\ Parses(c)
  BY BindingsProperties DEF Alive
<1>2. i \in DOMAIN c.bindings
  BY <1>1 DEF BindingsOK
<1>3. Position(c, y) < i
  BY <1>2 DEF Alive, Initialises, Memo, ReadBy
<1>4. PICK j \in 1 .. Len(c.bindings) : y = c.bindings[j].name
  BY <1>1 DEF BindingsOK
<1>5. Position(c, y) = j
  BY <1>1, <1>4, PositionRight
<1> QED BY <1>1, <1>3, <1>4, <1>5 DEF BindingsOK

\* An expression gives the same where what it reads is the same.
LEMMA SameValue ==
  ASSUME NEW c, Alive(c), NEW i \in 1 .. Len(c.bindings), Memo(c, i), NEW e, NEW f,
         \A y \in ReadBy(c, i) : Read(e, y) = Read(f, y)
  PROVE  JsValue(c.bindings[i].value, e) = JsValue(c.bindings[i].value, f)
<1> DEFINE v == c.bindings[i].value
<1>1. v.k = "Variable" => v.name \in ReadBy(c, i)
  BY BindingsProperties, ComponentAssumption DEF Alive, BindingsOK, Memo, ReadBy
<1>2. \A k \in DOMAIN JsNames(v) : JsNames(v)[k] \in ReadBy(c, i)
  BY DEF ReadBy, Range
<1>3. [k \in DOMAIN JsNames(v) |-> Read(e, JsNames(v)[k])] = [k \in DOMAIN JsNames(v) |-> Read(f, JsNames(v)[k])]
  BY <1>2
<1> QED BY <1>1, <1>3 DEF JsValue

Assigned(t, env, x, v) ==
  /\ DOMAIN t = DOMAIN env \cup {x} /\ t[x] = v
  /\ \A y \in DOMAIN env : y # x => t[y] = env[y]

LEMMA AssignRight ==
  ASSUME NEW env, NEW x, NEW v
  PROVE  Assigned(Assign(env, x, v), env, x, v)
BY DEF Assigned, Assign

\* Memo i is what its expression gives.
FreshMemo(c, env, i) == env[c.bindings[i].name] = JsValue(c.bindings[i].value, env)

\* It remains so while neither it nor what it reads is changed.
LEMMA FreshKept ==
  ASSUME NEW c, Alive(c), NEW i \in 1 .. Len(c.bindings), Memo(c, i), NEW e, NEW f,
         DOMAIN e \subseteq Bound(c), DOMAIN f \subseteq Bound(c),
         \A y \in ReadBy(c, i) \cap Bound(c) : y \in DOMAIN e /\ y \in DOMAIN f /\ e[y] = f[y]
  PROVE  /\ JsValue(c.bindings[i].value, e) = JsValue(c.bindings[i].value, f)
         /\ e[c.bindings[i].name] = f[c.bindings[i].name] /\ FreshMemo(c, e, i) => FreshMemo(c, f, i)
<1>1. \A y \in ReadBy(c, i) : Read(e, y) = Read(f, y)
  BY DEF Read
<1> QED BY <1>1, SameValue DEF FreshMemo

-----------------------------------------------------------------------------
(* X_create: every memo is fresh.                                          *)

LEMMA LocalsFresh ==
  ASSUME NEW c, Alive(c)
  PROVE  /\ DOMAIN Locals(c) = Bound(c)
         /\ \A i \in 1 .. Len(c.bindings) : Memo(c, i) => FreshMemo(c, Locals(c), i)
<1> DEFINE n == Len(c.bindings)
           name(i) == c.bindings[i].name
           Value0(i, env) == IF c.bindings[i].qualifier = "prop" THEN Attribute
                             ELSE IF c.bindings[i].value = NoExpr THEN Undefined ELSE JsValue(c.bindings[i].value, env)
           Up(k) == {name(i) : i \in 1 .. k}
<1>1. BindingsOK(c) /\ n \in Nat /\ DOMAIN c.bindings = 1 .. n
  BY BindingsProperties DEF Alive, BindingsOK
<1>2. PICK g : DeclareSteps(g, <<>>, c.bindings, n) /\ FoldLeft(Declare, <<>>, c.bindings) = g[n]
  BY <1>1, DeclareFold
<1>3. Bound(c) = Up(n) /\ \A k \in 0 .. n : Up(k) \subseteq Bound(c)
  <2>1. \A y \in Bound(c) : \E i \in 1 .. n : y = name(i)
    BY <1>1 DEF BindingsOK
  <2>2. \A k \in 0 .. n : \A i \in 1 .. k : i \in 1 .. n
    BY <1>1
  <2>3. \A i \in 1 .. n : name(i) \in Bound(c)
    BY <1>1 DEF BindingsOK
  <2> HIDE DEF name
  <2> QED BY <1>1, <2>1, <2>2, <2>3
<1> DEFINE Right(k) == /\ DOMAIN g[k] = Up(k)
                       /\ \A i \in 1 .. k : Memo(c, i) => FreshMemo(c, g[k], i)
           S == {k \in 0 .. n : Right(k)}
<1>4. 0 \in S
  <2>1. g[0] = <<>> /\ Up(0) = {} /\ 1 .. 0 = {}
    BY <1>2 DEF DeclareSteps
  <2> QED BY <1>1, <2>1
<1>5. ASSUME NEW k \in 0 .. n, k < n /\ k \in S PROVE k + 1 \in S
  <2> DEFINE e == g[k]
             f == g[k + 1]
  <2>1. k + 1 \in 1 .. n /\ (k + 1) - 1 = k /\ k + 1 \in 0 .. n /\ k \in 0 .. n
    BY <1>1, <1>5
  <2>2. f = Assign(e, name(k + 1), Value0(k + 1, e))
    BY <1>2, <2>1 DEF DeclareSteps, Declare
  <2>3. Assigned(f, e, name(k + 1), Value0(k + 1, e))
    BY <2>2, AssignRight
  <2>4. DOMAIN e = Up(k)
    BY <1>5
  <2> HIDE DEF e, f
  <2>5. DOMAIN f = Up(k + 1)
    <3>1. 1 .. (k + 1) = (1 .. k) \cup {k + 1}
      BY <2>1
    <3>2. Up(k + 1) = Up(k) \cup {name(k + 1)}
      BY <3>1
    <3> HIDE DEF Up
    <3> QED BY <2>3, <2>4, <3>2 DEF Assigned
  <2>6. \A j \in 1 .. k : name(j) \in DOMAIN e /\ name(j) \in DOMAIN f /\ e[name(j)] = f[name(j)]
    <3> TAKE j \in 1 .. k
    <3>1. name(j) \in DOMAIN e
      BY <2>4
    <3>2. j \in 1 .. n /\ j # k + 1
      BY <2>1
    <3>3. name(j) # name(k + 1)
      BY <1>1, <2>1, <3>2 DEF BindingsOK
    <3> QED BY <2>3, <3>1, <3>3 DEF Assigned
  <2>7. ASSUME NEW i \in 1 .. (k + 1), Memo(c, i)
        PROVE  FreshMemo(c, f, i)
    <3>1. i \in 1 .. n
      BY <2>1
    <3>2. ASSUME NEW y \in ReadBy(c, i) \cap Bound(c)
          PROVE  y \in DOMAIN e /\ y \in DOMAIN f /\ e[y] = f[y]
      <4>1. PICK j \in 1 .. (i - 1) : y = name(j)
        BY <2>7, <3>1, ReadsEarlier
      <4>2. j \in 1 .. k
        BY <2>1, <2>7
      <4> QED BY <2>6, <4>1, <4>2
    <3>3. DOMAIN e \subseteq Bound(c) /\ DOMAIN f \subseteq Bound(c)
      BY <1>3, <2>1, <2>4, <2>5
    <3>4. /\ JsValue(c.bindings[i].value, e) = JsValue(c.bindings[i].value, f)
          /\ e[name(i)] = f[name(i)] /\ FreshMemo(c, e, i) => FreshMemo(c, f, i)
      BY <2>7, <3>1, <3>2, <3>3, FreshKept
    <3>5. CASE i = k + 1
      <4>1. f[name(i)] = JsValue(c.bindings[i].value, e)
        BY <2>3, <2>7, <3>5 DEF Assigned, Memo
      <4> QED BY <3>4, <4>1 DEF FreshMemo
    <3>6. CASE i # k + 1
      <4>1. i \in 1 .. k
        BY <2>1, <3>6
      <4>2. FreshMemo(c, e, i)
        BY <1>5, <2>7, <4>1 DEF e
      <4> QED BY <2>6, <3>4, <4>1, <4>2
    <3> QED BY <3>5, <3>6
  <2>8. Right(k + 1)
    BY <2>5, <2>7 DEF f
  <2> QED BY <2>1, <2>8
<1>6. n \in S
  <2> HIDE DEF S
  <2>1. 0 .. n \subseteq S
    BY <1>1, <1>4, <1>5, UpTo
  <2> QED BY <1>1, <2>1
<1> HIDE DEF Up
<1> QED BY <1>2, <1>3, <1>6 DEF Locals

-----------------------------------------------------------------------------
(* An updater.                                                             *)

\* The affected memos are fresh, and no other variable was touched.
RecomputedRight(c, x, env, t) ==
  /\ DOMAIN t = Bound(c)
  /\ \A y \in Bound(c) : y \notin Affected(c, x) => t[y] = env[y]
  /\ \A i \in 1 .. Len(c.bindings) :
       Memo(c, i) /\ c.bindings[i].name \in Affected(c, x) => FreshMemo(c, t, i)

LEMMA RecomputedProperties ==
  ASSUME NEW c, Alive(c), NEW x \in Names(c, "state"), NEW env, DOMAIN env = Bound(c)
  PROVE  RecomputedRight(c, x, env, Recomputed(c, x, env))
<1> DEFINE n == Len(c.bindings)
           name(i) == c.bindings[i].name
           X == Affected(c, x)
           ds == [i \in DOMAIN c.bindings |-> [b |-> c.bindings[i], affected |-> name(i) \in X]]
<1>1. BindingsOK(c) /\ n \in Nat /\ DOMAIN c.bindings = 1 .. n
  BY BindingsProperties DEF Alive, BindingsOK
<1>2. \A i \in 1 .. n : name(i) \in X => c.bindings[i].qualifier = "memo"
  BY AffectedMemos
<1> HIDE DEF X
<1>3. DOMAIN ds = 1 .. n /\ \A i \in 1 .. n : ds[i].b = c.bindings[i] /\ (ds[i].affected <=> name(i) \in X)
  BY <1>1
<1>4. Recomputed(c, x, env) = FoldLeft(Recompute, env, ds)
  BY DEF Recomputed, X
<1> HIDE DEF ds
<1>5. PICK g : RecomputeSteps(g, env, ds, n) /\ FoldLeft(Recompute, env, ds) = g[n]
  BY <1>1, <1>3, RecomputeFold
<1> DEFINE Right(k) == /\ DOMAIN g[k] = Bound(c)
                       /\ \A i \in 1 .. n : i > k \/ name(i) \notin X => g[k][name(i)] = env[name(i)]
                       /\ \A i \in 1 .. k : Memo(c, i) /\ name(i) \in X => FreshMemo(c, g[k], i)
           S == {k \in 0 .. n : Right(k)}
<1>6. 0 \in S
  <2>1. g[0] = env
    BY <1>5 DEF RecomputeSteps
  <2> QED BY <1>1, <2>1
<1>7. ASSUME NEW k \in 0 .. n, k < n /\ k \in S PROVE k + 1 \in S
  <2> DEFINE e == g[k]
             f == g[k + 1]
  <2>1. k + 1 \in 1 .. n /\ (k + 1) - 1 = k /\ k + 1 \in 0 .. n /\ k \in 0 .. n
    BY <1>1, <1>7
  <2>2. f = Recompute(e, ds[k + 1])
    BY <1>5, <2>1 DEF RecomputeSteps
  <2>3. /\ DOMAIN e = Bound(c)
        /\ \A i \in 1 .. n : i > k \/ name(i) \notin X => e[name(i)] = env[name(i)]
        /\ \A i \in 1 .. k : Memo(c, i) /\ name(i) \in X => FreshMemo(c, e, i)
    BY <1>7
  <2> HIDE DEF e, f
  <2>4. CASE name(k + 1) \notin X \/ c.bindings[k + 1].value = NoExpr
    <3>1. f = e
      BY <1>3, <2>1, <2>2, <2>4 DEF Recompute
    <3>2. \A i \in 1 .. n : i > k + 1 => i > k
      BY <2>1
    <3>3. \A i \in 1 .. (k + 1) : i \in 1 .. k \/ (i = k + 1 /\ ~(Memo(c, i) /\ name(i) \in X))
      BY <2>1, <2>4 DEF Memo
    <3>4. Right(k + 1)
      BY <2>3, <3>1, <3>2, <3>3 DEF f
    <3> QED BY <2>1, <3>4
  <2>5. CASE ~(name(k + 1) \notin X \/ c.bindings[k + 1].value = NoExpr)
    <3>1. f = Assign(e, name(k + 1), JsValue(c.bindings[k + 1].value, e))
      BY <1>3, <2>1, <2>2, <2>5 DEF Recompute
    <3>2. Assigned(f, e, name(k + 1), JsValue(c.bindings[k + 1].value, e))
      BY <3>1, AssignRight
    <3>3. DOMAIN f = Bound(c)
      <4>1. name(k + 1) \in Bound(c)
        BY <1>1, <2>1 DEF BindingsOK
      <4> QED BY <2>3, <3>2, <4>1 DEF Assigned
    <3>4. \A j \in 1 .. n : j # k + 1 => f[name(j)] = e[name(j)]
      <4> TAKE j \in 1 .. n
      <4> HAVE j # k + 1
      <4>1. name(j) # name(k + 1) /\ name(j) \in Bound(c)
        BY <1>1, <2>1 DEF BindingsOK
      <4> QED BY <2>3, <3>2, <4>1 DEF Assigned
    <3>5. Memo(c, k + 1)
      BY <1>2, <2>1, <2>5 DEF Memo
    <3>6. \A i \in 1 .. n : i > k + 1 \/ name(i) \notin X => f[name(i)] = env[name(i)]
      <4> TAKE i \in 1 .. n
      <4> HAVE i > k + 1 \/ name(i) \notin X
      <4>1. i # k + 1 /\ (i > k \/ name(i) \notin X)
        BY <2>1, <2>5
      <4> QED BY <2>3, <3>4, <4>1
    <3>7. ASSUME NEW i \in 1 .. (k + 1), Memo(c, i), name(i) \in X
          PROVE  FreshMemo(c, f, i)
      <4>1. i \in 1 .. n
        BY <2>1
      <4>2. ASSUME NEW y \in ReadBy(c, i) \cap Bound(c)
            PROVE  y \in DOMAIN e /\ y \in DOMAIN f /\ e[y] = f[y]
        <5>1. PICK j \in 1 .. (i - 1) : y = name(j)
          BY <3>7, <4>1, ReadsEarlier
        <5>2. j \in 1 .. n /\ j # k + 1
          BY <2>1, <3>7
        <5> QED BY <2>3, <3>3, <3>4, <5>1, <5>2
      <4>3. /\ JsValue(c.bindings[i].value, e) = JsValue(c.bindings[i].value, f)
            /\ e[name(i)] = f[name(i)] /\ FreshMemo(c, e, i) => FreshMemo(c, f, i)
        BY <2>3, <3>3, <3>7, <4>1, <4>2, FreshKept
      <4>4. CASE i = k + 1
        <5>1. f[name(i)] = JsValue(c.bindings[i].value, e)
          BY <3>2, <4>4 DEF Assigned
        <5> QED BY <4>3, <5>1 DEF FreshMemo
      <4>5. CASE i # k + 1
        <5>1. i \in 1 .. k
          BY <2>1, <4>5
        <5> QED BY <2>3, <3>4, <3>7, <4>1, <4>3, <4>5, <5>1
      <4> QED BY <4>4, <4>5
    <3>8. Right(k + 1)
      BY <3>3, <3>6, <3>7 DEF f
    <3> QED BY <2>1, <3>8
  <2> QED BY <2>4, <2>5
<1>8. n \in S
  <2> HIDE DEF S
  <2>1. 0 .. n \subseteq S
    BY <1>1, <1>6, <1>7, UpTo
  <2> QED BY <1>1, <2>1
<1> DEFINE t == g[n]
<1>9. /\ DOMAIN t = Bound(c)
      /\ \A i \in 1 .. n : name(i) \notin X => t[name(i)] = env[name(i)]
      /\ \A i \in 1 .. n : Memo(c, i) /\ name(i) \in X => FreshMemo(c, t, i)
  BY <1>8
<1>10. Recomputed(c, x, env) = t
  BY <1>4, <1>5
<1> HIDE DEF t
<1>11. \A y \in Bound(c) : y \notin X => t[y] = env[y]
  <2> TAKE y \in Bound(c)
  <2>1. PICK i \in 1 .. n : y = name(i)
    BY <1>1 DEF BindingsOK
  <2> QED BY <1>9, <2>1
<1> QED BY <1>9, <1>10, <1>11 DEF RecomputedRight, X

\* c holds the values v and shows t, and all but the names of X is up to date.
CurrentBut(c, v, t, X) ==
  /\ DOMAIN v = Bound(c) /\ DOMAIN t = DOMAIN Shown(c)
  /\ \A i \in 1 .. Len(c.bindings) : Memo(c, i) => FreshMemo(c, v, i) \/ c.bindings[i].name \in X
  /\ \A i \in DOMAIN Shown(c) : Patched(c, i) => t[i] = v[Shown(c)[i].name] \/ Shown(c)[i].name \in X

\* A memo none of what changes with x is read by stands.
LEMMA Unaffected ==
  ASSUME NEW c, Alive(c), NEW x \in Names(c, "state"), NEW e, NEW f,
         DOMAIN e = Bound(c), DOMAIN f = Bound(c),
         \A y \in Bound(c) : y \notin Changed(c, x) => f[y] = e[y],
         NEW i \in 1 .. Len(c.bindings), Memo(c, i), c.bindings[i].name \notin Affected(c, x)
  PROVE  /\ FreshMemo(c, e, i) => FreshMemo(c, f, i)
         /\ c.bindings[i].name \notin Changed(c, x)
<1>1. BindingsOK(c)
  BY BindingsProperties DEF Alive
<1>2. \A y \in ReadBy(c, i) : y \notin Changed(c, x)
  BY AffectedClosed
<1>3. c.bindings[i].name # x
  <2>1. PICK r \in 1 .. Len(c.bindings) : x = c.bindings[r].name /\ c.bindings[r].qualifier = "state"
    BY <1>1, NamedBinding
  <2>2. r # i
    BY <2>1 DEF Memo
  <2> QED BY <1>1, <2>1, <2>2 DEF BindingsOK
<1>4. c.bindings[i].name \notin Changed(c, x) /\ c.bindings[i].name \in Bound(c)
  BY <1>1, <1>3 DEF Changed, BindingsOK
<1>5. e[c.bindings[i].name] = f[c.bindings[i].name]
  BY <1>4
<1>6. \A y \in ReadBy(c, i) \cap Bound(c) : y \in DOMAIN e /\ y \in DOMAIN f /\ e[y] = f[y]
  BY <1>2
<1>7. FreshMemo(c, e, i) => FreshMemo(c, f, i)
  BY <1>5, <1>6, FreshKept
<1> QED BY <1>4, <1>7

\* An updater brings what changes with its state up to date.
LEMMA UpdateProperties ==
  ASSUME Alive(comp), NEW x \in Names(comp, "state"), NEW s, NEW X, NEW Y,
         X \subseteq Changed(comp, x) \cup Y, CurrentBut(comp, s.val, s.text, X)
  PROVE  CurrentBut(comp, Update(s, x).val, Update(s, x).text, Y)
<1> DEFINE env == s.val
           t == Recomputed(comp, x, env)
           C == Changed(comp, x)
           shown(i) == Shown(comp)[i].name
           text1 == [i \in DOMAIN s.text |-> IF Patched(comp, i) /\ shown(i) \in C THEN t[shown(i)] ELSE s.text[i]]
<1>1. Update(s, x).val = t /\ Update(s, x).text = text1
  BY DEF Update
<1>2. /\ DOMAIN env = Bound(comp) /\ DOMAIN s.text = DOMAIN Shown(comp)
      /\ \A i \in 1 .. Len(comp.bindings) : Memo(comp, i) => FreshMemo(comp, env, i) \/ comp.bindings[i].name \in X
      /\ \A i \in DOMAIN Shown(comp) : Patched(comp, i) => s.text[i] = env[shown(i)] \/ shown(i) \in X
  BY DEF CurrentBut
<1>3. /\ DOMAIN text1 = DOMAIN Shown(comp)
      /\ \A i \in DOMAIN Shown(comp) :
           text1[i] = IF Patched(comp, i) /\ shown(i) \in C THEN t[shown(i)] ELSE s.text[i]
  BY <1>2
<1>4. RecomputedRight(comp, x, env, t)
  <2> HIDE DEF env
  <2> QED BY <1>2, RecomputedProperties
<1> HIDE DEF env, t, text1
<1>5. \A y \in Bound(comp) : y \notin C => t[y] = env[y]
  BY <1>4 DEF RecomputedRight, Changed
<1>6. ASSUME NEW i \in 1 .. Len(comp.bindings), Memo(comp, i)
      PROVE  FreshMemo(comp, t, i) \/ comp.bindings[i].name \in Y
  <2>1. CASE comp.bindings[i].name \in Affected(comp, x)
    BY <1>4, <1>6, <2>1 DEF RecomputedRight
  <2>2. CASE comp.bindings[i].name \notin Affected(comp, x)
    <3>1. /\ FreshMemo(comp, env, i) => FreshMemo(comp, t, i)
          /\ comp.bindings[i].name \notin C
      <4>1. DOMAIN t = Bound(comp)
        BY <1>4 DEF RecomputedRight
      <4> QED BY <1>2, <1>5, <1>6, <2>2, <4>1, Unaffected
    <3> QED BY <1>2, <1>6, <3>1
  <2> QED BY <2>1, <2>2
<1>7. ASSUME NEW i \in DOMAIN Shown(comp), Patched(comp, i)
      PROVE  text1[i] = t[shown(i)] \/ shown(i) \in Y
  <2>1. shown(i) \in Bound(comp)
    BY <1>7 DEF Patched
  <2>2. CASE shown(i) \in C
    BY <1>3, <1>7, <2>2
  <2>3. CASE shown(i) \notin C
    <3>1. text1[i] = s.text[i] /\ t[shown(i)] = env[shown(i)]
      BY <1>3, <1>5, <2>1, <2>3
    <3> QED BY <1>2, <1>7, <2>3, <3>1
  <2> QED BY <2>2, <2>3
<1>8. DOMAIN t = Bound(comp)
  BY <1>4 DEF RecomputedRight
<1>9. CurrentBut(comp, t, text1, Y)
  BY <1>3, <1>6, <1>7, <1>8 DEF CurrentBut
<1> QED BY <1>1, <1>9

\* A setter leaves to its updater what changes with its state.
LEMMA SetProperties ==
  ASSUME Alive(comp), NEW x \in Names(comp, "state"), NEW w, NEW X, CurrentBut(comp, val, text, X)
  PROVE  CurrentBut(comp, Assign(val, x, w), text, X \cup Changed(comp, x))
<1> DEFINE f == Assign(val, x, w)
           C == Changed(comp, x)
<1>1. BindingsOK(comp)
  BY BindingsProperties DEF Alive
<1>2. x \in Bound(comp) /\ x \in C
  <2>1. PICK r \in 1 .. Len(comp.bindings) : x = comp.bindings[r].name
    BY <1>1, NamedBinding
  <2> QED BY <1>1, <2>1 DEF BindingsOK, Changed
<1>3. Assigned(f, val, x, w)
  BY AssignRight
<1> HIDE DEF f
<1>4. DOMAIN val = Bound(comp) /\ DOMAIN f = Bound(comp) /\ \A y \in Bound(comp) : y \notin C => f[y] = val[y]
  BY <1>2, <1>3 DEF CurrentBut, Assigned
<1>5. ASSUME NEW i \in 1 .. Len(comp.bindings), Memo(comp, i)
      PROVE  FreshMemo(comp, f, i) \/ comp.bindings[i].name \in X \cup C
  <2>1. CASE comp.bindings[i].name \in Affected(comp, x)
    BY <2>1 DEF Changed
  <2>2. CASE comp.bindings[i].name \notin Affected(comp, x)
    <3>1. FreshMemo(comp, val, i) => FreshMemo(comp, f, i)
      BY <1>4, <1>5, <2>2, Unaffected
    <3> QED BY <1>5, <3>1 DEF CurrentBut
  <2> QED BY <2>1, <2>2
<1>6. ASSUME NEW i \in DOMAIN Shown(comp), Patched(comp, i)
      PROVE  text[i] = f[Shown(comp)[i].name] \/ Shown(comp)[i].name \in X \cup C
  <2>1. Shown(comp)[i].name \in Bound(comp)
    BY <1>6 DEF Patched
  <2> QED BY <1>4, <1>6, <2>1 DEF CurrentBut
<1>7. DOMAIN text = DOMAIN Shown(comp)
  BY DEF CurrentBut
<1> HIDE DEF C
<1>8. CurrentBut(comp, f, text, X \cup C)
  BY <1>4, <1>5, <1>6, <1>7 DEF CurrentBut
<1> QED BY <1>8 DEF f, C

\* Nothing waits once X_create has run.
LEMMA CreateProperties ==
  ASSUME Alive(comp)
  PROVE  CurrentBut(comp, Locals(comp), [i \in DOMAIN Shown(comp) |-> JsValue(Shown(comp)[i], Locals(comp))], {})
<1> DEFINE v == Locals(comp)
           t == [i \in DOMAIN Shown(comp) |-> JsValue(Shown(comp)[i], v)]
<1>1. DOMAIN v = Bound(comp) /\ \A i \in 1 .. Len(comp.bindings) : Memo(comp, i) => FreshMemo(comp, v, i)
  BY LocalsFresh
<1> HIDE DEF v
<1>2. ASSUME NEW i \in DOMAIN Shown(comp), Patched(comp, i)
      PROVE  t[i] = v[Shown(comp)[i].name]
  BY <1>1, <1>2 DEF Patched, JsValue, Read
<1>3. DOMAIN t = DOMAIN Shown(comp)
  OBVIOUS
<1> HIDE DEF t
<1>4. CurrentBut(comp, v, t, {})
  BY <1>1, <1>2, <1>3 DEF CurrentBut
<1> QED BY <1>4 DEF v, t

\* What waits when the first k of pending have been updated.
Left(k) == UNION {Changed(comp, pending[j]) : j \in (k + 1) .. Len(pending)}

\* A flush leaves nothing behind.
LEMMA FlushProperties ==
  ASSUME Alive(comp), pending \in Seq(Names(comp, "state")), CurrentBut(comp, val, text, Left(0))
  PROVE  CurrentBut(comp, Updated.val, Updated.text, {})
<1> DEFINE n == Len(pending)
           b == [val |-> val, text |-> text, ran |-> ran]
<1>1. n \in Nat /\ DOMAIN pending = 1 .. n /\ \A k \in 1 .. n : pending[k] \in Names(comp, "state")
  OBVIOUS
<1>2. PICK g : UpdateSteps(g, b, pending, n) /\ FoldLeft(Update, b, pending) = g[n]
  BY <1>1, UpdatesFold
<1> DEFINE S == {k \in 0 .. n : CurrentBut(comp, g[k].val, g[k].text, Left(k))}
<1>3. 0 \in S
  <2>1. g[0].val = val /\ g[0].text = text
    BY <1>2 DEF UpdateSteps
  <2> QED BY <1>1, <2>1
<1>4. ASSUME NEW k \in 0 .. n, k < n /\ k \in S PROVE k + 1 \in S
  <2>1. k + 1 \in 1 .. n /\ (k + 1) - 1 = k /\ k + 1 \in 0 .. n
    BY <1>1, <1>4
  <2>2. g[k + 1] = Update(g[k], pending[k + 1])
    BY <1>2, <2>1 DEF UpdateSteps
  <2>3. Left(k) \subseteq Changed(comp, pending[k + 1]) \cup Left(k + 1)
    <3>1. \A j \in (k + 1) .. n : j = k + 1 \/ j \in (k + 1 + 1) .. n
      BY <1>1, <2>1
    <3> QED BY <3>1 DEF Left
  <2>4. pending[k + 1] \in Names(comp, "state")
    BY <1>1, <2>1
  <2>5. CurrentBut(comp, g[k].val, g[k].text, Left(k))
    BY <1>4
  <2>6. CurrentBut(comp, Update(g[k], pending[k + 1]).val, Update(g[k], pending[k + 1]).text, Left(k + 1))
    BY <2>3, <2>4, <2>5, UpdateProperties
  <2>7. CurrentBut(comp, g[k + 1].val, g[k + 1].text, Left(k + 1))
    BY <2>2, <2>6
  <2> QED BY <2>1, <2>7
<1>5. n \in S
  <2> HIDE DEF S
  <2>1. 0 .. n \subseteq S
    BY <1>1, <1>3, <1>4, UpTo
  <2> QED BY <1>1, <2>1
<1>6. Left(n) = {}
  <2>1. (n + 1) .. n = {}
    BY <1>1
  <2> QED BY <2>1 DEF Left
<1>7. Updated = g[n]
  BY <1>2 DEF Updated
<1> QED BY <1>5, <1>6, <1>7

-----------------------------------------------------------------------------
(* The invariant: what is not up to date is what the waiting updaters will *)
(* compute, and while one waits the flush is among the tasks.              *)

Waiting == UNION {Changed(comp, x) : x \in Range(pending)}

QueueInv ==
  /\ comp \in Components
  /\ pending \in Seq(Names(comp, "state")) /\ tasks \in Seq({"mount", "flush"})
  /\ phase # "live" => pending = <<>> /\ ~scheduled /\ tasks = <<>>
  /\ scheduled => "flush" \in Range(tasks)
  /\ pending # <<>> => scheduled

FreshInv ==
  /\ QueueInv
  /\ phase = "live" => Parses(comp) /\ Initialises(comp) /\ (Whole(comp) => CurrentBut(comp, val, text, Waiting))

LEMMA WaitingLeft ==
  ASSUME pending \in Seq(Names(comp, "state"))
  PROVE  Waiting = Left(0)
<1>1. Range(pending) = {pending[j] : j \in 1 .. Len(pending)}
  BY DEF Range
<1> QED BY <1>1 DEF Waiting, Left

LEMMA FreshInitial == ComponentInit => FreshInv
BY DEF ComponentInit, FreshInv, QueueInv

LEMMA FreshInductive ==
  ASSUME FreshInv, [ComponentNext]_cvars
  PROVE  FreshInv'
<1> USE DEF FreshInv
<1>1. CASE Refuse
  BY <1>1 DEF Refuse, QueueInv
<1>2. CASE Crash
  BY <1>2 DEF Crash, QueueInv
<1>3. CASE Create
  <2>1. QueueInv'
    BY <1>3 DEF Create, QueueInv
  <2>2. Waiting' = {}
    <3>1. pending' = <<>> /\ Range(<<>>) = {}
      BY <1>3 DEF Create, QueueInv, Range
    <3> QED BY <3>1 DEF Waiting
  <2>3. Whole(comp) => CurrentBut(comp, val', text', {})
    BY <1>3, CreateProperties DEF Create, Alive, QueueInv
  <2> QED BY <1>3, <2>1, <2>2, <2>3 DEF Create
<1>4. ASSUME NEW x \in Names(comp, "state"), NEW w \in StateValues, SetState(x, w)
      PROVE  FreshInv'
  <2>1. comp' = comp /\ phase' = phase /\ phase = "live" /\ text' = text /\ pending' = Append(pending, x)
        /\ val' = Assign(val, x, w) /\ scheduled' = TRUE
    BY <1>4 DEF SetState
  <2>2. Range(pending') = Range(pending) \cup {x} /\ pending' \in Seq(Names(comp, "state")) /\ pending' # <<>>
    BY <2>1, AppendedRight DEF QueueInv, Appended
  <2>3. tasks' \in Seq({"mount", "flush"}) /\ "flush" \in Range(tasks')
    BY <1>4, AppendedRight DEF SetState, QueueInv, Appended
  <2>4. Waiting' = Waiting \cup Changed(comp, x)
    BY <2>1, <2>2 DEF Waiting
  <2>5. Whole(comp) => CurrentBut(comp, val', text', Waiting')
    BY <2>1, <2>4, SetProperties DEF Alive, QueueInv
  <2> QED BY <2>1, <2>2, <2>3, <2>5 DEF QueueInv
<1>5. ASSUME NEW h \in Hooks, Register(h)
      PROVE  FreshInv'
  BY <1>5 DEF Register, QueueInv, Waiting
<1>6. CASE RunMount
  <2>1. phase = "live" /\ tasks' \in Seq({"mount", "flush"}) /\ Range(tasks) = {"mount"} \cup Range(tasks')
    BY <1>6, HeadAndTail DEF RunMount, QueueInv
  <2> QED BY <1>6, <2>1 DEF RunMount, QueueInv, Waiting
<1>7. CASE Flush
  <2>1. phase = "live" /\ tasks' \in Seq({"mount", "flush"})
    BY <1>7, HeadAndTail DEF Flush, QueueInv
  <2>2. comp' = comp /\ phase' = phase /\ val' = Updated.val /\ text' = Updated.text /\ pending' = <<>> /\ scheduled' = FALSE
    BY <1>7 DEF Flush
  <2>3. Waiting' = {}
    <3>1. Range(<<>>) = {}
      BY DEF Range
    <3> QED BY <2>2, <3>1 DEF Waiting
  <2>4. Whole(comp) => CurrentBut(comp, val', text', Waiting')
    BY <2>1, <2>2, <2>3, WaitingLeft, FlushProperties DEF Alive, QueueInv
  <2> QED BY <2>1, <2>2, <2>4 DEF QueueInv
<1>8. CASE UNCHANGED cvars
  BY <1>8 DEF cvars, QueueInv, Waiting
<1> QED BY <1>1, <1>2, <1>3, <1>4, <1>5, <1>6, <1>7, <1>8 DEF ComponentNext

LEMMA FreshImplies == FreshInv => MemosFresh
<1> SUFFICES ASSUME FreshInv, Quiet, Whole(comp)
             PROVE  /\ \A m \in Names(comp, "memo") : Value(comp, m) = NoExpr \/ val[m] = JsValue(Value(comp, m), val)
                    /\ \A i \in DOMAIN text : Patched(comp, i) => text[i] = val[Shown(comp)[i].name]
  BY DEF MemosFresh
<1>1. Alive(comp) /\ BindingsOK(comp)
  BY BindingsProperties DEF FreshInv, QueueInv, Quiet, Alive
<1>2. Waiting = {}
  <2>1. Range(<<>>) = {}
    BY DEF Range
  <2>2. pending = <<>>
    BY <2>1 DEF FreshInv, QueueInv, Quiet
  <2> QED BY <2>1, <2>2 DEF Waiting
<1>3. CurrentBut(comp, val, text, {})
  BY <1>2 DEF FreshInv, Quiet
<1>4. ASSUME NEW m \in Names(comp, "memo"), Value(comp, m) # NoExpr
      PROVE  val[m] = JsValue(Value(comp, m), val)
  <2>1. PICK r \in 1 .. Len(comp.bindings) : m = comp.bindings[r].name /\ comp.bindings[r].qualifier = "memo"
    BY <1>1, NamedBinding
  <2>2. Position(comp, m) = r
    BY <1>1, <2>1, PositionRight DEF Alive
  <2>3. Value(comp, m) = comp.bindings[r].value
    BY <2>2 DEF Value
  <2> QED BY <1>3, <1>4, <2>1, <2>3 DEF CurrentBut, Memo, FreshMemo
<1>5. \A i \in DOMAIN text : Patched(comp, i) => text[i] = val[Shown(comp)[i].name]
  BY <1>3 DEF CurrentBut
<1> QED BY <1>4, <1>5

\* Whatever setters are called and whenever the microtasks run, all that is
\* not up to date depends on a state whose updater waits, and a flush that
\* will run it is queued.
THEOREM PageInvariant == ComponentSpec => []FreshInv
<1>1. FreshInv /\ [ComponentNext]_cvars => FreshInv'
  BY FreshInductive
<1> QED BY FreshInitial, <1>1, PTL DEF ComponentSpec

\* Once the microtasks have run, every memo is what its expression gives and
\* every text node shows its binding: the set of names an updater recomputes
\* is closed under reading, and the order of the declarations is an order in
\* which memos may be computed.
THEOREM Fresh == ComponentSpec => []MemosFresh
BY PageInvariant, FreshImplies, PTL
=============================================================================
