--------------------------- MODULE MailboxProofs ---------------------------
(***************************************************************************)
(* Theorems about the two representations of a mailbox, for every set of   *)
(* priorities, every threshold and any number of messages: both keep their *)
(* order, through the migration too, and together they implement           *)
(* PriorityFifo.                                                           *)
(***************************************************************************)
EXTENDS Mailbox, MailboxLemmas

Message == [ticket : Nat, priority : Priorities]

\* The buckets of a map: what RepresentationSorted says of m.
BucketsSorted(f) ==
  \A p \in DOMAIN f :
    /\ f[p] # << >>
    /\ \A i \in 1..Len(f[p]) : f[p][i].priority = p
    /\ \A i, j \in 1..Len(f[p]) : i < j => f[p][i].ticket < f[p][j].ticket

\* A map of buckets: finitely many keys, each a priority.
BucketsTyped(f) ==
  /\ IsFiniteSet(DOMAIN f)
  /\ DOMAIN f \subseteq Priorities
  /\ \A p \in DOMAIN f : f[p] \in Seq(Message)

\* What is queued under a key.
Bucket(f, p) == IF p \in DOMAIN f THEN f[p] ELSE << >>

\* The messages of a deque, and those of a map.
Items(s) == {s[i] : i \in 1..Len(s)}
Held(f) == UNION {Items(f[p]) : p \in DOMAIN f}

\* Every message in the mailbox was inserted before now.
TicketsPast == \A e \in Contents : e.ticket < arrivals

\* The inductive invariant: the order of the representations needs that a
\* new ticket is the youngest and that the keys of the map, which has a
\* highest one whenever it is not empty, are finitely many.
IInv == TypeOK /\ RepresentationSorted /\ TicketsPast /\ IsFiniteSet(DOMAIN m)

-----------------------------------------------------------------------------
(* Facts about the operators on the map. *)

\* A finite non-empty set of integers has a greatest element.
LEMMA FiniteIntMax ==
  ASSUME NEW T, T \subseteq Int, IsFiniteSet(T), T # {}
  PROVE  \E x \in T : \A y \in T : y <= x
<1> DEFINE Bad(U) == /\ IsFiniteSet(U) /\ U # {}
                     /\ ~ \E x \in U : \A y \in U : y <= x
           Sizes == {n \in Nat : \E U \in SUBSET Int : Bad(U) /\ Cardinality(U) = n}
<1>1. SUFFICES ASSUME Bad(T) PROVE FALSE
  OBVIOUS
<1>2. Cardinality(T) \in Sizes
  BY <1>1, FS_CardinalityType
<1>3. PICK n \in Sizes : \A k \in Sizes : n <= k
  <2>1. Sizes \subseteq Nat /\ Sizes # {}
    BY <1>2
  <2> HIDE DEF Sizes
  <2> QED BY <2>1, NatMin
<1>4. PICK U \in SUBSET Int : Bad(U) /\ Cardinality(U) = n
  BY <1>3
<1>5. PICK x \in U : TRUE
  BY <1>4
<1> DEFINE W == U \ {x}
<1>6. IsFiniteSet(W) /\ Cardinality(W) = n - 1 /\ n - 1 \in Nat
  <2>1. IsFiniteSet(W) /\ Cardinality(W) = Cardinality(U) - 1
    BY <1>4, <1>5, FS_RemoveElement
  <2>2. Cardinality(W) \in Nat
    BY <2>1, FS_CardinalityType
  <2> QED BY <2>1, <2>2, <1>4
<1>7. CASE W = {}
  <2>1. \A y \in U : y <= x
    BY <1>7, <1>5
  <2> QED BY <2>1, <1>4, <1>5
<1>8. CASE W # {}
  <2>1. ~ Bad(W)
    <3>1. n - 1 \notin Sizes
      BY <1>3, <1>6
    <3> QED BY <3>1, <1>6
  <2>2. PICK z \in W : \A y \in W : y <= z
    BY <2>1, <1>6, <1>8
  <2>3. x \in Int /\ z \in Int /\ x \in U /\ z \in U /\ \A y \in U : y \in Int /\ (y = x \/ y <= z)
    BY <1>5, <2>2
  <2>4. CASE x <= z
    BY <2>3, <2>4, <1>4
  <2>5. CASE z < x
    <3>1. \A y \in U : y <= x
      BY <2>3, <2>5
    <3> QED BY <2>3, <3>1, <1>4
  <2> QED BY <2>3, <2>4, <2>5
<1> QED BY <1>7, <1>8

\* The top key is the highest of the keys.
LEMMA TopKeyProperties ==
  ASSUME NEW f, BucketsTyped(f), DOMAIN f # {}
  PROVE  TopKey(f) \in DOMAIN f /\ \A q \in DOMAIN f : q <= TopKey(f)
<1>1. DOMAIN f \subseteq Int /\ IsFiniteSet(DOMAIN f)
  BY MailboxAssumption DEF BucketsTyped
<1>2. \E p \in DOMAIN f : \A q \in DOMAIN f : q <= p
  BY <1>1, FiniteIntMax
<1> QED BY <1>2 DEF TopKey

\* A push appends to the bucket of the envelope's priority, which it makes
\* when there is none, and leaves the others alone.
LEMMA PushBucketProperties ==
  ASSUME NEW f, BucketsTyped(f), NEW env \in Message
  PROVE  LET g == PushBucket(f, env)
             b == Bucket(f, env.priority)
         IN  /\ BucketsTyped(g)
             /\ DOMAIN g = DOMAIN f \cup {env.priority}
             /\ \A p \in DOMAIN f \ {env.priority} : g[p] = f[p]
             /\ b \in Seq(Message)
             /\ g[env.priority] = Append(b, env)
<1> DEFINE g == PushBucket(f, env)
           k == env.priority
           b == Bucket(f, k)
<1>1. k \in Priorities
  BY DEF Message
<1>2. b \in Seq(Message)
  BY DEF BucketsTyped, Bucket
<1>3. Append(b, env) \in Seq(Message)
  BY <1>2, AppendProperties
<1>4. /\ DOMAIN g = DOMAIN f \cup {k}
      /\ \A p \in DOMAIN f \ {k} : g[p] = f[p]
      /\ g[k] = Append(b, env)
  BY DEF PushBucket, Bucket
<1>5. IsFiniteSet(DOMAIN f \cup {k})
  BY FS_AddElement DEF BucketsTyped
<1>6. BucketsTyped(g)
  BY <1>1, <1>3, <1>4, <1>5 DEF BucketsTyped
<1> QED BY <1>2, <1>3, <1>4, <1>6

\* A push of the youngest message keeps the buckets sorted and adds that
\* message to what they hold.
LEMMA PushBucketSorted ==
  ASSUME NEW f, BucketsTyped(f), BucketsSorted(f), NEW env \in Message,
         \A e \in Held(f) : e.priority = env.priority => e.ticket < env.ticket
  PROVE  /\ BucketsSorted(PushBucket(f, env))
         /\ Held(PushBucket(f, env)) = Held(f) \cup {env}
<1> DEFINE g == PushBucket(f, env)
           k == env.priority
           b == Bucket(f, k)
<1>1. /\ DOMAIN g = DOMAIN f \cup {k}
      /\ \A p \in DOMAIN f \ {k} : g[p] = f[p]
      /\ b \in Seq(Message)
      /\ BucketsTyped(g)
      /\ Len(g[k]) = Len(b) + 1
      /\ \A i \in 1..Len(b) : g[k][i] = b[i]
      /\ g[k][Len(b) + 1] = env
  <2>1. /\ DOMAIN g = DOMAIN f \cup {k}
        /\ \A p \in DOMAIN f \ {k} : g[p] = f[p]
        /\ b \in Seq(Message)
        /\ BucketsTyped(g)
        /\ g[k] = Append(b, env)
    BY PushBucketProperties
  <2> HIDE DEF g, b
  <2> QED BY <2>1, AppendProperties
<1>2. /\ Len(b) \in Nat
      /\ \A i \in 1..Len(b) : b[i].priority = k /\ b[i].ticket < env.ticket
      /\ \A i, j \in 1..Len(b) : i < j => b[i].ticket < b[j].ticket
  <2>1. CASE k \in DOMAIN f
    <3>1. b = f[k]
      BY <2>1 DEF Bucket
    <3>2. \A i \in 1..Len(b) : b[i] \in Held(f)
      BY <2>1, <3>1 DEF Held, Items
    <3>3. /\ \A i \in 1..Len(b) : b[i].priority = k
          /\ \A i, j \in 1..Len(b) : i < j => b[i].ticket < b[j].ticket
      BY <2>1, <3>1 DEF BucketsSorted
    <3> QED BY <1>1, <3>2, <3>3
  <2>2. CASE k \notin DOMAIN f
    BY <2>2 DEF Bucket
  <2> QED BY <2>1, <2>2
<1>3. k \notin DOMAIN f => Len(b) = 0
  BY DEF Bucket
<1>4. k \in DOMAIN f => b = f[k]
  BY DEF Bucket
<1> HIDE DEF g, b
<1>5. ASSUME NEW p \in DOMAIN g
      PROVE  /\ g[p] # << >>
             /\ \A i \in 1..Len(g[p]) : g[p][i].priority = p
             /\ \A i, j \in 1..Len(g[p]) : i < j => g[p][i].ticket < g[p][j].ticket
  <2>1. CASE p # k
    BY <2>1, <1>1 DEF BucketsSorted
  <2>2. CASE p = k
    <3>1. g[k] # << >>
      BY <1>1, <1>2
    <3>2. \A i \in 1..Len(g[k]) : i \in 1..Len(b) \/ i = Len(b) + 1
      BY <1>1, <1>2
    <3>3. \A i \in 1..Len(g[k]) : g[k][i].priority = k
      BY <3>2, <1>1, <1>2
    <3>4. ASSUME NEW i \in 1..Len(g[k]), NEW j \in 1..Len(g[k]), i < j
          PROVE  g[k][i].ticket < g[k][j].ticket
      <4>1. i \in 1..Len(b)
        BY <3>4, <1>1, <1>2
      <4>2. CASE j \in 1..Len(b)
        BY <4>1, <4>2, <3>4, <1>1, <1>2
      <4>3. CASE j = Len(b) + 1
        BY <4>1, <4>3, <1>1, <1>2
      <4> QED BY <4>2, <4>3, <3>2
    <3> QED BY <2>2, <3>1, <3>3, <3>4
  <2> QED BY <2>1, <2>2
<1>6. ASSUME NEW p \in DOMAIN g, NEW i \in 1..Len(g[p])
      PROVE  \/ g[p][i] = env
             \/ \E q \in DOMAIN f : \E j \in 1..Len(f[q]) : g[p][i] = f[q][j]
  <2>1. CASE p # k
    <3>1. p \in DOMAIN f /\ g[p] = f[p]
      BY <2>1, <1>1
    <3> QED BY <3>1
  <2>2. CASE p = k /\ i \in 1..Len(b)
    <3>1. k \in DOMAIN f
      BY <2>2, <1>2, <1>3
    <3>2. g[p][i] = f[k][i] /\ i \in 1..Len(f[k])
      BY <3>1, <2>2, <1>1, <1>4
    <3> QED BY <3>1, <3>2
  <2>3. CASE p = k /\ i = Len(b) + 1
    BY <2>3, <1>1
  <2>4. p = k => i \in 1..Len(b) \/ i = Len(b) + 1
    BY <1>1, <1>2
  <2> QED BY <2>1, <2>2, <2>3, <2>4
<1>7. ASSUME NEW q \in DOMAIN f, NEW j \in 1..Len(f[q])
      PROVE  \E p \in DOMAIN g : \E i \in 1..Len(g[p]) : f[q][j] = g[p][i]
  <2>1. CASE q # k
    BY <2>1, <1>1
  <2>2. CASE q = k
    <3>1. b = f[k] /\ j \in 1..Len(b)
      BY <2>2, <1>4
    <3>2. j \in 1..Len(g[k]) /\ f[q][j] = g[k][j] /\ k \in DOMAIN g
      BY <3>1, <2>2, <1>1, <1>2
    <3> QED BY <3>2
  <2> QED BY <2>1, <2>2
<1>8. \E p \in DOMAIN g : \E i \in 1..Len(g[p]) : env = g[p][i]
  <2>1. k \in DOMAIN g /\ Len(b) + 1 \in 1..Len(g[k])
    BY <1>1, <1>2
  <2> QED BY <2>1, <1>1
<1>9. ASSUME NEW e PROVE e \in Held(g) <=> e \in Held(f) \/ e = env
  <2>1. CASE e \in Held(g)
    BY <2>1, <1>6 DEF Held, Items
  <2>2. CASE e \in Held(f)
    <3>1. PICK q \in DOMAIN f : \E j \in 1..Len(f[q]) : e = f[q][j]
      BY <2>2 DEF Held, Items
    <3>2. PICK p \in DOMAIN g : \E i \in 1..Len(g[p]) : e = g[p][i]
      BY <3>1, <1>7
    <3>3. e \in Items(g[p])
      BY <3>2 DEF Items
    <3> QED BY <2>2, <3>2, <3>3 DEF Held
  <2>3. CASE e = env
    BY <2>3, <1>8 DEF Held, Items
  <2> QED BY <2>1, <2>2, <2>3
<1>10. Held(g) = Held(f) \cup {env}
  BY <1>9
<1> QED BY <1>5, <1>10 DEF BucketsSorted, g

\* A pop leaves a map of the same shape, without the keys it emptied.
LEMMA PopBucketProperties ==
  ASSUME NEW f, BucketsTyped(f), BucketsSorted(f), DOMAIN f # {}
  PROVE  LET g == PopBucket(f)
             top == TopKey(f)
         IN  /\ BucketsTyped(g)
             /\ DOMAIN f \ {top} \subseteq DOMAIN g
             /\ DOMAIN g \subseteq DOMAIN f
             /\ \A p \in DOMAIN f \ {top} : g[p] = f[p]
             /\ top \in DOMAIN g <=> Tail(f[top]) # << >>
             /\ top \in DOMAIN g => g[top] = Tail(f[top])
<1> DEFINE g == PopBucket(f)
           top == TopKey(f)
<1>1. top \in DOMAIN f
  BY TopKeyProperties
<1>2. f[top] \in Seq(Message) /\ f[top] # << >>
  BY <1>1 DEF BucketsTyped, BucketsSorted
<1>3. Tail(f[top]) \in Seq(Message)
  BY <1>2, HeadTailProperties
<1>4. IsFiniteSet(DOMAIN f) /\ IsFiniteSet(DOMAIN f \ {top})
  BY FS_RemoveElement DEF BucketsTyped
<1>5. CASE Tail(f[top]) = << >>
  <2>1. g = [p \in DOMAIN f \ {top} |-> f[p]]
    BY <1>5 DEF PopBucket
  <2> HIDE DEF g, top
  <2>2. BucketsTyped(g)
    BY <2>1, <1>4 DEF BucketsTyped
  <2> QED BY <1>5, <2>1, <2>2 DEF g, top
<1>6. CASE Tail(f[top]) # << >>
  <2>1. g = [f EXCEPT ![top] = Tail(f[top])]
    BY <1>6 DEF PopBucket
  <2> HIDE DEF g, top
  <2>2. /\ DOMAIN g = DOMAIN f
        /\ \A p \in DOMAIN f \ {top} : g[p] = f[p]
        /\ g[top] = Tail(f[top])
    BY <2>1, <1>1
  <2>3. BucketsTyped(g)
    BY <2>2, <1>3, <1>4 DEF BucketsTyped
  <2> QED BY <1>1, <1>6, <2>2, <2>3 DEF g, top
<1> QED BY <1>5, <1>6

\* A pop keeps the buckets sorted and takes exactly the message every other
\* one is served after.
LEMMA PopBucketSorted ==
  ASSUME NEW f, BucketsTyped(f), BucketsSorted(f), DOMAIN f # {},
         NEW first, first = Head(f[TopKey(f)])
  PROVE  /\ BucketsSorted(PopBucket(f))
         /\ first \in Message
         /\ first \in Held(f)
         /\ Held(PopBucket(f)) = Held(f) \ {first}
         /\ \A e \in Held(f) \ {first} : Abstract!ServedBefore(first, e)
<1> DEFINE g == PopBucket(f)
           top == TopKey(f)
           q == f[top]
<1>1. top \in DOMAIN f /\ \A p \in DOMAIN f : p <= top
  BY TopKeyProperties
<1>2. /\ DOMAIN f \ {top} \subseteq DOMAIN g
      /\ DOMAIN g \subseteq DOMAIN f
      /\ \A p \in DOMAIN f \ {top} : g[p] = f[p]
      /\ top \in DOMAIN g <=> Tail(q) # << >>
      /\ top \in DOMAIN g => g[top] = Tail(q)
  BY PopBucketProperties
<1>3. q \in Seq(Message) /\ q # << >> /\ Len(q) \in Nat /\ Len(q) >= 1
  BY <1>1 DEF BucketsTyped, BucketsSorted
<1>4. /\ \A i \in 1..Len(q) : q[i] \in Message /\ q[i].priority = top
      /\ \A i, j \in 1..Len(q) : i < j => q[i].ticket < q[j].ticket
  BY <1>1, <1>3 DEF BucketsSorted
<1>5. first = q[1] /\ 1 \in 1..Len(q)
  BY <1>3
<1>6. /\ Tail(q) \in Seq(Message)
      /\ Len(Tail(q)) = Len(q) - 1
      /\ \A i \in 1..Len(Tail(q)) : Tail(q)[i] = q[i + 1]
  BY <1>3, HeadTailProperties
<1>7. \A p \in DOMAIN f : \A i \in 1..Len(f[p]) :
        f[p][i] \in Message /\ f[p][i].priority = p
  <2> SUFFICES ASSUME NEW p \in DOMAIN f, NEW i \in 1..Len(f[p])
               PROVE  f[p][i] \in Message /\ f[p][i].priority = p
    OBVIOUS
  <2>1. f[p] \in Seq(Message)
    BY DEF BucketsTyped
  <2>2. f[p][i] \in Message
    BY <2>1, ElementOfSeq
  <2> QED BY <2>2 DEF BucketsSorted
<1>8. \A i \in 2..Len(q) : q[1].ticket < q[i].ticket
  BY <1>3, <1>4
<1> HIDE DEF g, top, q
<1>9. ASSUME NEW p \in DOMAIN f, NEW i \in 1..Len(f[p]), p # top \/ i # 1
      PROVE  first # f[p][i] /\ Abstract!ServedBefore(first, f[p][i])
  <2>1. CASE p # top
    <3>1. first.priority = top /\ f[p][i].priority = p /\ p <= top
      BY <1>1, <1>4, <1>5, <1>7
    <3>2. p < top /\ top \in Int /\ p \in Int
      <4>1. \A r \in DOMAIN f : r \in Int
        BY MailboxAssumption DEF BucketsTyped
      <4> QED BY <2>1, <3>1, <1>1, <4>1
    <3>3. first.priority > f[p][i].priority
      BY <3>1, <3>2
    <3>4. first # f[p][i]
      BY <3>1, <2>1
    <3> QED BY <3>3, <3>4 DEF Abstract!ServedBefore
  <2>2. CASE p = top /\ i # 1
    <3>1. i \in 2..Len(q) /\ f[p][i] = q[i]
      BY <2>2, <1>3 DEF q
    <3>2. q[1].ticket < q[i].ticket /\ q[1].priority = top /\ q[i].priority = top
      BY <3>1, <1>3, <1>4, <1>8
    <3>3. q[1].ticket \in Nat /\ q[i].ticket \in Nat
      BY <3>1, <1>3, <1>4 DEF Message
    <3> QED BY <3>1, <3>2, <3>3, <1>5 DEF Abstract!ServedBefore
  <2> QED BY <2>1, <2>2, <1>9
<1>10. BucketsSorted(g)
  <2> SUFFICES ASSUME NEW p \in DOMAIN g
               PROVE  /\ g[p] # << >>
                      /\ \A i \in 1..Len(g[p]) : g[p][i].priority = p
                      /\ \A i, j \in 1..Len(g[p]) :
                           i < j => g[p][i].ticket < g[p][j].ticket
    BY DEF BucketsSorted
  <2>1. CASE p # top
    BY <2>1, <1>2 DEF BucketsSorted
  <2>2. CASE p = top
    <3>1. g[p] = Tail(q) /\ Tail(q) # << >>
      BY <2>2, <1>2
    <3>2. \A i \in 1..Len(Tail(q)) : i + 1 \in 1..Len(q)
      BY <1>3, <1>6
    <3> QED BY <2>2, <3>1, <3>2, <1>4, <1>6
  <2> QED BY <2>1, <2>2
<1>11. first \in Message /\ first \in Held(f)
  BY <1>1, <1>4, <1>5 DEF q, Held, Items
<1>12. ASSUME NEW p \in DOMAIN g, NEW i \in 1..Len(g[p])
       PROVE  /\ g[p][i] # first
              /\ \E r \in DOMAIN f : \E j \in 1..Len(f[r]) : g[p][i] = f[r][j]
  <2>1. CASE p # top
    <3>1. p \in DOMAIN f /\ g[p] = f[p]
      BY <2>1, <1>2
    <3>2. f[p][i] # first
      BY <3>1, <2>1, <1>9
    <3> QED BY <3>1, <3>2
  <2>2. CASE p = top
    <3>1. i + 1 \in 1..Len(q) /\ i + 1 # 1 /\ g[p][i] = q[i + 1]
      BY <2>2, <1>2, <1>3, <1>6
    <3>2. q[i + 1] # first
      BY <3>1, <1>1, <1>9 DEF q
    <3> QED BY <3>1, <3>2, <1>1 DEF q
  <2> QED BY <2>1, <2>2
<1>13. ASSUME NEW p \in DOMAIN f, NEW i \in 1..Len(f[p]), f[p][i] # first
       PROVE  \E r \in DOMAIN g : \E j \in 1..Len(g[r]) : f[p][i] = g[r][j]
  <2>1. CASE p # top
    BY <2>1, <1>2
  <2>2. CASE p = top
    <3>1. i # 1 /\ f[p][i] = q[i] /\ i \in 1..Len(q)
      BY <2>2, <1>13, <1>5 DEF q
    <3>2. i - 1 \in 1..Len(Tail(q)) /\ (i - 1) + 1 = i
      BY <3>1, <1>3, <1>6
    <3>3. Tail(q)[i - 1] = q[i]
      BY <3>2, <1>6
    <3>4. Tail(q) # << >>
      <4> DEFINE t == Tail(q)
      <4>1. t \in Seq(Message) /\ Len(t) # 0
        BY <3>2, <1>6
      <4> HIDE DEF t
      <4>2. t # << >>
        BY <4>1
      <4> QED BY <4>2 DEF t
    <3> QED BY <2>2, <3>1, <3>2, <3>3, <3>4, <1>2
  <2> QED BY <2>1, <2>2
<1>14. ASSUME NEW e \in Held(f) \ {first}
       PROVE  Abstract!ServedBefore(first, e)
  <2>1. PICK p \in DOMAIN f : \E i \in 1..Len(f[p]) : e = f[p][i]
    BY DEF Held, Items
  <2>2. PICK i \in 1..Len(f[p]) : e = f[p][i]
    BY <2>1
  <2>3. p # top \/ i # 1
    BY <2>2, <1>5 DEF q
  <2> QED BY <2>2, <2>3, <1>9
<1>15. ASSUME NEW e
       PROVE  e \in Held(g) <=> e \in Held(f) /\ e # first
  <2>1. CASE e \in Held(g)
    BY <2>1, <1>12 DEF Held, Items
  <2>2. CASE e \in Held(f) /\ e # first
    BY <2>2, <1>13 DEF Held, Items
  <2> QED BY <2>1, <2>2
<1>16. Held(g) = Held(f) \ {first}
  BY <1>15
<1> QED BY <1>10, <1>11, <1>14, <1>16 DEF g

-----------------------------------------------------------------------------
(* The steps: each keeps the invariant and is a step of PriorityFifo on the *)
(* contents of the mailbox, or leaves them as they are.                     *)

\* The invariant in the terms of the lemmas above.
LEMMA InvParts ==
  IInv <=>
    /\ repr \in {"Linear", "Draining", "Map"}
    /\ repr = "Linear" => DOMAIN m = {} /\ Len(v) <= Threshold
    /\ repr = "Map" => v = << >>
    /\ v \in Seq(Message)
    /\ BucketsTyped(m)
    /\ arrivals \in Nat
    /\ taken \in Message \cup {Abstract!Nothing}
    /\ InOrder(v)
    /\ BucketsSorted(m)
    /\ \A a \in Held(m) : \A b \in Items(v) : Abstract!ServedBefore(a, b)
    /\ TicketsPast
<1>1. (\A a \in Held(m) : \A b \in Items(v) : Abstract!ServedBefore(a, b))
      <=> \A p \in DOMAIN m : \A i \in 1..Len(m[p]) : \A j \in 1..Len(v) :
            Abstract!ServedBefore(m[p][i], v[j])
  BY DEF Held, Items
<1> QED BY <1>1 DEF IInv, TypeOK, RepresentationSorted, BucketsTyped, BucketsSorted,
       Message, Abstract!Message

\* What is in the mailbox.
LEMMA ContentsParts == Contents = Items(v) \cup Held(m)
BY DEF Contents, Items, Held

\* Nothing is held by a map without keys.
LEMMA HeldEmpty == ASSUME NEW f, DOMAIN f = {} PROVE Held(f) = {}
BY DEF Held

\* An envelope that arrives now is a message.
LEMMA EnvelopeType ==
  ASSUME arrivals \in Nat, NEW p \in Priorities
  PROVE  /\ Envelope(p) \in Message
         /\ Envelope(p).ticket = arrivals
         /\ Envelope(p).priority = p
BY DEF Envelope, Message

\* An insert adds its envelope to what the deque holds.
LEMMA LinearInsertItems ==
  ASSUME NEW s \in Seq(Message), NEW env \in Message
  PROVE  /\ LinearInsert(s, env) \in Seq(Message)
         /\ Len(LinearInsert(s, env)) = Len(s) + 1
         /\ Items(LinearInsert(s, env)) = Items(s) \cup {env}
<1> DEFINE w == LinearInsert(s, env)
           k == InsertPos(s, env)
<1>1. \A i \in 1..Len(s) : s[i].priority \in Int
  <2>1. \A i \in 1..Len(s) : s[i] \in Message
    BY ElementOfSeq
  <2> QED BY <2>1, MailboxAssumption DEF Message
<1>2. env.priority \in Int
  BY MailboxAssumption DEF Message
<1>3. /\ w \in Seq(Message)
      /\ Len(w) = Len(s) + 1
      /\ k \in 1..(Len(s) + 1)
      /\ \A j \in 1..(Len(s) + 1) :
           w[j] = IF j < k THEN s[j] ELSE IF j = k THEN env ELSE s[j - 1]
  BY <1>1, <1>2, LinearInsertProperties
<1>4. Len(s) \in Nat
  OBVIOUS
<1> HIDE DEF w, k
<1>5. ASSUME NEW j \in 1..Len(w) PROVE w[j] \in Items(s) \cup {env}
  <2>1. CASE j < k
    <3>1. j \in 1..Len(s) /\ w[j] = s[j]
      BY <2>1, <1>3, <1>4
    <3> QED BY <3>1 DEF Items
  <2>2. CASE j = k
    BY <2>2, <1>3
  <2>3. CASE j > k
    <3>1. j - 1 \in 1..Len(s) /\ w[j] = s[j - 1]
      BY <2>3, <1>3, <1>4
    <3> QED BY <3>1 DEF Items
  <2> QED BY <2>1, <2>2, <2>3, <1>3
<1>6. ASSUME NEW i \in 1..Len(s) PROVE \E j \in 1..Len(w) : s[i] = w[j]
  <2>1. CASE i < k
    <3>1. i \in 1..Len(w) /\ w[i] = s[i]
      BY <2>1, <1>3, <1>4
    <3> QED BY <3>1
  <2>2. CASE i >= k
    <3>1. /\ i + 1 \in 1..(Len(s) + 1) /\ ~(i + 1 < k) /\ i + 1 # k
          /\ (i + 1) - 1 = i
      BY <2>2, <1>3, <1>4
    <3>2. i + 1 \in 1..Len(w) /\ w[i + 1] = s[(i + 1) - 1]
      BY <3>1, <1>3
    <3> QED BY <3>1, <3>2
  <2> QED BY <2>1, <2>2, <1>3
<1>7. k \in 1..Len(w) /\ w[k] = env
  BY <1>3, <1>4
<1>8. ASSUME NEW e PROVE e \in Items(w) <=> e \in Items(s) \/ e = env
  <2>1. CASE e \in Items(w)
    BY <2>1, <1>5 DEF Items
  <2>2. CASE e \in Items(s)
    <3>1. PICK i \in 1..Len(s) : e = s[i]
      BY <2>2 DEF Items
    <3> QED BY <3>1, <1>6 DEF Items
  <2>3. CASE e = env
    BY <2>3, <1>7 DEF Items
  <2> QED BY <2>1, <2>2, <2>3
<1> QED BY <1>3, <1>8 DEF w

\* The front of a sorted deque is served before the rest, which stays sorted.
LEMMA TakeFront ==
  ASSUME NEW s \in Seq(Message), s # << >>, InOrder(s)
  PROVE  /\ Head(s) \in Message /\ Head(s) \in Items(s)
         /\ Tail(s) \in Seq(Message) /\ InOrder(Tail(s))
         /\ Len(Tail(s)) = Len(s) - 1
         /\ Items(Tail(s)) = Items(s) \ {Head(s)}
         /\ \A e \in Items(s) \ {Head(s)} : Abstract!ServedBefore(Head(s), e)
<1> DEFINE first == Head(s)
           rest == Tail(s)
<1>1. /\ first \in Message /\ rest \in Seq(Message)
      /\ Len(rest) = Len(s) - 1
      /\ \A j \in 1..Len(rest) : rest[j] = s[j + 1]
  BY HeadTailProperties
<1>2. Len(s) \in Nat /\ Len(s) >= 1 /\ first = s[1] /\ 1 \in 1..Len(s)
  OBVIOUS
<1> HIDE DEF first, rest
<1>3. \A i, j \in 1..Len(s) : i < j => Abstract!ServedBefore(s[i], s[j])
  BY DEF InOrder, Abstract!ServedBefore
<1>4. \A i \in 1..Len(s) : s[i] \in Message
  BY ElementOfSeq
<1>5. ASSUME NEW i \in 2..Len(s)
      PROVE  s[i] # first /\ Abstract!ServedBefore(first, s[i])
  <2>1. Abstract!ServedBefore(s[1], s[i])
    BY <1>2, <1>3
  <2>2. s[i].priority \in Int /\ s[i].ticket \in Nat
    <3>1. s[i] \in Message
      BY <1>2, <1>4
    <3> QED BY <3>1, MailboxAssumption DEF Message
  <2>3. s[i] # s[1]
    BY <2>1, <2>2 DEF Abstract!ServedBefore
  <2> QED BY <2>1, <2>3, <1>2
<1>6. ASSUME NEW j \in 1..Len(rest)
      PROVE  j + 1 \in 2..Len(s) /\ j + 1 \in 1..Len(s) /\ rest[j] = s[j + 1]
  BY <1>1, <1>2
<1>7. InOrder(rest)
  <2> SUFFICES ASSUME NEW i \in 1..Len(rest), NEW j \in 1..Len(rest), i < j
               PROVE  Abstract!ServedBefore(rest[i], rest[j])
    BY DEF InOrder, Abstract!ServedBefore
  <2>1. i + 1 < j + 1
    BY <1>1, <1>2
  <2> QED BY <2>1, <1>3, <1>6
<1>8. ASSUME NEW e \in Items(s) \ {first}
      PROVE  Abstract!ServedBefore(first, e) /\ e \in Items(rest)
  <2>1. PICK i \in 1..Len(s) : e = s[i]
    BY DEF Items
  <2>2. i \in 2..Len(s)
    BY <2>1, <1>2
  <2>3. i - 1 \in 1..Len(rest) /\ (i - 1) + 1 = i
    BY <2>2, <1>1, <1>2
  <2>4. e = rest[i - 1]
    BY <2>1, <2>3, <1>1
  <2> QED BY <2>1, <2>2, <2>3, <2>4, <1>5 DEF Items
<1>9. ASSUME NEW e \in Items(rest) PROVE e \in Items(s) \ {first}
  BY <1>5, <1>6 DEF Items
<1>10. first \in Items(s)
  BY <1>2 DEF Items
<1>11. Items(rest) = Items(s) \ {first}
  BY <1>8, <1>9
<1> QED BY <1>1, <1>7, <1>8, <1>10, <1>11 DEF first, rest

\* A map of buckets holds messages.
LEMMA HeldType == ASSUME NEW f, BucketsTyped(f) PROVE Held(f) \subseteq Message
<1> SUFFICES ASSUME NEW p \in DOMAIN f, NEW i \in 1..Len(f[p])
             PROVE  f[p][i] \in Message
  BY DEF Held, Items
<1>1. f[p] \in Seq(Message)
  BY DEF BucketsTyped
<1> QED BY <1>1, ElementOfSeq

\* A step of the mailbox keeps the invariant when what it leaves is sorted
\* and older than the next ticket.
LEMMA InvAfter ==
  ASSUME repr' \in {"Linear", "Draining", "Map"},
         repr' = "Linear" => DOMAIN m' = {} /\ Len(v') <= Threshold,
         repr' = "Map" => v' = << >>,
         v' \in Seq(Message), BucketsTyped(m'),
         arrivals' \in Nat, taken' \in Message \cup {Abstract!Nothing},
         InOrder(v'), BucketsSorted(m'),
         \A a \in Held(m') : \A b \in Items(v') : Abstract!ServedBefore(a, b),
         \A e \in Items(v') \cup Held(m') : e.ticket < arrivals'
  PROVE  IInv' /\ Contents' = Items(v') \cup Held(m')
<1>1. Contents' = Items(v') \cup Held(m')
  BY DEF Contents, Items, Held
<1>2. TicketsPast'
  BY <1>1 DEF TicketsPast
<1>3. \A p \in DOMAIN m' : \A i \in 1..Len(m'[p]) : \A j \in 1..Len(v') :
        Abstract!ServedBefore(m'[p][i], v'[j])
  BY DEF Held, Items
<1> QED BY <1>1, <1>2, <1>3 DEF IInv, TypeOK, RepresentationSorted, BucketsTyped,
     BucketsSorted, Message, Abstract!Message

\* What the steps need of the invariant.
LEMMA InvBefore ==
  ASSUME IInv
  PROVE  /\ v \in Seq(Message) /\ Len(v) \in Nat /\ InOrder(v)
         /\ BucketsTyped(m) /\ BucketsSorted(m) /\ arrivals \in Nat
         /\ taken \in Message \cup {Abstract!Nothing}
         /\ repr = "Linear" => Held(m) = {} /\ Len(v) <= Threshold
         /\ repr = "Map" => v = << >> /\ Items(v) = {}
         /\ \A a \in Held(m) : \A b \in Items(v) : Abstract!ServedBefore(a, b)
         /\ \A e \in Items(v) \cup Held(m) : e.ticket < arrivals
         /\ Contents = Items(v) \cup Held(m)
<1>1. v = << >> => Items(v) = {}
  BY DEF Items
<1> QED BY <1>1, InvParts, HeldEmpty, ContentsParts DEF TicketsPast

\* An insert into the deque, whether or not the migration follows it.
LEMMA InsertLinearStep ==
  ASSUME IInv, NEW p \in Priorities, InsertLinear(p)
  PROVE  IInv' /\ Abstract!Put(p)
<1> DEFINE env == Envelope(p)
<1>1. /\ repr = "Linear" /\ DOMAIN m = {} /\ m' = m /\ taken' = taken
      /\ v' = LinearInsert(v, env)
      /\ repr' = IF Len(v') > Threshold THEN "Draining" ELSE "Linear"
      /\ arrivals < MaxArrivals /\ arrivals' = arrivals + 1
  BY InvParts DEF InsertLinear
<1>2. env \in Message /\ env.ticket = arrivals /\ env.priority = p
  BY InvBefore, EnvelopeType
<1>3. env = [ticket |-> arrivals, priority |-> p]
  BY DEF Envelope
<1> HIDE DEF env
<1>4. \A e \in Message : e.priority \in Int /\ e.ticket \in Nat
  BY MailboxAssumption DEF Message
<1>5. /\ v' \in Seq(Message)
      /\ Len(v') = Len(v) + 1
      /\ Items(v') = Items(v) \cup {env}
  BY <1>1, <1>2, InvBefore, LinearInsertItems
<1>6. InOrder(v')
  <2>1. \A i \in 1..Len(v) : v[i].ticket < arrivals
    BY InvBefore DEF Items
  <2> QED BY <2>1, <1>1, <1>2, <1>4, InvBefore, LinearInsertInOrder
<1>7. Held(m') = {} /\ Held(m) = {}
  BY <1>1, HeldEmpty
<1>8. \A e \in Items(v') \cup Held(m') : e.ticket < arrivals'
  <2>1. \A e \in Items(v) : e \in Message
    BY InvBefore DEF Items
  <2>2. \A e \in Items(v) : e.ticket < arrivals /\ e.ticket \in Nat /\ arrivals \in Nat
    BY <2>1, <1>4, InvBefore
  <2> QED BY <2>2, <1>1, <1>2, <1>5, <1>7, InvBefore
<1>9. /\ repr' \in {"Linear", "Draining", "Map"}
      /\ repr' = "Linear" => DOMAIN m' = {} /\ Len(v') <= Threshold
      /\ repr' # "Map"
      /\ arrivals' \in Nat
  BY <1>1, <1>5, InvBefore, MailboxAssumption
<1>10. IInv' /\ Contents' = Items(v') \cup Held(m')
  BY <1>1, <1>5, <1>6, <1>7, <1>8, <1>9, InvBefore, InvAfter
<1>11. Contents' = Contents \cup {env}
  BY <1>5, <1>7, <1>10, InvBefore
<1> QED BY <1>1, <1>3, <1>10, <1>11 DEF Abstract!Put

\* A turn of the drain loop moves the front of the deque to the end of its
\* bucket: the mailbox holds what it held.
LEMMA DrainStep ==
  ASSUME IInv, DrainOne
  PROVE  IInv' /\ Contents' = Contents /\ UNCHANGED <<arrivals, taken>>
<1> DEFINE first == Head(v)
<1>1. /\ repr = "Draining" /\ v # << >>
      /\ m' = PushBucket(m, first) /\ v' = Tail(v)
      /\ repr' = IF v' = << >> THEN "Map" ELSE "Draining"
      /\ arrivals' = arrivals /\ taken' = taken
  BY DEF DrainOne
<1>2. /\ first \in Message /\ first \in Items(v)
      /\ v' \in Seq(Message) /\ InOrder(v')
      /\ Items(v') = Items(v) \ {first}
      /\ \A e \in Items(v) \ {first} : Abstract!ServedBefore(first, e)
  BY <1>1, InvBefore, TakeFront
<1> HIDE DEF first
<1>3. \A e \in Held(m) : e.priority = first.priority => e.ticket < first.ticket
  <2>1. \A e \in Held(m) : Abstract!ServedBefore(e, first)
    BY <1>2, InvBefore
  <2>2. first.priority \in Int
    BY <1>2, MailboxAssumption DEF Message
  <2> QED BY <2>1, <2>2 DEF Abstract!ServedBefore
<1>4. BucketsTyped(m')
  BY <1>1, <1>2, InvBefore, PushBucketProperties
<1>5. BucketsSorted(m') /\ Held(m') = Held(m) \cup {first}
  BY <1>1, <1>2, <1>3, InvBefore, PushBucketSorted
<1>6. \A a \in Held(m') : \A b \in Items(v') : Abstract!ServedBefore(a, b)
  BY <1>2, <1>5, InvBefore
<1>7. Items(v') \cup Held(m') = Items(v) \cup Held(m)
  BY <1>2, <1>5
<1>8. /\ repr' \in {"Linear", "Draining", "Map"}
      /\ repr' # "Linear"
      /\ repr' = "Map" => v' = << >>
  BY <1>1
<1>9. \A e \in Items(v') \cup Held(m') : e.ticket < arrivals'
  BY <1>1, <1>7, InvBefore
<1>10. IInv' /\ Contents' = Items(v') \cup Held(m')
  BY <1>1, <1>2, <1>4, <1>5, <1>6, <1>8, <1>9, InvBefore, InvAfter
<1> QED BY <1>1, <1>7, <1>10, InvBefore

\* An insert into the map.
LEMMA InsertMapStep ==
  ASSUME IInv, NEW p \in Priorities, InsertMap(p)
  PROVE  IInv' /\ Abstract!Put(p)
<1> DEFINE env == Envelope(p)
<1>1. /\ repr = "Map" /\ v' = v /\ repr' = repr /\ taken' = taken
      /\ m' = PushBucket(m, env)
      /\ arrivals < MaxArrivals /\ arrivals' = arrivals + 1
  BY DEF InsertMap
<1>2. env \in Message /\ env.ticket = arrivals
  BY InvBefore, EnvelopeType
<1>3. env = [ticket |-> arrivals, priority |-> p]
  BY DEF Envelope
<1> HIDE DEF env
<1>4. BucketsTyped(m')
  BY <1>1, <1>2, InvBefore, PushBucketProperties
<1>5. BucketsSorted(m') /\ Held(m') = Held(m) \cup {env}
  <2>1. \A e \in Held(m) : e.priority = env.priority => e.ticket < env.ticket
    BY <1>2, InvBefore
  <2> QED BY <2>1, <1>1, <1>2, InvBefore, PushBucketSorted
<1>6. Items(v') = {} /\ Items(v) = {} /\ v' = << >>
  BY <1>1, InvBefore
<1>7. \A e \in Items(v') \cup Held(m') : e.ticket < arrivals'
  <2>1. \A e \in Held(m) : e.ticket \in Nat
    BY InvBefore, HeldType DEF Message
  <2> QED BY <2>1, <1>1, <1>2, <1>5, <1>6, InvBefore
<1>8. arrivals' \in Nat
  BY <1>1, InvBefore
<1>9. IInv' /\ Contents' = Items(v') \cup Held(m')
  BY <1>1, <1>4, <1>5, <1>6, <1>7, <1>8, InvBefore, InvAfter
<1>10. Contents' = Contents \cup {env}
  BY <1>5, <1>6, <1>9, InvBefore
<1> QED BY <1>1, <1>3, <1>9, <1>10 DEF Abstract!Put
\* pop_front on the deque.
LEMMA PopLinearStep ==
  ASSUME IInv, PopLinear
  PROVE  IInv' /\ (Abstract!TakeNothing \/ \E e \in Contents : Abstract!Take(e))
<1>1. repr = "Linear" /\ repr' = repr /\ m' = m /\ arrivals' = arrivals
  BY DEF PopLinear
<1>2. Held(m) = {} /\ Held(m') = {} /\ Len(v) <= Threshold /\ DOMAIN m' = {}
  BY <1>1, InvBefore, InvParts
<1>3. CASE v = << >>
  <2>1. taken' = Abstract!Nothing /\ v' = v
    BY <1>3 DEF PopLinear
  <2>2. Contents = {} /\ Items(v) = {}
    <3>1. Items(v) = {}
      BY <1>3 DEF Items
    <3> QED BY <3>1, <1>2, InvBefore
  <2>3. IInv' /\ Contents' = Items(v') \cup Held(m')
    BY <1>1, <1>2, <2>1, InvBefore, InvAfter
  <2> QED BY <1>1, <1>2, <2>1, <2>2, <2>3 DEF Abstract!TakeNothing
<1>4. CASE v # << >>
  <2> DEFINE first == Head(v)
  <2>1. taken' = first /\ v' = Tail(v)
    BY <1>4 DEF PopLinear
  <2>2. /\ first \in Message /\ first \in Items(v)
        /\ v' \in Seq(Message) /\ InOrder(v') /\ Len(v') = Len(v) - 1
        /\ Items(v') = Items(v) \ {first}
        /\ \A e \in Items(v) \ {first} : Abstract!ServedBefore(first, e)
    BY <1>4, <2>1, InvBefore, TakeFront
  <2> HIDE DEF first
  <2>3. Len(v') <= Threshold
    BY <1>2, <2>2, InvBefore, MailboxAssumption
  <2>4. IInv' /\ Contents' = Items(v') \cup Held(m')
    BY <1>1, <1>2, <2>1, <2>2, <2>3, InvBefore, InvAfter
  <2>5. Contents = Items(v)
    BY <1>2, InvBefore
  <2>6. Contents' = Contents \ {first}
    BY <1>2, <2>2, <2>4, <2>5
  <2>7. Abstract!Take(first)
    BY <1>1, <2>1, <2>2, <2>5, <2>6 DEF Abstract!Take
  <2> QED BY <2>2, <2>4, <2>5, <2>7
<1> QED BY <1>3, <1>4

\* pop_front on the map.
LEMMA PopMapStep ==
  ASSUME IInv, PopMap
  PROVE  IInv' /\ (Abstract!TakeNothing \/ \E e \in Contents : Abstract!Take(e))
<1>1. repr = "Map" /\ repr' = repr /\ v' = v /\ arrivals' = arrivals
  BY DEF PopMap
<1>2. v = << >> /\ Items(v) = {} /\ Items(v') = {}
  BY <1>1, InvBefore
<1>3. CASE DOMAIN m = {}
  <2>1. taken' = Abstract!Nothing /\ m' = m
    BY <1>3 DEF PopMap
  <2>2. Contents = {} /\ Held(m) = {}
    BY <1>2, <1>3, HeldEmpty, InvBefore
  <2>3. IInv' /\ Contents' = Items(v') \cup Held(m')
    BY <1>1, <1>2, <2>1, <2>2, InvBefore, InvAfter
  <2> QED BY <1>1, <1>2, <2>1, <2>2, <2>3 DEF Abstract!TakeNothing
<1>4. CASE DOMAIN m # {}
  <2> DEFINE first == Head(m[TopKey(m)])
  <2>1. taken' = first /\ m' = PopBucket(m)
    BY <1>4 DEF PopMap
  <2> HIDE DEF first
  <2>2. BucketsTyped(m')
    BY <1>4, <2>1, InvBefore, PopBucketProperties
  <2>3. /\ BucketsSorted(m')
        /\ first \in Message /\ first \in Held(m)
        /\ Held(m') = Held(m) \ {first}
        /\ \A e \in Held(m) \ {first} : Abstract!ServedBefore(first, e)
    BY <1>4, <2>1, InvBefore, PopBucketSorted DEF first
  <2>4. IInv' /\ Contents' = Items(v') \cup Held(m')
    BY <1>1, <1>2, <2>1, <2>2, <2>3, InvBefore, InvAfter
  <2>5. Contents = Held(m)
    BY <1>2, InvBefore
  <2>6. Contents' = Contents \ {first}
    BY <1>2, <2>3, <2>4, <2>5
  <2>7. Abstract!Take(first)
    BY <1>1, <2>1, <2>3, <2>5, <2>6 DEF Abstract!Take
  <2> QED BY <2>3, <2>4, <2>5, <2>7
<1> QED BY <1>3, <1>4

-----------------------------------------------------------------------------
LEMMA InitStep == Init => IInv /\ Abstract!Init
<1> SUFFICES ASSUME Init PROVE IInv /\ Abstract!Init
  OBVIOUS
<1>1. /\ repr = "Linear" /\ v = << >> /\ DOMAIN m = {} /\ arrivals = 0
      /\ taken = Abstract!Nothing
  BY DEF Init
<1>2. Items(v) = {} /\ Held(m) = {}
  BY <1>1, HeldEmpty DEF Items
<1>3. Contents = {}
  BY <1>2, ContentsParts
<1>4. IsFiniteSet(DOMAIN m)
  BY <1>1, FS_EmptySet
<1>5. IInv
  BY <1>1, <1>3, <1>4, MailboxAssumption
     DEF IInv, TypeOK, RepresentationSorted, TicketsPast, InOrder
<1> QED BY <1>1, <1>3, <1>5 DEF Abstract!Init

\* Every step keeps the invariant and is a step of PriorityFifo or leaves
\* its variables alone.
LEMMA NextStep ==
  IInv /\ [Next]_vars => IInv' /\ [Abstract!Next]_Abstract!fifoVars
<1> SUFFICES ASSUME IInv, [Next]_vars
             PROVE  IInv' /\ [Abstract!Next]_Abstract!fifoVars
  OBVIOUS
<1>1. ASSUME NEW p \in Priorities, InsertLinear(p) \/ InsertMap(p)
      PROVE  IInv' /\ Abstract!Put(p)
  BY <1>1, InsertLinearStep, InsertMapStep
<1>2. CASE DrainOne
  <2>1. IInv' /\ Contents' = Contents /\ UNCHANGED <<arrivals, taken>>
    BY <1>2, DrainStep
  <2> QED BY <2>1 DEF Abstract!fifoVars
<1>3. CASE PopLinear \/ PopMap
  <2>1. IInv' /\ (Abstract!TakeNothing \/ \E e \in Contents : Abstract!Take(e))
    BY <1>3, PopLinearStep, PopMapStep
  <2> QED BY <2>1 DEF Abstract!Next
<1>4. CASE UNCHANGED vars
  <2>1. Contents' = Contents /\ IInv'
    BY <1>4 DEF vars, Contents, IInv, TypeOK, RepresentationSorted, TicketsPast,
       InOrder
  <2> QED BY <1>4, <2>1 DEF vars, Abstract!fifoVars
<1> QED BY <1>1, <1>2, <1>3, <1>4 DEF Next, Abstract!Next

\* The invariant is inductive.
THEOREM InductiveInvariant == Spec => []IInv
BY InitStep, NextStep, PTL DEF Spec

\* Only one representation holds messages outside the migration, and the
\* deque never stays above the threshold.
THEOREM TypeCorrect == Spec => []TypeOK
<1>1. IInv => TypeOK
  BY DEF IInv
<1> QED BY <1>1, InductiveInvariant, PTL

\* Deque and buckets stay in serving order under every interleaving of
\* priorities, and during the migration what was moved is served before what
\* is left.
THEOREM Sorted == Spec => []RepresentationSorted
<1>1. IInv => RepresentationSorted
  BY DEF IInv
<1> QED BY <1>1, InductiveInvariant, PTL

\* Both representations and the migration between them implement one
\* priority queue that is FIFO among equals: an insert is a put, a pop takes
\* the oldest message of the highest priority, and the turns of the drain
\* loop cannot be told from doing nothing.
THEOREM Refinement == Spec => ImplementsPriorityFifo
<1>1. Init => Abstract!Init
  BY InitStep
<1>2. IInv /\ [Next]_vars => [Abstract!Next]_Abstract!fifoVars
  BY NextStep
<1> QED BY <1>1, <1>2, InductiveInvariant, PTL
        DEF Spec, ImplementsPriorityFifo, Abstract!Spec
-----------------------------------------------------------------------------
(* The readers: the length of a map is the sum over its buckets, in any      *)
(* order, and its vector is the buckets one after the other.                 *)

\* What is queued under the keys in K.
HeldUnder(f, K) == UNION {Items(f[p]) : p \in K}

\* A sequence in serving order has as many messages as places.
LEMMA InOrderCount ==
  ASSUME NEW s \in Seq(Message), InOrder(s)
  PROVE  IsFiniteSet(Items(s)) /\ Cardinality(Items(s)) = Len(s)
<1>1. Len(s) \in Nat /\ \A i \in 1..Len(s) : s[i] \in Message
  OBVIOUS
<1>2. \A i \in 1..Len(s) : s[i].priority \in Int /\ s[i].ticket \in Int
  <2>1. \A e \in Message : e.priority \in Int /\ e.ticket \in Int
    <3> TAKE e \in Message
    <3>1. e.priority \in Priorities /\ e.ticket \in Nat
      BY DEF Message
    <3>2. Priorities \subseteq Int
      BY MailboxAssumption
    <3>3. e.priority \in Int
      BY <3>1, <3>2
    <3>4. e.ticket \in Int
      BY <3>1
    <3> QED BY <3>3, <3>4
  <2> QED BY <1>1, <2>1
<1>3. ASSUME NEW i \in 1..Len(s), NEW j \in 1..Len(s), i < j PROVE s[i] # s[j]
  BY <1>2, <1>3 DEF InOrder
<1>4. \A i, j \in 1..Len(s) : s[i] = s[j] => i = j
  <2> TAKE i, j \in 1..Len(s)
  <2>1. i < j \/ j < i \/ i = j
    OBVIOUS
  <2> QED BY <2>1, <1>3
<1> DEFINE b == [i \in 1..Len(s) |-> s[i]]
<1>5. b \in Bijection(1..Len(s), Items(s))
  <2>1. b \in [1..Len(s) -> Items(s)]
    BY DEF Items
  <2>2. \A i, j \in 1..Len(s) : b[i] = b[j] => i = j
    BY <1>4
  <2>3. \A e \in Items(s) : \E i \in 1..Len(s) : b[i] = e
    BY DEF Items
  <2> HIDE DEF b
  <2> QED BY <2>1, <2>2, <2>3 DEF Bijection, Injection, Surjection, IsInjective
<1>6. ExistsBijection(1..Len(s), Items(s))
  BY <1>5 DEF ExistsBijection
<1>7. IsFiniteSet(1..Len(s)) /\ Cardinality(1..Len(s)) = Len(s)
  <2>1. 1 \in Int /\ Len(s) \in Int
    BY <1>1
  <2>2. IsFiniteSet(1..Len(s)) /\ Cardinality(1..Len(s)) = IF 1 > Len(s) THEN 0 ELSE Len(s) - 1 + 1
    BY <2>1, FS_Interval
  <2> QED BY <1>1, <2>2
<1> QED BY <1>6, <1>7, FS_Bijection

\* A bucket is in serving order, and its messages are of its priority.
LEMMA BucketInOrder ==
  ASSUME NEW f, BucketsTyped(f), BucketsSorted(f), NEW p \in DOMAIN f
  PROVE  /\ f[p] \in Seq(Message) /\ InOrder(f[p]) /\ f[p] # << >>
         /\ \A e \in Items(f[p]) : e.priority = p
  BY DEF BucketsTyped, BucketsSorted, InOrder, Items

\* Another bucket adds its messages to those of the buckets before.
LEMMA HeldUnderOneMore ==
  ASSUME NEW f, BucketsTyped(f), BucketsSorted(f), NEW K, K \subseteq DOMAIN f,
         NEW p \in K
  PROVE  Cardinality(HeldUnder(f, K)) = Len(f[p]) + Cardinality(HeldUnder(f, K \ {p}))
<1>1. IsFiniteSet(K \ {p}) /\ \A q \in K : IsFiniteSet(Items(f[q]))
  <2>1. IsFiniteSet(K) /\ K \ {p} \in SUBSET K
    BY FS_Subset DEF BucketsTyped
  <2> QED BY <2>1, FS_Subset, BucketInOrder, InOrderCount
<1>2. IsFiniteSet(HeldUnder(f, K \ {p}))
  <2> DEFINE U == {Items(f[q]) : q \in K \ {p}}
  <2>1. IsFiniteSet(U)
    <3> DEFINE g == [q \in K \ {p} |-> Items(f[q])]
    <3>1. g \in Surjection(K \ {p}, U)
      BY DEF Surjection
    <3> QED BY <3>1, <1>1, FS_Surjection
  <2> HIDE DEF U
  <2>2. IsFiniteSet(UNION U)
    <3>1. \A T \in U : IsFiniteSet(T)
      BY <1>1 DEF U
    <3> QED BY <3>1, <2>1, FS_UNION
  <2> QED BY <2>2 DEF HeldUnder, U
<1>3. HeldUnder(f, K) = Items(f[p]) \cup HeldUnder(f, K \ {p})
  BY DEF HeldUnder
<1>4. Items(f[p]) \cap HeldUnder(f, K \ {p}) = {}
  <2> SUFFICES ASSUME NEW e \in Items(f[p]), NEW q \in K \ {p}, e \in Items(f[q]) PROVE FALSE
    BY DEF HeldUnder
  <2>1. e.priority = p /\ e.priority = q
    BY BucketInOrder
  <2> QED BY <2>1
<1>5. Cardinality(Items(f[p])) = Len(f[p]) /\ Len(f[p]) \in Nat
  BY BucketInOrder, InOrderCount
<1>6. Cardinality(HeldUnder(f, K \ {p})) \in Nat
  BY <1>2, FS_CardinalityType
<1>7. Cardinality(Items(f[p]) \cup HeldUnder(f, K \ {p}))
      = Cardinality(Items(f[p])) + Cardinality(HeldUnder(f, K \ {p})) - 0
  <2> DEFINE A == Items(f[p])
             B == HeldUnder(f, K \ {p})
  <2>1. IsFiniteSet(A) /\ IsFiniteSet(B) /\ A \cap B = {} /\ Cardinality({}) = 0
    BY <1>1, <1>2, <1>4, FS_EmptySet
  <2> HIDE DEF A, B
  <2>2. Cardinality(A \cup B) = Cardinality(A) + Cardinality(B) - Cardinality(A \cap B)
    BY <2>1, FS_Union
  <2> QED BY <2>1, <2>2 DEF A, B
<1> QED BY <1>3, <1>5, <1>6, <1>7

\* The length of a map is the number of messages it holds.
LEMMA FoldLength ==
  ASSUME NEW f, BucketsTyped(f), BucketsSorted(f)
  PROVE  FoldFunction(LAMBDA q, n : Len(q) + n, 0, f) = Cardinality(Held(f))
<1> DEFINE D == DOMAIN f
           One(s) == CHOOSE x \in s : TRUE
           Sum(g, s) == IF s = {} THEN 0 ELSE Len(f[One(s)]) + g[s \ {One(s)}]
           fold == CHOOSE g : g = [s \in SUBSET D |-> Sum(g, s)]
           count == [s \in SUBSET D |-> Cardinality(HeldUnder(f, s))]
<1>1. FoldFunction(LAMBDA q, n : Len(q) + n, 0, f) = fold[D]
  BY DEF FoldFunction, FoldFunctionOnSet, MapThenFoldSet
<1>2. \A s : s # {} => One(s) \in s
  OBVIOUS
<1> HIDE DEF One
<1>3. ASSUME NEW s \in SUBSET D PROVE count[s] = Sum(count, s)
  <2>1. CASE s = {}
    <3>1. HeldUnder(f, s) = {}
      BY <2>1 DEF HeldUnder
    <3> QED BY <2>1, <3>1, FS_EmptySet
  <2>2. CASE s # {}
    <3>1. One(s) \in s /\ s \ {One(s)} \in SUBSET D
      BY <1>2, <2>2
    <3>2. Cardinality(HeldUnder(f, s))
          = Len(f[One(s)]) + Cardinality(HeldUnder(f, s \ {One(s)}))
      BY <3>1, HeldUnderOneMore
    <3> QED BY <2>2, <3>1, <3>2
  <2> QED BY <2>1, <2>2
<1>4. count = [s \in SUBSET D |-> Sum(count, s)]
  BY <1>3
<1> HIDE DEF count
<1>5. fold = [s \in SUBSET D |-> Sum(fold, s)]
  BY <1>4
<1> HIDE DEF fold
<1> DEFINE S == {n \in Nat : \A s \in SUBSET D :
                   IsFiniteSet(s) /\ Cardinality(s) = n => fold[s] = count[s]}
<1>6. 0 \in S
  <2> SUFFICES ASSUME NEW s \in SUBSET D, IsFiniteSet(s), Cardinality(s) = 0
               PROVE  fold[s] = count[s]
    OBVIOUS
  <2>1. s = {}
    BY FS_EmptySet
  <2>2. fold[s] = Sum(fold, s) /\ count[s] = Sum(count, s)
    BY <1>4, <1>5
  <2> QED BY <2>1, <2>2
<1>7. ASSUME NEW n \in Nat, n \in S PROVE n + 1 \in S
  <2> SUFFICES ASSUME NEW s \in SUBSET D, IsFiniteSet(s), Cardinality(s) = n + 1
               PROVE  fold[s] = count[s]
    OBVIOUS
  <2>1. s # {}
    BY FS_EmptySet
  <2>2. One(s) \in s
    BY <1>2, <2>1
  <2> DEFINE t == s \ {One(s)}
  <2>3. t \in SUBSET D /\ IsFiniteSet(t) /\ Cardinality(t) = n
    <3>1. IsFiniteSet(t) /\ Cardinality(t) = Cardinality(s) - 1
      BY <2>2, FS_RemoveElement
    <3> QED BY <3>1
  <2>4. fold[t] = count[t]
    BY <1>7, <2>3
  <2>5. fold[s] = Sum(fold, s) /\ count[s] = Sum(count, s)
    BY <1>4, <1>5
  <2> QED BY <2>1, <2>4, <2>5
<1> HIDE DEF S
<1>8. Nat \subseteq S
  BY <1>6, <1>7, NatSet
<1>9. IsFiniteSet(D) /\ Cardinality(D) \in Nat
  BY FS_CardinalityType DEF BucketsTyped
<1>10. fold[D] = count[D]
  BY <1>8, <1>9 DEF S
<1> QED BY <1>1, <1>10 DEF count, Held, HeldUnder

\* A finite set of integers can be listed from the highest down.
LEMMA DescendingExists ==
  ASSUME NEW n \in Nat, NEW K \in SUBSET Int, IsFiniteSet(K), Cardinality(K) = n
  PROVE  \E s \in [1..n -> K] : \A i, j \in 1..n : i < j => s[i] > s[j]
<1> DEFINE Lists(k, L, s) == s \in [1..k -> L] /\ \A i, j \in 1..k : i < j => s[i] > s[j]
           S == {k \in Nat : \A L \in SUBSET Int :
                   IsFiniteSet(L) /\ Cardinality(L) = k => \E s : Lists(k, L, s)}
<1>1. 0 \in S
  <2> SUFFICES ASSUME NEW L \in SUBSET Int PROVE \E s : Lists(0, L, s)
    OBVIOUS
  <2>1. Lists(0, L, << >>)
    OBVIOUS
  <2> QED BY <2>1
<1>2. ASSUME NEW k \in Nat, k \in S PROVE k + 1 \in S
  <2> SUFFICES ASSUME NEW L \in SUBSET Int, IsFiniteSet(L), Cardinality(L) = k + 1
               PROVE  \E s : Lists(k + 1, L, s)
    OBVIOUS
  <2>1. L # {}
    BY FS_EmptySet
  <2>2. PICK top \in L : \A y \in L : y <= top
    BY <2>1, FiniteIntMax
  <2> DEFINE W == L \ {top}
  <2>3. W \in SUBSET Int /\ IsFiniteSet(W) /\ Cardinality(W) = k
    <3>1. IsFiniteSet(W) /\ Cardinality(W) = Cardinality(L) - 1
      BY <2>2, FS_RemoveElement
    <3> QED BY <3>1
  <2>4. PICK s : Lists(k, W, s)
    BY <1>2, <2>3
  <2> DEFINE t == [i \in 1..(k + 1) |-> IF i = 1 THEN top ELSE s[i - 1]]
  <2>5. \A i \in 1..(k + 1) : i = 1 \/ i - 1 \in 1..k
    OBVIOUS
  <2>6. \A i \in 1..k : s[i] \in L /\ s[i] # top /\ s[i] \in Int /\ s[i] < top
    <3> TAKE i \in 1..k
    <3>1. s[i] \in W /\ s[i] \in Int /\ top \in Int
      BY <2>4
    <3>2. s[i] <= top
      BY <2>2, <3>1
    <3> QED BY <3>1, <3>2
  <2>7. t \in [1..(k + 1) -> L]
    BY <2>2, <2>5, <2>6
  <2>8. ASSUME NEW i \in 1..(k + 1), NEW j \in 1..(k + 1), i < j PROVE t[i] > t[j]
    <3>1. j # 1 /\ j - 1 \in 1..k /\ t[j] = s[j - 1]
      BY <2>5, <2>8
    <3>2. CASE i = 1
      BY <3>1, <3>2, <2>6
    <3>3. CASE i # 1
      <4>1. i - 1 \in 1..k /\ t[i] = s[i - 1] /\ i - 1 < j - 1
        BY <2>5, <2>8, <3>3
      <4> QED BY <3>1, <4>1, <2>4
    <3> QED BY <3>2, <3>3
  <2> HIDE DEF t
  <2>9. Lists(k + 1, L, t)
    BY <2>7, <2>8
  <2> HIDE DEF Lists
  <2> QED BY <2>9
<1> HIDE DEF S
<1>3. n \in S
  BY <1>1, <1>2, NatSet
<1> QED BY <1>3 DEF S

\* The list of the keys: each once, the highest first.
LEMMA DescendingKeys ==
  ASSUME NEW K \in SUBSET Int, IsFiniteSet(K)
  PROVE  LET n == Cardinality(K)
             d == Descending(K)
         IN  /\ n \in Nat /\ d \in [1..n -> K]
             /\ \A i, j \in 1..n : i < j => d[i] > d[j]
             /\ \A p \in K : \E i \in 1..n : d[i] = p
<1> DEFINE n == Cardinality(K)
           d == Descending(K)
<1>1. n \in Nat
  BY FS_CardinalityType
<1>2. \E s \in [1..n -> K] : \A i, j \in 1..n : i < j => s[i] > s[j]
  BY <1>1, DescendingExists
<1>3. d \in [1..n -> K] /\ \A i, j \in 1..n : i < j => d[i] > d[j]
  BY <1>2 DEF Descending
<1> HIDE DEF d
<1>4. d \in Injection(1..n, K)
  <2>1. \A i \in 1..n : d[i] \in Int
    BY <1>3
  <2>2. ASSUME NEW i \in 1..n, NEW j \in 1..n, d[i] = d[j] PROVE i = j
    <3>1. ~ (d[i] > d[j]) /\ ~ (d[j] > d[i])
      BY <2>1, <2>2
    <3>2. ~ (i < j) /\ ~ (j < i)
      BY <1>3, <3>1
    <3> QED BY <1>1, <3>2
  <2> QED BY <1>3, <2>2 DEF Injection, IsInjective
<1>5. IsFiniteSet(1..n) /\ Cardinality(1..n) = n
  <2>1. IsFiniteSet(1..n) /\ Cardinality(1..n) = IF 1 > n THEN 0 ELSE n - 1 + 1
    BY <1>1, FS_Interval
  <2> QED BY <1>1, <2>1
<1>6. d \in Surjection(1..n, K)
  <2> HIDE DEF n
  <2>1. Cardinality(1..n) = Cardinality(K)
    BY <1>5 DEF n
  <2> QED BY <1>4, <2>1, FS_Injection
<1> QED BY <1>1, <1>3, <1>6 DEF d, Surjection

\* The sequences of q laid end to end, up to each of the first n.
Laid(M, q, n, g) ==
  /\ g \in [1..n -> Seq(M)]
  /\ g[1] = q[1] /\ \A i \in 2..n : g[i] = g[i - 1] \o q[i]

LEMMA LaidExists ==
  ASSUME NEW M, NEW n \in Nat, n # 0, NEW q \in [1..n -> Seq(M)]
  PROVE  \E g : Laid(M, q, n, g)
<1> DEFINE Ok(k, g) == Laid(M, q, k, g)
           S == {k \in Nat : k + 1 \in 1..n => \E g : Ok(k + 1, g)}
<1> HIDE DEF Ok
<1>1. 0 \in S
  <2>1. Ok(1, [i \in 1..1 |-> q[1]])
    BY DEF Ok, Laid
  <2>2. \E g : Ok(0 + 1, g)
    BY <2>1
  <2> QED BY <2>2
<1>2. ASSUME NEW k \in Nat, k \in S PROVE k + 1 \in S
  <2> SUFFICES ASSUME (k + 1) + 1 \in 1..n PROVE \E g : Ok((k + 1) + 1, g)
    OBVIOUS
  <2>1. k + 1 \in 1..n
    OBVIOUS
  <2>2. PICK g : Ok(k + 1, g)
    BY <1>2, <2>1
  <2> DEFINE h == [i \in 1..(k + 2) |-> IF i = k + 2 THEN g[k + 1] \o q[k + 2] ELSE g[i]]
  <2> USE DEF Ok, Laid
  <2>3. g[k + 1] \o q[k + 2] \in Seq(M)
    <3>1. g[k + 1] \in Seq(M) /\ q[k + 2] \in Seq(M)
      BY <2>2
    <3> QED BY <3>1, ConcatProperties
  <2>4. h \in [1..(k + 2) -> Seq(M)]
    BY <2>2, <2>3
  <2>5. h[1] = q[1]
    BY <2>2
  <2>6. ASSUME NEW i \in 2..(k + 2) PROVE h[i] = h[i - 1] \o q[i]
    <3>1. CASE i = k + 2
      <4>1. k + 1 \in 1..(k + 2) /\ k + 1 # k + 2 /\ k + 2 \in 1..(k + 2) /\ (k + 2) - 1 = k + 1
        OBVIOUS
      <4>2. h[k + 1] = g[k + 1] /\ h[k + 2] = g[k + 1] \o q[k + 2]
        BY <4>1
      <4>3. h[k + 2] = h[(k + 2) - 1] \o q[k + 2]
        BY <4>1, <4>2
      <4> QED BY <3>1, <4>3
    <3>2. CASE i # k + 2
      <4>1. i \in 2..(k + 1) /\ h[i] = g[i] /\ h[i - 1] = g[i - 1]
        BY <3>2
      <4>2. g[i] = g[i - 1] \o q[i]
        BY <2>2, <4>1
      <4> QED BY <4>1, <4>2
    <3> QED BY <3>1, <3>2
  <2> HIDE DEF h
  <2>7. Ok(k + 2, h)
    BY <2>4, <2>5, <2>6
  <2> HIDE DEF Ok, Laid
  <2>8. (k + 1) + 1 = k + 2
    OBVIOUS
  <2> QED BY <2>7, <2>8
<1> HIDE DEF S
<1>3. n - 1 \in S
  <2>1. n - 1 \in Nat
    OBVIOUS
  <2> QED BY <1>1, <1>2, <2>1, NatSet
<1>4. (n - 1) + 1 = n /\ n \in 1..n
  OBVIOUS
<1>5. \E g : Ok(n, g)
  BY <1>3, <1>4 DEF S
<1> QED BY <1>5 DEF Ok

\* What FlattenSeq returns is the last of the sequences that grow by one
\* part at a time.
LEMMA FlattenSteps ==
  ASSUME NEW M, NEW n \in Nat, n # 0, NEW q \in [1..n -> Seq(M)]
  PROVE  \E g : Laid(M, q, n, g) /\ FlattenSeq(q) = g[n]
<1> DEFINE Step(g, i) == IF i = 1 THEN q[i] ELSE g[i - 1] \o q[i]
           flat == CHOOSE g : g = [i \in 1..n |-> Step(g, i)]
<1>1. q \in Seq(Seq(M)) /\ Len(q) = n
  OBVIOUS
<1>2. FlattenSeq(q) = flat[n]
  BY <1>1 DEF FlattenSeq
<1>3. PICK g : Laid(M, q, n, g)
  BY LaidExists
<1>4. g = [i \in 1..n |-> Step(g, i)]
  <2>1. \A i \in 1..n : g[i] = Step(g, i)
    <3> TAKE i \in 1..n
    <3>1. i = 1 \/ i \in 2..n
      OBVIOUS
    <3> QED BY <1>3, <3>1 DEF Laid
  <2> QED BY <1>3, <2>1 DEF Laid
<1>5. flat = [i \in 1..n |-> Step(flat, i)]
  BY <1>4
<1> HIDE DEF flat
<1>6. \A i \in 1..n : flat[i] = Step(flat, i)
  BY <1>5
<1> DEFINE S == {k \in Nat : k \in 1..n => flat[k] = g[k]}
<1>7. 0 \in S
  OBVIOUS
<1>8. ASSUME NEW k \in Nat, k \in S PROVE k + 1 \in S
  <2> SUFFICES ASSUME k + 1 \in 1..n PROVE flat[k + 1] = g[k + 1]
    OBVIOUS
  <2>1. CASE k = 0
    BY <1>3, <1>6, <2>1 DEF Laid
  <2>2. CASE k # 0
    <3>1. k \in 1..n /\ k + 1 \in 2..n /\ (k + 1) - 1 = k /\ k + 1 # 1
      BY <2>2
    <3>2. flat[k] = g[k]
      BY <1>8, <3>1
    <3>3. flat[k + 1] = flat[k] \o q[k + 1]
      BY <1>6, <3>1
    <3>4. g[k + 1] = g[k] \o q[k + 1]
      BY <1>3, <3>1 DEF Laid
    <3> QED BY <3>2, <3>3, <3>4
  <2> QED BY <2>1, <2>2
<1> HIDE DEF S
<1>9. n \in S
  BY <1>7, <1>8, NatSet
<1>10. flat[n] = g[n]
  BY <1>9 DEF S
<1> QED BY <1>2, <1>3, <1>10

\* Two sequences in serving order, the first of them served before the
\* second.
LEMMA ConcatInOrder ==
  ASSUME NEW a \in Seq(Message), NEW b \in Seq(Message), InOrder(a), InOrder(b), a # << >>,
         \A x \in Items(a), y \in Items(b) : x.priority > y.priority
  PROVE  /\ InOrder(a \o b) /\ Items(a \o b) = Items(a) \cup Items(b)
         /\ a \o b # << >> /\ (a \o b)[1] = a[1]
<1> DEFINE c == a \o b
           la == Len(a)
           lb == Len(b)
<1>1. la \in Nat /\ lb \in Nat /\ la # 0
  OBVIOUS
<1>2. c \in Seq(Message) /\ Len(c) = la + lb
  BY ConcatProperties
<1>3. \A i \in 1..(la + lb) : c[i] = IF i <= la THEN a[i] ELSE b[i - la]
  BY ConcatProperties
<1>4. \A i \in 1..(la + lb) : IF i <= la THEN i \in 1..la ELSE i - la \in 1..lb
  BY <1>1
<1> HIDE DEF c
<1>5. ASSUME NEW i \in 1..(la + lb), NEW j \in 1..(la + lb), i < j
      PROVE  \/ c[i].priority > c[j].priority
             \/ c[i].priority = c[j].priority /\ c[i].ticket < c[j].ticket
  <2>1. CASE j <= la
    <3>1. i <= la /\ i \in 1..la /\ j \in 1..la
      BY <1>1, <1>5, <2>1
    <3> QED BY <1>3, <1>5, <2>1, <3>1 DEF InOrder
  <2>2. CASE i > la
    <3>1. /\ ~ (i <= la) /\ ~ (j <= la)
          /\ i - la \in 1..lb /\ j - la \in 1..lb /\ i - la < j - la
      BY <1>1, <1>5, <2>2
    <3>2. c[i] = b[i - la] /\ c[j] = b[j - la]
      BY <1>3, <3>1
    <3> QED BY <3>1, <3>2 DEF InOrder
  <2>3. CASE i <= la /\ ~ (j <= la)
    <3>1. i \in 1..la /\ j - la \in 1..lb
      BY <1>4, <2>3
    <3>2. c[i] = a[i] /\ c[j] = b[j - la]
      BY <1>3, <2>3
    <3> QED BY <3>1, <3>2 DEF Items
  <2>4. (j <= la) \/ (i > la) \/ (i <= la /\ ~ (j <= la))
    BY <1>1
  <2> QED BY <2>1, <2>2, <2>3, <2>4
<1>6. InOrder(c)
  BY <1>2, <1>5 DEF InOrder
<1>7. Items(c) = Items(a) \cup Items(b)
  <2>1. ASSUME NEW i \in 1..(la + lb) PROVE c[i] \in Items(a) \cup Items(b)
    BY <1>3, <1>4 DEF Items
  <2>2. ASSUME NEW i \in 1..la PROVE a[i] \in Items(c)
    <3>1. i \in 1..(la + lb) /\ i <= la
      BY <1>1
    <3>2. c[i] = a[i]
      BY <1>3, <3>1
    <3> QED BY <1>2, <3>1, <3>2 DEF Items
  <2>3. ASSUME NEW i \in 1..lb PROVE b[i] \in Items(c)
    <3>1. la + i \in 1..(la + lb) /\ ~ (la + i <= la) /\ (la + i) - la = i
      BY <1>1
    <3>2. c[la + i] = b[i]
      BY <1>3, <3>1
    <3> QED BY <1>2, <3>1, <3>2 DEF Items
  <2> QED BY <1>2, <2>1, <2>2, <2>3 DEF Items
<1>8. c # << >> /\ c[1] = a[1]
  <2>1. 1 \in 1..(la + lb) /\ 1 <= la /\ la + lb # 0
    BY <1>1
  <2>2. c[1] = a[1]
    BY <1>3, <2>1
  <2> QED BY <1>2, <2>1, <2>2
<1> QED BY <1>6, <1>7, <1>8 DEF c

\* The buckets of a map one after the other, the highest first.
Vector(f) ==
  FlattenSeq([i \in 1..Cardinality(DOMAIN f) |-> f[Descending(DOMAIN f)[i]]])

\* It lists what the map holds in serving order, from the front of the top
\* bucket.
LEMMA VectorProperties ==
  ASSUME NEW f, BucketsTyped(f), BucketsSorted(f)
  PROVE  /\ Vector(f) \in Seq(Message) /\ InOrder(Vector(f)) /\ Items(Vector(f)) = Held(f)
         /\ DOMAIN f = {} => Vector(f) = << >>
         /\ DOMAIN f # {} => Vector(f) # << >> /\ Vector(f)[1] = f[TopKey(f)][1]
<1> DEFINE n == Cardinality(DOMAIN f)
           d == Descending(DOMAIN f)
           q == [i \in 1..n |-> f[d[i]]]
<1>0. DOMAIN f \in SUBSET Int /\ IsFiniteSet(DOMAIN f)
  BY MailboxAssumption DEF BucketsTyped
<1>1. /\ n \in Nat /\ d \in [1..n -> DOMAIN f]
      /\ \A i, j \in 1..n : i < j => d[i] > d[j]
      /\ \A p \in DOMAIN f : \E i \in 1..n : d[i] = p
  BY <1>0, DescendingKeys
<1>2. n = 0 <=> DOMAIN f = {}
  BY <1>0, FS_EmptySet
<1>3. Vector(f) = FlattenSeq(q)
  BY DEF Vector
<1> HIDE DEF n, d
<1>4. q \in [1..n -> Seq(Message)]
  BY <1>1 DEF BucketsTyped
<1>5. CASE n = 0
  <2>1. q = << >>
    BY <1>4, <1>5
  <2>2. FlattenSeq(q) = << >>
    BY <2>1 DEF FlattenSeq
  <2>3. Items(<< >>) = {} /\ Held(f) = {} /\ InOrder(<< >>)
    BY <1>2, <1>5, HeldEmpty DEF Items, InOrder
  <2>4. Vector(f) = << >>
    BY <1>3, <2>2
  <2> HIDE DEF q
  <2>5. << >> \in Seq(Message)
    OBVIOUS
  <2> QED BY <1>2, <1>5, <2>3, <2>4, <2>5
<1>6. CASE n # 0
  <2> DEFINE Keys(k) == {d[i] : i \in 1..k}
  <2>1. PICK g : Laid(Message, q, n, g) /\ FlattenSeq(q) = g[n]
    BY <1>1, <1>4, <1>6, FlattenSteps
  <2>2. \A i \in 1..n : d[i] \in DOMAIN f /\ q[i] = f[d[i]]
    BY <1>1
  <2> HIDE DEF q
  <2> DEFINE Good(k) == /\ InOrder(g[k]) /\ Items(g[k]) = HeldUnder(f, Keys(k))
                        /\ g[k] # << >> /\ g[k][1] = f[d[1]][1]
             S == {k \in Nat : k \in 1..n => Good(k)}
  <2>3. 0 \in S
    OBVIOUS
  <2>4. ASSUME NEW k \in Nat, k \in S PROVE k + 1 \in S
    <3> SUFFICES ASSUME k + 1 \in 1..n PROVE Good(k + 1)
      OBVIOUS
    <3> DEFINE b == f[d[k + 1]]
    <3>0. /\ d[k + 1] \in DOMAIN f /\ b \in Seq(Message) /\ InOrder(b) /\ b # << >>
          /\ \A e \in Items(b) : e.priority = d[k + 1]
      BY <2>2, BucketInOrder
    <3>1. CASE k = 0
      <4>1. g[1] = f[d[1]]
        BY <2>1, <2>2, <3>1 DEF Laid
      <4>2. Keys(1) = {d[1]}
        OBVIOUS
      <4>3. HeldUnder(f, Keys(1)) = Items(f[d[1]])
        BY <4>2 DEF HeldUnder
      <4> QED BY <3>0, <3>1, <4>1, <4>3
    <3>2. CASE k # 0
      <4>1. k \in 1..n /\ k + 1 \in 2..n /\ (k + 1) - 1 = k
        BY <1>1, <3>2
      <4>2. Good(k)
        BY <2>4, <4>1
      <4>3. g[k + 1] = g[k] \o b /\ g[k] \in Seq(Message)
        BY <2>1, <2>2, <4>1 DEF Laid
      <4>4. ASSUME NEW x \in Items(g[k]), NEW y \in Items(b) PROVE x.priority > y.priority
        <5>1. PICK i \in 1..k : x \in Items(f[d[i]])
          BY <4>2 DEF HeldUnder
        <5>2. i \in 1..n /\ i < k + 1
          BY <1>1, <4>1
        <5>3. x.priority = d[i] /\ y.priority = d[k + 1]
          BY <3>0, <2>2, <5>1, <5>2, BucketInOrder
        <5>4. d[i] > d[k + 1]
          BY <1>1, <5>2
        <5> QED BY <5>3, <5>4
      <4> HIDE DEF b
      <4>5. /\ InOrder(g[k] \o b) /\ Items(g[k] \o b) = Items(g[k]) \cup Items(b)
            /\ g[k] \o b # << >> /\ (g[k] \o b)[1] = g[k][1]
        BY <3>0, <4>2, <4>3, <4>4, ConcatInOrder
      <4>6. Keys(k + 1) = Keys(k) \cup {d[k + 1]}
        <5>1. 1..(k + 1) = 1..k \cup {k + 1}
          OBVIOUS
        <5> QED BY <5>1
      <4>7. HeldUnder(f, Keys(k + 1)) = HeldUnder(f, Keys(k)) \cup Items(b)
        BY <4>6 DEF HeldUnder, b
      <4> QED BY <4>2, <4>3, <4>5, <4>7
    <3> QED BY <3>1, <3>2
  <2> HIDE DEF S
  <2>5. n \in S /\ n \in 1..n
    BY <1>1, <1>6, <2>3, <2>4, NatSet
  <2>6. Good(n)
    BY <2>5 DEF S
  <2>7. Keys(n) = DOMAIN f
    BY <1>1
  <2>8. HeldUnder(f, Keys(n)) = Held(f)
    BY <2>7 DEF HeldUnder, Held
  <2>9. d[1] = TopKey(f)
    <3>1. TopKey(f) \in DOMAIN f /\ \A p \in DOMAIN f : p <= TopKey(f)
      BY <1>2, <1>6, TopKeyProperties
    <3>2. PICK i \in 1..n : d[i] = TopKey(f)
      BY <1>1, <3>1
    <3>3. 1 \in 1..n /\ d[1] \in DOMAIN f /\ d[1] \in Int /\ TopKey(f) \in Int
      BY <1>0, <1>1, <1>6, <3>1
    <3>4. d[1] <= TopKey(f)
      BY <3>1, <3>3
    <3>5. CASE i # 1
      <4>1. d[1] > d[i]
        BY <1>1, <3>3, <3>5
      <4> QED BY <3>2, <3>3, <3>4, <4>1
    <3> QED BY <3>2, <3>5
  <2>10. g[n] \in Seq(Message)
    BY <2>1, <2>5 DEF Laid
  <2> QED BY <1>2, <1>3, <1>6, <2>1, <2>6, <2>8, <2>9, <2>10
<1> QED BY <1>1, <1>5, <1>6

\* What the readers say in a state that satisfies the invariant.
LEMMA ReadersSay == IInv => ReadersAgree
<1> SUFFICES ASSUME IInv, repr # "Draining"
             PROVE  /\ Length = Cardinality(Contents)
                    /\ Len(ToVec) = Length
                    /\ InOrder(ToVec)
                    /\ FrontMessage = IF ToVec = << >> THEN Abstract!Nothing ELSE Head(ToVec)
  BY DEF ReadersAgree
<1>1. /\ repr \in {"Linear", "Map"}
      /\ repr = "Linear" => DOMAIN m = {}
      /\ repr = "Map" => v = << >>
      /\ v \in Seq(Message) /\ InOrder(v) /\ BucketsTyped(m) /\ BucketsSorted(m)
  BY InvParts
<1>2. CASE repr = "Linear"
  <2>1. ToVec = v /\ Length = Len(v)
    BY <1>2 DEF ToVec, Length
  <2>2. FrontMessage = IF v = << >> THEN Abstract!Nothing ELSE Head(v)
    BY <1>2 DEF FrontMessage
  <2>3. Contents = Items(v)
    BY <1>1, <1>2, ContentsParts, HeldEmpty
  <2>4. Cardinality(Items(v)) = Len(v)
    BY <1>1, InOrderCount
  <2> QED BY <1>1, <2>1, <2>2, <2>3, <2>4
<1>3. CASE repr = "Map"
  <2>1. ToVec = Vector(m)
    BY <1>3 DEF ToVec, Vector
  <2>2. Length = Cardinality(Held(m))
    <3>1. Length = FoldFunction(LAMBDA q, n : Len(q) + n, 0, m)
      BY <1>3 DEF Length
    <3> QED BY <1>1, <3>1, FoldLength
  <2>3. Contents = Held(m)
    BY <1>1, <1>3, ContentsParts DEF Items
  <2>4. /\ Vector(m) \in Seq(Message) /\ InOrder(Vector(m)) /\ Items(Vector(m)) = Held(m)
        /\ DOMAIN m = {} => Vector(m) = << >>
        /\ DOMAIN m # {} => Vector(m) # << >> /\ Vector(m)[1] = m[TopKey(m)][1]
    BY <1>1, VectorProperties
  <2>5. Len(Vector(m)) = Cardinality(Held(m))
    BY <2>4, InOrderCount
  <2>6. FrontMessage = IF Vector(m) = << >> THEN Abstract!Nothing ELSE Head(Vector(m))
    <3>1. CASE DOMAIN m = {}
      BY <1>3, <2>4, <3>1 DEF FrontMessage
    <3>2. CASE DOMAIN m # {}
      <4>1. FrontMessage = Head(m[TopKey(m)])
        BY <1>3, <3>2 DEF FrontMessage
      <4>2. TopKey(m) \in DOMAIN m
        BY <1>1, <3>2, TopKeyProperties
      <4>3. m[TopKey(m)] \in Seq(Message) /\ m[TopKey(m)] # << >>
        BY <1>1, <4>2, BucketInOrder
      <4>4. Head(m[TopKey(m)]) = m[TopKey(m)][1] /\ Head(Vector(m)) = Vector(m)[1]
        BY <4>3, <2>4, <3>2
      <4> QED BY <2>4, <3>2, <4>1, <4>4
    <3> QED BY <3>1, <3>2
  <2> QED BY <2>1, <2>2, <2>3, <2>4, <2>5, <2>6
<1> QED BY <1>1, <1>2, <1>3

\* len, front and to_vec describe one mailbox in both representations, so
\* backpressure compares with the number of messages that can be popped and
\* to_vec lists them in the order they will be.
THEOREM ReadersCorrect == Spec => []ReadersAgree
BY ReadersSay, InductiveInvariant, PTL
=============================================================================
