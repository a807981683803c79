--------------------------- MODULE MailboxLemmas ---------------------------
(***************************************************************************)
(* What the operators of MailboxOps return, for every mailbox.  The proofs *)
(* about Mailbox and Actors cite these facts by name.                      *)
(***************************************************************************)
EXTENDS MailboxOps, ListLemmas, SequenceTheorems

\* The insertion point: what is before it is not lower than the envelope,
\* what stands at it is.
LEMMA InsertPosProperties ==
  ASSUME NEW S, NEW v \in Seq(S), NEW env,
         \A i \in 1..Len(v) : v[i].priority \in Int,
         env.priority \in Int
  PROVE  /\ InsertPos(v, env) \in 1..(Len(v) + 1)
         /\ \A j \in 1..Len(v) :
              j < InsertPos(v, env) => v[j].priority >= env.priority
         /\ InsertPos(v, env) <= Len(v) =>
              v[InsertPos(v, env)].priority < env.priority
<1> DEFINE lower == {i \in 1..Len(v) : v[i].priority < env.priority}
<1>0. Len(v) \in Nat
  OBVIOUS
<1>1. CASE lower = {}
  <2>1. InsertPos(v, env) = Len(v) + 1
    BY <1>1 DEF InsertPos
  <2>2. \A j \in 1..Len(v) : ~(v[j].priority < env.priority)
    BY <1>1
  <2> QED BY <1>0, <2>1, <2>2
<1>2. CASE lower # {}
  <2>1. lower \subseteq Nat
    BY <1>0
  <2>2. \E i \in lower : \A j \in lower : i <= j
    <3> HIDE DEF lower
    <3> QED BY <1>2, <2>1, NatMin
  <2>3. InsertPos(v, env) = CHOOSE i \in lower : \A j \in lower : i <= j
    BY <1>2 DEF InsertPos
  <2>4. /\ InsertPos(v, env) \in lower
        /\ \A j \in lower : InsertPos(v, env) <= j
    <3> HIDE DEF lower
    <3> QED BY <2>2, <2>3
  <2>5. InsertPos(v, env) \in 1..Len(v)
    BY <2>4
  <2>6. ASSUME NEW j \in 1..Len(v), j < InsertPos(v, env)
        PROVE  v[j].priority >= env.priority
    <3>1. j \notin lower
      <4> HIDE DEF lower
      <4> QED BY <2>4, <2>5, <2>6, <1>0
    <3> QED BY <3>1
  <2> QED BY <2>4, <2>5, <2>6, <1>0
<1> QED BY <1>1, <1>2

\* Inserting at a position shifts what follows by one.
LEMMA InsertAtProperties ==
  ASSUME NEW S, NEW v \in Seq(S), NEW e \in S, NEW k \in 1..(Len(v) + 1)
  PROVE  /\ InsertAt(v, k, e) \in Seq(S)
         /\ Len(InsertAt(v, k, e)) = Len(v) + 1
         /\ \A j \in 1..(Len(v) + 1) :
              InsertAt(v, k, e)[j] = IF j < k THEN v[j]
                                     ELSE IF j = k THEN e ELSE v[j - 1]
<1> DEFINE a == SubSeq(v, 1, k - 1)
           b == SubSeq(v, k, Len(v))
<1>0. Len(v) \in Nat
  OBVIOUS
<1>1. /\ a \in Seq(S) /\ Len(a) = k - 1
      /\ \A j \in 1..(k - 1) : a[j] = v[j]
  BY <1>0, SubSeqProperties
<1>2. /\ b \in Seq(S) /\ Len(b) = Len(v) - k + 1
      /\ \A j \in 1..(Len(v) - k + 1) : b[j] = v[k + j - 1]
  BY <1>0, SubSeqProperties
<1>3. <<e>> \in Seq(S) /\ Len(<<e>>) = 1 /\ <<e>>[1] = e
  OBVIOUS
<1>4. InsertAt(v, k, e) = a \o <<e>> \o b
  BY DEF InsertAt
<1> HIDE DEF a, b
<1>5. /\ a \o <<e>> \in Seq(S) /\ Len(a \o <<e>>) = k
      /\ \A j \in 1..k : (a \o <<e>>)[j] = IF j < k THEN v[j] ELSE e
  BY <1>0, <1>1, <1>3, ConcatProperties
<1>6. /\ (a \o <<e>>) \o b \in Seq(S)
      /\ Len((a \o <<e>>) \o b) = Len(v) + 1
      /\ \A j \in 1..(Len(v) + 1) : ((a \o <<e>>) \o b)[j] =
           IF j <= k THEN (a \o <<e>>)[j] ELSE b[j - k]
  BY <1>0, <1>2, <1>5, ConcatProperties
<1>7. ASSUME NEW j \in 1..(Len(v) + 1)
      PROVE  InsertAt(v, k, e)[j] = IF j < k THEN v[j]
                                    ELSE IF j = k THEN e ELSE v[j - 1]
  <2>1. CASE j <= k
    BY <2>1, <1>0, <1>4, <1>5, <1>6
  <2>2. CASE j > k
    <3>1. j - k \in 1..(Len(v) - k + 1)
      BY <2>2, <1>0
    <3>2. b[j - k] = v[k + (j - k) - 1]
      BY <3>1, <1>2
    <3>3. k + (j - k) - 1 = j - 1
      BY <1>0
    <3> QED BY <2>2, <3>2, <3>3, <1>0, <1>4, <1>6
  <2> QED BY <2>1, <2>2, <1>0
<1> QED BY <1>4, <1>6, <1>7

\* What an insert into the deque leaves: the old entries in their order, with
\* the envelope at one place among them.
LEMMA LinearInsertProperties ==
  ASSUME NEW S, NEW v \in Seq(S), NEW env \in S,
         \A i \in 1..Len(v) : v[i].priority \in Int,
         env.priority \in Int
  PROVE  /\ LinearInsert(v, env) \in Seq(S)
         /\ Len(LinearInsert(v, env)) = Len(v) + 1
         /\ InsertPos(v, env) \in 1..(Len(v) + 1)
         /\ \A j \in 1..(Len(v) + 1) :
              LinearInsert(v, env)[j] =
                IF j < InsertPos(v, env) THEN v[j]
                ELSE IF j = InsertPos(v, env) THEN env ELSE v[j - 1]
<1>1. InsertPos(v, env) \in 1..(Len(v) + 1)
  BY InsertPosProperties
<1>2. QED
  <2> DEFINE k == InsertPos(v, env)
  <2>1. k \in 1..(Len(v) + 1)
    BY <1>1
  <2> HIDE DEF k
  <2>2. /\ InsertAt(v, k, env) \in Seq(S)
        /\ Len(InsertAt(v, k, env)) = Len(v) + 1
        /\ \A j \in 1..(Len(v) + 1) :
             InsertAt(v, k, env)[j] = IF j < k THEN v[j]
                                     ELSE IF j = k THEN env ELSE v[j - 1]
    BY <2>1, InsertAtProperties
  <2> QED BY <2>1, <2>2 DEF LinearInsert, k

\* The deque stays in serving order when the new ticket is the youngest.
LEMMA LinearInsertInOrder ==
  ASSUME NEW S, NEW v \in Seq(S), NEW env \in S,
         \A e \in S : e.priority \in Int /\ e.ticket \in Nat,
         InOrder(v),
         \A i \in 1..Len(v) : v[i].ticket < env.ticket
  PROVE  InOrder(LinearInsert(v, env))
<1> DEFINE k == InsertPos(v, env)
           w == LinearInsert(v, env)
<1>0. /\ Len(v) \in Nat
      /\ \A i \in 1..Len(v) : v[i] \in S
      /\ \A i \in 1..Len(v) : v[i].priority \in Int /\ v[i].ticket \in Nat
      /\ env.priority \in Int /\ env.ticket \in Nat
  OBVIOUS
<1>1. /\ Len(w) = Len(v) + 1
      /\ k \in 1..(Len(v) + 1)
      /\ \A j \in 1..(Len(v) + 1) :
           w[j] = IF j < k THEN v[j] ELSE IF j = k THEN env ELSE v[j - 1]
  BY <1>0, LinearInsertProperties
<1>2. /\ \A j \in 1..Len(v) : j < k => v[j].priority >= env.priority
      /\ k <= Len(v) => v[k].priority < env.priority
  BY <1>0, InsertPosProperties
<1>3. \A i, j \in 1..Len(v) :
        i < j => \/ v[i].priority > v[j].priority
                 \/ v[i].priority = v[j].priority /\ v[i].ticket < v[j].ticket
  BY DEF InOrder
<1> HIDE DEF k, w
<1>4. \A j \in 1..Len(v) : j >= k => v[j].priority < env.priority
  <2> SUFFICES ASSUME NEW j \in 1..Len(v), j >= k
               PROVE  v[j].priority < env.priority
    OBVIOUS
  <2>1. k \in 1..Len(v) /\ v[k].priority < env.priority
    BY <1>0, <1>1, <1>2
  <2>2. CASE k < j
    <3>1. \/ v[k].priority > v[j].priority
          \/ v[k].priority = v[j].priority /\ v[k].ticket < v[j].ticket
      BY <2>1, <2>2, <1>3
    <3> QED BY <2>1, <3>1, <1>0
  <2>3. CASE k = j
    BY <2>1, <2>3
  <2> QED BY <2>1, <2>2, <2>3, <1>0
<1>5. ASSUME NEW i \in 1..Len(w), NEW j \in 1..Len(w), i < j
      PROVE  \/ w[i].priority > w[j].priority
             \/ w[i].priority = w[j].priority /\ w[i].ticket < w[j].ticket
  <2>1. CASE j < k
    <3>1. w[j] = v[j] /\ w[i] = v[i] /\ i \in 1..Len(v) /\ j \in 1..Len(v)
      BY <2>1, <1>0, <1>1, <1>5
    <3>2. \/ v[i].priority > v[j].priority
          \/ v[i].priority = v[j].priority /\ v[i].ticket < v[j].ticket
      BY <3>1, <1>3, <1>5
    <3> QED BY <3>1, <3>2
  <2>2. CASE j = k
    <3>1. w[j] = env /\ w[i] = v[i] /\ i \in 1..Len(v) /\ i < k
      BY <2>2, <1>0, <1>1, <1>5
    <3>2. v[i].priority >= env.priority /\ v[i].ticket < env.ticket
      BY <3>1, <1>2
    <3> QED BY <3>1, <3>2, <1>0
  <2>3. CASE j > k
    <3>1. w[j] = v[j - 1] /\ j - 1 \in 1..Len(v) /\ j - 1 >= k
      BY <2>3, <1>0, <1>1, <1>5
    <3>2. CASE i < k
      <4>1. w[i] = v[i] /\ i \in 1..Len(v) /\ i < j - 1
        BY <3>2, <2>3, <1>0, <1>1, <1>5
      <4>2. \/ v[i].priority > v[j - 1].priority
            \/ /\ v[i].priority = v[j - 1].priority
               /\ v[i].ticket < v[j - 1].ticket
        BY <3>1, <4>1, <1>3
      <4> QED BY <3>1, <4>1, <4>2
    <3>3. CASE i = k
      <4>1. w[i] = env
        BY <3>3, <1>0, <1>1
      <4>2. v[j - 1].priority < env.priority
        BY <3>1, <1>4
      <4> QED BY <3>1, <4>1, <4>2, <1>0
    <3>4. CASE i > k
      <4>1. w[i] = v[i - 1] /\ i - 1 \in 1..Len(v) /\ i - 1 < j - 1
        BY <3>4, <2>3, <1>0, <1>1, <1>5
      <4>2. \/ v[i - 1].priority > v[j - 1].priority
            \/ /\ v[i - 1].priority = v[j - 1].priority
               /\ v[i - 1].ticket < v[j - 1].ticket
        BY <3>1, <4>1, <1>3
      <4> QED BY <3>1, <4>1, <4>2
    <3> QED BY <3>2, <3>3, <3>4, <1>0, <1>1
  <2> QED BY <2>1, <2>2, <2>3, <1>0, <1>1
<1> QED BY <1>5 DEF InOrder, w
=============================================================================
