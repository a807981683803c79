------------------------------ MODULE Mailbox ------------------------------
(***************************************************************************)
(* struct Mailbox of interpreter/actors.rs.  It starts as a sorted         *)
(* VecDeque (Linear); the insert that takes it above MIGRATE_THRESHOLD     *)
(* drains the deque, front to back, into a BTreeMap of per-priority queues *)
(* (Map) and it never goes back.  Insert and pop are calls on an exclusive *)
(* reference, so nothing runs between the steps of the drain loop.         *)
(***************************************************************************)
EXTENDS MailboxOps, FiniteSets

CONSTANTS
  Priorities,   \* i32 priorities senders use
  Threshold,    \* MIGRATE_THRESHOLD, 64 in the code
  MaxArrivals   \* bound on the number of messages ever inserted

ASSUME MailboxAssumption ==
  /\ Priorities \subseteq Int
  /\ Threshold \in Nat
  /\ MaxArrivals \in Nat

VARIABLES
  repr,      \* "Linear", "Draining" (inside the migrating insert) or "Map"
  v,         \* the deque
  m,         \* the map of buckets
  arrivals,  \* how many messages were inserted so far
  taken      \* what the last pop_front returned

vars == <<repr, v, m, arrivals, taken>>

Contents ==
  {v[i] : i \in 1..Len(v)}
    \cup UNION {{m[p][i] : i \in 1..Len(m[p])} : p \in DOMAIN m}

Abstract == INSTANCE PriorityFifo WITH waiting <- Contents

Envelope(p) == [ticket |-> arrivals, priority |-> p]

Init ==
  /\ repr = "Linear"
  /\ v = << >>
  /\ m = << >>
  /\ arrivals = 0
  /\ taken = Abstract!Nothing

InsertLinear(p) ==
  /\ repr = "Linear"
  /\ arrivals < MaxArrivals
  /\ v' = LinearInsert(v, Envelope(p))
  /\ repr' = IF Len(v') > Threshold THEN "Draining" ELSE "Linear"
  /\ arrivals' = arrivals + 1
  /\ UNCHANGED <<m, taken>>

\* Mutant: the map is installed before the deque is drained.
MigrateEarly ==
  /\ repr = "Draining"
  /\ v # << >>
  /\ m' = PushBucket(m, Head(v))
  /\ v' = Tail(v)
  /\ repr' = "Map"
  /\ UNCHANGED <<arrivals, taken>>

\* One turn of `for e in v.drain(..)`, then the assignment of the new map.
DrainOne ==
  /\ repr = "Draining"
  /\ v # << >>
  /\ m' = PushBucket(m, Head(v))
  /\ v' = Tail(v)
  /\ repr' = IF v' = << >> THEN "Map" ELSE "Draining"
  /\ UNCHANGED <<arrivals, taken>>

InsertMap(p) ==
  /\ repr = "Map"
  /\ arrivals < MaxArrivals
  /\ m' = PushBucket(m, Envelope(p))
  /\ arrivals' = arrivals + 1
  /\ UNCHANGED <<repr, v, taken>>

PopLinear ==
  /\ repr = "Linear"
  /\ IF v = << >>
     THEN taken' = Abstract!Nothing /\ UNCHANGED v
     ELSE taken' = Head(v) /\ v' = Tail(v)
  /\ UNCHANGED <<repr, m, arrivals>>

PopMap ==
  /\ repr = "Map"
  /\ IF DOMAIN m = {}
     THEN taken' = Abstract!Nothing /\ UNCHANGED m
     ELSE taken' = Head(m[TopKey(m)]) /\ m' = PopBucket(m)
  /\ UNCHANGED <<repr, v, arrivals>>

Next ==
  \/ \E p \in Priorities : InsertLinear(p) \/ InsertMap(p)
  \/ DrainOne
  \/ PopLinear
  \/ PopMap

Spec == Init /\ [][Next]_vars

-----------------------------------------------------------------------------
(* What the interpreter reads of a mailbox without changing it. *)

Length ==
  IF repr = "Map"
  THEN FoldFunction(LAMBDA q, n : Len(q) + n, 0, m)
  ELSE Len(v)

\* The keys of the map as m.iter().rev() visits them, highest first.
Descending(keys) ==
  CHOOSE s \in [1..Cardinality(keys) -> keys] :
    \A i, j \in 1..Cardinality(keys) : i < j => s[i] > s[j]

\* Mutant: buckets in ascending order.
ToVecAscending ==
  LET keys == Descending(DOMAIN m)
      n    == Cardinality(DOMAIN m)
  IN  IF repr = "Map" THEN FlattenSeq([i \in 1..n |-> m[keys[n + 1 - i]]]) ELSE v

ToVec ==
  LET keys == Descending(DOMAIN m)
  IN  IF repr = "Map"
      THEN FlattenSeq([i \in 1..Cardinality(DOMAIN m) |-> m[keys[i]]])
      ELSE v

FrontMessage ==
  IF repr = "Map"
  THEN IF DOMAIN m = {} THEN Abstract!Nothing ELSE Head(m[TopKey(m)])
  ELSE IF v = << >> THEN Abstract!Nothing ELSE Head(v)

-----------------------------------------------------------------------------
(* Properties *)

\* Types; in particular only one representation holds messages outside the
\* migration, and the deque never stays above the threshold.
TypeOK ==
  /\ repr \in {"Linear", "Draining", "Map"}
  /\ repr = "Linear" => DOMAIN m = {} /\ Len(v) <= Threshold
  /\ repr = "Map" => v = << >>
  /\ v \in Seq(Abstract!Message)
  /\ DOMAIN m \subseteq Priorities
  /\ \A p \in DOMAIN m : m[p] \in Seq(Abstract!Message)
  /\ arrivals \in Nat
  /\ taken \in Abstract!Message \cup {Abstract!Nothing}

\* The deque is in serving order, whatever the interleaving of priorities,
\* and so is each bucket; a bucket holds only messages of its own key and is
\* never empty; while a migration is under way, what was moved is served
\* before what is left.
RepresentationSorted ==
  /\ InOrder(v)
  /\ \A p \in DOMAIN m :
       /\ m[p] # << >>
       /\ \A i \in 1..Len(m[p]) : m[p][i].priority = p
       /\ \A i, j \in 1..Len(m[p]) : i < j => m[p][i].ticket < m[p][j].ticket
  /\ \A p \in DOMAIN m : \A i \in 1..Len(m[p]) : \A j \in 1..Len(v) :
       Abstract!ServedBefore(m[p][i], v[j])

\* len, front and to_vec describe the same mailbox in both representations:
\* len counts what pop_front will return before it returns None, to_vec
\* lists it in that order and front is its first element.  Backpressure
\* compares len with the limit, and the debugger shows to_vec.
ReadersAgree ==
  repr # "Draining" =>
    /\ Length = Cardinality(Contents)
    /\ Len(ToVec) = Length
    /\ InOrder(ToVec)
    /\ FrontMessage = IF ToVec = << >> THEN Abstract!Nothing ELSE Head(ToVec)

\* Both representations, and the migration between them, behave like one
\* priority queue that is FIFO among equals.
ImplementsPriorityFifo == Abstract!Spec
=============================================================================
