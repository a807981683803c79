----------------------------- MODULE MailboxOps -----------------------------
(***************************************************************************)
(* The operators of interpreter/actors.rs on the two representations of a  *)
(* mailbox: a sequence kept sorted by descending priority, and a map from  *)
(* a priority to the non-empty queue of the messages that have it.  An     *)
(* envelope is any record with fields priority and ticket, the order of    *)
(* arrival.                                                                *)
(***************************************************************************)
EXTENDS Integers, SequencesExt

\* Mutant: a new envelope goes before its equals.
InsertPosAtEquals(v, env) ==
  LET lower == {i \in 1..Len(v) : v[i].priority <= env.priority}
  IN  IF lower = {} THEN Len(v) + 1
      ELSE CHOOSE i \in lower : \A j \in lower : i <= j

\* MailboxImpl::Linear, insert: the first position whose priority is lower
\* than the new envelope's, or the end.
InsertPos(v, env) ==
  LET lower == {i \in 1..Len(v) : v[i].priority < env.priority}
  IN  IF lower = {} THEN Len(v) + 1
      ELSE CHOOSE i \in lower : \A j \in lower : i <= j

LinearInsert(v, env) == InsertAt(v, InsertPos(v, env), env)

\* Mutant: push_front.
PushBucketFront(m, env) ==
  [p \in DOMAIN m \cup {env.priority} |->
     IF p # env.priority THEN m[p]
     ELSE <<env>> \o (IF p \in DOMAIN m THEN m[p] ELSE << >>)]

\* MailboxImpl::Map, entry(priority).or_default().push_back(env).
PushBucket(m, env) ==
  [p \in DOMAIN m \cup {env.priority} |->
     IF p # env.priority THEN m[p]
     ELSE Append(IF p \in DOMAIN m THEN m[p] ELSE << >>, env)]

\* The last key of the BTreeMap: the highest priority that has a bucket.
TopKey(m) == CHOOSE p \in DOMAIN m : \A q \in DOMAIN m : q <= p

\* Mutant: an emptied bucket stays in the map.
PopKeepingBucket(m) ==
  LET top == TopKey(m)
  IN  [m EXCEPT ![top] = Tail(m[top])]

\* pop_front on the map: the front of the top bucket goes, and the bucket
\* with it when it is then empty.
PopBucket(m) ==
  LET top  == TopKey(m)
      rest == Tail(m[top])
  IN  IF rest = << >> THEN [p \in DOMAIN m \ {top} |-> m[p]]
      ELSE [m EXCEPT ![top] = rest]

\* The order every reader of a mailbox relies on: descending priority, and
\* ascending ticket among equals.
InOrder(s) ==
  \A i, j \in 1..Len(s) :
    i < j => \/ s[i].priority > s[j].priority
             \/ s[i].priority = s[j].priority /\ s[i].ticket < s[j].ticket
=============================================================================
