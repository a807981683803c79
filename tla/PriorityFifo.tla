---------------------------- MODULE PriorityFifo ----------------------------
(***************************************************************************)
(* What an actor's mailbox promises to the rest of the interpreter: a bag  *)
(* of messages from which the oldest message of the highest priority is    *)
(* taken first.  How the messages are stored is not said here; module      *)
(* Mailbox has the two representations the code uses and implements this   *)
(* specification.                                                          *)
(*                                                                         *)
(* A message is its arrival ticket and its priority; the sender and the    *)
(* payload of a ValueEnvelope never influence the order.                   *)
(***************************************************************************)
EXTENDS Integers

CONSTANTS
  Priorities,   \* the priorities senders use
  MaxArrivals   \* bound on the number of messages ever inserted

VARIABLES
  waiting,      \* the messages in the mailbox
  arrivals,     \* how many messages were inserted so far
  taken         \* what the last pop returned

fifoVars == <<waiting, arrivals, taken>>

Message == [ticket : Nat, priority : Priorities]

\* What pop_front returns on an empty mailbox.
Nothing == [ticket |-> -1, priority |-> 0]

\* a is served before b.
ServedBefore(a, b) ==
  \/ a.priority > b.priority
  \/ a.priority = b.priority /\ a.ticket < b.ticket

Init ==
  /\ waiting = {}
  /\ arrivals = 0
  /\ taken = Nothing

Put(p) ==
  /\ arrivals < MaxArrivals
  /\ waiting' = waiting \cup {[ticket |-> arrivals, priority |-> p]}
  /\ arrivals' = arrivals + 1
  /\ UNCHANGED taken

Take(m) ==
  /\ m \in waiting
  /\ \A o \in waiting \ {m} : ServedBefore(m, o)
  /\ waiting' = waiting \ {m}
  /\ taken' = m
  /\ UNCHANGED arrivals

TakeNothing ==
  /\ waiting = {}
  /\ taken' = Nothing
  /\ UNCHANGED <<waiting, arrivals>>

Next ==
  \/ \E p \in Priorities : Put(p)
  \/ \E m \in waiting : Take(m)
  \/ TakeNothing

Spec == Init /\ [][Next]_fifoVars
=============================================================================
