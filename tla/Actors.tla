------------------------------- MODULE Actors -------------------------------
(***************************************************************************)
(* The actor runtime of the interpreter: spawn actor, the builtins         *)
(* actor_send, actor_receive, actor_receive_envelope,                      *)
(* actor_set_mailbox_limit, actor_yield and run_actors, and the            *)
(* cooperative scheduler run_actors_round_robin.                           *)
(*                                                                         *)
(* Everything runs on one thread.  The main program (the host) executes    *)
(* builtins while no scheduler run is active; run_actors, called by the    *)
(* host or by an actor, pushes a frame on `runs` and the frames work as a  *)
(* call stack.  A turn executes one statement of an actor, builtin by      *)
(* builtin; while it does, the actor is out of the map `actors` and in     *)
(* `executing`.                                                            *)
(*                                                                         *)
(* A statement is the sequence of the actor builtins it evaluates.  kind   *)
(* is "block" when they are statements of a nested block (execute_block    *)
(* stops at the first one that parks the actor), "let" when they are parts *)
(* of one initializer, which is bound afterwards, and "expr" when they are *)
(* parts of one expression statement: these two go on after a receive that *)
(* found no message.                                                       *)
(*                                                                         *)
(* A message is the ticket of its send (its payload), its sender and its   *)
(* priority; a mailbox is the sequence module Mailbox shows its two        *)
(* representations to be.  Identifier 0 stands for None.                   *)
(***************************************************************************)
EXTENDS MailboxOps, FiniteSets

CONSTANTS
  Bodies,        \* names of the actor bodies of the program
  Program,       \* the statements of each body
  DefaultLimit,  \* actor_mailbox_limit, 1000 in the code
  HalfRange,     \* priorities wrap into -HalfRange..HalfRange-1, 2^31 in the code
  HostPriorities, \* priorities the host sends with (any integer)
  HostBodies,    \* bodies the host spawns
  HostLimits,    \* limits the host sets
  HostSteps,     \* arguments the host gives run_actors
  MaxTickets,    \* bound: the host sends while fewer messages were sent
  MaxActors      \* bound: the host spawns while fewer actors exist

\* run_actors() without argument: usize::MAX.
Unlimited == -1

Operation ==
  [op : {"send"}, to : Nat, priority : Int]
    \cup [op : {"receive", "receive_envelope", "yield", "fail"}]
    \cup [op : {"limit"}, to : Nat, limit : Int]
    \cup [op : {"spawn"}, body : Bodies]
    \cup [op : {"run"}, max : Nat \cup {Unlimited}]

Statement == [kind : {"let", "expr", "block"}, ops : Seq(Operation)]

ASSUME ActorsAssumption ==
  /\ Program \in [Bodies -> Seq(Statement)]
  /\ DefaultLimit \in Nat
  /\ HalfRange \in Nat \ {0}
  /\ HostPriorities \subseteq Int
  /\ HostBodies \subseteq Bodies
  /\ HostLimits \subseteq Int
  /\ HostSteps \subseteq Nat \cup {Unlimited}

VARIABLES
  actors,       \* the map: a function on the ids of the actors in it
  executing,    \* executing_actor, or Nobody
  current,      \* current_actor, or 0
  nextId,       \* next_actor_id
  runs,         \* the active run_actors frames, innermost first
  diagnostics,  \* number of diagnostics reported by the builtins
  ticket,       \* history: number of actor_send calls so far
  accepted,     \* history: the messages actor_send returned true for
  refused,      \* history: number of actor_send calls that did not
  consumed,     \* history: the messages received, in order
  bound         \* history: the values let statements bound, in order

vars == <<actors, executing, current, nextId, runs, diagnostics,
          ticket, accepted, refused, consumed, bound>>

history == <<ticket, accepted, refused, consumed, bound>>

-----------------------------------------------------------------------------
Nobody == [id |-> 0, prog |-> {}, body |-> << >>, mailbox |-> << >>,
           finished |-> FALSE, parked |-> FALSE, limit |-> 0]

\* ActorState of a new actor.  prog remembers the body's name.
NewActor(id, b) ==
  [id |-> id, prog |-> {b}, body |-> Program[b], mailbox |-> << >>,
   finished |-> FALSE, parked |-> FALSE, limit |-> DefaultLimit]

With(id, a) == [i \in DOMAIN actors \cup {id} |-> IF i = id THEN a ELSE actors[i]]

Without(ids) == [i \in DOMAIN actors \ ids |-> actors[i]]

\* No statement is being executed.
NoTurn == [aid |-> 0, stmt |-> << >>, ops |-> << >>, got |-> << >>, failed |-> FALSE]

\* The locals of run_actors_round_robin, and the statement it executes.
Frame(max) ==
  [ids |-> DOMAIN actors, cursor |-> 0, progress |-> FALSE, steps |-> 0,
   max |-> max, turn |-> NoTurn]

Busy(f) == f.turn.aid # 0

Top == Head(runs)

\* Replaces the innermost frame.
SetTop(f) == runs' = <<f>> \o Tail(runs)

SetTurn(t) == SetTop([Top EXCEPT !.turn = t])

\* `n as i32`.
AsPriority(n) == ((n + HalfRange) % (2 * HalfRange)) - HalfRange

-----------------------------------------------------------------------------
(* The builtins *)

Envelope(n) == [ticket |-> ticket, sender |-> current, priority |-> AsPriority(n)]

\* Room in the mailbox.
RoomForOneMore(a) == Len(a.mailbox) <= a.limit  \* mutant: off by one

HasRoom(a) == Len(a.mailbox) < a.limit

\* Mutant: the receiver is not woken.
EnqueueOnly(a, env) == [a EXCEPT !.mailbox = LinearInsert(@, env)]

\* Enqueue and wake the receiver.
Deliver(a, env) ==
  [a EXCEPT !.mailbox = LinearInsert(@, env), !.parked = FALSE]

Accept(to, n) ==
  /\ accepted' = accepted \cup
       {[ticket |-> ticket, to |-> to, priority |-> AsPriority(n)]}
  /\ UNCHANGED <<refused, diagnostics>>

\* The send returns false or None; only an unknown id is diagnosed.
Refuse(diagnosed) ==
  /\ refused' = refused + 1
  /\ diagnostics' = IF diagnosed THEN diagnostics + 1 ELSE diagnostics
  /\ UNCHANGED <<actors, executing, accepted>>

ActorSend(to, n) ==
  /\ ticket' = ticket + 1
  /\ \/ /\ to \in DOMAIN actors
        /\ HasRoom(actors[to])
        /\ actors' = [actors EXCEPT ![to] = Deliver(@, Envelope(n))]
        /\ Accept(to, n)
        /\ UNCHANGED executing
     \/ /\ to \notin DOMAIN actors
        /\ executing # Nobody
        /\ executing.id = to
        /\ HasRoom(executing)
        /\ executing' = Deliver(executing, Envelope(n))
        /\ Accept(to, n)
        /\ UNCHANGED actors
     \/ /\ to \in DOMAIN actors
        /\ ~HasRoom(actors[to])
        /\ Refuse(FALSE)
     \/ /\ to \notin DOMAIN actors
        /\ executing # Nobody
        /\ executing.id = to => ~HasRoom(executing)
        /\ Refuse(FALSE)
     \/ /\ to \notin DOMAIN actors
        /\ executing = Nobody
        /\ Refuse(TRUE)
  /\ UNCHANGED <<current, nextId, consumed, bound>>

\* The value a receive returns: the ticket of a message, or this for None.
NoValue == -1

\* Mutant: the message stays in the mailbox.
ConsumeAndKeep(value, parkedAfter) ==
  LET env == Head(executing.mailbox)
  IN  /\ value = env.ticket
      /\ executing' = [executing EXCEPT !.parked = parkedAfter]
      /\ consumed' = Append(consumed, [ticket |-> env.ticket, to |-> executing.id,
                                       priority |-> env.priority])
      /\ UNCHANGED <<actors, diagnostics>>

\* A message is waiting: it is popped and returned.
Consume(value, parkedAfter) ==
  LET env == Head(executing.mailbox)
  IN  /\ value = env.ticket
      /\ executing' = [executing EXCEPT !.mailbox = Tail(@), !.parked = parkedAfter]
      /\ consumed' = Append(consumed, [ticket |-> env.ticket, to |-> executing.id,
                                       priority |-> env.priority])
      /\ UNCHANGED <<actors, diagnostics>>

\* The mailbox is empty: the actor is parked and None is returned.
Park(value) ==
  /\ value = NoValue
  /\ executing' = [executing EXCEPT !.parked = TRUE]
  /\ UNCHANGED <<actors, consumed, diagnostics>>

NoActorContext(value) ==
  /\ value = NoValue
  /\ diagnostics' = diagnostics + 1
  /\ UNCHANGED <<actors, executing, consumed>>

\* actor_receive.  Its fallback when there is no executing actor looks the
\* current one up in the map, where it never is: see RunningIsOut.
ActorReceive(value) ==
  /\ IF executing = Nobody THEN NoActorContext(value)
     ELSE IF executing.mailbox # << >> THEN Consume(value, FALSE)
     ELSE Park(value)
  /\ UNCHANGED <<current, nextId, ticket, accepted, refused, bound>>

\* actor_receive_envelope: finds the actor through current_actor, and leaves
\* parked as it is when it pops.
ActorReceiveEnvelope(value) ==
  /\ IF current = 0 \/ executing = Nobody \/ executing.id # current
     THEN NoActorContext(value)
     ELSE IF executing.mailbox # << >> THEN Consume(value, executing.parked)
     ELSE Park(value)
  /\ UNCHANGED <<current, nextId, ticket, accepted, refused, bound>>

\* Mutant: the conversion to usize without the clamp.
UnclampedLimit(n) == n

\* The limit of an Int argument: negative ones count as 0.
AsLimit(n) == IF n < 0 THEN 0 ELSE n

\* actor_set_mailbox_limit looks in the map only.
ActorSetMailboxLimit(to, n) ==
  /\ IF to \in DOMAIN actors
     THEN /\ actors' = [actors EXCEPT ![to].limit = AsLimit(n)]
          /\ UNCHANGED diagnostics
     ELSE diagnostics' = diagnostics + 1 /\ UNCHANGED actors
  /\ UNCHANGED <<executing, current, nextId, history>>

SpawnActor(b) ==
  /\ actors' = With(nextId, NewActor(nextId, b))
  /\ nextId' = nextId + 1
  /\ UNCHANGED <<executing, current, diagnostics, history>>

-----------------------------------------------------------------------------
(* The main program: it runs while the scheduler does not. *)

HostSend ==
  \E to \in 1..nextId, n \in HostPriorities :
    /\ runs = << >>
    /\ ticket < MaxTickets
    /\ ActorSend(to, n)
    /\ UNCHANGED runs

HostLimit ==
  \E to \in DOMAIN actors, n \in HostLimits :
    /\ runs = << >>
    /\ ActorSetMailboxLimit(to, n)
    /\ UNCHANGED runs

HostSpawn ==
  \E b \in HostBodies :
    /\ runs = << >>
    /\ nextId <= MaxActors
    /\ SpawnActor(b)
    /\ UNCHANGED runs

HostRun ==
  \E max \in HostSteps :
    /\ runs = << >>
    /\ runs' = <<Frame(max)>>
    /\ UNCHANGED <<actors, executing, current, nextId, diagnostics, history>>

-----------------------------------------------------------------------------
(* run_actors_round_robin: the loop over the sorted snapshot of ids.  The   *)
(* list and its index are the set of the ids still listed and the last id   *)
(* visited in this pass.                                                    *)

Scheduling == runs # << >> /\ ~Busy(Top)

Exhausted(f) == f.ids = {} \/ (f.max # Unlimited /\ f.steps >= f.max)

PassOver(f) == \A i \in f.ids : i <= f.cursor

\* The steps after one more: nothing reads them in an unlimited run.
Counted(f) == IF f.max = Unlimited THEN f.steps ELSE f.steps + 1

\* Mutant: the run ends after one pass.
OnePassOnly(f) == Exhausted(f) \/ PassOver(f)

\* The while loop is left.
Finishes(f) == Exhausted(f) \/ (PassOver(f) /\ ~f.progress)

\* The next id of this pass.
IsNext(aid) ==
  /\ Scheduling
  /\ ~Exhausted(Top)
  /\ aid \in Top.ids
  /\ aid > Top.cursor
  /\ \A i \in Top.ids : i > Top.cursor => aid <= i

Runnable(a) == a.body # << >> \/ a.mailbox # << >>

\* A pass ended in which a statement was executed: another one begins.
NewPass ==
  /\ Scheduling
  /\ ~Exhausted(Top)
  /\ PassOver(Top)
  /\ Top.progress
  /\ SetTop([Top EXCEPT !.cursor = 0, !.progress = FALSE])
  /\ UNCHANGED <<actors, executing, current, nextId, diagnostics, history>>

\* The actor is gone or finished: it leaves the list.
DropListed(aid) ==
  /\ IsNext(aid)
  /\ aid \in DOMAIN actors => actors[aid].finished
  /\ SetTop([Top EXCEPT !.ids = @ \ {aid}])
  /\ UNCHANGED <<actors, executing, current, nextId, diagnostics, history>>

\* Parked, or nothing to run: the actor went through executing_actor, which
\* is left empty, and back into the map.
SkipActor(aid) ==
  /\ IsNext(aid)
  /\ aid \in DOMAIN actors
  /\ ~actors[aid].finished
  /\ actors[aid].parked \/ ~Runnable(actors[aid])
  /\ executing' = Nobody
  /\ SetTop([Top EXCEPT !.cursor = aid])
  /\ UNCHANGED <<actors, current, nextId, diagnostics, history>>

Ready(aid) ==
  /\ aid \in DOMAIN actors
  /\ ~actors[aid].finished
  /\ ~actors[aid].parked
  /\ Runnable(actors[aid])

\* Mutant: an empty turn counts as progress.
EmptyProgress(aid) ==
  /\ IsNext(aid)
  /\ Ready(aid)
  /\ actors[aid].body = << >>
  /\ executing' = Nobody
  /\ current' = 0
  /\ SetTop([Top EXCEPT !.cursor = aid, !.steps = Counted(Top), !.progress = TRUE])
  /\ UNCHANGED <<actors, nextId, diagnostics, history>>

\* A turn of an actor with messages but no statement left: nothing happens.
EmptyTurn(aid) ==
  /\ IsNext(aid)
  /\ Ready(aid)
  /\ actors[aid].body = << >>
  /\ executing' = Nobody
  /\ current' = 0
  /\ SetTop([Top EXCEPT !.cursor = aid, !.steps = Counted(Top)])
  /\ UNCHANGED <<actors, nextId, diagnostics, history>>

\* Mutant: a copy of the actor is executed and the map keeps the other.
BeginOnCopy(aid) ==
  /\ IsNext(aid)
  /\ Ready(aid)
  /\ actors[aid].body # << >>
  /\ LET stmt == Head(actors[aid].body)
     IN  SetTurn([aid |-> aid, stmt |-> <<stmt>>, ops |-> stmt.ops,
                  got |-> << >>, failed |-> FALSE])
  /\ executing' = [actors[aid] EXCEPT !.body = Tail(@)]
  /\ current' = aid
  /\ UNCHANGED <<actors, nextId, diagnostics, history>>

\* A turn begins: the actor leaves the map and its first statement the body.
BeginStatement(aid) ==
  /\ IsNext(aid)
  /\ Ready(aid)
  /\ actors[aid].body # << >>
  /\ LET stmt == Head(actors[aid].body)
     IN  SetTurn([aid |-> aid, stmt |-> <<stmt>>, ops |-> stmt.ops,
                  got |-> << >>, failed |-> FALSE])
  /\ executing' = [actors[aid] EXCEPT !.body = Tail(@)]
  /\ actors' = Without({aid})
  /\ current' = aid
  /\ UNCHANGED <<nextId, diagnostics, history>>

Executing == runs # << >> /\ Busy(Top)

ParkedNow == executing # Nobody /\ executing.parked

\* execute_block stops before the next statement of a parked actor.
Interrupted == Top.turn.stmt[1].kind = "block" /\ ParkedNow

Pending(op) ==
  /\ Executing
  /\ Top.turn.ops # << >>
  /\ ~Interrupted
  /\ Head(Top.turn.ops).op = op

NextOp == Head(Top.turn.ops)

\* The turn after its next builtin was called.
Popped == [Top.turn EXCEPT !.ops = Tail(@)]

PopOp == SetTurn(Popped)

OpSend ==
  /\ Pending("send")
  /\ ActorSend(NextOp.to, NextOp.priority)
  /\ PopOp

OpReceive ==
  \E value \in {NoValue} \cup 0..ticket :
    /\ \/ Pending("receive") /\ ActorReceive(value)
       \/ Pending("receive_envelope") /\ ActorReceiveEnvelope(value)
    /\ SetTurn([Popped EXCEPT !.got = Append(@, value)])

OpLimit ==
  /\ Pending("limit")
  /\ ActorSetMailboxLimit(NextOp.to, NextOp.limit)
  /\ PopOp

OpSpawn ==
  /\ Pending("spawn")
  /\ SpawnActor(NextOp.body)
  /\ PopOp

\* A return or a run-time error: the rest of the statement is not executed,
\* and the scheduler ignores the result.
OpFail ==
  /\ Pending("fail")
  /\ SetTurn([Top.turn EXCEPT !.ops = << >>, !.failed = TRUE])
  /\ UNCHANGED <<actors, executing, current, nextId, diagnostics, history>>

OpYield ==
  /\ Pending("yield")
  /\ PopOp
  /\ UNCHANGED <<actors, executing, current, nextId, diagnostics, history>>

\* run_actors called by an actor: a nested run over the actors in the map.
OpRun ==
  /\ Pending("run")
  /\ runs' = <<Frame(NextOp.max), [Top EXCEPT !.turn = Popped]>> \o Tail(runs)
  /\ UNCHANGED <<actors, executing, current, nextId, diagnostics, history>>

\* The body after a statement: a parked actor keeps it for a retry.
BodyAfter(a) == IF a.parked THEN Top.turn.stmt \o a.body ELSE a.body

\* Mutant: an actor without mail is finished whatever is left of its body.
DoneWithoutMail(a, body) == a.finished \/ a.mailbox = << >>

FinishedAfter(a, body) == a.finished \/ (body = << >> /\ a.mailbox = << >>)

\* The turn ends.  A parked actor keeps the statement for a retry; the state
\* taken from executing_actor goes back into the map.
EndStatement ==
  /\ Executing
  /\ Top.turn.ops = << >> \/ Interrupted
  /\ LET a    == executing
         body == BodyAfter(a)
     IN  actors' = IF a = Nobody THEN actors
                   ELSE With(Top.turn.aid, [a EXCEPT !.body = body,
                                                     !.finished = FinishedAfter(a, body)])
  /\ bound' = IF Top.turn.stmt[1].kind = "let" /\ ~ParkedNow /\ ~Top.turn.failed
              THEN Append(bound, [actor |-> Top.turn.aid, values |-> Top.turn.got])
              ELSE bound
  /\ executing' = Nobody
  /\ current' = 0
  /\ SetTop([Top EXCEPT !.cursor = Top.turn.aid, !.steps = Counted(Top),
                        !.progress = TRUE, !.turn = NoTurn])
  /\ UNCHANGED <<nextId, diagnostics, ticket, accepted, refused, consumed>>

\* Mutant: the clean-up takes actors by their body.
WithoutBody == {i \in DOMAIN actors : actors[i].body = << >>}

FinishedIds == {i \in DOMAIN actors : actors[i].finished}

\* The loop is left, and the finished actors are removed from the map.
EndRun ==
  /\ Scheduling
  /\ Finishes(Top)
  /\ actors' = Without(FinishedIds)
  /\ runs' = Tail(runs)
  /\ UNCHANGED <<executing, current, nextId, diagnostics, history>>

-----------------------------------------------------------------------------
Init ==
  /\ actors = << >>
  /\ executing = Nobody
  /\ current = 0
  /\ nextId = 1
  /\ runs = << >>
  /\ diagnostics = 0
  /\ ticket = 0
  /\ accepted = {}
  /\ refused = 0
  /\ consumed = << >>
  /\ bound = << >>

Host == HostSend \/ HostLimit \/ HostSpawn \/ HostRun

Schedule ==
  \/ NewPass
  \/ EndRun
  \/ \E aid \in UNION {f.ids : f \in {runs[i] : i \in 1..Len(runs)}} :
       \/ DropListed(aid)
       \/ SkipActor(aid)
       \/ EmptyTurn(aid)
       \/ BeginStatement(aid)

Operate ==
  \/ OpSend \/ OpReceive \/ OpLimit \/ OpSpawn \/ OpYield \/ OpFail \/ OpRun
  \/ EndStatement

Next == Host \/ Schedule \/ Operate

Spec == Init /\ [][Next]_vars

\* run_actors returns only by itself: the interpreter's thread keeps
\* executing it.  The main program may stop calling it.
FairSpec == Spec /\ WF_vars(Schedule) /\ WF_vars(Operate)

-----------------------------------------------------------------------------
(* Properties *)

ActorIn(Ids) ==
  [id : Ids, prog : SUBSET Bodies, body : Seq(Statement),
   mailbox : Seq([ticket : Nat, sender : Nat, priority : Int]),
   finished : BOOLEAN, parked : BOOLEAN, limit : Nat]

TurnType ==
  [aid : Nat, stmt : Seq(Statement), ops : Seq(Operation),
   got : Seq(Nat \cup {NoValue}), failed : BOOLEAN]

FrameType ==
  [ids : SUBSET (Nat \ {0}), cursor : Nat, progress : BOOLEAN, steps : Nat,
   max : Nat \cup {Unlimited}, turn : TurnType]

TypeOK ==
  /\ DOMAIN actors \subseteq 1..(nextId - 1)
  /\ \A i \in DOMAIN actors : actors[i] \in ActorIn({i})
  /\ executing \in ActorIn(1..(nextId - 1)) \cup {Nobody}
  /\ current \in 0..(nextId - 1)
  /\ nextId \in Nat \ {0}
  /\ runs \in Seq(FrameType)
  /\ diagnostics \in Nat
  /\ ticket \in Nat
  /\ accepted \subseteq [ticket : Nat, to : Nat, priority : Int]
  /\ refused \in Nat
  /\ consumed \in Seq([ticket : Nat, to : Nat, priority : Int])
  /\ bound \in Seq([actor : Nat, values : Seq(Nat \cup {NoValue})])

\* The actors that exist for the runtime, and their state.
Live == DOMAIN actors \cup (IF executing = Nobody THEN {} ELSE {executing.id})

State(i) == IF i \in DOMAIN actors THEN actors[i] ELSE executing

\* A parked actor has no message: actor_receive parks only on an empty
\* mailbox and every path that enqueues wakes the receiver, wherever its
\* state is (the map or executing_actor).  Otherwise the scheduler would skip
\* the actor for ever although it has mail.
NoLostWakeup == \A i \in Live : State(i).parked => State(i).mailbox = << >>

\* Every mailbox is in serving order although senders, priorities and
\* receives interleave.
MailInOrder ==
  \A i \in Live : InOrder(State(i).mailbox)

\* An actor receives the messages of one priority in the order of their
\* sends, over all its receives, retries included.
DeliveredInOrder ==
  \A i, j \in 1..Len(consumed) :
    (/\ i < j
     /\ consumed[i].to = consumed[j].to
     /\ consumed[i].priority = consumed[j].priority)
      => consumed[i].ticket < consumed[j].ticket

QueuedAt(i) ==
  {[ticket |-> State(i).mailbox[k].ticket, to |-> i,
    priority |-> State(i).mailbox[k].priority] : k \in 1..Len(State(i).mailbox)}

Queued == UNION {QueuedAt(i) : i \in Live}

Received == {consumed[k] : k \in 1..Len(consumed)}

\* A message actor_send returned true for is at any time in at most one
\* place: queued once at its receiver, or received once by it; a refused
\* message is nowhere.
EachMessageOnce ==
  /\ Queued \cup Received \subseteq accepted
  /\ Queued \cap Received = {}
  /\ \A i, j \in 1..Len(consumed) : i # j => consumed[i].ticket # consumed[j].ticket

Lost == accepted \ (Queued \cup Received)

\* An accepted message disappears in one way only: its receiver had finished
\* before the send and a run's clean-up removes it with its mail.
LostOnlyWithFinished ==
  [][\A e \in Lost' \ Lost :
       e.to \in DOMAIN actors /\ actors[e.to].finished /\ e.to \notin Live']_vars

\* The statements of the program, their builtins, and the limits that can be
\* set: the initial one, the host's and the program's.
ProgramStatements ==
  UNION {{Program[b][j] : j \in 1..Len(Program[b])} : b \in Bodies}

ProgramOps == UNION {{s.ops[k] : k \in 1..Len(s.ops)} : s \in ProgramStatements}

Limits ==
  {DefaultLimit} \cup HostLimits
    \cup {o.limit : o \in {p \in ProgramOps : p.op = "limit"}}

\* Some limit of the program allows that many messages.
Allowed(n) == \E l \in Limits : n <= AsLimit(l)

\* No mailbox is longer than the largest limit it can have had.
BoundedMailbox == \A i \in Live : Allowed(Len(State(i).mailbox))

\* The scheduler gives up an actor (takes it out of the map for good) only
\* when its body was executed to the end.
RemovedOnlyWhenDone ==
  [][\A i \in Live : i \notin Live' => State(i).body = << >>]_vars

\* The runs that end in this step.
Returns(f) == Len(runs') < Len(runs) /\ f = Top

\* An unlimited run returns only at quiescence: of the actors it was started
\* with, none that could execute a statement is left.
QuiescentAtReturn ==
  [][\A f \in {runs[i] : i \in 1..Len(runs)} :
       Returns(f) /\ f.max = Unlimited =>
         \A i \in f.ids \cap DOMAIN actors' :
           actors'[i].parked \/ actors'[i].body = << >>]_vars

\* run_actors returns: parking, retrying and empty turns never keep the
\* scheduler rotating for ever.
RunTerminates == (runs # << >>) ~> (runs = << >>)

-----------------------------------------------------------------------------
(* The inductive invariant of the proofs in ActorsProofs.                   *)

\* A frame that executes a statement remembers it and the actor it belongs
\* to; every frame but the innermost executes one (it called run_actors).
FramesOK ==
  \A k \in 1..Len(runs) :
    /\ Busy(runs[k]) => /\ Len(runs[k].turn.stmt) = 1
                        /\ runs[k].turn.aid \in 1..(nextId - 1)
    /\ k > 1 => Busy(runs[k])

\* executing_actor, when it is set, is the actor of the innermost frame that
\* executes a statement.
ExecutingOK ==
  executing # Nobody =>
    /\ runs # << >>
    /\ Busy(runs[1]) => executing.id = runs[1].turn.aid
    /\ ~Busy(runs[1]) => Len(runs) > 1 /\ executing.id = runs[2].turn.aid

\* The running actor is out of the map.
RunningIsOut ==
  /\ executing # Nobody => executing.id \notin DOMAIN actors
  /\ current # 0 => current \notin DOMAIN actors

\* A state that holds its mail properly: in serving order, none of it while
\* parked, all of it sent before now, and nothing of a priority sent before
\* what the actor has already received of it.
HoldsMail(a) ==
  /\ a.parked => a.mailbox = << >>
  /\ InOrder(a.mailbox)
  /\ \A k \in 1..Len(a.mailbox) :
       /\ a.mailbox[k].ticket < ticket
       /\ \A j \in 1..Len(consumed) :
            (consumed[j].to = a.id /\ consumed[j].priority = a.mailbox[k].priority)
              => consumed[j].ticket < a.mailbox[k].ticket

MailOK ==
  /\ \A i \in DOMAIN actors : HoldsMail(actors[i])
  /\ HoldsMail(executing)
  /\ \A j \in 1..Len(consumed) : consumed[j].ticket < ticket
  /\ DeliveredInOrder

\* The queued messages of a state, as accepted and Received record them.
MailOf(a) ==
  {[ticket |-> a.mailbox[k].ticket, to |-> a.id, priority |-> a.mailbox[k].priority] :
     k \in 1..Len(a.mailbox)}

\* What is queued was accepted and not received, a ticket stands for one
\* accepted message, and no ticket is received twice.
OnceOK ==
  /\ \A i \in DOMAIN actors : MailOf(actors[i]) \subseteq accepted \ Received
  /\ MailOf(executing) \subseteq accepted \ Received
  /\ Received \subseteq accepted
  /\ \A e \in accepted : e.ticket < ticket
  /\ \A e, f \in accepted : e.ticket = f.ticket => e = f
  /\ \A i, j \in 1..Len(consumed) : i # j => consumed[i].ticket # consumed[j].ticket

\* What is left to execute is part of the program.
FromProgram ==
  /\ \A i \in DOMAIN actors : actors[i].body \in Seq(ProgramStatements)
  /\ executing.body \in Seq(ProgramStatements)
  /\ \A k \in 1..Len(runs) : /\ runs[k].turn.stmt \in Seq(ProgramStatements)
                             /\ runs[k].turn.ops \in Seq(ProgramOps)

WithinLimits(a) == Allowed(a.limit) /\ Allowed(Len(a.mailbox))

LimitsOK ==
  /\ \A i \in DOMAIN actors : WithinLimits(actors[i])
  /\ WithinLimits(executing)

\* A finished actor has nothing left to execute, and is not executed.
FinishedOK ==
  /\ \A i \in DOMAIN actors : actors[i].finished => actors[i].body = << >>
  /\ ~executing.finished

\* While a pass has executed nothing, the actors it has visited have nothing
\* they could execute.
VisitedOK ==
  (runs # << >> /\ ~Busy(runs[1]) /\ ~runs[1].progress) =>
    \A i \in runs[1].ids \cap DOMAIN actors :
      i <= runs[1].cursor => actors[i].parked \/ actors[i].body = << >>

IInv ==
  /\ TypeOK /\ FramesOK /\ ExecutingOK /\ RunningIsOut /\ MailOK
  /\ OnceOK /\ FromProgram /\ LimitsOK /\ FinishedOK /\ VisitedOK

=============================================================================
