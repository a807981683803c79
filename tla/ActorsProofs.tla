---------------------------- MODULE ActorsProofs ----------------------------
(***************************************************************************)
(* Theorems about the actor runtime for every program, every limit and any *)
(* number of actors, messages and nested runs: the types of its state, and *)
(* what it promises about mail.  No wake-up is lost, mailboxes stay in     *)
(* serving order, and messages of one priority are received in the order   *)
(* of their sends.  Over whole runs, a message is in one place at a time,  *)
(* mailboxes stay within the limits of the program, and an unlimited run   *)
(* returns at quiescence; for programs whose actors do not call run_actors *)
(* nothing is lost but with an actor that had finished.                    *)
(***************************************************************************)
EXTENDS Actors, MailboxLemmas

Env == [ticket : Nat, sender : Nat, priority : Int]

\* Replacing the innermost frame keeps the others.
LEMMA SetTopFrames ==
  ASSUME runs \in Seq(FrameType), runs # << >>, NEW f \in FrameType, SetTop(f)
  PROVE  /\ runs' \in Seq(FrameType)
         /\ Len(runs') = Len(runs)
         /\ runs'[1] = f
         /\ \A k \in 2..Len(runs) : runs'[k] = runs[k]
<1>1. /\ Tail(runs) \in Seq(FrameType) /\ Len(Tail(runs)) = Len(runs) - 1
      /\ \A i \in 1..Len(Tail(runs)) : Tail(runs)[i] = runs[i + 1]
  BY HeadTailProperties
<1>2. <<f>> \in Seq(FrameType) /\ Len(<<f>>) = 1 /\ <<f>>[1] = f
  OBVIOUS
<1>3. runs' = <<f>> \o Tail(runs)
  BY DEF SetTop
<1>4. Len(runs) \in Nat /\ Len(runs) > 0
  OBVIOUS
<1>5. /\ runs' \in Seq(FrameType) /\ Len(runs') = Len(runs)
      /\ \A k \in 1..Len(runs) : runs'[k] = IF k <= 1 THEN <<f>>[k] ELSE Tail(runs)[k - 1]
  BY <1>1, <1>2, <1>3, <1>4, ConcatProperties
<1>6. ASSUME NEW k \in 2..Len(runs) PROVE runs'[k] = runs[k]
  <2>1. k - 1 \in 1..Len(Tail(runs)) /\ (k - 1) + 1 = k
    BY <1>1, <1>4
  <2>2. runs'[k] = Tail(runs)[k - 1]
    BY <1>4, <1>5
  <2>3. Tail(runs)[k - 1] = runs[(k - 1) + 1]
    BY <2>1, <1>1
  <2> QED BY <2>1, <2>2, <2>3
<1> QED BY <1>2, <1>4, <1>5, <1>6

\* The innermost frame has the type of a frame.
LEMMA TopType ==
  ASSUME runs \in Seq(FrameType), runs # << >>
  PROVE  Top \in FrameType /\ Top = runs[1] /\ Len(runs) \in Nat /\ Len(runs) >= 1
BY DEF Top

\* Priorities stay integers when they wrap.
LEMMA AsPriorityType == ASSUME NEW n \in Int PROVE AsPriority(n) \in Int
BY ActorsAssumption DEF AsPriority

\* Delivering an envelope keeps the type of the state and its identity.
LEMMA DeliverType ==
  ASSUME NEW Ids, NEW a \in ActorIn(Ids), NEW env \in Env
  PROVE  Deliver(a, env) \in ActorIn(Ids) /\ Deliver(a, env).id = a.id
<1> DEFINE mb == a.mailbox
<1>1. mb \in Seq(Env)
  BY DEF ActorIn, Env
<1> HIDE DEF mb
<1>2. \A i \in 1..Len(mb) : mb[i].priority \in Int
  <2>1. \A i \in 1..Len(mb) : mb[i] \in Env
    BY <1>1
  <2> QED BY <2>1 DEF Env
<1>3. env.priority \in Int
  BY DEF Env
<1>4. LinearInsert(mb, env) \in Seq(Env)
  BY <1>1, <1>2, <1>3, LinearInsertProperties
<1>5. LinearInsert(a.mailbox, env) \in Seq(Env)
  BY <1>4 DEF mb
<1> QED BY <1>5 DEF Deliver, ActorIn, Env

-----------------------------------------------------------------------------
(* The type invariant in three parts, so that each is preserved separately. *)

StateOK ==
  /\ DOMAIN actors \subseteq 1..(nextId - 1)
  /\ \A i \in DOMAIN actors : actors[i] \in ActorIn({i})
  /\ executing \in ActorIn(1..(nextId - 1)) \cup {Nobody}
  /\ current \in 0..(nextId - 1)
  /\ nextId \in Nat \ {0}

HistoryOK ==
  /\ diagnostics \in Nat
  /\ ticket \in Nat
  /\ accepted \subseteq [ticket : Nat, to : Nat, priority : Int]
  /\ refused \in Nat
  /\ consumed \in Seq([ticket : Nat, to : Nat, priority : Int])
  /\ bound \in Seq([actor : Nat, values : Seq(Nat \cup {NoValue})])

FramesInv == runs \in Seq(FrameType) /\ FramesOK

TInv == StateOK /\ HistoryOK /\ FramesInv /\ ExecutingOK /\ RunningIsOut

LEMMA TypeParts == TypeOK <=> StateOK /\ HistoryOK /\ runs \in Seq(FrameType)
BY DEF TypeOK, StateOK, HistoryOK

\* The identifier tells whether executing_actor is set.
LEMMA NobodyId ==
  ASSUME StateOK
  PROVE  executing = Nobody <=> executing.id = 0
BY DEF StateOK, ActorIn, Nobody

\* A new turn in a frame.
LEMMA TurnUpdate ==
  ASSUME NEW f \in FrameType, NEW t \in TurnType
  PROVE  /\ [f EXCEPT !.turn = t] \in FrameType
         /\ [f EXCEPT !.turn = t].turn = t
BY DEF FrameType

LEMMA NoTurnType == NoTurn \in TurnType /\ NoTurn.aid = 0
BY DEF NoTurn, TurnType

\* The innermost frame is replaced by one that is right.
LEMMA SetTopOK ==
  ASSUME FramesInv, runs # << >>, NEW f \in FrameType, SetTop(f),
         nextId \in Nat, nextId' \in Nat, nextId <= nextId',
         Busy(f) => Len(f.turn.stmt) = 1 /\ f.turn.aid \in 1..(nextId' - 1)
  PROVE  /\ FramesInv'
         /\ Len(runs') = Len(runs) /\ Len(runs) \in Nat /\ Len(runs) >= 1
         /\ runs'[1] = f
         /\ \A k \in 2..Len(runs) : runs'[k] = runs[k]
<1>0. runs \in Seq(FrameType) /\ Len(runs) \in Nat /\ Len(runs) >= 1
  BY DEF FramesInv
<1>1. /\ runs' \in Seq(FrameType) /\ Len(runs') = Len(runs) /\ runs'[1] = f
      /\ \A k \in 2..Len(runs) : runs'[k] = runs[k]
  BY <1>0, SetTopFrames
<1>2. ASSUME NEW k \in 1..Len(runs')
      PROVE  /\ Busy(runs'[k]) => /\ Len(runs'[k].turn.stmt) = 1
                                  /\ runs'[k].turn.aid \in 1..(nextId' - 1)
             /\ k > 1 => Busy(runs'[k])
  <2>1. CASE k = 1
    BY <2>1, <1>1
  <2>2. CASE k # 1
    <3>1. k \in 2..Len(runs) /\ k \in 1..Len(runs) /\ k > 1
      BY <2>2, <1>0, <1>1
    <3>2. runs'[k] = runs[k]
      BY <3>1, <1>1
    <3>3. /\ Busy(runs[k]) => /\ Len(runs[k].turn.stmt) = 1
                              /\ runs[k].turn.aid \in 1..(nextId - 1)
          /\ Busy(runs[k])
      BY <3>1 DEF FramesInv, FramesOK
    <3> QED BY <3>2, <3>3
  <2> QED BY <2>1, <2>2
<1>3. FramesOK'
  BY <1>2 DEF FramesOK, Busy
<1> QED BY <1>0, <1>1, <1>3 DEF FramesInv

\* Nothing changes in the frames.
LEMMA KeepFrames ==
  ASSUME FramesInv, runs' = runs,
         nextId \in Nat, nextId' \in Nat, nextId <= nextId'
  PROVE  FramesInv'
BY DEF FramesInv, FramesOK, Busy

-----------------------------------------------------------------------------
(* The builtins keep the types, whoever calls them. *)

\* What a builtin leaves as it was.
SameActor ==
  /\ executing'.id = executing.id
  /\ current' = current
  /\ nextId' >= nextId
  /\ DOMAIN actors' \subseteq DOMAIN actors \cup {nextId}

LEMMA EnvelopeType ==
  ASSUME StateOK, HistoryOK, NEW n \in Int
  PROVE  Envelope(n) \in Env
BY AsPriorityType DEF Envelope, Env, StateOK, HistoryOK

LEMMA SendTypes ==
  ASSUME StateOK, HistoryOK, NEW to \in Nat, NEW n \in Int, ActorSend(to, n)
  PROVE  StateOK' /\ HistoryOK' /\ SameActor
<1>1. nextId' = nextId /\ current' = current /\ consumed' = consumed /\ bound' = bound
  BY DEF ActorSend
<1>2. ticket' = ticket + 1
  BY DEF ActorSend
<1>3. Envelope(n) \in Env /\ AsPriority(n) \in Int
  BY EnvelopeType, AsPriorityType
<1>4. ASSUME to \in DOMAIN actors,
             actors' = [actors EXCEPT ![to] = Deliver(@, Envelope(n))],
             Accept(to, n), UNCHANGED executing
      PROVE  StateOK' /\ HistoryOK' /\ SameActor
  <2>1. Deliver(actors[to], Envelope(n)) \in ActorIn({to})
    BY <1>3, <1>4, DeliverType DEF StateOK
  <2>2. /\ DOMAIN actors' = DOMAIN actors
        /\ \A i \in DOMAIN actors :
             actors'[i] = IF i = to THEN Deliver(actors[to], Envelope(n)) ELSE actors[i]
    BY <1>4
  <2>3. StateOK'
    BY <1>1, <1>4, <2>1, <2>2 DEF StateOK
  <2>4. HistoryOK'
    BY <1>1, <1>2, <1>3, <1>4 DEF HistoryOK, Accept
  <2> QED BY <1>1, <1>4, <2>3, <2>4 DEF SameActor, StateOK
<1>5. ASSUME executing # Nobody,
             executing' = Deliver(executing, Envelope(n)),
             Accept(to, n), UNCHANGED actors
      PROVE  StateOK' /\ HistoryOK' /\ SameActor
  <2>1. executing \in ActorIn(1..(nextId - 1))
    BY <1>5 DEF StateOK
  <2>2. executing' \in ActorIn(1..(nextId - 1)) /\ executing'.id = executing.id
    BY <1>3, <1>5, <2>1, DeliverType
  <2>3. StateOK'
    BY <1>1, <1>5, <2>2 DEF StateOK
  <2>4. HistoryOK'
    BY <1>1, <1>2, <1>3, <1>5 DEF HistoryOK, Accept
  <2> QED BY <1>1, <1>5, <2>2, <2>3, <2>4 DEF SameActor, StateOK
<1>6. ASSUME NEW d \in BOOLEAN, Refuse(d)
      PROVE  StateOK' /\ HistoryOK' /\ SameActor
  BY <1>1, <1>2, <1>6 DEF Refuse, StateOK, HistoryOK, SameActor
<1> QED BY <1>4, <1>5, <1>6 DEF ActorSend

\* Both kinds of receive.
LEMMA ConsumeTypes ==
  ASSUME StateOK, HistoryOK, executing # Nobody, executing.mailbox # << >>,
         NEW value, NEW after \in BOOLEAN, Consume(value, after),
         UNCHANGED <<current, nextId, ticket, accepted, refused, bound>>
  PROVE  StateOK' /\ HistoryOK' /\ SameActor /\ value \in Nat
<1> DEFINE mb == executing.mailbox
<1>1. executing \in ActorIn(1..(nextId - 1))
  BY DEF StateOK
<1>2. mb \in Seq(Env) /\ mb # << >>
  BY <1>1 DEF ActorIn, Env
<1>3. Head(mb) \in Env /\ Tail(mb) \in Seq(Env)
  BY <1>2
<1>4. /\ value = Head(mb).ticket
      /\ executing' = [executing EXCEPT !.mailbox = Tail(mb), !.parked = after]
      /\ consumed' = Append(consumed, [ticket |-> Head(mb).ticket, to |-> executing.id,
                                       priority |-> Head(mb).priority])
      /\ actors' = actors /\ diagnostics' = diagnostics
  BY DEF Consume
<1> HIDE DEF mb
<1>5. executing' \in ActorIn(1..(nextId - 1)) /\ executing'.id = executing.id
  BY <1>1, <1>3, <1>4 DEF ActorIn, Env
<1>6. StateOK'
  BY <1>4, <1>5 DEF StateOK
<1>7. [ticket |-> Head(mb).ticket, to |-> executing.id, priority |-> Head(mb).priority]
        \in [ticket : Nat, to : Nat, priority : Int]
  <2>1. executing.id \in Nat
    BY <1>1 DEF ActorIn, StateOK
  <2>2. Head(mb).ticket \in Nat /\ Head(mb).priority \in Int
    BY <1>3 DEF Env
  <2> QED BY <2>1, <2>2
<1>8. HistoryOK'
  BY <1>4, <1>7 DEF HistoryOK
<1> QED BY <1>3, <1>4, <1>5, <1>6, <1>8 DEF SameActor, StateOK, Env

LEMMA ParkTypes ==
  ASSUME StateOK, HistoryOK, executing # Nobody, NEW value, Park(value),
         UNCHANGED <<current, nextId, ticket, accepted, refused, bound>>
  PROVE  StateOK' /\ HistoryOK' /\ SameActor /\ value = NoValue
<1>1. executing \in ActorIn(1..(nextId - 1))
  BY DEF StateOK
<1>2. executing' \in ActorIn(1..(nextId - 1)) /\ executing'.id = executing.id
  BY <1>1 DEF Park, ActorIn
<1> QED BY <1>2 DEF Park, StateOK, HistoryOK, SameActor

LEMMA NoContextTypes ==
  ASSUME StateOK, HistoryOK, NEW value, NoActorContext(value),
         UNCHANGED <<current, nextId, ticket, accepted, refused, bound>>
  PROVE  StateOK' /\ HistoryOK' /\ SameActor /\ value = NoValue
BY DEF NoActorContext, StateOK, HistoryOK, SameActor

LEMMA ReceiveTypes ==
  ASSUME StateOK, HistoryOK, NEW value,
         ActorReceive(value) \/ ActorReceiveEnvelope(value)
  PROVE  StateOK' /\ HistoryOK' /\ SameActor /\ value \in Nat \cup {NoValue}
<1>1. UNCHANGED <<current, nextId, ticket, accepted, refused, bound>>
  BY DEF ActorReceive, ActorReceiveEnvelope
<1>2. executing # Nobody => executing.parked \in BOOLEAN
  BY DEF StateOK, ActorIn
<1>3. \/ NoActorContext(value)
      \/ /\ executing # Nobody /\ executing.mailbox # << >>
         /\ Consume(value, FALSE) \/ Consume(value, executing.parked)
      \/ executing # Nobody /\ Park(value)
  BY DEF ActorReceive, ActorReceiveEnvelope
<1> QED BY <1>1, <1>2, <1>3, ConsumeTypes, ParkTypes, NoContextTypes

LEMMA LimitTypes ==
  ASSUME StateOK, HistoryOK, NEW to, NEW n \in Int, ActorSetMailboxLimit(to, n)
  PROVE  StateOK' /\ HistoryOK' /\ SameActor
<1>1. UNCHANGED <<executing, current, nextId, ticket, accepted, refused, consumed, bound>>
  BY DEF ActorSetMailboxLimit, history
<1>2. CASE to \in DOMAIN actors
  <2> DEFINE lim == AsLimit(n)
  <2>1. lim \in Nat
    BY DEF AsLimit
  <2>2. actors' = [actors EXCEPT ![to] = [actors[to] EXCEPT !.limit = lim]]
        /\ diagnostics' = diagnostics
    BY <1>2 DEF ActorSetMailboxLimit
  <2> HIDE DEF lim
  <2>3. [actors[to] EXCEPT !.limit = lim] \in ActorIn({to})
    BY <1>2, <2>1 DEF StateOK, ActorIn
  <2>4. StateOK'
    BY <1>1, <1>2, <2>2, <2>3 DEF StateOK
  <2>5. HistoryOK'
    BY <1>1, <2>2 DEF HistoryOK
  <2>6. SameActor
    BY <1>1, <2>2 DEF SameActor, StateOK
  <2> QED BY <2>4, <2>5, <2>6
<1>3. CASE to \notin DOMAIN actors
  BY <1>1, <1>3 DEF ActorSetMailboxLimit, StateOK, HistoryOK, SameActor
<1> QED BY <1>2, <1>3

LEMMA SpawnTypes ==
  ASSUME StateOK, HistoryOK, NEW b \in Bodies, SpawnActor(b)
  PROVE  StateOK' /\ HistoryOK' /\ SameActor
<1>1. NewActor(nextId, b) \in ActorIn({nextId})
  <2>1. Program[b] \in Seq(Statement)
    BY ActorsAssumption
  <2>2. << >> \in Seq([ticket : Nat, sender : Nat, priority : Int])
    OBVIOUS
  <2> QED BY <2>1, <2>2, ActorsAssumption DEF NewActor, ActorIn
<1>2. /\ DOMAIN actors' = DOMAIN actors \cup {nextId}
      /\ \A i \in DOMAIN actors' :
           actors'[i] = IF i = nextId THEN NewActor(nextId, b) ELSE actors[i]
  BY DEF SpawnActor, With
<1>3. nextId' = nextId + 1 /\ UNCHANGED <<executing, current, diagnostics, history>>
  BY DEF SpawnActor
<1>4. StateOK'
  <2>1. DOMAIN actors' \subseteq 1..(nextId' - 1)
    BY <1>2, <1>3 DEF StateOK
  <2>2. \A i \in DOMAIN actors' : actors'[i] \in ActorIn({i})
    BY <1>1, <1>2 DEF StateOK
  <2>3. executing' \in ActorIn(1..(nextId' - 1)) \cup {Nobody}
    BY <1>3 DEF StateOK, ActorIn
  <2> QED BY <1>3, <2>1, <2>2, <2>3 DEF StateOK
<1>5. HistoryOK'
  BY <1>3 DEF HistoryOK, history
<1>6. SameActor
  BY <1>2, <1>3 DEF SameActor, StateOK
<1> QED BY <1>4, <1>5, <1>6

-----------------------------------------------------------------------------
(* The type invariant is inductive, one lemma per kind of action. *)

\* A builtin leaves the running actor out of the map.
LEMMA OutKept ==
  ASSUME StateOK, StateOK', RunningIsOut, SameActor
  PROVE  RunningIsOut'
<1>1. executing' # Nobody => executing # Nobody /\ executing.id \in 1..(nextId - 1)
  BY DEF StateOK, ActorIn, Nobody, SameActor
<1>2. nextId \in Nat /\ current \in 0..(nextId - 1)
  BY DEF StateOK
<1> QED BY <1>1, <1>2 DEF RunningIsOut, SameActor

\* The innermost frame goes on with the same turn.
LEMMA ExecutingKept ==
  ASSUME StateOK, StateOK', ExecutingOK, runs # << >>, Len(runs) \in Nat,
         Len(runs) >= 1, Len(runs') = Len(runs),
         \A k \in 2..Len(runs) : runs'[k] = runs[k],
         runs'[1].turn.aid = runs[1].turn.aid,
         executing'.id = executing.id
  PROVE  ExecutingOK'
<1>1. executing' # Nobody => executing # Nobody
  BY DEF StateOK, ActorIn, Nobody
<1>2. runs' # << >>
  OBVIOUS
<1>3. Len(runs) > 1 => runs'[2] = runs[2]
  OBVIOUS
<1> QED BY <1>1, <1>2, <1>3 DEF ExecutingOK, Busy

\* A builtin of the statement under execution.
LEMMA BuiltinStep ==
  ASSUME TInv, Executing, StateOK', HistoryOK', SameActor, NEW t \in TurnType,
         t.aid = Top.turn.aid, t.stmt = Top.turn.stmt, SetTurn(t)
  PROVE  TInv'
<1>0. runs # << >> /\ Busy(Top)
  BY DEF Executing
<1>1. Top \in FrameType /\ Top = runs[1] /\ Len(runs) \in Nat /\ Len(runs) >= 1
  BY <1>0, TopType DEF TInv, FramesInv
<1> DEFINE f == [Top EXCEPT !.turn = t]
<1>2. f \in FrameType /\ f.turn = t
  BY <1>1, TurnUpdate
<1>3. SetTop(f)
  BY DEF SetTurn
<1>4. Len(Top.turn.stmt) = 1 /\ Top.turn.aid \in 1..(nextId - 1)
  BY <1>0, <1>1 DEF TInv, FramesInv, FramesOK
<1>5. nextId \in Nat /\ nextId' \in Nat /\ nextId <= nextId'
  BY DEF TInv, StateOK, SameActor
<1> HIDE DEF f
<1>6. Len(f.turn.stmt) = 1 /\ f.turn.aid \in 1..(nextId' - 1)
  BY <1>2, <1>4, <1>5
<1>7. /\ FramesInv'
      /\ Len(runs') = Len(runs) /\ runs'[1] = f
      /\ \A k \in 2..Len(runs) : runs'[k] = runs[k]
  BY <1>0, <1>2, <1>3, <1>5, <1>6, SetTopOK DEF TInv
<1>8. runs'[1].turn.aid = runs[1].turn.aid
  BY <1>1, <1>2, <1>7
<1>9. ExecutingOK'
  BY <1>0, <1>1, <1>7, <1>8, ExecutingKept DEF TInv, SameActor
<1> QED BY <1>7, <1>9, OutKept DEF TInv

\* The turn after a builtin was called is a turn.
LEMMA PoppedType ==
  ASSUME TInv, Executing, Top.turn.ops # << >>
  PROVE  /\ Top.turn \in TurnType
         /\ NextOp \in Operation
         /\ Popped \in TurnType
         /\ Popped.aid = Top.turn.aid /\ Popped.stmt = Top.turn.stmt
<1>1. Top.turn \in TurnType
  BY TopType DEF TInv, FramesInv, Executing, FrameType
<1> DEFINE ops == Top.turn.ops
<1>2. ops \in Seq(Operation) /\ ops # << >>
  BY <1>1 DEF TurnType
<1> HIDE DEF ops
<1>3. Head(ops) \in Operation /\ Tail(ops) \in Seq(Operation)
  BY <1>2
<1>4. Popped = [Top.turn EXCEPT !.ops = Tail(ops)]
  BY DEF Popped, ops
<1>5. Popped \in TurnType /\ Popped.aid = Top.turn.aid /\ Popped.stmt = Top.turn.stmt
  BY <1>1, <1>3, <1>4 DEF TurnType
<1> QED BY <1>1, <1>3, <1>5 DEF NextOp, ops

\* The fields a builtin finds in its operation.
LEMMA OperationFields ==
  ASSUME NEW o \in Operation
  PROVE  /\ o.op = "send" => o.to \in Nat /\ o.priority \in Int
         /\ o.op = "limit" => o.limit \in Int
         /\ o.op = "spawn" => o.body \in Bodies
         /\ o.op = "run" => o.max \in Nat \cup {Unlimited}
BY DEF Operation

LEMMA OperateTypes ==
  ASSUME TInv, OpSend \/ OpReceive \/ OpLimit \/ OpSpawn \/ OpYield \/ OpFail
  PROVE  TInv'
<1>0. StateOK /\ HistoryOK
  BY DEF TInv
<1>1. CASE OpSend
  <2>1. Executing /\ Top.turn.ops # << >> /\ NextOp.op = "send"
    BY <1>1 DEF OpSend, Pending, NextOp
  <2>2. NextOp.to \in Nat /\ NextOp.priority \in Int
    BY <2>1, PoppedType, OperationFields
  <2>3. ActorSend(NextOp.to, NextOp.priority) /\ SetTurn(Popped)
    BY <1>1 DEF OpSend, PopOp
  <2>4. StateOK' /\ HistoryOK' /\ SameActor
    BY <1>0, <2>2, <2>3, SendTypes
  <2> QED BY <2>1, <2>3, <2>4, PoppedType, BuiltinStep
<1>2. CASE OpReceive
  <2>1. PICK value \in {NoValue} \cup 0..ticket :
          /\ \/ Pending("receive") /\ ActorReceive(value)
             \/ Pending("receive_envelope") /\ ActorReceiveEnvelope(value)
          /\ SetTurn([Popped EXCEPT !.got = Append(@, value)])
    BY <1>2 DEF OpReceive
  <2>2. Executing /\ Top.turn.ops # << >>
    BY <2>1 DEF Pending
  <2>3. StateOK' /\ HistoryOK' /\ SameActor /\ value \in Nat \cup {NoValue}
    BY <1>0, <2>1, ReceiveTypes
  <2>4. Popped \in TurnType /\ Popped.aid = Top.turn.aid /\ Popped.stmt = Top.turn.stmt
    BY <2>2, PoppedType
  <2> DEFINE t == [Popped EXCEPT !.got = Append(@, value)]
  <2>5. t \in TurnType /\ t.aid = Top.turn.aid /\ t.stmt = Top.turn.stmt
    <3>1. Append(Popped.got, value) \in Seq(Nat \cup {NoValue})
      BY <2>3, <2>4, AppendProperties DEF TurnType
    <3> QED BY <3>1, <2>4 DEF TurnType
  <2>6. SetTurn(t)
    BY <2>1
  <2> HIDE DEF t
  <2> QED BY <2>2, <2>3, <2>5, <2>6, BuiltinStep
<1>3. CASE OpLimit
  <2>1. Executing /\ Top.turn.ops # << >> /\ NextOp.op = "limit"
    BY <1>3 DEF OpLimit, Pending, NextOp
  <2>2. NextOp.limit \in Int
    BY <2>1, PoppedType, OperationFields
  <2>3. ActorSetMailboxLimit(NextOp.to, NextOp.limit) /\ SetTurn(Popped)
    BY <1>3 DEF OpLimit, PopOp
  <2>4. StateOK' /\ HistoryOK' /\ SameActor
    BY <1>0, <2>2, <2>3, LimitTypes
  <2> QED BY <2>1, <2>3, <2>4, PoppedType, BuiltinStep
<1>4. CASE OpSpawn
  <2>1. Executing /\ Top.turn.ops # << >> /\ NextOp.op = "spawn"
    BY <1>4 DEF OpSpawn, Pending, NextOp
  <2>2. NextOp.body \in Bodies
    BY <2>1, PoppedType, OperationFields
  <2>3. SpawnActor(NextOp.body) /\ SetTurn(Popped)
    BY <1>4 DEF OpSpawn, PopOp
  <2>4. StateOK' /\ HistoryOK' /\ SameActor
    BY <1>0, <2>2, <2>3, SpawnTypes
  <2> QED BY <2>1, <2>3, <2>4, PoppedType, BuiltinStep
<1>5. ASSUME UNCHANGED <<actors, executing, current, nextId, diagnostics, history>>
      PROVE  StateOK' /\ HistoryOK' /\ SameActor
  BY <1>0, <1>5 DEF StateOK, HistoryOK, SameActor, history
<1>6. CASE OpYield
  <2>1. Executing /\ Top.turn.ops # << >> /\ SetTurn(Popped)
    BY <1>6 DEF OpYield, Pending, PopOp
  <2>2. StateOK' /\ HistoryOK' /\ SameActor
    BY <1>5, <1>6 DEF OpYield
  <2> QED BY <2>1, <2>2, PoppedType, BuiltinStep
<1>7. CASE OpFail
  <2>1. Executing /\ Top.turn.ops # << >>
    BY <1>7 DEF OpFail, Pending
  <2> DEFINE t == [Top.turn EXCEPT !.ops = << >>, !.failed = TRUE]
  <2>2. Top.turn \in TurnType
    BY <2>1, PoppedType
  <2>3. t \in TurnType /\ t.aid = Top.turn.aid /\ t.stmt = Top.turn.stmt
    <3>1. << >> \in Seq(Operation)
      OBVIOUS
    <3> QED BY <2>2, <3>1 DEF TurnType
  <2>4. SetTurn(t)
    BY <1>7 DEF OpFail
  <2>5. StateOK' /\ HistoryOK' /\ SameActor
    BY <1>5, <1>7 DEF OpFail
  <2> HIDE DEF t
  <2> QED BY <2>1, <2>3, <2>4, <2>5, BuiltinStep
<1> QED BY <1>1, <1>2, <1>3, <1>4, <1>6, <1>7

\* A builtin called by the main program: no run is active.
LEMMA HostTypes ==
  ASSUME TInv, HostSend \/ HostLimit \/ HostSpawn
  PROVE  TInv'
<1>0. StateOK /\ HistoryOK /\ FramesInv /\ ExecutingOK /\ RunningIsOut
  BY DEF TInv
<1>1. runs = << >> /\ runs' = runs
  BY DEF HostSend, HostLimit, HostSpawn
<1>2. StateOK' /\ HistoryOK' /\ SameActor
  <2>1. CASE HostSend
    <3>1. PICK to \in 1..nextId, n \in HostPriorities : ActorSend(to, n)
      BY <2>1 DEF HostSend
    <3>2. to \in Nat /\ n \in Int
      BY <1>0, ActorsAssumption DEF StateOK
    <3> QED BY <1>0, <3>1, <3>2, SendTypes
  <2>2. CASE HostLimit
    <3>1. PICK to \in DOMAIN actors, n \in HostLimits : ActorSetMailboxLimit(to, n)
      BY <2>2 DEF HostLimit
    <3>2. n \in Int
      BY ActorsAssumption
    <3> QED BY <1>0, <3>1, <3>2, LimitTypes
  <2>3. CASE HostSpawn
    <3>1. PICK b \in HostBodies : SpawnActor(b)
      BY <2>3 DEF HostSpawn
    <3>2. b \in Bodies
      BY ActorsAssumption
    <3> QED BY <1>0, <3>1, <3>2, SpawnTypes
  <2> QED BY <2>1, <2>2, <2>3
<1>3. executing' = Nobody
  <2>1. executing = Nobody
    BY <1>0, <1>1 DEF ExecutingOK
  <2> QED BY <1>0, <1>2, <2>1 DEF SameActor, StateOK, ActorIn, Nobody
<1>4. FramesInv'
  BY <1>0, <1>1, <1>2, KeepFrames DEF SameActor, StateOK
<1>5. ExecutingOK'
  BY <1>3 DEF ExecutingOK
<1> QED BY <1>0, <1>2, <1>4, <1>5, OutKept DEF TInv

\* A new frame on top of the others.
LEMMA FrameInFrameType ==
  ASSUME StateOK, NEW max \in Nat \cup {Unlimited}
  PROVE  Frame(max) \in FrameType /\ Frame(max).turn.aid = 0
BY NoTurnType DEF Frame, FrameType, StateOK

LEMMA HostRunTypes ==
  ASSUME TInv, HostRun
  PROVE  TInv'
<1>0. StateOK /\ HistoryOK /\ FramesInv /\ ExecutingOK /\ RunningIsOut
  BY DEF TInv
<1>1. PICK max \in HostSteps : runs = << >> /\ runs' = <<Frame(max)>>
  BY DEF HostRun
<1>2. UNCHANGED <<actors, executing, current, nextId, diagnostics, history>>
  BY DEF HostRun
<1>3. StateOK' /\ HistoryOK' /\ SameActor
  BY <1>0, <1>2 DEF StateOK, HistoryOK, SameActor, history
<1>4. Frame(max) \in FrameType /\ Frame(max).turn.aid = 0
  BY <1>0, ActorsAssumption, FrameInFrameType
<1>5. runs' \in Seq(FrameType) /\ Len(runs') = 1 /\ runs'[1].turn.aid = 0
  BY <1>1, <1>4
<1>6. FramesInv'
  BY <1>5 DEF FramesInv, FramesOK, Busy
<1>7. ExecutingOK'
  BY <1>0, <1>1, <1>2 DEF ExecutingOK
<1> QED BY <1>0, <1>3, <1>6, <1>7, OutKept DEF TInv

\* The scheduler replaces its frame by one that executes nothing, or by
\* itself, and the map and executing_actor stay as they are.
LEMMA NewPassTypes ==
  ASSUME TInv, NEW aid, NewPass \/ DropListed(aid)
  PROVE  TInv'
<1>0. StateOK /\ HistoryOK /\ FramesInv /\ ExecutingOK /\ RunningIsOut
  BY DEF TInv
<1>1. runs # << >> /\ ~Busy(Top)
  BY DEF NewPass, DropListed, IsNext, Scheduling
<1>2. Top \in FrameType /\ Top = runs[1] /\ Len(runs) \in Nat /\ Len(runs) >= 1
  BY <1>0, <1>1, TopType DEF FramesInv
<1>3. UNCHANGED <<actors, executing, current, nextId, diagnostics, history>>
  BY DEF NewPass, DropListed
<1>4. StateOK' /\ HistoryOK' /\ SameActor
  BY <1>0, <1>3 DEF StateOK, HistoryOK, SameActor, history
<1>5. PICK f \in FrameType : SetTop(f) /\ f.turn = Top.turn
  <2>1. CASE NewPass
    <3> DEFINE g == [Top EXCEPT !.cursor = 0, !.progress = FALSE]
    <3>1. g \in FrameType /\ g.turn = Top.turn
      BY <1>2 DEF FrameType
    <3> QED BY <2>1, <3>1 DEF NewPass
  <2>2. CASE DropListed(aid)
    <3> DEFINE g == [Top EXCEPT !.ids = @ \ {aid}]
    <3>1. g \in FrameType /\ g.turn = Top.turn
      BY <1>2 DEF FrameType
    <3> QED BY <2>2, <3>1 DEF DropListed
  <2> QED BY <2>1, <2>2
<1>6. ~Busy(f)
  BY <1>1, <1>5 DEF Busy
<1>7. /\ FramesInv'
      /\ Len(runs') = Len(runs) /\ runs'[1] = f
      /\ \A k \in 2..Len(runs) : runs'[k] = runs[k]
  BY <1>0, <1>1, <1>3, <1>5, <1>6, SetTopOK DEF StateOK
<1>8. ExecutingOK'
  BY <1>0, <1>1, <1>2, <1>3, <1>4, <1>5, <1>7, ExecutingKept
<1> QED BY <1>0, <1>4, <1>7, <1>8, OutKept DEF TInv

\* A skipped actor and an empty turn leave executing_actor empty.
LEMMA SkipTypes ==
  ASSUME TInv, NEW aid, SkipActor(aid) \/ EmptyTurn(aid)
  PROVE  TInv'
<1>0. StateOK /\ HistoryOK /\ FramesInv /\ ExecutingOK /\ RunningIsOut
  BY DEF TInv
<1>1. runs # << >> /\ ~Busy(Top) /\ aid \in DOMAIN actors
  BY DEF SkipActor, EmptyTurn, IsNext, Scheduling, Ready
<1>2. Top \in FrameType
  BY <1>0, <1>1, TopType DEF FramesInv
<1>3. aid \in Nat
  BY <1>0, <1>1 DEF StateOK
<1>4. /\ executing' = Nobody
      /\ current' = current \/ current' = 0
      /\ UNCHANGED <<actors, nextId, diagnostics, history>>
  BY DEF SkipActor, EmptyTurn
<1>5. StateOK' /\ HistoryOK' /\ RunningIsOut'
  BY <1>0, <1>4 DEF StateOK, HistoryOK, RunningIsOut, history
<1>6. PICK f \in FrameType : SetTop(f) /\ f.turn = Top.turn
  <2>1. CASE SkipActor(aid)
    <3> DEFINE g == [Top EXCEPT !.cursor = aid]
    <3>1. g \in FrameType /\ g.turn = Top.turn
      BY <1>2, <1>3 DEF FrameType
    <3> QED BY <2>1, <3>1 DEF SkipActor
  <2>2. CASE EmptyTurn(aid)
    <3> DEFINE g == [Top EXCEPT !.cursor = aid, !.steps = Counted(Top)]
    <3>0. Counted(Top) \in Nat
      BY <1>2 DEF FrameType, Counted
    <3>1. g \in FrameType /\ g.turn = Top.turn
      BY <1>2, <1>3, <3>0 DEF FrameType
    <3> QED BY <2>2, <3>1 DEF EmptyTurn
  <2> QED BY <2>1, <2>2
<1>7. ~Busy(f)
  BY <1>1, <1>6 DEF Busy
<1>8. FramesInv'
  BY <1>0, <1>1, <1>4, <1>6, <1>7, SetTopOK DEF StateOK
<1>9. ExecutingOK'
  BY <1>4 DEF ExecutingOK
<1> QED BY <1>5, <1>8, <1>9 DEF TInv

\* A statement begins: the actor goes from the map to executing_actor.
LEMMA BeginTypes ==
  ASSUME TInv, NEW aid, BeginStatement(aid)
  PROVE  TInv'
<1>0. StateOK /\ HistoryOK /\ FramesInv /\ ExecutingOK /\ RunningIsOut
  BY DEF TInv
<1>1. /\ runs # << >> /\ aid \in DOMAIN actors
      /\ nextId' = nextId /\ current' = aid
      /\ UNCHANGED <<diagnostics, history>>
  BY DEF BeginStatement, IsNext, Scheduling, Ready
<1>2. Top \in FrameType
  BY <1>0, <1>1, TopType DEF FramesInv
<1>3. actors[aid] \in ActorIn({aid}) /\ aid \in 1..(nextId - 1) /\ nextId \in Nat
  BY <1>0, <1>1 DEF StateOK
<1> DEFINE body == actors[aid].body
           stmt == Head(body)
           t == [aid |-> aid, stmt |-> <<stmt>>, ops |-> stmt.ops,
                 got |-> << >>, failed |-> FALSE]
<1>4. body \in Seq(Statement) /\ body # << >>
  BY <1>3 DEF BeginStatement, ActorIn
<1>5. stmt \in Statement /\ Tail(body) \in Seq(Statement)
  <2> HIDE DEF body
  <2> QED BY <1>4
<1>6. /\ executing' = [actors[aid] EXCEPT !.body = Tail(body)]
      /\ actors' = Without({aid})
      /\ SetTurn(t)
  BY DEF BeginStatement
<1> HIDE DEF body
<1>7. executing' \in ActorIn(1..(nextId - 1)) /\ executing'.id = aid
  BY <1>3, <1>5, <1>6 DEF ActorIn
<1>8. /\ DOMAIN actors' = DOMAIN actors \ {aid}
      /\ \A i \in DOMAIN actors' : actors'[i] = actors[i]
  BY <1>6 DEF Without
<1>9. StateOK'
  <2>1. \A i \in DOMAIN actors' : actors'[i] \in ActorIn({i})
    BY <1>0, <1>8 DEF StateOK
  <2>2. DOMAIN actors' \subseteq 1..(nextId' - 1)
    BY <1>0, <1>1, <1>8 DEF StateOK
  <2> QED BY <1>1, <1>3, <1>7, <2>1, <2>2 DEF StateOK
<1>10. HistoryOK' /\ RunningIsOut'
  BY <1>0, <1>1, <1>7, <1>8 DEF HistoryOK, RunningIsOut, history
<1> HIDE DEF stmt
<1>11. t \in TurnType /\ t.aid = aid /\ t.stmt = <<stmt>> /\ Len(t.stmt) = 1
  <2>1. stmt.ops \in Seq(Operation)
    BY <1>5 DEF Statement
  <2>2. << >> \in Seq(Nat \cup {NoValue}) /\ <<stmt>> \in Seq(Statement)
    BY <1>5
  <2>3. aid \in Nat
    BY <1>3
  <2> QED BY <2>1, <2>2, <2>3 DEF TurnType
<1> HIDE DEF t
<1> DEFINE f == [Top EXCEPT !.turn = t]
<1>12. f \in FrameType /\ f.turn = t /\ SetTop(f)
  BY <1>2, <1>6, <1>11, TurnUpdate DEF SetTurn
<1> HIDE DEF f
<1>13. FramesInv' /\ runs'[1] = f
  <2>1. Busy(f) => Len(f.turn.stmt) = 1 /\ f.turn.aid \in 1..(nextId' - 1)
    BY <1>1, <1>3, <1>11, <1>12
  <2> QED BY <1>0, <1>1, <1>3, <1>12, <2>1, SetTopOK
<1>14. ExecutingOK'
  <2>1. runs' # << >>
    BY <1>12 DEF SetTop
  <2>2. runs'[1].turn.aid = aid /\ aid # 0
    BY <1>3, <1>11, <1>12, <1>13
  <2> QED BY <1>7, <2>1, <2>2 DEF ExecutingOK, Busy
<1> QED BY <1>9, <1>10, <1>13, <1>14 DEF TInv

\* A statement ends: the actor goes back into the map.
LEMMA EndStatementTypes ==
  ASSUME TInv, EndStatement
  PROVE  TInv'
<1>0. StateOK /\ HistoryOK /\ FramesInv /\ ExecutingOK /\ RunningIsOut
  BY DEF TInv
<1>1. runs # << >> /\ Busy(Top)
  BY DEF EndStatement, Executing
<1>2. Top \in FrameType /\ Top = runs[1] /\ Len(runs) \in Nat /\ Len(runs) >= 1
  BY <1>0, <1>1, TopType DEF FramesInv
<1>3. Top.turn \in TurnType /\ Top.turn.aid \in 1..(nextId - 1)
  BY <1>0, <1>1, <1>2 DEF FramesInv, FramesOK, FrameType
<1>4. executing # Nobody => executing.id = Top.turn.aid
  BY <1>0, <1>1, <1>2 DEF ExecutingOK
<1>5. /\ executing' = Nobody /\ current' = 0
      /\ UNCHANGED <<nextId, diagnostics, ticket, accepted, refused, consumed>>
  BY DEF EndStatement
<1> DEFINE body == BodyAfter(executing)
           done == FinishedAfter(executing, body)
           a == [executing EXCEPT !.body = body, !.finished = done]
<1>6. actors' = IF executing = Nobody THEN actors ELSE With(Top.turn.aid, a)
  BY DEF EndStatement
<1>7. executing # Nobody => a \in ActorIn({Top.turn.aid})
  <2> SUFFICES ASSUME executing # Nobody PROVE a \in ActorIn({Top.turn.aid})
    OBVIOUS
  <2>1. executing \in ActorIn({Top.turn.aid})
    BY <1>0, <1>4 DEF StateOK, ActorIn
  <2>2. body \in Seq(Statement)
    <3>1. executing.body \in Seq(Statement) /\ Top.turn.stmt \in Seq(Statement)
      BY <2>1, <1>3 DEF ActorIn, TurnType
    <3> QED BY <3>1 DEF BodyAfter
  <2>3. done \in BOOLEAN
    BY <2>1 DEF ActorIn, FinishedAfter
  <2> HIDE DEF body, done
  <2> QED BY <2>1, <2>2, <2>3 DEF ActorIn
<1> HIDE DEF a, body, done
<1>8. StateOK'
  <2>1. CASE executing = Nobody
    BY <2>1, <1>0, <1>5, <1>6 DEF StateOK
  <2>2. CASE executing # Nobody
    <3>1. /\ DOMAIN actors' = DOMAIN actors \cup {Top.turn.aid}
          /\ \A i \in DOMAIN actors' :
               actors'[i] = IF i = Top.turn.aid THEN a ELSE actors[i]
      BY <2>2, <1>6 DEF With
    <3>2. \A i \in DOMAIN actors' : actors'[i] \in ActorIn({i})
      BY <2>2, <1>0, <1>7, <3>1 DEF StateOK
    <3>3. DOMAIN actors' \subseteq 1..(nextId' - 1)
      BY <1>0, <1>3, <1>5, <3>1 DEF StateOK
    <3> QED BY <1>0, <1>5, <3>2, <3>3 DEF StateOK
  <2> QED BY <2>1, <2>2
<1>9. HistoryOK'
  <2>1. \/ bound' = bound
        \/ bound' = Append(bound, [actor |-> Top.turn.aid, values |-> Top.turn.got])
    BY DEF EndStatement
  <2>2. [actor |-> Top.turn.aid, values |-> Top.turn.got]
          \in [actor : Nat, values : Seq(Nat \cup {NoValue})]
    BY <1>3 DEF TurnType
  <2>3. bound' \in Seq([actor : Nat, values : Seq(Nat \cup {NoValue})])
    <3> DEFINE B == [actor : Nat, values : Seq(Nat \cup {NoValue})]
               e == [actor |-> Top.turn.aid, values |-> Top.turn.got]
    <3>1. bound \in Seq(B) /\ e \in B
      BY <1>0, <2>2 DEF HistoryOK
    <3>2. bound' = bound \/ bound' = Append(bound, e)
      BY <2>1
    <3> HIDE DEF B, e
    <3>3. bound' \in Seq(B)
      BY <3>1, <3>2, AppendProperties
    <3> QED BY <3>3 DEF B
  <2> QED BY <1>0, <1>5, <2>3 DEF HistoryOK
<1> DEFINE f == [Top EXCEPT !.cursor = Top.turn.aid, !.steps = Counted(Top),
                            !.progress = TRUE, !.turn = NoTurn]
<1>10. f \in FrameType /\ f.turn = NoTurn /\ SetTop(f)
  <2>1. Top.turn.aid \in Nat /\ Counted(Top) \in Nat
    BY <1>2, <1>3 DEF FrameType, TurnType, Counted
  <2> QED BY <1>2, <2>1, NoTurnType DEF FrameType, EndStatement
<1> HIDE DEF f
<1>11. ~Busy(f)
  BY <1>10, NoTurnType DEF Busy
<1>12. FramesInv'
  BY <1>0, <1>1, <1>5, <1>10, <1>11, SetTopOK DEF StateOK
<1>13. ExecutingOK' /\ RunningIsOut'
  BY <1>5 DEF ExecutingOK, RunningIsOut
<1> QED BY <1>8, <1>9, <1>12, <1>13 DEF TInv

\* A run ends: its frame and the finished actors go.
LEMMA EndRunTypes ==
  ASSUME TInv, EndRun
  PROVE  TInv'
<1>0. StateOK /\ HistoryOK /\ FramesInv /\ ExecutingOK /\ RunningIsOut
  BY DEF TInv
<1>1. /\ runs # << >> /\ ~Busy(Top) /\ runs' = Tail(runs)
      /\ UNCHANGED <<executing, current, nextId, diagnostics, history>>
  BY DEF EndRun, Scheduling
<1>2. /\ DOMAIN actors' \subseteq DOMAIN actors
      /\ \A i \in DOMAIN actors' : actors'[i] = actors[i]
  BY DEF EndRun, Without
<1>3. StateOK' /\ HistoryOK' /\ RunningIsOut'
  <2>1. StateOK'
    BY <1>0, <1>1, <1>2 DEF StateOK
  <2>2. HistoryOK'
    BY <1>0, <1>1 DEF HistoryOK, history
  <2>3. RunningIsOut'
    BY <1>0, <1>1, <1>2 DEF RunningIsOut
  <2> QED BY <2>1, <2>2, <2>3
<1>4. /\ runs \in Seq(FrameType) /\ Len(runs) \in Nat
      /\ runs' \in Seq(FrameType) /\ Len(runs') = Len(runs) - 1
      /\ \A k \in 1..Len(runs') : runs'[k] = runs[k + 1]
  BY <1>0, <1>1, HeadTailProperties DEF FramesInv
<1>5. ASSUME NEW k \in 1..Len(runs')
      PROVE  /\ Busy(runs'[k])
             /\ Len(runs'[k].turn.stmt) = 1
             /\ runs'[k].turn.aid \in 1..(nextId' - 1)
  <2>1. k + 1 \in 1..Len(runs) /\ k + 1 > 1
    BY <1>4
  <2>2. /\ Busy(runs[k + 1])
        /\ Len(runs[k + 1].turn.stmt) = 1
        /\ runs[k + 1].turn.aid \in 1..(nextId - 1)
    BY <1>0, <2>1 DEF FramesInv, FramesOK
  <2> QED BY <1>1, <1>4, <2>2
<1>6. FramesOK'
  BY <1>5 DEF FramesOK, Busy
<1>7. ExecutingOK'
  <2> SUFFICES ASSUME executing # Nobody
               PROVE  /\ runs' # << >>
                      /\ Busy(runs'[1])
                      /\ executing.id = runs'[1].turn.aid
    BY <1>1 DEF ExecutingOK, Busy
  <2>1. Top = runs[1]
    BY <1>1, <1>4 DEF Top
  <2>2. Len(runs) > 1 /\ executing.id = runs[2].turn.aid
    BY <1>0, <1>1, <2>1 DEF ExecutingOK
  <2>3. 1 \in 1..Len(runs') /\ 1 + 1 = 2
    BY <1>4, <2>2
  <2>4. runs'[1] = runs[1 + 1]
    BY <1>4, <2>3
  <2>5. Busy(runs'[1])
    BY <1>5, <2>3
  <2>6. runs' # << >>
    BY <1>4, <2>3
  <2> QED BY <2>2, <2>3, <2>4, <2>5, <2>6
<1> QED BY <1>3, <1>4, <1>6, <1>7 DEF TInv, FramesInv

\* A nested run: a new frame over the one of the statement that calls it.
LEMMA OpRunTypes ==
  ASSUME TInv, OpRun
  PROVE  TInv'
<1>0. StateOK /\ HistoryOK /\ FramesInv /\ ExecutingOK /\ RunningIsOut
  BY DEF TInv
<1>1. /\ Executing /\ runs # << >> /\ Busy(Top)
      /\ Top.turn.ops # << >> /\ NextOp.op = "run"
  BY DEF OpRun, Pending, Executing, NextOp
<1>2. Top \in FrameType /\ Top = runs[1] /\ Len(runs) \in Nat /\ Len(runs) >= 1
  BY <1>0, <1>1, TopType DEF FramesInv
<1>3. UNCHANGED <<actors, executing, current, nextId, diagnostics, history>>
  BY DEF OpRun
<1>4. StateOK' /\ HistoryOK' /\ SameActor
  BY <1>0, <1>3 DEF StateOK, HistoryOK, SameActor, history
<1> DEFINE g == Frame(NextOp.max)
           h == [Top EXCEPT !.turn = Popped]
<1>5. g \in FrameType /\ ~Busy(g)
  <2>1. NextOp.max \in Nat \cup {Unlimited}
    BY <1>1, PoppedType, OperationFields
  <2> QED BY <1>0, <2>1, FrameInFrameType DEF Busy
<1>6. /\ h \in FrameType /\ h.turn = Popped
      /\ Popped.aid = Top.turn.aid /\ Popped.stmt = Top.turn.stmt
  BY <1>1, <1>2, PoppedType, TurnUpdate
<1>7. runs' = <<g, h>> \o Tail(runs)
  BY DEF OpRun
<1> HIDE DEF g, h
<1>8. /\ Tail(runs) \in Seq(FrameType) /\ Len(Tail(runs)) = Len(runs) - 1
      /\ \A i \in 1..Len(Tail(runs)) : Tail(runs)[i] = runs[i + 1]
  BY <1>0, <1>1, HeadTailProperties DEF FramesInv
<1>9. <<g, h>> \in Seq(FrameType) /\ Len(<<g, h>>) = 2 /\ <<g, h>>[1] = g /\ <<g, h>>[2] = h
  BY <1>5, <1>6
<1>10. /\ runs' \in Seq(FrameType) /\ Len(runs') = Len(runs) + 1
       /\ \A k \in 1..Len(runs') :
            runs'[k] = IF k <= 2 THEN <<g, h>>[k] ELSE Tail(runs)[k - 2]
  BY <1>2, <1>7, <1>8, <1>9, ConcatProperties
<1>11. runs'[1] = g /\ runs'[2] = h
  BY <1>2, <1>9, <1>10
<1>12. /\ Busy(h) /\ Len(h.turn.stmt) = 1
       /\ h.turn.aid = runs[1].turn.aid /\ h.turn.aid \in 1..(nextId - 1)
  BY <1>0, <1>1, <1>2, <1>6 DEF FramesInv, FramesOK, Busy
<1>13. ASSUME NEW k \in 1..Len(runs')
       PROVE  /\ Busy(runs'[k]) => /\ Len(runs'[k].turn.stmt) = 1
                                   /\ runs'[k].turn.aid \in 1..(nextId' - 1)
              /\ k > 1 => Busy(runs'[k])
  <2>1. CASE k = 1
    BY <2>1, <1>5, <1>11
  <2>2. CASE k = 2
    BY <2>2, <1>3, <1>11, <1>12
  <2>3. CASE k > 2
    <3>1. k - 2 \in 1..Len(Tail(runs)) /\ (k - 2) + 1 = k - 1
          /\ k - 1 \in 1..Len(runs) /\ k - 1 > 1
      BY <2>3, <1>2, <1>8, <1>10
    <3>2. runs'[k] = Tail(runs)[k - 2]
      BY <2>3, <1>10
    <3>3. Tail(runs)[k - 2] = runs[(k - 2) + 1]
      BY <1>8, <3>1
    <3>4. runs'[k] = runs[k - 1]
      BY <3>1, <3>2, <3>3
    <3>5. /\ Busy(runs[k - 1]) /\ Len(runs[k - 1].turn.stmt) = 1
          /\ runs[k - 1].turn.aid \in 1..(nextId - 1)
      BY <1>0, <3>1 DEF FramesInv, FramesOK
    <3> QED BY <1>3, <3>4, <3>5
  <2> QED BY <2>1, <2>2, <2>3
<1>14. FramesInv'
  BY <1>10, <1>13 DEF FramesInv, FramesOK, Busy
<1>15. ExecutingOK'
  <2> SUFFICES ASSUME executing # Nobody
               PROVE  /\ runs' # << >> /\ ~Busy(runs'[1])
                      /\ Len(runs') > 1 /\ executing.id = runs'[2].turn.aid
    BY <1>3 DEF ExecutingOK, Busy
  <2>1. executing.id = runs[1].turn.aid
    BY <1>0, <1>1, <1>2 DEF ExecutingOK
  <2>2. runs' # << >> /\ Len(runs') > 1
    BY <1>2, <1>10
  <2> QED BY <1>5, <1>11, <1>12, <2>1, <2>2
<1> QED BY <1>0, <1>4, <1>14, <1>15, OutKept DEF TInv

LEMMA InitTypes == Init => TInv
<1> SUFFICES ASSUME Init PROVE TInv
  OBVIOUS
<1>1. StateOK
  BY DEF Init, StateOK
<1>2. HistoryOK
  BY DEF Init, HistoryOK
<1>3. FramesInv
  BY DEF Init, FramesInv, FramesOK
<1>4. ExecutingOK /\ RunningIsOut
  BY DEF Init, ExecutingOK, RunningIsOut
<1> QED BY <1>1, <1>2, <1>3, <1>4 DEF TInv

LEMMA NextTypes == TInv /\ [Next]_vars => TInv'
<1> SUFFICES ASSUME TInv, [Next]_vars PROVE TInv'
  OBVIOUS
<1>1. CASE Host
  BY <1>1, HostTypes, HostRunTypes DEF Host
<1>2. CASE Schedule
  BY <1>2, NewPassTypes, SkipTypes, BeginTypes, EndRunTypes DEF Schedule
<1>3. CASE Operate
  BY <1>3, OperateTypes, OpRunTypes, EndStatementTypes DEF Operate
<1>4. CASE UNCHANGED vars
  <2>1. /\ UNCHANGED <<actors, executing, current, nextId, runs, diagnostics>>
        /\ UNCHANGED <<ticket, accepted, refused, consumed, bound>>
    BY <1>4 DEF vars
  <2>2. StateOK' /\ HistoryOK' /\ RunningIsOut'
    BY <2>1 DEF TInv, StateOK, HistoryOK, RunningIsOut
  <2>3. FramesInv' /\ ExecutingOK'
    BY <2>1 DEF TInv, FramesInv, FramesOK, ExecutingOK, Busy
  <2> QED BY <2>2, <2>3 DEF TInv
<1> QED BY <1>1, <1>2, <1>3, <1>4 DEF Next

\* Every state of the runtime has the types of TypeOK: in particular the
\* executing actor is a complete actor state with an allocated identifier,
\* and the nested runs are frames of run_actors_round_robin.
THEOREM TypeCorrect == Spec => []TypeOK
<1>1. TInv => TypeOK
  BY TypeParts DEF TInv, FramesInv
<1> QED BY <1>1, InitTypes, NextTypes, PTL DEF Spec

\* The running actor is never in the map, neither under executing_actor nor
\* under current_actor: the two copies of an actor's state never coexist,
\* and actor_receive's look-up of current_actor in the map finds nothing.
THEOREM RunningOut == Spec => [](ExecutingOK /\ RunningIsOut)
<1>1. TInv => ExecutingOK /\ RunningIsOut
  BY DEF TInv
<1> QED BY <1>1, InitTypes, NextTypes, PTL DEF Spec

-----------------------------------------------------------------------------
(* Mail.                                                                   *)


Receipt == [ticket : Nat, to : Nat, priority : Int]

\* HoldsMail with the number of sends and the receipts as parameters.
Holds(a, t, C) ==
  /\ a.parked => a.mailbox = << >>
  /\ InOrder(a.mailbox)
  /\ \A k \in 1..Len(a.mailbox) :
       /\ a.mailbox[k].ticket < t
       /\ \A j \in 1..Len(C) :
            (C[j].to = a.id /\ C[j].priority = a.mailbox[k].priority)
              => C[j].ticket < a.mailbox[k].ticket

InSendOrder(C) ==
  \A i, j \in 1..Len(C) :
    (i < j /\ C[i].to = C[j].to /\ C[i].priority = C[j].priority)
      => C[i].ticket < C[j].ticket

AllBefore(C, t) == \A j \in 1..Len(C) : C[j].ticket < t

LEMMA MailParts ==
  MailOK <=> /\ \A i \in DOMAIN actors : Holds(actors[i], ticket, consumed)
             /\ Holds(executing, ticket, consumed)
             /\ AllBefore(consumed, ticket)
             /\ InSendOrder(consumed)
BY DEF MailOK, HoldsMail, Holds, AllBefore, InSendOrder, DeliveredInOrder

(* The same in the next state. *)
LEMMA MailPartsNext ==
  /\ \A i \in DOMAIN actors' : Holds(actors'[i], ticket', consumed')
  /\ Holds(executing', ticket', consumed')
  /\ AllBefore(consumed', ticket')
  /\ InSendOrder(consumed')
  => MailOK'
BY DEF MailOK, HoldsMail, Holds, AllBefore, InSendOrder, DeliveredInOrder

\* An actor without mail holds it properly.
LEMMA HoldsEmpty ==
  ASSUME NEW a, NEW t, NEW C, a.mailbox = << >>
  PROVE  Holds(a, t, C)
BY DEF Holds, InOrder

\* Only the mailbox, parked and the identifier matter, and later is as good.
LEMMA HoldsSame ==
  ASSUME NEW a, NEW b, NEW t \in Nat, NEW u \in Nat, NEW C, Holds(a, t, C),
         a.mailbox \in Seq(Env), b.mailbox = a.mailbox,
         b.parked => a.parked, b.id = a.id, t <= u
  PROVE  Holds(b, u, C)
<1> DEFINE mb == a.mailbox
<1>1. mb \in Seq(Env) /\ \A k \in 1..Len(mb) : mb[k].ticket < t
  BY DEF Holds
<1>2. \A k \in 1..Len(mb) : mb[k].ticket < u
  <2> HIDE DEF mb
  <2>1. \A k \in 1..Len(mb) : mb[k] \in Env
    BY <1>1
  <2>2. \A k \in 1..Len(mb) : mb[k].ticket \in Nat
    BY <2>1 DEF Env
  <2> QED BY <1>1, <2>2
<1> QED BY <1>2 DEF Holds

\* A send: the envelope has the youngest ticket.
LEMMA HoldsDeliver ==
  ASSUME NEW Ids, NEW a \in ActorIn(Ids), NEW t \in Nat, NEW C \in Seq(Receipt),
         Holds(a, t, C), AllBefore(C, t), NEW env \in Env, env.ticket = t
  PROVE  Holds(Deliver(a, env), t + 1, C)
<1> DEFINE mb == a.mailbox
           w == LinearInsert(mb, env)
           k == InsertPos(mb, env)
<1>1. mb \in Seq(Env) /\ Len(mb) \in Nat
  BY DEF ActorIn, Env
<1>2. InOrder(mb) /\ \A i \in 1..Len(mb) : mb[i].ticket < t
  BY DEF Holds
<1>3. \A i \in 1..Len(mb) : \A j \in 1..Len(C) :
        (C[j].to = a.id /\ C[j].priority = mb[i].priority) => C[j].ticket < mb[i].ticket
  BY DEF Holds
<1>4. Deliver(a, env).mailbox = w /\ Deliver(a, env).id = a.id /\ ~Deliver(a, env).parked
  BY DEF Deliver, ActorIn
<1> HIDE DEF mb
<1>5. \A e \in Env : e.priority \in Int /\ e.ticket \in Nat
  BY DEF Env
<1>6. InOrder(w)
  BY <1>1, <1>2, <1>5, LinearInsertInOrder
<1>7. /\ Len(w) = Len(mb) + 1 /\ k \in 1..(Len(mb) + 1)
      /\ \A i \in 1..(Len(mb) + 1) :
           w[i] = IF i < k THEN mb[i] ELSE IF i = k THEN env ELSE mb[i - 1]
  BY <1>1, <1>5, LinearInsertProperties
<1> HIDE DEF w, k
<1>8. ASSUME NEW i \in 1..Len(w)
      PROVE  /\ w[i].ticket < t + 1
             /\ \A j \in 1..Len(C) :
                  (C[j].to = a.id /\ C[j].priority = w[i].priority) => C[j].ticket < w[i].ticket
  <2>1. CASE i = k
    <3>1. w[i] = env
      BY <2>1, <1>7
    <3> QED BY <3>1 DEF AllBefore
  <2>2. CASE i < k
    <3>1. i \in 1..Len(mb) /\ w[i] = mb[i]
      BY <2>2, <1>1, <1>7
    <3>2. mb[i].ticket < t /\ mb[i].ticket \in Nat
      BY <3>1, <1>1, <1>2, <1>5
    <3>3. mb[i].ticket < t + 1
      BY <3>2
    <3>4. \A j \in 1..Len(C) :
            (C[j].to = a.id /\ C[j].priority = mb[i].priority)
              => C[j].ticket < mb[i].ticket
      BY <3>1, <1>3
    <3> QED BY <3>1, <3>3, <3>4
  <2>3. CASE i > k
    <3>1. i - 1 \in 1..Len(mb) /\ w[i] = mb[i - 1]
      BY <2>3, <1>1, <1>7
    <3>2. mb[i - 1].ticket < t /\ mb[i - 1].ticket \in Nat
      BY <3>1, <1>1, <1>2, <1>5
    <3>3. mb[i - 1].ticket < t + 1
      BY <3>2
    <3>4. \A j \in 1..Len(C) :
            (C[j].to = a.id /\ C[j].priority = mb[i - 1].priority)
              => C[j].ticket < mb[i - 1].ticket
      BY <3>1, <1>3
    <3> QED BY <3>1, <3>3, <3>4
  <2>4. i = k \/ i < k \/ i > k
    BY <1>1, <1>7
  <2> QED BY <2>1, <2>2, <2>3, <2>4
<1> QED BY <1>4, <1>6, <1>8 DEF Holds

\* A receive: the head of the mailbox becomes the last receipt.
LEMMA HoldsConsume ==
  ASSUME NEW Ids, NEW a \in ActorIn(Ids), NEW t \in Nat, NEW C \in Seq(Receipt),
         Holds(a, t, C), a.mailbox # << >>, NEW r \in Receipt,
         r.to = a.id, r.ticket = Head(a.mailbox).ticket,
         r.priority = Head(a.mailbox).priority,
         NEW b, b.mailbox = Tail(a.mailbox), b.id = a.id, ~b.parked
  PROVE  Holds(b, t, Append(C, r))
<1> DEFINE mb == a.mailbox
<1>1. mb \in Seq(Env) /\ Len(mb) \in Nat /\ mb # << >>
  BY DEF ActorIn, Env
<1>2. InOrder(mb) /\ \A i \in 1..Len(mb) : mb[i].ticket < t
  BY DEF Holds
<1>3. \A i \in 1..Len(mb) : \A j \in 1..Len(C) :
        (C[j].to = a.id /\ C[j].priority = mb[i].priority) => C[j].ticket < mb[i].ticket
  BY DEF Holds
<1>4. b.mailbox = Tail(mb) /\ r.ticket = mb[1].ticket /\ r.priority = mb[1].priority
  BY <1>1
<1> HIDE DEF mb
<1> DEFINE w == Tail(mb)
           D == Append(C, r)
<1>5. /\ w \in Seq(Env) /\ Len(w) = Len(mb) - 1
      /\ \A i \in 1..Len(w) : w[i] = mb[i + 1]
  BY <1>1, HeadTailProperties
<1>6. /\ Len(C) \in Nat /\ Len(D) = Len(C) + 1 /\ D[Len(C) + 1] = r
      /\ \A j \in 1..Len(C) : D[j] = C[j]
  BY AppendProperties
<1> HIDE DEF w, D
<1>7. \A i, j \in 1..Len(mb) :
        i < j => \/ mb[i].priority > mb[j].priority
                 \/ mb[i].priority = mb[j].priority /\ mb[i].ticket < mb[j].ticket
  BY <1>2 DEF InOrder
<1>8. \A i \in 1..Len(w) : i + 1 \in 1..Len(mb)
  BY <1>1, <1>5
<1>9. InOrder(w)
  <2> SUFFICES ASSUME NEW i \in 1..Len(w), NEW j \in 1..Len(w), i < j
               PROVE  \/ w[i].priority > w[j].priority
                      \/ w[i].priority = w[j].priority /\ w[i].ticket < w[j].ticket
    BY DEF InOrder
  <2>1. i + 1 < j + 1 /\ i + 1 \in 1..Len(mb) /\ j + 1 \in 1..Len(mb)
    BY <1>8
  <2> QED BY <2>1, <1>5, <1>7
<1>10. ASSUME NEW i \in 1..Len(w)
       PROVE  /\ w[i].ticket < t
              /\ \A j \in 1..Len(D) :
                   (D[j].to = a.id /\ D[j].priority = w[i].priority) => D[j].ticket < w[i].ticket
  <2>1. i + 1 \in 1..Len(mb) /\ w[i] = mb[i + 1] /\ 1 \in 1..Len(mb) /\ 1 < i + 1
    BY <1>1, <1>5, <1>8
  <2>2. w[i].ticket < t
    BY <2>1, <1>2
  <2>3. ASSUME NEW j \in 1..Len(D), D[j].to = a.id, D[j].priority = w[i].priority
        PROVE  D[j].ticket < w[i].ticket
    <3>1. CASE j \in 1..Len(C)
      BY <3>1, <2>1, <2>3, <1>3, <1>6
    <3>2. CASE j = Len(C) + 1
      <4>1. mb[1].priority \in Int /\ mb[i + 1].priority \in Int
        <5>1. mb[1] \in Env /\ mb[i + 1] \in Env
          BY <2>1, <1>1
        <5> QED BY <5>1 DEF Env
      <4>2. mb[1].priority = mb[i + 1].priority
        BY <3>2, <2>1, <2>3, <1>4, <1>6
      <4>3. mb[1].ticket < mb[i + 1].ticket
        BY <2>1, <4>1, <4>2, <1>7
      <4> QED BY <3>2, <4>3, <2>1, <1>4, <1>6
    <3> QED BY <3>1, <3>2, <1>6
  <2> QED BY <2>2, <2>3
<1> QED BY <1>4, <1>9, <1>10 DEF Holds, w, D

\* A receipt of another actor does not matter.
LEMMA HoldsOther ==
  ASSUME NEW a, NEW t, NEW C \in Seq(Receipt), Holds(a, t, C),
         NEW r \in Receipt, r.to # a.id
  PROVE  Holds(a, t, Append(C, r))
<1> DEFINE D == Append(C, r)
<1>1. /\ Len(C) \in Nat /\ Len(D) = Len(C) + 1 /\ D[Len(C) + 1] = r
      /\ \A j \in 1..Len(C) : D[j] = C[j]
  BY AppendProperties
<1> HIDE DEF D
<1>2. \A j \in 1..Len(D) : j \in 1..Len(C) \/ j = Len(C) + 1
  BY <1>1
<1>3. \A k \in 1..Len(a.mailbox) : \A j \in 1..Len(D) :
        (D[j].to = a.id /\ D[j].priority = a.mailbox[k].priority)
          => D[j].ticket < a.mailbox[k].ticket
  BY <1>1, <1>2 DEF Holds
<1> QED BY <1>3 DEF Holds, D

\* The receipts stay in the order of their sends.
LEMMA ReceiptsInOrder ==
  ASSUME NEW C \in Seq(Receipt), NEW r \in Receipt, NEW t \in Nat,
         InSendOrder(C), AllBefore(C, t), r.ticket < t,
         \A j \in 1..Len(C) :
           (C[j].to = r.to /\ C[j].priority = r.priority) => C[j].ticket < r.ticket
  PROVE  InSendOrder(Append(C, r)) /\ AllBefore(Append(C, r), t)
<1> DEFINE D == Append(C, r)
<1>1. /\ Len(C) \in Nat /\ Len(D) = Len(C) + 1 /\ D[Len(C) + 1] = r
      /\ \A j \in 1..Len(C) : D[j] = C[j]
  BY AppendProperties
<1> HIDE DEF D
<1>2. \A j \in 1..Len(D) : j \in 1..Len(C) \/ j = Len(C) + 1
  BY <1>1
<1>3. AllBefore(D, t)
  BY <1>1, <1>2 DEF AllBefore
<1>4. ASSUME NEW i \in 1..Len(D), NEW j \in 1..Len(D), i < j,
             D[i].to = D[j].to, D[i].priority = D[j].priority
      PROVE  D[i].ticket < D[j].ticket
  <2>1. i \in 1..Len(C)
    BY <1>1, <1>4
  <2>2. CASE j \in 1..Len(C)
    BY <2>1, <2>2, <1>1, <1>4 DEF InSendOrder
  <2>3. CASE j = Len(C) + 1
    BY <2>1, <2>3, <1>1, <1>4
  <2> QED BY <2>2, <2>3, <1>2
<1>5. InSendOrder(D)
  BY <1>4 DEF InSendOrder
<1> QED BY <1>3, <1>5 DEF D

-----------------------------------------------------------------------------
(* MailOK is preserved, one lemma per kind of step. *)

LEMMA MailTypes ==
  ASSUME StateOK, HistoryOK
  PROVE  /\ \A i \in DOMAIN actors : actors[i] \in ActorIn({i}) /\ actors[i].mailbox \in Seq(Env)
                                     /\ actors[i].id = i
         /\ executing.mailbox \in Seq(Env)
         /\ executing # Nobody => executing \in ActorIn(1..(nextId - 1))
         /\ ticket \in Nat /\ consumed \in Seq(Receipt)
<1>1. \A i \in DOMAIN actors : actors[i] \in ActorIn({i})
  BY DEF StateOK
<1>2. executing # Nobody => executing \in ActorIn(1..(nextId - 1))
  BY DEF StateOK
<1>3. Nobody.mailbox \in Seq(Env)
  BY DEF Nobody
<1>4. executing.mailbox \in Seq(Env)
  BY <1>2, <1>3 DEF ActorIn, Env
<1>5. \A i \in DOMAIN actors : actors[i].mailbox \in Seq(Env) /\ actors[i].id = i
  BY <1>1 DEF ActorIn, Env
<1>6. ticket \in Nat /\ consumed \in Seq(Receipt)
  BY DEF HistoryOK, Receipt
<1> QED BY <1>1, <1>2, <1>4, <1>5, <1>6

\* No message is sent or received, and every state has the mail of a state
\* that was there before, or none.
LEMMA MailKept ==
  ASSUME StateOK, HistoryOK, MailOK, ticket' = ticket, consumed' = consumed,
         \A i \in DOMAIN actors' : Holds(actors'[i], ticket, consumed),
         Holds(executing', ticket, consumed)
  PROVE  MailOK'
BY MailParts DEF MailOK, HoldsMail, Holds, DeliveredInOrder

LEMMA SendMail ==
  ASSUME StateOK, HistoryOK, MailOK, NEW to \in Nat, NEW n \in Int, ActorSend(to, n)
  PROVE  MailOK'
<1>1. consumed' = consumed /\ ticket' = ticket + 1
  BY DEF ActorSend
<1>2. ticket \in Nat /\ consumed \in Seq(Receipt) /\ ticket' \in Nat /\ ticket <= ticket'
  BY <1>1, MailTypes
<1>3. AllBefore(consumed, ticket) /\ InSendOrder(consumed)
  BY MailParts
<1>4. AllBefore(consumed, ticket')
  <2>1. \A j \in 1..Len(consumed) : consumed[j].ticket \in Nat
    <3>1. \A j \in 1..Len(consumed) : consumed[j] \in Receipt
      BY <1>2
    <3> QED BY <3>1 DEF Receipt
  <2> QED BY <1>1, <1>2, <1>3, <2>1 DEF AllBefore
<1>5. Envelope(n) \in Env /\ Envelope(n).ticket = ticket
  BY EnvelopeType DEF Envelope
<1>6. \A i \in DOMAIN actors : Holds(actors[i], ticket', consumed)
  BY <1>2, MailParts, MailTypes, HoldsSame
<1>7. Holds(executing, ticket', consumed)
  BY <1>2, MailParts, MailTypes, HoldsSame
<1>8. ASSUME \A i \in DOMAIN actors' : Holds(actors'[i], ticket', consumed),
             Holds(executing', ticket', consumed)
      PROVE  MailOK'
  <2>1. consumed' = consumed
    BY <1>1
  <2> QED BY <1>3, <1>4, <1>8, <2>1, MailPartsNext
<1>9. ASSUME to \in DOMAIN actors, UNCHANGED executing,
             actors' = [actors EXCEPT ![to] = Deliver(@, Envelope(n))]
      PROVE  MailOK'
  <2>1. actors[to] \in ActorIn({to}) /\ Holds(actors[to], ticket, consumed)
    BY <1>9, MailTypes, MailParts
  <2>2. Holds(Deliver(actors[to], Envelope(n)), ticket + 1, consumed)
    BY <2>1, <1>2, <1>3, <1>5, HoldsDeliver
  <2>3. /\ DOMAIN actors' = DOMAIN actors
        /\ \A i \in DOMAIN actors' :
             actors'[i] = IF i = to THEN Deliver(actors[to], Envelope(n)) ELSE actors[i]
    BY <1>9
  <2>4. \A i \in DOMAIN actors' : Holds(actors'[i], ticket', consumed)
    BY <1>1, <1>6, <2>2, <2>3
  <2> QED BY <1>7, <1>8, <1>9, <2>4
<1>10. ASSUME executing # Nobody, UNCHANGED actors,
              executing' = Deliver(executing, Envelope(n))
       PROVE  MailOK'
  <2>1. executing \in ActorIn(1..(nextId - 1)) /\ Holds(executing, ticket, consumed)
    BY <1>10, MailTypes, MailParts
  <2>2. Holds(Deliver(executing, Envelope(n)), ticket + 1, consumed)
    BY <2>1, <1>2, <1>3, <1>5, HoldsDeliver
  <2> QED BY <1>1, <1>6, <1>8, <1>10, <2>2
<1>11. ASSUME UNCHANGED <<actors, executing>> PROVE MailOK'
  BY <1>6, <1>7, <1>8, <1>11
<1> QED BY <1>9, <1>10, <1>11 DEF ActorSend, Refuse

LEMMA ReceiveMail ==
  ASSUME StateOK, HistoryOK, RunningIsOut, MailOK, NEW value,
         ActorReceive(value) \/ ActorReceiveEnvelope(value)
  PROVE  MailOK'
<1>1. ticket' = ticket
  BY DEF ActorReceive, ActorReceiveEnvelope
<1>2. /\ ticket \in Nat /\ consumed \in Seq(Receipt)
      /\ \A i \in DOMAIN actors : Holds(actors[i], ticket, consumed) /\ actors[i].id = i
      /\ Holds(executing, ticket, consumed)
      /\ AllBefore(consumed, ticket) /\ InSendOrder(consumed)
  BY MailTypes, MailParts
<1>3. ASSUME NEW after, Consume(value, after), executing # Nobody, ~after,
             executing.mailbox # << >>
      PROVE  MailOK'
  <2> DEFINE mb == executing.mailbox
             r == [ticket |-> Head(mb).ticket, to |-> executing.id,
                   priority |-> Head(mb).priority]
  <2>1. executing \in ActorIn(1..(nextId - 1)) /\ mb \in Seq(Env) /\ nextId \in Nat
    BY <1>3, MailTypes DEF StateOK
  <2>2. Head(mb) \in Env /\ Head(mb) = mb[1] /\ 1 \in 1..Len(mb)
    BY <1>3, <2>1
  <2>3. r \in Receipt /\ r.ticket = Head(mb).ticket /\ r.to = executing.id
        /\ r.priority = Head(mb).priority
    <3>1. executing.id \in Nat
      BY <2>1 DEF ActorIn
    <3>2. Head(mb).ticket \in Nat /\ Head(mb).priority \in Int
      BY <2>2 DEF Env
    <3> QED BY <3>1, <3>2 DEF Receipt
  <2>4. /\ executing' = [executing EXCEPT !.mailbox = Tail(mb), !.parked = after]
        /\ consumed' = Append(consumed, r)
        /\ actors' = actors
    BY <1>3 DEF Consume
  <2>5. /\ executing'.mailbox = Tail(mb) /\ executing'.id = executing.id
        /\ ~executing'.parked
    BY <1>3, <2>1, <2>4 DEF ActorIn
  <2> HIDE DEF r
  <2>6. Holds(executing', ticket, Append(consumed, r))
    BY <1>2, <1>3, <2>1, <2>3, <2>5, HoldsConsume
  <2>7. \A i \in DOMAIN actors : Holds(actors[i], ticket, Append(consumed, r))
    <3> SUFFICES ASSUME NEW i \in DOMAIN actors
                 PROVE  Holds(actors[i], ticket, Append(consumed, r))
      OBVIOUS
    <3>1. executing.id # i
      BY <1>3 DEF RunningIsOut
    <3> QED BY <1>2, <2>3, <3>1, HoldsOther
  <2>8. InSendOrder(Append(consumed, r)) /\ AllBefore(Append(consumed, r), ticket)
    <3>1. /\ mb[1].ticket < ticket
          /\ \A j \in 1..Len(consumed) :
               (consumed[j].to = executing.id /\ consumed[j].priority = mb[1].priority)
                 => consumed[j].ticket < mb[1].ticket
      BY <1>2, <2>2 DEF Holds
    <3>2. r.ticket = mb[1].ticket /\ r.priority = mb[1].priority /\ r.to = executing.id
      BY <2>2, <2>3
    <3> HIDE DEF mb
    <3> QED BY <1>2, <2>3, <3>1, <3>2, ReceiptsInOrder
  <2>9. /\ \A i \in DOMAIN actors' : Holds(actors'[i], ticket', consumed')
        /\ Holds(executing', ticket', consumed')
    BY <1>1, <2>4, <2>6, <2>7
  <2>10. AllBefore(consumed', ticket') /\ InSendOrder(consumed')
    BY <1>1, <2>4, <2>8
  <2> QED BY <2>9, <2>10, MailPartsNext
<1>4. ASSUME Park(value), executing # Nobody, executing.mailbox = << >>
      PROVE  MailOK'
  <2>1. actors' = actors /\ consumed' = consumed /\ executing'.mailbox = << >>
    BY <1>4 DEF Park
  <2> QED BY <1>1, <1>2, <2>1, HoldsEmpty, MailKept
<1>5. ASSUME NoActorContext(value)
      PROVE  MailOK'
  BY <1>1, <1>2, <1>5, MailKept DEF NoActorContext
<1>6. executing # Nobody /\ executing.mailbox # << >> => ~executing.parked
  BY <1>2 DEF Holds
<1>7. \/ NoActorContext(value)
      \/ /\ executing # Nobody /\ executing.mailbox # << >>
         /\ Consume(value, FALSE) \/ Consume(value, executing.parked)
      \/ executing # Nobody /\ executing.mailbox = << >> /\ Park(value)
  BY DEF ActorReceive, ActorReceiveEnvelope
<1>8. CASE Consume(value, FALSE) /\ executing # Nobody /\ executing.mailbox # << >>
  BY <1>3, <1>8
<1>9. CASE Consume(value, executing.parked) /\ executing # Nobody /\ executing.mailbox # << >>
  BY <1>3, <1>6, <1>9
<1> QED BY <1>4, <1>5, <1>7, <1>8, <1>9

\* The other builtins and the scheduler move states about without changing
\* their mail.
LEMMA LimitMail ==
  ASSUME StateOK, HistoryOK, MailOK, NEW to, NEW n, ActorSetMailboxLimit(to, n)
  PROVE  MailOK'
<1>1. /\ UNCHANGED <<executing, ticket, consumed>>
      /\ DOMAIN actors' = DOMAIN actors
      /\ \A i \in DOMAIN actors : \/ actors'[i] = actors[i]
                                  \/ \E l : actors'[i] = [actors[i] EXCEPT !.limit = l]
  BY DEF ActorSetMailboxLimit, history
<1>2. /\ ticket \in Nat /\ Holds(executing, ticket, consumed)
      /\ \A i \in DOMAIN actors : /\ actors[i] \in ActorIn({i}) /\ actors[i].mailbox \in Seq(Env)
                                  /\ Holds(actors[i], ticket, consumed)
  BY MailTypes, MailParts
<1>3. ASSUME NEW i \in DOMAIN actors PROVE Holds(actors'[i], ticket, consumed)
  <2>1. CASE actors'[i] = actors[i]
    BY <1>2, <2>1
  <2>2. CASE \E l : actors'[i] = [actors[i] EXCEPT !.limit = l]
    <3>1. /\ actors'[i].mailbox = actors[i].mailbox /\ actors'[i].id = actors[i].id
          /\ actors'[i].parked => actors[i].parked
      BY <1>2, <2>2 DEF ActorIn
    <3>2. Holds(actors[i], ticket, consumed) /\ actors[i].mailbox \in Seq(Env)
      BY <1>2
    <3>3. ticket \in Nat /\ ticket <= ticket
      BY <1>2
    <3> QED BY <3>1, <3>2, <3>3, HoldsSame
  <2> QED BY <1>1, <2>1, <2>2
<1> QED BY <1>1, <1>2, <1>3, MailKept

LEMMA SpawnMail ==
  ASSUME StateOK, HistoryOK, MailOK, NEW b, SpawnActor(b)
  PROVE  MailOK'
<1>1. /\ UNCHANGED <<executing, ticket, consumed>>
      /\ \A i \in DOMAIN actors' :
           actors'[i] = NewActor(nextId, b) \/ (i \in DOMAIN actors /\ actors'[i] = actors[i])
  BY DEF SpawnActor, With, history
<1>2. NewActor(nextId, b).mailbox = << >>
  BY DEF NewActor
<1>3. Holds(NewActor(nextId, b), ticket, consumed)
  BY <1>2, HoldsEmpty
<1>4. /\ Holds(executing, ticket, consumed)
      /\ \A i \in DOMAIN actors : Holds(actors[i], ticket, consumed)
  BY MailParts
<1>5. \A i \in DOMAIN actors' : Holds(actors'[i], ticket, consumed)
  BY <1>1, <1>3, <1>4
<1> QED BY <1>1, <1>4, <1>5, MailKept

\* A step that leaves the mail of the map, or takes entries out of it.
LEMMA MailSubset ==
  ASSUME StateOK, HistoryOK, MailOK, ticket' = ticket, consumed' = consumed,
         executing' = executing \/ executing' = Nobody,
         DOMAIN actors' \subseteq DOMAIN actors,
         \A i \in DOMAIN actors' : actors'[i] = actors[i]
  PROVE  MailOK'
<1>1. /\ Holds(executing, ticket, consumed)
      /\ \A i \in DOMAIN actors : Holds(actors[i], ticket, consumed)
  BY MailParts
<1>2. Nobody.mailbox = << >>
  BY DEF Nobody
<1>3. Holds(Nobody, ticket, consumed)
  BY <1>2, HoldsEmpty
<1>4. \A i \in DOMAIN actors' : Holds(actors'[i], ticket, consumed)
  BY <1>1
<1> QED BY <1>1, <1>3, <1>4, MailKept

LEMMA BeginMail ==
  ASSUME TInv, MailOK, NEW aid, BeginStatement(aid)
  PROVE  MailOK'
<1>0. StateOK /\ HistoryOK
  BY DEF TInv
<1>1. /\ aid \in DOMAIN actors
      /\ executing' = [actors[aid] EXCEPT !.body = Tail(actors[aid].body)]
      /\ \A i \in DOMAIN actors' : i \in DOMAIN actors /\ actors'[i] = actors[i]
      /\ UNCHANGED <<ticket, consumed>>
  BY DEF BeginStatement, Without, history, Ready
<1>2. /\ ticket \in Nat
      /\ \A i \in DOMAIN actors : /\ actors[i] \in ActorIn({i}) /\ actors[i].mailbox \in Seq(Env)
                                  /\ Holds(actors[i], ticket, consumed)
  BY <1>0, MailTypes, MailParts
<1>3. /\ executing'.mailbox = actors[aid].mailbox /\ executing'.id = actors[aid].id
      /\ executing'.parked => actors[aid].parked
  BY <1>1, <1>2 DEF ActorIn
<1>4. Holds(executing', ticket, consumed)
  <2>1. Holds(actors[aid], ticket, consumed) /\ actors[aid].mailbox \in Seq(Env)
    BY <1>1, <1>2
  <2>2. ticket \in Nat /\ ticket <= ticket
    BY <1>2
  <2> QED BY <1>3, <2>1, <2>2, HoldsSame
<1>5. \A i \in DOMAIN actors' : Holds(actors'[i], ticket, consumed)
  BY <1>1, <1>2
<1> QED BY <1>0, <1>1, <1>4, <1>5, MailKept

LEMMA EndStatementMail ==
  ASSUME TInv, MailOK, EndStatement
  PROVE  MailOK'
<1>0. StateOK /\ HistoryOK
  BY DEF TInv
<1>1. UNCHANGED <<ticket, consumed>> /\ executing' = Nobody
  BY DEF EndStatement
<1>2. CASE executing = Nobody
  <2>1. actors' = actors
    BY <1>2 DEF EndStatement
  <2> QED BY <1>0, <1>1, <2>1, MailSubset
<1>3. CASE executing # Nobody
  <2>1. PICK body, done :
          actors' = With(Top.turn.aid, [executing EXCEPT !.body = body, !.finished = done])
    BY <1>3 DEF EndStatement
  <2> DEFINE a == [executing EXCEPT !.body = body, !.finished = done]
  <2>2. /\ ticket \in Nat /\ executing \in ActorIn(1..(nextId - 1))
        /\ executing.mailbox \in Seq(Env) /\ Holds(executing, ticket, consumed)
        /\ \A i \in DOMAIN actors : Holds(actors[i], ticket, consumed)
    BY <1>0, <1>3, MailTypes, MailParts
  <2>3. a.mailbox = executing.mailbox /\ a.id = executing.id /\ a.parked = executing.parked
    BY <2>2 DEF ActorIn
  <2> HIDE DEF a
  <2>4. Holds(a, ticket, consumed)
    BY <2>2, <2>3, HoldsSame
  <2>5. \A i \in DOMAIN actors' :
          actors'[i] = a \/ (i \in DOMAIN actors /\ actors'[i] = actors[i])
    BY <2>1 DEF With, a
  <2>6. \A i \in DOMAIN actors' : Holds(actors'[i], ticket, consumed)
    BY <2>2, <2>4, <2>5
  <2>7. Nobody.mailbox = << >>
    BY DEF Nobody
  <2>8. Holds(executing', ticket, consumed)
    BY <1>1, <2>7, HoldsEmpty
  <2> QED BY <1>0, <1>1, <2>6, <2>8, MailKept
<1> QED BY <1>2, <1>3

-----------------------------------------------------------------------------
LEMMA NextMail == TInv /\ MailOK /\ [Next]_vars => MailOK'
<1> SUFFICES ASSUME TInv, MailOK, [Next]_vars PROVE MailOK'
  OBVIOUS
<1>0. StateOK /\ HistoryOK /\ RunningIsOut
  BY DEF TInv
<1>1. ASSUME UNCHANGED <<actors, executing, current, nextId, diagnostics, history>>
      PROVE  MailOK'
  BY <1>0, <1>1, MailSubset DEF history
<1>2. CASE Host
  <2>1. CASE HostSend
    <3>1. PICK to \in 1..nextId, n \in HostPriorities : ActorSend(to, n)
      BY <2>1 DEF HostSend
    <3>2. to \in Nat /\ n \in Int
      BY <1>0, ActorsAssumption DEF StateOK
    <3> QED BY <1>0, <3>1, <3>2, SendMail
  <2>2. CASE HostLimit
    BY <1>0, <2>2, LimitMail DEF HostLimit
  <2>3. CASE HostSpawn
    BY <1>0, <2>3, SpawnMail DEF HostSpawn
  <2>4. CASE HostRun
    BY <1>1, <2>4 DEF HostRun
  <2> QED BY <1>2, <2>1, <2>2, <2>3, <2>4 DEF Host
<1>3. CASE Schedule
  <2>1. CASE NewPass
    BY <1>1, <2>1 DEF NewPass
  <2>2. CASE EndRun
    BY <1>0, <2>2, MailSubset DEF EndRun, Without, history
  <2>3. ASSUME NEW aid, DropListed(aid) PROVE MailOK'
    BY <1>1, <2>3 DEF DropListed
  <2>4. ASSUME NEW aid, SkipActor(aid) \/ EmptyTurn(aid) PROVE MailOK'
    BY <1>0, <2>4, MailSubset DEF SkipActor, EmptyTurn, history
  <2> QED BY <1>3, <2>1, <2>2, <2>3, <2>4, BeginMail DEF Schedule
<1>4. CASE Operate
  <2>1. CASE OpSend
    <3>1. Executing /\ Top.turn.ops # << >> /\ NextOp.op = "send"
      BY <2>1 DEF OpSend, Pending, NextOp
    <3>2. NextOp.to \in Nat /\ NextOp.priority \in Int
      BY <3>1, PoppedType, OperationFields
    <3> QED BY <1>0, <2>1, <3>2, SendMail DEF OpSend
  <2>2. CASE OpReceive
    BY <1>0, <2>2, ReceiveMail DEF OpReceive
  <2>3. CASE OpLimit
    BY <1>0, <2>3, LimitMail DEF OpLimit
  <2>4. CASE OpSpawn
    BY <1>0, <2>4, SpawnMail DEF OpSpawn
  <2>5. CASE OpYield \/ OpFail \/ OpRun
    BY <1>1, <2>5 DEF OpYield, OpFail, OpRun
  <2> QED BY <1>4, <2>1, <2>2, <2>3, <2>4, <2>5, EndStatementMail DEF Operate
<1>5. CASE UNCHANGED vars
  BY <1>1, <1>5 DEF vars, history
<1> QED BY <1>2, <1>3, <1>4, <1>5 DEF Next

LEMMA InitMail == Init => MailOK
<1> SUFFICES ASSUME Init PROVE MailOK
  OBVIOUS
<1>1. actors = << >> /\ executing = Nobody /\ consumed = << >>
  BY DEF Init
<1>2. Nobody.mailbox = << >>
  BY DEF Nobody
<1>3. Holds(executing, ticket, consumed)
  BY <1>1, <1>2, HoldsEmpty
<1> QED BY <1>1, <1>3, MailParts DEF AllBefore, InSendOrder

LEMMA MailAlways == Spec => [](TInv /\ MailOK)
BY InitTypes, NextTypes, InitMail, NextMail, PTL DEF Spec

\* No wake-up is lost: whatever the senders, the receivers, their nested
\* runs and the retries do, an actor that is marked parked has an empty
\* mailbox, so a scheduler that skips parked actors never skips mail.
THEOREM WakeupsKept == Spec => []NoLostWakeup
<1>1. MailOK => NoLostWakeup
  BY DEF MailOK, HoldsMail, NoLostWakeup, Live, State
<1> QED BY <1>1, MailAlways, PTL

\* Every mailbox is always in serving order: higher priorities first, and
\* the order of the sends among equals.
THEOREM MailSorted == Spec => []MailInOrder
<1>1. MailOK => MailInOrder
  BY DEF MailOK, HoldsMail, MailInOrder, Live, State
<1> QED BY <1>1, MailAlways, PTL

\* An actor receives the messages of one priority in the order of their
\* sends, over all its receives, also when statements are retried.
THEOREM FifoDelivery == Spec => []DeliveredInOrder
<1>1. MailOK => DeliveredInOrder
  BY DEF MailOK
<1> QED BY <1>1, MailAlways, PTL

-----------------------------------------------------------------------------
(* Whole runs.  What follows rests on the type and mail invariants above. *)

Base == TInv /\ MailOK

LEMMA BaseParts ==
  ASSUME Base
  PROVE  StateOK /\ HistoryOK /\ FramesInv /\ FramesOK /\ ExecutingOK /\ RunningIsOut /\ MailOK
         /\ runs \in Seq(FrameType)
BY DEF Base, TInv, FramesInv

-----------------------------------------------------------------------------
(* The program *)

\* A sequence whose elements are all in a set is a sequence over it.
LEMMA SeqOver ==
  ASSUME NEW S, NEW T, NEW s \in Seq(S), \A i \in 1..Len(s) : s[i] \in T
  PROVE  s \in Seq(T)
OBVIOUS

LEMMA ProgramIsItsStatements ==
  ASSUME NEW b \in Bodies
  PROVE  Program[b] \in Seq(ProgramStatements)
<1>1. Program[b] \in Seq(Statement)
  BY ActorsAssumption
<1>2. \A j \in 1..Len(Program[b]) : Program[b][j] \in ProgramStatements
  BY DEF ProgramStatements
<1> QED BY <1>1, <1>2, SeqOver

LEMMA StatementIsItsOps ==
  ASSUME NEW s \in Statement, s \in ProgramStatements
  PROVE  s.ops \in Seq(ProgramOps)
<1>1. s.ops \in Seq(Operation)
  BY DEF Statement
<1>2. \A k \in 1..Len(s.ops) : s.ops[k] \in ProgramOps
  BY DEF ProgramOps
<1> QED BY <1>1, <1>2, SeqOver

\* The limits are integers, and one of them allows an empty mailbox.
LEMMA LimitsAreInt == ProgramStatements \subseteq Statement /\ Limits \subseteq Int
<1>1. ProgramStatements \subseteq Statement
  <2>1. \A b \in Bodies : Program[b] \in Seq(Statement)
    BY ActorsAssumption
  <2>2. \A b \in Bodies : \A j \in 1..Len(Program[b]) : Program[b][j] \in Statement
    BY <2>1
  <2> QED BY <2>2 DEF ProgramStatements
<1>2. ProgramOps \subseteq Operation
  <2>1. \A s \in ProgramStatements : s.ops \in Seq(Operation)
    BY <1>1 DEF Statement
  <2>2. \A s \in ProgramStatements : \A k \in 1..Len(s.ops) : s.ops[k] \in Operation
    BY <2>1
  <2> QED BY <2>2 DEF ProgramOps
<1>3. \A o \in ProgramOps : o.op = "limit" => o.limit \in Int
  BY <1>2, OperationFields
<1>4. ASSUME NEW l \in Limits PROVE l \in Int
  <2>1. \/ l = DefaultLimit \/ l \in HostLimits
        \/ \E o \in ProgramOps : o.op = "limit" /\ l = o.limit
    BY <1>4 DEF Limits
  <2>2. DefaultLimit \in Int /\ HostLimits \subseteq Int
    BY ActorsAssumption
  <2> QED BY <2>1, <2>2, <1>3
<1> QED BY <1>1, <1>4

LEMMA AllowedDown ==
  ASSUME NEW n \in Int, NEW m \in Int, m <= n, Allowed(n)
  PROVE  Allowed(m)
BY LimitsAreInt DEF Allowed, AsLimit

LEMMA AllowedZero == Allowed(0)
<1>1. DefaultLimit \in Limits /\ 0 <= AsLimit(DefaultLimit)
  BY ActorsAssumption DEF Limits, AsLimit
<1> QED BY <1>1 DEF Allowed

LEMMA AllowedLimit ==
  ASSUME NEW n \in Limits
  PROVE  Allowed(AsLimit(n))
BY LimitsAreInt DEF Allowed, AsLimit

-----------------------------------------------------------------------------
(* The kinds of steps, as the states of the actors see them. *)

Still == UNCHANGED <<actors, executing, history>>

Forget == Scheduling /\ UNCHANGED <<actors, history>> /\ executing' = Nobody

\* The innermost frame is replaced, whatever by.
LEMMA SetTopAny ==
  ASSUME runs \in Seq(FrameType), runs # << >>, NEW f, SetTop(f)
  PROVE  /\ Len(runs) \in Nat /\ Len(runs) >= 1 /\ Top = runs[1] /\ Top \in FrameType
         /\ Len(runs') = Len(runs)
         /\ runs'[1] = f
         /\ \A k \in 2..Len(runs) : runs'[k] = runs[k]
<1>1. /\ Tail(runs) \in Seq(FrameType) /\ Len(Tail(runs)) = Len(runs) - 1
      /\ \A i \in 1..Len(Tail(runs)) : Tail(runs)[i] = runs[i + 1]
  BY HeadTailProperties
<1> DEFINE F == FrameType \cup {f}
<1>2. Tail(runs) \in Seq(F)
  BY <1>1
<1>3. f \in F
  OBVIOUS
<1> HIDE DEF F
<1>4. <<f>> \in Seq(F) /\ Len(<<f>>) = 1 /\ <<f>>[1] = f
  BY <1>3
<1>5. runs' = <<f>> \o Tail(runs)
  BY DEF SetTop
<1>6. Len(runs) \in Nat /\ Len(runs) > 0
  OBVIOUS
<1>7. /\ Len(runs') = Len(runs)
      /\ \A k \in 1..Len(runs) : runs'[k] = IF k <= 1 THEN <<f>>[k] ELSE Tail(runs)[k - 1]
  BY <1>1, <1>2, <1>4, <1>5, <1>6, ConcatProperties
<1>8. ASSUME NEW k \in 2..Len(runs) PROVE runs'[k] = runs[k]
  <2>1. k - 1 \in 1..Len(Tail(runs)) /\ (k - 1) + 1 = k
    BY <1>1, <1>6
  <2>2. runs'[k] = Tail(runs)[k - 1]
    BY <1>6, <1>7
  <2>3. Tail(runs)[k - 1] = runs[(k - 1) + 1]
    BY <2>1, <1>1
  <2> QED BY <2>1, <2>2, <2>3
<1> QED BY <1>4, <1>6, <1>7, <1>8, TopType

\* The next builtin of a statement is one of the program.
LEMMA NextOpInProgram ==
  ASSUME Base, FromProgram, Executing, Top.turn.ops # << >>
  PROVE  NextOp \in ProgramOps
<1>1. Top = runs[1] /\ 1 \in 1..Len(runs)
  BY BaseParts, TopType DEF Executing
<1> DEFINE ops == Top.turn.ops
<1>2. ops \in Seq(ProgramOps) /\ ops # << >>
  BY <1>1 DEF FromProgram
<1> HIDE DEF ops
<1>3. Head(ops) \in ProgramOps
  BY <1>2
<1> QED BY <1>3 DEF NextOp, ops

LEMMA StepKinds ==
  ASSUME Base, FromProgram, [Next]_vars
  PROVE  \/ Still \/ Forget \/ EndRun \/ EndStatement
         \/ \E to \in Nat, n \in Int : ActorSend(to, n)
         \/ \E to, n : n \in Limits /\ ActorSetMailboxLimit(to, n)
         \/ \E b \in Bodies : SpawnActor(b)
         \/ \E value : ActorReceive(value) \/ ActorReceiveEnvelope(value)
         \/ \E aid : BeginStatement(aid)
<1>0. StateOK /\ TInv
  BY BaseParts DEF Base
<1>1. CASE HostSend
  <2>1. PICK to \in 1..nextId, n \in HostPriorities : ActorSend(to, n)
    BY <1>1 DEF HostSend
  <2>2. to \in Nat /\ n \in Int
    BY <1>0, ActorsAssumption DEF StateOK
  <2> QED BY <2>1, <2>2
<1>2. CASE HostLimit
  BY <1>2 DEF HostLimit, Limits
<1>3. CASE HostSpawn
  BY <1>3, ActorsAssumption DEF HostSpawn
<1>4. CASE HostRun \/ NewPass \/ OpYield \/ OpFail \/ OpRun
  BY <1>4 DEF HostRun, NewPass, OpYield, OpFail, OpRun, Still
<1>5. ASSUME NEW aid, DropListed(aid) PROVE Still
  BY <1>5 DEF DropListed, Still
<1>6. ASSUME NEW aid, SkipActor(aid) \/ EmptyTurn(aid) PROVE Forget
  BY <1>6 DEF SkipActor, EmptyTurn, IsNext, Forget
<1>7. CASE OpSend
  <2>1. Executing /\ Top.turn.ops # << >> /\ NextOp.op = "send"
    BY <1>7 DEF OpSend, Pending, NextOp
  <2>2. NextOp.to \in Nat /\ NextOp.priority \in Int
    BY <1>0, <2>1, PoppedType, OperationFields
  <2> QED BY <1>7, <2>2 DEF OpSend
<1>8. CASE OpLimit
  <2>1. Executing /\ Top.turn.ops # << >> /\ NextOp.op = "limit"
    BY <1>8 DEF OpLimit, Pending, NextOp
  <2>2. NextOp \in ProgramOps
    BY <2>1, NextOpInProgram
  <2>3. NextOp.limit \in Limits
    BY <2>1, <2>2 DEF Limits
  <2> QED BY <1>8, <2>3 DEF OpLimit
<1>9. CASE OpSpawn
  <2>1. Executing /\ Top.turn.ops # << >> /\ NextOp.op = "spawn"
    BY <1>9 DEF OpSpawn, Pending, NextOp
  <2>2. NextOp.body \in Bodies
    BY <1>0, <2>1, PoppedType, OperationFields
  <2> QED BY <1>9, <2>2 DEF OpSpawn
<1>10. CASE OpReceive
  BY <1>10 DEF OpReceive
<1>11. CASE UNCHANGED vars
  BY <1>11 DEF vars, history, Still
<1> QED BY <1>1, <1>2, <1>3, <1>4, <1>5, <1>6, <1>7, <1>8, <1>9, <1>10, <1>11
        DEF Next, Host, Schedule, Operate

-----------------------------------------------------------------------------
(* FromProgram is preserved. *)

TurnInProgram(f) == f.turn.stmt \in Seq(ProgramStatements) /\ f.turn.ops \in Seq(ProgramOps)

BodiesInProgram ==
  /\ \A i \in DOMAIN actors : actors[i].body \in Seq(ProgramStatements)
  /\ executing.body \in Seq(ProgramStatements)

FramesInProgram == \A k \in 1..Len(runs) : TurnInProgram(runs[k])

LEMMA ProgramParts == FromProgram <=> BodiesInProgram /\ FramesInProgram
BY DEF FromProgram, BodiesInProgram, FramesInProgram, TurnInProgram

LEMMA FramesInProgramTop ==
  ASSUME Base, runs # << >>, FramesInProgram, NEW f, SetTop(f), TurnInProgram(f)
  PROVE  FramesInProgram'
<1>1. /\ Len(runs) \in Nat /\ Len(runs') = Len(runs) /\ runs'[1] = f
      /\ \A k \in 2..Len(runs) : runs'[k] = runs[k]
  BY BaseParts, SetTopAny
<1>2. ASSUME NEW k \in 1..Len(runs') PROVE TurnInProgram(runs'[k])
  <2>1. CASE k = 1
    BY <2>1, <1>1
  <2>2. CASE k # 1
    <3>1. k \in 2..Len(runs) /\ k \in 1..Len(runs)
      BY <2>2, <1>1
    <3> QED BY <3>1, <1>1 DEF FramesInProgram
  <2> QED BY <2>1, <2>2
<1> QED BY <1>2 DEF FramesInProgram, TurnInProgram

\* A builtin leaves fewer of them in the turn.
LEMMA FramesInProgramPop ==
  ASSUME Base, Executing, FramesInProgram, Top.turn.ops # << >>,
         NEW t, SetTurn(t), t.stmt = Top.turn.stmt,
         t.ops = Tail(Top.turn.ops) \/ t.ops = << >>
  PROVE  FramesInProgram'
<1>1. runs # << >> /\ Top = runs[1] /\ Top \in FrameType /\ 1 \in 1..Len(runs)
  BY BaseParts, TopType DEF Executing
<1>2. TurnInProgram(Top)
  BY <1>1 DEF FramesInProgram
<1> DEFINE ops == Top.turn.ops
<1>3. ops \in Seq(ProgramOps) /\ ops # << >>
  BY <1>2 DEF TurnInProgram
<1>4. Tail(ops) \in Seq(ProgramOps) /\ << >> \in Seq(ProgramOps)
  <2> HIDE DEF ops
  <2> QED BY <1>3
<1>5. t.ops \in Seq(ProgramOps)
  BY <1>4
<1> DEFINE f == [Top EXCEPT !.turn = t]
<1>6. f.turn = t /\ SetTop(f)
  BY <1>1 DEF FrameType, SetTurn
<1>7. TurnInProgram(f)
  BY <1>2, <1>5, <1>6 DEF TurnInProgram
<1> HIDE DEF f
<1> QED BY <1>1, <1>6, <1>7, FramesInProgramTop

\* The scheduler's own steps leave the turn, or an empty one.
LEMMA FramesInProgramScheduling ==
  ASSUME Base, runs # << >>, FramesInProgram, NEW f, SetTop(f),
         f.turn = Top.turn \/ f.turn = NoTurn
  PROVE  FramesInProgram'
<1>1. TurnInProgram(Top)
  BY BaseParts, TopType DEF FramesInProgram
<1>2. NoTurn.stmt \in Seq(ProgramStatements) /\ NoTurn.ops \in Seq(ProgramOps)
  BY DEF NoTurn
<1>3. TurnInProgram(f)
  BY <1>1, <1>2 DEF TurnInProgram
<1> QED BY <1>3, FramesInProgramTop

LEMMA NextFramesInProgram ==
  ASSUME Base, FromProgram, [Next]_vars
  PROVE  FramesInProgram'
<1>0. TInv /\ StateOK /\ FramesInProgram /\ BodiesInProgram /\ runs \in Seq(FrameType)
  BY BaseParts, ProgramParts DEF Base
<1>1. ASSUME runs' = runs PROVE FramesInProgram'
  BY <1>0, <1>1 DEF FramesInProgram, TurnInProgram
<1>2. CASE HostRun
  <2>1. PICK max \in HostSteps : runs' = <<Frame(max)>>
    BY <1>2 DEF HostRun
  <2>2. Frame(max).turn.stmt = << >> /\ Frame(max).turn.ops = << >>
    BY DEF Frame, NoTurn
  <2>3. TurnInProgram(Frame(max))
    BY <2>2 DEF TurnInProgram
  <2>4. Len(runs') = 1 /\ runs'[1] = Frame(max)
    BY <2>1
  <2>5. \A k \in 1..Len(runs') : TurnInProgram(runs'[k])
    BY <2>3, <2>4
  <2> QED BY <2>5 DEF FramesInProgram, TurnInProgram
<1>3. CASE NewPass
  <2>1. runs # << >> /\ Top \in FrameType
    BY <1>0, <1>3, TopType DEF NewPass, Scheduling
  <2> DEFINE f == [Top EXCEPT !.cursor = 0, !.progress = FALSE]
  <2>2. f.turn = Top.turn /\ SetTop(f)
    BY <1>3, <2>1 DEF NewPass, FrameType
  <2> HIDE DEF f
  <2> QED BY <1>0, <2>1, <2>2, FramesInProgramScheduling
<1>4. ASSUME NEW aid, DropListed(aid) PROVE FramesInProgram'
  <2>1. runs # << >> /\ Top \in FrameType
    BY <1>0, <1>4, TopType DEF DropListed, IsNext, Scheduling
  <2> DEFINE f == [Top EXCEPT !.ids = @ \ {aid}]
  <2>2. f.turn = Top.turn /\ SetTop(f)
    BY <1>4, <2>1 DEF DropListed, FrameType
  <2> HIDE DEF f
  <2> QED BY <1>0, <2>1, <2>2, FramesInProgramScheduling
<1>5. ASSUME NEW aid, SkipActor(aid) PROVE FramesInProgram'
  <2>1. runs # << >> /\ Top \in FrameType
    BY <1>0, <1>5, TopType DEF SkipActor, IsNext, Scheduling
  <2> DEFINE f == [Top EXCEPT !.cursor = aid]
  <2>2. f.turn = Top.turn /\ SetTop(f)
    BY <1>5, <2>1 DEF SkipActor, FrameType
  <2> HIDE DEF f
  <2> QED BY <1>0, <2>1, <2>2, FramesInProgramScheduling
<1>6. ASSUME NEW aid, EmptyTurn(aid) PROVE FramesInProgram'
  <2>1. runs # << >> /\ Top \in FrameType
    BY <1>0, <1>6, TopType DEF EmptyTurn, IsNext, Scheduling
  <2> DEFINE f == [Top EXCEPT !.cursor = aid, !.steps = Counted(Top)]
  <2>2. f.turn = Top.turn /\ SetTop(f)
    BY <1>6, <2>1 DEF EmptyTurn, FrameType
  <2> HIDE DEF f
  <2> QED BY <1>0, <2>1, <2>2, FramesInProgramScheduling
<1>7. ASSUME NEW aid, BeginStatement(aid) PROVE FramesInProgram'
  <2>1. runs # << >> /\ Top \in FrameType /\ aid \in DOMAIN actors
    BY <1>0, <1>7, TopType DEF BeginStatement, IsNext, Scheduling, Ready
  <2> DEFINE body == actors[aid].body
             stmt == Head(body)
             t == [aid |-> aid, stmt |-> <<stmt>>, ops |-> stmt.ops,
                   got |-> << >>, failed |-> FALSE]
             f == [Top EXCEPT !.turn = t]
  <2>2. body \in Seq(ProgramStatements) /\ body # << >>
    BY <1>0, <1>7, <2>1 DEF BodiesInProgram, BeginStatement
  <2>3. stmt \in ProgramStatements
    <3> HIDE DEF body
    <3> QED BY <2>2
  <2>4. stmt.ops \in Seq(ProgramOps) /\ <<stmt>> \in Seq(ProgramStatements)
    <3> HIDE DEF stmt
    <3> QED BY <2>3, LimitsAreInt, StatementIsItsOps
  <2>5. f.turn = t /\ SetTop(f)
    BY <1>7, <2>1 DEF BeginStatement, SetTurn, FrameType
  <2>6. t.stmt = <<stmt>> /\ t.ops = stmt.ops
    OBVIOUS
  <2>7. TurnInProgram(f)
    <3> HIDE DEF f, t, stmt
    <3> QED BY <2>4, <2>5, <2>6 DEF TurnInProgram
  <2> HIDE DEF f
  <2> QED BY <1>0, <2>1, <2>5, <2>7, FramesInProgramTop
<1>8. CASE OpSend \/ OpLimit \/ OpSpawn \/ OpYield
  <2>1. Executing /\ Top.turn.ops # << >> /\ SetTurn(Popped)
    BY <1>8 DEF OpSend, OpLimit, OpSpawn, OpYield, Pending, PopOp
  <2>2. Popped.stmt = Top.turn.stmt /\ Popped.ops = Tail(Top.turn.ops)
    BY <1>0, <2>1, PoppedType DEF Popped, TurnType
  <2> QED BY <1>0, <2>1, <2>2, FramesInProgramPop
<1>9. CASE OpReceive
  <2>1. PICK value : /\ Executing /\ Top.turn.ops # << >>
                     /\ SetTurn([Popped EXCEPT !.got = Append(@, value)])
    BY <1>9 DEF OpReceive, Pending
  <2> DEFINE t == [Popped EXCEPT !.got = Append(@, value)]
  <2>2. Popped.stmt = Top.turn.stmt /\ Popped.ops = Tail(Top.turn.ops) /\ Popped \in TurnType
    BY <1>0, <2>1, PoppedType DEF Popped, TurnType
  <2>3. t.stmt = Popped.stmt /\ t.ops = Popped.ops /\ SetTurn(t)
    BY <2>1, <2>2 DEF TurnType
  <2> HIDE DEF t
  <2> QED BY <1>0, <2>1, <2>2, <2>3, FramesInProgramPop
<1>10. CASE OpFail
  <2> DEFINE t == [Top.turn EXCEPT !.ops = << >>, !.failed = TRUE]
  <2>1. Executing /\ Top.turn.ops # << >> /\ SetTurn(t)
    BY <1>10 DEF OpFail, Pending
  <2>2. t.stmt = Top.turn.stmt /\ t.ops = << >>
    BY <1>0, <2>1, PoppedType DEF TurnType
  <2> HIDE DEF t
  <2> QED BY <1>0, <2>1, <2>2, FramesInProgramPop
<1>11. CASE OpRun
  <2>1. /\ Executing /\ runs # << >> /\ Top.turn.ops # << >>
        /\ runs' = <<Frame(NextOp.max), [Top EXCEPT !.turn = Popped]>> \o Tail(runs)
    BY <1>11 DEF OpRun, Pending, Executing
  <2>2. Top = runs[1] /\ Top \in FrameType /\ Len(runs) \in Nat /\ 1 \in 1..Len(runs)
    BY <1>0, <2>1, TopType
  <2> DEFINE g == Frame(NextOp.max)
             h == [Top EXCEPT !.turn = Popped]
             ops == Top.turn.ops
  <2>3. h.turn = Popped /\ Popped.stmt = Top.turn.stmt /\ Popped.ops = Tail(ops)
    BY <1>0, <2>1, <2>2, PoppedType DEF Popped, TurnType, FrameType
  <2>4. TurnInProgram(g)
    <3>1. g.turn.stmt = << >> /\ g.turn.ops = << >>
      BY DEF Frame, NoTurn
    <3> QED BY <3>1 DEF TurnInProgram
  <2>5. TurnInProgram(h)
    <3>1. ops \in Seq(ProgramOps) /\ ops # << >> /\ Top.turn.stmt \in Seq(ProgramStatements)
      BY <1>0, <2>1, <2>2 DEF FramesInProgram, TurnInProgram
    <3>2. Tail(ops) \in Seq(ProgramOps)
      <4> HIDE DEF ops
      <4> QED BY <3>1
    <3> QED BY <2>3, <3>1, <3>2 DEF TurnInProgram
  <2>6. runs' = <<g, h>> \o Tail(runs)
    BY <2>1
  <2> HIDE DEF g, h
  <2> DEFINE F == FrameType \cup {g, h}
  <2>7. /\ Tail(runs) \in Seq(FrameType) /\ Len(Tail(runs)) = Len(runs) - 1
        /\ \A i \in 1..Len(Tail(runs)) : Tail(runs)[i] = runs[i + 1]
    BY <1>0, <2>1, HeadTailProperties
  <2>8. Tail(runs) \in Seq(F) /\ g \in F /\ h \in F
    BY <2>7
  <2> HIDE DEF F
  <2>9. <<g, h>> \in Seq(F) /\ Len(<<g, h>>) = 2 /\ <<g, h>>[1] = g /\ <<g, h>>[2] = h
    BY <2>8
  <2>10. /\ Len(runs') = Len(runs) + 1
         /\ \A k \in 1..Len(runs') :
              runs'[k] = IF k <= 2 THEN <<g, h>>[k] ELSE Tail(runs)[k - 2]
    BY <2>2, <2>6, <2>7, <2>8, <2>9, ConcatProperties
  <2>11. ASSUME NEW k \in 1..Len(runs') PROVE TurnInProgram(runs'[k])
    <3>1. CASE k <= 2
      <4>1. runs'[k] = g \/ runs'[k] = h
        BY <3>1, <2>9, <2>10
      <4> QED BY <4>1, <2>4, <2>5
    <3>2. CASE k > 2
      <4>1. k - 2 \in 1..Len(Tail(runs)) /\ (k - 2) + 1 = k - 1 /\ k - 1 \in 1..Len(runs)
        BY <3>2, <2>2, <2>7, <2>10
      <4>2. runs'[k] = Tail(runs)[k - 2]
        BY <3>2, <2>10
      <4>3. Tail(runs)[k - 2] = runs[(k - 2) + 1]
        BY <2>7, <4>1
      <4>4. runs'[k] = runs[k - 1]
        BY <4>1, <4>2, <4>3
      <4> QED BY <1>0, <4>1, <4>4 DEF FramesInProgram
    <3> QED BY <3>1, <3>2, <2>2, <2>10
  <2> QED BY <2>11 DEF FramesInProgram, TurnInProgram
<1>12. CASE EndStatement
  <2>1. runs # << >> /\ Top \in FrameType
    BY <1>0, <1>12, TopType DEF EndStatement, Executing
  <2> DEFINE f == [Top EXCEPT !.cursor = Top.turn.aid, !.steps = Counted(Top),
                              !.progress = TRUE, !.turn = NoTurn]
  <2>2. f.turn = NoTurn /\ SetTop(f)
    BY <1>12, <2>1 DEF EndStatement, FrameType
  <2> HIDE DEF f
  <2> QED BY <1>0, <2>1, <2>2, FramesInProgramScheduling
<1>13. CASE EndRun
  <2>1. runs # << >> /\ runs' = Tail(runs)
    BY <1>13 DEF EndRun, Scheduling
  <2>2. /\ Len(runs) \in Nat /\ Len(runs') = Len(runs) - 1
        /\ \A i \in 1..Len(runs') : runs'[i] = runs[i + 1]
    BY <1>0, <2>1, HeadTailProperties
  <2>3. \A i \in 1..Len(runs') : i + 1 \in 1..Len(runs)
    BY <2>2
  <2>4. \A i \in 1..Len(runs') : TurnInProgram(runs'[i])
    BY <1>0, <2>2, <2>3 DEF FramesInProgram
  <2> QED BY <2>4 DEF FramesInProgram, TurnInProgram
<1>14. CASE HostSend \/ HostLimit \/ HostSpawn \/ UNCHANGED vars
  BY <1>1, <1>14 DEF HostSend, HostLimit, HostSpawn, vars
<1> QED BY <1>2, <1>3, <1>4, <1>5, <1>6, <1>7, <1>8, <1>9, <1>10, <1>11, <1>12, <1>13, <1>14
        DEF Next, Host, Schedule, Operate

-----------------------------------------------------------------------------
(* The state of one actor: its body is a rest of a body of the program, its *)
(* limit and its mail are within the limits, and when it is finished it has *)
(* nothing left to execute.                                                 *)

Fit(a) ==
  /\ a.body \in Seq(ProgramStatements)
  /\ WithinLimits(a)
  /\ a.finished => a.body = << >>

AllFit ==
  /\ \A i \in DOMAIN actors : Fit(actors[i])
  /\ Fit(executing)
  /\ ~executing.finished

LEMMA FitParts == AllFit <=> BodiesInProgram /\ LimitsOK /\ FinishedOK
BY DEF AllFit, Fit, BodiesInProgram, LimitsOK, FinishedOK

LEMMA FitNobody == Fit(Nobody) /\ ~Nobody.finished
<1>1. Nobody.body = << >> /\ Nobody.limit = 0 /\ Nobody.mailbox = << >> /\ ~Nobody.finished
  BY DEF Nobody
<1>2. Len(Nobody.mailbox) = 0
  BY <1>1
<1> QED BY <1>1, <1>2, AllowedZero DEF Fit, WithinLimits

LEMMA FitNew ==
  ASSUME NEW b \in Bodies, NEW id
  PROVE  Fit(NewActor(id, b))
<1> DEFINE a == NewActor(id, b)
<1>1. a.body = Program[b] /\ a.limit = DefaultLimit /\ a.mailbox = << >> /\ ~a.finished
  BY DEF NewActor
<1>2. Len(a.mailbox) = 0
  BY <1>1
<1>3. DefaultLimit \in Limits /\ AsLimit(DefaultLimit) = DefaultLimit
  BY ActorsAssumption DEF Limits, AsLimit
<1>4. Allowed(DefaultLimit)
  BY <1>3, AllowedLimit
<1> HIDE DEF a
<1>5. a.body \in Seq(ProgramStatements)
  BY <1>1, ProgramIsItsStatements
<1>6. WithinLimits(a)
  BY <1>1, <1>2, <1>4, AllowedZero DEF WithinLimits
<1> QED BY <1>1, <1>5, <1>6 DEF Fit, a

\* A mailbox with room is below the limit of its actor.
LEMMA FitDeliver ==
  ASSUME NEW Ids, NEW a \in ActorIn(Ids), NEW env \in Env, Fit(a), HasRoom(a)
  PROVE  Fit(Deliver(a, env)) /\ Deliver(a, env).finished = a.finished
<1> DEFINE mb == a.mailbox
           w == LinearInsert(mb, env)
           b == Deliver(a, env)
<1>1. mb \in Seq(Env) /\ Len(mb) \in Nat /\ a.limit \in Nat
  BY DEF ActorIn, Env
<1>2. b.mailbox = w /\ b.body = a.body /\ b.finished = a.finished /\ b.limit = a.limit
  BY DEF Deliver, ActorIn
<1> HIDE DEF mb, b
<1>3. \A e \in Env : e.priority \in Int
  BY DEF Env
<1>4. Len(w) = Len(mb) + 1
  BY <1>1, <1>3, LinearInsertProperties
<1>5. Len(mb) + 1 <= a.limit
  BY <1>1 DEF HasRoom, mb
<1>6. Allowed(a.limit)
  BY DEF Fit, WithinLimits
<1>7. Allowed(Len(mb) + 1)
  BY <1>1, <1>5, <1>6, AllowedDown
<1> HIDE DEF w
<1>8. Fit(b)
  BY <1>2, <1>4, <1>6, <1>7 DEF Fit, WithinLimits
<1> QED BY <1>2, <1>8 DEF b

\* Nothing but the mailbox changes, and it gets no longer.
LEMMA FitShorter ==
  ASSUME NEW a, NEW b, Fit(a), a.mailbox \in Seq(Env), b.mailbox \in Seq(Env),
         Len(b.mailbox) <= Len(a.mailbox),
         b.body = a.body, b.limit = a.limit, b.finished = a.finished
  PROVE  Fit(b)
<1>1. Len(a.mailbox) \in Int /\ Len(b.mailbox) \in Int
  OBVIOUS
<1>2. Allowed(Len(a.mailbox))
  BY DEF Fit, WithinLimits
<1>3. Allowed(Len(b.mailbox))
  BY <1>1, <1>2, AllowedDown
<1> QED BY <1>3 DEF Fit, WithinLimits

LEMMA FitLimit ==
  ASSUME NEW Ids, NEW a \in ActorIn(Ids), Fit(a), NEW n \in Limits
  PROVE  Fit([a EXCEPT !.limit = AsLimit(n)])
<1> DEFINE lim == AsLimit(n)
           b == [a EXCEPT !.limit = lim]
<1>1. Allowed(lim)
  BY AllowedLimit
<1> HIDE DEF lim
<1>2. b.mailbox = a.mailbox /\ b.body = a.body /\ b.finished = a.finished /\ b.limit = lim
  BY DEF ActorIn
<1> HIDE DEF b
<1>3. Fit(b)
  BY <1>1, <1>2 DEF Fit, WithinLimits
<1> QED BY <1>3 DEF b, lim

\* What leaves a body is part of the program, and so is what comes back.
LEMMA FitBody ==
  ASSUME NEW Ids, NEW a \in ActorIn(Ids), Fit(a),
         NEW body \in Seq(ProgramStatements), NEW done \in BOOLEAN, done => body = << >>
  PROVE  Fit([a EXCEPT !.body = body, !.finished = done])
<1> DEFINE b == [a EXCEPT !.body = body, !.finished = done]
<1>1. b.mailbox = a.mailbox /\ b.body = body /\ b.finished = done /\ b.limit = a.limit
  BY DEF ActorIn
<1> HIDE DEF b
<1>2. Fit(b)
  BY <1>1 DEF Fit, WithinLimits
<1> QED BY <1>2 DEF b

-----------------------------------------------------------------------------
(* The state of every actor stays fit, one lemma per kind of step. *)

LEMMA SendFit ==
  ASSUME Base, AllFit, NEW to \in Nat, NEW n \in Int, ActorSend(to, n)
  PROVE  AllFit'
<1>0. /\ StateOK /\ HistoryOK
      /\ \A i \in DOMAIN actors : actors[i] \in ActorIn({i})
      /\ executing # Nobody => executing \in ActorIn(1..(nextId - 1))
  BY BaseParts, MailTypes
<1>1. Envelope(n) \in Env
  BY <1>0, EnvelopeType
<1>2. CASE to \in DOMAIN actors /\ HasRoom(actors[to]) /\ executing' = executing
           /\ actors' = [actors EXCEPT ![to] = Deliver(@, Envelope(n))]
  <2>1. Fit(Deliver(actors[to], Envelope(n)))
    BY <1>0, <1>1, <1>2, FitDeliver DEF AllFit
  <2>2. \A i \in DOMAIN actors' :
          actors'[i] = Deliver(actors[to], Envelope(n)) \/ (i \in DOMAIN actors /\ actors'[i] = actors[i])
    BY <1>2
  <2>3. \A i \in DOMAIN actors' : Fit(actors'[i])
    BY <2>1, <2>2 DEF AllFit
  <2> QED BY <1>2, <2>3 DEF AllFit
<1>3. CASE executing # Nobody /\ HasRoom(executing) /\ actors' = actors
           /\ executing' = Deliver(executing, Envelope(n))
  <2>1. Fit(executing') /\ ~executing'.finished
    BY <1>0, <1>1, <1>3, FitDeliver DEF AllFit
  <2> QED BY <1>3, <2>1 DEF AllFit
<1>4. CASE UNCHANGED <<actors, executing>>
  BY <1>4 DEF AllFit
<1> QED BY <1>2, <1>3, <1>4 DEF ActorSend, Refuse

LEMMA ReceiveFit ==
  ASSUME Base, AllFit, NEW value, ActorReceive(value) \/ ActorReceiveEnvelope(value)
  PROVE  AllFit'
<1>0. /\ executing # Nobody => executing \in ActorIn(1..(nextId - 1))
      /\ executing.mailbox \in Seq(Env)
  BY BaseParts, MailTypes
<1> DEFINE mb == executing.mailbox
<1>1. ASSUME NEW after, Consume(value, after), executing # Nobody, mb # << >>
      PROVE  AllFit'
  <2>1. executing' = [executing EXCEPT !.mailbox = Tail(mb), !.parked = after]
        /\ actors' = actors
    BY <1>1 DEF Consume
  <2>2. /\ executing'.mailbox = Tail(mb) /\ executing'.body = executing.body
        /\ executing'.limit = executing.limit /\ executing'.finished = executing.finished
    BY <1>0, <1>1, <2>1 DEF ActorIn
  <2>3. Tail(mb) \in Seq(Env) /\ Len(Tail(mb)) <= Len(mb)
    <3>1. mb \in Seq(Env) /\ mb # << >>
      BY <1>0, <1>1
    <3> HIDE DEF mb
    <3>2. Tail(mb) \in Seq(Env) /\ Len(Tail(mb)) = Len(mb) - 1 /\ Len(mb) \in Nat
      BY <3>1, HeadTailProperties
    <3> QED BY <3>2
  <2>4. Fit(executing')
    BY <1>0, <2>2, <2>3, FitShorter DEF AllFit
  <2> QED BY <2>1, <2>2, <2>4 DEF AllFit
<1>2. ASSUME Park(value), executing # Nobody
      PROVE  AllFit'
  <2>1. executing' = [executing EXCEPT !.parked = TRUE] /\ actors' = actors
    BY <1>2 DEF Park
  <2>2. /\ executing'.mailbox = executing.mailbox /\ executing'.body = executing.body
        /\ executing'.limit = executing.limit /\ executing'.finished = executing.finished
    BY <1>0, <1>2, <2>1 DEF ActorIn
  <2>3. Len(executing'.mailbox) <= Len(executing.mailbox)
    BY <1>0, <2>2
  <2>4. Fit(executing')
    BY <1>0, <2>2, <2>3, FitShorter DEF AllFit
  <2> QED BY <2>1, <2>2, <2>4 DEF AllFit
<1>3. ASSUME NoActorContext(value) PROVE AllFit'
  BY <1>3 DEF NoActorContext, AllFit
<1> QED BY <1>1, <1>2, <1>3 DEF ActorReceive, ActorReceiveEnvelope

LEMMA LimitFit ==
  ASSUME Base, AllFit, NEW to, NEW n \in Limits, ActorSetMailboxLimit(to, n)
  PROVE  AllFit'
<1>0. \A i \in DOMAIN actors : actors[i] \in ActorIn({i})
  BY BaseParts, MailTypes
<1>1. CASE to \in DOMAIN actors
  <2>1. actors' = [actors EXCEPT ![to] = [actors[to] EXCEPT !.limit = AsLimit(n)]]
        /\ executing' = executing
    BY <1>1 DEF ActorSetMailboxLimit
  <2>2. Fit([actors[to] EXCEPT !.limit = AsLimit(n)])
    BY <1>0, <1>1, FitLimit DEF AllFit
  <2> DEFINE a == [actors[to] EXCEPT !.limit = AsLimit(n)]
  <2> HIDE DEF a
  <2>3. actors' = [actors EXCEPT ![to] = a] /\ Fit(a)
    BY <2>1, <2>2 DEF a
  <2>4. \A i \in DOMAIN actors' : actors'[i] = a \/ (i \in DOMAIN actors /\ actors'[i] = actors[i])
    BY <2>3
  <2> QED BY <2>1, <2>3, <2>4 DEF AllFit
<1>2. CASE to \notin DOMAIN actors
  BY <1>2 DEF ActorSetMailboxLimit, AllFit
<1> QED BY <1>1, <1>2

LEMMA SpawnFit ==
  ASSUME Base, AllFit, NEW b \in Bodies, SpawnActor(b)
  PROVE  AllFit'
<1>1. /\ executing' = executing
      /\ \A i \in DOMAIN actors' :
           actors'[i] = NewActor(nextId, b) \/ (i \in DOMAIN actors /\ actors'[i] = actors[i])
  BY DEF SpawnActor, With
<1> QED BY <1>1, FitNew DEF AllFit

LEMMA BeginFit ==
  ASSUME Base, AllFit, NEW aid, BeginStatement(aid)
  PROVE  AllFit'
<1>1. /\ aid \in DOMAIN actors /\ ~actors[aid].finished /\ actors[aid].body # << >>
      /\ executing' = [actors[aid] EXCEPT !.body = Tail(actors[aid].body)]
      /\ \A i \in DOMAIN actors' : i \in DOMAIN actors /\ actors'[i] = actors[i]
  BY DEF BeginStatement, Without, Ready
<1>2. actors[aid] \in ActorIn({aid}) /\ Fit(actors[aid])
  BY <1>1, BaseParts, MailTypes DEF AllFit
<1> DEFINE body == actors[aid].body
           a == [actors[aid] EXCEPT !.body = Tail(body), !.finished = FALSE]
<1>3. Tail(body) \in Seq(ProgramStatements)
  <2>1. body \in Seq(ProgramStatements) /\ body # << >>
    BY <1>1, <1>2 DEF Fit
  <2> HIDE DEF body
  <2> QED BY <2>1
<1>4. Fit(a)
  BY <1>2, <1>3, FitBody
<1>5. executing' = a /\ ~a.finished
  BY <1>1, <1>2 DEF ActorIn
<1> HIDE DEF a
<1> QED BY <1>1, <1>4, <1>5 DEF AllFit

LEMMA EndStatementFit ==
  ASSUME Base, AllFit, FramesInProgram, EndStatement
  PROVE  AllFit'
<1>1. executing' = Nobody
  BY DEF EndStatement
<1>2. CASE executing = Nobody
  <2>1. actors' = actors
    BY <1>2 DEF EndStatement
  <2> QED BY <1>1, <2>1, FitNobody DEF AllFit
<1>3. CASE executing # Nobody
  <2> DEFINE body == BodyAfter(executing)
             done == FinishedAfter(executing, body)
             a == [executing EXCEPT !.body = body, !.finished = done]
  <2>1. actors' = With(Top.turn.aid, a)
    BY <1>3 DEF EndStatement
  <2>2. executing \in ActorIn(1..(nextId - 1)) /\ Fit(executing) /\ ~executing.finished
    BY <1>3, BaseParts, MailTypes DEF AllFit
  <2>3. Top.turn.stmt \in Seq(ProgramStatements)
    <3>1. runs # << >> /\ Top = runs[1] /\ 1 \in 1..Len(runs)
      BY BaseParts, TopType DEF EndStatement, Executing
    <3> QED BY <3>1 DEF FramesInProgram, TurnInProgram
  <2>4. body \in Seq(ProgramStatements)
    <3>1. executing.body \in Seq(ProgramStatements)
      BY <2>2 DEF Fit
    <3> QED BY <2>3, <3>1 DEF BodyAfter
  <2>5. done \in BOOLEAN /\ (done => body = << >>)
    BY <2>2 DEF FinishedAfter, ActorIn
  <2> HIDE DEF body, done
  <2>6. Fit(a)
    BY <2>2, <2>4, <2>5, FitBody
  <2> HIDE DEF a
  <2>7. \A i \in DOMAIN actors' : actors'[i] = a \/ (i \in DOMAIN actors /\ actors'[i] = actors[i])
    BY <2>1 DEF With
  <2> QED BY <1>1, <2>6, <2>7, FitNobody DEF AllFit
<1> QED BY <1>2, <1>3

LEMMA NextFit ==
  ASSUME Base, FromProgram, LimitsOK, FinishedOK, [Next]_vars
  PROVE  FromProgram' /\ LimitsOK' /\ FinishedOK'
<1>1. AllFit /\ FramesInProgram
  BY FitParts, ProgramParts
<1>2. ASSUME Still PROVE AllFit'
  BY <1>1, <1>2 DEF Still, AllFit
<1>3. ASSUME Forget PROVE AllFit'
  BY <1>1, <1>3, FitNobody DEF Forget, AllFit
<1>4. ASSUME EndRun PROVE AllFit'
  BY <1>1, <1>4 DEF EndRun, Without, AllFit
<1>5. AllFit'
  BY <1>1, <1>2, <1>3, <1>4, StepKinds, SendFit, ReceiveFit, LimitFit, SpawnFit,
     BeginFit, EndStatementFit
<1>6. BodiesInProgram' /\ LimitsOK' /\ FinishedOK'
  BY <1>5 DEF AllFit, Fit, BodiesInProgram, LimitsOK, FinishedOK
<1>7. FramesInProgram'
  BY NextFramesInProgram
<1> QED BY <1>6, <1>7
        DEF FromProgram, BodiesInProgram, FramesInProgram, TurnInProgram

-----------------------------------------------------------------------------
(* VisitedOK is preserved: what a pass has passed over without executing it *)
(* cannot be executed until something else is.                              *)

\* A frame that has visited nothing yet.
LEMMA VisitedFresh ==
  ASSUME StateOK, NEW f \in FrameType, f.cursor = 0
  PROVE  \A i \in f.ids \cap DOMAIN actors : ~(i <= f.cursor)
<1>1. f.ids \subseteq Nat \ {0}
  BY DEF FrameType
<1> QED BY <1>1

LEMMA VisitedBusy ==
  ASSUME runs' # << >> => Busy(runs'[1]) \/ runs'[1].progress
  PROVE  VisitedOK'
BY DEF VisitedOK, Busy

LEMMA NextVisited ==
  ASSUME Base, VisitedOK, [Next]_vars
  PROVE  VisitedOK'
<1>0. TInv /\ StateOK /\ FramesOK /\ runs \in Seq(FrameType)
  BY BaseParts DEF Base
<1>1. CASE HostSend \/ HostLimit \/ HostSpawn
  BY <1>1 DEF HostSend, HostLimit, HostSpawn, VisitedOK
<1>2. CASE HostRun
  <2>1. PICK max \in HostSteps : runs' = <<Frame(max)>> /\ actors' = actors
    BY <1>2 DEF HostRun
  <2>2. Frame(max) \in FrameType
    BY <1>0, ActorsAssumption, FrameInFrameType
  <2>3. Frame(max).cursor = 0
    BY DEF Frame
  <2>4. \A i \in Frame(max).ids \cap DOMAIN actors : ~(i <= Frame(max).cursor)
    BY <1>0, <2>2, <2>3, VisitedFresh
  <2>5. runs'[1] = Frame(max)
    BY <2>1
  <2> QED BY <2>1, <2>4, <2>5 DEF VisitedOK
<1>3. CASE NewPass
  <2>1. runs # << >> /\ Top \in FrameType /\ actors' = actors
    BY <1>0, <1>3, TopType DEF NewPass, Scheduling
  <2> DEFINE f == [Top EXCEPT !.cursor = 0, !.progress = FALSE]
  <2>2. f \in FrameType /\ f.cursor = 0 /\ SetTop(f)
    BY <1>3, <2>1 DEF NewPass, FrameType
  <2> HIDE DEF f
  <2>3. runs'[1] = f
    BY <1>0, <2>1, <2>2, SetTopAny
  <2>4. \A i \in f.ids \cap DOMAIN actors : ~(i <= f.cursor)
    BY <1>0, <2>2, VisitedFresh
  <2> QED BY <2>1, <2>3, <2>4 DEF VisitedOK
<1>4. ASSUME NEW aid, DropListed(aid) PROVE VisitedOK'
  <2>1. runs # << >> /\ Top \in FrameType /\ actors' = actors /\ ~Busy(Top)
    BY <1>0, <1>4, TopType DEF DropListed, IsNext, Scheduling
  <2> DEFINE f == [Top EXCEPT !.ids = @ \ {aid}]
  <2>2. /\ f.ids \subseteq Top.ids /\ f.cursor = Top.cursor /\ f.progress = Top.progress
        /\ SetTop(f)
    BY <1>4, <2>1 DEF DropListed, FrameType
  <2> HIDE DEF f
  <2>3. runs'[1] = f /\ Top = runs[1]
    BY <1>0, <2>1, <2>2, SetTopAny
  <2> QED BY <2>1, <2>2, <2>3 DEF VisitedOK
<1>5. ASSUME NEW aid, NEW f, IsNext(aid), aid \in DOMAIN actors, SetTop(f),
             actors' = actors, f.ids = Top.ids, f.cursor = aid, f.progress = Top.progress,
             actors[aid].parked \/ actors[aid].body = << >>
      PROVE  VisitedOK'
  <2>1. /\ runs # << >> /\ Top \in FrameType /\ ~Busy(Top)
        /\ \A i \in Top.ids : i > Top.cursor => aid <= i
    BY <1>0, <1>5, TopType DEF IsNext, Scheduling
  <2>2. runs'[1] = f /\ Top = runs[1]
    BY <1>0, <1>5, <2>1, SetTopAny
  <2>3. Top.ids \subseteq Nat /\ Top.cursor \in Nat /\ aid \in Nat
    BY <1>0, <1>5, <2>1 DEF FrameType, StateOK
  <2>4. \A i \in Top.ids : i <= aid => i <= Top.cursor \/ i = aid
    BY <2>1, <2>3
  <2> QED BY <1>5, <2>1, <2>2, <2>4 DEF VisitedOK
<1>6. ASSUME NEW aid, SkipActor(aid) PROVE VisitedOK'
  <2>1. runs # << >> /\ Top \in FrameType
    BY <1>0, <1>6, TopType DEF SkipActor, IsNext, Scheduling
  <2> DEFINE f == [Top EXCEPT !.cursor = aid]
  <2>2. f.ids = Top.ids /\ f.cursor = aid /\ f.progress = Top.progress /\ SetTop(f)
    BY <1>6, <2>1 DEF SkipActor, FrameType
  <2>3. /\ IsNext(aid) /\ aid \in DOMAIN actors /\ actors' = actors
        /\ actors[aid].parked \/ actors[aid].body = << >>
    BY <1>6 DEF SkipActor, Runnable
  <2> HIDE DEF f
  <2> QED BY <1>5, <2>2, <2>3
<1>7. ASSUME NEW aid, EmptyTurn(aid) PROVE VisitedOK'
  <2>1. runs # << >> /\ Top \in FrameType
    BY <1>0, <1>7, TopType DEF EmptyTurn, IsNext, Scheduling
  <2> DEFINE f == [Top EXCEPT !.cursor = aid, !.steps = Counted(Top)]
  <2>2. f.ids = Top.ids /\ f.cursor = aid /\ f.progress = Top.progress /\ SetTop(f)
    BY <1>7, <2>1 DEF EmptyTurn, FrameType
  <2>3. /\ IsNext(aid) /\ aid \in DOMAIN actors /\ actors' = actors
        /\ actors[aid].body = << >>
    BY <1>7 DEF EmptyTurn, Ready
  <2> HIDE DEF f
  <2> QED BY <1>5, <2>2, <2>3
<1>8. ASSUME NEW aid, BeginStatement(aid) PROVE VisitedOK'
  <2>1. runs # << >> /\ Top \in FrameType /\ aid \in DOMAIN actors
    BY <1>0, <1>8, TopType DEF BeginStatement, IsNext, Scheduling, Ready
  <2>2. PICK t : SetTurn(t) /\ t.aid = aid
    BY <1>8 DEF BeginStatement
  <2> DEFINE f == [Top EXCEPT !.turn = t]
  <2>3. f.turn = t /\ SetTop(f)
    BY <2>1, <2>2 DEF SetTurn, FrameType
  <2> HIDE DEF f
  <2>4. runs'[1] = f
    BY <1>0, <2>1, <2>3, SetTopAny
  <2>5. aid # 0
    BY <1>0, <2>1 DEF StateOK
  <2> QED BY <2>2, <2>3, <2>4, <2>5, VisitedBusy DEF Busy
<1>9. ASSUME NEW t, Executing, SetTurn(t), t.aid = Top.turn.aid
      PROVE  VisitedOK'
  <2>1. runs # << >> /\ Top \in FrameType /\ Top.turn.aid # 0
    BY <1>0, <1>9, TopType DEF Executing, Busy
  <2> DEFINE f == [Top EXCEPT !.turn = t]
  <2>2. f.turn = t /\ SetTop(f)
    BY <1>9, <2>1 DEF SetTurn, FrameType
  <2> HIDE DEF f
  <2>3. runs'[1] = f
    BY <1>0, <2>1, <2>2, SetTopAny
  <2> QED BY <1>9, <2>1, <2>2, <2>3, VisitedBusy DEF Busy
<1>10. CASE OpSend \/ OpLimit \/ OpSpawn \/ OpYield
  <2>1. Executing /\ Top.turn.ops # << >> /\ SetTurn(Popped)
    BY <1>10 DEF OpSend, OpLimit, OpSpawn, OpYield, Pending, PopOp
  <2>2. Popped.aid = Top.turn.aid
    BY <1>0, <2>1, PoppedType
  <2> QED BY <1>9, <2>1, <2>2
<1>11. CASE OpReceive
  <2>1. PICK value : /\ Executing /\ Top.turn.ops # << >>
                     /\ SetTurn([Popped EXCEPT !.got = Append(@, value)])
    BY <1>11 DEF OpReceive, Pending
  <2> DEFINE t == [Popped EXCEPT !.got = Append(@, value)]
  <2>2. Popped.aid = Top.turn.aid /\ Popped \in TurnType
    BY <1>0, <2>1, PoppedType
  <2>3. t.aid = Top.turn.aid /\ SetTurn(t)
    BY <2>1, <2>2 DEF TurnType
  <2> HIDE DEF t
  <2> QED BY <1>9, <2>1, <2>3
<1>12. CASE OpFail
  <2> DEFINE t == [Top.turn EXCEPT !.ops = << >>, !.failed = TRUE]
  <2>1. Executing /\ Top.turn.ops # << >> /\ SetTurn(t)
    BY <1>12 DEF OpFail, Pending
  <2>2. t.aid = Top.turn.aid
    BY <1>0, <2>1, PoppedType DEF TurnType
  <2> HIDE DEF t
  <2> QED BY <1>9, <2>1, <2>2
<1>13. CASE OpRun
  <2>1. /\ Executing /\ runs # << >> /\ Top.turn.ops # << >> /\ NextOp.op = "run"
        /\ runs' = <<Frame(NextOp.max), [Top EXCEPT !.turn = Popped]>> \o Tail(runs)
        /\ actors' = actors
    BY <1>13 DEF OpRun, Pending, Executing, NextOp
  <2> DEFINE g == Frame(NextOp.max)
             h == [Top EXCEPT !.turn = Popped]
  <2>2. g \in FrameType /\ g.cursor = 0
    <3>1. NextOp.max \in Nat \cup {Unlimited}
      BY <1>0, <2>1, PoppedType, OperationFields
    <3>2. g \in FrameType
      BY <1>0, <3>1, FrameInFrameType
    <3> QED BY <3>2 DEF Frame
  <2>3. runs'[1] = g
    <3>1. runs' = <<g, h>> \o Tail(runs)
      BY <2>1
    <3> HIDE DEF g, h
    <3> DEFINE F == FrameType \cup {g, h}
    <3>2. Tail(runs) \in Seq(FrameType)
      BY <1>0, <2>1, HeadTailProperties
    <3>3. Tail(runs) \in Seq(F) /\ g \in F /\ h \in F
      BY <3>2
    <3> HIDE DEF F
    <3>4. <<g, h>> \in Seq(F) /\ Len(<<g, h>>) = 2 /\ <<g, h>>[1] = g
      BY <3>3
    <3> QED BY <3>1, <3>3, <3>4, ConcatProperties
  <2>4. \A i \in g.ids \cap DOMAIN actors : ~(i <= g.cursor)
    BY <1>0, <2>2, VisitedFresh
  <2> HIDE DEF g
  <2> QED BY <2>1, <2>3, <2>4 DEF VisitedOK
<1>14. CASE EndStatement
  <2>1. runs # << >> /\ Top \in FrameType
    BY <1>0, <1>14, TopType DEF EndStatement, Executing
  <2> DEFINE f == [Top EXCEPT !.cursor = Top.turn.aid, !.steps = Counted(Top),
                              !.progress = TRUE, !.turn = NoTurn]
  <2>2. f.progress = TRUE /\ SetTop(f)
    BY <1>14, <2>1 DEF EndStatement, FrameType
  <2> HIDE DEF f
  <2>3. runs'[1] = f
    BY <1>0, <2>1, <2>2, SetTopAny
  <2> QED BY <2>2, <2>3, VisitedBusy
<1>15. CASE EndRun
  <2>1. runs # << >> /\ runs' = Tail(runs)
    BY <1>15 DEF EndRun, Scheduling
  <2>2. /\ runs' \in Seq(FrameType) /\ Len(runs) \in Nat /\ Len(runs') = Len(runs) - 1
        /\ \A i \in 1..Len(runs') : runs'[i] = runs[i + 1]
    BY <1>0, <2>1, HeadTailProperties
  <2>3. ASSUME runs' # << >> PROVE Busy(runs'[1])
    <3>1. 1 \in 1..Len(runs') /\ 2 \in 1..Len(runs) /\ 1 + 1 = 2
      BY <2>2, <2>3
    <3>2. runs'[1] = runs[2]
      BY <2>2, <3>1
    <3> QED BY <1>0, <3>1, <3>2 DEF FramesOK
  <2> QED BY <2>3, VisitedBusy
<1>16. CASE UNCHANGED vars
  BY <1>16 DEF vars, VisitedOK, Busy
<1> QED BY <1>1, <1>2, <1>3, <1>4, <1>6, <1>7, <1>8, <1>10, <1>11, <1>12, <1>13, <1>14,
           <1>15, <1>16 DEF Next, Host, Schedule, Operate

-----------------------------------------------------------------------------
(* Where the messages are: all the mail of a map f and a running actor e,   *)
(* and what each builtin does to it.                                        *)

MapMail(f) == UNION {MailOf(f[i]) : i \in DOMAIN f}

MailIn(f, e) == MapMail(f) \cup MailOf(e)

Mail == MailIn(actors, executing)

Message(t, to, p) == [ticket |-> t, to |-> to, priority |-> p]

LEMMA MailOfSame ==
  ASSUME NEW a, NEW b, b.mailbox = a.mailbox, b.id = a.id
  PROVE  MailOf(b) = MailOf(a)
BY DEF MailOf

LEMMA MailOfEmpty ==
  ASSUME NEW a, a.mailbox = << >>
  PROVE  MailOf(a) = {}
BY DEF MailOf

LEMMA MailOfNobody == MailOf(Nobody) = {}
BY MailOfEmpty DEF Nobody

\* A delivery adds one message.
LEMMA MailOfDeliver ==
  ASSUME NEW Ids, NEW a \in ActorIn(Ids), NEW env \in Env
  PROVE  MailOf(Deliver(a, env)) = MailOf(a) \cup {Message(env.ticket, a.id, env.priority)}
<1> DEFINE mb == a.mailbox
           w == LinearInsert(mb, env)
           k == InsertPos(mb, env)
           b == Deliver(a, env)
           M(e) == Message(e.ticket, a.id, e.priority)
<1>1. mb \in Seq(Env) /\ Len(mb) \in Nat
  BY DEF ActorIn, Env
<1>2. b.mailbox = w /\ b.id = a.id
  BY DEF Deliver, ActorIn
<1>3. MailOf(a) = {M(mb[i]) : i \in 1..Len(mb)}
  BY DEF MailOf, Message
<1>4. MailOf(b) = {M(w[i]) : i \in 1..Len(w)}
  BY <1>2 DEF MailOf, Message
<1> HIDE DEF mb, b
<1>5. \A e \in Env : e.priority \in Int
  BY DEF Env
<1>6. /\ Len(w) = Len(mb) + 1 /\ k \in 1..(Len(mb) + 1)
      /\ \A i \in 1..(Len(mb) + 1) :
           w[i] = IF i < k THEN mb[i] ELSE IF i = k THEN env ELSE mb[i - 1]
  BY <1>1, <1>5, LinearInsertProperties
<1> HIDE DEF w, k, M
<1>7. ASSUME NEW i \in 1..Len(w)
      PROVE  M(w[i]) \in {M(mb[j]) : j \in 1..Len(mb)} \cup {M(env)}
  <2>1. CASE i < k
    <3>1. i \in 1..Len(mb) /\ w[i] = mb[i]
      BY <2>1, <1>1, <1>6
    <3> QED BY <3>1
  <2>2. CASE i = k
    BY <2>2, <1>6
  <2>3. CASE i > k
    <3>1. i - 1 \in 1..Len(mb) /\ w[i] = mb[i - 1]
      BY <2>3, <1>1, <1>6
    <3> QED BY <3>1
  <2> QED BY <2>1, <2>2, <2>3, <1>1, <1>6
<1>8. ASSUME NEW j \in 1..Len(mb)
      PROVE  M(mb[j]) \in {M(w[i]) : i \in 1..Len(w)}
  <2>1. CASE j < k
    <3>1. j \in 1..Len(w) /\ w[j] = mb[j]
      BY <2>1, <1>1, <1>6
    <3> QED BY <3>1
  <2>2. CASE ~(j < k)
    <3>1. j + 1 \in 1..Len(w) /\ ~(j + 1 < k) /\ j + 1 # k /\ (j + 1) - 1 = j
      BY <2>2, <1>1, <1>6
    <3>2. w[j + 1] = mb[(j + 1) - 1]
      BY <3>1, <1>6
    <3>3. w[j + 1] = mb[j]
      BY <3>1, <3>2
    <3> QED BY <3>1, <3>3
  <2> QED BY <2>1, <2>2
<1>9. M(env) \in {M(w[i]) : i \in 1..Len(w)}
  <2>1. k \in 1..Len(w) /\ w[k] = env
    BY <1>1, <1>6
  <2> QED BY <2>1
<1>10. {M(w[i]) : i \in 1..Len(w)} = {M(mb[i]) : i \in 1..Len(mb)} \cup {M(env)}
  BY <1>7, <1>8, <1>9
<1>11. M(env) = Message(env.ticket, a.id, env.priority)
  BY DEF M
<1> QED BY <1>3, <1>4, <1>10, <1>11 DEF b

\* A receive removes one message, which no other place of the mailbox holds.
LEMMA MailOfTail ==
  ASSUME NEW a, a.mailbox \in Seq(Env), a.mailbox # << >>, InOrder(a.mailbox),
         NEW b, b.mailbox = Tail(a.mailbox), b.id = a.id,
         NEW r, r = Message(Head(a.mailbox).ticket, a.id, Head(a.mailbox).priority)
  PROVE  r \in MailOf(a) /\ MailOf(b) = MailOf(a) \ {r}
<1> DEFINE mb == a.mailbox
           w == Tail(mb)
           M(e) == Message(e.ticket, a.id, e.priority)
<1>1. mb \in Seq(Env) /\ mb # << >> /\ Len(mb) \in Nat /\ InOrder(mb)
  OBVIOUS
<1>2. MailOf(a) = {M(mb[i]) : i \in 1..Len(mb)}
  BY DEF MailOf, Message
<1>3. MailOf(b) = {M(w[i]) : i \in 1..Len(w)}
  BY DEF MailOf, Message
<1>4. r = M(Head(mb))
  OBVIOUS
<1> HIDE DEF mb
<1>5. Head(mb) = mb[1] /\ 1 \in 1..Len(mb)
  BY <1>1
<1>6. Len(w) = Len(mb) - 1 /\ \A i \in 1..Len(w) : w[i] = mb[i + 1]
  BY <1>1, HeadTailProperties
<1> HIDE DEF w
<1>7. ASSUME NEW i \in 1..Len(mb), i # 1 PROVE M(mb[i]) # M(mb[1])
  <2>1. 1 < i /\ mb[1] \in Env /\ mb[i] \in Env
    BY <1>1, <1>5, <1>7
  <2>2. \/ mb[1].priority > mb[i].priority
        \/ mb[1].priority = mb[i].priority /\ mb[1].ticket < mb[i].ticket
    BY <1>1, <1>5, <2>1 DEF InOrder
  <2>3. mb[1].priority # mb[i].priority \/ mb[1].ticket # mb[i].ticket
    BY <2>1, <2>2 DEF Env
  <2> QED BY <2>3 DEF Message
<1> HIDE DEF M
<1>8. ASSUME NEW i \in 1..Len(w) PROVE M(w[i]) \in {M(mb[j]) : j \in 1..Len(mb)} \ {M(mb[1])}
  <2>1. i + 1 \in 1..Len(mb) /\ i + 1 # 1 /\ w[i] = mb[i + 1]
    BY <1>1, <1>6
  <2> QED BY <2>1, <1>7
<1>9. ASSUME NEW j \in 1..Len(mb), M(mb[j]) # M(mb[1])
      PROVE  M(mb[j]) \in {M(w[i]) : i \in 1..Len(w)}
  <2>1. j - 1 \in 1..Len(w) /\ (j - 1) + 1 = j
    BY <1>1, <1>6, <1>9
  <2>2. w[j - 1] = mb[(j - 1) + 1]
    BY <2>1, <1>6
  <2> QED BY <2>1, <2>2
<1>10. {M(w[i]) : i \in 1..Len(w)} = {M(mb[j]) : j \in 1..Len(mb)} \ {M(mb[1])}
  BY <1>8, <1>9
<1> QED BY <1>2, <1>3, <1>4, <1>5, <1>10

\* One state of the map changes, or one is added.
LEMMA MapMailUpdate ==
  ASSUME NEW f, NEW g, NEW to \in DOMAIN f, DOMAIN g = DOMAIN f,
         \A i \in DOMAIN f : i # to => g[i] = f[i],
         NEW X, MailOf(g[to]) = MailOf(f[to]) \cup X
  PROVE  MapMail(g) = MapMail(f) \cup X
<1>1. \A i \in DOMAIN f : MailOf(g[i]) \subseteq MailOf(f[i]) \cup X
  OBVIOUS
<1>2. \A i \in DOMAIN f : MailOf(f[i]) \subseteq MailOf(g[i])
  OBVIOUS
<1>3. X \subseteq MailOf(g[to])
  OBVIOUS
<1>4. MapMail(g) \subseteq MapMail(f) \cup X
  BY <1>1 DEF MapMail
<1>5. MapMail(f) \subseteq MapMail(g)
  BY <1>2 DEF MapMail
<1>6. X \subseteq MapMail(g)
  BY <1>3 DEF MapMail
<1> QED BY <1>4, <1>5, <1>6

LEMMA MapMailAdd ==
  ASSUME NEW f, NEW g, NEW id, id \notin DOMAIN f, DOMAIN g = DOMAIN f \cup {id},
         \A i \in DOMAIN f : g[i] = f[i]
  PROVE  MapMail(g) = MapMail(f) \cup MailOf(g[id])
<1>1. MapMail(g) \subseteq MapMail(f) \cup MailOf(g[id])
  BY DEF MapMail
<1>2. MapMail(f) \subseteq MapMail(g)
  BY DEF MapMail
<1>3. MailOf(g[id]) \subseteq MapMail(g)
  BY DEF MapMail
<1> QED BY <1>1, <1>2, <1>3

\* A send adds its message, or none.
LEMMA SendMoves ==
  ASSUME Base, NEW to \in Nat, NEW n \in Int, ActorSend(to, n)
  PROVE  /\ ticket' = ticket + 1 /\ consumed' = consumed
         /\ \/ /\ accepted' = accepted \cup {Message(ticket, to, AsPriority(n))}
               /\ Mail' = Mail \cup {Message(ticket, to, AsPriority(n))}
            \/ accepted' = accepted /\ Mail' = Mail
<1> DEFINE m == Message(ticket, to, AsPriority(n))
           env == Envelope(n)
<1>0. /\ StateOK /\ HistoryOK
      /\ \A i \in DOMAIN actors : actors[i] \in ActorIn({i}) /\ actors[i].id = i
      /\ executing # Nobody => executing \in ActorIn(1..(nextId - 1))
  BY BaseParts, MailTypes
<1>1. env \in Env /\ env.ticket = ticket /\ env.priority = AsPriority(n)
  BY <1>0, EnvelopeType DEF Envelope
<1>2. ticket' = ticket + 1 /\ consumed' = consumed
  BY DEF ActorSend
<1> HIDE DEF env
<1>3. ASSUME to \in DOMAIN actors, executing' = executing, Accept(to, n),
             actors' = [actors EXCEPT ![to] = Deliver(@, env)]
      PROVE  accepted' = accepted \cup {m} /\ Mail' = Mail \cup {m}
  <2>1. MailOf(Deliver(actors[to], env)) = MailOf(actors[to]) \cup {m}
    <3>1. actors[to] \in ActorIn({to}) /\ actors[to].id = to
      BY <1>0, <1>3
    <3> QED BY <1>1, <3>1, MailOfDeliver
  <2>2. /\ to \in DOMAIN actors /\ DOMAIN actors' = DOMAIN actors
        /\ \A i \in DOMAIN actors : i # to => actors'[i] = actors[i]
        /\ actors'[to] = Deliver(actors[to], env)
    BY <1>3
  <2> HIDE DEF m
  <2>3. MapMail(actors') = MapMail(actors) \cup {m}
    <3>1. MailOf(actors'[to]) = MailOf(actors[to]) \cup {m}
      BY <2>1, <2>2
    <3> QED BY <2>2, <3>1, MapMailUpdate
  <2>4. accepted' = accepted \cup {m}
    BY <1>3 DEF Accept, Message, m
  <2> QED BY <1>3, <2>3, <2>4 DEF Mail, MailIn
<1>4. ASSUME executing # Nobody, executing.id = to, actors' = actors, Accept(to, n),
             executing' = Deliver(executing, env)
      PROVE  accepted' = accepted \cup {m} /\ Mail' = Mail \cup {m}
  <2>1. MailOf(Deliver(executing, env)) = MailOf(executing) \cup {m}
    <3>1. executing \in ActorIn(1..(nextId - 1)) /\ executing.id = to
      BY <1>0, <1>4
    <3> QED BY <1>1, <3>1, MailOfDeliver
  <2> HIDE DEF m
  <2>2. MailIn(actors, executing') = MailIn(actors, executing) \cup {m}
    BY <1>4, <2>1 DEF MailIn
  <2>3. accepted' = accepted \cup {m}
    BY <1>4 DEF Accept, Message, m
  <2> QED BY <1>4, <2>2, <2>3 DEF Mail
<1>5. ASSUME UNCHANGED <<actors, executing, accepted>>
      PROVE  accepted' = accepted /\ Mail' = Mail
  BY <1>5 DEF Mail
<1>6. \/ /\ to \in DOMAIN actors /\ executing' = executing /\ Accept(to, n)
         /\ actors' = [actors EXCEPT ![to] = Deliver(@, env)]
      \/ /\ executing # Nobody /\ executing.id = to /\ actors' = actors /\ Accept(to, n)
         /\ executing' = Deliver(executing, env)
      \/ UNCHANGED <<actors, executing, accepted>>
  BY DEF ActorSend, Refuse, env
<1> QED BY <1>2, <1>3, <1>4, <1>5, <1>6

\* A receive moves one message of the running actor to the receipts, or none.
LEMMA ReceiveMoves ==
  ASSUME Base, NEW value, ActorReceive(value) \/ ActorReceiveEnvelope(value)
  PROVE  /\ ticket' = ticket /\ accepted' = accepted
         /\ \/ consumed' = consumed /\ Mail' = Mail
            \/ \E r \in Mail : consumed' = Append(consumed, r) /\ Mail' = Mail \ {r}
<1>0. /\ StateOK /\ HistoryOK /\ RunningIsOut
      /\ \A i \in DOMAIN actors : actors[i] \in ActorIn({i}) /\ actors[i].id = i
      /\ executing # Nobody => executing \in ActorIn(1..(nextId - 1))
      /\ executing.mailbox \in Seq(Env)
      /\ Holds(executing, ticket, consumed)
  BY BaseParts, MailTypes, MailParts
<1>1. ticket' = ticket /\ accepted' = accepted
  BY DEF ActorReceive, ActorReceiveEnvelope
<1>2. ASSUME NEW after, Consume(value, after), executing # Nobody,
             executing.mailbox # << >>
      PROVE  \E r \in Mail : consumed' = Append(consumed, r) /\ Mail' = Mail \ {r}
  <2> DEFINE mb == executing.mailbox
             r == Message(Head(mb).ticket, executing.id, Head(mb).priority)
  <2>1. /\ executing' = [executing EXCEPT !.mailbox = Tail(mb), !.parked = after]
        /\ consumed' = Append(consumed, r)
        /\ actors' = actors
    BY <1>2 DEF Consume, Message
  <2>2. executing'.mailbox = Tail(mb) /\ executing'.id = executing.id
    BY <1>0, <1>2, <2>1 DEF ActorIn
  <2>3. InOrder(mb)
    BY <1>0 DEF Holds
  <2>4. r \in MailOf(executing) /\ MailOf(executing') = MailOf(executing) \ {r}
    BY <1>0, <1>2, <2>2, <2>3, MailOfTail
  <2>5. \A i \in DOMAIN actors : r \notin MailOf(actors[i])
    <3> SUFFICES ASSUME NEW i \in DOMAIN actors PROVE r \notin MailOf(actors[i])
      OBVIOUS
    <3>1. executing.id # i /\ actors[i].id = i
      BY <1>0, <1>2 DEF RunningIsOut
    <3>2. \A m \in MailOf(actors[i]) : m.to = i
      BY <3>1 DEF MailOf
    <3>3. r.to = executing.id
      BY DEF Message
    <3> QED BY <3>1, <3>2, <3>3
  <2> HIDE DEF r
  <2>6. r \in MailIn(actors, executing)
        /\ MailIn(actors, executing') = MailIn(actors, executing) \ {r}
    <3>1. r \notin MapMail(actors)
      BY <2>5 DEF MapMail
    <3> QED BY <2>4, <3>1 DEF MailIn
  <2> QED BY <2>1, <2>6 DEF Mail
<1>3. ASSUME Park(value), executing # Nobody
      PROVE  consumed' = consumed /\ Mail' = Mail
  <2>1. /\ executing' = [executing EXCEPT !.parked = TRUE]
        /\ actors' = actors /\ consumed' = consumed
    BY <1>3 DEF Park
  <2>2. executing'.mailbox = executing.mailbox /\ executing'.id = executing.id
    BY <1>0, <1>3, <2>1 DEF ActorIn
  <2>3. MailOf(executing') = MailOf(executing)
    BY <2>2, MailOfSame
  <2> QED BY <2>1, <2>3 DEF Mail, MailIn
<1>4. ASSUME NoActorContext(value)
      PROVE  consumed' = consumed /\ Mail' = Mail
  BY <1>4 DEF NoActorContext, Mail
<1>5. \/ NoActorContext(value)
      \/ /\ executing # Nobody /\ executing.mailbox # << >>
         /\ Consume(value, FALSE) \/ Consume(value, executing.parked)
      \/ executing # Nobody /\ Park(value)
  BY DEF ActorReceive, ActorReceiveEnvelope
<1> QED BY <1>1, <1>2, <1>3, <1>4, <1>5

\* The other builtins and the end of a statement move no message.
LEMMA LimitMoves ==
  ASSUME Base, NEW to, NEW n, ActorSetMailboxLimit(to, n)
  PROVE  Mail' = Mail
<1>1. CASE to \in DOMAIN actors
  <2> DEFINE a == [actors[to] EXCEPT !.limit = AsLimit(n)]
  <2>1. actors' = [actors EXCEPT ![to] = a] /\ executing' = executing
    BY <1>1 DEF ActorSetMailboxLimit
  <2>2. actors[to] \in ActorIn({to})
    BY <1>1, BaseParts, MailTypes
  <2>3. a.mailbox = actors[to].mailbox /\ a.id = actors[to].id
    BY <2>2 DEF ActorIn
  <2> HIDE DEF a
  <2>4. MailOf(a) = MailOf(actors[to])
    BY <2>3, MailOfSame
  <2>5. /\ DOMAIN actors' = DOMAIN actors /\ actors'[to] = a
        /\ \A i \in DOMAIN actors : i # to => actors'[i] = actors[i]
    BY <1>1, <2>1
  <2>6. MapMail(actors') = MapMail(actors) \cup {}
    <3>1. MailOf(actors'[to]) = MailOf(actors[to]) \cup {}
      BY <2>4, <2>5
    <3> QED BY <1>1, <2>5, <3>1, MapMailUpdate
  <2> QED BY <2>1, <2>6 DEF Mail, MailIn
<1>2. CASE to \notin DOMAIN actors
  BY <1>2 DEF ActorSetMailboxLimit, Mail
<1> QED BY <1>1, <1>2

LEMMA SpawnMoves ==
  ASSUME Base, NEW b, SpawnActor(b)
  PROVE  Mail' = Mail
<1>1. /\ executing' = executing /\ DOMAIN actors' = DOMAIN actors \cup {nextId}
      /\ actors'[nextId] = NewActor(nextId, b)
      /\ \A i \in DOMAIN actors : i # nextId => actors'[i] = actors[i]
  BY DEF SpawnActor, With
<1>2. nextId \notin DOMAIN actors
  BY BaseParts DEF StateOK
<1>3. MailOf(NewActor(nextId, b)) = {}
  BY MailOfEmpty DEF NewActor
<1>4. \A i \in DOMAIN actors : actors'[i] = actors[i]
  BY <1>1, <1>2
<1>5. MapMail(actors') = MapMail(actors) \cup {}
  BY <1>1, <1>2, <1>3, <1>4, MapMailAdd
<1> QED BY <1>1, <1>5 DEF Mail, MailIn

\* A statement begins or is skipped: the mail of a state that executing_actor
\* held before is overwritten.
LEMMA BeginMoves ==
  ASSUME Base, NEW aid, BeginStatement(aid)
  PROVE  Mail' \cup MailOf(executing) = Mail
<1>1. /\ aid \in DOMAIN actors
      /\ executing' = [actors[aid] EXCEPT !.body = Tail(actors[aid].body)]
      /\ DOMAIN actors' = DOMAIN actors \ {aid}
      /\ \A i \in DOMAIN actors \ {aid} : actors'[i] = actors[i]
  BY DEF BeginStatement, Without, Ready
<1>2. actors[aid] \in ActorIn({aid})
  BY <1>1, BaseParts, MailTypes
<1>3. executing'.mailbox = actors[aid].mailbox /\ executing'.id = actors[aid].id
  BY <1>1, <1>2 DEF ActorIn
<1>4. MailOf(executing') = MailOf(actors[aid])
  BY <1>3, MailOfSame
<1>5. MapMail(actors) = MapMail(actors') \cup MailOf(actors[aid])
  <2>1. /\ aid \notin DOMAIN actors' /\ DOMAIN actors = DOMAIN actors' \cup {aid}
        /\ \A i \in DOMAIN actors' : actors[i] = actors'[i]
    BY <1>1
  <2> QED BY <2>1, MapMailAdd
<1> QED BY <1>4, <1>5 DEF Mail, MailIn

LEMMA ForgetMoves ==
  ASSUME Forget
  PROVE  Mail' \cup MailOf(executing) = Mail
BY MailOfNobody DEF Forget, Mail, MailIn

LEMMA EndStatementMoves ==
  ASSUME Base, EndStatement
  PROVE  Mail' = Mail
<1>1. executing' = Nobody
  BY DEF EndStatement
<1>2. CASE executing = Nobody
  <2>1. actors' = actors
    BY <1>2 DEF EndStatement
  <2> QED BY <1>1, <1>2, <2>1 DEF Mail
<1>3. CASE executing # Nobody
  <2>1. PICK body, done :
          actors' = With(Top.turn.aid, [executing EXCEPT !.body = body, !.finished = done])
    BY <1>3 DEF EndStatement
  <2> DEFINE a == [executing EXCEPT !.body = body, !.finished = done]
             aid == Top.turn.aid
  <2>2. executing \in ActorIn(1..(nextId - 1))
    BY <1>3, BaseParts, MailTypes
  <2>3. a.mailbox = executing.mailbox /\ a.id = executing.id
    BY <2>2 DEF ActorIn
  <2>4. executing.id = aid /\ aid \notin DOMAIN actors
    BY <1>3, BaseParts, TopType DEF EndStatement, Executing, ExecutingOK, RunningIsOut
  <2>5. actors' = With(aid, a)
    BY <2>1
  <2> HIDE DEF a, aid
  <2>6. MailOf(a) = MailOf(executing)
    BY <2>3, MailOfSame
  <2>7. /\ DOMAIN actors' = DOMAIN actors \cup {aid} /\ actors'[aid] = a
        /\ \A i \in DOMAIN actors : actors'[i] = actors[i]
    BY <2>4, <2>5 DEF With
  <2>8. MapMail(actors') = MapMail(actors) \cup MailOf(executing)
    BY <2>4, <2>6, <2>7, MapMailAdd
  <2> QED BY <1>1, <2>8, MailOfNobody DEF Mail, MailIn
<1> QED BY <1>2, <1>3

\* The end of a run removes the mail of finished actors.
LEMMA EndRunMoves ==
  ASSUME Base, EndRun
  PROVE  /\ Mail' \subseteq Mail
         /\ \A m \in Mail \ Mail' : m.to \in DOMAIN actors /\ actors[m.to].finished
<1>1. /\ executing' = executing /\ DOMAIN actors' = DOMAIN actors \ FinishedIds
      /\ \A i \in DOMAIN actors \ FinishedIds : actors'[i] = actors[i]
  BY DEF EndRun, Without
<1>2. Mail' \subseteq Mail
  BY <1>1 DEF Mail, MailIn, MapMail
<1>3. ASSUME NEW m \in Mail, m \notin Mail'
      PROVE  m.to \in DOMAIN actors /\ actors[m.to].finished
  <2>1. PICK i \in DOMAIN actors : m \in MailOf(actors[i]) /\ i \in FinishedIds
    BY <1>1, <1>3 DEF Mail, MailIn, MapMail
  <2>2. m.to = actors[i].id
    BY <2>1 DEF MailOf
  <2>3. actors[i].id = i
    BY <2>1, BaseParts, MailTypes
  <2> QED BY <2>1, <2>2, <2>3 DEF FinishedIds
<1> QED BY <1>2, <1>3

-----------------------------------------------------------------------------
(* OnceOK is preserved. *)

LEMMA OnceParts ==
  OnceOK <=> /\ Mail \subseteq accepted \ Received
             /\ Received \subseteq accepted
             /\ \A e \in accepted : e.ticket < ticket
             /\ \A e, f \in accepted : e.ticket = f.ticket => e = f
             /\ \A i, j \in 1..Len(consumed) : i # j => consumed[i].ticket # consumed[j].ticket
BY DEF OnceOK, Mail, MailIn, MapMail

LEMMA OncePartsNext ==
  /\ Mail' \subseteq accepted' \ Received'
  /\ Received' \subseteq accepted'
  /\ \A e \in accepted' : e.ticket < ticket'
  /\ \A e, f \in accepted' : e.ticket = f.ticket => e = f
  /\ \A i, j \in 1..Len(consumed') : i # j => consumed'[i].ticket # consumed'[j].ticket
  => OnceOK'
BY DEF OnceOK, Mail, MailIn, MapMail

\* Mail is not created, and what the history says stays as it is.
LEMMA OnceKept ==
  ASSUME OnceOK, Mail' \subseteq Mail, ticket' = ticket, accepted' = accepted,
         consumed' = consumed
  PROVE  OnceOK'
<1>1. Received' = Received
  BY DEF Received
<1> QED BY <1>1, OnceParts, OncePartsNext

LEMMA SendOnce ==
  ASSUME Base, OnceOK, NEW to \in Nat, NEW n \in Int, ActorSend(to, n)
  PROVE  OnceOK'
<1> DEFINE m == Message(ticket, to, AsPriority(n))
<1>1. /\ ticket' = ticket + 1 /\ consumed' = consumed
      /\ \/ accepted' = accepted \cup {m} /\ Mail' = Mail \cup {m}
         \/ accepted' = accepted /\ Mail' = Mail
  BY SendMoves
<1>2. ticket \in Nat /\ accepted \subseteq [ticket : Nat, to : Nat, priority : Int]
  BY BaseParts DEF HistoryOK
<1>3. m.ticket = ticket
  BY DEF Message
<1> HIDE DEF m
<1>4. Received' = Received
  BY <1>1 DEF Received
<1>5. \A e \in accepted : e.ticket \in Nat
  BY <1>2
<1>6. /\ Mail \subseteq accepted \ Received /\ Received \subseteq accepted
      /\ \A e \in accepted : e.ticket < ticket
      /\ \A e, f \in accepted : e.ticket = f.ticket => e = f
      /\ \A i, j \in 1..Len(consumed) : i # j => consumed[i].ticket # consumed[j].ticket
  BY OnceParts
<1>7. m \notin Received
  BY <1>2, <1>3, <1>6
<1>8. Mail' \subseteq accepted' \ Received' /\ Received' \subseteq accepted'
  BY <1>1, <1>4, <1>6, <1>7
<1>9. \A e \in accepted' : e.ticket < ticket'
  <2> SUFFICES ASSUME NEW e \in accepted' PROVE e.ticket < ticket'
    OBVIOUS
  <2>1. CASE e \in accepted
    <3>1. e.ticket < ticket /\ e.ticket \in Nat
      BY <2>1, <1>5, <1>6
    <3> QED BY <3>1, <1>1, <1>2
  <2>2. CASE e = m
    BY <2>2, <1>1, <1>2, <1>3
  <2> QED BY <2>1, <2>2, <1>1
<1>10. \A e, f \in accepted' : e.ticket = f.ticket => e = f
  <2>1. \A e \in accepted : e.ticket # m.ticket
    BY <1>2, <1>3, <1>5, <1>6
  <2> QED BY <2>1, <1>1, <1>6
<1> QED BY <1>1, <1>6, <1>8, <1>9, <1>10, OncePartsNext

LEMMA ReceiveOnce ==
  ASSUME Base, OnceOK, NEW value, ActorReceive(value) \/ ActorReceiveEnvelope(value)
  PROVE  OnceOK'
<1>1. /\ ticket' = ticket /\ accepted' = accepted
      /\ \/ consumed' = consumed /\ Mail' = Mail
         \/ \E r \in Mail : consumed' = Append(consumed, r) /\ Mail' = Mail \ {r}
  BY ReceiveMoves
<1>2. ASSUME NEW r \in Mail, consumed' = Append(consumed, r), Mail' = Mail \ {r}
      PROVE  OnceOK'
  <2>1. /\ Mail \subseteq accepted \ Received /\ Received \subseteq accepted
        /\ \A e \in accepted : e.ticket < ticket
        /\ \A e, f \in accepted : e.ticket = f.ticket => e = f
        /\ \A i, j \in 1..Len(consumed) : i # j => consumed[i].ticket # consumed[j].ticket
    BY OnceParts
  <2>2. /\ Len(consumed) \in Nat /\ Len(consumed') = Len(consumed) + 1
        /\ consumed'[Len(consumed) + 1] = r
        /\ \A j \in 1..Len(consumed) : consumed'[j] = consumed[j]
    <3>1. consumed \in Seq(Receipt)
      BY BaseParts, MailTypes
    <3>2. consumed \in Seq(Receipt \cup {r}) /\ r \in Receipt \cup {r}
      BY <3>1
    <3> QED BY <1>2, <3>1, <3>2, AppendProperties
  <2>3. Received' = Received \cup {r}
    <3>1. \A j \in 1..Len(consumed') : j \in 1..Len(consumed) \/ j = Len(consumed) + 1
      BY <2>2
    <3>2. Received' \subseteq Received \cup {r}
      BY <2>2, <3>1 DEF Received
    <3>3. \A j \in 1..Len(consumed) : j \in 1..Len(consumed') /\ consumed'[j] = consumed[j]
      BY <2>2
    <3>4. Received \subseteq Received'
      BY <3>3 DEF Received
    <3>5. r \in Received'
      <4>1. Len(consumed) + 1 \in 1..Len(consumed')
        BY <2>2
      <4> QED BY <4>1, <2>2 DEF Received
    <3> QED BY <3>2, <3>4, <3>5
  <2>4. Mail' \subseteq accepted' \ Received' /\ Received' \subseteq accepted'
    BY <1>1, <1>2, <2>1, <2>3
  <2>5. \A j \in 1..Len(consumed) : consumed[j].ticket # r.ticket
    <3>1. \A j \in 1..Len(consumed) : consumed[j] \in Received
      BY DEF Received
    <3>2. r \in accepted /\ r \notin Received
      BY <2>1
    <3> QED BY <2>1, <3>1, <3>2
  <2>6. ASSUME NEW i \in 1..Len(consumed'), NEW j \in 1..Len(consumed'), i # j
        PROVE  consumed'[i].ticket # consumed'[j].ticket
    <3>1. CASE i \in 1..Len(consumed) /\ j \in 1..Len(consumed)
      BY <2>1, <2>2, <2>6, <3>1
    <3>2. CASE i \in 1..Len(consumed) /\ j = Len(consumed) + 1
      BY <2>2, <2>5, <3>2
    <3>3. CASE i = Len(consumed) + 1 /\ j \in 1..Len(consumed)
      BY <2>2, <2>5, <3>3
    <3> QED BY <2>2, <2>6, <3>1, <3>2, <3>3
  <2> QED BY <1>1, <2>1, <2>4, <2>6, OncePartsNext
<1>3. ASSUME consumed' = consumed, Mail' = Mail PROVE OnceOK'
  BY <1>1, <1>3, OnceKept
<1> QED BY <1>1, <1>2, <1>3

LEMMA NextOnce ==
  ASSUME Base, FromProgram, OnceOK, [Next]_vars
  PROVE  OnceOK'
<1>1. CASE Still
  BY <1>1, OnceKept DEF Still, history, Mail
<1>2. CASE Forget
  <2>1. Mail' \subseteq Mail
    BY <1>2, ForgetMoves
  <2> QED BY <1>2, <2>1, OnceKept DEF Forget, history
<1>3. CASE EndRun
  BY <1>3, EndRunMoves, OnceKept DEF EndRun, history
<1>4. CASE EndStatement
  BY <1>4, EndStatementMoves, OnceKept DEF EndStatement
<1>5. ASSUME NEW to, NEW n, ActorSetMailboxLimit(to, n) PROVE OnceOK'
  BY <1>5, LimitMoves, OnceKept DEF ActorSetMailboxLimit, history
<1>6. ASSUME NEW b, SpawnActor(b) PROVE OnceOK'
  BY <1>6, SpawnMoves, OnceKept DEF SpawnActor, history
<1>7. ASSUME NEW aid, BeginStatement(aid) PROVE OnceOK'
  <2>1. Mail' \subseteq Mail
    BY <1>7, BeginMoves
  <2> QED BY <1>7, <2>1, OnceKept DEF BeginStatement, history
<1> QED BY <1>1, <1>2, <1>3, <1>4, <1>5, <1>6, <1>7, StepKinds, SendOnce, ReceiveOnce

-----------------------------------------------------------------------------
(* The theorems. *)

\* The part of IInv about whole runs.
RunInv == OnceOK /\ FromProgram /\ LimitsOK /\ FinishedOK /\ VisitedOK

LEMMA InitRun == Init => RunInv
<1> SUFFICES ASSUME Init PROVE RunInv
  OBVIOUS
<1>1. /\ actors = << >> /\ executing = Nobody /\ runs = << >> /\ consumed = << >>
      /\ accepted = {}
  BY DEF Init
<1>2. DOMAIN actors = {} /\ Len(runs) = 0 /\ Len(consumed) = 0
  BY <1>1
<1>3. Received = {}
  BY <1>2 DEF Received
<1>4. OnceOK
  BY <1>1, <1>2, <1>3, MailOfNobody DEF OnceOK
<1>5. AllFit /\ FramesInProgram
  BY <1>1, <1>2, FitNobody DEF AllFit, FramesInProgram
<1>6. VisitedOK
  BY <1>1 DEF VisitedOK
<1> QED BY <1>4, <1>5, <1>6, FitParts, ProgramParts DEF RunInv

LEMMA NextRun == Base /\ RunInv /\ [Next]_vars => RunInv'
BY NextOnce, NextFit, NextVisited DEF RunInv

LEMMA RunAlways == Spec => [](Base /\ RunInv)
<1>1. Init => Base /\ RunInv
  BY InitTypes, InitMail, InitRun DEF Base
<1>2. Base /\ RunInv /\ [Next]_vars => Base' /\ RunInv'
  <2>1. Base /\ [Next]_vars => TInv' /\ MailOK'
    BY NextTypes, NextMail DEF Base
  <2> QED BY <2>1, NextRun DEF Base
<1> QED BY <1>1, <1>2, PTL DEF Spec

\* The messages of the actors that exist are the mail of the map and of the
\* running actor.
QueuedInMail == Queued = Mail

LEMMA QueuedIsMail ==
  ASSUME Base
  PROVE  QueuedInMail
<1> SUFFICES Queued = Mail
  BY DEF QueuedInMail
<1>0. /\ RunningIsOut
      /\ \A i \in DOMAIN actors : actors[i].id = i
  BY BaseParts, MailTypes
<1>1. \A i \in DOMAIN actors : QueuedAt(i) = MailOf(actors[i])
  BY <1>0 DEF QueuedAt, MailOf, State
<1>2. executing # Nobody => QueuedAt(executing.id) = MailOf(executing)
  BY <1>0 DEF QueuedAt, MailOf, State, RunningIsOut
<1>3. UNION {QueuedAt(i) : i \in DOMAIN actors} = MapMail(actors)
  BY <1>1 DEF MapMail
<1>4. CASE executing = Nobody
  BY <1>3, <1>4, MailOfNobody DEF Queued, Live, Mail, MailIn
<1>5. CASE executing # Nobody
  <2>1. Live = DOMAIN actors \cup {executing.id}
    BY <1>5 DEF Live
  <2>2. ASSUME NEW m \in Queued PROVE m \in Mail
    <3>1. PICK i \in DOMAIN actors \cup {executing.id} : m \in QueuedAt(i)
      BY <2>1, <2>2 DEF Queued
    <3>2. CASE i \in DOMAIN actors
      BY <3>1, <3>2, <1>1 DEF Mail, MailIn, MapMail
    <3>3. CASE i = executing.id
      BY <3>1, <3>3, <1>2, <1>5 DEF Mail, MailIn
    <3> QED BY <3>1, <3>2, <3>3
  <2>3. ASSUME NEW m \in Mail PROVE m \in Queued
    <3>1. CASE m \in MapMail(actors)
      BY <3>1, <2>1, <1>1 DEF MapMail, Queued
    <3>2. CASE m \in MailOf(executing)
      BY <3>2, <2>1, <1>2, <1>5 DEF Queued
    <3> QED BY <2>3, <3>1, <3>2 DEF Mail, MailIn
  <2> QED BY <2>2, <2>3
<1> QED BY <1>4, <1>5

\* A message that actor_send accepted is at any time in at most one place:
\* queued at its receiver, or received once by it, whatever the statements,
\* retries, nested runs and limits do; a refused message is nowhere.
THEOREM MessagesOnce == Spec => []EachMessageOnce
<1>1. Base /\ RunInv => EachMessageOnce
  BY QueuedIsMail, OnceParts DEF RunInv, EachMessageOnce, QueuedInMail
<1> QED BY <1>1, RunAlways, PTL

\* A mailbox is never longer than a limit it can have had: the initial one,
\* or one that actor_set_mailbox_limit set.
THEOREM MailboxesBounded == Spec => []BoundedMailbox
<1>1. LimitsOK => BoundedMailbox
  BY DEF LimitsOK, WithinLimits, BoundedMailbox, Live, State
<1> QED BY <1>1, RunAlways, PTL DEF RunInv

\* Only the end of a run takes a frame off, and it leaves the states of the
\* actors it keeps as they were.
LEMMA FramesStay ==
  ASSUME Base, [Next]_vars, ~EndRun
  PROVE  Len(runs') >= Len(runs)
<1>0. runs \in Seq(FrameType) /\ Len(runs) \in Nat
  BY BaseParts
<1>1. ASSUME runs' = runs PROVE Len(runs') >= Len(runs)
  BY <1>0, <1>1
<1>2. ASSUME runs # << >>, NEW f, SetTop(f) PROVE Len(runs') >= Len(runs)
  BY <1>0, <1>2, SetTopAny
<1>3. ASSUME NEW aid, DropListed(aid) \/ SkipActor(aid) \/ EmptyTurn(aid)
                      \/ BeginStatement(aid)
      PROVE  Len(runs') >= Len(runs)
  BY <1>2, <1>3 DEF DropListed, SkipActor, EmptyTurn, BeginStatement, IsNext, Scheduling, SetTurn
<1>4. CASE NewPass \/ OpSend \/ OpReceive \/ OpLimit \/ OpSpawn \/ OpYield \/ OpFail
           \/ EndStatement
  BY <1>2, <1>4 DEF NewPass, OpSend, OpReceive, OpLimit, OpSpawn, OpYield, OpFail, EndStatement,
                    Pending, Executing, Scheduling, PopOp, SetTurn
<1>5. CASE HostRun
  <2>1. runs = << >>
    BY <1>5 DEF HostRun
  <2>2. PICK max : runs' = <<Frame(max)>>
    BY <1>5 DEF HostRun
  <2> QED BY <2>1, <2>2
<1>6. CASE OpRun
  <2> DEFINE g == Frame(NextOp.max)
             h == [Top EXCEPT !.turn = Popped]
  <2>1. runs # << >> /\ runs' = <<g, h>> \o Tail(runs)
    BY <1>6 DEF OpRun, Pending, Executing
  <2> HIDE DEF g, h
  <2> DEFINE F == FrameType \cup {g, h}
  <2>2. Tail(runs) \in Seq(FrameType) /\ Len(Tail(runs)) = Len(runs) - 1
    BY <1>0, <2>1, HeadTailProperties
  <2>3. Tail(runs) \in Seq(F) /\ g \in F /\ h \in F
    BY <2>2
  <2> HIDE DEF F
  <2>4. <<g, h>> \in Seq(F) /\ Len(<<g, h>>) = 2
    BY <2>3
  <2>5. Len(runs') = 2 + (Len(runs) - 1)
    BY <2>1, <2>2, <2>3, <2>4, ConcatProperties
  <2> QED BY <1>0, <2>5
<1>7. CASE HostSend \/ HostLimit \/ HostSpawn \/ UNCHANGED vars
  BY <1>1, <1>7 DEF HostSend, HostLimit, HostSpawn, vars
<1> QED BY <1>3, <1>4, <1>5, <1>6, <1>7 DEF Next, Host, Schedule, Operate

\* An unlimited run returns only at quiescence: of the actors it still lists,
\* each that exists is parked or has executed its body, also when actors run
\* nested runs, park, retry and send to each other meanwhile.
THEOREM ReturnsQuiescent == Spec => QuiescentAtReturn
<1> DEFINE Q == \A f \in {runs[i] : i \in 1..Len(runs)} :
                  Returns(f) /\ f.max = Unlimited =>
                    \A i \in f.ids \cap DOMAIN actors' :
                      actors'[i].parked \/ actors'[i].body = << >>
<1>1. ASSUME Base, RunInv, [Next]_vars PROVE Q
  <2>1. CASE EndRun
    <3>1. /\ runs # << >> /\ ~Busy(Top) /\ Finishes(Top)
          /\ \A i \in DOMAIN actors' : i \in DOMAIN actors /\ actors'[i] = actors[i]
      BY <2>1 DEF EndRun, Scheduling, Without
    <3>2. Top = runs[1]
      BY <1>1, <3>1, BaseParts, TopType
    <3>3. CASE Exhausted(Top)
      BY <3>3 DEF Exhausted, Returns
    <3>4. CASE PassOver(Top) /\ ~Top.progress
      <4>1. \A i \in Top.ids \cap DOMAIN actors :
              actors[i].parked \/ actors[i].body = << >>
        BY <1>1, <3>1, <3>2, <3>4 DEF RunInv, VisitedOK, PassOver
      <4> QED BY <3>1, <4>1 DEF Returns
    <3> QED BY <3>1, <3>3, <3>4 DEF Finishes
  <2>2. CASE ~EndRun
    <3>1. Len(runs') >= Len(runs) /\ Len(runs) \in Nat
      BY <1>1, <2>2, FramesStay, BaseParts
    <3>2. \A f : ~Returns(f)
      <4>1. CASE Len(runs') > Len(runs) \/ Len(runs') = Len(runs)
        BY <3>1, <4>1 DEF Returns
      <4> QED BY <3>1, <4>1
    <3> QED BY <3>2
  <2> QED BY <2>1, <2>2
<1>2. Base /\ RunInv /\ [Next]_vars => [Q]_vars
  BY <1>1
<1>3. QuiescentAtReturn <=> [][Q]_vars
  BY DEF QuiescentAtReturn
<1> QED BY <1>2, <1>3, RunAlways, PTL DEF Spec

-----------------------------------------------------------------------------
(* Programs whose actors do not call run_actors: the scheduler never finds  *)
(* executing_actor occupied, so it never overwrites the state in it.        *)

RunFree == \A o \in ProgramOps : o.op # "run"

OneRun == Len(runs) <= 1

LEMMA NextOneRun ==
  ASSUME RunFree, Base, FromProgram, OneRun, [Next]_vars
  PROVE  OneRun'
<1>0. runs \in Seq(FrameType) /\ Len(runs) \in Nat
  BY BaseParts
<1>1. ASSUME runs' = runs PROVE OneRun'
  BY <1>1 DEF OneRun
<1>2. ASSUME runs # << >>, NEW f, SetTop(f) PROVE OneRun'
  BY <1>0, <1>2, SetTopAny DEF OneRun
<1>3. ASSUME NEW aid, DropListed(aid) \/ SkipActor(aid) \/ EmptyTurn(aid)
                      \/ BeginStatement(aid)
      PROVE  OneRun'
  BY <1>2, <1>3 DEF DropListed, SkipActor, EmptyTurn, BeginStatement, IsNext, Scheduling, SetTurn
<1>4. CASE NewPass \/ OpSend \/ OpReceive \/ OpLimit \/ OpSpawn \/ OpYield \/ OpFail
           \/ EndStatement
  BY <1>2, <1>4 DEF NewPass, OpSend, OpReceive, OpLimit, OpSpawn, OpYield, OpFail, EndStatement,
                    Pending, Executing, Scheduling, PopOp, SetTurn
<1>5. CASE HostRun
  <2>1. PICK max : runs' = <<Frame(max)>>
    BY <1>5 DEF HostRun
  <2> QED BY <2>1 DEF OneRun
<1>6. CASE OpRun
  <2>1. Executing /\ Top.turn.ops # << >> /\ NextOp.op = "run"
    BY <1>6 DEF OpRun, Pending, NextOp
  <2>2. NextOp \in ProgramOps
    BY <2>1, NextOpInProgram
  <2> QED BY <2>1, <2>2 DEF RunFree
<1>7. CASE EndRun
  <2>1. runs # << >> /\ runs' = Tail(runs)
    BY <1>7 DEF EndRun, Scheduling
  <2>2. Len(runs') = Len(runs) - 1
    BY <1>0, <2>1, HeadTailProperties
  <2> QED BY <1>0, <2>2 DEF OneRun
<1>8. CASE HostSend \/ HostLimit \/ HostSpawn \/ UNCHANGED vars
  BY <1>1, <1>8 DEF HostSend, HostLimit, HostSpawn, vars
<1> QED BY <1>3, <1>4, <1>5, <1>6, <1>7, <1>8 DEF Next, Host, Schedule, Operate

LEMMA NobodyRuns ==
  ASSUME Base, OneRun, Scheduling
  PROVE  executing = Nobody
<1>1. runs # << >> /\ ~Busy(runs[1]) /\ Len(runs) \in Nat
  BY BaseParts, TopType DEF Scheduling
<1> QED BY <1>1, BaseParts DEF ExecutingOK, OneRun

\* Then the end of a run is the only step after which mail is missing.
LEMMA NothingLost ==
  ASSUME Base, FromProgram, OneRun, [Next]_vars, ~EndRun
  PROVE  accepted' \ (Mail' \cup Received') \subseteq accepted \ (Mail \cup Received)
<1> DEFINE Goal == accepted' \ (Mail' \cup Received') \subseteq accepted \ (Mail \cup Received)
<1>1. ASSUME Mail' = Mail, UNCHANGED history PROVE Goal
  BY <1>1 DEF history, Received
<1>2. ASSUME Still PROVE Goal
  BY <1>1, <1>2 DEF Still, Mail
<1>3. ASSUME Forget PROVE Goal
  <2>1. executing = Nobody
    BY <1>3, NobodyRuns DEF Forget
  <2>2. Mail' = Mail
    BY <1>3, <2>1, ForgetMoves, MailOfNobody
  <2> QED BY <1>1, <1>3, <2>2 DEF Forget
<1>4. ASSUME NEW aid, BeginStatement(aid) PROVE Goal
  <2>1. executing = Nobody
    BY <1>4, NobodyRuns DEF BeginStatement, IsNext
  <2>2. Mail' = Mail
    BY <1>4, <2>1, BeginMoves, MailOfNobody
  <2> QED BY <1>1, <1>4, <2>2 DEF BeginStatement
<1>5. ASSUME EndStatement PROVE Goal
  BY <1>5, EndStatementMoves DEF EndStatement, Received
<1>6. ASSUME NEW to, NEW n, ActorSetMailboxLimit(to, n) PROVE Goal
  BY <1>1, <1>6, LimitMoves DEF ActorSetMailboxLimit
<1>7. ASSUME NEW b, SpawnActor(b) PROVE Goal
  BY <1>1, <1>7, SpawnMoves DEF SpawnActor
<1>8. ASSUME NEW to \in Nat, NEW n \in Int, ActorSend(to, n) PROVE Goal
  <2>1. Received' = Received
    BY <1>8, SendMoves DEF Received
  <2> QED BY <1>8, <2>1, SendMoves
<1>9. ASSUME NEW value, ActorReceive(value) \/ ActorReceiveEnvelope(value) PROVE Goal
  <2>1. /\ accepted' = accepted
        /\ \/ consumed' = consumed /\ Mail' = Mail
           \/ \E r \in Mail : consumed' = Append(consumed, r) /\ Mail' = Mail \ {r}
    BY <1>9, ReceiveMoves
  <2>2. ASSUME NEW r, consumed' = Append(consumed, r)
        PROVE  Received \cup {r} \subseteq Received'
    <3>1. consumed \in Seq(Receipt \cup {r}) /\ r \in Receipt \cup {r}
      BY BaseParts, MailTypes
    <3>2. /\ Len(consumed) \in Nat /\ Len(consumed') = Len(consumed) + 1
          /\ consumed'[Len(consumed) + 1] = r
          /\ \A j \in 1..Len(consumed) : consumed'[j] = consumed[j]
      BY <2>2, <3>1, AppendProperties
    <3>3. /\ \A j \in 1..Len(consumed) : j \in 1..Len(consumed') /\ consumed'[j] = consumed[j]
          /\ Len(consumed) + 1 \in 1..Len(consumed')
      BY <3>2
    <3> QED BY <3>2, <3>3 DEF Received
  <2>3. CASE consumed' = consumed /\ Mail' = Mail
    BY <2>1, <2>3 DEF Received
  <2>4. ASSUME NEW r \in Mail, consumed' = Append(consumed, r), Mail' = Mail \ {r}
        PROVE  Goal
    BY <2>1, <2>2, <2>4
  <2> QED BY <2>1, <2>3, <2>4
<1> QED BY <1>2, <1>3, <1>4, <1>5, <1>6, <1>7, <1>8, <1>9, StepKinds

\* And the only step after which an actor is missing.
LEMMA NobodyLost ==
  ASSUME Base, FromProgram, OneRun, [Next]_vars, ~EndRun
  PROVE  Live \subseteq Live'
<1>0. /\ StateOK /\ HistoryOK /\ StateOK'
      /\ \A i \in DOMAIN actors : actors[i] \in ActorIn({i}) /\ actors[i].id = i /\ i # 0
  <2>1. TInv'
    BY NextTypes DEF Base
  <2>2. \A i \in DOMAIN actors : i # 0
    BY BaseParts DEF StateOK
  <2> QED BY <2>1, <2>2, BaseParts, MailTypes DEF TInv
<1>1. ASSUME executing'.id = executing.id, DOMAIN actors \subseteq DOMAIN actors'
      PROVE  Live \subseteq Live'
  <2>1. executing = Nobody <=> executing.id = 0
    BY <1>0, NobodyId
  <2>2. executing' = Nobody <=> executing'.id = 0
    BY <1>0 DEF StateOK, ActorIn, Nobody
  <2> QED BY <1>1, <2>1, <2>2 DEF Live
<1>2. ASSUME Still PROVE Live \subseteq Live'
  BY <1>2 DEF Still, Live
<1>3. ASSUME Forget PROVE Live \subseteq Live'
  <2>1. executing = Nobody
    BY <1>3, NobodyRuns DEF Forget
  <2> QED BY <1>3, <2>1 DEF Forget, Live
<1>4. ASSUME NEW aid, BeginStatement(aid) PROVE Live \subseteq Live'
  <2>1. executing = Nobody
    BY <1>4, NobodyRuns DEF BeginStatement, IsNext
  <2>2. /\ aid \in DOMAIN actors
        /\ executing' = [actors[aid] EXCEPT !.body = Tail(actors[aid].body)]
        /\ DOMAIN actors' = DOMAIN actors \ {aid}
    BY <1>4 DEF BeginStatement, Without, Ready
  <2>3. executing'.id = aid
    BY <1>0, <2>2 DEF ActorIn
  <2>4. executing' # Nobody
    BY <1>0, <2>2, <2>3 DEF Nobody
  <2> QED BY <2>1, <2>2, <2>3, <2>4 DEF Live
<1>5. ASSUME EndStatement PROVE Live \subseteq Live'
  <2>1. executing' = Nobody
    BY <1>5 DEF EndStatement
  <2>2. CASE executing = Nobody
    BY <1>5, <2>1, <2>2 DEF EndStatement, Live
  <2>3. CASE executing # Nobody
    <3>1. PICK a : actors' = With(Top.turn.aid, a)
      BY <1>5, <2>3 DEF EndStatement
    <3>2. executing.id = Top.turn.aid
      BY <1>5, <2>3, BaseParts, TopType DEF EndStatement, Executing, ExecutingOK
    <3>3. DOMAIN actors' = DOMAIN actors \cup {executing.id}
      BY <3>1, <3>2 DEF With
    <3> QED BY <2>1, <2>3, <3>3 DEF Live
  <2> QED BY <2>2, <2>3
<1>6. ASSUME NEW to, NEW n, ActorSetMailboxLimit(to, n) PROVE Live \subseteq Live'
  <2>1. executing' = executing /\ DOMAIN actors' = DOMAIN actors
    BY <1>6 DEF ActorSetMailboxLimit
  <2> QED BY <1>1, <2>1
<1>7. ASSUME NEW b, SpawnActor(b) PROVE Live \subseteq Live'
  <2>1. executing' = executing /\ DOMAIN actors' = DOMAIN actors \cup {nextId}
    BY <1>7 DEF SpawnActor, With
  <2> QED BY <1>1, <2>1
<1>8. ASSUME NEW to \in Nat, NEW n \in Int, ActorSend(to, n) PROVE Live \subseteq Live'
  <2>1. executing'.id = executing.id
    BY <1>0, <1>8, SendTypes DEF SameActor
  <2>2. DOMAIN actors' = DOMAIN actors
    BY <1>8 DEF ActorSend, Refuse
  <2> QED BY <1>1, <2>1, <2>2
<1>9. ASSUME NEW value, ActorReceive(value) \/ ActorReceiveEnvelope(value)
      PROVE  Live \subseteq Live'
  <2>1. executing'.id = executing.id
    BY <1>0, <1>9, ReceiveTypes DEF SameActor
  <2>2. actors' = actors
    BY <1>9 DEF ActorReceive, ActorReceiveEnvelope, Consume, Park, NoActorContext
  <2> QED BY <1>1, <2>1, <2>2
<1> QED BY <1>2, <1>3, <1>4, <1>5, <1>6, <1>7, <1>8, <1>9, StepKinds

LEMMA OneRunAlways ==
  ASSUME RunFree
  PROVE  Spec => [](Base /\ RunInv /\ OneRun /\ QueuedInMail)
<1>1. Init => OneRun
  <2>1. Init => Len(runs) = 0
    BY DEF Init
  <2> QED BY <2>1 DEF OneRun
<1>2. Base /\ RunInv /\ OneRun /\ [Next]_vars => OneRun'
  BY NextOneRun DEF RunInv
<1>3. Base => QueuedInMail
  BY QueuedIsMail
<1> QED BY <1>1, <1>2, <1>3, RunAlways, PTL DEF Spec

\* In a program whose actors do not call run_actors an accepted message
\* disappears in one way only: its receiver had finished before the send,
\* and the clean-up of a run removes it with its mail.
THEOREM LostWithFinished == RunFree => (Spec => LostOnlyWithFinished)
<1> SUFFICES ASSUME RunFree PROVE Spec => LostOnlyWithFinished
  OBVIOUS
<1> DEFINE Q == \A e \in Lost' \ Lost :
                  e.to \in DOMAIN actors /\ actors[e.to].finished /\ e.to \notin Live'
<1>1. ASSUME Base, RunInv, OneRun, QueuedInMail', [Next]_vars PROVE Q
  <2>1. Lost = accepted \ (Mail \cup Received)
    BY <1>1, QueuedIsMail DEF Lost, QueuedInMail
  <2>2. Lost' = accepted' \ (Mail' \cup Received')
    BY <1>1 DEF Lost, QueuedInMail
  <2>3. CASE EndRun
    <3>1. UNCHANGED <<accepted, consumed, executing>>
      BY <2>3 DEF EndRun, history
    <3>2. Received' = Received
      BY <3>1 DEF Received
    <3>3. \A e \in Lost' \ Lost : e \in Mail \ Mail'
      BY <2>1, <2>2, <3>1, <3>2
    <3>4. \A e \in Lost' \ Lost : e.to \in DOMAIN actors /\ actors[e.to].finished
      BY <1>1, <2>3, <3>3, EndRunMoves
    <3>5. \A e \in Lost' \ Lost : e.to \notin DOMAIN actors'
      BY <2>3, <3>4 DEF EndRun, Without, FinishedIds
    <3>6. executing # Nobody => executing.id \notin DOMAIN actors
      BY <1>1, BaseParts DEF RunningIsOut
    <3> QED BY <3>1, <3>4, <3>5, <3>6 DEF Live
  <2>4. CASE ~EndRun
    BY <1>1, <2>1, <2>2, <2>4, NothingLost DEF RunInv
  <2> QED BY <2>3, <2>4
<1>2. Base /\ RunInv /\ OneRun /\ QueuedInMail' /\ [Next]_vars => [Q]_vars
  BY <1>1
<1>3. LostOnlyWithFinished <=> [][Q]_vars
  BY DEF LostOnlyWithFinished
<1> QED BY <1>2, <1>3, OneRunAlways, PTL DEF Spec

\* In such a program the scheduler takes an actor out of the map for good
\* only when its body was executed to the end.
THEOREM RemovedWhenDone == RunFree => (Spec => RemovedOnlyWhenDone)
<1> SUFFICES ASSUME RunFree PROVE Spec => RemovedOnlyWhenDone
  OBVIOUS
<1> DEFINE Q == \A i \in Live : i \notin Live' => State(i).body = << >>
<1>1. ASSUME Base, RunInv, OneRun, [Next]_vars PROVE Q
  <2>1. CASE EndRun
    <3>1. executing' = executing /\ DOMAIN actors' = DOMAIN actors \ FinishedIds
      BY <2>1 DEF EndRun, Without
    <3>2. \A i \in Live : i \notin Live' => i \in FinishedIds
      BY <3>1 DEF Live
    <3> QED BY <1>1, <3>2 DEF FinishedIds, State, RunInv, FinishedOK
  <2>2. CASE ~EndRun
    BY <1>1, <2>2, NobodyLost DEF RunInv
  <2> QED BY <2>1, <2>2
<1>2. Base /\ RunInv /\ OneRun /\ [Next]_vars => [Q]_vars
  BY <1>1
<1>3. RemovedOnlyWhenDone <=> [][Q]_vars
  BY DEF RemovedOnlyWhenDone
<1> QED BY <1>2, <1>3, OneRunAlways, PTL DEF Spec

\* The conjunction is inductive: IInv is the invariant TLC checks too.
THEOREM InductiveInvariant == Spec => []IInv
<1>1. Base /\ RunInv => IInv
  BY TypeParts DEF Base, TInv, FramesInv, RunInv, IInv
<1> QED BY <1>1, RunAlways, PTL
=============================================================================
