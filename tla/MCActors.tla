------------------------------ MODULE MCActors ------------------------------
(* Actor programs and bounds for the runs of module Actors. *)
EXTENDS Actors

Send(to, n)      == [op |-> "send", to |-> to, priority |-> n]
Receive          == [op |-> "receive"]
ReceiveEnvelope  == [op |-> "receive_envelope"]
Yield            == [op |-> "yield"]
Fail             == [op |-> "fail"]
Limit(to, n)     == [op |-> "limit", to |-> to, limit |-> n]
Spawn(b)         == [op |-> "spawn", body |-> b]
RunActors(n)     == [op |-> "run", max |-> n]

Let(ops)   == [kind |-> "let", ops |-> ops]
Expr(ops)  == [kind |-> "expr", ops |-> ops]
Block(ops) == [kind |-> "block", ops |-> ops]

-----------------------------------------------------------------------------
(* A consumer and a relay, driven by a main program that sends with two      *)
(* priorities (one beyond the width), changes limits and runs a few turns.   *)

CoreProgram ==
  [consumer |-> <<Let(<<Receive>>), Expr(<<ReceiveEnvelope>>)>>,
   relay    |-> <<Block(<<Receive, Send(1, 0)>>)>>]
CoreBodies     == {"consumer", "relay"}
CorePriorities == {0, 2}
CoreLimits     == {-1, 1}
CoreSteps      == {1, Unlimited}

-----------------------------------------------------------------------------
(* Statements with several builtins: a send before the receive that parks    *)
(* (re-executed by the retry), two receives in one statement, a self-send, a *)
(* spawn inside the run, a statement that fails after consuming, a statement *)
(* that calls run_actors.                                                    *)

RetryProgram ==
  [asker   |-> <<Block(<<Send(2, 1), Receive>>), Expr(<<Yield>>)>>,
   answer  |-> <<Let(<<Receive, Receive>>), Block(<<Send(1, 0), Send(2, 0)>>)>>,
   parent  |-> <<Block(<<Limit(2, 3), Spawn("child")>>), Expr(<<Receive, Send(3, 0)>>)>>,
   child   |-> <<Expr(<<Receive, Fail, Send(1, 0)>>)>>,
   driver  |-> <<Block(<<Receive, RunActors(Unlimited), Receive>>), Let(<<Receive>>)>>]
RetryBodies     == {"asker", "answer", "parent", "child", "driver"}
RetryHost       == {"asker", "answer", "parent", "driver"}
RetryPriorities == {0}
RetryLimits     == {}
RetrySteps      == {Unlimited}

=============================================================================
