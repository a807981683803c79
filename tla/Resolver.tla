------------------------------ MODULE Resolver ------------------------------
(***************************************************************************)
(* Module resolution: collect_module_graph walks the import graph from the *)
(* entry file in parallel (one rayon task per import), then emit_module    *)
(* emits the program on the calling thread.                                *)
(*                                                                         *)
(* The tasks share visited, deps and errors, each behind a mutex of its    *)
(* own; a step of a task is one critical section or what the task does     *)
(* between two of them.  A task is named by the path of import positions   *)
(* that leads to it from the entry, so the descendants of a task are the   *)
(* tasks its name is a prefix of.                                          *)
(***************************************************************************)
EXTENDS Integers, FiniteSets, SequencesExt

CONSTANTS
  Files,     \* the canonical paths of the modules
  Entry,     \* the file given to resolve
  Graphs,    \* the contents of the files a run starts from
  MaxStack   \* bound: emit_module calls that fit on the thread's stack

VARIABLES
  graph,    \* the contents of the files, see LinkOrder
  phase,    \* "start", "walk", "emit" or "done"
  tasks,    \* the calls of collect_module_graph that have not returned
  visited,  \* the keys in ResolveContext::visited
  deps,     \* ResolveContext::deps
  errors,   \* the files that reported to ResolveContext::errors
  stack,    \* the calls of emit_module, innermost first
  out,      \* the modules emitted, in order
  answer,   \* what resolve returned
  parses    \* history: how often the walk parsed each file

vars == <<graph, phase, tasks, visited, deps, errors, stack, out, answer, parses>>

Abstract == INSTANCE LinkOrder

ASSUME ResolverAssumption ==
  /\ Entry \in Files
  /\ Graphs \subseteq [Files -> Abstract!File]
  /\ MaxStack \in Nat

Task == [key : Files, pc : {"visit", "parse", "publish", "fork", "join"}]

NewTask(f) == [key |-> f, pc |-> "visit"]

\* Mutant: the imports are counted from zero.
CallFromZero(f) == [key |-> f, next |-> 0]

Call(f) == [key |-> f, next |-> 1]

Init ==
  /\ graph \in Graphs
  /\ phase = "start"
  /\ tasks = << >>
  /\ visited = {}
  /\ deps = << >>
  /\ errors = {}
  /\ stack = << >>
  /\ out = << >>
  /\ answer = Abstract!Pending
  /\ parses = [f \in Files |-> 0]

Return(result) ==
  /\ phase' = "done"
  /\ answer' = result

\* resolve reads the entry, then the walk begins with it.
Start ==
  /\ phase = "start"
  /\ IF graph[Entry].status = "unreadable"
     THEN Return(Abstract!Errors({Entry})) /\ UNCHANGED tasks
     ELSE /\ phase' = "walk"
          /\ tasks' = [t \in {<< >>} |-> NewTask(Entry)]
          /\ UNCHANGED answer
  /\ UNCHANGED <<graph, visited, deps, errors, stack, out, parses>>

-----------------------------------------------------------------------------
(* collect_module_graph *)

AtPc(t, pc) == t \in DOMAIN tasks /\ tasks[t].pc = pc

Key(t) == tasks[t].key

Continue(t, pc) == tasks' = [tasks EXCEPT ![t].pc = pc]

Done(t) == tasks' = [u \in DOMAIN tasks \ {t} |-> tasks[u]]

\* Mutant: the key is looked up and marked in different critical sections.
VisitUnguarded(t) ==
  /\ AtPc(t, "visit")
  /\ IF Key(t) \in DOMAIN deps
     THEN Done(t) /\ UNCHANGED visited
     ELSE Continue(t, "parse") /\ visited' = visited \cup {Key(t)}
  /\ UNCHANGED <<graph, phase, deps, errors, stack, out, answer, parses>>

\* A key that was visited returns; another one is marked, in the same
\* critical section.
Visit(t) ==
  /\ AtPc(t, "visit")
  /\ IF Key(t) \in visited
     THEN Done(t) /\ UNCHANGED visited
     ELSE Continue(t, "parse") /\ visited' = visited \cup {Key(t)}
  /\ UNCHANGED <<graph, phase, deps, errors, stack, out, answer, parses>>

\* The file is parsed and its imports are resolved; imports that cannot be
\* resolved are reported and the others followed.
Parse(t) ==
  /\ AtPc(t, "parse")
  /\ parses' = [parses EXCEPT ![Key(t)] = @ + 1]
  /\ errors' = IF Abstract!Faulty(graph, Key(t)) THEN errors \cup {Key(t)} ELSE errors
  /\ IF graph[Key(t)].status = "parses" THEN Continue(t, "publish") ELSE Done(t)
  /\ UNCHANGED <<graph, phase, visited, deps, stack, out, answer>>

Publish(t) ==
  /\ AtPc(t, "publish")
  /\ deps' = [f \in DOMAIN deps \cup {Key(t)} |->
                IF f = Key(t) THEN graph[f].imports ELSE deps[f]]
  /\ Continue(t, "fork")
  /\ UNCHANGED <<graph, phase, visited, errors, stack, out, answer, parses>>

Forked(t) == {Append(t, i) : i \in 1..Len(graph[Key(t)].imports)}

\* into_par_iter: a task for each import.
Fork(t) ==
  /\ AtPc(t, "fork")
  /\ tasks' = [u \in DOMAIN tasks \cup Forked(t) |->
                 IF u = t THEN [tasks[t] EXCEPT !.pc = "join"]
                 ELSE IF u \in Forked(t) THEN NewTask(graph[Key(t)].imports[Last(u)])
                 ELSE tasks[u]]
  /\ UNCHANGED <<graph, phase, visited, deps, errors, stack, out, answer, parses>>

\* Mutant: the task waits for itself as well.
JoinAll(t) ==
  /\ AtPc(t, "join")
  /\ \A u \in DOMAIN tasks : ~IsPrefix(t, u)
  /\ Done(t)
  /\ UNCHANGED <<graph, phase, visited, deps, errors, stack, out, answer, parses>>

\* for_each returns when the tasks of all imports have.
Join(t) ==
  /\ AtPc(t, "join")
  /\ \A u \in DOMAIN tasks : ~IsStrictPrefix(t, u)
  /\ Done(t)
  /\ UNCHANGED <<graph, phase, visited, deps, errors, stack, out, answer, parses>>

-----------------------------------------------------------------------------
(* resolve, after the walk, and emit_module *)

\* Mutant: resolve goes on as soon as the entry was published.
EndWalkEarly ==
  /\ phase = "walk"
  /\ Entry \in DOMAIN deps
  /\ phase' = "emit"
  /\ stack' = <<Call(Entry)>>
  /\ UNCHANGED <<graph, tasks, visited, deps, errors, out, answer, parses>>

EndWalk ==
  /\ phase = "walk"
  /\ DOMAIN tasks = {}
  /\ IF errors # {}
     THEN Return(Abstract!Errors(errors)) /\ UNCHANGED stack
     ELSE /\ phase' = "emit"
          /\ stack' = <<Call(Entry)>>
          /\ UNCHANGED answer
  /\ UNCHANGED <<graph, tasks, visited, deps, errors, out, parses>>

Children(f) == IF f \in DOMAIN deps THEN deps[f] ELSE << >>

Emitted == {out[i] : i \in 1..Len(out)}

Emitting == phase = "emit" /\ stack # << >>

\* Mutant: the loop over the imports does not advance.
CallerStays == Head(stack)

Caller == [Head(stack) EXCEPT !.next = @ + 1]

\* The next import: a call, which returns at once when it was emitted.
EmitImport ==
  /\ Emitting
  /\ Head(stack).next <= Len(Children(Head(stack).key))
  /\ LET f == Children(Head(stack).key)[Head(stack).next]
     IN  \/ /\ f \in Emitted
            /\ stack' = <<Caller>> \o Tail(stack)
         \/ /\ f \notin Emitted
            /\ Len(stack) < MaxStack
            /\ stack' = <<Call(f), Caller>> \o Tail(stack)
  /\ UNCHANGED <<graph, phase, tasks, visited, deps, errors, out, answer, parses>>

\* Mutant: the imports are not waited for.
EmitFirst ==
  /\ Emitting
  /\ Head(stack).key \notin Emitted
  /\ out' = Append(out, Head(stack).key)
  /\ stack' = Tail(stack)
  /\ UNCHANGED <<graph, phase, tasks, visited, deps, errors, answer, parses>>

\* After its imports the module emits its own statements.
EmitSelf ==
  /\ Emitting
  /\ Head(stack).next > Len(Children(Head(stack).key))
  /\ out' = Append(out, Head(stack).key)
  /\ stack' = Tail(stack)
  /\ UNCHANGED <<graph, phase, tasks, visited, deps, errors, answer, parses>>

Finish ==
  /\ phase = "emit"
  /\ stack = << >>
  /\ Return(Abstract!Program(out))
  /\ UNCHANGED <<graph, tasks, visited, deps, errors, stack, out, parses>>

Walk == \E t \in DOMAIN tasks : Visit(t) \/ Parse(t) \/ Publish(t) \/ Fork(t) \/ Join(t)

Next == Start \/ Walk \/ EndWalk \/ EmitImport \/ EmitSelf \/ Finish

Spec == Init /\ [][Next]_vars

\* The pool has at least one thread, and the calling thread goes on when the
\* walk has returned.  No particular task is favoured.
FairSpec == Spec /\ WF_vars(Next)

-----------------------------------------------------------------------------
(* Properties *)

Frame == [key : Files, next : Nat \ {0}]

TypeOK ==
  /\ graph \in Graphs
  /\ phase \in {"start", "walk", "emit", "done"}
  /\ DOMAIN tasks \subseteq Seq(Nat)
  /\ \A t \in DOMAIN tasks : tasks[t] \in Task
  /\ visited \subseteq Files
  /\ DOMAIN deps \subseteq Files
  /\ \A f \in DOMAIN deps : deps[f] \in Seq(Files)
  /\ errors \subseteq Files
  /\ stack \in Seq(Frame)
  /\ out \in Seq(Files)
  /\ parses \in [Files -> Nat]

\* No file is parsed twice by the walk, although any number of tasks reach
\* it at once: visited is checked and marked in one critical section.
ParsedOnce == \A f \in Files : parses[f] <= 1

\* When the emission begins, the walk has published the imports of every
\* module that can be needed, although a task returns without waiting when
\* another one has visited its module and not published it yet.
GraphComplete ==
  phase = "emit" =>
    /\ Entry \in DOMAIN deps
    /\ \A f \in DOMAIN deps :
         /\ deps[f] = graph[f].imports
         /\ \A i \in 1..Len(deps[f]) : deps[f][i] \in DOMAIN deps

\* The answer does not depend on the order the tasks worked in, and is what
\* LinkOrder promises: docs/language/modules.md, "dependencies first".
ImplementsLinkOrder == Abstract!Spec

\* The walk ends, also on graphs with cycles.
WalkEnds == (phase = "walk") ~> (phase # "walk")

\* resolve returns on every graph without cycles.  On a cycle emit_module
\* calls itself until the stack is full: a module is marked after its imports.
Answered == [](Abstract!Cyclic(graph) \/ <>(answer # Abstract!Pending))
=============================================================================
