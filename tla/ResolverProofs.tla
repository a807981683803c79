--------------------------- MODULE ResolverProofs ---------------------------
(***************************************************************************)
(* The walk of the import graph and the emission, for every set of files   *)
(* and any number of concurrent tasks: no file is parsed twice, what the   *)
(* emission needs was published, and the answer is one LinkOrder allows,   *)
(* whatever order the tasks worked in.                                     *)
(***************************************************************************)
EXTENDS Resolver, SequenceTheorems, TLAPS

\* One of the tasks is at pc and works on f.
Working(T, f, pc) == \E t \in DOMAIN T : T[t].key = f /\ T[t].pc = pc

Imports(f, d) == \E i \in 1..Len(graph[f].imports) : graph[f].imports[i] = d

\* Only a task that waits has children.
TreeOK ==
  \A t \in Seq(Nat), i \in Nat :
    Append(t, i) \in DOMAIN tasks => t \in DOMAIN tasks /\ tasks[t].pc = "join"

\* A module that was marked was published or reported, or a task is about to.
MarkedOK ==
  \A f \in visited :
    \/ f \in DOMAIN deps \/ f \in errors
    \/ Working(tasks, f, "parse") \/ Working(tasks, f, "publish")

\* An import of a published module was marked, or a task is about to.
FollowedOK ==
  \A f \in DOMAIN deps :
    /\ deps[f] = graph[f].imports
    /\ \A d \in Files :
         Imports(f, d) => \/ d \in visited
                          \/ Working(tasks, f, "fork")
                          \/ Working(tasks, d, "visit")

\* The task that marked a file is the only one that parses it.
ParsesOK ==
  /\ \A f \in Files : parses[f] <= 1 /\ (f \notin visited => parses[f] = 0)
  /\ \A t \in DOMAIN tasks :
       tasks[t].pc = "parse" =>
         /\ tasks[t].key \in visited /\ parses[tasks[t].key] = 0
         /\ \A u \in DOMAIN tasks :
              tasks[u].pc = "parse" /\ tasks[u].key = tasks[t].key => u = t

PhaseOK ==
  /\ phase \in {"start", "emit", "done"} => DOMAIN tasks = {}
  /\ phase = "start" => visited = {} /\ DOMAIN deps = {}
  /\ phase \in {"walk", "emit"} => Entry \in visited \/ Working(tasks, Entry, "visit")
  /\ phase = "emit" => errors = {}

IInv == TypeOK /\ TreeOK /\ MarkedOK /\ FollowedOK /\ ParsesOK /\ PhaseOK

-----------------------------------------------------------------------------
(* Names of tasks. *)

LEMMA AppendOnce ==
  ASSUME NEW s \in Seq(Nat), NEW i \in Nat
  PROVE  /\ Append(s, i) \in Seq(Nat) /\ Append(s, i) # s
         /\ Append(s, i) # << >> /\ Last(Append(s, i)) = i
  BY AppendProperties DEF Last

\* A task is waited for by its parent.
LEMMA ParentIsPrefix ==
  ASSUME NEW s \in Seq(Nat), NEW i \in Nat
  PROVE  IsStrictPrefix(s, Append(s, i))
<1> DEFINE t == Append(s, i)
<1>1. t \in Seq(Nat) /\ Len(t) = Len(s) + 1 /\ Len(s) \in Nat
      /\ \A k \in 1..Len(s) : t[k] = s[k]
  BY AppendProperties
<1> HIDE DEF t
<1>2. SubSeq(s, 1, Len(s)) \in Seq(Nat) /\ Len(SubSeq(s, 1, Len(s))) = Len(s)
      /\ \A k \in 1..Len(s) : SubSeq(s, 1, Len(s))[k] = s[k]
  OBVIOUS
<1>3. SubSeq(t, 1, Len(s)) \in Seq(Nat) /\ Len(SubSeq(t, 1, Len(s))) = Len(s)
      /\ \A k \in 1..Len(s) : SubSeq(t, 1, Len(s))[k] = t[k]
  BY <1>1
<1>4. SubSeq(s, 1, Len(s)) = SubSeq(t, 1, Len(s))
  BY <1>1, <1>2, <1>3, SeqEqual
<1>5. Len(s) <= Len(t) /\ s # t
  BY <1>1
<1> QED
  BY <1>4, <1>5 DEF IsStrictPrefix, IsPrefix, t

-----------------------------------------------------------------------------
(* The steps of one task. *)

Pcs == {"visit", "parse", "publish", "fork", "join"}

\* What the others rely on of the tasks, other than t at its present step,
\* is still there.
Kept(t) ==
  \A f \in Files, p \in Pcs :
    Working(tasks, f, p) /\ (f # Key(t) \/ p # tasks[t].pc) => Working(tasks', f, p)

\* Only t changes.
Untouched(t) ==
  \A u \in DOMAIN tasks' : u # t => u \in DOMAIN tasks /\ tasks'[u] = tasks[u]

LEMMA ContinueTask ==
  ASSUME TypeOK, TreeOK, NEW t \in DOMAIN tasks, NEW pc \in Pcs,
         Continue(t, pc), tasks[t].pc # "join"
  PROVE  /\ DOMAIN tasks' \subseteq Seq(Nat) /\ \A u \in DOMAIN tasks' : tasks'[u] \in Task
         /\ TreeOK'
         /\ Kept(t) /\ Untouched(t)
         /\ t \in DOMAIN tasks' /\ tasks'[t].pc = pc /\ tasks'[t].key = Key(t)
         /\ \A f \in Files : f = Key(t) => Working(tasks', f, pc)
<1>1. tasks[t] \in Task /\ DOMAIN tasks \subseteq Seq(Nat)
  BY DEF TypeOK
<1>2. /\ DOMAIN tasks' = DOMAIN tasks
      /\ tasks'[t] = [tasks[t] EXCEPT !.pc = pc]
      /\ \A u \in DOMAIN tasks : u # t => tasks'[u] = tasks[u]
  BY DEF Continue
<1>3. tasks'[t] \in Task /\ tasks'[t].pc = pc /\ tasks'[t].key = Key(t)
  BY <1>1, <1>2 DEF Task, Pcs, Key
<1>4. \A u \in DOMAIN tasks' : tasks'[u] \in Task
  BY <1>2, <1>3 DEF TypeOK
<1>5. TreeOK'
  <2> SUFFICES ASSUME NEW s \in Seq(Nat), NEW i \in Nat, Append(s, i) \in DOMAIN tasks'
               PROVE  s \in DOMAIN tasks' /\ tasks'[s].pc = "join"
    BY DEF TreeOK
  <2>1. s \in DOMAIN tasks /\ tasks[s].pc = "join"
    BY <1>2 DEF TreeOK
  <2> QED
    BY <2>1, <1>2
<1>6. Kept(t) /\ Untouched(t)
  <2>1. ASSUME NEW f \in Files, NEW p \in Pcs, Working(tasks, f, p), f # Key(t) \/ p # tasks[t].pc
        PROVE  Working(tasks', f, p)
    BY <2>1, <1>2 DEF Working, Key
  <2> QED
    BY <2>1, <1>2 DEF Kept, Untouched
<1>7. \A f \in Files : f = Key(t) => Working(tasks', f, pc)
  BY <1>2, <1>3 DEF Working
<1> QED
  BY <1>1, <1>2, <1>3, <1>4, <1>5, <1>6, <1>7

LEMMA DoneTask ==
  ASSUME TypeOK, TreeOK, NEW t \in DOMAIN tasks, Done(t),
         \A i \in Nat : Append(t, i) \notin DOMAIN tasks
  PROVE  /\ DOMAIN tasks' \subseteq Seq(Nat) /\ \A u \in DOMAIN tasks' : tasks'[u] \in Task
         /\ TreeOK'
         /\ Kept(t) /\ Untouched(t)
         /\ t \notin DOMAIN tasks'
<1>1. /\ DOMAIN tasks' = DOMAIN tasks \ {t}
      /\ \A u \in DOMAIN tasks' : tasks'[u] = tasks[u]
  BY DEF Done
<1>2. DOMAIN tasks' \subseteq Seq(Nat) /\ \A u \in DOMAIN tasks' : tasks'[u] \in Task
  BY <1>1 DEF TypeOK
<1>3. TreeOK'
  <2> SUFFICES ASSUME NEW s \in Seq(Nat), NEW i \in Nat, Append(s, i) \in DOMAIN tasks'
               PROVE  s \in DOMAIN tasks' /\ tasks'[s].pc = "join"
    BY DEF TreeOK
  <2>1. s \in DOMAIN tasks /\ tasks[s].pc = "join" /\ s # t
    BY <1>1 DEF TreeOK
  <2> QED
    BY <2>1, <1>1
<1>4. Kept(t) /\ Untouched(t)
  <2>1. ASSUME NEW f \in Files, NEW p \in Pcs, Working(tasks, f, p), f # Key(t) \/ p # tasks[t].pc
        PROVE  Working(tasks', f, p)
    BY <2>1, <1>1 DEF Working, Key
  <2> QED
    BY <2>1, <1>1 DEF Kept, Untouched
<1> QED
  BY <1>1, <1>2, <1>3, <1>4

\* A task that does not wait has no children.
LEMMA Childless ==
  ASSUME TypeOK, TreeOK, NEW t \in DOMAIN tasks, tasks[t].pc # "join"
  PROVE  \A i \in Nat : Append(t, i) \notin DOMAIN tasks
  BY DEF TypeOK, TreeOK

\* Steps of the walk start in the walk, and say nothing of the emission.
WalkStep == UNCHANGED <<graph, phase, stack, out, answer>>

LEMMA InWalk ==
  ASSUME TypeOK, PhaseOK, NEW t \in DOMAIN tasks
  PROVE  phase = "walk"
  BY DEF TypeOK, PhaseOK

LEMMA WalkTypes ==
  ASSUME TypeOK, WalkStep,
         DOMAIN tasks' \subseteq Seq(Nat), \A u \in DOMAIN tasks' : tasks'[u] \in Task,
         visited' \subseteq Files, errors' \subseteq Files, parses' \in [Files -> Nat],
         DOMAIN deps' \subseteq Files, \A f \in DOMAIN deps' : deps'[f] \in Seq(Files)
  PROVE  TypeOK'
  BY DEF TypeOK, WalkStep


\* The marks survive a step of t that leaves its own module covered.
LEMMA MarkedKept ==
  ASSUME TypeOK, MarkedOK, NEW t, Kept(t),
         DOMAIN deps \subseteq DOMAIN deps', errors \subseteq errors',
         \A f \in visited' : f \in visited \/ Working(tasks', f, "parse"),
         \A f \in Files :
           f = Key(t) /\ tasks[t].pc \in {"parse", "publish"} =>
             f \in DOMAIN deps' \/ f \in errors' \/ Working(tasks', f, "publish")
  PROVE  MarkedOK'
<1> SUFFICES ASSUME NEW f \in visited', f \in visited
             PROVE  \/ f \in DOMAIN deps' \/ f \in errors'
                    \/ Working(tasks', f, "parse") \/ Working(tasks', f, "publish")
  BY DEF MarkedOK
<1>1. f \in Files
  BY DEF TypeOK
<1>2. CASE f = Key(t) /\ tasks[t].pc \in {"parse", "publish"}
  BY <1>1, <1>2
<1>3. CASE ~(f = Key(t) /\ tasks[t].pc \in {"parse", "publish"})
  BY <1>1, <1>3 DEF MarkedOK, Kept, Pcs
<1> QED
  BY <1>2, <1>3

\* So do the imports that are followed, when t does not publish or fork.
LEMMA FollowedKept ==
  ASSUME TypeOK, FollowedOK, NEW t, Kept(t), tasks[t].pc # "fork",
         UNCHANGED <<graph, deps>>, visited \subseteq visited',
         tasks[t].pc = "visit" => Key(t) \in visited'
  PROVE  FollowedOK'
<1> SUFFICES ASSUME NEW f \in DOMAIN deps', NEW d \in Files, Imports(f, d)
             PROVE  \/ d \in visited'
                    \/ Working(tasks', f, "fork")
                    \/ Working(tasks', d, "visit")
  BY DEF FollowedOK, Imports
<1>1. f \in Files
  BY DEF TypeOK
<1>2. \/ d \in visited \/ Working(tasks, f, "fork") \/ Working(tasks, d, "visit")
  BY DEF FollowedOK
<1>3. CASE Working(tasks, f, "fork")
  BY <1>1, <1>3 DEF Kept, Pcs
<1>4. CASE Working(tasks, d, "visit")
  BY <1>4 DEF Kept, Pcs
<1> QED
  BY <1>2, <1>3, <1>4

\* The phase of the walk goes on while the entry is marked or about to be.
LEMMA PhaseKept ==
  ASSUME TypeOK, PhaseOK, phase = "walk", NEW t, Kept(t), phase' = phase,
         visited \subseteq visited', tasks[t].pc = "visit" => Key(t) \in visited'
  PROVE  PhaseOK'
<1>1. Entry \in Files
  BY ResolverAssumption
<1>2. Entry \in visited' \/ Working(tasks', Entry, "visit")
  BY <1>1 DEF PhaseOK, Kept, Pcs
<1> QED
  BY <1>2 DEF PhaseOK

LEMMA VisitStep ==
  ASSUME IInv, NEW t \in DOMAIN tasks, Visit(t)
  PROVE  IInv'
<1>1. /\ TypeOK /\ TreeOK /\ MarkedOK /\ FollowedOK /\ ParsesOK /\ PhaseOK
      /\ phase = "walk" /\ WalkStep /\ UNCHANGED <<deps, errors, parses>>
      /\ tasks[t].pc = "visit" /\ Key(t) \in Files
  BY InWalk DEF IInv, Visit, AtPc, WalkStep, Key, TypeOK, Task
<1>2. CASE Key(t) \in visited
  <2>1. Done(t) /\ visited' = visited
    BY <1>2 DEF Visit
  <2>2. \A i \in Nat : Append(t, i) \notin DOMAIN tasks
    BY <1>1, Childless
  <2>3. /\ DOMAIN tasks' \subseteq Seq(Nat) /\ \A u \in DOMAIN tasks' : tasks'[u] \in Task
        /\ TreeOK' /\ Kept(t) /\ Untouched(t) /\ t \notin DOMAIN tasks'
    BY <1>1, <2>1, <2>2, DoneTask
  <2>4. TypeOK'
    BY <1>1, <2>1, <2>3, WalkTypes DEF TypeOK
  <2>5. MarkedOK'
    BY <1>1, <2>1, <2>3, MarkedKept
  <2>6. FollowedOK'
    BY <1>1, <1>2, <2>1, <2>3, FollowedKept DEF WalkStep
  <2>7. ParsesOK'
    BY <1>1, <2>1, <2>3 DEF ParsesOK, Untouched
  <2>8. PhaseOK'
    BY <1>1, <1>2, <2>1, <2>3, PhaseKept DEF WalkStep
  <2> QED
    BY <2>3, <2>4, <2>5, <2>6, <2>7, <2>8 DEF IInv
<1>3. CASE Key(t) \notin visited
  <2>1. Continue(t, "parse") /\ visited' = visited \cup {Key(t)}
    BY <1>3 DEF Visit
  <2>2. /\ DOMAIN tasks' \subseteq Seq(Nat) /\ \A u \in DOMAIN tasks' : tasks'[u] \in Task
        /\ TreeOK' /\ Kept(t) /\ Untouched(t)
        /\ t \in DOMAIN tasks' /\ tasks'[t].pc = "parse" /\ tasks'[t].key = Key(t)
        /\ \A f \in Files : f = Key(t) => Working(tasks', f, "parse")
    BY <1>1, <2>1, ContinueTask DEF Pcs
  <2>3. TypeOK'
    BY <1>1, <2>1, <2>2, WalkTypes DEF TypeOK
  <2>4. MarkedOK'
    BY <1>1, <2>1, <2>2, MarkedKept
  <2>5. FollowedOK'
    BY <1>1, <2>1, <2>2, FollowedKept DEF WalkStep
  <2>6. ParsesOK'
    <3>1. \A f \in Files : parses[f] <= 1 /\ (f \notin visited' => parses[f] = 0)
      BY <1>1, <2>1 DEF ParsesOK
    <3>2. \A u \in DOMAIN tasks' :
            u # t /\ tasks'[u].pc = "parse" => tasks'[u].key \in visited /\ parses[tasks'[u].key] = 0
      BY <1>1, <2>2 DEF ParsesOK, Untouched
    <3>3. parses[Key(t)] = 0
      BY <1>1, <1>3 DEF ParsesOK
    <3>4. ASSUME NEW u \in DOMAIN tasks', NEW w \in DOMAIN tasks',
                 tasks'[u].pc = "parse", tasks'[w].pc = "parse", tasks'[u].key = tasks'[w].key
          PROVE  u = w
      <4>1. CASE u = t
        BY <1>3, <2>2, <3>2, <3>4, <4>1
      <4>2. CASE w = t
        BY <1>3, <2>2, <3>2, <3>4, <4>2
      <4>3. CASE u # t /\ w # t
        <5>1. /\ u \in DOMAIN tasks /\ tasks[u] = tasks'[u]
              /\ w \in DOMAIN tasks /\ tasks[w] = tasks'[w]
          BY <2>2, <4>3 DEF Untouched
        <5> QED
          BY <1>1, <3>4, <5>1 DEF ParsesOK
      <4> QED
        BY <4>1, <4>2, <4>3
    <3> QED
      BY <1>1, <2>1, <2>2, <3>1, <3>2, <3>3, <3>4 DEF ParsesOK
  <2>7. PhaseOK'
    BY <1>1, <2>1, <2>2, PhaseKept DEF WalkStep
  <2> QED
    BY <2>2, <2>3, <2>4, <2>5, <2>6, <2>7 DEF IInv
<1> QED
  BY <1>2, <1>3

LEMMA ParseStep ==
  ASSUME IInv, NEW t \in DOMAIN tasks, Parse(t)
  PROVE  IInv'
<1>1. /\ TypeOK /\ TreeOK /\ MarkedOK /\ FollowedOK /\ ParsesOK /\ PhaseOK
      /\ phase = "walk" /\ WalkStep /\ UNCHANGED <<deps, visited>>
      /\ tasks[t].pc = "parse" /\ Key(t) \in Files
  BY InWalk DEF IInv, Parse, AtPc, WalkStep, Key, TypeOK, Task
<1>2. /\ parses' = [parses EXCEPT ![Key(t)] = @ + 1]
      /\ errors' = IF Abstract!Faulty(graph, Key(t)) THEN errors \cup {Key(t)} ELSE errors
      /\ IF graph[Key(t)].status = "parses" THEN Continue(t, "publish") ELSE Done(t)
  BY DEF Parse
<1>3. graph[Key(t)].status # "parses" => Key(t) \in errors'
  BY <1>2 DEF Abstract!Faulty
<1>4. errors' \subseteq Files /\ errors \subseteq errors' /\ parses' \in [Files -> Nat]
  BY <1>1, <1>2 DEF TypeOK
<1>5. /\ DOMAIN tasks' \subseteq Seq(Nat) /\ \A u \in DOMAIN tasks' : tasks'[u] \in Task
      /\ TreeOK' /\ Kept(t) /\ Untouched(t)
      /\ t \in DOMAIN tasks' => tasks'[t].pc # "parse"
      /\ Key(t) \in errors' \/ \A f \in Files : f = Key(t) => Working(tasks', f, "publish")
  <2>1. CASE graph[Key(t)].status = "parses"
    BY <1>1, <1>2, <2>1, ContinueTask DEF Pcs
  <2>2. CASE graph[Key(t)].status # "parses"
    <3>1. \A i \in Nat : Append(t, i) \notin DOMAIN tasks
      BY <1>1, Childless
    <3> QED
      BY <1>1, <1>2, <1>3, <2>2, <3>1, DoneTask
  <2> QED
    BY <2>1, <2>2
<1>6. TypeOK'
  BY <1>1, <1>4, <1>5, WalkTypes DEF TypeOK
<1>7. MarkedOK'
  BY <1>1, <1>4, <1>5, MarkedKept
<1>8. FollowedOK'
  BY <1>1, <1>5, FollowedKept DEF WalkStep
<1>9. ParsesOK'
  <2>1. Key(t) \in visited /\ parses[Key(t)] = 0
    BY <1>1 DEF ParsesOK, Key
  <2>2. parses'[Key(t)] = 1 /\ \A f \in Files : f # Key(t) => parses'[f] = parses[f]
    BY <1>1, <1>2, <2>1 DEF TypeOK
  <2>3. \A f \in Files : parses'[f] <= 1 /\ (f \notin visited' => parses'[f] = 0)
    BY <1>1, <2>1, <2>2 DEF ParsesOK
  <2>4. ASSUME NEW u \in DOMAIN tasks', tasks'[u].pc = "parse"
        PROVE  /\ u \in DOMAIN tasks /\ tasks[u] = tasks'[u] /\ tasks[u].key # Key(t)
               /\ tasks[u].key \in Files
    <3>1. u # t
      BY <1>5, <2>4
    <3>2. u \in DOMAIN tasks /\ tasks[u] = tasks'[u]
      BY <1>5, <3>1 DEF Untouched
    <3> QED
      BY <1>1, <2>4, <3>1, <3>2 DEF ParsesOK, Key, TypeOK, Task
  <2> QED
    BY <1>1, <2>2, <2>3, <2>4 DEF ParsesOK
<1>10. PhaseOK'
  BY <1>1, <1>5, PhaseKept DEF WalkStep
<1> QED
  BY <1>5, <1>6, <1>7, <1>8, <1>9, <1>10 DEF IInv

\* A step that starts no parse leaves their bookkeeping as it is.
LEMMA ParsesKept ==
  ASSUME ParsesOK, UNCHANGED <<visited, parses>>,
         \A u \in DOMAIN tasks' :
           tasks'[u].pc = "parse" => u \in DOMAIN tasks /\ tasks[u] = tasks'[u]
  PROVE  ParsesOK'
  BY DEF ParsesOK

LEMMA PublishStep ==
  ASSUME IInv, NEW t \in DOMAIN tasks, Publish(t)
  PROVE  IInv'
<1>1. /\ TypeOK /\ TreeOK /\ MarkedOK /\ FollowedOK /\ ParsesOK /\ PhaseOK
      /\ phase = "walk" /\ WalkStep /\ UNCHANGED <<errors, visited, parses>>
      /\ tasks[t].pc = "publish" /\ Key(t) \in Files
  BY InWalk DEF IInv, Publish, AtPc, WalkStep, Key, TypeOK, Task
<1>2. /\ DOMAIN deps' = DOMAIN deps \cup {Key(t)}
      /\ deps'[Key(t)] = graph[Key(t)].imports
      /\ \A f \in DOMAIN deps : f # Key(t) => deps'[f] = deps[f]
      /\ Continue(t, "fork")
  BY DEF Publish
<1>3. /\ DOMAIN tasks' \subseteq Seq(Nat) /\ \A u \in DOMAIN tasks' : tasks'[u] \in Task
      /\ TreeOK' /\ Kept(t) /\ Untouched(t)
      /\ t \in DOMAIN tasks' /\ tasks'[t].pc = "fork"
      /\ \A f \in Files : f = Key(t) => Working(tasks', f, "fork")
  BY <1>1, <1>2, ContinueTask DEF Pcs
<1>4. graph[Key(t)].imports \in Seq(Files)
  BY <1>1, ResolverAssumption DEF TypeOK, Abstract!File
<1>5. DOMAIN deps' \subseteq Files /\ \A f \in DOMAIN deps' : deps'[f] \in Seq(Files)
  BY <1>1, <1>2, <1>4 DEF TypeOK
<1>6. TypeOK'
  BY <1>1, <1>3, <1>5, WalkTypes DEF TypeOK
<1>7. MarkedOK'
  BY <1>1, <1>2, <1>3, MarkedKept
<1>8. FollowedOK'
  <2>1. \A f \in DOMAIN deps' : deps'[f] = graph'[f].imports
    BY <1>1, <1>2 DEF FollowedOK, WalkStep
  <2>2. ASSUME NEW f \in DOMAIN deps', NEW d \in Files, Imports(f, d)
        PROVE  \/ d \in visited'
               \/ Working(tasks', f, "fork")
               \/ Working(tasks', d, "visit")
    <3>1. CASE f = Key(t)
      BY <1>1, <1>3, <3>1
    <3>2. CASE f # Key(t)
      <4>1. f \in DOMAIN deps /\ f \in Files
        BY <1>2, <1>5, <3>2
      <4>2. \/ d \in visited \/ Working(tasks, f, "fork") \/ Working(tasks, d, "visit")
        BY <1>1, <2>2, <4>1 DEF FollowedOK
      <4> QED
        BY <1>1, <1>3, <4>1, <4>2 DEF Kept, Pcs
    <3> QED
      BY <3>1, <3>2
  <2> QED
    BY <1>1, <2>1, <2>2 DEF FollowedOK, Imports, WalkStep
<1>9. ParsesOK'
  BY <1>1, <1>3, ParsesKept DEF Untouched
<1>10. PhaseOK'
  BY <1>1, <1>3, PhaseKept DEF WalkStep
<1> QED
  BY <1>3, <1>6, <1>7, <1>8, <1>9, <1>10 DEF IInv

\* The new tasks have names of their own, and the task that forks waits.
LEMMA ForkTasks ==
  ASSUME TypeOK, TreeOK, NEW t \in DOMAIN tasks, Fork(t)
  PROVE  /\ DOMAIN tasks' \subseteq Seq(Nat) /\ \A u \in DOMAIN tasks' : tasks'[u] \in Task
         /\ TreeOK'
         /\ Kept(t)
         /\ \A u \in DOMAIN tasks' :
              tasks'[u].pc = "parse" => u \in DOMAIN tasks /\ tasks[u] = tasks'[u]
         /\ \A d \in Files : Imports(Key(t), d) => Working(tasks', d, "visit")
<1> DEFINE L == graph[Key(t)].imports
<1>1. /\ tasks[t] \in Task /\ tasks[t].pc = "fork" /\ Key(t) \in Files
      /\ t \in Seq(Nat) /\ DOMAIN tasks \subseteq Seq(Nat)
  BY DEF TypeOK, Fork, AtPc, Key, Task
<1>2. L \in Seq(Files)
  BY <1>1, ResolverAssumption DEF TypeOK, Abstract!File
<1> HIDE DEF L
<1>3. /\ DOMAIN tasks' = DOMAIN tasks \cup Forked(t)
      /\ tasks'[t] = [tasks[t] EXCEPT !.pc = "join"]
      /\ \A u \in Forked(t) : u # t => tasks'[u] = NewTask(L[Last(u)])
      /\ \A u \in DOMAIN tasks : u # t /\ u \notin Forked(t) => tasks'[u] = tasks[u]
  BY DEF Fork, L
<1>4. \A u \in Forked(t) : \E i \in 1..Len(L) :
         u = Append(t, i) /\ i \in Nat /\ u \in Seq(Nat) /\ u # t /\ Last(u) = i
  <2>1. \A u \in Forked(t) : \E i \in 1..Len(L) : u = Append(t, i) /\ i \in Nat
    BY <1>2 DEF Forked, L
  <2>2. ASSUME NEW u \in Forked(t)
        PROVE  \E i \in 1..Len(L) :
                 u = Append(t, i) /\ i \in Nat /\ u \in Seq(Nat) /\ u # t /\ Last(u) = i
    <3>1. PICK i \in 1..Len(L) : u = Append(t, i) /\ i \in Nat
      BY <2>1
    <3>2. Append(t, i) \in Seq(Nat) /\ Append(t, i) # t /\ Last(Append(t, i)) = i
      BY <1>1, <3>1, AppendOnce
    <3> QED
      BY <3>1, <3>2
  <2> QED
    BY <2>2
<1>5. \A i \in 1..Len(L) : Append(t, i) \in Forked(t) /\ i \in Nat
  BY <1>2 DEF Forked, L
<1>6. \A u \in Forked(t) : u \notin DOMAIN tasks
  <2>1. \A i \in Nat : Append(t, i) \notin DOMAIN tasks
    BY <1>1, Childless
  <2> QED
    BY <1>4, <2>1
<1>7. \A u \in Forked(t) : tasks'[u] = NewTask(L[Last(u)]) /\ L[Last(u)] \in Files
  BY <1>2, <1>3, <1>4
<1>8. \A u \in Forked(t) : tasks'[u] \in Task /\ tasks'[u].pc = "visit"
  <2>1. \A f \in Files : NewTask(f) \in Task /\ NewTask(f).pc = "visit"
    BY DEF NewTask, Task
  <2> QED
    BY <1>7, <2>1
<1>9. tasks'[t] \in Task /\ tasks'[t].pc = "join"
  BY <1>1, <1>3 DEF Task
<1>10. \A u \in DOMAIN tasks : u # t => tasks'[u] = tasks[u]
  BY <1>3, <1>6
<1>11. DOMAIN tasks' \subseteq Seq(Nat)
  BY <1>1, <1>3, <1>4
<1>12. \A u \in DOMAIN tasks' : tasks'[u] \in Task
  BY <1>3, <1>8, <1>9, <1>10 DEF TypeOK
<1>13. TreeOK'
  <2> SUFFICES ASSUME NEW s \in Seq(Nat), NEW i \in Nat, Append(s, i) \in DOMAIN tasks'
               PROVE  s \in DOMAIN tasks' /\ tasks'[s].pc = "join"
    BY DEF TreeOK
  <2>1. CASE Append(s, i) \in DOMAIN tasks
    <3>1. s \in DOMAIN tasks /\ tasks[s].pc = "join" /\ s # t
      BY <1>1, <2>1 DEF TreeOK
    <3> QED
      BY <1>3, <1>10, <3>1
  <2>2. CASE Append(s, i) \in Forked(t)
    <3>1. PICK j \in 1..Len(L) : Append(s, i) = Append(t, j) /\ j \in Nat
      BY <1>4, <2>2
    <3>2. s = t
      BY <1>1, <3>1, AppendInjective
    <3> QED
      BY <1>3, <1>9, <3>2
  <2> QED
    BY <1>3, <2>1, <2>2
<1>14. Kept(t)
  <2>1. ASSUME NEW f \in Files, NEW p \in Pcs, Working(tasks, f, p), f # Key(t) \/ p # tasks[t].pc
        PROVE  Working(tasks', f, p)
    BY <2>1, <1>3, <1>10 DEF Working, Key
  <2> QED
    BY <2>1 DEF Kept
<1>15. \A u \in DOMAIN tasks' :
         tasks'[u].pc = "parse" => u \in DOMAIN tasks /\ tasks[u] = tasks'[u]
  BY <1>3, <1>8, <1>9, <1>10
<1>16. ASSUME NEW d \in Files, Imports(Key(t), d)
       PROVE  Working(tasks', d, "visit")
  <2>1. PICK i \in 1..Len(L) : L[i] = d
    BY <1>16 DEF Imports, L
  <2>2. Append(t, i) \in Forked(t) /\ Last(Append(t, i)) = i
    BY <1>1, <1>5, AppendOnce
  <2>3. tasks'[Append(t, i)] = NewTask(d) /\ Append(t, i) \in DOMAIN tasks'
    BY <1>3, <1>7, <2>1, <2>2
  <2> QED
    BY <2>3 DEF Working, NewTask
<1> QED
  BY <1>11, <1>12, <1>13, <1>14, <1>15, <1>16

LEMMA ForkStep ==
  ASSUME IInv, NEW t \in DOMAIN tasks, Fork(t)
  PROVE  IInv'
<1>1. /\ TypeOK /\ TreeOK /\ MarkedOK /\ FollowedOK /\ ParsesOK /\ PhaseOK
      /\ phase = "walk" /\ WalkStep /\ UNCHANGED <<errors, visited, parses, deps>>
      /\ tasks[t].pc = "fork" /\ Key(t) \in Files
  BY InWalk DEF IInv, Fork, AtPc, WalkStep, Key, TypeOK, Task
<1>2. /\ DOMAIN tasks' \subseteq Seq(Nat) /\ \A u \in DOMAIN tasks' : tasks'[u] \in Task
      /\ TreeOK' /\ Kept(t)
      /\ \A u \in DOMAIN tasks' :
           tasks'[u].pc = "parse" => u \in DOMAIN tasks /\ tasks[u] = tasks'[u]
      /\ \A d \in Files : Imports(Key(t), d) => Working(tasks', d, "visit")
  BY <1>1, ForkTasks
<1>3. TypeOK'
  BY <1>1, <1>2, WalkTypes DEF TypeOK
<1>4. MarkedOK'
  BY <1>1, <1>2, MarkedKept
<1>5. FollowedOK'
  <2> SUFFICES ASSUME NEW f \in DOMAIN deps, NEW d \in Files, Imports(f, d)
               PROVE  \/ d \in visited
                      \/ Working(tasks', f, "fork")
                      \/ Working(tasks', d, "visit")
    BY <1>1 DEF FollowedOK, Imports, WalkStep
  <2>1. f \in Files
    BY <1>1 DEF TypeOK
  <2>2. CASE f = Key(t)
    BY <1>2, <2>2
  <2>3. CASE f # Key(t)
    <3>1. \/ d \in visited \/ Working(tasks, f, "fork") \/ Working(tasks, d, "visit")
      BY <1>1 DEF FollowedOK
    <3> QED
      BY <1>1, <1>2, <2>1, <2>3, <3>1 DEF Kept, Pcs
  <2> QED
    BY <2>2, <2>3
<1>6. ParsesOK'
  BY <1>1, <1>2, ParsesKept
<1>7. PhaseOK'
  BY <1>1, <1>2, PhaseKept DEF WalkStep
<1> QED
  BY <1>2, <1>3, <1>4, <1>5, <1>6, <1>7 DEF IInv

LEMMA JoinStep ==
  ASSUME IInv, NEW t \in DOMAIN tasks, Join(t)
  PROVE  IInv'
<1>1. /\ TypeOK /\ TreeOK /\ MarkedOK /\ FollowedOK /\ ParsesOK /\ PhaseOK
      /\ phase = "walk" /\ WalkStep /\ UNCHANGED <<errors, visited, parses, deps>>
      /\ tasks[t].pc = "join" /\ t \in Seq(Nat) /\ Done(t)
      /\ \A u \in DOMAIN tasks : ~IsStrictPrefix(t, u)
  BY InWalk DEF IInv, Join, AtPc, WalkStep, TypeOK
<1>2. \A i \in Nat : Append(t, i) \notin DOMAIN tasks
  BY <1>1, ParentIsPrefix
<1>3. /\ DOMAIN tasks' \subseteq Seq(Nat) /\ \A u \in DOMAIN tasks' : tasks'[u] \in Task
      /\ TreeOK' /\ Kept(t) /\ Untouched(t) /\ t \notin DOMAIN tasks'
  BY <1>1, <1>2, DoneTask
<1>4. TypeOK'
  BY <1>1, <1>3, WalkTypes DEF TypeOK
<1>5. MarkedOK'
  BY <1>1, <1>3, MarkedKept
<1>6. FollowedOK'
  BY <1>1, <1>3, FollowedKept DEF WalkStep
<1>7. ParsesOK'
  BY <1>1, <1>3, ParsesKept DEF Untouched
<1>8. PhaseOK'
  BY <1>1, <1>3, PhaseKept DEF WalkStep
<1> QED
  BY <1>3, <1>4, <1>5, <1>6, <1>7, <1>8 DEF IInv

-----------------------------------------------------------------------------
(* resolve and the emission. *)

\* Outside the walk nothing but the phase of the work of the walk changes.
Aside == UNCHANGED <<graph, tasks, visited, deps, errors, parses>>

LEMMA AsideKeeps ==
  ASSUME IInv, Aside
  PROVE  TreeOK' /\ MarkedOK' /\ FollowedOK' /\ ParsesOK'
  BY DEF IInv, Aside, TreeOK, MarkedOK, FollowedOK, ParsesOK, Imports

LEMMA CallType ==
  ASSUME NEW f \in Files
  PROVE  Call(f) \in Frame /\ <<Call(f)>> \in Seq(Frame)
  BY DEF Call, Frame

LEMMA StartStep == IInv /\ Start => IInv'
<1> SUFFICES ASSUME IInv, Start PROVE IInv'
  OBVIOUS
<1>1. /\ TypeOK /\ PhaseOK /\ phase = "start" /\ Entry \in Files
      /\ UNCHANGED <<graph, visited, deps, errors, stack, out, parses>>
      /\ DOMAIN tasks = {} /\ visited = {} /\ DOMAIN deps = {} /\ ParsesOK
  BY ResolverAssumption DEF IInv, Start, PhaseOK
<1>2. CASE graph[Entry].status = "unreadable"
  <2>1. phase' = "done" /\ UNCHANGED tasks
    BY <1>2 DEF Start, Return
  <2>2. TreeOK' /\ MarkedOK' /\ FollowedOK' /\ ParsesOK'
    BY <1>1, <2>1, AsideKeeps DEF Aside
  <2>3. TypeOK'
    BY <1>1, <2>1 DEF TypeOK
  <2>4. PhaseOK'
    BY <1>1, <2>1 DEF PhaseOK
  <2> QED
    BY <2>2, <2>3, <2>4 DEF IInv
<1>3. CASE graph[Entry].status # "unreadable"
  <2> /\ phase' = "walk" /\ answer' = answer
      /\ tasks' = [t \in {<< >>} |-> NewTask(Entry)]
    BY <1>3 DEF Start
  <2>1. DOMAIN tasks' = {<< >>} /\ tasks'[<< >>] = NewTask(Entry) /\ << >> \in Seq(Nat)
    OBVIOUS
  <2>2. NewTask(Entry) \in Task /\ NewTask(Entry).pc = "visit" /\ NewTask(Entry).key = Entry
    BY <1>1 DEF NewTask, Task
  <2>3. TypeOK'
    BY <1>1, <2>1, <2>2 DEF TypeOK
  <2>4. TreeOK'
    BY <2>1, AppendOnce DEF TreeOK
  <2>5. MarkedOK' /\ FollowedOK'
    BY <1>1 DEF MarkedOK, FollowedOK
  <2>6. ParsesOK'
    BY <1>1, <2>1, <2>2 DEF ParsesOK
  <2>7. PhaseOK'
    BY <1>1, <2>1, <2>2 DEF PhaseOK, Working
  <2> QED
    BY <2>3, <2>4, <2>5, <2>6, <2>7 DEF IInv
<1> QED
  BY <1>2, <1>3

LEMMA EndWalkStep == IInv /\ EndWalk => IInv'
<1> SUFFICES ASSUME IInv, EndWalk PROVE IInv'
  OBVIOUS
<1>1. /\ TypeOK /\ PhaseOK /\ phase = "walk" /\ Entry \in Files /\ DOMAIN tasks = {}
      /\ UNCHANGED <<graph, tasks, visited, deps, errors, out, parses>>
  BY ResolverAssumption DEF IInv, EndWalk
<1>2. TreeOK' /\ MarkedOK' /\ FollowedOK' /\ ParsesOK'
  BY <1>1, AsideKeeps DEF Aside
<1>3. \/ phase' = "done" /\ UNCHANGED stack
      \/ phase' = "emit" /\ stack' = <<Call(Entry)>> /\ errors = {}
  BY DEF EndWalk, Return
<1>4. stack' \in Seq(Frame)
  BY <1>1, <1>3, CallType DEF TypeOK
<1>5. TypeOK'
  BY <1>1, <1>3, <1>4 DEF TypeOK
<1>6. Entry \in visited
  BY <1>1 DEF PhaseOK, Working
<1>7. PhaseOK'
  BY <1>1, <1>3, <1>6 DEF PhaseOK
<1> QED
  BY <1>2, <1>5, <1>7 DEF IInv

\* The emission calls itself on modules of the graph.
LEMMA EmitTypes ==
  ASSUME TypeOK, EmitImport \/ EmitSelf
  PROVE  stack' \in Seq(Frame) /\ out' \in Seq(Files)
<1>1. /\ stack \in Seq(Frame) /\ stack # << >> /\ out \in Seq(Files)
      /\ Head(stack) \in Frame /\ Tail(stack) \in Seq(Frame)
  BY DEF TypeOK, EmitImport, EmitSelf, Emitting
<1>2. CASE EmitSelf
  BY <1>1, <1>2 DEF EmitSelf, Frame
<1>3. CASE EmitImport
  <2> DEFINE k == Head(stack).key
             n == Head(stack).next
             f == Children(k)[n]
  <2>1. k \in Files /\ n \in Nat \ {0} /\ n <= Len(Children(k))
    BY <1>1, <1>3 DEF EmitImport, Frame
  <2>2. Children(k) \in Seq(Files)
    BY <2>1 DEF Children, TypeOK
  <2>3. f \in Files
    BY <2>1, <2>2
  <2>4. Caller \in Frame
    BY <1>1 DEF Caller, Frame
  <2>5. \/ stack' = <<Caller>> \o Tail(stack)
        \/ stack' = <<Call(f), Caller>> \o Tail(stack)
    BY <1>3 DEF EmitImport
  <2> HIDE DEF f
  <2>6. <<Caller>> \in Seq(Frame) /\ <<Call(f), Caller>> \in Seq(Frame)
    BY <2>3, <2>4, CallType
  <2> DEFINE rest == Tail(stack)
             one == <<Caller>>
             two == <<Call(f), Caller>>
  <2>7. rest \in Seq(Frame)
    BY <1>1
  <2> HIDE DEF rest, one, two
  <2>8. one \o rest \in Seq(Frame) /\ two \o rest \in Seq(Frame)
    BY <2>6, <2>7, ConcatProperties DEF one, two
  <2>9. stack' \in Seq(Frame)
    BY <2>5, <2>8 DEF one, two, rest
  <2>10. out' = out
    BY <1>3 DEF EmitImport
  <2> QED
    BY <1>1, <2>9, <2>10
<1> QED
  BY <1>2, <1>3

LEMMA EmitStep == IInv /\ (EmitImport \/ EmitSelf \/ Finish) => IInv'
<1> SUFFICES ASSUME IInv, EmitImport \/ EmitSelf \/ Finish PROVE IInv'
  OBVIOUS
<1>1. TypeOK /\ PhaseOK /\ phase = "emit" /\ Aside
  BY DEF IInv, EmitImport, EmitSelf, Finish, Emitting, Aside
<1>2. TreeOK' /\ MarkedOK' /\ FollowedOK' /\ ParsesOK'
  BY <1>1, AsideKeeps
<1>3. phase' \in {"emit", "done"}
  BY <1>1 DEF EmitImport, EmitSelf, Finish, Return
<1>4. stack' \in Seq(Frame) /\ out' \in Seq(Files)
  BY <1>1, EmitTypes DEF Finish, TypeOK
<1>5. TypeOK'
  BY <1>1, <1>3, <1>4 DEF TypeOK, Aside
<1>6. PhaseOK'
  BY <1>1, <1>3 DEF PhaseOK, Aside
<1> QED
  BY <1>2, <1>5, <1>6 DEF IInv

-----------------------------------------------------------------------------
(* The theorems. *)

LEMMA InitOK == Init => IInv
<1> SUFFICES ASSUME Init PROVE IInv
  OBVIOUS
<1>1. TypeOK
  BY DEF Init, TypeOK
<1>2. TreeOK /\ MarkedOK /\ FollowedOK /\ ParsesOK /\ PhaseOK
  BY DEF Init, TreeOK, MarkedOK, FollowedOK, ParsesOK, PhaseOK
<1> QED
  BY <1>1, <1>2 DEF IInv

LEMMA NextOK == IInv /\ [Next]_vars => IInv'
<1> SUFFICES ASSUME IInv, [Next]_vars PROVE IInv'
  OBVIOUS
<1>1. CASE Start
  BY <1>1, StartStep
<1>2. CASE Walk
  BY <1>2, VisitStep, ParseStep, PublishStep, ForkStep, JoinStep DEF Walk
<1>3. CASE EndWalk
  BY <1>3, EndWalkStep
<1>4. CASE EmitImport \/ EmitSelf \/ Finish
  BY <1>4, EmitStep
<1>5. CASE UNCHANGED vars
  <2>1. TreeOK' /\ MarkedOK' /\ FollowedOK' /\ ParsesOK'
    BY <1>5, AsideKeeps DEF Aside, vars
  <2> QED
    BY <1>5, <2>1 DEF IInv, TypeOK, PhaseOK, vars
<1> QED
  BY <1>1, <1>2, <1>3, <1>4, <1>5 DEF Next

LEMMA Invariance == Spec => []IInv
  BY InitOK, NextOK, PTL DEF Spec

\* The types, for every set of files and every import graph.
THEOREM TypeCorrect == Spec => []TypeOK
<1>1. IInv => TypeOK
  BY DEF IInv
<1> QED
  BY <1>1, Invariance, PTL

\* No file is parsed twice, whatever tasks reach it at once: the visited
\* lock of collect_module_graph is held from the check to the mark.
THEOREM NeverParsedTwice == Spec => []ParsedOnce
<1>1. IInv => ParsedOnce
  BY DEF IInv, ParsesOK, ParsedOnce
<1> QED
  BY <1>1, Invariance, PTL

\* When resolve starts to emit, deps holds the imports of the entry and of
\* every module that is imported by a module in deps.
THEOREM NothingMissing == Spec => []GraphComplete
<1>1. IInv => GraphComplete
  <2> SUFFICES ASSUME IInv, phase = "emit" PROVE GraphComplete
    BY DEF GraphComplete
  <2>1. DOMAIN tasks = {} /\ errors = {} /\ Entry \in visited
    BY DEF IInv, PhaseOK, Working
  <2>2. \A f \in visited : f \in DOMAIN deps
    BY <2>1 DEF IInv, MarkedOK, Working
  <2>3. ASSUME NEW f \in DOMAIN deps
        PROVE  /\ deps[f] = graph[f].imports
               /\ \A i \in 1..Len(deps[f]) : deps[f][i] \in DOMAIN deps
    <3>1. deps[f] = graph[f].imports /\ deps[f] \in Seq(Files)
      BY DEF IInv, FollowedOK, TypeOK
    <3>2. ASSUME NEW i \in 1..Len(deps[f]) PROVE deps[f][i] \in visited
      <4>1. deps[f][i] \in Files /\ Imports(f, deps[f][i])
        BY <3>1 DEF Imports
      <4> QED
        BY <2>1, <4>1 DEF IInv, FollowedOK, Working
    <3> QED
      BY <2>2, <3>1, <3>2
  <2> QED
    BY <2>1, <2>2, <2>3 DEF GraphComplete
<1> QED
  BY <1>1, Invariance, PTL

-----------------------------------------------------------------------------
(* What is reached is the least set with the entry that its imports stay in. *)

LEMMA GraphType ==
  ASSUME TypeOK, NEW f \in Files
  PROVE  /\ graph[f] \in Abstract!File /\ graph[f].imports \in Seq(Files)
         /\ Abstract!Links(graph, f) \subseteq Files
         /\ graph[f].status = "parses" =>
              \A d \in Files : d \in Abstract!Links(graph, f) <=> Imports(f, d)
<1>1. graph[f] \in Abstract!File
  BY ResolverAssumption DEF TypeOK
<1>2. graph[f].imports \in Seq(Files)
  BY <1>1 DEF Abstract!File
<1> QED
  BY <1>1, <1>2 DEF Abstract!Links, Imports

LEMMA LeastClosed ==
  ASSUME TypeOK, NEW fs, fs \subseteq Files
  PROVE  /\ fs \subseteq Abstract!ReachedFrom(graph, fs)
         /\ Abstract!ReachedFrom(graph, fs) \subseteq Files
         /\ Abstract!Closed(graph, Abstract!ReachedFrom(graph, fs))
         /\ \A S \in SUBSET Files :
              fs \subseteq S /\ Abstract!Closed(graph, S)
                => Abstract!ReachedFrom(graph, fs) \subseteq S
<1> DEFINE R == Abstract!ReachedFrom(graph, fs)
<1>1. \A f : f \in R <=>
        f \in Files /\ \A S \in SUBSET Files : fs \subseteq S /\ Abstract!Closed(graph, S) => f \in S
  BY DEF Abstract!ReachedFrom
<1> HIDE DEF R
<1>2. fs \subseteq R /\ R \subseteq Files
  BY <1>1
<1>3. ASSUME NEW S \in SUBSET Files, fs \subseteq S, Abstract!Closed(graph, S) PROVE R \subseteq S
  BY <1>1, <1>3
<1>4. Abstract!Closed(graph, R)
  <2> SUFFICES ASSUME NEW f \in R, NEW d \in Abstract!Links(graph, f) PROVE d \in R
    BY DEF Abstract!Closed
  <2>1. f \in Files /\ d \in Files
    BY <1>2, GraphType
  <2>2. ASSUME NEW S \in SUBSET Files, fs \subseteq S, Abstract!Closed(graph, S) PROVE d \in S
    BY <1>3, <2>2 DEF Abstract!Closed
  <2> QED
    BY <1>1, <2>1, <2>2
<1> QED
  BY <1>2, <1>3, <1>4 DEF R

\* The modules the entry reaches.
LEMMA EntryReaches ==
  ASSUME TypeOK
  PROVE  /\ Entry \in Abstract!Reached(graph) /\ Abstract!Reached(graph) \subseteq Files
         /\ Abstract!Closed(graph, Abstract!Reached(graph))
         /\ \A S \in SUBSET Files :
              Entry \in S /\ Abstract!Closed(graph, S) => Abstract!Reached(graph) \subseteq S
<1>1. {Entry} \subseteq Files
  BY ResolverAssumption
<1>2. \A S : Entry \in S <=> {Entry} \subseteq S
  OBVIOUS
<1> QED
  BY <1>1, <1>2, LeastClosed DEF Abstract!Reached

-----------------------------------------------------------------------------
(* The walk goes nowhere else, and reports what has faults. *)

ReachOK ==
  /\ \A t \in DOMAIN tasks : tasks[t].key \in Abstract!Reached(graph)
  /\ visited \subseteq Abstract!Reached(graph)
  /\ DOMAIN deps \subseteq visited

\* What was parsed was marked before.
ParsedOK ==
  /\ \A t \in DOMAIN tasks :
       /\ tasks[t].pc # "visit" => tasks[t].key \in visited
       /\ tasks[t].pc \in {"publish", "fork", "join"} => graph[tasks[t].key].status = "parses"
  /\ \A f \in DOMAIN deps : graph[f].status = "parses"

ReportedOK ==
  /\ \A f \in errors : f \in visited /\ Abstract!Faulty(graph, f)
  /\ \A f \in visited :
       Abstract!Faulty(graph, f) => f \in errors \/ Working(tasks, f, "parse")

PublishedOK ==
  \A f \in visited :
    graph[f].status = "parses" =>
      f \in DOMAIN deps \/ Working(tasks, f, "parse") \/ Working(tasks, f, "publish")

WalkOK == ReachOK /\ ParsedOK /\ ReportedOK /\ PublishedOK

\* When the tasks have returned, the marked modules are those reached.
LEMMA WalkComplete ==
  ASSUME IInv, WalkOK, DOMAIN tasks = {}, Entry \in visited
  PROVE  /\ visited = Abstract!Reached(graph)
         /\ errors = Abstract!Faults(graph)
         /\ \A f \in visited : graph[f].status = "parses" => f \in DOMAIN deps
<1>1. TypeOK /\ FollowedOK
  BY DEF IInv
<1>2. visited \subseteq Abstract!Reached(graph) /\ visited \subseteq Files
  BY <1>1 DEF WalkOK, ReachOK, TypeOK
<1>3. ASSUME NEW f \in visited, graph[f].status = "parses" PROVE f \in DOMAIN deps
  BY <1>3 DEF WalkOK, PublishedOK, Working
<1>4. Abstract!Closed(graph, visited)
  <2> SUFFICES ASSUME NEW f \in visited, NEW d \in Abstract!Links(graph, f) PROVE d \in visited
    BY DEF Abstract!Closed
  <2>1. graph[f].status = "parses" /\ d \in Files
    BY <1>1, <1>2, GraphType DEF Abstract!Links
  <2>2. Imports(f, d) /\ f \in DOMAIN deps
    BY <1>1, <1>2, <1>3, <2>1, GraphType
  <2> QED
    BY <1>1, <2>1, <2>2 DEF FollowedOK, Working
<1>5. visited = Abstract!Reached(graph)
  BY <1>1, <1>2, <1>4, EntryReaches
<1>6. errors = Abstract!Faults(graph)
  <2>1. \A f \in errors : f \in visited /\ Abstract!Faulty(graph, f)
    BY DEF WalkOK, ReportedOK
  <2>2. \A f \in visited : Abstract!Faulty(graph, f) => f \in errors
    BY DEF WalkOK, ReportedOK, Working
  <2> QED
    BY <1>5, <2>1, <2>2 DEF Abstract!Faults
<1> QED
  BY <1>3, <1>5, <1>6

LEMMA WalkVisit ==
  ASSUME IInv, WalkOK, NEW t \in DOMAIN tasks, Visit(t)
  PROVE  WalkOK'
<1>1. /\ TypeOK /\ TreeOK /\ UNCHANGED <<graph, deps, errors>>
      /\ tasks[t].pc = "visit" /\ Key(t) \in Files
      /\ ReachOK /\ ParsedOK /\ ReportedOK /\ PublishedOK
      /\ visited \subseteq visited'
  BY DEF IInv, WalkOK, Visit, AtPc, Key, TypeOK, Task
<1>2. Kept(t) /\ Untouched(t)
      /\ \/ t \notin DOMAIN tasks' /\ visited' = visited
         \/ /\ tasks'[t].pc = "parse" /\ tasks'[t].key = Key(t)
            /\ visited' = visited \cup {Key(t)} /\ Working(tasks', Key(t), "parse")
  <2>1. CASE Key(t) \in visited
    <3>1. Done(t) /\ visited' = visited /\ \A i \in Nat : Append(t, i) \notin DOMAIN tasks
      BY <1>1, <2>1, Childless DEF Visit
    <3> QED
      BY <1>1, <3>1, DoneTask
  <2>2. CASE Key(t) \notin visited
    <3>1. Continue(t, "parse") /\ visited' = visited \cup {Key(t)}
      BY <2>2 DEF Visit
    <3> QED
      BY <1>1, <3>1, ContinueTask DEF Pcs
  <2> QED
    BY <2>1, <2>2
<1>3. Key(t) \in Abstract!Reached(graph)
  BY <1>1 DEF ReachOK, Key
<1>4. ASSUME NEW u \in DOMAIN tasks'
      PROVE  \/ u # t /\ u \in DOMAIN tasks /\ tasks'[u] = tasks[u]
             \/ u = t /\ tasks'[u].pc = "parse" /\ tasks'[u].key = Key(t) /\ Key(t) \in visited'
  BY <1>2 DEF Untouched
<1>5. ReachOK'
  <2>1. visited' \subseteq Abstract!Reached(graph) /\ DOMAIN deps \subseteq visited'
    BY <1>1, <1>2, <1>3 DEF ReachOK
  <2>2. \A u \in DOMAIN tasks' : tasks'[u].key \in Abstract!Reached(graph)
    BY <1>1, <1>3, <1>4 DEF ReachOK
  <2> QED
    BY <1>1, <2>1, <2>2 DEF ReachOK
<1>6. ParsedOK'
  BY <1>1, <1>4 DEF ParsedOK
<1>7. ASSUME NEW f \in visited' PROVE f \in Files /\ (f \in visited \/ Working(tasks', f, "parse"))
  BY <1>1, <1>2 DEF TypeOK
<1>8. ReportedOK'
  <2>1. \A f \in errors' : f \in visited' /\ Abstract!Faulty(graph', f)
    BY <1>1 DEF ReportedOK
  <2>2. ASSUME NEW f \in visited', Abstract!Faulty(graph, f)
        PROVE  f \in errors \/ Working(tasks', f, "parse")
    BY <1>1, <1>2, <1>7, <2>2 DEF ReportedOK, Kept, Pcs
  <2> QED
    BY <1>1, <2>1, <2>2 DEF ReportedOK
<1>9. PublishedOK'
  BY <1>1, <1>2, <1>7 DEF PublishedOK, Kept, Pcs
<1> QED
  BY <1>5, <1>6, <1>8, <1>9 DEF WalkOK

LEMMA WalkParse ==
  ASSUME IInv, WalkOK, NEW t \in DOMAIN tasks, Parse(t)
  PROVE  WalkOK'
<1>1. /\ TypeOK /\ TreeOK /\ UNCHANGED <<graph, deps, visited>>
      /\ tasks[t].pc = "parse" /\ Key(t) \in Files
      /\ ReachOK /\ ParsedOK /\ ReportedOK /\ PublishedOK
      /\ errors' = IF Abstract!Faulty(graph, Key(t)) THEN errors \cup {Key(t)} ELSE errors
  BY DEF IInv, WalkOK, Parse, AtPc, Key, TypeOK, Task
<1>2. Kept(t) /\ Untouched(t)
      /\ \/ t \notin DOMAIN tasks' /\ graph[Key(t)].status # "parses"
         \/ /\ tasks'[t].pc = "publish" /\ tasks'[t].key = Key(t)
            /\ graph[Key(t)].status = "parses" /\ Working(tasks', Key(t), "publish")
  <2>1. CASE graph[Key(t)].status # "parses"
    <3>1. Done(t) /\ \A i \in Nat : Append(t, i) \notin DOMAIN tasks
      BY <1>1, <2>1, Childless DEF Parse
    <3> QED
      BY <1>1, <2>1, <3>1, DoneTask
  <2>2. CASE graph[Key(t)].status = "parses"
    <3>1. Continue(t, "publish")
      BY <2>2 DEF Parse
    <3> QED
      BY <1>1, <2>2, <3>1, ContinueTask DEF Pcs
  <2> QED
    BY <2>1, <2>2
<1>3. Key(t) \in Abstract!Reached(graph) /\ Key(t) \in visited
  BY <1>1 DEF ReachOK, ParsedOK, Key
<1>4. ASSUME NEW u \in DOMAIN tasks'
      PROVE  \/ u # t /\ u \in DOMAIN tasks /\ tasks'[u] = tasks[u]
             \/ /\ u = t /\ tasks'[u].pc = "publish" /\ tasks'[u].key = Key(t)
                /\ graph[Key(t)].status = "parses"
  BY <1>2 DEF Untouched
<1>5. ReachOK'
  BY <1>1, <1>3, <1>4 DEF ReachOK
<1>6. ParsedOK'
  BY <1>1, <1>3, <1>4 DEF ParsedOK
<1>7. ReportedOK'
  <2>1. ASSUME NEW f \in errors' PROVE f \in visited /\ Abstract!Faulty(graph, f)
    BY <1>1, <1>3 DEF ReportedOK
  <2>2. ASSUME NEW f \in visited, Abstract!Faulty(graph, f)
        PROVE  f \in errors' \/ Working(tasks', f, "parse")
    <3>1. f \in errors \/ Working(tasks, f, "parse")
      BY <1>1, <2>2 DEF ReportedOK
    <3>2. f \in Files
      BY <1>1 DEF TypeOK
    <3> QED
      BY <1>1, <1>2, <2>2, <3>1, <3>2 DEF Kept, Pcs
  <2> QED
    BY <1>1, <2>1, <2>2 DEF ReportedOK
<1>8. PublishedOK'
  <2> SUFFICES ASSUME NEW f \in visited, graph[f].status = "parses"
               PROVE  f \in DOMAIN deps \/ Working(tasks', f, "parse") \/ Working(tasks', f, "publish")
    BY <1>1 DEF PublishedOK
  <2>1. f \in Files /\ (f \in DOMAIN deps \/ Working(tasks, f, "parse") \/ Working(tasks, f, "publish"))
    BY <1>1 DEF PublishedOK, TypeOK
  <2>2. CASE f = Key(t)
    BY <1>2, <2>2
  <2>3. CASE f # Key(t)
    BY <1>2, <2>1, <2>3 DEF Kept, Pcs
  <2> QED
    BY <2>2, <2>3
<1> QED
  BY <1>5, <1>6, <1>7, <1>8 DEF WalkOK

LEMMA WalkPublish ==
  ASSUME IInv, WalkOK, NEW t \in DOMAIN tasks, Publish(t)
  PROVE  WalkOK'
<1>1. /\ TypeOK /\ TreeOK /\ UNCHANGED <<graph, errors, visited>>
      /\ tasks[t].pc = "publish" /\ Key(t) \in Files
      /\ ReachOK /\ ParsedOK /\ ReportedOK /\ PublishedOK
      /\ DOMAIN deps' = DOMAIN deps \cup {Key(t)} /\ Continue(t, "fork")
  BY DEF IInv, WalkOK, Publish, AtPc, Key, TypeOK, Task
<1>2. Kept(t) /\ Untouched(t) /\ tasks'[t].pc = "fork" /\ tasks'[t].key = Key(t)
  BY <1>1, ContinueTask DEF Pcs
<1>3. /\ Key(t) \in Abstract!Reached(graph) /\ Key(t) \in visited
      /\ graph[Key(t)].status = "parses"
  BY <1>1 DEF ReachOK, ParsedOK, Key
<1>4. ASSUME NEW u \in DOMAIN tasks'
      PROVE  \/ u # t /\ u \in DOMAIN tasks /\ tasks'[u] = tasks[u]
             \/ u = t /\ tasks'[u].pc = "fork" /\ tasks'[u].key = Key(t)
  BY <1>2 DEF Untouched
<1>5. ReachOK'
  BY <1>1, <1>3, <1>4 DEF ReachOK
<1>6. ParsedOK'
  BY <1>1, <1>3, <1>4 DEF ParsedOK
<1>7. ReportedOK'
  <2>1. ASSUME NEW f \in visited, Abstract!Faulty(graph, f)
        PROVE  f \in errors \/ Working(tasks', f, "parse")
    BY <1>1, <1>2, <2>1 DEF ReportedOK, Kept, Pcs, TypeOK
  <2> QED
    BY <1>1, <2>1 DEF ReportedOK
<1>8. PublishedOK'
  <2> SUFFICES ASSUME NEW f \in visited, graph[f].status = "parses", f \notin DOMAIN deps'
               PROVE  Working(tasks', f, "parse") \/ Working(tasks', f, "publish")
    BY <1>1 DEF PublishedOK
  <2>1. f \in Files /\ f # Key(t) /\ (Working(tasks, f, "parse") \/ Working(tasks, f, "publish"))
    BY <1>1 DEF PublishedOK, TypeOK
  <2> QED
    BY <1>2, <2>1 DEF Kept, Pcs
<1> QED
  BY <1>5, <1>6, <1>7, <1>8 DEF WalkOK

LEMMA WalkFork ==
  ASSUME IInv, WalkOK, NEW t \in DOMAIN tasks, Fork(t)
  PROVE  WalkOK'
<1>1. /\ TypeOK /\ UNCHANGED <<graph, errors, visited, deps>>
      /\ tasks[t].pc = "fork" /\ Key(t) \in Files /\ t \in Seq(Nat)
      /\ ReachOK /\ ParsedOK /\ ReportedOK /\ PublishedOK
  BY DEF IInv, WalkOK, Fork, AtPc, Key, TypeOK, Task
<1>2. /\ Key(t) \in Abstract!Reached(graph) /\ Key(t) \in visited
      /\ graph[Key(t)].status = "parses"
  BY <1>1 DEF ReachOK, ParsedOK, Key
<1>3. \A i \in 1..Len(graph[Key(t)].imports) :
        graph[Key(t)].imports[i] \in Abstract!Reached(graph)
  BY <1>1, <1>2, EntryReaches DEF Abstract!Closed, Abstract!Links
<1>4. ASSUME NEW u \in Forked(t)
      PROVE  u # t /\ u \notin DOMAIN tasks
             /\ graph[Key(t)].imports[Last(u)] \in Abstract!Reached(graph)
  <2>1. PICK i \in 1..Len(graph[Key(t)].imports) : u = Append(t, i)
    BY DEF Forked
  <2>2. i \in Nat
    OBVIOUS
  <2> QED
    BY <1>1, <1>3, <2>1, <2>2, AppendOnce, Childless DEF IInv
<1>5. /\ DOMAIN tasks' = DOMAIN tasks \cup Forked(t)
      /\ tasks'[t] = [tasks[t] EXCEPT !.pc = "join"]
      /\ \A u \in Forked(t) : tasks'[u] = NewTask(graph[Key(t)].imports[Last(u)])
      /\ \A u \in DOMAIN tasks : u # t => tasks'[u] = tasks[u]
  BY <1>4 DEF Fork
<1>6. tasks[t] \in Task
  BY <1>1 DEF TypeOK
<1>7. ASSUME NEW u \in DOMAIN tasks'
      PROVE  \/ u # t /\ u \in DOMAIN tasks /\ tasks'[u] = tasks[u]
             \/ u = t /\ tasks'[u].pc = "join" /\ tasks'[u].key = Key(t)
             \/ tasks'[u].pc = "visit" /\ tasks'[u].key \in Abstract!Reached(graph)
  BY <1>4, <1>5, <1>6 DEF NewTask, Key, Task
<1>8. \A f \in Files, p \in {"parse", "publish"} : Working(tasks, f, p) => Working(tasks', f, p)
  BY <1>1, <1>5 DEF Working
<1>9. ReachOK'
  BY <1>1, <1>2, <1>7 DEF ReachOK
<1>10. ParsedOK'
  BY <1>1, <1>2, <1>7 DEF ParsedOK
<1>11. ReportedOK'
  <2>1. ASSUME NEW f \in visited, Abstract!Faulty(graph, f)
        PROVE  f \in errors \/ Working(tasks', f, "parse")
    BY <1>1, <1>8, <2>1 DEF ReportedOK, TypeOK
  <2> QED
    BY <1>1, <2>1 DEF ReportedOK
<1>12. PublishedOK'
  BY <1>1, <1>8 DEF PublishedOK, TypeOK
<1> QED
  BY <1>9, <1>10, <1>11, <1>12 DEF WalkOK

LEMMA WalkJoin ==
  ASSUME IInv, WalkOK, NEW t \in DOMAIN tasks, Join(t)
  PROVE  WalkOK'
<1>1. /\ TypeOK /\ UNCHANGED <<graph, errors, visited, deps>>
      /\ tasks[t].pc = "join" /\ Done(t)
      /\ ReachOK /\ ParsedOK /\ ReportedOK /\ PublishedOK
  BY DEF IInv, WalkOK, Join, AtPc
<1>2. /\ DOMAIN tasks' = DOMAIN tasks \ {t}
      /\ \A u \in DOMAIN tasks' : tasks'[u] = tasks[u]
  BY <1>1 DEF Done
<1>3. \A f \in Files, p \in {"parse", "publish"} : Working(tasks, f, p) => Working(tasks', f, p)
  BY <1>1, <1>2 DEF Working
<1>4. ReachOK' /\ ParsedOK'
  BY <1>1, <1>2 DEF ReachOK, ParsedOK
<1>5. ReportedOK'
  <2>1. ASSUME NEW f \in visited, Abstract!Faulty(graph, f)
        PROVE  f \in errors \/ Working(tasks', f, "parse")
    BY <1>1, <1>3, <2>1 DEF ReportedOK, TypeOK
  <2> QED
    BY <1>1, <2>1 DEF ReportedOK
<1>6. PublishedOK'
  BY <1>1, <1>3 DEF PublishedOK, TypeOK
<1> QED
  BY <1>4, <1>5, <1>6 DEF WalkOK

LEMMA WalkAside ==
  ASSUME WalkOK, Aside
  PROVE  WalkOK'
  BY DEF WalkOK, Aside, ReachOK, ParsedOK, ReportedOK, PublishedOK

LEMMA WalkStart ==
  ASSUME IInv, WalkOK, Start
  PROVE  WalkOK'
<1>1. /\ TypeOK /\ UNCHANGED <<graph, visited, deps, errors, parses>> /\ visited = {}
      /\ DOMAIN deps = {} /\ ReportedOK /\ ReachOK /\ DOMAIN tasks = {}
  BY DEF IInv, WalkOK, Start, PhaseOK
<1>2. \/ UNCHANGED tasks
      \/ tasks' = [t \in {<< >>} |-> NewTask(Entry)]
  BY DEF Start
<1>3. \A t \in DOMAIN tasks' : tasks'[t].key = Entry /\ tasks'[t].pc = "visit"
  BY <1>1, <1>2 DEF NewTask
<1>4. Entry \in Abstract!Reached(graph)
  BY <1>1, EntryReaches
<1>5. ReachOK' /\ ParsedOK' /\ PublishedOK'
  BY <1>1, <1>3, <1>4 DEF ReachOK, ParsedOK, PublishedOK
<1>6. ReportedOK'
  BY <1>1 DEF ReportedOK
<1> QED
  BY <1>5, <1>6 DEF WalkOK

-----------------------------------------------------------------------------
(* The stack of emit_module and what it emitted. *)

\* The modules whose calls have not returned were not emitted.
KeysOK ==
  \A j \in 1..Len(stack) :
    /\ stack[j].key \in DOMAIN deps /\ stack[j].key \notin Emitted
    /\ stack[j].next <= Len(graph[stack[j].key].imports) + 1

\* The innermost call has handled the imports before its next.
TopOK ==
  stack # << >> =>
    \A k \in 1..(stack[1].next - 1) : graph[stack[1].key].imports[k] \in Emitted

\* A call waits for the call of the import before its next.
CallersOK ==
  \A j \in 2..Len(stack) :
    /\ stack[j].next > 1
    /\ graph[stack[j].key].imports[stack[j].next - 1] = stack[j - 1].key
    /\ \A k \in 1..(stack[j].next - 2) : graph[stack[j].key].imports[k] \in Emitted

OutOnce == \A i, j \in 1..Len(out) : out[i] = out[j] => i = j

\* Each module after its imports.
OutAfter ==
  \A j \in 1..Len(out) :
    /\ out[j] \in DOMAIN deps
    /\ \A k \in 1..Len(graph[out[j]].imports) :
         \E i \in 1..(j - 1) : out[i] = graph[out[j]].imports[k]

\* The outermost call is that of the entry.
EntryOK ==
  /\ phase \in {"start", "walk"} => stack = << >> /\ out = << >>
  /\ phase \in {"start", "walk", "emit"} => answer = Abstract!Pending
  /\ stack # << >> => phase = "emit" /\ stack[Len(stack)].key = Entry
  /\ phase = "emit" /\ stack = << >> => Entry \in Emitted

\* The modules needed for the k-th import of the entry.
Needed(g, k) == Abstract!ReachedFrom(g, {g[Entry].imports[k]})

\* A module is emitted after the i-th import of the entry, or because that
\* one or an import before it needs it.
ListOK ==
  \A p \in 1..Len(out), i \in 1..Len(graph[Entry].imports) :
    \/ \E q \in 1..(p - 1) : out[q] = graph[Entry].imports[i]
    \/ \E k \in 1..i : out[p] \in Needed(graph, k)

\* The calls within that of the entry are needed by the import it is at.
NeededOK ==
  \A j \in 1..(Len(stack) - 1) : stack[j].key \in Needed(graph, stack[Len(stack)].next - 1)

EmitOK ==
  KeysOK /\ TopOK /\ CallersOK /\ OutOnce /\ OutAfter /\ EntryOK /\ ListOK /\ NeededOK

LEMMA StackType ==
  ASSUME TypeOK
  PROVE  /\ stack \in Seq(Frame) /\ Len(stack) \in Nat
         /\ stack # << >> => Len(stack) \in Nat \ {0} /\ Head(stack) = stack[1]
         /\ \A j \in 1..Len(stack) :
              stack[j] \in Frame /\ stack[j].key \in Files /\ stack[j].next \in Nat \ {0}
<1>1. stack \in Seq(Frame)
  BY DEF TypeOK
<1>2. \A j \in 1..Len(stack) : stack[j] \in Frame
  BY <1>1
<1> QED
  BY <1>1, <1>2 DEF Frame

LEMMA EmittedAfter ==
  ASSUME NEW f, out \in Seq(Files), f \in Files, out' = Append(out, f)
  PROVE  /\ Emitted' = Emitted \cup {f}
         /\ Len(out) \in Nat /\ Len(out') = Len(out) + 1 /\ out'[Len(out) + 1] = f
         /\ \A i \in 1..Len(out) : out'[i] = out[i]
<1>1. /\ Len(out) \in Nat /\ Len(out') = Len(out) + 1 /\ out'[Len(out) + 1] = f
      /\ \A i \in 1..Len(out) : out'[i] = out[i]
  BY AppendProperties
<1>2. Emitted' = {out'[i] : i \in 1..(Len(out) + 1)}
  BY <1>1 DEF Emitted
<1>3. \A i : i \in 1..(Len(out) + 1) <=> i \in 1..Len(out) \/ i = Len(out) + 1
  BY <1>1
<1>4. Emitted' = Emitted \cup {f}
  BY <1>1, <1>2, <1>3 DEF Emitted
<1> QED
  BY <1>1, <1>4

\* The stack after an import that returns at once, a call and a return.
LEMMA TopReplaced ==
  ASSUME NEW s \in Seq(Frame), s # << >>, NEW c \in Frame
  PROVE  LET n == <<c>> \o Tail(s)
         IN  /\ Len(s) \in Nat \ {0} /\ Len(n) = Len(s) /\ n[1] = c
             /\ \A j \in 2..Len(s) : n[j] = s[j]
<1> DEFINE one == <<c>>
           rest == Tail(s)
           n == one \o rest
<1>1. /\ rest \in Seq(Frame) /\ Len(rest) = Len(s) - 1 /\ Len(s) \in Nat \ {0}
      /\ \A j \in 1..Len(rest) : rest[j] = s[j + 1]
  OBVIOUS
<1>2. one \in Seq(Frame) /\ Len(one) = 1 /\ one[1] = c
  OBVIOUS
<1> HIDE DEF one, rest
<1>3. /\ Len(n) = Len(one) + Len(rest)
      /\ \A i \in 1..(Len(one) + Len(rest)) : n[i] = IF i <= Len(one) THEN one[i] ELSE rest[i - Len(one)]
  BY <1>1, <1>2, ConcatProperties
<1> HIDE DEF n
<1>4. Len(n) = Len(s) /\ n[1] = c
  BY <1>1, <1>2, <1>3
<1>5. ASSUME NEW j \in 2..Len(s) PROVE n[j] = s[j]
  <2>1. n[j] = rest[j - 1]
    BY <1>1, <1>2, <1>3
  <2>2. j - 1 \in 1..Len(rest) /\ (j - 1) + 1 = j
    BY <1>1
  <2> QED
    BY <1>1, <2>1, <2>2
<1>6. n = <<c>> \o Tail(s)
  BY DEF n, one, rest
<1> QED
  BY <1>1, <1>4, <1>5, <1>6

LEMMA TopCalled ==
  ASSUME NEW s \in Seq(Frame), s # << >>, NEW c \in Frame, NEW d \in Frame
  PROVE  LET n == <<d, c>> \o Tail(s)
         IN  /\ Len(s) \in Nat \ {0} /\ Len(n) = Len(s) + 1 /\ n[1] = d /\ n[2] = c
             /\ \A j \in 3..(Len(s) + 1) : n[j] = s[j - 1]
<1> DEFINE two == <<d, c>>
           rest == Tail(s)
           n == two \o rest
<1>1. /\ rest \in Seq(Frame) /\ Len(rest) = Len(s) - 1 /\ Len(s) \in Nat \ {0}
      /\ \A j \in 1..Len(rest) : rest[j] = s[j + 1]
  OBVIOUS
<1>2. two \in Seq(Frame) /\ Len(two) = 2 /\ two[1] = d /\ two[2] = c
  OBVIOUS
<1> HIDE DEF two, rest
<1>3. /\ Len(n) = Len(two) + Len(rest)
      /\ \A i \in 1..(Len(two) + Len(rest)) : n[i] = IF i <= Len(two) THEN two[i] ELSE rest[i - Len(two)]
  BY <1>1, <1>2, ConcatProperties
<1> HIDE DEF n
<1>4. Len(n) = Len(s) + 1 /\ n[1] = d /\ n[2] = c
  BY <1>1, <1>2, <1>3
<1>5. ASSUME NEW j \in 3..(Len(s) + 1) PROVE n[j] = s[j - 1]
  <2>1. n[j] = rest[j - 2]
    BY <1>1, <1>2, <1>3
  <2>2. j - 2 \in 1..Len(rest) /\ (j - 2) + 1 = j - 1
    BY <1>1
  <2> QED
    BY <1>1, <2>1, <2>2
<1>6. n = <<d, c>> \o Tail(s)
  BY DEF n, two, rest
<1> QED
  BY <1>1, <1>4, <1>5, <1>6

\* In the emission deps holds the graph.
LEMMA EmitGraph ==
  ASSUME IInv, WalkOK, phase = "emit"
  PROVE  /\ Abstract!Faults(graph) = {}
         /\ DOMAIN deps = Abstract!Reached(graph)
         /\ \A f \in DOMAIN deps :
              /\ f \in Files /\ Children(f) = graph[f].imports
              /\ Children(f) \in Seq(Files) /\ Len(Children(f)) \in Nat
              /\ \A k \in 1..Len(Children(f)) :
                   Children(f)[k] \in DOMAIN deps
<1>1. DOMAIN tasks = {} /\ Entry \in visited /\ errors = {} /\ TypeOK
  BY DEF IInv, PhaseOK, Working
<1>2. /\ visited = Abstract!Reached(graph) /\ errors = Abstract!Faults(graph)
      /\ \A f \in visited : graph[f].status = "parses" => f \in DOMAIN deps
  BY <1>1, WalkComplete
<1>3. \A f \in visited : f \in DOMAIN deps
  BY <1>1, <1>2 DEF Abstract!Faults, Abstract!Faulty
<1>4. DOMAIN deps = Abstract!Reached(graph)
  BY <1>2, <1>3 DEF WalkOK, ReachOK
<1>5. ASSUME NEW f \in DOMAIN deps
      PROVE  /\ f \in Files /\ Children(f) = graph[f].imports
             /\ Children(f) \in Seq(Files) /\ Len(Children(f)) \in Nat
             /\ \A k \in 1..Len(Children(f)) : Children(f)[k] \in DOMAIN deps
  <2>1. f \in Files /\ Children(f) = graph[f].imports /\ Children(f) \in Seq(Files)
    BY <1>1 DEF TypeOK, IInv, FollowedOK, Children
  <2>2. graph[f].status = "parses"
    BY DEF WalkOK, ParsedOK
  <2>3. \A k \in 1..Len(graph[f].imports) : graph[f].imports[k] \in Abstract!Reached(graph)
    BY <1>1, <1>4, <2>2, EntryReaches DEF Abstract!Closed, Abstract!Links
  <2> QED
    BY <1>4, <2>1, <2>3
<1> QED
  BY <1>1, <1>2, <1>4, <1>5

LEMMA ImportType ==
  ASSUME TypeOK, EmitImport
  PROVE  LET f == Children(Head(stack).key)[Head(stack).next]
         IN  /\ stack \in Seq(Frame) /\ stack # << >> /\ Head(stack) = stack[1]
             /\ stack[1].key \in Files /\ stack[1].next \in Nat \ {0}
             /\ stack[1].next <= Len(Children(stack[1].key))
             /\ f \in Files /\ Caller \in Frame /\ Call(f) \in Frame
             /\ Caller.key = stack[1].key /\ Caller.next = stack[1].next + 1
<1>1. stack \in Seq(Frame) /\ stack # << >> /\ Head(stack) = stack[1] /\ stack[1] \in Frame
  BY DEF TypeOK, EmitImport, Emitting
<1>2. /\ stack[1].key \in Files /\ stack[1].next \in Nat \ {0}
      /\ stack[1].next <= Len(Children(stack[1].key))
  BY <1>1 DEF EmitImport, Frame
<1>3. Children(stack[1].key) \in Seq(Files)
  BY <1>2 DEF TypeOK, Children
<1>4. Children(stack[1].key)[stack[1].next] \in Files
  BY <1>2, <1>3
<1>5. Caller \in Frame /\ Caller.key = stack[1].key /\ Caller.next = stack[1].next + 1
  BY <1>1 DEF Caller, Frame
<1> QED
  BY <1>1, <1>2, <1>4, <1>5, CallType

LEMMA EmitImportStep ==
  ASSUME IInv, WalkOK, EmitOK, EmitImport
  PROVE  EmitOK'
<1> DEFINE list == graph[stack[1].key].imports
           f == list[stack[1].next]
<1>1. /\ TypeOK /\ phase = "emit" /\ phase' = phase
      /\ graph' = graph /\ deps' = deps /\ out' = out /\ answer' = answer /\ Emitted' = Emitted
      /\ KeysOK /\ TopOK /\ CallersOK /\ OutOnce /\ OutAfter /\ EntryOK /\ ListOK /\ NeededOK
  BY DEF IInv, EmitOK, EmitImport, Emitting, Emitted
<1>2. /\ stack \in Seq(Frame) /\ stack # << >> /\ Head(stack) = stack[1]
      /\ Len(stack) \in Nat \ {0}
      /\ \A j \in 1..Len(stack) : stack[j].key \in Files /\ stack[j].next \in Nat \ {0}
  BY <1>1, StackType DEF EmitImport, Emitting
<1>pos. Len(stack) \in Nat /\ (Len(stack) = 1 \/ Len(stack) > 1)
  <2>1. \A n \in Nat \ {0} : n = 1 \/ n > 1
    OBVIOUS
  <2> QED
    BY <1>2, <2>1
<1>3. /\ stack[1].key \in DOMAIN deps /\ stack[1].key \notin Emitted
      /\ \A k \in 1..(stack[1].next - 1) : list[k] \in Emitted
  BY <1>1, <1>2 DEF TopOK, KeysOK
<1>4. Children(stack[1].key) = list /\ list \in Seq(Files)
  BY <1>1, <1>3, EmitGraph
<1>5. /\ stack[1].next <= Len(list) /\ f \in Files /\ Len(list) \in Nat
      /\ Caller \in Frame /\ Call(f) \in Frame
      /\ Caller.key = stack[1].key /\ Caller.next = stack[1].next + 1
  BY <1>1, <1>2, <1>4, ImportType
<1>6. f \in DOMAIN deps /\ Len(graph[f].imports) \in Nat
  BY <1>1, <1>2, <1>3, <1>4, <1>5, EmitGraph
<1>7. OutOnce' /\ OutAfter' /\ ListOK'
  BY <1>1 DEF OutOnce, OutAfter, ListOK
<1>8. CASE f \in Emitted /\ stack' = <<Caller>> \o Tail(stack)
  <2>1. /\ Len(stack') = Len(stack) /\ stack'[1] = Caller
        /\ \A j \in 2..Len(stack) : stack'[j] = stack[j]
    BY <1>2, <1>5, <1>8, TopReplaced
  <2>2. \A j \in 1..Len(stack) : stack'[j].key = stack[j].key
    BY <1>2, <1>5, <2>1
  <2>3. KeysOK'
    <3> SUFFICES ASSUME NEW j \in 1..Len(stack)
                 PROVE  /\ stack'[j].key \in DOMAIN deps /\ stack'[j].key \notin Emitted
                        /\ stack'[j].next <= Len(graph[stack'[j].key].imports) + 1
      BY <1>1, <2>1 DEF KeysOK
    <3>1. CASE j = 1
      <4>1. stack'[1].key = stack[1].key /\ stack'[1].next <= Len(list) + 1
        BY <1>2, <1>5, <2>1
      <4> QED
        BY <1>3, <3>1, <4>1
    <3>2. CASE j # 1
      BY <1>1, <1>2, <2>1, <3>2 DEF KeysOK
    <3> QED
      BY <3>1, <3>2
  <2>4. TopOK'
    <3> SUFFICES ASSUME NEW k \in 1..(stack'[1].next - 1)
                 PROVE  graph[stack'[1].key].imports[k] \in Emitted
      BY <1>1 DEF TopOK
    <3>1. k \in 1..(stack[1].next - 1) \/ k = stack[1].next
      BY <1>2, <1>5, <2>1
    <3>2. graph[stack'[1].key].imports = list
      BY <1>5, <2>1
    <3> QED
      BY <1>3, <1>8, <3>1, <3>2
  <2>5. CallersOK'
    <3> SUFFICES ASSUME NEW j \in 2..Len(stack)
                 PROVE  /\ stack'[j].next > 1
                        /\ graph[stack'[j].key].imports[stack'[j].next - 1] = stack'[j - 1].key
                        /\ \A k \in 1..(stack'[j].next - 2) :
                             graph[stack'[j].key].imports[k] \in Emitted
      BY <1>1, <2>1 DEF CallersOK
    <3>1. stack'[j] = stack[j] /\ stack'[j - 1].key = stack[j - 1].key
      BY <1>2, <2>1, <2>2
    <3> QED
      BY <1>1, <3>1 DEF CallersOK
  <2>6. EntryOK'
    <3>1. stack' # << >> /\ stack'[Len(stack')].key = Entry
      BY <1>1, <1>2, <2>1, <2>2 DEF EntryOK
    <3> QED
      BY <1>1, <3>1 DEF EntryOK
  <2>7. NeededOK'
    <3>1. ASSUME NEW j \in 1..(Len(stack) - 1)
          PROVE  stack'[j].key \in Needed(graph, stack'[Len(stack')].next - 1)
      <4>1. stack'[Len(stack')] = stack[Len(stack)] /\ stack'[j].key = stack[j].key
        BY <1>2, <2>1, <2>2
      <4> QED
        BY <1>1, <4>1 DEF NeededOK
    <3> QED
      BY <1>1, <2>1, <3>1 DEF NeededOK
  <2> QED
    BY <1>7, <2>3, <2>4, <2>5, <2>6, <2>7 DEF EmitOK
<1>9. CASE f \notin Emitted /\ stack' = <<Call(f), Caller>> \o Tail(stack)
  <2>1. /\ Len(stack') = Len(stack) + 1 /\ stack'[1] = Call(f) /\ stack'[2] = Caller
        /\ \A j \in 3..(Len(stack) + 1) : stack'[j] = stack[j - 1]
    BY <1>2, <1>5, <1>9, TopCalled
  <2>2. Call(f).key = f /\ Call(f).next = 1
    BY DEF Call
  <2>3. \A j \in 2..(Len(stack) + 1) : stack'[j].key = stack[j - 1].key
    <3> TAKE j \in 2..(Len(stack) + 1)
    <3>1. j = 2 \/ j \in 3..(Len(stack) + 1)
      OBVIOUS
    <3> QED
      BY <1>5, <2>1, <3>1
  <2>4. KeysOK'
    <3> SUFFICES ASSUME NEW j \in 1..(Len(stack) + 1)
                 PROVE  /\ stack'[j].key \in DOMAIN deps /\ stack'[j].key \notin Emitted
                        /\ stack'[j].next <= Len(graph[stack'[j].key].imports) + 1
      BY <1>1, <2>1 DEF KeysOK
    <3>1. CASE j = 1
      <4>1. stack'[1].key = f /\ stack'[1].next = 1
        BY <2>1, <2>2
      <4>2. 1 <= Len(graph[f].imports) + 1
        <5>1. \A n \in Nat : 1 <= n + 1
          OBVIOUS
        <5> QED
          BY <1>6, <5>1
      <4> QED
        BY <1>6, <1>9, <3>1, <4>1, <4>2
    <3>2. CASE j = 2
      <4>1. stack'[2].key = stack[1].key /\ stack'[2].next <= Len(list) + 1
        BY <1>2, <1>5, <2>1
      <4> QED
        BY <1>3, <3>2, <4>1
    <3>3. CASE j \in 3..(Len(stack) + 1)
      <4>1. stack'[j] = stack[j - 1] /\ j - 1 \in 1..Len(stack)
        BY <1>2, <2>1, <3>3
      <4> QED
        BY <1>1, <4>1 DEF KeysOK
    <3> QED
      BY <3>1, <3>2, <3>3
  <2>5. TopOK'
    BY <2>1, <2>2 DEF TopOK
  <2>6. CallersOK'
    <3> SUFFICES ASSUME NEW j \in 2..(Len(stack) + 1)
                 PROVE  /\ stack'[j].next > 1
                        /\ graph[stack'[j].key].imports[stack'[j].next - 1] = stack'[j - 1].key
                        /\ \A k \in 1..(stack'[j].next - 2) :
                             graph[stack'[j].key].imports[k] \in Emitted
      BY <1>1, <2>1 DEF CallersOK
    <3>1. CASE j = 2
      <4>1. stack'[2].next - 2 = stack[1].next - 1 /\ stack'[2].next - 1 = stack[1].next
            /\ stack'[2].next > 1 /\ stack'[2].key = stack[1].key /\ stack'[2 - 1].key = f
        BY <1>2, <1>5, <2>1, <2>2
      <4> QED
        BY <1>3, <3>1, <4>1
    <3>2. CASE j \in 3..(Len(stack) + 1)
      <4>1. stack'[j] = stack[j - 1] /\ j - 1 \in 2..Len(stack)
        BY <1>2, <2>1, <3>2
      <4>2. j - 1 \in 2..(Len(stack) + 1) /\ (j - 1) - 1 = j - 2
        BY <4>1
      <4>3. stack'[j - 1].key = stack[(j - 1) - 1].key
        BY <2>3, <4>2
      <4> QED
        BY <1>1, <4>1, <4>3 DEF CallersOK
    <3> QED
      BY <3>1, <3>2
  <2>7. EntryOK'
    <3>1. Len(stack') \in 2..(Len(stack) + 1) /\ Len(stack') - 1 = Len(stack)
      BY <1>2, <2>1
    <3>2. stack'[Len(stack')].key = Entry
      BY <1>1, <1>2, <2>3, <3>1 DEF EntryOK
    <3>3. stack' # << >>
      BY <2>1, <3>1
    <3> QED
      BY <1>1, <3>2, <3>3 DEF EntryOK
  <2>8. NeededOK'
    <3>1. stack[Len(stack)].key = Entry /\ Len(stack) \in 1..Len(stack)
      BY <1>1, <1>2 DEF EntryOK
    <3> DEFINE last == IF Len(stack) = 1 THEN stack[1].next ELSE stack[Len(stack)].next - 1
    <3>2. stack'[Len(stack')].next - 1 = last
      <4>1. CASE Len(stack) = 1
        BY <1>2, <1>5, <2>1, <4>1
      <4>2. CASE Len(stack) > 1
        <5>1. /\ Len(stack') \in 3..(Len(stack) + 1) /\ Len(stack') - 1 = Len(stack)
          BY <1>pos, <2>1, <4>2
        <5>2. stack'[Len(stack')] = stack[Len(stack)]
          BY <2>1, <5>1
        <5> QED
          BY <4>2, <5>2
      <4> QED
        BY <1>pos, <4>1, <4>2
    <3>3. last \in 1..Len(graph[Entry].imports) /\ graph[Entry].imports \in Seq(Files)
      <4>1. graph[Entry].imports \in Seq(Files) /\ Len(graph[Entry].imports) \in Nat
        BY <1>1, ResolverAssumption, GraphType
      <4>2. CASE Len(stack) = 1
        BY <1>2, <1>5, <3>1, <4>1, <4>2
      <4>3. CASE Len(stack) > 1
        <5>1. Len(stack) \in 2..Len(stack)
          BY <1>pos, <4>3
        <5>2. stack[Len(stack)].next > 1
          BY <1>1, <5>1 DEF CallersOK
        <5>3. stack[Len(stack)].next <= Len(graph[Entry].imports) + 1
          BY <1>1, <3>1 DEF KeysOK
        <5>4. stack[Len(stack)].next \in Nat /\ last = stack[Len(stack)].next - 1
          BY <1>2, <3>1, <4>3
        <5> QED
          BY <4>1, <5>2, <5>3, <5>4
      <4> QED
        BY <1>pos, <4>2, <4>3
    <3> HIDE DEF last
    <3>4. /\ graph[Entry].imports[last] \in Needed(graph, last)
          /\ Abstract!Closed(graph, Needed(graph, last))
      <4>1. {graph[Entry].imports[last]} \subseteq Files
        BY <3>3
      <4> QED
        BY <1>1, <4>1, LeastClosed DEF Needed
    <3>5. f \in Abstract!Links(graph, stack[1].key)
      <4>1. graph[stack[1].key].status = "parses" /\ stack[1].next \in 1..Len(list)
        BY <1>2, <1>3, <1>5 DEF WalkOK, ParsedOK
      <4> QED
        BY <4>1 DEF Abstract!Links
    <3>6. ASSUME NEW j \in 1..(Len(stack) - 1) PROVE stack[j].key \in Needed(graph, last)
      BY <1>1, <1>2 DEF NeededOK, last
    <3>7. f \in Needed(graph, last)
      <4>1. CASE Len(stack) = 1
        BY <3>1, <3>4, <4>1 DEF last
      <4>2. CASE Len(stack) > 1
        <5>1. stack[1].key \in Needed(graph, last)
          <6>1. 1 \in 1..(Len(stack) - 1)
            BY <1>pos, <4>2
          <6> QED
            BY <3>6, <6>1
        <5> QED
          BY <3>4, <3>5, <5>1 DEF Abstract!Closed
      <4> QED
        BY <1>pos, <4>1, <4>2
    <3>8. ASSUME NEW j \in 1..Len(stack) PROVE stack'[j].key \in Needed(graph, last)
      <4>1. CASE j = 1
        BY <2>1, <2>2, <3>7, <4>1
      <4>2. CASE j # 1
        <5>1. j \in 2..(Len(stack) + 1) /\ j - 1 \in 1..(Len(stack) - 1)
          BY <1>2, <4>2
        <5> QED
          BY <2>3, <3>6, <5>1
      <4> QED
        BY <4>1, <4>2
    <3>9. \A j \in 1..(Len(stack') - 1) :
            stack'[j].key \in Needed(graph, stack'[Len(stack')].next - 1)
      BY <1>2, <2>1, <3>2, <3>8
    <3> QED
      BY <1>1, <3>9 DEF NeededOK
  <2> QED
    BY <1>7, <2>4, <2>5, <2>6, <2>7, <2>8 DEF EmitOK
<1> QED
  BY <1>2, <1>4, <1>8, <1>9 DEF EmitImport

LEMMA EmitSelfStep ==
  ASSUME IInv, WalkOK, EmitOK, EmitSelf
  PROVE  EmitOK'
<1> DEFINE f == stack[1].key
           list == graph[f].imports
<1>1. /\ TypeOK /\ phase = "emit" /\ phase' = phase
      /\ graph' = graph /\ deps' = deps /\ answer' = answer
      /\ KeysOK /\ TopOK /\ CallersOK /\ OutOnce /\ OutAfter /\ EntryOK /\ ListOK /\ NeededOK
      /\ out \in Seq(Files) /\ stack' = Tail(stack)
  BY DEF IInv, EmitOK, EmitSelf, Emitting, TypeOK
<1>2. /\ stack \in Seq(Frame) /\ stack # << >> /\ Head(stack) = stack[1]
      /\ Len(stack) \in Nat \ {0}
      /\ \A j \in 1..Len(stack) : stack[j].key \in Files /\ stack[j].next \in Nat \ {0}
  BY <1>1, StackType DEF EmitSelf, Emitting
<1>pos. Len(stack) \in Nat /\ (Len(stack) = 1 \/ Len(stack) > 1)
  <2>1. \A n \in Nat \ {0} : n = 1 \/ n > 1
    OBVIOUS
  <2> QED
    BY <1>2, <2>1
<1>3. /\ f \in DOMAIN deps /\ f \notin Emitted /\ f \in Files
      /\ \A k \in 1..(stack[1].next - 1) : list[k] \in Emitted
  BY <1>1, <1>2 DEF TopOK, KeysOK
<1>4. Children(f) = list /\ list \in Seq(Files) /\ Len(list) \in Nat
  BY <1>1, <1>3, EmitGraph
<1>5. \A k \in 1..Len(list) : list[k] \in Emitted
  <2>1. stack[1].next > Len(list)
    BY <1>2, <1>4 DEF EmitSelf
  <2> QED
    BY <1>2, <1>3, <1>4, <2>1
<1>6. out' = Append(out, f)
  BY <1>2 DEF EmitSelf
<1>7. /\ Emitted' = Emitted \cup {f}
      /\ Len(out) \in Nat /\ Len(out') = Len(out) + 1 /\ out'[Len(out) + 1] = f
      /\ \A i \in 1..Len(out) : out'[i] = out[i]
  BY <1>1, <1>3, <1>6, EmittedAfter
<1>8. \A d \in Emitted : \E i \in 1..Len(out) : out[i] = d
  BY DEF Emitted
<1>9. \A i \in 1..Len(out) : out[i] # f
  BY <1>3 DEF Emitted
<1>10. /\ Len(stack') = Len(stack) - 1
       /\ \A j \in 1..(Len(stack) - 1) : stack'[j] = stack[j + 1]
  BY <1>1, <1>2
<1>11. \A i \in 1..(Len(out) + 1) : i \in 1..Len(out) \/ i = Len(out) + 1
  BY <1>7
<1>12. OutOnce'
  <2>1. ASSUME NEW i \in 1..(Len(out) + 1), NEW j \in 1..(Len(out) + 1), out'[i] = out'[j]
        PROVE  i = j
    BY <1>1, <1>7, <1>9, <1>11, <2>1 DEF OutOnce
  <2> QED
    BY <1>7, <2>1 DEF OutOnce
<1>13. OutAfter'
  <2> SUFFICES ASSUME NEW j \in 1..(Len(out) + 1)
               PROVE  /\ out'[j] \in DOMAIN deps
                      /\ \A k \in 1..Len(graph[out'[j]].imports) :
                           \E i \in 1..(j - 1) : out'[i] = graph[out'[j]].imports[k]
    BY <1>1, <1>7 DEF OutAfter
  <2>1. CASE j \in 1..Len(out)
    <3>1. \A i \in 1..(j - 1) : out'[i] = out[i]
      BY <1>7, <2>1
    <3> QED
      BY <1>1, <1>7, <2>1, <3>1 DEF OutAfter
  <2>2. CASE j = Len(out) + 1
    <3>1. out'[j] = f /\ \A i \in 1..(j - 1) : out'[i] = out[i] /\ i \in 1..Len(out)
      BY <1>7, <2>2
    <3>2. ASSUME NEW k \in 1..Len(list) PROVE \E i \in 1..(j - 1) : out'[i] = list[k]
      <4>1. PICK i \in 1..Len(out) : out[i] = list[k]
        BY <1>5, <1>8
      <4>2. i \in 1..(j - 1)
        BY <1>7, <2>2
      <4> QED
        BY <3>1, <4>1, <4>2
    <3> QED
      BY <1>3, <3>1, <3>2
  <2> QED
    BY <1>11, <2>1, <2>2
<1>14. ASSUME NEW j \in 2..Len(stack) PROVE stack[j].key # f
  <2>1. stack[j - 1].key = graph[stack[j].key].imports[stack[j].next - 1]
    BY <1>1 DEF CallersOK
  <2>2. stack[j].next \in Nat /\ stack[j].next > 1 /\ stack[j].next <= Len(graph[stack[j].key].imports) + 1
    BY <1>1, <1>2 DEF CallersOK, KeysOK
  <2>3. stack[j - 1].key \notin Emitted
    <3>1. j - 1 \in 1..Len(stack)
      BY <1>2
    <3> QED
      BY <1>1, <3>1 DEF KeysOK
  <2> SUFFICES ASSUME stack[j].key = f PROVE FALSE
    OBVIOUS
  <2>4. stack[j].next - 1 \in 1..Len(list)
    BY <1>4, <2>2
  <2> QED
    BY <1>5, <2>1, <2>3, <2>4
<1>15. KeysOK'
  <2> SUFFICES ASSUME NEW j \in 1..(Len(stack) - 1)
               PROVE  /\ stack'[j].key \in DOMAIN deps /\ stack'[j].key \notin Emitted'
                      /\ stack'[j].next <= Len(graph[stack'[j].key].imports) + 1
    BY <1>1, <1>10 DEF KeysOK
  <2>1. stack'[j] = stack[j + 1] /\ j + 1 \in 2..Len(stack) /\ j + 1 \in 1..Len(stack)
    BY <1>2, <1>10
  <2> QED
    BY <1>1, <1>7, <1>14, <2>1 DEF KeysOK
<1>16. TopOK'
  <2> SUFFICES ASSUME stack' # << >>, NEW k \in 1..(stack'[1].next - 1)
               PROVE  graph[stack'[1].key].imports[k] \in Emitted'
    BY <1>1 DEF TopOK
  <2>1. Len(stack) # 1
    BY <1>1, <1>2
  <2>2. stack'[1] = stack[2] /\ 2 \in 2..Len(stack) /\ 2 \in 1..Len(stack)
    BY <1>2, <1>10, <2>1
  <2>3. /\ graph[stack[2].key].imports[stack[2].next - 1] = stack[2 - 1].key
        /\ \A i \in 1..(stack[2].next - 2) : graph[stack[2].key].imports[i] \in Emitted
    BY <1>1, <2>2 DEF CallersOK
  <2>4. k \in 1..(stack[2].next - 2) \/ k = stack[2].next - 1
    BY <1>2, <2>2
  <2> QED
    BY <1>7, <2>2, <2>3, <2>4
<1>17. CallersOK'
  <2> SUFFICES ASSUME NEW j \in 2..(Len(stack) - 1)
               PROVE  /\ stack'[j].next > 1
                      /\ graph[stack'[j].key].imports[stack'[j].next - 1] = stack'[j - 1].key
                      /\ \A k \in 1..(stack'[j].next - 2) :
                           graph[stack'[j].key].imports[k] \in Emitted'
    BY <1>1, <1>10 DEF CallersOK
  <2>0. /\ j + 1 \in 2..Len(stack) /\ j - 1 \in 1..(Len(stack) - 1)
        /\ j \in 1..(Len(stack) - 1) /\ (j - 1) + 1 = (j + 1) - 1
    BY <1>pos
  <2>1. stack'[j] = stack[j + 1] /\ stack'[j - 1] = stack[(j - 1) + 1]
    BY <1>10, <2>0
  <2>2. /\ stack[j + 1].next > 1
        /\ graph[stack[j + 1].key].imports[stack[j + 1].next - 1] = stack[(j + 1) - 1].key
        /\ \A k \in 1..(stack[j + 1].next - 2) :
             graph[stack[j + 1].key].imports[k] \in Emitted
    BY <1>1, <2>0 DEF CallersOK
  <2> QED
    BY <1>7, <2>0, <2>1, <2>2
<1>18. EntryOK'
  <2>1. CASE Len(stack) = 1
    <3>1. stack' = << >> /\ f = Entry
      BY <1>1, <1>2, <1>10, <2>1 DEF EntryOK
    <3> QED
      BY <1>1, <1>7, <3>1 DEF EntryOK
  <2>2. CASE Len(stack) > 1
    <3>1. Len(stack') \in 1..(Len(stack) - 1) /\ Len(stack') + 1 = Len(stack)
      BY <1>2, <1>10, <2>2
    <3>2. stack'[Len(stack')].key = Entry
      BY <1>1, <1>2, <1>10, <3>1 DEF EntryOK
    <3>3. stack' # << >>
      BY <3>1
    <3> QED
      BY <1>1, <3>2, <3>3 DEF EntryOK
  <2> QED
    BY <1>pos, <2>1, <2>2
<1>19. NeededOK'
  <2> SUFFICES ASSUME NEW j \in 1..(Len(stack') - 1)
               PROVE  stack'[j].key \in Needed(graph, stack'[Len(stack')].next - 1)
    BY <1>1 DEF NeededOK
  <2>1. /\ j + 1 \in 1..(Len(stack) - 1)
        /\ Len(stack') \in 1..(Len(stack) - 1) /\ Len(stack') + 1 = Len(stack)
    BY <1>pos, <1>10
  <2>2. stack'[Len(stack')] = stack[Len(stack)]
    BY <1>10, <2>1
  <2>3. stack'[j] = stack[j + 1]
    <3>1. j \in 1..(Len(stack) - 1)
      BY <1>pos, <1>10
    <3> QED
      BY <1>10, <3>1
  <2> QED
    BY <1>1, <2>1, <2>2, <2>3 DEF NeededOK
<1>20. ListOK'
  <2> DEFINE imp == graph[Entry].imports
  <2> SUFFICES ASSUME NEW p \in 1..(Len(out) + 1), NEW i \in 1..Len(imp)
               PROVE  \/ \E q \in 1..(p - 1) : out'[q] = imp[i]
                      \/ \E k \in 1..i : out'[p] \in Needed(graph, k)
    BY <1>1, <1>7 DEF ListOK
  <2>1. CASE p \in 1..Len(out)
    <3>1. \A q \in 1..(p - 1) : out'[q] = out[q]
      BY <1>7, <2>1
    <3> QED
      BY <1>1, <1>7, <2>1, <3>1 DEF ListOK
  <2>2. CASE p = Len(out) + 1 /\ imp[i] \in Emitted
    <3>1. PICK q \in 1..Len(out) : out[q] = imp[i]
      BY <1>8, <2>2
    <3>2. q \in 1..(p - 1) /\ out'[q] = out[q]
      BY <1>7, <2>2
    <3> QED
      BY <3>1, <3>2
  <2>3. CASE p = Len(out) + 1 /\ imp[i] \notin Emitted
    <3>1. stack[Len(stack)].key = Entry /\ Len(stack) \in 1..Len(stack)
      BY <1>1, <1>2 DEF EntryOK
    <3>2. Len(stack) > 1
      <4>1. Len(stack) # 1
        BY <1>5, <2>3, <3>1
      <4> QED
        BY <1>pos, <4>1
    <3> DEFINE last == stack[Len(stack)].next
    <3>3. Len(stack) \in 2..Len(stack) /\ 1 \in 1..(Len(stack) - 1) /\ last \in Nat
      <4>1. last \in Nat
        BY <1>2, <3>1
      <4> QED
        BY <1>pos, <3>2, <4>1
    <3>4. last > 1 /\ \A k \in 1..(last - 2) : imp[k] \in Emitted
      BY <1>1, <3>1, <3>3 DEF CallersOK
    <3>5. i \notin 1..(last - 2)
      BY <2>3, <3>4
    <3>6. last - 1 \in 1..i
      BY <3>3, <3>4, <3>5
    <3>7. f \in Needed(graph, last - 1)
      BY <1>1, <3>3 DEF NeededOK
    <3>8. out'[p] = f
      BY <1>7, <2>3
    <3> QED
      BY <3>6, <3>7, <3>8
  <2> QED
    BY <1>11, <2>1, <2>2, <2>3
<1> QED
  BY <1>12, <1>13, <1>15, <1>16, <1>17, <1>18, <1>19, <1>20 DEF EmitOK

\* The walk does not touch the emission.
LEMMA EmitAside ==
  ASSUME EmitOK, WalkStep, phase = "walk"
  PROVE  EmitOK'
<1>1. stack = << >> /\ out = << >> /\ UNCHANGED <<graph, phase, stack, out, answer>>
      /\ EntryOK
  BY DEF EmitOK, EntryOK, WalkStep
<1>2. Len(stack') = 0 /\ Len(out') = 0
  BY <1>1
<1>3. KeysOK' /\ TopOK' /\ CallersOK' /\ OutOnce' /\ OutAfter' /\ ListOK' /\ NeededOK'
  BY <1>1, <1>2 DEF KeysOK, TopOK, CallersOK, OutOnce, OutAfter, ListOK, NeededOK
<1>4. EntryOK'
  BY <1>1 DEF EntryOK, Emitted
<1> QED
  BY <1>3, <1>4 DEF EmitOK

LEMMA EmitBegins ==
  ASSUME IInv, WalkOK, EmitOK, Start \/ EndWalk
  PROVE  EmitOK'
<1>1. /\ stack = << >> /\ out = << >> /\ answer = Abstract!Pending
      /\ phase \in {"start", "walk"} /\ UNCHANGED <<graph, deps, out>>
  BY DEF Start, EndWalk, EmitOK, EntryOK
<1>2. Len(out') = 0 /\ Emitted' = {}
  BY <1>1 DEF Emitted
<1>3. OutOnce' /\ OutAfter' /\ ListOK'
  BY <1>2 DEF OutOnce, OutAfter, ListOK
<1>4. ASSUME stack' = stack, phase' = "done" \/ (phase' = "walk" /\ answer' = answer)
      PROVE  EmitOK'
  <2>1. stack' = << >> /\ Len(stack') = 0
    BY <1>1, <1>4
  <2>2. KeysOK' /\ TopOK' /\ CallersOK' /\ NeededOK'
    BY <2>1 DEF KeysOK, TopOK, CallersOK, NeededOK
  <2>3. EntryOK'
    BY <1>1, <1>4, <2>1 DEF EntryOK
  <2> QED
    BY <1>3, <2>2, <2>3 DEF EmitOK
<1>5. CASE EndWalk /\ phase' = "emit" /\ stack' = <<Call(Entry)>> /\ answer' = answer
  <2>1. Len(stack') = 1 /\ stack'[1].key = Entry /\ stack'[1].next = 1 /\ stack' # << >>
    BY <1>5 DEF Call
  <2>2. EntryOK'
    BY <1>1, <1>5, <2>1 DEF EntryOK
  <2>3. TopOK' /\ CallersOK' /\ NeededOK'
    BY <2>1 DEF TopOK, CallersOK, NeededOK
  <2>4. /\ Entry \in DOMAIN deps /\ Entry \notin Emitted'
        /\ Len(graph[Entry].imports) \in Nat
    <3>1. DOMAIN tasks = {} /\ errors = {} /\ Entry \in visited /\ TypeOK /\ Entry \in Files
      BY <1>1, <1>5, ResolverAssumption DEF EndWalk, Return, IInv, PhaseOK, Working
    <3>2. graph[Entry].status = "parses"
      BY <3>1, WalkComplete DEF Abstract!Faults, Abstract!Faulty
    <3> QED
      BY <1>2, <3>1, <3>2, WalkComplete, GraphType
  <2>5. 1 <= Len(graph[Entry].imports) + 1
    BY <2>4
  <2>6. KeysOK'
    <3>1. ASSUME NEW j \in 1..Len(stack') PROVE j = 1
      BY <2>1
    <3> QED
      BY <1>1, <2>1, <2>4, <2>5, <3>1 DEF KeysOK
  <2> QED
    BY <1>3, <2>2, <2>3, <2>6 DEF EmitOK
<1>6. CASE Start
  <2>1. UNCHANGED stack /\ (phase' = "done" \/ (phase' = "walk" /\ answer' = answer))
    <3>1. stack' = stack
      BY <1>6 DEF Start
    <3>2. phase' = "done" \/ (phase' = "walk" /\ answer' = answer)
      <4>1. ASSUME graph[Entry].status = "unreadable" PROVE phase' = "done"
        BY <1>6, <4>1 DEF Start, Return
      <4>2. ASSUME graph[Entry].status # "unreadable" PROVE phase' = "walk" /\ answer' = answer
        BY <1>6, <4>2 DEF Start
      <4> QED
        BY <4>1, <4>2
    <3> QED
      BY <3>1, <3>2
  <2> QED
    BY <1>1, <1>4, <2>1
<1>7. CASE EndWalk
  <2>1. \/ UNCHANGED stack /\ phase' = "done"
        \/ phase' = "emit" /\ stack' = <<Call(Entry)>> /\ answer' = answer
    BY <1>7 DEF EndWalk, Return
  <2>2. CASE UNCHANGED stack /\ phase' = "done"
    BY <1>4, <2>2
  <2>3. CASE phase' = "emit" /\ stack' = <<Call(Entry)>> /\ answer' = answer
    BY <1>5, <1>7, <2>3
  <2> QED
    BY <2>1, <2>2, <2>3
<1> QED
  BY <1>6, <1>7

LEMMA EmitEnds ==
  ASSUME EmitOK, Finish
  PROVE  EmitOK'
<1>1. stack' = << >> /\ UNCHANGED <<graph, deps, out>> /\ phase' = "done"
  BY DEF Finish, Return
<1>2. KeysOK' /\ TopOK' /\ CallersOK' /\ NeededOK' /\ EntryOK'
  BY <1>1 DEF KeysOK, TopOK, CallersOK, NeededOK, EntryOK
<1>3. OutOnce' /\ OutAfter' /\ ListOK'
  BY <1>1 DEF EmitOK, OutOnce, OutAfter, ListOK
<1> QED
  BY <1>2, <1>3 DEF EmitOK

-----------------------------------------------------------------------------
(* Every step answers as LinkOrder does. *)

AInv == IInv /\ WalkOK /\ EmitOK

LEMMA AInvInit == Init => AInv
<1> SUFFICES ASSUME Init PROVE AInv
  OBVIOUS
<1>1. IInv
  BY InitOK
<1>2. WalkOK
  BY DEF Init, WalkOK, ReachOK, ParsedOK, ReportedOK, PublishedOK
<1>3. stack = << >> /\ out = << >> /\ Len(stack) = 0 /\ Len(out) = 0
  BY DEF Init
<1>4. KeysOK /\ TopOK /\ CallersOK /\ OutOnce /\ OutAfter /\ ListOK /\ NeededOK
  BY <1>3 DEF KeysOK, TopOK, CallersOK, OutOnce, OutAfter, ListOK, NeededOK
<1>5. EntryOK
  BY DEF Init, EntryOK
<1> QED
  BY <1>1, <1>2, <1>4, <1>5 DEF AInv, EmitOK

LEMMA AInvNext == AInv /\ [Next]_vars => AInv'
<1> SUFFICES ASSUME AInv, [Next]_vars PROVE AInv'
  OBVIOUS
<1>1. IInv /\ WalkOK /\ EmitOK /\ IInv'
  BY NextOK DEF AInv
<1>2. CASE Start
  BY <1>1, <1>2, WalkStart, EmitBegins DEF AInv
<1>3. CASE Walk
  <2> PICK t \in DOMAIN tasks : Visit(t) \/ Parse(t) \/ Publish(t) \/ Fork(t) \/ Join(t)
    BY <1>3 DEF Walk
  <2>1. WalkOK'
    BY <1>1, WalkVisit, WalkParse, WalkPublish, WalkFork, WalkJoin
  <2>2. WalkStep
    BY DEF WalkStep, Visit, Parse, Publish, Fork, Join
  <2>3. phase = "walk"
    BY <1>1, InWalk DEF IInv
  <2> QED
    BY <1>1, <2>1, <2>2, <2>3, EmitAside DEF AInv
<1>4. CASE EndWalk
  <2>1. Aside
    BY <1>4 DEF EndWalk, Aside
  <2> QED
    BY <1>1, <1>4, <2>1, WalkAside, EmitBegins DEF AInv
<1>5. CASE EmitImport
  <2>1. Aside
    BY <1>5 DEF EmitImport, Aside
  <2> QED
    BY <1>1, <1>5, <2>1, WalkAside, EmitImportStep DEF AInv
<1>6. CASE EmitSelf
  <2>1. Aside
    BY <1>6 DEF EmitSelf, Aside
  <2> QED
    BY <1>1, <1>6, <2>1, WalkAside, EmitSelfStep DEF AInv
<1>7. CASE Finish
  <2>1. Aside
    BY <1>7 DEF Finish, Aside
  <2> QED
    BY <1>1, <1>7, <2>1, WalkAside, EmitEnds DEF AInv
<1>8. CASE UNCHANGED vars
  <2>1. WalkOK'
    BY <1>1, <1>8, WalkAside DEF vars, Aside
  <2>2. EmitOK'
    BY <1>1, <1>8 DEF vars, EmitOK, KeysOK, TopOK, CallersOK, OutOnce, OutAfter, EntryOK,
       ListOK, NeededOK, Emitted
  <2> QED
    BY <1>1, <2>1, <2>2 DEF AInv
<1> QED
  BY <1>2, <1>3, <1>4, <1>5, <1>6, <1>7, <1>8 DEF Next

\* An entry that cannot be read is all that is reached.
LEMMA UnreadableEntry ==
  ASSUME AInv, Start, graph[Entry].status = "unreadable"
  PROVE  Abstract!Answer
<1>1. TypeOK /\ Entry \in Files /\ answer = Abstract!Pending /\ graph' = graph
  BY ResolverAssumption DEF AInv, IInv, EmitOK, EntryOK, Start
<1>2. answer' = Abstract!Errors({Entry})
  BY DEF Start, Return
<1>3. Abstract!Closed(graph, {Entry}) /\ {Entry} \in SUBSET Files
  BY <1>1 DEF Abstract!Closed, Abstract!Links
<1>4. Abstract!Reached(graph) = {Entry}
  BY <1>1, <1>3, EntryReaches
<1>5. Abstract!Faults(graph) = {Entry}
  BY <1>4 DEF Abstract!Faults, Abstract!Faulty
<1> QED
  BY <1>1, <1>2, <1>5 DEF Abstract!Answer

LEMMA ErrorsReported ==
  ASSUME AInv, EndWalk, errors # {}
  PROVE  Abstract!Answer
<1>1. /\ IInv /\ WalkOK /\ DOMAIN tasks = {} /\ Entry \in visited
      /\ answer = Abstract!Pending /\ graph' = graph
      /\ answer' = Abstract!Errors(errors)
  BY DEF AInv, IInv, PhaseOK, Working, EmitOK, EntryOK, EndWalk, Return
<1>2. errors = Abstract!Faults(graph)
  BY <1>1, WalkComplete
<1> QED
  BY <1>1, <1>2 DEF Abstract!Answer

LEMMA ProgramEmitted ==
  ASSUME AInv, Finish
  PROVE  Abstract!Answer
<1> DEFINE R == Abstract!Reached(graph)
<1>1. /\ IInv /\ WalkOK /\ TypeOK /\ phase = "emit" /\ stack = << >> /\ Entry \in Emitted
      /\ answer = Abstract!Pending /\ answer' = Abstract!Program(out) /\ graph' = graph
      /\ OutOnce /\ OutAfter /\ ListOK /\ out \in Seq(Files)
  BY DEF AInv, IInv, TypeOK, EmitOK, EntryOK, Finish, Return
<1>2. /\ Abstract!Faults(graph) = {} /\ DOMAIN deps = R
      /\ \A f \in DOMAIN deps : graph[f].status = "parses"
  BY <1>1, EmitGraph DEF WalkOK, ParsedOK
<1>3. Emitted \subseteq R /\ Emitted \subseteq Files
  BY <1>1, <1>2, EntryReaches DEF OutAfter, Emitted
<1>4. ASSUME NEW j \in 1..Len(out), NEW d \in Abstract!Links(graph, out[j])
      PROVE  \E i \in 1..(j - 1) : out[i] = d
  BY <1>1 DEF OutAfter, Abstract!Links
<1>5. Len(out) \in Nat
  BY <1>1
<1>6. Abstract!Closed(graph, Emitted)
  <2> SUFFICES ASSUME NEW f \in Emitted, NEW d \in Abstract!Links(graph, f) PROVE d \in Emitted
    BY DEF Abstract!Closed
  <2>1. PICK j \in 1..Len(out) : out[j] = f
    BY DEF Emitted
  <2>2. PICK i \in 1..(j - 1) : out[i] = d
    BY <1>4, <2>1
  <2>3. i \in 1..Len(out)
    BY <1>5
  <2> QED
    BY <2>2, <2>3 DEF Emitted
<1>7. Emitted = R
  BY <1>1, <1>3, <1>6, EntryReaches
<1>8. ASSUME NEW f \in R, NEW d \in Abstract!Links(graph, f) PROVE Abstract!Before(out, d, f)
  <2>1. PICK j \in 1..Len(out) : out[j] = f
    BY <1>7 DEF Emitted
  <2>2. PICK i \in 1..(j - 1) : out[i] = d
    BY <1>4, <2>1
  <2>3. i \in 1..Len(out) /\ i < j
    BY <1>5
  <2> QED
    BY <2>1, <2>2, <2>3 DEF Abstract!Before
<1>9. Abstract!InImportOrder(graph, out)
  <2> DEFINE list == graph[Entry].imports
  <2> SUFFICES ASSUME NEW i \in 1..Len(list), NEW j \in 1..Len(list), i < j
               PROVE  \/ Abstract!Before(out, list[i], list[j])
                      \/ \E k \in 1..i : list[j] \in Abstract!ReachedFrom(graph, {list[k]})
    BY DEF Abstract!InImportOrder
  <2>1. list[j] \in Emitted
    <3>1. Entry \in R /\ graph[Entry].status = "parses"
      BY <1>1, <1>2, EntryReaches
    <3>2. list[j] \in Abstract!Links(graph, Entry)
      BY <3>1 DEF Abstract!Links
    <3> QED
      BY <1>1, <1>6, <3>2 DEF Abstract!Closed
  <2>2. PICK p \in 1..Len(out) : out[p] = list[j]
    BY <2>1 DEF Emitted
  <2>3. CASE \E q \in 1..(p - 1) : out[q] = list[i]
    <3>1. PICK q \in 1..(p - 1) : out[q] = list[i]
      BY <2>3
    <3>2. q \in 1..Len(out) /\ q < p
      BY <1>5
    <3> QED
      BY <2>2, <3>1, <3>2 DEF Abstract!Before
  <2>4. CASE \E k \in 1..i : out[p] \in Needed(graph, k)
    BY <2>2, <2>4 DEF Needed
  <2> QED
    BY <1>1, <2>3, <2>4 DEF ListOK
<1>10. Abstract!IsProgram(graph, out)
  <2>1. {out[i] : i \in 1..Len(out)} = R
    BY <1>7 DEF Emitted
  <2> QED
    BY <1>1, <1>8, <1>9, <2>1 DEF Abstract!IsProgram, OutOnce
<1>11. answer'.kind = "program" /\ answer'.modules = out
  BY <1>1 DEF Abstract!Program
<1> QED
  BY <1>1, <1>2, <1>10, <1>11 DEF Abstract!Answer

LEMMA StepAnswers == AInv /\ [Next]_vars => [Abstract!Answer]_<<graph, answer>>
<1> SUFFICES ASSUME AInv, [Next]_vars PROVE [Abstract!Answer]_<<graph, answer>>
  OBVIOUS
<1>1. CASE Start
  <2>1. CASE graph[Entry].status = "unreadable"
    BY <1>1, <2>1, UnreadableEntry
  <2>2. CASE graph[Entry].status # "unreadable"
    BY <1>1, <2>2 DEF Start
  <2> QED
    BY <2>1, <2>2
<1>2. CASE Walk
  BY <1>2 DEF Walk, Visit, Parse, Publish, Fork, Join
<1>3. CASE EndWalk
  <2>1. CASE errors = {}
    BY <1>3, <2>1 DEF EndWalk
  <2>2. CASE errors # {}
    BY <1>3, <2>2, ErrorsReported
  <2> QED
    BY <2>1, <2>2
<1>4. CASE EmitImport \/ EmitSelf
  BY <1>4 DEF EmitImport, EmitSelf
<1>5. CASE Finish
  BY <1>5, ProgramEmitted
<1>6. CASE UNCHANGED vars
  BY <1>6 DEF vars
<1> QED
  BY <1>1, <1>2, <1>3, <1>4, <1>5, <1>6 DEF Next

\* Every run of the walk and the emission is one of LinkOrder: whatever the
\* order the tasks of the walk worked in, resolve returns the faulty files the
\* entry reaches, or each module it reaches once, after its imports and in the
\* order of the imports of the entry (docs/language/modules.md).
THEOREM Refinement == Spec => ImplementsLinkOrder
<1>1. Init => Abstract!Init
  BY DEF Init, Abstract!Init
<1> QED
  BY <1>1, AInvInit, AInvNext, StepAnswers, PTL DEF Spec, ImplementsLinkOrder, Abstract!Spec
=============================================================================
