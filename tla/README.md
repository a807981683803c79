# TLA+ models of the Artcode interpreter and tool chain

This directory holds the formal models kept beside the Artcode workspace: TLA+
modules, the TLC configurations that check them on small instances, and proofs
checked by TLAPS. `PROJECT.json` ties every definition to the source lines it
stands for. Paths in this file are relative to the repository root; `I/` is
`crates/interpreter/src/interpreter/`.

    tlc -workers 2 -config actors_core.cfg MCActors    # model-check one run
    tlapm ActorsProofs.tla                             # check the proofs of a module

## 1. Inventory of the system

Artcode is a scripting language in Rust. Source text passes through a lexer and
a parser; `art run` types it with one pass and hands it to a tree-walking
interpreter, `art build-aot` types it likewise and lowers it to an SSA form and
to C or LLVM, and `art build --target js` types it with another pass and makes a
page of its components. The
interpreter carries its own heap (reference counts, arenas, finalizers), a
cooperative actor scheduler and a tracer. The command line puts the parts
together and resolves modules.

| Component | State | Operations | Hard behaviour | What makes it correct |
|---|---|---|---|---|
| Actor mailbox (`I/actors.rs`) | a sorted deque, or after 64 messages a map of queues | insert, pop_front, len, front, to_vec, migration | a change of representation in the middle of use | one priority queue, FIFO among equals, in both representations |
| Actor runtime and scheduler (`I/actors.rs`, `I/builtins.rs`, `I/exec.rs`) | the map `actors`, `executing_actor`, `current_actor`, `next_actor_id`; per actor a body, mailbox, limit, parked, finished | spawn, actor_send, actor_receive, actor_receive_envelope, actor_set_mailbox_limit, actor_yield, run_actors | turns interleave; a parked actor's statement is re-executed; an actor's state is in one of two places; run_actors may be nested | no lost wake-up, no lost or duplicated message, order kept, no statement skipped, a run ends and ends at quiescence |
| Reference-counted heap, scopes and arenas (`heap.rs`, `heap_utils.rs`, `I/gc.rs`, `interpreter.rs`, `core/environment.rs`) | `heap_objects`, arena ids and stack, finalizers, the chain of environments | literals, binding, rebinding, opening and leaving scopes, return, weak, on_finalize, arena end, promotion, sweeps | finalizers run in the middle of a drop; an object has counts from several places; returns cross scopes of different kinds | what can be named is alive, an ended arena leaves nothing alive, the dead stay dead |
| Module resolver (`cli/src/resolver.rs`) | visited, deps and errors, each behind a mutex; the set of emitted modules | parallel walk (visit, parse, publish, fork, join), sequential emission | tasks mark and publish a module in different critical sections, and return without waiting for the task that works on theirs; faults do not stop siblings | each module parsed once, emitted once, after its imports; every fault reported; the walk ends |
| Parser (`crates/parser`) | the cursor, the depth, the diagnostics | one rule per construct, error recovery by made-up tokens | a rule may take no token; the spelling of a name decides what follows; nothing separates statements | what is written is read back, what does not fit is reported, no loop stands still |
| Evaluation (`I/eval.rs`, `I/exec.rs`) and capabilities (`core/environment.rs`) | frames, declarations, the next capability | expressions, statements, patterns; reading a capability moves it out of its variable | closures, shadowing, errors and returns crossing scopes | it is the reference of the other passes |
| Type inference and type checker (`crates/typeck`) | types and moves of names with a log per scope; signatures and scopes | one visit per statement, calls followed into the body | two passes written apart; a log undone when a scope is left; facts forgotten there | a type says what the value is, a capability is used once, the passes agree |
| IR, SSA and native code (`crates/ir`, `run_aot`) | functions collected, IR made, warnings, binaries | collect, four ways to lower, two SSA passes, two emitters, textual form and its reader | phis, blocks and temporaries; a function that is ignored may be called | the binary prints what the evaluator returns, what is lowered compiles, the text is read back |
| Reactivity pass (`crates/reactivity`) and the page (`crates/codegen_js`, `cli/src/bundler.rs`) | bindings, queue of microtasks, hooks | analysis of dependencies and cycles; create, setters, flush, hooks | setters between two flushes, memos that read memos, hooks kept by identity | memos and text are fresh once quiet, cycles are reported, hooks run |
| Topological sort (`dag_topo_sort` in `I/builtins.rs`) | in-degrees, children, ready names | check, collect, take the smallest ready name, answer | repeated names and pairs, cycles | an order exactly when there is one |
| Reusable arenas (`I/builtins.rs`, arena_new/with/release) | the set of open arenas, `arena_with_active` | new, with, release | a callback that fails restores two fields on its own path | as for the heap, and no arena used after its release |
| String interner (`core/src/interner.rs`) | pool of weak references, sweep threshold | intern_arc, sweep | the last holder drops a string between lookup and upgrade | one live copy per string, bounded pool |
| Tracer, replayer, debugger (`tracer.rs`, `replayer.rs`, `cli/src/main.rs`) | trace file, current tick, next event, checkpoints | record, intercept, step back, restart | a crash between the two writes of a record; a replay that asks at another tick | a replay reproduces the run |
| Cycle detection (`I/cycle_detection.rs`) | none (reads the heap) | detect | reachability with weak edges | reports exactly the leaking components |

The last four are not modelled; section 5 says why, and `PROJECT.json` lists the
remaining components (lexer, formatter, linter, language server, documentation,
FFI, build tasks), which keep no state that interleaves with anything.

**Interactions.** Everything of the interpreter runs on one thread. Actors
interact through mailboxes only, and through the scheduler's two places for an
actor's state: the map, or `executing_actor` while one of its statements runs.
The evaluator calls the heap on every composite literal, binding and scope end;
the heap calls the evaluator back when a finalizer runs. The scheduler calls
the evaluator for one statement of an actor, and a statement may call the
scheduler again (`run_actors`). The resolver is the only component with real
threads; the interner is shared by all. The parser's syntax is read by the
evaluator, both typing passes, the lowering and the reactivity pass, which
never meet: they agree only as far as they give a program one meaning, and that
is what the `commands` run compares. A generated page runs in the browser, on
its microtasks.

## 2. Modules

| Module | Models | Role |
|---|---|---|
| `PriorityFifo` | what a mailbox promises | abstract specification |
| `MailboxOps` | insert and pop on both representations | operators, shared by the next two |
| `Mailbox` | `struct Mailbox`, with the migration step by step | detailed specification; implements `PriorityFifo` by `waiting <- Contents` |
| `Actors` | builtins, scheduler, statements, retries, nested runs | component specification |
| `ArcOps` | the heap as operators on a heap value | operators |
| `ArcHeap` | scopes, binding, arenas, returns, finalizers | component specification |
| `LinkOrder` | what resolving an entry promises | abstract specification |
| `Resolver` | the parallel walk and the emission | component specification; implements `LinkOrder` |
| `Syntax` | expressions, statements, patterns, templates, values, types | constructors shared by all that follow |
| `Parser`, `Grammar` | the rules of the parser; the grammar that writes syntax as tokens | operators and a specification that reads one statement per step; reference definition |
| `Evaluator` | `evaluate` and `execute` | recursive operators |
| `TypeInfer`, `TypeChecker` | the two typing passes | recursive operators |
| `Ir`, `Lowering` | IR, emitters, what the emitted code does; from functions to IR | operators |
| `Aot` | `art build-aot` | specification over the operators |
| `Commands` | `art run`, `art build --target js` up to its types, `art build-aot` | composes `Aot`, `Evaluator`, `TypeInfer`, `TypeChecker` |
| `Reactivity`, `References`, `Cycles` | the graph and who depends on whom; what the passes collect from syntax; Tarjan's algorithm | operators, recursive in the last two |
| `Component` | a component in the page | component specification |
| `TopoSort` | `dag_topo_sort` | component specification |
| `MCMailbox`, `MCActors`, `MCArcHeap`, `MCResolver`, `MCPrograms`, `MCCommands`, `MCParser`, `MCGraphs` | instances | actor programs, statement sets, import graphs, programs, texts and graphs of the runs |
| `ListLemmas`, `MailboxLemmas`, `MailboxProofs`, `ActorsProofs`, `ArcHeapProofs`, `ResolverProofs`, `TopoSortProofs`, `ComponentProofs` | | theorems; the first is about naturals, lists and folds |

An operator that begins with the comment "Mutant:" is not part of a
specification: it is a plausible wrong version of the definition below it, kept
to test that the properties notice the difference.

### Mailbox

`repr`, `v` and `m` are the enum and its two payloads. `InsertLinear`,
`InsertMap`, `PopLinear` and `PopMap` are the methods; the migrating insert is
an insertion followed by one `DrainOne` per element of `v.drain(..)`, during
which no other method can be called. `Length`, `ToVec` and `FrontMessage` are
the readers. Because `Mailbox` implements `PriorityFifo`, `Actors` keeps a
mailbox as the sequence in serving order.

### Actors

| Model | Code |
|---|---|
| `actors`, `executing`, `current`, `nextId` | the fields of `Interpreter` of the same purpose; `executing_actor` is the single slot the running actor's state is moved to |
| `runs` | the call stack of `run_actors_round_robin`: the remaining ids, the position of the pass, `progress`, `executed`, the limit, and the statement under execution |
| `ActorSend`, `ActorReceive`, `ActorReceiveEnvelope`, `ActorSetMailboxLimit`, `SpawnActor` | the builtins with all their branches: receiver in the map, receiver running, unknown receiver with and without a running actor, full mailbox, priority wrapped to 32 bits, negative limits clamped |
| `NewPass`, `DropListed`, `SkipActor`, `EmptyTurn`, `BeginStatement`, `EndStatement`, `EndRun` | the branches of the scheduler's loop, in its order; `EndStatement` pushes the statement of a parked actor back in front |
| `OpSend` ... `OpRun` | one builtin of a statement; between two of them nothing else runs, but a nested `run_actors` may |
| `HostSend`, `HostLimit`, `HostSpawn`, `HostRun` | the main program, when no run is active |

A statement is abstracted to the sequence of actor builtins it evaluates and to
what happens when a receive parks in its middle: a nested block stops
(`execute_block` tests `parked`), a `let` and an expression go on, a `let` then
decides whether to bind. Values are tickets: the number of the send.
`ticket`, `accepted`, `refused`, `consumed` and `bound` are history.

### ArcHeap

| Model | Code |
|---|---|
| `heap`, `next`, `nextArena`, `current`, `arenaStack`, `finalizers` | `heap_objects`, `next_heap_id`, `next_arena_id`, `current_arena`, `arena_stack`, `finalizers` |
| `envs` | the chain of `Environment`s: bindings, tracked handles, the associated arena |
| `LetNew`, `LetAlias`, `WeakNew`, `OnFinalize`, `EnterBlock`, `EnterLoop`, `EnterPerformant`, `EnterCall`, `EnterFor`, `Return` | the statements that touch the heap; a program is any sequence of them |
| `Exit`, `Unwind`, and the items of `work`: `Drop`, `Bind`, `Arena`, `Kill`, `Purge`, `Leave` | the calls made when a scope ends, in their order; one call is one step because finalizers run between them |
| `dec_object_strong_recursive`, `PurgeArena`, `PromoteHeap`, ... | the functions of the same names in `I/gc.rs` and `interpreter.rs` |

A stored value is abstracted to the one handle it holds, so an object graph is
a forest of chains; ids grow, so a child is older than its parent. A finalizer
is taken to bind one new array to one name, which is what can disturb the drop
it runs in: it allocates, and its bindings move to the root.

### Resolver

| Model | Code |
|---|---|
| `visited`, `deps`, `errors` | the fields of `ResolveContext`; a step is one critical section, or what a task does between two |
| `tasks` | the calls of `collect_module_graph` that have not returned, named by the path of import positions from the entry |
| `Visit`, `Parse`, `Publish`, `Fork`, `Join` | the body of `collect_module_graph` in its order: check and mark, parse and resolve the imports, insert into `deps`, `into_par_iter`, the return of `for_each` |
| `Start`, `EndWalk`, `Finish` | `resolve` |
| `stack`, `EmitImport`, `EmitSelf` | the recursion of `emit_module`, the loop over the imports, the module's own statements |

A file is what parsing it gives: it parses, is malformed or is unreadable; the
modules its imports resolve to; and whether an import does not resolve. Which
file an import names (`resolve_candidate`, the lock map, the cache directory)
is part of this data. `Parse` reports all faults of a file at once: `errors` is
only read after the walk. Files do not change while the program is resolved, so
the second parse in `emit_module` succeeds where the first did.

`LinkOrder` has no threads: one step gives the answer, a sequence with every
module the entry reaches, once, after its imports, and in the order of the
imports of the entry unless an earlier one needs a later one; or the set of all
faulty files that are reached.

### Parser

A rule of the parser is an operator of the same name that takes the parser, a
record of tokens, cursor, depth and diagnostics, and returns what it read and
the parser after it. Every early return, made-up token and skipped token of the
recovery is kept, because `NothingLost` is about them; `advance` at the end of
the tokens answers the token before, as in the code. Tokens are their kinds;
the lexemes that begin with a capital are the constant `TypeLike`, because
`is_type_like` looks at spelling. `Grammar` is written from the syntax alone: it
puts brackets where the precedences need them and says of a changed text which
tokens make a difference.

### Evaluation, typing and native code

| Model | Code |
|---|---|
| `Evaluate`, `EvaluateInner`, `Execute`, `ExecuteBlock`, `TryCases`, `CallFunction` | the functions of the same names; `Then` is Rust's `?` |
| `env`, `cur`, `heap`, `enums`, `structs`, `diags` | frames, the frame in force, composites, `type_registry`, diagnostics by kind |
| `Read` | `read_for_eval`, which leaves a moved capability behind |
| `ti`: `vars`, `scopes`, `binds`, `moved`, `mbinds`, `funcs`, `visiting` | the fields of `TypeInfer`; `Restore` undoes the log of a scope |
| `tc`: `funcs`, `scopes` | the fields of `TypeChecker` and its `Env` |
| `LowerPlain`, `LowerIf`, `LowerMatch`, `LowerFunction` | the four shapes `lower_stmt` tries in turn |
| `RenameTemps`, `InsertPhiNodes` | the two passes of `ssa.rs` |
| `ValidC`, `ValidLlvm`, `CPhi`, `LlvmPhi`, `RunNative` | what a compiler refuses and what the emitted code does, read off the emitters |
| `InferNext`, `InferDone`, `Interpret`, `CheckTypes`, `CollectFunctions`, `LowerNext`, `NothingToCompile`, `Compile` | the steps of the commands in `cli/src/main.rs` |

A heap object and the frame of a closure live for ever in `Evaluator`; what
counts and arenas do to them is `ArcHeap`'s. A diagnostic is its kind. A
generated program has no text: an IR instruction is a record, and what C and
LLVM make of it is an interpreter of those records (`RunNative`) with the two
emitters' treatment of phis, entry blocks and comparisons.

### Reactivity, components, topological sort

`Reactivity` has the pass as operators: the graph and `dependents_of`, a search
whose turns are a fold over as many places as there are nodes. What a pass
collects from expressions and views is a constant of `Reactivity` and
`Component` (`ExprRefs`, `TemplateRefs`, `JsNames`, `Emitted`), because it is
recursive over syntax; the runs give it the operators of `References`:
`collect_expr_refs` and `collect_template_refs` in their order, and the names
and nodes the generator writes. `Cycles` has Tarjan's algorithm with its low
links and one diagnostic for each component of two memos or more.
`Component` is the page: `Create`, `SetState`, `Flush`, `RunMount` and
`Register` are the functions the generated code and the bundle's runtime
export; `Refuse` and `Crash` are a component whose JavaScript does not parse or
reads a constant before its declaration. The value of an expression stands for
the values it was computed from, so that a stale memo differs from a fresh one.
A name that is no binding is the page's own (`Globals`); where nobody defines
it, `Crash` is what happens.
`TopoSort` takes one name off its ready set per step; a string is its place in
the order of strings.

## 3. Runs

| Run | Question | Answer |
|---|---|---|
| `mailbox` | do both representations and the migration behave as one priority queue? | yes |
| `actors_core` | with a host that interferes between runs (sends, spawns, limits, one turn or all), is mail ever lost, duplicated, reordered or left with a parked actor, and does a run stop early? | no |
| `actors_retry` | do statements that park half-way, fail, spawn or call `run_actors` keep the inductive invariant, and does every run return? | yes |
| `arc_owned` | without arenas and second bindings, can a program name a dead object? | no |
| `arc_scopes` | over all kinds of scope, does liveness follow the counts, do the dead stay dead, is an ended arena empty? | yes |
| `resolver` | under every interleaving of the tasks, is each file parsed once, is everything published when the emission begins, does the walk end, and is the answer the one `LinkOrder` allows? | yes |
| `commands` | does what is built print what is evaluated, does it compile, is its text read back; do types say what values are, are capabilities used once, do the typing passes agree? | yes, but for the constructs named in `Aot` and `Commands` |
| `graphs` | are memos and text nodes fresh once the page is quiet, is each cycle through several memos reported, and nothing else, does `dag_topo_sort` find an order exactly when there is one? | yes |
| `parser` | is what is written read back, has a chain of operators the shape of its precedences, is what does not fit reported? | yes |
| `aot_backends`, `component_hooks`, `parser_depth` | does the code do what a document, a comment or a test says? | no: section 6 |

**Properties.** Every one relates several pieces of state or two states.
`NoLostWakeup`: parked implies an empty mailbox, wherever the actor's state is.
`EachMessageOnce` and `LostOnlyWithFinished`: an accepted message is queued
once or was received once; it vanishes only with a receiver that had already
finished. `DeliveredInOrder`: per receiver and priority, receives follow the
sends. `RemovedOnlyWhenDone`: retries skip nothing. `BoundedMailbox`:
backpressure holds although limits change. `QuiescentAtReturn`: an unlimited
run leaves no actor it started with able to move. `RunTerminates`: it returns.
For the heap: `AliveIffStrong`, `DeadStaysDead` (neither revived nor an id
reused), `FinalizersWait` (a registered finalizer is on a living object: it can
neither be lost nor run twice), `ArenaDrained`, `BoundAlive` and `ChildAlive`.
For the resolver: `ParsedOnce`, `GraphComplete` (a task that found its module
visited did not wait, and still nothing is missing when the emission begins),
`ImplementsLinkOrder`, `WalkEnds`, and `Answered` for graphs without cycles.

For the commands: `LlvmAgrees` compares a binary with the evaluator, with the
constructs the lowering misreads named one by one (`Differs`); `CodeCompiles`
says the back end refuses a program only for a reason visible in it
(`Refusable`); `TextReadBack` says the textual form is read back or given up,
never misread. `TypesSound` compares the type of every name with its value
after an accepted run to the end, where each `let` is `Understood` and no name
stands for two things (`Overloaded`); `MovesCaught` says an accepted program
whose names inference all sees (`Followed`, which leaves out `and` and `or`)
never reads a moved capability; `NestingKeepsTypes`
that leaving a scope restores every type, `PassesAgree` that the two passes give
a name compatible types. Each exception in these properties is a place where
the code does differ; section 6 lists it, and for those of `TypesSound` and
`MovesCaught` that few programs meet, `Misunderstood` has one that does. For the page: `MemosFresh` for
every order of setters between flushes, `CyclesReported` against the
strongly connected sets of two memos and more, defined as a least fixed point (a
memo that reads itself is not reported). `OrderRight` checks `dag_topo_sort`
against the existence of a knotted set. For the parser: `WrittenIsRead`,
`ShapeByPrecedence` and `NothingLost`, each against `Grammar`.

**Bounds, and why they are enough.**

- `mailbox`: threshold 2 instead of 64, three priorities, six arrivals. The
  threshold is only compared with the length; the runs insert below, at and
  above it, pop the map down to empty and refill it.
- `actors_core`: two actors, three sends, limit 2 raised or lowered to 0 or 1, two
  priorities, of which 2 wraps to a negative one at `HalfRange = 2`.
  That is enough for a message to meet a full mailbox, for two to be reordered,
  and for one to be sent to an actor that is running, parked, finished, removed
  or unknown.
- `actors_retry`: five bodies, up to three actors from the host and those they
  spawn, two host sends; bodies send themselves. Statements contain up to three
  builtins, which puts a receive first, in the middle and last. The nested run
  goes two deep.
- `arc_owned`: three ids before finalizers, depth 3, two names, no arena.
  `arc_scopes`: two ids before promotions, depth 4 (a call and its block inside another
  scope), two arenas, so that a return crosses one arena into another.
- `resolver`: four files and 575 graphs: any two imports of the entry, chains,
  diamonds, cycles through the entry and below it, repeated and self imports,
  and each fault in each position. Two imports at two levels give up to four
  tasks at work and two that meet at one file, the case that matters. `MaxStack` is
  the stack of the calling thread: five calls are more than an acyclic graph of
  four files needs, so the bound cuts only the recursion on a cycle.
- `MaxTickets`, `MaxActors`, `MaxAlloc`, `MaxDepth`, `MaxArena`, `MaxHandles`, `MaxWeak` bound
  only what the main program or the Artcode program decides to start; they
  never stop an operation under way. Deadlock is checked for the mailbox and
  the actors; in `ArcHeap` a program may end, and the resolver returns.
- `commands`: some 4700 programs of a main and one function (every arithmetic
  operator over parameters, a literal and a name that is not there; every pair
  of arms of an if; matches over five patterns and four, with and without a
  guard; loops, nested ifs, recursion, shadowing; calls of functions that are
  ignored), each built for both back ends; and each of 44 statements alone,
  every three of them, and every four of the 14 on capabilities, each run and,
  once more, typed for a page. Three statements are a definition, what changes
  it and its use, across scopes, calls, tuples and aliases. Some 130 more are
  run only: loops over functions, patterns of every arity in matches and if
  lets, and `Misunderstood`. `MaxLoop` and `Fuel` bound loops and recursion; a
  program that meets them is excluded by its diagnostic or has no value.
  `MaxEvalDepth = 40` is deeper than any of these programs goes.
- `graphs`: three memos that read any two of five bindings: every acyclic order
  and every cycle of up to three, and one self-loop or more; two waiting setters,
  so that one changes what the other's memos read. `dag_topo_sort` of up to
  three pairs over three names, with repetitions, as a program passes them (an
  array on the heap with tuples that are not), and of up to two with the tuples
  on the heap too, which the builtin also takes. The page defines one name, `round`, which a memo calls; another
  component reads a name that nobody defines.
- `parser`: every statement alone and after every declaration, every kind of
  expression, type, pattern and template; each of the changed texts differs in
  one token; sequences of five operands with every choice of one operator per
  precedence, and of three with prefixes and suffixes. `parser_depth` nests up
  to the depth limit and past it.

**Fairness.** For the actors only `RunTerminates` needs it. `FairSpec` asks weak fairness of
`Schedule` and of `Operate`: `run_actors_round_robin` is a plain loop on one
thread, so while it is on the stack its next step is executed. Nothing is asked
of the host, which may never call again. What the property then says is that
the loop's own exit conditions (empty list, limit, a pass without progress)
cannot be postponed for ever by parking, retrying, spawning or empty turns.
`WalkEnds` and `Answered` assume weak fairness of the whole next-state relation
of `Resolver`: the pool has at least one thread, and some task is at work as
long as one can go on. No task is favoured over another.
The commands, the page, the sort and the parser have no liveness property: a
page may stay as it is, and the others are sequential; that the loops of the
parser end is the invariant `NeverStuck`, checked where it fails.

## 4. Proofs

All theorems hold for every value of the constants allowed by the `ASSUME`s
(`ActorsAssumption`: bodies are sequences of statements, limits and priorities
are integers; `ArcAssumption`: the names and bounds have their types;
`TopoAssumption`: what an array holds is a sequence of values, boxed or not;
`ComponentAssumption`: bindings and the names a pass collects come in
sequences, and a variable reads its own name), that is,
for every actor program, any number of actors, messages and nested runs, any
number of objects, scopes and arenas, and every component, of any size.

**Mailbox.** `MailboxProofs` proves `RepresentationSorted` and that `Mailbox`
implements `PriorityFifo`, for any priorities and any threshold. A bucket stays
in arrival order because every ticket in the mailbox is in the past
(`TicketsPast`), and the first bucket exists because there are finitely many:
those two complete the inductive invariant. Of the steps of the refinement only
insertions and pops move `Contents`; `DrainOne` and the installation of the map
are stutters, because the front of the list goes to the end of its bucket.
`ReadersCorrect` is about the folds in `Length` and `ToVec`: the sum over the
buckets is the number of messages whatever order it is taken in (`FoldLength`),
and the buckets laid end to end from the highest key down (`FlattenSteps`,
`VectorProperties`) are in serving order, so that each message is there once.

**Actors.** `IInv` is the inductive invariant, checked by TLC in
`actors_retry` first. `NoLostWakeup` alone is not inductive: a send wakes the
state it finds, so one needs to know that there is only one, and where it is.
`ExecutingOK` and `RunningIsOut` say so: an actor's state is never in the map
and in `executing_actor` at once, and the slot belongs to the innermost frame
that executes a statement; `FramesOK` makes that frame well-defined when runs
nest. `DeliveredInOrder` is not inductive either: `HoldsMail` adds that a
mailbox is in serving order and that nothing in it was sent before a message of
its priority which its owner has already received. `ActorsProofs` proves
`TypeCorrect` (the types and the first group) with one lemma per builtin and one
per scheduler action, then `WakeupsKept`, `MailSorted` and `FifoDelivery`.
`MailboxLemmas` shows what they need of `LinearInsert`: it keeps the serving
order and adds exactly one element.

The second part of `ActorsProofs` adds what concerns a whole run. `MessagesOnce`: the queued
messages (`Mail`, over the map and the executing slot), with those received,
are accepted ones, at their receivers, and each ticket is in one place.
`MailboxesBounded`: what a mailbox holds, and the limit it has, are at most a
limit that the program or the main program sets somewhere, or the default one
(`FromProgram` keeps turns and bodies within the program). `ReturnsQuiescent`: while a pass has
made no progress, whoever it has visited had nothing it could execute
(`VisitedOK`). These hold for every program, nested runs included.
`LostWithFinished` and `RemovedWhenDone` assume `RunFree`, that no actor calls
`run_actors`: a nested run overwrites `executing_actor`, and the outer actor is
lost with its mail and with the rest of its body, so that both are false
without it. The programs of `actors_core`, which checks them, are run-free.

**Heap.** `ArcHeapProofs` proves `IInv`, the type invariant with
`AliveIffStrong`. Every operation on the heap is shown to be an evolution
(`Evolves`: ids below the next one, no id reused, nobody revived, liveness
equal to a positive count) which all living objects outside a given set survive
(`Lives`). Both compose, so the composite operations (a drop and its
finalizers, a purge, a promotion) follow from the lemmas on single objects.
`NoRevival` is `Evolves` on a step; `FinalizersKept` is `Lives` with the set of
objects whose finalizers the step removes. `LivenessFollowsCounts` and
`TypeCorrect` are parts of the invariant. These proofs cover programs that
combine finalizers with arenas, which no run explores.

Its second part proves `NamesAlive` and `ChildrenAlive` for an `OwnedProgram`,
one of blocks, arrays that hold an array, weak references and finalizers, the
programs of the run `arc_owned`. Second names for an object, loops and arenas
are excluded because the code then does kill what can be named (6). That names
are alive is not inductive, for a drop takes one count away and the object must
have another if anybody else holds it. `Sound` says so: every handle stands in
one slot of one environment or is still to be dropped, and an object's count is
at least the number of its owners, that is, the slots that hold it and its
living parents (`CountsOK`). `Owned` has a form of it for each point at which a
step can stop in the middle of leaving a scope or of rebinding a variable. A
drop follows the chain of children; the induction along the chain is over the
natural numbers (`NatSet`).

Its third part proves `ArenasEnd`: nothing alive is of an arena that no open
scope owns, whatever the program binds, aliases, nests, returns out of loops and
calls. `NoFinalizers` is assumed because a finalizer allocates in the arena
whose end runs it (6), and `ArenaDrained` is then false. The invariant `Scopes`
says how environments, `current_arena` and the stack of arenas fit together:
the arenas of the scopes are younger inwards, the stack grows upwards, and the
current one, if any, is owned by an open scope. Leaving a scope passes through
`Dropping`, `Ending` and `Ended`, in which the arena of the innermost scope is
respectively still open, being swept, and empty. `Placed` says that an operation
leaves the living where they were or puts them into given arenas; it composes,
so promotion, the drop of handles and the purge each need one lemma.

**Resolver.** `ResolverProofs` proves `TypeCorrect`, `NeverParsedTwice`,
`NothingMissing` and `Refinement` for any set of files, any import graph and any
number of tasks. The hard part of `GraphComplete` is that a task returns at once
when its module was visited, so a finished subtree says nothing about what it
imported; the invariant therefore speaks of modules and not of tasks.
`MarkedOK`: a visited module was published or reported, or some task is about
to do so. `FollowedOK`: the imports of a published module are visited, or some
task is about to visit or to fork them. `TreeOK`: only a task that waits has
children, so a name is given once. `ParsesOK`: a file that was parsed is visited
and no task is about to parse it; `PhaseOK`: outside the walk no task exists.
When no task is left, the alternatives about tasks vanish, and what remains is
`GraphComplete`.

`Refinement` shows that the resolver implements `LinkOrder`: the answer is
unset until the emission ends, and then it is the list of the reached modules,
once each and after their imports, or the set of the faulty files that are
reached. `WalkOK` gives the set: whatever is visited is reached from the entry,
and when the walk is over the visited files are closed under imports, so they
are all that is reached (`ReachedFrom` is a least closed set, so that no
induction over paths is needed). `EmitOK` gives the order: every
module that was emitted stands after its imports (`OutAfter`), each frame waits
for the frame above it (`CallersOK`), and what was emitted is needed by the
import of the entry that is being followed or by one before it (`ListOK`). A
module is emitted only when all its imports were; on a cycle that is never so,
the recursion does not end, and there is no answer to be wrong.

**Topological sort.** `TopoSortProofs` proves `OrderRight` for any list of pairs
a program can pass, with any names, repetitions and boxes: when `dag_topo_sort`
has nothing to complain of, it answers every name once, each after what it
depends on, unless some names depend on one another in a circle, and then it
answers none. The invariant `SortInv` speaks of the two loops. While the
pairs are collected, the names, the children lists and the degrees are what the
pairs so far give (`CollectedRight`). While names are taken, the degree of a name
is the number of its dependencies that are not out yet (`Waits`), an entry of a
children list is one dependency, counted with `Occurs`, and the ready names are
those of degree nothing that are not out. Releasing the children of a name is a
fold over a list in which each child occurs once, since a pair that is repeated
is not counted again. When no name is ready and some are left, those left
each depend on another of them (`KnotLeft`); among names that are all out, no
set does, because its first name in the order depends on nothing behind it
(`NoKnot`). The folds are handled by `FoldExists`: the function the library's
fold chooses exists, by induction on the length, and so has the equations of
its steps.

**The page.** `ComponentProofs` proves `Fresh`, that is `MemosFresh`, for every
component, every number of setters called between two flushes and every order
of them. It is not inductive: between a setter and its flush memos and text are
stale. `FreshInv`, which TLC checked on the components of `graphs` first, says
how stale they may be (`CurrentBut`): a memo or a text node that is not up to
date depends on a state whose updater waits, and while one waits a flush is
among the microtasks. That an updater takes its state off this set
(`UpdateProperties`) rests on two facts. What `dependents_of` returns is closed
(`DependentsProperties`): the search's queue and result hold every visited node
but the root once, and when as many turns as there are nodes are over the queue
is empty, because each turn takes one node and a node is put in once; so a memo
that reads anything affected is affected (`AffectedClosed`), and one that is not
keeps its value. And the order in which memos are computed is right
(`RecomputedProperties`): `Initialises` says a memo reads only bindings declared
before it, so when it is computed what it reads will not change any more. That
the graph has exactly the edges the expressions name is `AnalyseProperties`. The
theorem takes `ExprRefs` and `JsNames` as they are and speaks, like the
property, of components in which they agree (`Whole`): an expression the
analysis does not look into is listed in section 6.

**Model-checked only.** `RunTerminates`, `WalkEnds` and `Answered` for good:
liveness under fairness is out of the prover's reach. Everything about `Parser`,
`Evaluator`, `TypeInfer`, `TypeChecker`, `Lowering`, `References`, `Cycles` and
what uses them (`Grammar`, `Aot`, `Commands`) for good as well: these
operators are RECURSIVE over syntax or over a graph, and the prover has no SMT
backend in a module that reaches one; of the page only `CyclesReported` is among
them. The library's induction
theorems cannot be used, but induction on the naturals can be had from the
smallest counterexample (`NatSet`), which is how the proofs above treat chains,
sums and lists.

## 5. What is not modelled

- Actors: the values and control flow of statements other than the actor
  builtins; sends of values that cannot be converted; the debugger's pauses.
- Heap: objects with several children (the abstraction keeps one), structs,
  enums and maps (they take the array's path), capabilities, runtime errors
  other than return, the reusable arenas, and what the actor runtime stores in
  the heap. A finalizer's body is one binding.
- Resolver: the search for a file by name, the lock file and the cache
  directory; poisoned mutexes; files that change while they are resolved.
- Parser: strings with holes, shell commands, fractions, spans and wording.
- Evaluator: floats (and `i64` arithmetic, which passes through `f64`), string
  operations other than concatenation, structs and methods (so streams, and
  structs with a `next`, in a `for`), shell commands, templates (an error),
  bounds of type parameters, closures whose frame is gone. An enum pattern with
  an empty list of parameters and one without a list are taken as one.
- Topological sort: a call without its argument, which is one diagnostic.
- Typing: spans and wording, strings with holes, floats.
- Native code: 64-bit wrap-around, the cache of binaries, the profile-guided
  plan, trampolines and the tools of the `ir` crate.
- Page: what the expressions of attributes read, the text of the generated
  JavaScript, source maps, styles, lists, routes and the other helpers of the
  bundle.
- The reusable arenas act on `ArcHeap`'s state and would have to be in its
  proofs, with failing calls. The interner is one mutex: each of its operations
  is one step. The tracer, replayer and debugger record and replay values from
  outside (files, clocks, random numbers), which the evaluator here does not
  have. Cycles cannot be built by programs, so cycle detection has nothing to
  run on. The lexer, formatter, linter, language server, documentation and FFI
  are single passes or I/O.

## 6. Where the code and its documents differ

1. `aot_backends`: the C emitter writes the statements that record the block in
   front of its label (`crates/ir/src/c_emitter.rs:203`), every goto passes over
   them, and a function that is a single if returns 0 where LLVM returns the
   value.
2. `component_hooks`: hooks are kept by the identity of the object they were
   registered on (`cli/src/bundler.rs:50`); the guide registers them on what the
   component returns, and the generated code runs those of another object.
3. `parser_depth`: at the depth limit an expression takes no token
   (`crates/parser/src/expressions.rs:16`), and the block of a spawned actor
   reads it again for ever, where the fuzz tests say "no infinite loops".

Other observations, without a run.

*Actors.* A send to a full mailbox returns false without a diagnostic
(`I/builtins.rs:1004`; `docs/rfcs/0003-actors.md:34` asks for one). A `let` whose
initializer receives from an empty mailbox and then sends to its own actor binds
None (`I/exec.rs:314`, against its comment): the send clears the flag the check
reads. A nested `run_actors` empties `executing_actor` (`I/actors.rs:429`); the
outer actor's state is lost. `run_actors()` without a limit works on the ids
present when it was called (`I/actors.rs:397`), where `I/builtins.rs:1259` says
"until idle". A retried statement repeats the sends before its receive and never
sees again the messages it had consumed (`I/actors.rs:478`).

*Heap.* A composite literal counts its children twice (`interpreter.rs:1058`
after `:911`). A second name for an object is tracked but not counted
(`core/src/environment.rs:70`), so the end of an inner scope kills it, against
`docs/language/memory.md:37`. After a loop or a call inside a `performant` block
the block's arena is no longer current (`interpreter.rs:945`). A dead object
kept in the heap releases its child again at every later drop (`I/gc.rs:100`).
A finalizer run by the end of an arena allocates in that arena
(`interpreter.rs:1247`). An object purged with its arena may still be the child
of a dead, weakly held parent (`interpreter.rs:1274`). No path takes a weak
count down (`I/builtins.rs:821`, against `docs/language/memory.md:70`).

*Resolver.* On a cycle of imports `emit_module` calls itself until the stack is
full, because a module is marked after its imports
(`cli/src/resolver.rs:324`); no document speaks of cycles.

*Parser.* A rule at the end of the tokens reads the last one again (`if x` is
`if x x`); blocks open at the end are accepted; `func Q.() {}` drops the dot;
bodies of impl blocks and components skip what they do not know; `x { ... };`
and `spawn actor {...};` report the semicolon; `a as T < b` reads type
arguments; `<if cond {a}>` makes the condition true; `?` is always a weak
upgrade, never the propagation of a result; a `<for>` without a key is called a
warning and ends a build; components inside a view, an if let, a match or a try
are not checked for imports.

*Evaluator.* A tuple pattern matches nothing in a match or an if let
(`I/exec.rs:1134`); a `let` takes tuples apart. Tuples are never on the heap
(`interpreter.rs:1062`), though the comment at `I/eval.rs:255` says they are. A
guard that fails counts as false; try catches one kind of error.

*Typing.* What moves in a nested scope is forgotten when it is left; what a
return or a match holds is never looked at; elements of an array beyond the
first, fields of a struct and operands of a cast are not inferred; `!` has the
type of its operand; `and` and `or` are truth values though they give an operand
back (`type_infer.rs:784`), so a capability that comes out of one is not
followed, and its second use is found only when it runs; the same goes for a
builtin under another name. A function declared over a variable leaves the
variable's type; a call of `capability_acquire` or `capability_kind` has the
builtin's type although a function of the program has that name; a tuple pattern
whose value is not known to be such a tuple leaves its names their old types; a
`let` that fails when it runs counts as done; a variant without its enum is
looked up among the enums of branches that are not taken, too. Further, the
arguments of a known function are inferred twice, so a capability passed to
one counts as moved; names a spawned actor captures are never found
(`type_infer.rs:288` compares the visible names with themselves); a call with
the wrong number of arguments is not reported by the checker; an annotation
`[T]` is a type parameter to it (`parser.rs` drops the bracket).

*Native code.* A function that reads a global is lowered and does not compile
(`lowering.rs:80`, against `docs/guides/aot_llvm.md:67`); a call of an ignored
function does not link; a parameter called like a temporary, or an arm that
reads what the other binds, is invalid LLVM; the second pattern and the guards of
a match are never tested; a function that may end without a return gives 0; a
let in an inner block overwrites the outer name; the loader refuses slots and
comparisons and drops stores; `block_count` misses the entry.

*Page.* The generated code writes neither if, for and slot nodes nor the
children of components; dynamic attributes and text of more than one name are
never updated; props are ignored; two elements of one tag are a syntax error;
memos that read later ones are a ReferenceError, and the diagnostics of cycles
are not asked for by the generator; a memo that reads a state inside the payload
of an enum is never refreshed; `topo_derived` counts sinks and is used by tests
only.

## 7. Hazards

`PROJECT.json` lists them at their lines with the properties that cover them.
Those without a property belong to what section 5 leaves out.

## 8. Plan

1. *Done*: mailbox, actors, heap, resolver, each with its proofs; parser,
   evaluator, both typing passes, lowering and native code, commands,
   reactivity, components, topological sort, model-checked.
2. *Done*: proofs that messages are delivered once and mailboxes bounded, that
   names and children are alive in owned programs, that ended arenas are empty,
   that the readers of a mailbox agree, and that `Mailbox` and `Resolver`
   implement their abstractions, that the topological sort is right, and that
   a page is up to date once it is quiet.
3. `ArcHeap` extended by the reusable arenas and by failing calls, with its
   proofs.
4. The interner under other threads that release strings, and recording and
   replay with a crash between the two writes of a record, if the evaluator is
   given outside events.
