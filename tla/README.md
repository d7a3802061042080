# Verification of the 1y runtime

1y is a small language with actors, transactional memory and colorless `await`.
It has two backends that must agree: a tree-walking interpreter
(`src/src/interpreter/mod.rs`) and a compiler with a bytecode VM
(`src/src/compiler/mod.rs`, `src/src/vm/vm.rs`); both run actor handlers as
stackful coroutines on one thread (`src/src/runtime/scheduler.rs`), load files
as modules, and hand functions to a pool of worker threads. One front end
(`src/src/lexer/mod.rs`, `src/src/parser/mod.rs`) serves both. This directory
holds TLA+ models of all of these, TLC runs over small instances, and proofs
that TLAPS checks. Paths and line numbers in comments and in
`PROJECT.json` refer to the repository at the commit modelled.

## 1. Inventory

| Component | State | Operations | Interacts with |
|---|---|---|---|
| Tree-walker evaluator | environments, the Rust stack | `eval_expr` for each construct; `Err` values as control flow (Break, Continue, Return, Reply, Retry, UserException) | STM, actors, module loader |
| Tree-walker STM | one `txn_stack` per interpreter; value and version of each `SharedCell` | read, write, begin, commit, merge, rollback, retry | evaluator; every flow shares the stack |
| Compiler | function contexts, constant pools, locals, scopes | `compile_expr`, `emit_*`, `patch_jump` | VM |
| VM | per flow a `VmCtx`: frames, operand stack, handler stacks, `pending_exception`, `txn_stack` | one step per opcode, `handle_signal`, `return_from_frame` | compiler, STM, scheduler |
| Mailboxes and drains | a mailbox per actor, `live_actors` | `!`, `?`, `yield`, `drain_mailboxes`, `drain_mailboxes_async` | scheduler, evaluator |
| Scheduler | `ready`, `parked`, `timer_parked`, `results`, tokens; thread-locals `CURRENT_YIELDER`, `CURRENT_SCHEDULER` | `spawn_handler`, `tick`, `await_task`, `register_*` | mio, drains, `await` |
| Task combinators | `TaskState` shared by reference | `task_all`, `task_any`, `task_ready` | scheduler |
| Worker pool, `parallel.*` | job channel under a mutex, a reply channel per job, threads with an interpreter each, a barrier | preload, `call`, `spawn`, `join`, `map` | interpreters of the workers, SendValue |
| Cross-thread actor registry | global Pid map | register, route | actors; nothing takes out what is routed |
| Module loader | `module_cache`, `module_load_stack`; in the VM the saved globals | `load_module` in each backend, `force_lazy` | evaluator, VM |
| Lexer | position, tokens, errors | `next_token` | parser, sub-lexers of interpolations |
| Parser | token index, errors | `parse_stmt`, `parse_expr`, `resync` | both backends, `ast_of` |
| AST, reflection, printer | none | `ast_of`, `1y ast` | programs that read programs |
| Builtins, standard library | opaque native resources | calls | values, scheduler (async sockets and timers) |
| `lib/*.1y`, `bootstrap/*.1y`, editor, docs | programs and tools on top | | |

`PROJECT.json` lists each with its status. What is hard here is less
parallelism (apart from the worker pool all is one thread) than *interleaving at
suspension points* and *non-local exits*: a flow of control is suspended inside
a construct that keeps state outside of the flow; an exit leaves several
constructs at once and each has something to undo; two implementations of the
same constructs keep that state in different forms; and a parser that records an
error and goes on must not go on with half of the program. The correctness of
each:

- STM: a transaction is atomic, isolated and a no-op if it fails; nesting
  behaves like savepoints; attempts are bounded; the context stack is balanced.
- Compiler and VM: every program means what it means in the tree-walker, and
  no handler, context or captured variable outlives its construct.
- Actors and scheduler: a message is handled once, a coroutine is in one
  queue, a wakeup is not lost, a drain and a program end, `await` suspends the
  coroutine it is executed in, the value of a shared task reaches one await.
- Worker pool: every call has the answer its function means, once; whoever
  waits, somebody can still answer.
- Module loader: a file runs once, only cycles are circular, a file's names stay
  its own, and both backends show the same.
- Front end: an accepted program is all of what was written, read by the grammar;
  an error spoils no statement after it; lexing and parsing end.

`PROJECT.json` lists the places where this can break, line by line ("hazards").

## 2. Modules

| Module | Models | Correspondence |
|---|---|---|
| `SavepointStore` | abstract: a committed store and a stack of private views | what `docs-site/en/syntax/stm.md` promises of nested blocks |
| `TxnWalker` | the tree-walker's STM under several flows | `txnStack` is `Interpreter.txn_stack`, `blocks[f]` the `eval_transact` calls on flow f's Rust stack with their attempt numbers, `signal[f]` the `Err` travelling up that stack, `running` the flow on the thread. Block bodies are arbitrary |
| `TreeWalker` | `eval_expr` on the control constructs, functions, closures and `match`, as one recursive operator | an outcome has a signal, a value and the state (cells, contexts, variables, words printed); this is the reference the VM is held against |
| `Patterns` | the three readings of a pattern | the tree-walker's `match_pattern` binds names, the VM's `match_rec` pushes values, the compiler's `collect_binding_names` says whose they are |
| `Bytecode` | the compiler | the instructions with their real byte offsets, constant indices, local slots and upvalues; each construct has the operator named for its arm of `compile_expr` |
| `VmCore` | the VM | `ctx[f]` is a `VmCtx`; an action for every opcode in use, `Raised`, `Retried`, `LoopSignal`, `Returned` for `handle_signal` and `return_from_frame`, `CloseUpvaluesAbove`; `Await` and `Resume` change flows |
| `VmParity` | composes `Bytecode`, `VmCore`, `TreeWalker` | a script is compiled, run step by step and compared |
| `VmFlows` | `VmCore` with several flows | the script and handlers of `drain_mailboxes_async`, over common cells; it runs any code (`Codes`), and `MCVmFlows` compiles its scripts with `Bytecode` |
| `ActorRuntime` | mailboxes, both drains, the scheduler, tasks, `task_all`, `task_any` and `await` | `stack[f]` is what flow f is in the middle of (code of a handler, a drain, a top-level wait, the final drain); `chain` is the flows resumed and not yet suspended, since a handler may drain in its turn and so tick inside a tick; `task` is the state of the tasks that flows share |
| `Promises` | abstract: reply channels that are opened in order and answered once | what `parallel.*` promises its callers |
| `WorkerPool` | `runtime/worker.rs` and `stdlib/parallel.rs` | `queue` is the job channel, `holder` the worker in the mutex of its receiver, `replies` the reply channels, `frame[t]` the body thread t executes; threads interleave at every submit, lock, receive, answer, wait and panic |
| `ModuleLoader` | `import` and `lazy import` in both backends | `loading` is `module_load_stack`, `cache` is `module_cache`, `frames` the files being evaluated with what the VM saved of its globals, `scope` the environments (one for the VM) |
| `Lexer` | `lexer/mod.rs` | the `read_*` and `skip_*` functions on characters, an interpolation by counting braces; a character stands for its class |
| `Parser` | `parser/mod.rs` | one operator for each `parse_*`; `Err` is a cursor that is not ok, `expect` records and goes on, `resync` |
| `FrontEnd` | `parse` and its callers | a turn of the lexer's loop, then a turn of the statement loop, is a step; `Judge` is the check of `output.errors` |
| `AstValue` | `ast/to_value.rs` | the keys of each node's Map as tables, `AstOf` |
| `Picking` | `Vec::retain`, and loops with `continue` | `Picked(s, P)`, the elements of `s` at the positions `P`; a function by recursion on the position, which a proof can use where `SelectSeq` cannot be |
| `TxnWalkerProofs`, `VmFlowsProofs`, `ActorRuntimeProofs`, `WorkerPoolProofs`, `ModuleLoaderProofs` | theorems about the module of that name | section 5 |
| `WakeupProofs`, `WorkerMeaningProofs` | what takes an invariant of its own: wakeups in `ActorRuntime`, the meaning of a program in `WorkerPool` | they extend `ActorRuntimeProofs`, `WorkerPoolProofs` |
| `SequenceFacts` | lemmas about sequences that these proofs share | what `Front`, `Tail`, `Append`, `\o`, `FlattenSeq`, `Picked` do to the set of elements and to injectivity; induction over positions as a lemma about sets |

`MC*.tla` hold the programs and constants for TLC. A program is abstract
syntax of some constructs: `<<"transact", e>>`, `<<"try", e, clauses, ensure>>`
and so on; `coin()` in the conditional is a builtin with an arbitrary Boolean
answer, `say` a builtin that prints.

Definitions whose comment begins "Mutant of" are plausible mistakes in the
definition named; `PROJECT.json` pairs each with the property that finds it.

## 3. Runs

| Run | Question | Bounds | Distinct states |
|---|---|---|---|
| `TxnWalkerShared` | Do flows that are suspended anywhere, also inside blocks, keep the one context stack consistent, and does it still implement savepoints? | 2 flows, 2 cells, 2 values, 2 attempts, depth 2, 1 version | 560 296 |
| `TxnWalkerOwn` | Without suspension inside blocks: is every open context the running flow's, and does code outside blocks act on cells directly? | same, depth 3; symmetric cells | 2 568 816 |
| `VmConstructs` | Do the compiled constructs do what the tree-walker does, and leave nothing in the VmCtx? Are handlers well formed, does every program end? | nests of depth 3 in five families (loops; calls; tries; transactions; closures) and of depth 2 (match with patterns and guards), around each way to leave; 18 constructs in pairs around 11 leaves for the rest; 3 retries; 2 true coins | 418 106 |
| `VmFlows` | Are transactions of two flows atomic and isolated, do they end? | 2 flows, 2 cells; scripts with one or two transactions, nested, retried, replying | 210 535 |
| `Actors` | Messages, coroutines, wakeups, yielders, shared tasks, termination | 2 actors, 3 messages, 2 ticks a drain, 2 tasks; thousands of programs of script and two handlers | 414 567 |
| `Syntax` | Do lexer, parser and `ast_of` keep all of what is written, and nothing else? | 133 649 sources: all strings of up to 5 characters of each lexical alphabet, all sequences of up to 5 tokens of 17 alphabets, each a part of the grammar, broken statements before good ones, and expressions of depth 2 (3 for a few operators) spelled from their trees | 1 973 424 |
| `Workers` | Does every call through the pool get its answer, and who may stand still? | 3 workers, up to 10 jobs, 9 functions: plain, raising, panicking, nesting, unsendable and so on | 314 784 |
| `Modules` | Do both loaders run each file once, keep its names, find cycles, and agree? | an entry file and 2 modules; 10 import preludes, 81 pairs of uses, 10 and 7 bodies of the modules | 919 002 |
| `VmLostUpdate` (violated) | Atomicity when transactions are suspended in the middle | one script | |
| `ActorsServer` (violated) | Does `await` suspend the coroutine it is in, for the accept loop of `lib/http.1y`? | one program, 4 ticks | |
| `ActorsLostWakeup` (violated) | Is a wakeup lost if a task is awaited later than it is made? | one program | |
| `ActorsSequential` (violated) | Does an actor process one message at a time, in order? | one program | |

Why the bounds are enough to be interesting. Two flows are what every
interference needs; a second cell distinguishes a half-applied commit; two
attempts have a first, and a last that fails; depth 2 has a merge and a commit
of the outermost block, one version a change after a read. Depth 3 of
constructs is a construct left, one in between, and one that takes the exit.
Cells are interchangeable in `TxnWalkerOwn`, whose properties are invariants, so
their symmetry is sound.
Three messages let a handler's own message and a second actor's meet; two ticks
make drains both run out of ticks and end early, and a nested drain use up its
ticks while the outer one has some left. `TicksPerYield` is 4 in the
tree-walker and 64 in the VM. Three workers are two that wait for a third, or for
each other with one that dies. Two modules are enough for a chain, a cycle and a
diamond with the entry file. Each alphabet is made for a rule of the grammar; its
sequences reach its end, its error and what may follow either; five tokens reach
a construct, an error in it, and the token recovery stops at.

`CHECK_DEADLOCK FALSE` is set where a program ends and nothing can happen
after it.

Fairness. `VmParity` and `VmFlows` assume weak fairness of the whole
next-state relation: the thread goes on while it can. `ActorRuntime` assumes in
addition that each stream that a flow expects data from becomes readable, each
timer's deadline passes and each common task completes some time (weak fairness
of `Arrive`, `Elapse` and `Complete`): without it a server rightly waits for
ever. `WorkerPool` assumes weak fairness of main and of each worker: threads are
preemptive and the operating system runs each. No fairness is assumed between
the branches of a choice, such as a conflict and its absence, and none between
flows: that every flow of `VmFlows` ends follows from the bounded retries, that
every program of `ActorRuntime` ends from the ticks a drain has. That lexer and
parser end is an action property, `EveryTurnReads`: every turn of either loop
uses up some input, a failing turn too; the model has no turn that does not
come to an end itself. Its deadlock check says that no turn is blocked.

What the passing runs show, property by property, is stated above each
property in its module. Some deserve a word:

- `Savepoints` (refinement): the committed cells, overlaid by the contexts
  from the bottom up, are the views of `SavepointStore`; every read, write,
  begin, commit, rollback and retry of `TxnWalker` is the abstract operation.
- `WholeAreAtomic`: as long as no flow ever awaited inside a transaction
  (`split` is FALSE), no update is lost and no torn snapshot is seen. For
  suspended transactions `NothingLost` and `OneSnapshot` both fail (section 6).
- `StaleNeverCommits` is what does hold for them: a flow that has read a
  version since replaced stays stale until it retries, raises or fails its last
  commit, whatever it reads or commits in nested blocks; and cells change only
  by a flow that is not stale and has no block open after the step.
  `EveryChangeIsABump` and `EveryFlowEnds` hold for suspended transactions also.
- `ParityAgreed`, `CleanEndAgreed`: the families of `Agreeing` avoid the
  combinations section 6 lists; `HandlersNest` and `Terminates` are asked of
  every program.
- `NoLostWakeup` holds of programs that await each read where they make it
  (`ReadsAwaited`): no yield, other await or end of a handler comes between a
  `read_async` and the await of its task. `AwaitedAssumption` has TLC evaluate that the
  programs of `Actors` are such; that of `ActorsLostWakeup` is not (section 6).
- `EachMessageOnce` accounts for messages. What a drain of coroutines throws away
  has no handler or is behind an arity error. What is still in a mailbox when
  the program is done was sent by a handler, to an actor that is not the last: the
  final drain had passed that actor. The documents know of no such remainder, and
  `AllDrained`, which forbids it, fails (section 6). A program that fails leaves
  what it has not come to; `EveryProgramEnds` sees neither.
- `OwnNamesKept` says what becomes of a file's names, and bounds what else it
  exports: in the tree-walker names of its own statements, on the VM names that it
  or a file it reaches speaks of. `modules.md:99` promises less, and
  `ExportsItsOwn`, which says so, fails (section 6).
- `HandedOutOnce`, `LostOnlyInAll`: of a task that several flows await, alone or
  in combinators, one await gets the value; if none does, a `task_all` took it.
- `AnswersAreMeant`: the meaning of a call (`Meaning`) is defined from the program
  alone, by recursion along its calls, and knows nothing of threads. It exists if
  no functions call each other in a circle (`NoCircle`); bodies have no conditions,
  so such a circle would never end. `MeaningAssumption` has TLC evaluate that the
  programs of `Workers` have none. `AnswersStay` is the refinement
  of `Promises`. `StillOnlyByNesting` names the two ways in which all threads
  may stand still for ever, `EveryTameProgramEnds` a condition under which they
  do not: fewer jobs that wait for others (or panic) than workers.
- `NothingDropped`: `Written` spells a tree, token by token; of an accepted
  program the spelling is the source, whatever the parser looked ahead at,
  recorded or recovered from. `Forgotten` lists the five things the tree has no
  room for. `ReadAsWritten` is the converse, for trees spelled with the
  parentheses the table of binding powers asks for.
- `BothLoadersAgree`: `Lexical` are the programs that do not tell an environment
  per file from one table of globals. Section 6 has what happens to the others.

## 4. Abstractions

- Values are numbers, a few tags, pairs, variants and closures; printing is a
  list of words. Cells are bound to globals. Two closures are shown alike.
- `TxnWalker` and `VmCore` bound versions, depth and true coins by constants
  (`MaxVersion`, `MaxDepth`, `MaxCoins`); `ActorRuntime` messages by `MaxMsgs`.
  `MaxAttempts` and `MaxTxnRetries` are parameters of the code (64), smaller here.
- `ActorRuntime` leaves out actor state and, of the tasks' values, all but who
  got them. A flow has one
  stream, and `data` says whether the task it awaits would poll as ready. Time
  is left out: a tick may poll before any deadline has passed, as after an
  interrupted system call. When `await` goes through the yielder of another
  flow the model stops (`corrupt`), for the program's behaviour is undefined
  from there on.
- In `VmFlows` flows start in the order of their number and change places at
  `await`; the scheduler's own order is the matter of `ActorRuntime`.
- `WorkerPool`: a body is the `parallel` statements it executes and the way it
  ends; what a value is, beyond sendable or not, does not matter. `MaxReplies`
  is above what any program of the run submits.
- `ModuleLoader`: a file is a list of `let`s of numbers, functions that read or
  bump one variable, imports, uses of names and members, raises; modules of the
  standard library, dotted paths and imports inside of functions are left out.
  A statement may stand in a `try`, but for definitions, which would be locals of its
  block; and no file imports the entry file, which is on no load stack and would be
  evaluated as a second module (`ProgramsAssumption`).
- `Lexer` has one character for each class it tells apart, and of letters those
  that mean something in an escape or a number; a keyword is one symbol. Spans
  and messages are left out of `Lexer` and `Parser`. In `AstValue` a number's
  text stands for its value.

## 5. Proofs

TLAPS checks theorems about five of the modules, for all values of their
constants that meet the `ASSUME`s, so for any number of flows, cells, actors,
messages, workers and files, and any programs. TLC evaluates every `ASSUME` in
the runs, and checked each inductive invariant on a run's instance before it
was proved.

### `TxnWalkerProofs`

Assumed: `ConstantsAssumption` (the main flow is a flow, `None` is no value and
no number, the bounds are numbers).

| Theorem | States |
|---|---|
| `TypeCorrect` | `Spec => []TypeOK`; attempt numbers stay within `MaxAttempts` |
| `NoStaleRead` | `[]ReadsCurrent`: no recorded read is ever outdated. Since all flows push to one stack, a cell changes only when the last context has been popped, so the conflict branch of `commit_txn` cannot be taken |
| `VersionedChanges` | `ChangesAreVersioned`: a cell changes only with an empty stack after the step, by one version |
| `StackStaysBalanced` | `[]StackBalanced`: however flows are suspended in blocks, the stack has as many contexts as there are blocks some flow is in, so no block finds it empty |
| `ContextsAreOwn` | `[]OwnContexts`: without suspension inside blocks, the open contexts are as many as the running flow's blocks, and no other flow has any |
| `OutsideDirect` | `[]OutsideIsDirect`, from it: code outside every block finds no context |
| `ImplementsSavepoints` | `TxnWalker` implements `SavepointStore` under the overlay mapping, for programs that do not pass cells to builtins by name |

`TypeOK` is inductive as it stands. `ReadsCurrent` needs it, and the fact that
only `CommitTop` with one context and a `Write` with none touch `version`.
`StackBalanced` needs the set of open blocks to be finite, or its cardinality
says nothing; then a step adds one element to the set, takes one out, or leaves
it. `OwnContexts` is inductive with `TypeOK` because a flow leaves the thread
only between blocks. The refinement rests on three groups of lemmas: what
`Lookup` through n contexts yields (`LookupStep`: the view at n+1 is the view at
n overlaid by context n+1), what pushing, popping and merging does to the
sequence of views, and one lemma for each action that names the abstract step.
`LookupStep` is the induction-free way to state the recursion: `Lookup` is
defined by the innermost holder, not recursively.

### `VmFlowsProofs`

Assumed: `VmAssumption` (`Main` is a flow, `None` is no number). Nothing is assumed
of the code: it need not come from the compiler.

| Theorem | States |
|---|---|
| `VmInvariant` | `FSpec => []VmInv` |
| `StaleReadsNeverCommit` | `StaleNeverCommits`, as an action property of every step of every instruction |
| `TryHandlersStayNested` | exception handlers are in the order of their frames and none outlives its frame, in every flow: the part of `HandlersNest` (a property of `VmConstructs`) that does not depend on the compiler |

`VmInv` says of every context that what it has read is no newer than the
committed cell and no older than what the contexts around it have read of the
same cell. Both are needed for the first half of `StaleNeverCommits`: a commit of a
nested block merges the reads into the parent and keeps the parent's where both
have one, so a stale read of the inner context might be forgotten in favour of
a newer one, were the parent's not the older of the two; and a read that lags
behind stays behind because versions only grow. The proof has a lemma for each
action; instructions that change neither contexts nor handlers nor the number of
frames are all instances of `Calm`.

### `ActorRuntimeProofs`

Assumed: `ActorAssumption` (each actor is once in the list of actors, `Null` is no
number, `TicksPerYield` is positive) and `ProgramsAssumption` (a program sends to
actors it has spawned).

| Theorem | States |
|---|---|
| `ActorsInvariant`, `TasksInvariant` | `[]ActorInv`, `[]TaskInv` |
| `OnePlaceEach` | `[]CoroutinesInOnePlace`: each coroutine that has not ended is ready, parked, parked with a timer, or in the chain of those resumed, and in one of these once |
| `YielderNeverDangles` | `[]YielderAlive`: the yielder in the thread-local belongs to a coroutine that has not finished. So what section 6 has of it is the wrong coroutine suspended, not a finished one |
| `NoMessageTwice` | `[]EachMessageOnce`: messages are in one place, and what is left in mailboxes when the program is done was sent by a handler to an actor that is not the last |
| `NoValueTwice`, `NoValueLostElsewhere` | `[]HandedOutOnce`, `[]LostOnlyInAll` |

`ActorInv` strengthens the first three at once, for none is inductive alone: that a
handler is not started twice needs that its message is in no mailbox, that needs
the messages of mailboxes, coroutines, the script's own frames, the ended and
the skipped to be a partition of `1..Len(sent)`, and a coroutine's identifier is its
message's. What the stacks may look like (`Frames`) says whose message a frame
handles: a coroutine's own in its outermost frame, the script's only under the
final drain. The chain and the queues partition the live coroutines and the script.
What is left in mailboxes is `LeftInv`'s: whoever still runs once the final drain has
begun has only operations of handlers ahead of it, so the mailboxes the drain has left
behind gain messages of handlers only; and once it has left the last, which it found
empty, nothing happens but the end.
`TaskInv` is about the tasks alone: one await is given the value and consumes it.

### `WakeupProofs`

| Theorem | States |
|---|---|
| `AwaitedAtOnceNeverLost` | `[](ReadsAwaited(prog) => NoLostWakeup)`: in a program that awaits each read where it makes it, a coroutine parked for a readable stream has the event to come |

The hypothesis is on the program's text and cannot be left out: the program of
`ActorsLostWakeup` does not meet it. `WakeInv` has two parts. `AllPrompt` carries the
hypothesis along: what is left of the operations in every frame of every flow still
has each read followed by its await. `Registrations` says where a task with a token can
be: its flow is about to await it, with itself as the yielder, or is parked for it;
never ready, with a timer, or in a mailbox, so a flow that is resumed or spawned
has none. In both places the event of a readable stream is still to come: no
tick is between the read and the await to forget it, and the one that sees it
wakes the coroutine. A flow that awaits outside of a coroutine keeps its token, but it
polls its task itself and its yielder is nobody's; the invariant lets it. It uses
`ActorInv` for where the running flow and the messages are.

### `WorkerPoolProofs`

Assumed: `PoolAssumption` (there is a worker, main is none), `ProgramsAssumption`
(the shape of statements), `RepliesAssumption` (`MaxReplies` is a number).

| Theorem | States |
|---|---|
| `EveryReplyHasItsWorker` | `[]SomebodyWillAnswer`: a reply is pending exactly if its job is in the channel or with a live worker, in one place once |
| `WorkersFindItOpen` | `[]OnlyMainFindsItClosed` |
| `OnlyNestingStandsStill` | `[]StillOnlyByNesting`: where no thread can go on before the program is over, a worker panicked before the barrier, or jobs are queued and each live worker waits for another |
| `PoolKeepsItsPromises` | `AnswersStay`, the refinement of `Promises`: each step opens reply channels, answers pending ones, or stutters |

`PoolInv` adds to the two invariants what they need of the phases: the barrier
keeps everybody out of the loop until main is past it, the mutex is held by the
worker that receives, a worker has a reply to give exactly while it is busy, no
two have the same. `StillOnlyByNesting` needs `FrameInv` besides: the replies a
thread waits for were opened after the one it answers. If nobody can go on and
the channel were empty, the latest pending reply would, by `SomebodyWillAnswer`,
be what some worker executes; that worker waits for a later one, which is
pending too, a contradiction. So a job is queued, and then no worker is idle.

### `WorkerMeaningProofs`

| Theorem | States |
|---|---|
| `PoolAnswersAreMeant` | `[](NoCircle(prog) => AnswersAreMeant)`: each answer is what the function called means, whichever worker took the job, and main's results are what its statements mean |

The first part proves that a program without circles has a meaning at all. A partial
solution gives the functions of a closed set what they mean; two of them agree where both
are defined, so all of them together form one (`SolutionsTogether`), and a function which
calls only solved ones is solved (`OneMoreSolved`). The functions left over would each call
one of them, which `NoCircle` excludes (`MeaningExists`). The second is the invariant `MeantInv`: an answer is
pending, lost with the last worker, or what the meaning says; and each body that is
executed is at a point its meaning goes through, which is that its results so far are
those of its statements (`Told`), that it holds a handle for each spawn it has
not joined and for that call (`Holding`), that the replies it waits for are those of the
calls of its statement, in their order (`Asked`), and that the answers collected
are what these calls give (`Heard`). `PoolInv` and `FrameInv` give that no reply is answered twice.

### `ModuleLoaderProofs`

Assumed: `ProgramsAssumption` (the shape of statements; every program has an entry file, which
no file imports; no definition stands in a `try`).

| Theorem | States |
|---|---|
| `NoFileTwice` | `[]OncePerFile`: no backend evaluates a file twice, as long as no load was aborted |
| `LoadStackStaysReal` | `[]LoadStackIsReal`: `module_load_stack` is the chain of files that are being evaluated |
| `OnlyCirclesAreCircular` | `[]CircularOnlyInCycles`: a file that is taken for circular reaches itself by what the files name and call, or its load was aborted |
| `NamesStayOwned` | `[]OwnNamesKept`: what a file has bound its names to, they stay bound to, and a loaded module exports them, as long as no load was aborted and no function assigns; and, on no condition, a module exports only names its statements have, or on the VM names it and the files it reaches speak of |

`LoadInv`: while no load was aborted, the stack is the files of the frames above
the entry file's, and a file that was evaluated is in the cache or in one of these
frames. A load looks into both before it evaluates, which is why neither half is
enough. `CycleInv`, for the third: each file under evaluation is reached by the one
below it (`Piled`); a file on the load stack is being evaluated, was loaded or
aborted (`Known`); and every binding, in whatever scope, snapshot or export it has
come to stand, bears the name it was defined by (`Labelling`), so what a use or the
variable of a called function leads to is a file the using file mentions. `Reaches` is the
least closed set, so the induction along a chain of files is one step each.

`OwnInv`, for the fourth, adds what holds of every file under evaluation, where
`OwnNamesKept` speaks of the innermost. On the VM the others' names may be overwritten
meanwhile: those of a file are in the snapshot of the file above it, those of the innermost
in the globals (`Held`, `Kept`), and the end of a module puts the snapshot before the
globals. That a module exports all it defines needs in addition where a number in
a snapshot may come from: from a `let` of a file that had begun before (`Traced`), which is another
one because no file is evaluated within itself (`Apart`, from `LoadInv`'s chain and the check of
the load stack). And that a lazy import, rebound where a statement or a called
function reads it (`Rebinding`), is none of the names, and that no step assigns, is
`CycleInv`'s `Labelling`.

What a module exports at most is `FitInv`'s. In the tree-walker a scope has only names of
the statements of its file. On the VM the globals differ from the snapshot of a file
under evaluation only in names spoken of in that file and those it reaches, and so does the
snapshot of any file above it (`Fenced`): for each file is reached by the one below
(`Piled`), and what a called function binds is spoken of where it was defined
(`Labelling`). The exports are a part of that difference. As it asks nothing of aborted
loads or of functions that assign, it does not follow from `OwnInv`.

### How they are laid out, and what stays with TLC

Each module has lemmas about its operators first, one lemma for each action that
disturbs the invariant, and the theorems last. Sets of positions take the place of
induction over data: `SetInduction` in `SequenceFacts` is induction over `0..n` as a
fact about a set, so what the recursive function in `Picked`, or the fold in
`FlattenSeq`, yields is proved at every position.

Only model-checked, and why:

- `WholeAreAtomic` and `EveryChangeIsABump` are about what certain scripts compute.
- `HandlersHaveContexts`, the other part of `HandlersNest`, is false of arbitrary
  code; it holds of what the compiler emits, and the compiler is a recursive operator.
- `ParityAgreed`, `CleanEndAgreed`, all of `Lexer`, `Parser`, `FrontEnd`, `AstValue`:
  recursive operators throughout, as their code is, which the prover does not take.
- `BothLoadersAgree` needs a simulation between the backends, on whole runs: the
  tree-walker is done before the VM begins.
- Liveness (`Terminates`, `EveryFlowEnds`, `EveryProgramEnds`,
  `EveryTameProgramEnds`), which the prover does not do.

## 6. Where the code disagrees with its documents

Four runs are expected to find a violation; `PROJECT.json` quotes the text each
contradicts.

- `VmLostUpdate`: after a conflict the VM pushes two contexts for one block, so
  the retried transaction's writes never reach the cells.
- `ActorsServer`: `CURRENT_YIELDER` survives the suspension of its coroutine;
  the next top-level `await` suspends through it. Nothing calls
  `run_until_complete`, the place where the corruption was once mended.
- `ActorsLostWakeup`: a readiness event of a task that nobody awaits yet is
  dropped by the tick that sees it, and the later `await` sleeps with the data
  at hand.
- `ActorsSequential`: the handlers of an actor's messages are coroutines that
  start youngest first and interleave, though
  `docs-site/en/philosophy/concurrency-model.md:24-25` says one at a time and in
  order.

Five more show with a change of constants. With `SuspendInTransact = TRUE`,
`BuiltinArgs = FALSE`, `MaxDepth = 2` in `TxnWalkerOwn.cfg`, `OutsideIsDirect`
alone fails: a handler outside any `transact` writes into the context of a flow
that is suspended inside one. With `Programs <- AllOfTwo` in `Actors.cfg`,
the invariant `AllCollects` fails: `task_all` over tasks that complete at
different polls gives nil for the earlier ones (`builtins.rs:1180`), though its
comment (`builtins.rs:1139-1140`) has it collect their values. With
`Programs <- Nesting` or `Unloaded` in `Workers.cfg`, `<>Over` fails: three jobs
that each call the pool occupy its three workers (`parallel.rs:97`), and a panic
while preloading leaves main at the barrier (`worker.rs:78`).

With `Programs <- SendsBack` in `Actors.cfg`, the invariant `AllDrained` fails:
`docs-site/en/syntax/actors.md:120` says "`!` messages are drained at the end of the
program", and the comment at `interpreter/mod.rs:1779` "all pending `!` messages in every
live actor's mailbox", but the final drain goes over the actors once
(`mod.rs:1783-1801`), and what a handler sends to an actor it has passed is dropped. With
`Programs <- FailsInDrain` it fails because the first error of a handler ends the
drain (`mod.rs:1798`), and with `Programs <- FailsInScript` and `DrainsAfterError =
FALSE` because the VM does not drain at all after a script that fails. Coroutines
parked when the program ends are dropped, too.

With `Programs <- PassesOn` in `Modules.cfg`, the invariant `ExportsItsOwn` fails:
`docs-site/en/syntax/modules.md:99` says "A `.1y` file's top-level bindings are
exactly what it exports as a module", but the VM exports whatever is new or changed in its one
table of globals (`vm.rs:2209-2216`), the names of the modules the file imports
among it: where `a` imports `b`, `a.y` is `b`'s `y`, which in the tree-walker is an error.
With `Programs <- TakesIn` it fails on both backends: a module that reads a lazy
import of its importer has the module it becomes bound in its own environment, or in
the globals, and exports it.

The backends disagree on many programs. `MCVmParity` has a smallest program for
each cause that was found; with `Programs <- TransactReturn`, say, and the
invariant `Parity` in a copy of `VmConstructs.cfg` (`CleanEnd` for
`TransactRaise`) TLC shows the difference:

| Programs | Code | What happens in the VM |
|---|---|---|
| `TransactReturn` | `vm.rs:1742` | `return` inside `transact` neither commits nor rolls back, and the context stays open |
| `TransactReply` | `vm.rs:578` | `reply` in a transaction drops the `VmCtx` without the commit the tree-walker makes |
| `TransactContinue` | `vm.rs:498` | `continue` out of a transaction leaves handler and context; later iterations nest in them and never commit |
| `TransactRaise` | `vm.rs:2916` | an exception out of a transaction that is the whole body of a `try` leaves its context: the heights are equal and the comparison is strict |
| `NestedTransact` | `vm.rs:1228` | two blocks at the same byte offset of two functions are taken for a block and its retry; the outer commit panics |
| `Attempts` | `vm.rs:525` | one attempt more than in the tree-walker, and than `docs/language-guide.md:216` says |
| `StaleLoop` | `vm.rs:557` | an exception out of a loop leaves its loop handler, which takes the next `break` |
| `WhileBreak` | `compiler/mod.rs:1060` | `while` left by `break 5` is 5, in the tree-walker nil |
| `ForValue` | `compiler/mod.rs:1264` | a `for` is the vector it iterated over, in the tree-walker nil |
| `OperandLet` | `compiler/mod.rs:295` | local slots ignore operands of unfinished expressions: a `let` in the second operand overwrites the first |
| `FirstConstant` | `vm.rs:1183` | a typed rescue whose type name has constant index 0 catches everything |
| `EnsureReturn` | `compiler/mod.rs:1329` | `return` in a `try` skips `ensure` |
| `EnsureRescue` | `vm.rs:1212` | a rescue inside `ensure` clears the pending exception of the outer `try` |
| `RescueReturn` | `compiler/mod.rs:1366` | `return` in a rescue clause ends the clause only |
| `CaptureShared` | `vm.rs:798` | two closures over one variable whose scope has ended each have a variable of their own; `docs/language-guide.md:136` has closures capture their environment by reference |
| `CaptureFor` | `compiler/mod.rs:1223` | a closure over the variable of a `for` keeps an upvalue into a stack that is gone; the VM panics when it closes it |
| `CaptureBreak` | `vm.rs:488` | the same for a variable of a loop left by `break` (and by an exception, or a retry) |
| `GuardCapture` | `compiler/mod.rs:1632` | the same for a variable of a pattern, captured in a guard that then fails |
| `NoArm` | `compiler/mod.rs:1654` | a `match` that no arm fits is nil, in the tree-walker an error |
| `OrSwapped` | `compiler/mod.rs:1674` | alternatives of a pattern that bind their names in another order bind the values to the names of the first |

In `VmLostUpdate.cfg`, with the invariant `OneSnapshot` and `Codes <- Watchers`
or `Codes <- ArgCodes`: a transaction suspended between two reads sees the
halves of another's commit (`vm.rs:2888`; it is restarted at its commit, but
has computed with the torn values), and a cell passed to a builtin is read past
the write set (`vm.rs:1664`). The families of `Agreeing` are chosen so that none of these occurs in them.

Modules. A module that rescues the raise of one it imports leaves that on
`module_load_stack` (`interpreter/mod.rs:483`); the next entry popped is the
wrong one, and the aborted file is evaluated again by a later import, or is
reported as circular. The VM has one table of globals for all files: an import
in a `try` block binds for good; functions of a module see later definitions of
the importer; a `let` that gives a name the value a global has already is not
exported; what an aborted load has overwritten stays overwritten; and the
globals it restores after a load undo what loaded modules' functions did to
their own variables meanwhile (`vm.rs:2225-2231`). `OncePerFile`,
`OwnNamesKept` and `BothLoadersAgree` state what holds apart from these.

Workers. Functions that use a top-level `let` fail on a worker, for `let` is not
preloaded; an exception becomes a runtime error, which `rescue` does not match by
type; a worker that panics is not made good, and when none is left the next
submit panics on the main thread (`worker.rs:118`).

Front end. Lexical errors reach nobody but `1y tokens` (`parser/mod.rs:43`);
the errors a sub-parser records in an interpolation are dropped (`parser/mod.rs:1626`),
so `"{f(1}"` is accepted; `lazy` followed by any keyword is an import; a triple-quoted
string ended by a backslash at the end of the file is not reported; an
interpolation with a comment, a triple string or a string with an interpolation of
its own that has a brace in a string may end early; `else` takes a whole
expression, so `if c {1} else {2} + 3` adds in the second branch only.
`NothingDropped`, `TokensStandAlone`, `InterpolationExact` have the conditions
that leave these out.

## 7. Not modelled

- Maps, sets, structs, methods, indexed assignment and arithmetic in the two
  backends, and actor declarations in the VM: straight-line code on values.
  Decimal and big-integer arithmetic (`ops.rs`) is a library's.
- Actor state. Handlers share it and interleave where they await, which
  `Sequential` shows without it.
- The cross-thread registry: messages to a Pid reach a `cross_inbox` that nothing
  empties, so there is no receiving side.
- The printer of `1y ast`, the pure parts of the standard library, `json`,
  `crypto`: sequential functions of their input, better tested.
- Input and output, the command line apart from `run`, the REPL, the editor.
- The programs in `lib/` and `bootstrap/`, the accept loop of `lib/http.1y`
  excepted: written in 1y itself.

## 8. Plan

Order of work, done parts first.

1. `SavepointStore`, `TxnWalker`, `TxnWalkerProofs` (done): the core of what
   both backends promise of transactions, proved.
2. `TreeWalker`, `Patterns`, `Bytecode`, `VmCore`, `VmParity`, `VmFlows` (done
   for control constructs, functions, closures and `match`): the second backend
   against the first.
3. `ActorRuntime` (done, with shared tasks, without actor state).
4. `WorkerPool`, `Promises` (done).
5. `ModuleLoader` (done for files; dotted paths and std modules left).
6. `Lexer`, `Parser`, `FrontEnd`, `AstValue` (done).
7. Proofs (done): all safety properties of `TxnWalker`; of `ActorRuntime`,
   `EachMessageOnce`, `CoroutinesInOnePlace`, `YielderAlive`, `HandedOutOnce` and
   `LostOnlyInAll`; of `WorkerPool`, `SomebodyWillAnswer`,
   `OnlyMainFindsItClosed`, `StillOnlyByNesting`, the refinement `AnswersStay` and
   `AnswersAreMeant` for programs whose functions do not call each other in a circle;
   of `ModuleLoader`, `OncePerFile`, `LoadStackIsReal`, `CircularOnlyInCycles` and `OwnNamesKept`; of
   `VmFlows`, `StaleNeverCommits`; `NoLostWakeup` for programs that await each read
   where they make it.
8. More proofs: a condition on code, met by what the compiler emits, under which
   transaction handlers and contexts pair up (`HandlersHaveContexts`).
9. `VmCore`: structs, maps, indexing and methods.
10. Decimal arithmetic and JSON against reference definitions.
