------------------------------ MODULE TxnWalker ------------------------------
(***************************************************************************)
(* Software transactional memory of the tree-walking interpreter           *)
(* (src/src/interpreter/mod.rs).                                           *)
(*                                                                         *)
(* One Interpreter value serves the main program and every coroutine that  *)
(* the scheduler runs an actor handler on.  Each of them (a "flow") has    *)
(* its own Rust stack, hence its own nesting of eval_transact calls; but   *)
(* the stack of transaction contexts, txn_stack, is ONE field of the       *)
(* interpreter that all flows push to and pop from.  A flow gives the      *)
(* thread away only at `await` or `yield`.                                 *)
(*                                                                         *)
(* The body of a block is arbitrary: any sequence of reads, writes, nested *)
(* blocks, `retry`, `reply`/`return` and errors.                           *)
(***************************************************************************)
EXTENDS Naturals, Sequences, FiniteSets

CONSTANTS
  Flows,               \* the main program and the actor handlers
  Main,                \* the flow that holds the thread at the start
  Refs,                \* the `shared` cells
  Vals,                \* their values
  InitVal,             \* the value a cell is created with
  None,                \* absence of a buffered write, a recorded read, a result
  MaxAttempts,         \* MAX_RETRIES: how often a block's body is started
  SuspendInTransact,   \* do programs `await`/`yield` inside `transact`?
  BuiltinArgs,         \* do programs pass a cell to a builtin by its name?
  MaxVersion,          \* bound of the model on SharedCell.version (a u64)
  MaxDepth             \* bound of the model on the contexts open at once

ASSUME ConstantsAssumption ==
  /\ Main \in Flows
  /\ InitVal \in Vals
  /\ None \notin Vals /\ None \notin Nat
  /\ MaxAttempts \in Nat \ {0}
  /\ SuspendInTransact \in BOOLEAN /\ BuiltinArgs \in BOOLEAN
  /\ MaxVersion \in Nat /\ MaxDepth \in Nat

VARIABLES
  value, version,      \* the fields of every SharedCell
  txnStack,            \* Interpreter.txn_stack, outermost context first
  blocks,              \* per flow: attempt number of each eval_transact it is in
  signal,              \* per flow: the Err travelling up its Rust stack
  running,             \* the flow that holds the thread
  ret                  \* the value the last read evaluated to

vars == <<value, version, txnStack, blocks, signal, running, ret>>

Ctx == [writes : [Refs -> Vals \cup {None}], reads : [Refs -> Nat \cup {None}]]

EmptyCtx == [writes |-> [r \in Refs |-> None], reads |-> [r \in Refs |-> None]]

\* "exit" is Err(Reply) or Err(Return); "error" every other Err but Retry.
Signals == {"none", "exit", "error"}

Depth == Len(txnStack)

Init == /\ value = [r \in Refs |-> InitVal]
        /\ version = [r \in Refs |-> 0]
        /\ txnStack = <<>>
        /\ blocks = [f \in Flows |-> <<>>]
        /\ signal = [f \in Flows |-> "none"]
        /\ running = Main
        /\ ret = None

-----------------------------------------------------------------------------
(* Reading and writing a cell.                                             *)

\* The contexts among the n outermost ones that buffer a write of r.
Holders(n, r) == {i \in 1..n : txnStack[i].writes[r] # None}

Innermost(S) == CHOOSE i \in S : \A j \in S : j <= i

\* What an identifier bound to cell r evaluates to below n contexts.
Lookup(n, r) == IF Holders(n, r) = {}
                THEN value[r]
                ELSE txnStack[Innermost(Holders(n, r))].writes[r]

Evaluating(f) == running = f /\ signal[f] = "none"

Read(f, r) ==
  /\ Evaluating(f)
  /\ ret' = Lookup(Depth, r)
  /\ txnStack' = IF Depth > 0 /\ Holders(Depth, r) = {}
                                /\ txnStack[Depth].reads[r] = None
                 THEN [txnStack EXCEPT ![Depth].reads[r] = version[r]]
                 ELSE txnStack
  /\ UNCHANGED <<value, version, blocks, signal, running>>

\* call_function on a builtin: an argument that names a cell arrives as the
\* reference itself, and what is taken out of it is the committed value.
ReadArg(f, r) ==
  /\ Evaluating(f) /\ BuiltinArgs
  /\ ret' = value[r]
  /\ UNCHANGED <<value, version, txnStack, blocks, signal, running>>

\* Mutant of Write: txn_stack is not looked at.
WriteThrough(f, r, v) ==
  /\ Evaluating(f) /\ version[r] < MaxVersion
  /\ value' = [value EXCEPT ![r] = v]
  /\ version' = [version EXCEPT ![r] = @ + 1]
  /\ ret' = None
  /\ UNCHANGED <<txnStack, blocks, signal, running>>

\* Mutant of Write: a direct write does not bump the version.
WriteUnversioned(f, r, v) ==
  /\ Evaluating(f)
  /\ IF Depth > 0
     THEN txnStack' = [txnStack EXCEPT ![Depth].writes[r] = v] /\ UNCHANGED value
     ELSE value' = [value EXCEPT ![r] = v] /\ UNCHANGED txnStack
  /\ ret' = None
  /\ UNCHANGED <<version, blocks, signal, running>>

Write(f, r, v) ==
  /\ Evaluating(f)
  /\ IF Depth > 0
     THEN /\ txnStack' = [txnStack EXCEPT ![Depth].writes[r] = v]
          /\ UNCHANGED <<value, version>>
     ELSE /\ version[r] < MaxVersion
          /\ value' = [value EXCEPT ![r] = v]
          /\ version' = [version EXCEPT ![r] = @ + 1]
          /\ UNCHANGED txnStack
  /\ ret' = None
  /\ UNCHANGED <<blocks, signal, running>>

-----------------------------------------------------------------------------
(* eval_transact.                                                          *)

Begin(f) ==
  /\ Evaluating(f)
  /\ Depth < MaxDepth
  /\ txnStack' = Append(txnStack, EmptyCtx)
  /\ blocks' = [blocks EXCEPT ![f] = Append(@, 1)]
  /\ ret' = None
  /\ UNCHANGED <<value, version, signal, running>>

Pop(s) == [i \in 1..(Len(s) - 1) |-> s[i]]

\* Mutant of AttemptAgain: one attempt more than MAX_RETRIES.
AttemptAgainLate(f) ==
  LET n == Len(blocks[f])
  IN IF blocks[f][n] <= MaxAttempts
     THEN /\ txnStack' = [txnStack EXCEPT ![Depth] = EmptyCtx]
          /\ blocks' = [blocks EXCEPT ![f][n] = @ + 1]
          /\ signal' = [signal EXCEPT ![f] = "none"]
     ELSE /\ txnStack' = Pop(txnStack)
          /\ blocks' = [blocks EXCEPT ![f] = Pop(@)]
          /\ signal' = [signal EXCEPT ![f] = "error"]

\* Mutant of AttemptAgain: the last attempt leaves its context behind.
AttemptAgainKeeps(f) ==
  LET n == Len(blocks[f])
  IN IF blocks[f][n] < MaxAttempts
     THEN /\ txnStack' = [txnStack EXCEPT ![Depth] = EmptyCtx]
          /\ blocks' = [blocks EXCEPT ![f][n] = @ + 1]
          /\ signal' = [signal EXCEPT ![f] = "none"]
     ELSE /\ blocks' = [blocks EXCEPT ![f] = Pop(@)]
          /\ signal' = [signal EXCEPT ![f] = "error"]
          /\ UNCHANGED txnStack

\* One more turn of the attempt loop, or the error after the last one.
AttemptAgain(f) ==
  LET n == Len(blocks[f])
  IN IF blocks[f][n] < MaxAttempts
     THEN /\ txnStack' = [txnStack EXCEPT ![Depth] = EmptyCtx]
          /\ blocks' = [blocks EXCEPT ![f][n] = @ + 1]
          /\ signal' = [signal EXCEPT ![f] = "none"]
     ELSE /\ txnStack' = Pop(txnStack)
          /\ blocks' = [blocks EXCEPT ![f] = Pop(@)]
          /\ signal' = [signal EXCEPT ![f] = "error"]

Conflict(ctx) == \E r \in Refs : ctx.reads[r] # None /\ ctx.reads[r] # version[r]

Written(ctx) == {r \in Refs : ctx.writes[r] # None}

\* Mutant of Merge: what the parent wrote wins over the inner block.
MergeParentWins(parent, inner) ==
  [writes |-> [r \in Refs |-> IF parent.writes[r] # None
                              THEN parent.writes[r] ELSE inner.writes[r]],
   reads  |-> parent.reads]

Merge(parent, inner) ==
  [writes |-> [r \in Refs |-> IF inner.writes[r] # None
                              THEN inner.writes[r] ELSE parent.writes[r]],
   reads  |-> [r \in Refs |-> IF parent.reads[r] # None
                              THEN parent.reads[r] ELSE inner.reads[r]]]

\* commit_txn on the context that was on top: merge into the parent,
\* restart on a conflict, or apply the writes.
CommitTop(f) ==
  LET inner == txnStack[Depth]
      Done  == blocks' = [blocks EXCEPT ![f] = Pop(@)] /\ UNCHANGED signal
  IN \/ /\ Depth > 1
        /\ txnStack' = [Pop(txnStack) EXCEPT ![Depth - 1] = Merge(@, inner)]
        /\ Done
        /\ UNCHANGED <<value, version>>
     \/ /\ Depth = 1 /\ Conflict(inner)
        /\ AttemptAgain(f)
        /\ UNCHANGED <<value, version>>
     \/ /\ Depth = 1 /\ ~Conflict(inner)
        /\ \A r \in Written(inner) : version[r] < MaxVersion
        /\ value' = [r \in Refs |-> IF r \in Written(inner)
                                    THEN inner.writes[r] ELSE value[r]]
        /\ version' = [r \in Refs |-> IF r \in Written(inner)
                                      THEN version[r] + 1 ELSE version[r]]
        /\ txnStack' = <<>>
        /\ Done

InBlock(f) == running = f /\ blocks[f] # <<>>

\* The body evaluated to Ok(result), or a reply/return is leaving the block:
\* both commit, and the reply/return travels on.
EndBody(f) ==
  /\ InBlock(f)
  /\ signal[f] \in {"none", "exit"}
  /\ CommitTop(f)
  /\ ret' = None
  /\ UNCHANGED running

\* `retry` inside the body.
Retry(f) ==
  /\ InBlock(f) /\ signal[f] = "none"
  /\ AttemptAgain(f)
  /\ ret' = None
  /\ UNCHANGED <<value, version, running>>

\* Mutant of Rollback: the context stays, as if only commits popped it.
RollbackKeeps(f) ==
  /\ InBlock(f) /\ signal[f] = "error"
  /\ blocks' = [blocks EXCEPT ![f] = Pop(@)]
  /\ ret' = None
  /\ UNCHANGED <<value, version, txnStack, signal, running>>

\* Any other error leaves the block: its writes are discarded.
Rollback(f) ==
  /\ InBlock(f) /\ signal[f] = "error"
  /\ txnStack' = Pop(txnStack)
  /\ blocks' = [blocks EXCEPT ![f] = Pop(@)]
  /\ ret' = None
  /\ UNCHANGED <<value, version, signal, running>>

-----------------------------------------------------------------------------
(* The rest of the evaluator, as far as it moves signals or the thread.    *)

\* `reply`/`return`, or `raise`/a runtime error/`break` starts to unwind.
Leave(f, s) ==
  /\ Evaluating(f)
  /\ s \in {"exit", "error"}
  /\ signal' = [signal EXCEPT ![f] = s]
  /\ ret' = None
  /\ UNCHANGED <<value, version, txnStack, blocks, running>>

\* The call, handler, loop or `try` that stops the unwinding is reached; it
\* may lie inside or outside any of the blocks the flow is in.
Absorb(f) ==
  /\ running = f /\ signal[f] # "none"
  /\ signal' = [signal EXCEPT ![f] = "none"]
  /\ ret' = None
  /\ UNCHANGED <<value, version, txnStack, blocks, running>>

\* `await`/`yield` hands the thread to another flow.
Switch(f, g) ==
  /\ Evaluating(f) /\ g # f
  /\ SuspendInTransact \/ blocks[f] = <<>>
  /\ running' = g
  /\ ret' = None
  /\ UNCHANGED <<value, version, txnStack, blocks, signal>>

Next == \E f \in Flows :
  \/ \E r \in Refs : Read(f, r) \/ ReadArg(f, r)
  \/ \E r \in Refs, v \in Vals : Write(f, r, v)
  \/ Begin(f) \/ EndBody(f) \/ Retry(f) \/ Rollback(f)
  \/ \E s \in {"exit", "error"} : Leave(f, s)
  \/ Absorb(f)
  \/ \E g \in Flows : Switch(f, g)

Spec == Init /\ [][Next]_vars
-----------------------------------------------------------------------------
(* Properties.                                                             *)

TypeOK ==
  /\ value \in [Refs -> Vals]
  /\ version \in [Refs -> 0..MaxVersion]
  /\ txnStack \in Seq(Ctx) /\ Depth <= MaxDepth
  /\ blocks \in [Flows -> Seq(1..MaxAttempts)]
  /\ signal \in [Flows -> Signals]
  /\ running \in Flows
  /\ ret \in Vals \cup {None}

\* Whatever the interleaving, every read recorded in an open context is of
\* the cell's current version: no cell can change while any context is open,
\* because every write then goes to the shared top of txn_stack and only the
\* last context to be popped applies.  So commit_txn never finds a conflict
\* and its retry path is dead code in this backend.
ReadsCurrent ==
  \A i \in 1..Depth : \A r \in Refs :
     txnStack[i].reads[r] # None => txnStack[i].reads[r] = version[r]

\* The eval_transact calls on all Rust stacks, by flow and place.
OpenBlocks == UNION {{f} \X (1..Len(blocks[f])) : f \in Flows}

\* txn_stack holds one context for each block that any flow is in, whichever
\* flow pushed it: the `expect("txn stack imbalance")` of eval_transact never
\* fires, for a flow inside a block finds a context to pop.
StackBalanced == Cardinality(OpenBlocks) = Depth

\* A cell changes only when no context is left open afterwards, and each
\* change bumps its version by exactly one: commit_txn's validation, which
\* compares versions only, cannot miss a change.
ChangesAreVersioned ==
  [][\A r \in Refs : \/ value'[r] = value[r] /\ version'[r] = version[r]
                     \/ version'[r] = version[r] + 1 /\ txnStack' = <<>>]_vars

\* A program that never suspends inside a block: the contexts on txn_stack
\* are exactly those of the running flow's own blocks, so a commit or a
\* rollback acts on what its own body wrote.
OwnContexts ==
  ~SuspendInTransact =>
     /\ Depth = Len(blocks[running])
     /\ \A f \in Flows \ {running} : blocks[f] = <<>>

\* "Outside a transaction, reads return the current value and writes update
\* it directly" (value.rs): a flow that evaluates code outside any transact
\* block finds no context on txn_stack.
OutsideIsDirect ==
  \A f \in Flows : Evaluating(f) /\ blocks[f] = <<>> => txnStack = <<>>

\* The store as seen below each number of open contexts.
Snapshots == [i \in 1..(Depth + 1) |-> [r \in Refs |-> Lookup(i - 1, r)]]

\* The lookup through write sets, the merging commit and the rollback
\* implement savepoints: what every read returns, and what a commit makes of
\* the store, is what a stack of private copies would give.  It takes a
\* program that reads cells by their names only, never as a builtin's argument.
Store == INSTANCE SavepointStore WITH views <- Snapshots
Savepoints == Store!Spec
=============================================================================
