------------------------------- MODULE VmCore -------------------------------
(***************************************************************************)
(* The bytecode virtual machine (src/src/vm/vm.rs): control flow, handler  *)
(* stacks and software transactional memory.                               *)
(*                                                                         *)
(* Every flow (the script, an actor handler's coroutine) owns a VmCtx; the *)
(* shared cells are common.  One instruction is one step; the thread moves *)
(* to another flow only at `await`.  An operand-stack access that Rust     *)
(* would refuse, and a failing `expect`, is the status "panic".            *)
(***************************************************************************)
EXTENDS Naturals, Sequences, FiniteSetsExt, SequencesExt, Picking

CONSTANTS
  Flows,          \* the script and the handlers
  Main,           \* the script
  Cells,          \* the shared cells, by the name of the global bound to each
  InitVal,        \* what they are created with
  None,           \* no pending exception, no buffered write, no recorded read
  MaxTxnRetries,  \* MAX_TXN_RETRIES
  Matches(_, _),  \* match_rec: what a pattern binds of a value (module Patterns)
  MaxCoins        \* bound of the model: TRUE answers of `coin()` in a run

ASSUME VmAssumption == Main \in Flows /\ None \notin Nat

VARIABLES
  cell,           \* SharedCell of every cell: value and version
  ctx,            \* VmCtx of every flow
  running,        \* the flow that holds the thread
  coins,          \* answers `coin()` has still to give, then FALSE for ever
  log             \* what the program printed

vars == <<cell, ctx, running, coins, log>>

Nil == <<"nil">>

EmptyTxn == [writes |-> [r \in Cells |-> None], reads |-> [r \in Cells |-> None]]

NewCtx(code) ==
  [frames |-> << [code |-> code, ip |-> 1, base |-> 0, upvalues |-> <<>>] >>,
   stack |-> <<>>, upvalues |-> <<>>, loops |-> <<>>, excs |-> <<>>, pending |-> None,
   txns |-> <<>>, handlers |-> <<>>, status |-> "run", result |-> Nil]

InitWith(code) ==
  /\ cell = [r \in Cells |-> [value |-> InitVal, version |-> 0]]
  /\ ctx = [f \in Flows |-> NewCtx(code[f])]
  /\ running = Main
  /\ coins \in {<<>>} \cup UNION {{c \in [1..n -> BOOLEAN] : c[n]} : n \in 1..MaxCoins}
  /\ log = <<>>

-----------------------------------------------------------------------------
(* VmCtx.                                                                  *)

Cut(s, n) == SubSeq(s, 1, Min({n, Len(s)}))        \* Vec::truncate
Frame(c)  == Last(c.frames)
Depth(c)  == Len(c.frames)
Instr(c)  == Frame(c).code[Frame(c).ip]

SetIp(c, a)   == [c EXCEPT !.frames[Depth(c)].ip = a]
Fetched(c)    == SetIp(c, Frame(c).ip + 1)
Push(c, v)    == [c EXCEPT !.stack = Append(@, v)]
Drop(c, n)    == [c EXCEPT !.stack = SubSeq(@, 1, Len(@) - n)]
Stop(c, s, v) == [c EXCEPT !.status = s, !.result = v]
RuntimeError(c) == Stop(c, "error", Nil)

\* Mutant of CloseUpvaluesAbove: they stay open.
CloseUpvaluesNever(c, floor) == c

\* close_upvalues_above: the upvalues that point at or above a height take the
\* value there for their own (`at` 0).  One that points above the stack panics.
CloseUpvaluesAbove(c, floor) ==
  LET open == {u \in DOMAIN c.upvalues : c.upvalues[u].at > floor}
  IN IF \E u \in open : c.upvalues[u].at > Len(c.stack) THEN Stop(c, "panic", Nil)
     ELSE [c EXCEPT !.upvalues = [u \in DOMAIN @ |->
             IF u \in open THEN [at |-> 0, value |-> c.stack[@[u].at]] ELSE @[u]]]

\* cleanup_transact_above: roll back the transactions begun above a height.
CleanupTransactAbove(c, floor) ==
  LET keep == Max({0} \cup {i \in DOMAIN c.handlers : c.handlers[i].height <= floor})
      gone == Len(c.handlers) - keep
  IN [c EXCEPT !.handlers = Cut(@, keep),
               !.txns = SubSeq(@, 1, Len(@) - gone)]

\* handle_signal, UserException: the innermost frame with a handler of its
\* own takes the exception; the frames above it go, and with each of them
\* the transactions begun above its base, and what points into it is closed.
Raised(c, v) ==
  LET Catches(d) == \E i \in DOMAIN c.excs : c.excs[i].frame = d
      depths     == {d \in 1..Depth(c) : Catches(d)}
      d     == Max(depths)
      at    == Max({i \in DOMAIN c.excs : c.excs[i].frame = d})
      h     == c.excs[at]
      floor == Min({h.height} \cup {c.frames[j].base : j \in (d + 1)..Depth(c)})
      closed == IF depths = {} THEN CloseUpvaluesAbove(c, 0)
                ELSE IF d = Depth(c) THEN c ELSE CloseUpvaluesAbove(c, c.frames[d + 1].base)
      below == CleanupTransactAbove(closed, floor)
  IN IF closed.status = "panic" THEN closed
     ELSE IF depths = {} THEN Stop(closed, "raise", v)
     ELSE SetIp([below EXCEPT !.frames = Cut(@, d),
                              !.excs = Cut(@, at - 1),
                              !.pending = v,
                              !.stack = Append(Cut(@, floor), v)], h.rescue)

\* handle_signal, Break and Continue: only the top loop handler is looked at.
LoopSignal(c, address, values) ==
  IF c.loops # <<>> /\ Last(c.loops).frame = Depth(c)
  THEN SetIp([c EXCEPT !.stack = Cut(@, Last(c.loops).height) \o values],
             Last(c.loops)[address])
  ELSE RuntimeError(c)

\* Mutant of Retried: retries are not counted.
RetriedUncounted(c) ==
  LET mine == {i \in DOMAIN c.handlers : c.handlers[i].frame = Depth(c)}
      at   == Max(mine)
  IN IF mine = {} THEN RuntimeError(c)
     ELSE SetIp([c EXCEPT !.handlers = Cut(@, at),
                          !.txns = SubSeq(@, 1, Len(@) - (Len(c.handlers) - at) - 1),
                          !.stack = Cut(@, c.handlers[at].height)], c.handlers[at].retryAddr)

\* handle_signal, Retry.
Retried(c) ==
  LET mine == {i \in DOMAIN c.handlers : c.handlers[i].frame = Depth(c)}
      at   == Max(mine)
      h    == c.handlers[at]
      back == [c EXCEPT !.handlers = Cut(@, at),
                        !.txns = SubSeq(@, 1, Len(@) - (Len(c.handlers) - at) - 1),
                        !.stack = Cut(@, h.height)]
  IN IF mine = {} THEN RuntimeError(c)
     ELSE IF h.retries + 1 > MaxTxnRetries
     THEN RuntimeError([back EXCEPT !.handlers = Front(@)])
     ELSE SetIp([back EXCEPT !.handlers[at].retries = @ + 1], h.retryAddr)

\* Mutant of Returned: the callee's handlers stay.
ReturnedWithHandlers(c, v) ==
  LET left == [c EXCEPT !.frames = Front(@), !.stack = Append(Cut(@, Frame(c).base), v)]
  IN IF Depth(c) = 1 THEN Stop(left, "ok", v) ELSE left

\* return_from_frame.
Returned(c, v) ==
  LET caller == Depth(c) - 1
      Kept(s) == Picked(s, {i \in DOMAIN s : s[i].frame <= caller})
      closed == CloseUpvaluesAbove(c, Frame(c).base)
      left == [closed EXCEPT !.frames = Front(@),
                        !.loops = Kept(@),
                        !.excs = Kept(@),
                        !.handlers = Kept(@),
                        !.stack = Append(Cut(@, Frame(c).base), v)]
  IN IF closed.status = "panic" THEN closed
     ELSE IF caller = 0 THEN Stop(left, "ok", v) ELSE left

-----------------------------------------------------------------------------
(* The shared cells.                                                       *)

\* The contexts of c that buffer a write of r; the innermost one decides.
Holders(c, r) == {i \in DOMAIN c.txns : c.txns[i].writes[r] # None}

ReadShared(c, r) == IF Holders(c, r) = {} THEN cell[r].value
                    ELSE c.txns[Max(Holders(c, r))].writes[r]

\* Mutant of Recorded: reads leave no trace in the context.
RecordedNever(c, r) == c

\* read_shared records the version of a committed read in the innermost
\* context.
Recorded(c, r) ==
  IF c.txns # <<>> /\ Holders(c, r) = {} /\ Last(c.txns).reads[r] = None
  THEN [c EXCEPT !.txns[Len(c.txns)].reads[r] = cell[r].version] ELSE c

Changed(x, v) == [value |-> v, version |-> x.version + 1]

Conflict(t) == \E r \in Cells : t.reads[r] # None /\ t.reads[r] # cell[r].version

\* Mutants of MergedTxn: the parent's writes win; the nested ones are lost; the
\* nested reads win.
MergedParentWins(parent, t) ==
  [parent EXCEPT !.writes = [r \in Cells |-> IF @[r] # None THEN @[r] ELSE t.writes[r]]]
MergedNothing(parent, t) == parent
MergedLatestReads(parent, t) ==
  [writes |-> [r \in Cells |-> IF t.writes[r] # None THEN t.writes[r] ELSE parent.writes[r]],
   reads  |-> [r \in Cells |-> IF t.reads[r] # None THEN t.reads[r] ELSE parent.reads[r]]]

MergedTxn(parent, t) ==
  [writes |-> [r \in Cells |-> IF t.writes[r] # None THEN t.writes[r] ELSE parent.writes[r]],
   reads  |-> [r \in Cells |-> IF parent.reads[r] # None THEN parent.reads[r] ELSE t.reads[r]]]

-----------------------------------------------------------------------------
(* Instructions.  "needs" is how many operands one pops or peeks.          *)

Needs(op) ==
  CASE op \in {"Pop", "StoreLocal", "AssignGlobal", "JumpIfFalse", "Break", "Return",
               "Raise", "RescueMatch", "Add", "PopLocalKeep", "ConstructVariant", "Call", "Reply", "Match",
               "AssignLocal", "AssignUpvalue"} -> 1
    [] op = "NewVec" -> 2
    [] OTHER -> 0

At(f, op) == /\ running = f
             /\ ctx[f].status = "run"
             /\ Instr(ctx[f])[1] = op
             /\ Len(ctx[f].stack) >= Needs(op)

Arg(f, k) == Instr(ctx[f])[k + 1]
Operand(f) == Last(ctx[f].stack)
Here(f)    == Fetched(ctx[f])
Become(f, c) == ctx' = [ctx EXCEPT ![f] = c]
Control == UNCHANGED <<cell, running, coins, log>>

Underflow(f) ==
  /\ running = f /\ ctx[f].status = "run"
  /\ Len(ctx[f].stack) < Needs(Instr(ctx[f])[1])
  /\ Become(f, Stop(ctx[f], "panic", Nil))
  /\ Control

Const(f) == /\ \/ At(f, "Const") /\ Become(f, Push(Here(f), Arg(f, 1)))
               \/ At(f, "Nil")   /\ Become(f, Push(Here(f), Nil))
            /\ Control

Swap(f) ==
  LET s == ctx[f].stack
  IN /\ At(f, "Swap")
     /\ Become(f, IF Len(s) < 2 THEN Stop(ctx[f], "panic", Nil)
                  ELSE [Here(f) EXCEPT !.stack[Len(s)] = s[Len(s) - 1], !.stack[Len(s) - 1] = s[Len(s)]])
     /\ Control

Pop(f) == At(f, "Pop") /\ Become(f, Drop(Here(f), 1)) /\ Control

PopN(f) ==
  /\ At(f, "PopN")
  /\ Become(f, IF Len(ctx[f].stack) >= Arg(f, 1) THEN Drop(Here(f), Arg(f, 1))
               ELSE Stop(ctx[f], "panic", Nil))
  /\ Control

PopLocalKeep(f) ==
  /\ At(f, "PopLocalKeep")
  /\ LET c == Drop(Here(f), 1)
         closed == CloseUpvaluesAbove(c, Len(c.stack) - Arg(f, 1))
     IN Become(f, IF Len(ctx[f].stack) <= Arg(f, 1) THEN Stop(ctx[f], "panic", Nil)
                  ELSE IF closed.status = "panic" THEN closed
                  ELSE Push(Drop(closed, Arg(f, 1)), Operand(f)))
  /\ Control

\* local(slot): the operand at the frame's base plus the slot.
Place(c, slot) == Frame(c).base + slot + 1

LoadLocal(f) ==
  LET at == Place(ctx[f], Arg(f, 1))
  IN /\ At(f, "LoadLocal")
     /\ Become(f, IF at <= Len(ctx[f].stack) THEN Push(Here(f), ctx[f].stack[at])
                  ELSE Stop(ctx[f], "panic", Nil))
     /\ Control

\* set_local: overwrite the operand in that place, or grow up to it.
StoreLocal(f) ==
  LET rest == Front(ctx[f].stack)
      at   == Place(ctx[f], Arg(f, 1))
      size == Max({at, Len(rest)})
  IN /\ At(f, "StoreLocal")
     /\ Become(f, [Here(f) EXCEPT !.stack =
                     [i \in 1..size |-> IF i = at THEN Operand(f)
                                        ELSE IF i <= Len(rest) THEN rest[i] ELSE Nil]])
     /\ Control

AssignLocal(f) ==
  LET c  == Drop(Here(f), 1)
      at == Place(c, Arg(f, 1))
  IN /\ At(f, "AssignLocal")
     /\ Become(f, IF at <= Len(c.stack) THEN [c EXCEPT !.stack[at] = Operand(f)]
                  ELSE Stop(ctx[f], "panic", Nil))
     /\ Control

\* Upvalue::read and write: an open one is the place on the stack.
Dangles(c, u) == c.upvalues[u].at > Len(c.stack)
UpvalueOf(f)  == Frame(ctx[f]).upvalues[Arg(f, 1) + 1]

LoadUpvalue(f) ==
  /\ At(f, "LoadUpvalue")
  /\ LET u == UpvalueOf(f)
         at == ctx[f].upvalues[u].at
     IN Become(f, IF Dangles(ctx[f], u) THEN Stop(ctx[f], "panic", Nil)
                  ELSE Push(Here(f), IF at = 0 THEN ctx[f].upvalues[u].value ELSE ctx[f].stack[at]))
  /\ Control

AssignUpvalue(f) ==
  /\ At(f, "AssignUpvalue")
  /\ LET u == UpvalueOf(f)
         c == Drop(Here(f), 1)
         at == c.upvalues[u].at
     IN Become(f, IF Dangles(c, u) THEN Stop(ctx[f], "panic", Nil)
                  ELSE IF at = 0 THEN [c EXCEPT !.upvalues[u].value = Operand(f)]
                  ELSE [c EXCEPT !.stack[at] = Operand(f)])
  /\ Control

\* The values bound go onto the stack, where the arm has its locals.
Match(f) ==
  LET found == Matches(Arg(f, 1), Operand(f))
      c     == Drop(Here(f), 1)
  IN /\ At(f, "Match")
     /\ Become(f, IF found[1] = "fails" THEN Push(c, <<"flag", FALSE>>)
                  ELSE Push([c EXCEPT !.stack = @ \o found[2]], <<"flag", TRUE>>))
     /\ Control

NewVec(f) ==
  LET s == ctx[f].stack
  IN /\ At(f, "NewVec")
     /\ Become(f, Push(Drop(Here(f), 2), <<"pair", s[Len(s) - 1], s[Len(s)]>>))
     /\ Control

ConstructVariant(f) ==
  /\ At(f, "ConstructVariant")
  /\ Become(f, Push(Drop(Here(f), 1), <<"variant", Arg(f, 1), Operand(f)>>))
  /\ Control

\* Const 1; Add.  Adding to anything but a number is a type error.
Add(f) ==
  LET s == ctx[f].stack
  IN /\ At(f, "Add")
     /\ Become(f, IF Len(s) < 2 THEN Stop(ctx[f], "panic", Nil)
                  ELSE IF s[Len(s) - 1][1] # "num" THEN RuntimeError(ctx[f])
                  ELSE Push(Drop(Here(f), 2), <<"num", s[Len(s) - 1][2] + 1>>))
     /\ Control

\* The index arithmetic of a `for`: i < n, and i = i + 1.
Less(f) ==
  LET s == ctx[f].stack
      i == Place(ctx[f], Arg(f, 1))
      n == Place(ctx[f], Arg(f, 2))
  IN /\ At(f, "Less")
     /\ Become(f, IF ~({i, n} \subseteq DOMAIN s) THEN Stop(ctx[f], "panic", Nil)
                  ELSE IF s[i][1] # "num" \/ s[n][1] # "num" THEN RuntimeError(ctx[f])
                  ELSE Push(Here(f), <<"flag", s[i][2] < s[n][2]>>))
     /\ Control

Increment(f) ==
  LET s == ctx[f].stack
      i == Place(ctx[f], Arg(f, 1))
  IN /\ At(f, "Increment")
     /\ Become(f, IF i \notin DOMAIN s THEN Stop(ctx[f], "panic", Nil)
                  ELSE IF s[i][1] # "num" THEN RuntimeError(ctx[f])
                  ELSE [Here(f) EXCEPT !.stack[i][2] = @ + 1])
     /\ Control

Truthy(v) == v # Nil /\ v # <<"flag", FALSE>>

Jump(f) ==
  /\ \/ /\ At(f, "Jump") \/ At(f, "Loop")
        /\ Become(f, SetIp(ctx[f], Arg(f, 1)))
     \/ /\ At(f, "JumpIfFalse")
        /\ Become(f, Drop(IF Truthy(Operand(f)) THEN Here(f)
                          ELSE SetIp(ctx[f], Arg(f, 1)), 1))
  /\ Control

\* A host function whose answer the program branches on.
Coin(f) ==
  /\ At(f, "Coin")
  /\ Become(f, Push(Here(f), <<"flag", coins # <<>> /\ Head(coins)>>))
  /\ coins' = IF coins = <<>> THEN coins ELSE Tail(coins)
  /\ UNCHANGED <<cell, running, log>>

Say(f) ==
  /\ At(f, "Say")
  /\ Become(f, Push(Here(f), Nil))
  /\ log' = Append(log, Arg(f, 1))
  /\ UNCHANGED <<cell, running, coins>>

\* make_closure: a local of the frame gets a new, open upvalue, whatever others
\* point at it already; an upvalue of the frame is shared.
Closure(f) ==
  /\ At(f, "Closure")
  /\ LET c     == Here(f)
         infos == Arg(f, 2)
         Local(i) == i.isLocal
         new   == [k \in DOMAIN SelectSeq(infos, Local) |->
                     [at |-> Place(c, SelectSeq(infos, Local)[k].index), value |-> Nil]]
         own   == [k \in DOMAIN infos |->
                     IF infos[k].isLocal
                     THEN Len(c.upvalues) + Len(SelectSeq(SubSeq(infos, 1, k), Local))
                     ELSE Frame(c).upvalues[infos[k].index + 1]]
     IN Become(f, Push([c EXCEPT !.upvalues = @ \o new], <<"fn", Arg(f, 1), own, Arg(f, 3)>>))
  /\ Control

\* Call n: the callee's frame starts where the callee was, with its arguments
\* for the first locals.
Call(f) ==
  /\ At(f, "Call")
  /\ LET n == Arg(f, 1)
         s == ctx[f].stack
         callee == s[Len(s) - n]
         c == [Here(f) EXCEPT !.stack = SubSeq(s, 1, Len(s) - n - 1) \o SubSeq(s, Len(s) - n + 1, Len(s))]
     IN Become(f, IF Len(s) <= n THEN Stop(ctx[f], "panic", Nil)
                  ELSE IF callee[1] # "fn" \/ callee[4] # n THEN RuntimeError(ctx[f])
                  ELSE [c EXCEPT !.frames = Append(@, [code |-> callee[2], ip |-> 1,
                                                       base |-> Len(s) - n - 1,
                                                       upvalues |-> callee[3]])])
  /\ Control

Return(f) == At(f, "Return") /\ Become(f, Returned(Drop(Here(f), 1), Operand(f))) /\ Control

PushLoop(f) ==
  /\ At(f, "PushLoop")
  /\ Become(f, [Here(f) EXCEPT !.loops = Append(@,
        [continueAddr |-> Arg(f, 1), breakAddr |-> Arg(f, 2),
         height |-> Len(ctx[f].stack), frame |-> Depth(ctx[f])])])
  /\ Control

PopLoop(f) ==
  /\ At(f, "PopLoop")
  /\ Become(f, [Here(f) EXCEPT !.loops = Cut(@, Len(@) - 1)])
  /\ Control

Break(f) ==
  /\ At(f, "Break")
  /\ Become(f, LoopSignal(Drop(Here(f), 1), "breakAddr", <<Operand(f)>>))
  /\ Control

Continue(f) ==
  At(f, "Continue") /\ Become(f, LoopSignal(Here(f), "continueAddr", <<>>)) /\ Control

PushTry(f) ==
  /\ At(f, "PushTry")
  /\ Become(f, [Here(f) EXCEPT !.excs = Append(@,
        [rescue |-> Arg(f, 1), height |-> Len(ctx[f].stack), frame |-> Depth(ctx[f])])])
  /\ Control

PopTry(f) ==
  /\ At(f, "PopTry")
  /\ Become(f, [Here(f) EXCEPT !.excs = Cut(@, Len(@) - 1)])
  /\ Control

Raise(f) == At(f, "Raise") /\ Become(f, Raised(Drop(Here(f), 1), Operand(f))) /\ Control

\* Constant 0 stands for "any type", whatever constant it is.
RescueMatch(f) ==
  /\ At(f, "RescueMatch")
  /\ Become(f, Push(Here(f), <<"flag", \/ Arg(f, 1) = 0
                                       \/ /\ Operand(f)[1] = "variant"
                                          /\ Operand(f)[2] = Arg(f, 2)>>))
  /\ Control

ClearPending(f) ==
  At(f, "ClearPending") /\ Become(f, [Here(f) EXCEPT !.pending = None]) /\ Control

EnsureExit(f) ==
  /\ At(f, "EnsureExit")
  /\ Become(f, IF ctx[f].pending = None THEN Here(f)
               ELSE Raised([Here(f) EXCEPT !.pending = None], ctx[f].pending))
  /\ Control

\* A handler already on top for this byte offset means: this is a retry.
\* Arg 1 is the place of the instruction, Arg 2 its offset in its chunk.
PushTransact(f) ==
  LET c == Here(f)
      again == c.handlers # <<>> /\ Last(c.handlers).offset = Arg(f, 2)
      handler == [retryAddr |-> Arg(f, 1), offset |-> Arg(f, 2),
                  height |-> Len(c.stack), frame |-> Depth(c), retries |-> 0]
  IN /\ At(f, "PushTransact")
     /\ Become(f, [c EXCEPT !.handlers = IF again THEN @ ELSE Append(@, handler),
                            !.txns = Append(@, EmptyTxn)])
     /\ Control

\* TransactCommit, with the context and the handler it expects on top.
Committing(f) == At(f, "TransactCommit") /\ ctx[f].txns # <<>> /\ ctx[f].handlers # <<>>

CommitPanic(f) ==
  /\ At(f, "TransactCommit")
  /\ ctx[f].txns = <<>> \/ ctx[f].handlers = <<>>
  /\ Become(f, Stop(ctx[f], "panic", Nil))
  /\ Control

\* Mutants of Closed: the handler, or the context, of the block stays.
ClosedWithHandler(f) == [Here(f) EXCEPT !.txns = Front(@)]
ClosedWithContext(f) == [Here(f) EXCEPT !.handlers = Front(@)]

Closed(f) == [Here(f) EXCEPT !.txns = Front(@), !.handlers = Front(@)]

CommitNested(f) ==
  LET t == ctx[f].txns
  IN /\ Committing(f) /\ Len(t) > 1
     /\ Become(f, [Closed(f) EXCEPT !.txns[Len(t) - 1] = MergedTxn(@, Last(t))])
     /\ Control

CommitApply(f) ==
  LET t == Last(ctx[f].txns)
  IN /\ Committing(f) /\ Len(ctx[f].txns) = 1 /\ ~Conflict(t)
     /\ cell' = [r \in Cells |-> IF t.writes[r] = None THEN cell[r]
                                 ELSE Changed(cell[r], t.writes[r])]
     /\ Become(f, Closed(f))
     /\ UNCHANGED <<running, coins, log>>

\* The conflict path pushes a fresh context and jumps to the PushTransact,
\* which pushes another one.
CommitConflict(f) ==
  LET c == ctx[f]
      h == Last(c.handlers)
  IN /\ Committing(f) /\ Len(c.txns) = 1 /\ Conflict(Last(c.txns))
     /\ Become(f, IF h.retries + 1 > MaxTxnRetries
                  THEN RuntimeError(Closed(f))
                  ELSE SetIp(Drop([c EXCEPT !.handlers[Len(c.handlers)].retries = @ + 1,
                                            !.txns = <<EmptyTxn>>], 1), h.retryAddr))
     /\ Control

Retry(f) == At(f, "Retry") /\ Become(f, Retried(Here(f))) /\ Control

LoadGlobal(f) ==
  LET r == Arg(f, 1)
  IN /\ At(f, "LoadGlobal")
     /\ Become(f, Push(Recorded(Here(f), r), ReadShared(ctx[f], r)))
     /\ Control

\* A builtin gets a cell by reference and dereferences it itself.
CallBuiltin(f) ==
  At(f, "CallBuiltin") /\ Become(f, Push(Here(f), cell[Arg(f, 1)].value)) /\ Control

\* write_shared: into the innermost context, or straight into the cell.
AssignGlobal(f) ==
  LET r == Arg(f, 1)
      c == Drop(Here(f), 1)
  IN /\ At(f, "AssignGlobal")
     /\ IF c.txns # <<>>
        THEN /\ Become(f, [c EXCEPT !.txns[Len(c.txns)].writes[r] = Operand(f)])
             /\ UNCHANGED cell
        ELSE /\ Become(f, c)
             /\ cell' = [cell EXCEPT ![r] = Changed(@, Operand(f))]
     /\ UNCHANGED <<running, coins, log>>

\* Reply ends the handler; what it had open is rolled back or dropped with
\* its VmCtx.
Reply(f) ==
  /\ At(f, "Reply")
  /\ LET closed == CloseUpvaluesAbove(Drop(Here(f), 1), 0)
     IN Become(f, IF closed.status = "panic" THEN closed ELSE Stop(closed, "ok", Operand(f)))
  /\ Control

\* Mutant of Await: the flow is resumed at the await, not after it.
AwaitAgain(f) ==
  /\ At(f, "Await")
  /\ running' \in {g \in Flows : ctx[g].status = "run"}
  /\ UNCHANGED <<cell, ctx, coins, log>>

\* `await` of a pending task: any flow that has not ended may go on.
Await(f) ==
  /\ At(f, "Await")
  /\ Become(f, Push(Here(f), Nil))
  /\ running' \in {g \in Flows : ctx[g].status = "run"}
  /\ UNCHANGED <<cell, coins, log>>

\* A flow has ended and the scheduler resumes another one.
Resume(f) ==
  /\ running = f /\ ctx[f].status # "run"
  /\ running' \in {g \in Flows : ctx[g].status = "run"}
  /\ UNCHANGED <<cell, ctx, coins, log>>

Next == \E f \in Flows :
  \/ Underflow(f) \/ Const(f) \/ Swap(f) \/ Pop(f) \/ PopN(f) \/ PopLocalKeep(f)
  \/ LoadLocal(f) \/ StoreLocal(f) \/ AssignLocal(f)
  \/ LoadUpvalue(f) \/ AssignUpvalue(f) \/ Match(f) \/ NewVec(f) \/ ConstructVariant(f) \/ Add(f) \/ Less(f) \/ Increment(f)
  \/ Jump(f) \/ Coin(f) \/ Say(f) \/ Closure(f) \/ Call(f) \/ Return(f)
  \/ PushLoop(f) \/ PopLoop(f) \/ Break(f) \/ Continue(f)
  \/ PushTry(f) \/ PopTry(f) \/ Raise(f) \/ RescueMatch(f) \/ ClearPending(f) \/ EnsureExit(f)
  \/ PushTransact(f) \/ CommitPanic(f) \/ CommitNested(f) \/ CommitApply(f) \/ CommitConflict(f)
  \/ Retry(f) \/ LoadGlobal(f) \/ CallBuiltin(f) \/ AssignGlobal(f)
  \/ Reply(f) \/ Await(f) \/ Resume(f)

\* The exception handlers of f nest as its frames do, innermost last, and none
\* outlives its frame.
TryHandlersNest(f) ==
  LET excs == ctx[f].excs
  IN \A i \in DOMAIN excs : excs[i].frame <= Depth(ctx[f])
                            /\ \A j \in 1..(i - 1) : excs[j].frame <= excs[i].frame
=============================================================================
