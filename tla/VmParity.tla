------------------------------ MODULE VmParity ------------------------------
(***************************************************************************)
(* The bytecode VM beside the tree-walker: one script, compiled and run by *)
(* VmCore instruction by instruction, against what TreeWalker makes of it. *)
(***************************************************************************)
EXTENDS VmCore

CONSTANT Programs       \* the bodies of `fn main() { ... }; main()`

VARIABLES prog,         \* the program that runs
          tossed        \* the answers `coin()` gives it

Byte   == INSTANCE Bytecode
Walker == INSTANCE TreeWalker WITH MaxRetries <- MaxTxnRetries

pvars == <<vars, prog, tossed>>

Called(p) == <<"call", p>>

\* Whether a chunk asks `coin()`: one that does not runs once.
RECURSIVE Asks(_)
Asks(code) == \E i \in DOMAIN code : \/ code[i][1] = "Coin"
                                     \/ code[i][1] = "Closure" /\ Asks(code[i][2])

PInit == /\ prog \in Programs
         /\ InitWith([f \in Flows |-> Byte!Script(Called(prog))])
         /\ coins # <<>> => Asks(ctx[Main].frames[1].code)
         /\ tossed = coins

PNext == Next /\ UNCHANGED <<prog, tossed>>

PSpec == PInit /\ [][PNext]_pvars /\ WF_pvars(PNext)

Ended == ctx[Main].status # "run"

\* A value as both backends have it: closures are not told apart.
RECURSIVE Shown(_)
Shown(v) == CASE v[1] = "fn" -> <<"fn">>
              [] v[1] \in {"pair", "variant"} ->
                   [i \in DOMAIN v |-> IF i = 1 \/ (i = 2 /\ v[1] = "variant") THEN v[i] ELSE Shown(v[i])]
              [] OTHER -> v

Shows(status, result, value, words) ==
  [status |-> status, result |-> Shown(result), value |-> value, log |-> words]

\* What the tree-walker makes of the program.
Walked(o) == Shows(IF o.sig \in {"ok", "reply"} THEN "ok" ELSE IF o.sig = "raise" THEN "raise" ELSE "error",
                   IF o.sig \in {"ok", "reply", "raise"} THEN o.val ELSE Walker!Nil, o.st.value, o.st.log)
Expected == Walked(Walker!Eval(Called(prog), <<>>, Walker!Ok(Nil,
  [value |-> [r \in Cells |-> InitVal], txns |-> <<>>, vars |-> <<>>, log |-> <<>>, coins |-> tossed])))

Actual == Shows(ctx[Main].status, ctx[Main].result, [r \in Cells |-> cell[r].value], log)

\* "Feature parity with the tree-walker" (docs/architecture.md): a program
\* prints the same words, leaves the same values in the shared cells and ends
\* the same way, with the same value or exception, in both backends.
Parity == Ended => Actual = Expected

\* Whatever way main left its loops, `try` and `transact` blocks, none of
\* their handlers, and no transaction context, is left behind in the VmCtx.
CleanEnd ==
  Ended /\ ctx[Main].status = "ok" =>
    /\ ctx[Main].loops = <<>> /\ ctx[Main].excs = <<>>
    /\ ctx[Main].handlers = <<>> /\ ctx[Main].txns = <<>>

GoesBack(c) == Depth(c) > 0 /\ Instr(c)[1] = "PushTransact"
HandlersHaveContexts ==
  LET c == ctx[Main]
  IN Len(c.handlers) <= Len(c.txns) + (IF GoesBack(c) THEN 1 ELSE 0)

\* Every transact handler has a context of its own in txn_stack, on every way
\* out of a block, but between a retry and the PushTransact it goes back to:
\* what a handler that goes drops is never the context of another one. And the
\* exception handlers nest as the frames do, innermost last, none outliving
\* its frame: handle_signal may look for the one of the top frame from the end
\* and cut off all that follow it.
HandlersNest == HandlersHaveContexts /\ TryHandlersNest(Main)

\* The program ends: no jump, break, continue or retry goes for ever to a
\* place it comes back from, not even `retry` without a condition.
Terminates == <>Ended
=============================================================================
