------------------------------ MODULE VmFlows -------------------------------
(***************************************************************************)
(* Several flows of the bytecode VM on one thread: the script and the      *)
(* handlers it awaits, each with a VmCtx of its own, over common shared    *)
(* cells.  Flows change places only at `await` and when one ends.          *)
(***************************************************************************)
EXTENDS VmCore

CONSTANT Codes          \* what the flows may run: functions from Flows to code

VARIABLE split          \* has a flow ever awaited something inside a transaction?

fvars == <<vars, split>>

FInit == /\ \E code \in Codes : InitWith(code)
         /\ split = FALSE

FNext == /\ Next
         /\ split' = (split \/ (At(running, "Await") /\ ctx[running].handlers # <<>>))

FSpec == FInit /\ [][FNext]_fvars /\ WF_fvars(FNext)

AllEnded == \A f \in Flows : ctx[f].status # "run"

\* stm.md, "Atomic commit": every transaction that ended has all its writes in
\* the cells.  The scripts say "bumped" after each transaction that adds one
\* to both cells, so the cells count the words said.
Bumped == Len(SelectSeq(log, LAMBDA w : w = "bumped"))
NothingLost == AllEnded => \A r \in Cells : cell[r].value = <<"num", Bumped>>

\* stm.md, "Snapshot isolation": whatever other transactions commit while this
\* one is suspended, it "sees only that consistent snapshot".  The scripts
\* keep the two cells equal and look at both in one transaction.
OneSnapshot ==
  \A f \in Flows : \A i \in DOMAIN ctx[f].stack :
    LET v == ctx[f].stack[i] IN v[1] = "pair" => v[2] = v[3]

\* So it is as long as no transaction is suspended, wherever else the flows
\* change places.
WholeAreAtomic == split \/ (NothingLost /\ OneSnapshot)

\* An attempt that read what another flow has since changed must not commit:
\* all scripts do is add one to a cell, so no step sets a cell to anything
\* but its successor, however the reads and commits of the flows interleave.
EveryChangeIsABump ==
  [][\A r \in Cells : cell'[r] # cell[r] => cell'[r].value[2] = cell[r].value[2] + 1]_vars

\* A context of f has recorded a version that is not the committed one any more.
Stale(f) == \E i \in DOMAIN ctx[f].txns : Conflict(ctx[f].txns[i])

\* f goes back, or out: it drops contexts without a commit.
GivesUp(f) ==
  /\ running = f
  /\ \/ Instr(ctx[f])[1] \in {"Retry", "Raise", "EnsureExit"}
     \/ Instr(ctx[f])[1] = "TransactCommit" /\ Len(ctx[f].txns) = 1

\* A flow that has read, in any of its open blocks, what was changed since never
\* gets its writes to the cells: it stays stale, through the commits of nested
\* blocks that read the cell again and whatever other flows do, until it gives
\* up the read.  And cells change only where a flow's last block closes, or it
\* has none open, and is not stale: never by a nested commit, never half.
StaleNeverCommits ==
  [][/\ \A f \in Flows : Stale(f) => Stale(f)' \/ GivesUp(f)
     /\ cell' # cell => /\ ~Stale(running) /\ ctx'[running].txns = <<>>
                        /\ \A r \in Cells : cell'[r] # cell[r] => cell'[r].version = cell[r].version + 1]_vars

\* Conflicts are retried a bounded number of times: every flow ends.
EveryFlowEnds == <>AllEnded
=============================================================================
