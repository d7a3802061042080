---------------------------- MODULE MCTxnWalker ----------------------------
(* TLC's instance of TxnWalker. *)
EXTENDS TxnWalker, TLC

CONSTANTS f1, f2, r1, r2, v0, v1

FlowPair == {f1, f2}
RefPair  == {r1, r2}
ValPair  == {v0, v1}

\* No definition tells one cell from another.
RefSymmetry == Permutations(RefPair)
=============================================================================
