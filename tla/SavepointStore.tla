--------------------------- MODULE SavepointStore ---------------------------
(***************************************************************************)
(* What nested `transact` blocks promise, with no write set, read set or   *)
(* version in sight: a store of named cells and a stack of savepoints.     *)
(* views[1] is the committed store; every open block adds a private copy   *)
(* of the view below it.  Reads and writes act on the top view, a commit   *)
(* replaces the view below by the top one, a rollback forgets the top one, *)
(* and a restart resets the top view to the view below.                    *)
(***************************************************************************)
EXTENDS Naturals, Sequences

CONSTANTS Refs,      \* the shared cells
          Vals,      \* the values a cell may hold
          None,      \* "no value was read by the last step"
          InitVal    \* the value every cell starts with

VARIABLES views,     \* Seq([Refs -> Vals]), never empty
          ret        \* the value returned by the last read

vars == <<views, ret>>

Init == /\ views = << [r \in Refs |-> InitVal] >>
        /\ ret = None

Depth == Len(views)
Below == [i \in 1..(Depth - 1) |-> views[i]]

Open == /\ views' = Append(views, views[Depth])
        /\ ret' = None

Get(r) == /\ ret' = views[Depth][r]
          /\ UNCHANGED views

Put(r, v) == /\ views' = [views EXCEPT ![Depth][r] = v]
             /\ ret' = None

Commit == /\ Depth > 1
          /\ views' = [Below EXCEPT ![Depth - 1] = views[Depth]]
          /\ ret' = None

Rollback == /\ Depth > 1
            /\ views' = Below
            /\ ret' = None

Restart == /\ Depth > 1
           /\ views' = [views EXCEPT ![Depth] = views[Depth - 1]]
           /\ ret' = None

Forget == ret' = None /\ UNCHANGED views

Next == \/ Open \/ Commit \/ Rollback \/ Restart \/ Forget
        \/ \E r \in Refs : Get(r)
        \/ \E r \in Refs, v \in Vals : Put(r, v)

Spec == Init /\ [][Next]_vars
=============================================================================
