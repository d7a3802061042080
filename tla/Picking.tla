------------------------------ MODULE Picking -------------------------------
(* Vec::retain, and loops with `continue`: the elements of a sequence that *)
(* stand at certain positions.                                             *)
EXTENDS Naturals, Sequences

\* The elements of s at the positions in P, in their order.
Picks(s, P) ==
  LET pick[i \in 0..Len(s)] ==
        IF i = 0 THEN <<>> ELSE IF i \in P THEN Append(pick[i - 1], s[i]) ELSE pick[i - 1]
  IN pick
Picked(s, P) == Picks(s, P)[Len(s)]
=============================================================================
