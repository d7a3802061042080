------------------------------ MODULE Promises ------------------------------
(* What a pool of workers promises its callers (runtime/worker.rs,         *)
(* stdlib/parallel.rs): reply channels are opened one after the other, and *)
(* what a channel is once answered with is its answer for good.            *)
EXTENDS Naturals

CONSTANTS
  Count,            \* how many reply channels a run may open
  Unopened,         \* a channel nobody has asked for
  Pending,          \* a channel without its answer
  IsAnswer(_)       \* what a channel may be answered with

VARIABLE promise    \* the channels

PInit == promise = [i \in 1..Count |-> Unopened]

Open(i) ==
  /\ promise[i] = Unopened
  /\ \A j \in 1..i - 1 : promise[j] # Unopened
  /\ promise' = [promise EXCEPT ![i] = Pending]

\* A worker answers one channel; the end of the last one answers them all.
Answered ==
  /\ DOMAIN promise' = 1..Count
  /\ \A i \in 1..Count :
       promise'[i] # promise[i] => promise[i] = Pending /\ IsAnswer(promise'[i])

PNext == (\E i \in 1..Count : Open(i)) \/ Answered

PSpec == PInit /\ [][PNext]_promise
=============================================================================
