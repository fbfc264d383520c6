---------------------------- MODULE BarrierSpec -----------------------------
(***************************************************************************)
(* What a reusable barrier promises: threads go through rounds, and nobody   *)
(* leaves round r before everybody has entered it.                          *)
(***************************************************************************)
EXTENDS Naturals

CONSTANT Thread

VARIABLES
  round,   \* Waits each thread has returned from
  inside   \* whether it is inside Wait

bvars == << round, inside >>

BInit ==
  /\ round = [t \in Thread |-> 0]
  /\ inside = [t \in Thread |-> FALSE]

Enter(t) ==
  /\ ~ inside[t]
  /\ inside' = [inside EXCEPT ![t] = TRUE]
  /\ UNCHANGED round

Leave(t) ==
  /\ inside[t]
  /\ \A u \in Thread : round[u] > round[t] \/ (round[u] = round[t] /\ inside[u])
  /\ inside' = [inside EXCEPT ![t] = FALSE]
  /\ round' = [round EXCEPT ![t] = @ + 1]

BNext == \E t \in Thread : Enter(t) \/ Leave(t)

BSpec == BInit /\ [][BNext]_bvars
=============================================================================
