----------------------------- MODULE MCRaceLog ------------------------------
(* RaceLog on small instances. *)
EXTENDS RaceLogInv, TLC

CONSTANTS t1, t2, v1, v2

MCSymmetry == Permutations(Thread) \cup Permutations(Value)

(* A Write that has the mutex of a bucket gives it back, unless the process  *)
(* is killed, and every Open and every closing flush finishes.              *)
LogProgress == LockReleased /\ OpenReturns
=============================================================================
