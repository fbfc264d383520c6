---------------------------- MODULE MCRaceStore -----------------------------
(* RaceStore on small instances. *)
EXTENDS RaceStore

MCSymmetry == Permutations(Value)
=============================================================================
