------------------------------- MODULE MCEvidence -----------------------------
(* Evidence with two actors, which can be exchanged. *)
EXTENDS Evidence, TLC

MCSymmetry == Permutations(Actors)
===============================================================================
