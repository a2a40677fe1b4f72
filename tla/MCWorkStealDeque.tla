-------------------------- MODULE MCWorkStealDeque --------------------------
(* Instances of WorkStealDeque for TLC. *)
EXTENDS WorkStealDeque, TLC

CONSTANTS s1, s2

TwoStealers == {s1, s2}
StealerSymmetry == Permutations(TwoStealers)
=============================================================================
