------------------------------ MODULE MCHsmKeys ------------------------------
(* HsmKeys for TLC: goroutines and key pairs are interchangeable. *)
EXTENDS HsmKeys, TLC

Symmetry == Permutations(Procs) \cup Permutations(Pairs)
=============================================================================
