---------------------------- MODULE MCAttestation ----------------------------
(* Attestation for TLC: goroutines and clients are interchangeable. *)
EXTENDS Attestation, TLC

Symmetry == Permutations(Procs) \cup Permutations(Clients)
=============================================================================
