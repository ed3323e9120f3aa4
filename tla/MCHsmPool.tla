------------------------------ MODULE MCHsmPool ------------------------------
(* HsmPool for TLC: handles are interchangeable, and so are the callers that *)
(* are not probes.                                                           *)
EXTENDS HsmPool, TLC

Symmetry == Permutations(Handles) \cup Permutations(Callers \ Probes)
=============================================================================
