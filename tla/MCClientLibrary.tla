--------------------------- MODULE MCClientLibrary ---------------------------
(* ClientLibrary for TLC: the objects are of one account, and they, the
   goroutines and the session ids are interchangeable. *)
EXTENDS ClientLibrary, TLC

CONSTANTS alice, signing

OneAccount == [a \in Apps |-> <<alice, signing>>]

Symmetry == Permutations(Apps) \cup Permutations(Procs) \cup Permutations(SessionIds)
=============================================================================
