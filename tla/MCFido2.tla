------------------------------- MODULE MCFido2 -------------------------------
(***************************************************************************)
(* Fido2 for TLC.  Each hash is followed by its SHA-256, and the last one  *)
(* stands for itself: the task names 1 by its SHA-256, 2 as it is, 3 not.  *)
(***************************************************************************)
EXTENDS Fido2, TLC

HashOf == [h \in Hashes |-> IF h + 1 \in Hashes THEN h + 1 ELSE h]

SomeTasks == {{2}}

\* Bound: two goroutines are at work only while one challenge is out; with two
\* challenges, which a request may mix, requests come one after the other, and
\* the clock stops one short of MaxTime.
OneAtATime == \/ \E ch \in Challenges : issued[ch] = None
              \/ /\ now < MaxTime
                 /\ \E p \in Procs : \A q \in Procs \ {p} : pc[q] = "idle"

Symmetry == Permutations(Procs) \cup Permutations(Challenges) \cup Permutations(SessionIds)
=============================================================================
