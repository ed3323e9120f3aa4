----------------------------- MODULE MCTwoFactor -----------------------------
(* TwoFactor for TLC: requests run at the same time before a restart and one
   at a time after it. *)
EXTENDS TwoFactor

\* Bound: after a restart requests come one after the other.
OneAtATimeAfterRestart ==
    epoch = 0 \/ Cardinality({p \in Procs : ~At(p, "idle")}) <= 1
=============================================================================
