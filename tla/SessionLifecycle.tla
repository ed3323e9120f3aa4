-------------------------- MODULE SessionLifecycle --------------------------
(***************************************************************************)
(* What a two-factor session promises, apart from how the dispatcher, the  *)
(* session store and the cleanup goroutine bring it about: a session goes  *)
(* from fresh to pending to verified to closed and never back, and only a  *)
(* session opened against a credential that somebody holds is verified.    *)
(***************************************************************************)
CONSTANT Ids

VARIABLES phase,     \* of each session
          genuine    \* the session was opened against a usable credential

lifecycleVars == <<phase, genuine>>

Phases == {"fresh", "pending", "verified", "closed"}

LifecycleInit == /\ phase = [s \in Ids |-> "fresh"]
                 /\ genuine = [s \in Ids |-> FALSE]

\* Prepare fixes what the session is opened against, while it is still fresh.
Prepare(s) == /\ phase[s] = "fresh"
              /\ ~genuine[s]
              /\ genuine' = [genuine EXCEPT ![s] = TRUE]
              /\ UNCHANGED phase

Open(s) == /\ phase[s] = "fresh"
           /\ phase' = [phase EXCEPT ![s] = "pending"]
           /\ UNCHANGED genuine

Verify(s) == /\ phase[s] = "pending"
             /\ genuine[s]
             /\ phase' = [phase EXCEPT ![s] = "verified"]
             /\ UNCHANGED genuine

\* One session is rejected, some have expired, or all are lost in a restart.
Close(S) == /\ phase' = [s \in Ids |-> IF s \in S THEN "closed" ELSE phase[s]]
            /\ UNCHANGED genuine

LifecycleNext == \/ \E s \in Ids : Prepare(s) \/ Open(s) \/ Verify(s)
                 \/ \E S \in SUBSET Ids : Close(S)

LifecycleSpec == LifecycleInit /\ [][LifecycleNext]_lifecycleVars
=============================================================================
