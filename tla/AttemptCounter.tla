---------------------------- MODULE AttemptCounter ----------------------------
(***************************************************************************)
(* internal/pake/counter.go: failed authentication attempts per client and *)
(* context, with a lockout.  Each method runs under the counter's mutex,   *)
(* so each is one step of its caller.                                      *)
(*                                                                         *)
(* The Go map has no entry for a key that has no failures, and an entry    *)
(* always has at least one failure, so a missing entry is failures = 0.    *)
(* lockedAt is meaningful only once failures has reached MaxFails.         *)
(***************************************************************************)
EXTENDS WallClock

CONSTANTS MaxFails,   \* max_attempts (5 when the configuration says 0)
          Lockout     \* lockout_duration

ASSUME CounterAssumption == /\ MaxFails \in Nat \ {0}
                            /\ Lockout \in Nat \ {0}

VARIABLE attempts

\* counterKey: every caller passes the context as the kid, so the key is the
\* client and the context.
Keys == Clients \X Contexts

AttemptRecord == [failures : Nat, lockedAt : Nat]

NoAttempts == [failures |-> 0, lockedAt |-> 0]

CounterTypeOK == attempts \in [Keys -> AttemptRecord]

CounterInit == attempts = [k \in Keys |-> NoAttempts]

\* The failures of k have reached the maximum (whether or not the lockout has
\* run out since).
Exhausted(k) == attempts[k].failures >= MaxFails

\* Check returns the "account locked" error.
Locked(k) == /\ Exhausted(k)
             /\ now < attempts[k].lockedAt + Lockout

CheckForgetsAll(k) == attempts' = IF ~Locked(k)
                                  THEN [attempts EXCEPT ![k] = NoAttempts]
                                  ELSE attempts

\* Check also forgets the failures of a lockout that has run out.
Check(k) == attempts' = IF Exhausted(k) /\ ~Locked(k)
                        THEN [attempts EXCEPT ![k] = NoAttempts]
                        ELSE attempts

RecordFailureCountsDown(k) ==
    attempts' = [attempts EXCEPT ![k].failures = @ - 1]

\* A failure at or beyond the maximum starts the lockout again from now.
RecordFailure(k) ==
    LET n == attempts[k].failures + 1
    IN  attempts' = [attempts EXCEPT ![k] =
                        [failures |-> n,
                         lockedAt |-> IF n >= MaxFails THEN now ELSE @.lockedAt]]

\* Success forgets the entry, locked or not.
RecordSuccess(k) == attempts' = [attempts EXCEPT ![k] = NoAttempts]
=============================================================================
