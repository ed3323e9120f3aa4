------------------------------ MODULE WallClock ------------------------------
(***************************************************************************)
(* time.Now() as the service uses it.  Every expiry is an instant that is  *)
(* compared with the clock, which only moves forward and moves between any *)
(* two steps of a request.  The clients and contexts that requests name    *)
(* are declared here too, because the session store and the attempt        *)
(* counter share them.                                                     *)
(***************************************************************************)
EXTENDS Integers

CONSTANTS MaxTime,     \* bound: the clock stops here
          Clients, Contexts

ASSUME MaxTimeAssumption == MaxTime \in Nat

VARIABLE now

ClockTypeOK == now \in Nat

ClockInit == now = 0

\* The next instant; which of them a step of a request meets is left open.
Advance == now < MaxTime /\ now' = now + 1
=============================================================================
