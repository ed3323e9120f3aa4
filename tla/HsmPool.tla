------------------------------- MODULE HsmPool -------------------------------
(***************************************************************************)
(* internal/hsm/pkcs11.go: the pool of PKCS#11 sessions, a buffered Go     *)
(* channel, as the HSM operations of concurrent requests use it, and its   *)
(* Close during the shutdown of cmd/server/main.go.                        *)
(*                                                                         *)
(* Every operation (GenerateECKey, Sign, ECDH, ListKeys) is acquire, some  *)
(* PKCS#11 calls, and the deferred release.  The calls themselves take no  *)
(* context: they return when the HSM answers.  A request runs at most one  *)
(* operation, so a caller is a request as well as its operation.           *)
(***************************************************************************)
EXTENDS Naturals, FiniteSets

CONSTANTS Handles,    \* the PKCS#11 sessions opened by NewPKCS11Backend
          NoHandle,   \* the zero handle
          Callers,    \* the requests that may run at the same time
          Probes      \* the callers that are /readyz, with context.Background()

ASSUME PoolAssumption == /\ Handles # {} /\ IsFiniteSet(Handles)
                         /\ NoHandle \notin Handles
                         /\ Probes \subseteq Callers

VARIABLES pool,       \* the handles in the channel
          closed,     \* the channel is closed
          opened,     \* the sessions open at the token
          state, held, expired,   \* of each caller: where it is, the handle it
                                  \* has, whether its context is done
          server,     \* the main goroutine
          forced      \* the 30 s of srv.Shutdown ran out

poolVars == <<pool, closed, opened, state, held, expired, server, forced>>

States == {"idle", "acquire", "call", "release", "panicked"}

Phases == {"running", "draining", "returned", "closing", "finalized"}

\* Every variable holds a value of its type; a handle is held only from acquire
\* to release.
PoolTypeOK == /\ pool \in SUBSET Handles
              /\ closed \in BOOLEAN
              /\ opened \in SUBSET Handles
              /\ state \in [Callers -> States]
              /\ held \in [Callers -> Handles \cup {NoHandle}]
              /\ expired \in [Callers -> BOOLEAN]
              /\ server \in Phases
              /\ forced \in BOOLEAN
              /\ \A c \in Callers : held[c] # NoHandle => state[c] \in {"call", "release"}

\* NewPKCS11Backend: all sessions are opened, or the server does not start.
PoolInit == /\ pool = Handles
            /\ closed = FALSE
            /\ opened = Handles
            /\ state = [c \in Callers |-> "idle"]
            /\ held = [c \in Callers |-> NoHandle]
            /\ expired = [c \in Callers |-> FALSE]
            /\ server = "running"
            /\ forced = FALSE

-----------------------------------------------------------------------------
(***************************************************************************)
(* One HSM operation of a request.                                         *)
(***************************************************************************)

\* After Shutdown was called the server takes no new request.
Arrive(c) == /\ server = "running"
             /\ state[c] = "idle"
             /\ state' = [state EXCEPT ![c] = "acquire"]
             /\ expired' = [expired EXCEPT ![c] = FALSE]
             /\ UNCHANGED <<pool, closed, opened, held, server, forced>>

\* hsmTimeout of r2psHandler; readyzHandler has no deadline.
ContextDone(c) == /\ c \notin Probes
                  /\ state[c] # "idle"
                  /\ ~expired[c]
                  /\ expired' = [expired EXCEPT ![c] = TRUE]
                  /\ UNCHANGED <<pool, closed, opened, state, held, server, forced>>

AcquireCopy(c) == /\ state[c] = "acquire"
                  /\ \E h \in pool : held' = [held EXCEPT ![c] = h]
                  /\ state' = [state EXCEPT ![c] = "call"]
                  /\ UNCHANGED <<pool, closed, opened, expired, server, forced>>

AcquireYields(c) == /\ state[c] = "acquire"
                    /\ c \in Probes => pool = Handles
                    /\ \E h \in pool : /\ held' = [held EXCEPT ![c] = h]
                                       /\ pool' = pool \ {h}
                    /\ state' = [state EXCEPT ![c] = "call"]
                    /\ UNCHANGED <<closed, opened, expired, server, forced>>

\* A closed channel still hands out what is buffered.
Acquire(c) == /\ state[c] = "acquire"
              /\ \E h \in pool : /\ held' = [held EXCEPT ![c] = h]
                                 /\ pool' = pool \ {h}
              /\ state' = [state EXCEPT ![c] = "call"]
              /\ UNCHANGED <<closed, opened, expired, server, forced>>

\* A closed and empty channel yields the zero handle, without an error.
AcquireZero(c) == /\ state[c] = "acquire"
                  /\ closed /\ pool = {}
                  /\ state' = [state EXCEPT ![c] = "call"]
                  /\ UNCHANGED <<pool, closed, opened, held, expired, server, forced>>

AcquireChecksLate(c) == /\ state[c] = "acquire"
                        /\ expired[c]
                        /\ pool # {}
                        /\ state' = [state EXCEPT ![c] = "idle"]
                        /\ UNCHANGED <<pool, closed, opened, held, expired, server, forced>>

AcquireTimesOut(c) == /\ state[c] = "acquire"
                      /\ expired[c]
                      /\ state' = [state EXCEPT ![c] = "idle"]
                      /\ UNCHANGED <<pool, closed, opened, held, expired, server, forced>>

\* The PKCS#11 calls return, with a result or an error; both lead to the
\* deferred release.
CallReturns(c) == /\ state[c] = "call"
                  /\ state' = [state EXCEPT ![c] = "release"]
                  /\ UNCHANGED <<pool, closed, opened, held, expired, server, forced>>

ReleaseUnlessDone(c) ==
    /\ state[c] = "release"
    /\ pool' = IF expired[c] THEN pool ELSE pool \cup {held[c]}
    /\ held' = [held EXCEPT ![c] = NoHandle]
    /\ state' = [state EXCEPT ![c] = "idle"]
    /\ UNCHANGED <<closed, opened, expired, server, forced>>

ReleaseKeepsHandle(c) ==
    /\ state[c] = "release"
    /\ pool' = IF closed THEN pool ELSE pool \cup {held[c]}
    /\ state' = [state EXCEPT ![c] = IF closed THEN "panicked" ELSE "idle"]
    /\ UNCHANGED <<closed, opened, held, expired, server, forced>>

\* A send to the closed channel panics and the handle is lost.
Release(c) == /\ state[c] = "release"
              /\ pool' = IF closed THEN pool ELSE pool \cup {held[c]}
              /\ held' = [held EXCEPT ![c] = NoHandle]
              /\ state' = [state EXCEPT ![c] = IF closed THEN "panicked" ELSE "idle"]
              /\ UNCHANGED <<closed, opened, expired, server, forced>>

-----------------------------------------------------------------------------
(***************************************************************************)
(* Shutdown: srv.Shutdown, then the deferred Close.                        *)
(***************************************************************************)
callerVars == <<state, held, expired>>

Shutdown == /\ server = "running"
            /\ server' = "draining"
            /\ UNCHANGED <<pool, closed, opened, callerVars, forced>>

\* Shutdown returns when all requests are answered.
Drained == /\ server = "draining"
           /\ \A c \in Callers : state[c] = "idle"
           /\ server' = "returned"
           /\ UNCHANGED <<pool, closed, opened, callerVars, forced>>

ShutdownWaitsForAll == /\ FALSE
                       /\ UNCHANGED poolVars

\* Or when its 30 seconds are over, which may be with requests still at work.
DrainTimesOut == /\ server = "draining"
                 /\ server' = "returned"
                 /\ forced' = TRUE
                 /\ UNCHANGED <<pool, closed, opened, callerVars>>

\* main returns; the deferred Close first closes the channel.
CloseChannel == /\ server = "returned"
                /\ server' = "closing"
                /\ closed' = TRUE
                /\ UNCHANGED <<pool, opened, callerVars, forced>>

DrainOnly(h) == /\ server = "closing"
                /\ h \in pool
                /\ pool' = pool \ {h}
                /\ UNCHANGED <<closed, opened, callerVars, server, forced>>

CloseSession(h) == /\ server = "closing"
                   /\ h \in pool
                   /\ pool' = pool \ {h}
                   /\ opened' = opened \ {h}
                   /\ UNCHANGED <<closed, callerVars, server, forced>>

\* Logout and Finalize once the channel is empty.  The process then exits.
Finalize == /\ server = "closing"
            /\ pool = {}
            /\ server' = "finalized"
            /\ UNCHANGED <<pool, closed, opened, callerVars, forced>>

CallerStep(c) == \/ Acquire(c) \/ AcquireZero(c) \/ AcquireTimesOut(c) \/ Release(c)

PoolNext == \/ \E c \in Callers : \/ Arrive(c) \/ ContextDone(c)
                                  \/ CallerStep(c) \/ CallReturns(c)
            \/ Shutdown \/ Drained \/ DrainTimesOut \/ CloseChannel
            \/ \E h \in Handles : CloseSession(h)
            \/ Finalize

PoolSpec == PoolInit /\ [][PoolNext]_poolVars

(***************************************************************************)
(* Timers fire, and a goroutine that can go on does.  The runtime queues   *)
(* the receivers of a channel in order of arrival, so one that waits gets  *)
(* a handle if handles keep coming back: strong fairness of Acquire.       *)
(***************************************************************************)
TimersAndScheduler ==
    \A c \in Callers : /\ WF_poolVars(ContextDone(c))
                       /\ SF_poolVars(Acquire(c))
                       /\ WF_poolVars(AcquireZero(c))
                       /\ WF_poolVars(AcquireTimesOut(c))
                       /\ WF_poolVars(Release(c))

\* The HSM may be slow or unresponsive: a call need not return.
FairPoolSpec == PoolSpec /\ TimersAndScheduler

\* The HSM answers every call.
Responsive == \A c \in Callers : WF_poolVars(CallReturns(c))

-----------------------------------------------------------------------------
(***************************************************************************)
(* Every PKCS#11 session is in one place: in the channel, or in the hands  *)
(* of one request.  PKCS#11 serialises the calls of a session only as long *)
(* as two requests never share one.                                        *)
(***************************************************************************)
NeverShared ==
    \A c \in Callers : held[c] # NoHandle =>
        /\ held[c] \notin pool
        /\ \A d \in Callers \ {c} : held[d] # held[c]

(***************************************************************************)
(* Until shutdown no session is lost, whatever calls fail and whatever     *)
(* contexts expire on the way: the pool never shrinks, and so the send of  *)
(* release never blocks either.                                            *)
(***************************************************************************)
NeverLost ==
    ~closed => pool \cup ({held[c] : c \in Callers} \ {NoHandle}) = Handles

(***************************************************************************)
(* When Shutdown returned because all requests were answered, Close meets  *)
(* nobody: no request gets the zero handle, panics in release, or is       *)
(* still at work when the library is finalized, and no session stays open. *)
(***************************************************************************)
GracefulShutdown ==
    /\ closed /\ ~forced => \A c \in Callers : state[c] = "idle"
    /\ server = "finalized" /\ ~forced => opened = {}

(***************************************************************************)
(* As long as the HSM answers its calls no request waits for a session for *)
(* good in acquire, the probe without a deadline included.                 *)
(***************************************************************************)
AcquireEnds ==
    Responsive => \A c \in Callers : state[c] = "acquire" ~> state[c] # "acquire"

\* A request with a deadline does not wait for good even when the HSM hangs.
DeadlineEndsWait ==
    \A c \in Callers \ Probes : state[c] = "acquire" ~> state[c] # "acquire"

(***************************************************************************)
(* What the documentation says and the code does not do.                   *)
(***************************************************************************)

\* The readiness probe does not block for good when the HSM hangs.
ProbeEndsWait == \A c \in Probes : state[c] = "acquire" ~> state[c] # "acquire"
=============================================================================
