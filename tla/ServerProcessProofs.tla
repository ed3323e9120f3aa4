------------------------- MODULE ServerProcessProofs -------------------------
(***************************************************************************)
(* The PKCS#11 session pool is safe for every pool size and every number   *)
(* of concurrent requests and probes, alone and as a part of the server    *)
(* process.                                                                *)
(*                                                                         *)
(* The pool: NeverShared and NeverLost say where each handle is, and need  *)
(* each other: a release returns a handle that nobody else has             *)
(* (NeverShared) to a pool that is whole without it (NeverLost).  Both     *)
(* need HasHandle, that the zero handle is met only once the channel is    *)
(* closed.  For the shutdown, Accounted extends NeverLost beyond the       *)
(* closing of the channel as long as the shutdown is not forced.           *)
(*                                                                         *)
(* The process: each of its steps is a step of HsmPool or leaves the pool  *)
(* alone, so it keeps what the pool promises.  The store is safe along the *)
(* same lines: Quiet extends the drained pool to the work with the store,  *)
(* from the return of Shutdown on.                                         *)
(***************************************************************************)
EXTENDS ServerProcess, TLAPS

InUse(h) == \E c \in Callers : held[c] = h

\* Between acquire and release a caller has a handle, while the channel is open.
HasHandle == \A c \in Callers : ~closed /\ state[c] \in {"call", "release"} =>
                                   held[c] \in Handles

\* The channel is closed exactly from Close on.
ClosedByClose == closed <=> server \in {"closing", "finalized"}

\* The sessions open at the token are those in the pool or in use.
Accounted == /\ ~(forced /\ closed) => \A h \in Handles : h \in opened <=> h \in pool \/ InUse(h)
             /\ ~closed => opened = Handles

\* Nobody arrives once Shutdown returned, and then only those it gave up on
\* are at work.
IdleAfterGrace == server \in {"returned", "closing", "finalized"} /\ ~forced =>
                     \A c \in Callers : state[c] = "idle"

PoolInv == /\ PoolTypeOK
           /\ NeverShared
           /\ HasHandle
           /\ ClosedByClose
           /\ Accounted
           /\ IdleAfterGrace

-----------------------------------------------------------------------------
\* The pool as NewPKCS11Backend fills it satisfies the invariant.
LEMMA PoolInitial == PoolInit => PoolInv
BY PoolAssumption DEF PoolInit, PoolInv, PoolTypeOK, NeverShared, HasHandle, ClosedByClose,
    Accounted, IdleAfterGrace, InUse, States, Phases

\* Steps that move no handle and close nothing.
LEMMA QuietSteps ==
    ASSUME PoolInv,
           \/ \E c \in Callers : \/ Arrive(c) \/ ContextDone(c) \/ AcquireTimesOut(c)
                                 \/ AcquireZero(c) \/ CallReturns(c)
           \/ Shutdown
           \/ UNCHANGED poolVars
    PROVE  PoolInv'
<1> USE PoolAssumption DEF PoolInv, PoolTypeOK, States, Phases
<1>1. PoolTypeOK'
    BY DEF Arrive, ContextDone, AcquireTimesOut, AcquireZero, CallReturns, Shutdown,
        callerVars, poolVars, HasHandle
<1>2. /\ UNCHANGED <<pool, closed, opened, held, forced>>
      /\ server' = server \/ (server = "running" /\ server' = "draining")
    BY DEF Arrive, ContextDone, AcquireTimesOut, AcquireZero, CallReturns, Shutdown,
        callerVars, poolVars
<1>3. NeverShared' /\ Accounted'
    BY <1>2 DEF NeverShared, Accounted, InUse
<1>4. ClosedByClose'
    BY <1>2 DEF ClosedByClose
<1>5. HasHandle'
    BY DEF HasHandle, Arrive, ContextDone, AcquireTimesOut, AcquireZero, CallReturns,
        Shutdown, callerVars, poolVars
<1>6. IdleAfterGrace'
    BY DEF IdleAfterGrace, ClosedByClose, Arrive, ContextDone, AcquireTimesOut,
        AcquireZero, CallReturns, Shutdown, callerVars, poolVars
<1> QED
    BY <1>1, <1>3, <1>4, <1>5, <1>6

\* acquire takes a handle out of the channel and gives it to one caller.
LEMMA AcquireStep ==
    ASSUME PoolInv, NEW c \in Callers, Acquire(c)
    PROVE  PoolInv'
<1> USE PoolAssumption DEF PoolInv, PoolTypeOK, States, Phases
<1> PICK h \in pool : held' = [held EXCEPT ![c] = h] /\ pool' = pool \ {h}
    BY DEF Acquire
<1>1. held[c] = NoHandle
    BY DEF Acquire
<1>2. PoolTypeOK'
    BY DEF Acquire
<1>3. NeverShared'
    BY DEF NeverShared, Acquire
<1>4. \A g \in Handles : g \in pool' \/ InUse(g)' <=> g \in pool \/ InUse(g)
    BY <1>1 DEF InUse
<1>5. Accounted'
    BY <1>4 DEF Accounted, Acquire
<1>6. HasHandle' /\ ClosedByClose' /\ IdleAfterGrace'
    BY DEF HasHandle, ClosedByClose, IdleAfterGrace, Acquire
<1> QED
    BY <1>2, <1>3, <1>5, <1>6

\* release gives it back; after a forced Close it panics instead.
LEMMA ReleaseStep ==
    ASSUME PoolInv, NEW c \in Callers, Release(c)
    PROVE  PoolInv'
<1> USE PoolAssumption DEF PoolInv, PoolTypeOK, States, Phases
<1>1. PoolTypeOK'
    BY DEF Release, HasHandle
<1>2. NeverShared'
    BY DEF NeverShared, Release
<1>3. ~forced => ~closed
    BY DEF IdleAfterGrace, ClosedByClose, Release
<1>4. ASSUME ~closed
      PROVE  \A g \in Handles : g \in pool' \/ InUse(g)' <=> g \in pool \/ InUse(g)
    <2>1. held[c] \in Handles /\ pool' = pool \cup {held[c]}
                              /\ held' = [held EXCEPT ![c] = NoHandle]
        BY <1>4 DEF Release, HasHandle
    <2> QED
        BY <2>1 DEF InUse
<1>5. Accounted'
    BY <1>3, <1>4 DEF Accounted, Release
<1>6. HasHandle' /\ ClosedByClose' /\ IdleAfterGrace'
    BY DEF HasHandle, ClosedByClose, IdleAfterGrace, Release
<1> QED
    BY <1>1, <1>2, <1>5, <1>6

\* The steps of Close.
LEMMA CloseSteps ==
    ASSUME PoolInv,
           \/ Drained \/ DrainTimesOut \/ CloseChannel \/ Finalize
           \/ \E h \in Handles : CloseSession(h)
    PROVE  PoolInv'
<1> USE PoolAssumption DEF PoolInv, PoolTypeOK, States, Phases, callerVars
<1>1. PoolTypeOK'
    BY DEF Drained, DrainTimesOut, CloseChannel,
        CloseSession, Finalize
<1>2. NeverShared'
    BY DEF NeverShared, Drained, DrainTimesOut, CloseChannel,
        CloseSession, Finalize
<1>3. HasHandle' /\ ClosedByClose'
    BY DEF HasHandle, ClosedByClose, Drained, DrainTimesOut, CloseChannel,
        CloseSession, Finalize
<1>4. IdleAfterGrace'
    BY DEF IdleAfterGrace, ClosedByClose, Drained, DrainTimesOut, CloseChannel,
        CloseSession, Finalize
<1>5. Accounted'
    <2>1. CASE Drained
        BY <2>1 DEF Drained, Accounted, InUse
    <2>2. CASE DrainTimesOut \/ CloseChannel
        BY <2>2 DEF DrainTimesOut, CloseChannel, Accounted, InUse
    <2>3. CASE Finalize
        BY <2>3 DEF Finalize, Accounted, InUse
    <2>4. ASSUME NEW h \in Handles, CloseSession(h)
          PROVE  Accounted'
        <3>1. closed /\ UNCHANGED <<closed, forced, held>> /\ h \in pool
              /\ pool' = pool \ {h} /\ opened' = opened \ {h}
            BY <2>4 DEF CloseSession, ClosedByClose
        <3>2. ~InUse(h)
            BY <3>1 DEF NeverShared, InUse
        <3> QED
            BY <3>1, <3>2 DEF Accounted, InUse
    <2> QED
        BY <2>1, <2>2, <2>3, <2>4
<1> QED
    BY <1>1, <1>2, <1>3, <1>4, <1>5

\* PoolInv is inductive: HasHandle and Accounted carry the two safety
\* properties through acquire, release and Close.
LEMMA PoolStep == ASSUME PoolInv, [PoolNext]_poolVars PROVE PoolInv'
BY QuietSteps, AcquireStep, ReleaseStep, CloseSteps DEF PoolNext, CallerStep

\* The invariant of the pool and its shutdown, for any number of requests
\* (acquire, release and Close in pkcs11.go).
THEOREM PoolInvariance == PoolSpec => []PoolInv
BY PoolInitial, PoolStep, PTL DEF PoolSpec

-----------------------------------------------------------------------------
\* Whatever the size of the pool and the number of requests, no two requests
\* use one PKCS#11 session, and none is lost before shutdown (pkcs11.go).
THEOREM PoolExclusive == PoolSpec => [](NeverShared /\ NeverLost)
<1>1. PoolInv => NeverShared /\ NeverLost
    BY PoolAssumption DEF PoolInv, NeverLost, Accounted, InUse, PoolTypeOK
<1> QED
    BY PoolInvariance, <1>1, PTL

\* A shutdown that drained all requests leaves no request at work in a closed
\* pool and no open session at the token (Close in pkcs11.go).
THEOREM ShutdownGraceful == PoolSpec => []GracefulShutdown
<1> DEFINE AllClosed == server = "finalized" /\ ~forced => opened = {}
<1>1. PoolInit => AllClosed
    BY DEF PoolInit
<1>2. PoolInv /\ AllClosed /\ [PoolNext]_poolVars => AllClosed'
    <2> SUFFICES ASSUME PoolInv, AllClosed, [PoolNext]_poolVars,
                        server' = "finalized", ~forced'
                 PROVE  opened' = {}
        OBVIOUS
    <2>1. CASE Finalize
        <3>1. \A c \in Callers : held[c] = NoHandle
            BY <2>1 DEF Finalize, PoolInv, IdleAfterGrace, ClosedByClose, PoolTypeOK
        <3> QED
            BY <2>1, <3>1, PoolAssumption DEF Finalize, PoolInv, Accounted, InUse, PoolTypeOK
    <2>2. CASE ~Finalize
        <3>1. server = "finalized" /\ ~forced /\ opened' = opened
            BY <2>2 DEF PoolNext, poolVars, CallerStep, Arrive, ContextDone, Acquire,
                AcquireZero, AcquireTimesOut, CallReturns, Release, Shutdown, Drained,
                DrainTimesOut, CloseChannel, CloseSession, callerVars, PoolInv, PoolTypeOK
        <3> QED
            BY <3>1
    <2> QED
        BY <2>1, <2>2
<1>3. PoolInv /\ AllClosed => GracefulShutdown
    BY DEF PoolInv, IdleAfterGrace, ClosedByClose, GracefulShutdown
<1> QED
    BY PoolInvariance, <1>1, <1>2, <1>3, PTL DEF PoolSpec

-----------------------------------------------------------------------------
(***************************************************************************)
(* The server process.                                                     *)
(***************************************************************************)
AfterShutdown == server \in {"returned", "closing", "finalized"}

Quiet == /\ ProcessTypeOK
         /\ store = "closed" => AfterShutdown
         /\ AfterShutdown /\ ~forced => \A c \in Callers : db[c] = "none"

-----------------------------------------------------------------------------
\* Every step of the process is a step of the pool or leaves it alone.
LEMMA PoolSteps == ASSUME [ProcessNext]_processVars PROVE [PoolNext]_poolVars
<1>1. CASE \E c \in Callers : \/ BeginAtHSM(c) \/ BeginAtStore(c) \/ StepAtHSM(c)
                              \/ ReleaseThenStore(c)
    BY <1>1 DEF BeginAtHSM, BeginAtStore, StepAtHSM, ReleaseThenStore, PoolNext, CallerStep
<1>2. CASE \/ \E a \in Admins : BeginAdmin(a)
           \/ \E r \in Requests : RequestStep(r)
           \/ CloseStore \/ AdminShutdown
           \/ UNCHANGED processVars
    BY <1>2 DEF BeginAdmin, RequestStep, StoreCall, StoreReturns, Answer, CloseStore,
        AdminShutdown, processVars
<1>3. CASE Signal \/ ShutdownReturns \/ CloseHSM
    BY <1>3 DEF Signal, ShutdownReturns, CloseHSM, PoolNext
<1> QED
    BY <1>1, <1>2, <1>3 DEF ProcessNext

\* The process implements the pool: composing it with the store and the admin
\* server takes away and adds no behaviour of the HSM sessions (main.go).
THEOREM ImplementsPool == ProcessSpec => PoolSpec
<1>1. ProcessInit => PoolInit
    BY DEF ProcessInit
<1> QED
    BY <1>1, PoolSteps, PTL DEF ProcessSpec, PoolSpec

\* A step keeps Quiet: only a Shutdown that waited for the store calls as well
\* returns without having been forced.
LEMMA QuietKept == ASSUME PoolInv, Quiet, [ProcessNext]_processVars PROVE Quiet'
<1> USE AdminAssumption DEF Quiet, ProcessTypeOK, AfterShutdown, Requests, storeVars
<1>0. PoolTypeOK'
    BY PoolSteps, PoolStep DEF PoolInv
<1>1. ASSUME NEW c \in Callers, BeginAtHSM(c)
      PROVE  Quiet'
    BY <1>0, <1>1 DEF BeginAtHSM, Arrive, PoolTypeOK
<1>2. ASSUME NEW c \in Callers, BeginAtStore(c)
      PROVE  Quiet'
    BY <1>0, <1>2 DEF BeginAtStore, poolVars
<1>3. ASSUME NEW c \in Callers, StepAtHSM(c)
      PROVE  Quiet'
    BY <1>0, <1>3 DEF StepAtHSM, ContextDone, CallReturns, Release, Acquire, AcquireZero,
        AcquireTimesOut, PoolTypeOK
<1>4. ASSUME NEW c \in Callers, ReleaseThenStore(c)
      PROVE  Quiet'
    BY <1>0, <1>4 DEF ReleaseThenStore, Release, PoolInv, PoolTypeOK, IdleAfterGrace
<1>5. ASSUME NEW a \in Admins, BeginAdmin(a)
      PROVE  Quiet'
    BY <1>0, <1>5 DEF BeginAdmin, poolVars
<1>6. ASSUME NEW r \in Requests, RequestStep(r)
      PROVE  Quiet'
    BY <1>0, <1>6 DEF RequestStep, StoreCall, StoreReturns, Answer, poolVars
<1>7. CASE Signal
    BY <1>0, <1>7 DEF Signal, Shutdown, callerVars
<1>8. CASE ShutdownReturns
    BY <1>0, <1>8 DEF ShutdownReturns, Drained, DrainTimesOut, callerVars
<1>9. CASE CloseStore \/ AdminShutdown \/ UNCHANGED processVars
    BY <1>0, <1>9 DEF CloseStore, AdminShutdown, processVars, poolVars
<1>10. CASE CloseHSM
    BY <1>0, <1>10 DEF CloseHSM, callerVars, CloseChannel, CloseSession, Finalize
<1> QED
    BY <1>1, <1>2, <1>3, <1>4, <1>5, <1>6, <1>7, <1>8, <1>9, <1>10 DEF ProcessNext

\* PoolInv and Quiet hold throughout, with the types of all variables
\* (ProcessTypeOK) as a part.
THEOREM ProcessInvariance == ProcessSpec => [](PoolInv /\ Quiet /\ ProcessTypeOK)
<1>1. ProcessInit => Quiet
    BY PoolInitial DEF ProcessInit, PoolInit, PoolInv, Quiet, ProcessTypeOK, AfterShutdown
<1>2. Quiet => ProcessTypeOK
    BY DEF Quiet
<1> QED
    BY <1>1, <1>2, QuietKept, ImplementsPool, PoolInvariance, PTL DEF ProcessSpec

\* A request that Shutdown waited for never meets a closed store, whatever the
\* number of requests (the order of the deferred calls in main.go).
THEOREM StoreClosedLast == ProcessSpec => []StoreOutlivesRequests
<1>1. PoolInv /\ Quiet => StoreOutlivesRequests
    BY DEF PoolInv, IdleAfterGrace, Quiet, AfterShutdown, StoreOutlivesRequests
<1> QED
    BY <1>1, ProcessInvariance, PTL

\* No request shares a PKCS#11 session with another and none is lost, and a
\* drained shutdown leaves nothing open, in the composed process as well.
THEOREM PoolSafeInProcess == ProcessSpec => [](NeverShared /\ NeverLost /\ GracefulShutdown)
BY ImplementsPool, PoolExclusive, ShutdownGraceful, PTL
=============================================================================
