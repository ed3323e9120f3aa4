---------------------------- MODULE ServerProcess ----------------------------
(***************************************************************************)
(* cmd/server/main.go: the server process from the moment it listens until *)
(* main returns.  It composes the requests at the HSM (HsmPool) with their *)
(* calls to the MongoDB lifecycle store, and with the admin server, which  *)
(* has a Shutdown of its own that main does not wait for.                  *)
(*                                                                         *)
(* The deferred calls of main run in reverse order: the store is closed    *)
(* when srv.Shutdown returned, then the HSM.                               *)
(***************************************************************************)
EXTENDS HsmPool

CONSTANT Admins       \* the requests to the admin server that may run together

ASSUME AdminAssumption == Admins \cap Callers = {}

VARIABLES db,         \* of each request: its work with the store
          store,      \* the MongoDB client
          admin       \* the admin server's goroutine

Requests == Callers \cup Admins

storeVars == <<db, store, admin>>

processVars == <<poolVars, storeVars>>

\* Every variable holds a value of its type; a request is at the HSM or at the
\* store, not at both.
ProcessTypeOK == /\ PoolTypeOK
                 /\ db \in [Requests -> {"none", "between", "call"}]
                 /\ store \in {"open", "closed"}
                 /\ admin \in {"serving", "draining", "stopped"}
                 /\ \A c \in Callers : db[c] # "none" => state[c] = "idle"

ProcessInit == /\ PoolInit
               /\ db = [r \in Requests |-> "none"]
               /\ store = "open"
               /\ admin = "serving"

-----------------------------------------------------------------------------
(***************************************************************************)
(* Requests.  One that needs the HSM goes there first, and may go on to    *)
(* the store (ECKeygenHandler.Handle).                                     *)
(***************************************************************************)

\* A request for an HSM operation, or /readyz.
BeginAtHSM(c) == /\ db[c] = "none"
                 /\ Arrive(c)
                 /\ UNCHANGED storeVars

\* A request that needs the store only: records, attestations, status lists.
BeginAtStore(c) == /\ server = "running"
                   /\ c \notin Probes
                   /\ state[c] = "idle" /\ db[c] = "none"
                   /\ db' = [db EXCEPT ![c] = "between"]
                   /\ UNCHANGED <<poolVars, store, admin>>

BeginAdmin(a) == /\ admin = "serving"
                 /\ db[a] = "none"
                 /\ db' = [db EXCEPT ![a] = "between"]
                 /\ UNCHANGED <<poolVars, store, admin>>

StepAtHSM(c) == /\ \/ ContextDone(c) \/ CallReturns(c) \/ Release(c)
                   \/ Acquire(c) \/ AcquireZero(c) \/ AcquireTimesOut(c)
                /\ UNCHANGED storeVars

\* PutPublicKey follows a GenerateECKey that did not panic.
ReleaseThenStore(c) == /\ c \notin Probes
                       /\ ~closed
                       /\ Release(c)
                       /\ db' = [db EXCEPT ![c] = "between"]
                       /\ UNCHANGED <<store, admin>>

StoreCall(r) == /\ db[r] = "between"
                /\ db' = [db EXCEPT ![r] = "call"]
                /\ UNCHANGED <<poolVars, store, admin>>

\* With a result or an error, ErrClientDisconnected on a closed store included;
\* the context of each call ends after 5 seconds.
StoreReturns(r) == /\ db[r] = "call"
                   /\ db' = [db EXCEPT ![r] = "between"]
                   /\ UNCHANGED <<poolVars, store, admin>>

Answer(r) == /\ db[r] = "between"
             /\ db' = [db EXCEPT ![r] = "none"]
             /\ UNCHANGED <<poolVars, store, admin>>

RequestStep(r) == StoreCall(r) \/ StoreReturns(r) \/ Answer(r)

-----------------------------------------------------------------------------
(***************************************************************************)
(* SIGINT or SIGTERM.                                                      *)
(***************************************************************************)
Signal == Shutdown /\ UNCHANGED storeVars

ShutdownReturns == /\ \/ Drained /\ \A c \in Callers : db[c] = "none"
                      \/ DrainTimesOut
                   /\ UNCHANGED storeVars

CloseStoreOnSignal == /\ server # "running"
                      /\ store = "open"
                      /\ store' = "closed"
                      /\ UNCHANGED <<poolVars, db, admin>>

CloseStore == /\ server = "returned"
              /\ store = "open"
              /\ store' = "closed"
              /\ UNCHANGED <<poolVars, db, admin>>

CloseHSM == /\ store = "closed"
            /\ \/ CloseChannel
               \/ \E h \in Handles : CloseSession(h)
               \/ Finalize
            /\ UNCHANGED storeVars

\* The goroutine of the admin server: Shutdown with a limit of 5 seconds.
AdminShutdown == \/ /\ server # "running"
                    /\ admin = "serving"
                    /\ admin' = "draining"
                    /\ UNCHANGED <<poolVars, db, store>>
                 \/ /\ admin = "draining"
                    /\ admin' = "stopped"
                    /\ UNCHANGED <<poolVars, db, store>>

ProcessNext == \/ \E c \in Callers : \/ BeginAtHSM(c) \/ BeginAtStore(c)
                                     \/ StepAtHSM(c) \/ ReleaseThenStore(c)
               \/ \E a \in Admins : BeginAdmin(a)
               \/ \E r \in Requests : RequestStep(r)
               \/ Signal \/ ShutdownReturns \/ CloseStore \/ CloseHSM \/ AdminShutdown

ProcessSpec == ProcessInit /\ [][ProcessNext]_processVars

(***************************************************************************)
(* The main goroutine and the timer of Shutdown go on.  Nothing is assumed *)
(* of the HSM, nor of the requests and the admin server.  CloseSession and *)
(* Finalize call the HSM, so no fairness is assumed of them either.        *)
(***************************************************************************)
FairProcessSpec == /\ ProcessSpec
                   /\ TimersAndScheduler
                   /\ WF_processVars(ShutdownReturns)
                   /\ WF_processVars(CloseStore)
                   /\ WF_processVars(store = "closed" /\ CloseChannel /\ UNCHANGED storeVars)

-----------------------------------------------------------------------------
(***************************************************************************)
(* A request to the R2PS endpoint that Shutdown waited for never meets a   *)
(* closed store, between the HSM and the store or between two of its store *)
(* calls: only the end of the 30 seconds can take the store away from it.  *)
(***************************************************************************)
StoreOutlivesRequests ==
    store = "closed" /\ ~forced => \A c \in Callers : db[c] = "none" /\ state[c] = "idle"

(***************************************************************************)
(* After the signal main gets to closing the store and the HSM's pool,     *)
(* although a call may hang in the HSM and the probe may wait for ever.    *)
(***************************************************************************)
ShutdownEnds == server = "draining" ~> store = "closed" /\ closed
=============================================================================
