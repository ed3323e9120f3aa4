------------------------------ MODULE TwoFactor ------------------------------
(***************************************************************************)
(* The dispatcher's two-factor core (internal/service/dispatcher.go): the  *)
(* OPAQUE registration and authentication handlers, the session gate in    *)
(* front of 2fa_change and of the 2FA services, the session cleanup        *)
(* goroutine, and a restart of the server process.                         *)
(*                                                                         *)
(* Every HTTP request runs in a goroutine of its own.  A step is one call  *)
(* into shared state (a method of the session store, the attempt counter   *)
(* or the record store, the metrics gauge, or a read through a session     *)
(* pointer) together with the local work up to the next one, so all the    *)
(* interleavings of those calls are behaviours of this module.             *)
(***************************************************************************)
EXTENDS AttemptCounter, SessionStore, FiniteSets

CONSTANTS
    Procs,           \* the request goroutines that may run at the same time
    RequestTypes,    \* the kinds of request that clients send
    Durations,       \* the session_duration values that clients send
    NoRequest,       \* what an idle goroutine is working on
    SessionTTL,      \* session_ttl, in clock units
    Second,          \* clock units in a second (time.Second)
    DurationLimit,   \* a time.Duration is in -DurationLimit..DurationLimit-1
    Persistent,      \* records are kept in MongoDB (TRUE) or in memory (FALSE)
    MaxRestarts,     \* bound: restarts of the server process
    MaxGauge         \* bound: finalize requests taken while the gauge is below

AllTypes == {"registration", "evaluate", "finalize", "change",
             "service1FA", "service2FA"}

(***************************************************************************)
(* A request after the JWS, version, nonce and iat checks of Process, and  *)
(* after decoding.  password is the password behind the message that the   *)
(* request carries: the record of a registration, or the KE3 of a finalize *)
(* computed for session sid; NoPassword is a message that does not decode, *)
(* or that the holder of no password computed for that session.  epoch is  *)
(* the server key under which a registration was evaluated.                *)
(***************************************************************************)
Request == [type : RequestTypes, client : Clients, context : Contexts,
            sid : SessionIds \cup {NoSession},
            password : Passwords \cup {NoPassword},
            duration : Durations, epoch : 0..MaxRestarts]

ASSUME TwoFactorAssumption ==
    /\ RequestTypes \subseteq AllTypes
    /\ Durations \subseteq 0..(DurationLimit - 1)
    /\ 0 \in Durations
    /\ NoRequest \notin Request
    /\ SessionTTL \in Nat /\ SessionTTL < DurationLimit
    /\ Second \in Nat \ {0}
    /\ DurationLimit \in Nat \ {0}
    /\ Persistent \in BOOLEAN
    /\ MaxRestarts \in Nat
    /\ MaxGauge \in Nat

VARIABLES
    record,    \* the OPAQUE record of each client and context
    epoch,     \* the OPAQUE key material generated by this boot of the server
    gauge,     \* the ActiveSessions gauge
    removed,   \* what CleanExpired returned and is not yet subtracted
    pc, req, ptr   \* of each goroutine: next step, request, session pointer

vars == <<now, attempts, session, stored, record, epoch, gauge, removed,
          pc, req, ptr>>

StoredRecord == [password : Passwords \cup {NoPassword}, epoch : 0..MaxRestarts]

NoRecord == [password |-> NoPassword, epoch |-> 0]

Labels == {"idle", "check", "lookup", "mint", "create",
           "find", "fail", "delete", "success", "mark", "inc",
           "gate", "verify", "handle", "put"}

\* Every variable holds a value of its type; a goroutine works on a request
\* exactly while it is not idle.
TypeOK == /\ ClockTypeOK
          /\ CounterTypeOK
          /\ StoreTypeOK
          /\ record \in [Keys -> StoredRecord]
          /\ epoch \in 0..MaxRestarts
          /\ gauge \in Int
          /\ removed \in Nat
          /\ pc \in [Procs -> Labels]
          /\ req \in [Procs -> Request \cup {NoRequest}]
          /\ ptr \in [Procs -> SessionIds \cup {NoSession}]
          /\ \A p \in Procs : pc[p] = "idle" <=> req[p] = NoRequest

Init == /\ ClockInit
        /\ CounterInit
        /\ StoreInit
        /\ record = [k \in Keys |-> NoRecord]
        /\ epoch = 0
        /\ gauge = 0
        /\ removed = 0
        /\ pc = [p \in Procs |-> "idle"]
        /\ req = [p \in Procs |-> NoRequest]
        /\ ptr = [p \in Procs |-> NoSession]

-----------------------------------------------------------------------------
(***************************************************************************)
(* Goroutines.                                                             *)
(***************************************************************************)
KeyOf(p) == <<req[p].client, req[p].context>>

At(p, label) == pc[p] = label

Goto(p, label) == /\ pc' = [pc EXCEPT ![p] = label]
                  /\ req' = req

\* Answer the request, with a result or an error.
Answer(p) == /\ pc' = [pc EXCEPT ![p] = "idle"]
             /\ req' = [req EXCEPT ![p] = NoRequest]
             /\ ptr' = [ptr EXCEPT ![p] = NoSession]

\* An id is told to the client in the answer to the evaluate that created it.
HandedOut(id) == /\ Exists(id)
                 /\ \A p \in Procs : ptr[p] = id => pc[p] \notin {"mint", "create"}

\* The fields a request of each type uses; the others have their zero value.
Sendable(r) ==
    /\ r.sid # NoSession => /\ r.type \in {"finalize", "change", "service2FA"}
                            /\ HandedOut(r.sid)
    /\ r.type \notin {"finalize", "registration", "change"} => r.password = NoPassword
    /\ r.type # "evaluate" => r.duration = 0
    /\ r.type \notin {"registration", "change"} => r.epoch = 0
    /\ r.epoch <= epoch

\* Process and handle2FA: where a request of each type starts.
EntryOf(type) == CASE type = "registration" -> "put"
                   [] type = "evaluate"     -> "check"
                   [] type = "finalize"     -> "find"
                   [] type = "change"       -> "gate"
                   [] type = "service2FA"   -> "gate"
                   [] type = "service1FA"   -> "handle"

FinalizesInFlight == {p \in Procs : At(p, "find") \/ At(p, "success") \/ At(p, "mark")
                                       \/ At(p, "inc")}

Process(p) ==
    /\ At(p, "idle")
    /\ \E r \in Request :
          /\ Sendable(r)
          /\ r.type = "finalize" => gauge + Cardinality(FinalizesInFlight) < MaxGauge
          /\ req' = [req EXCEPT ![p] = r]
          /\ pc' = [pc EXCEPT ![p] = EntryOf(r.type)]
    /\ UNCHANGED <<now, attempts, session, stored, record, epoch, gauge, removed, ptr>>

-----------------------------------------------------------------------------
(***************************************************************************)
(* authEvaluate: Check, GetRecord, AuthEvaluate, then the session.         *)
(***************************************************************************)
CheckLockout(p) ==
    /\ At(p, "check")
    /\ Check(KeyOf(p))
    /\ IF Locked(KeyOf(p))
       THEN Answer(p)
       ELSE Goto(p, "lookup") /\ UNCHANGED ptr
    /\ UNCHANGED <<now, session, stored, record, epoch, gauge, removed>>

\* The password that can answer a KE2 made from record[k] with this boot's
\* keys: a record made under other keys, or none, can be answered by nobody.
Answerable(k) == IF record[k].epoch = epoch THEN record[k].password ELSE NoPassword

\* GetRecord and AuthEvaluate.  An error of the record store, as well as an
\* unknown client, is replaced by a fake record, which nobody can answer.  The
\* session object is private to the goroutine until Create.
LookupRecord(p) ==
    /\ At(p, "lookup")
    /\ \/ /\ \E id \in SessionIds, mac \in {Answerable(KeyOf(p)), NoPassword} :
                /\ ~Exists(id)
                /\ session' = [session EXCEPT ![id] =
                                 [client |-> req[p].client, context |-> req[p].context,
                                  mac |-> mac, expires |-> now, verified |-> FALSE]]
                /\ ptr' = [ptr EXCEPT ![p] = id]
          /\ Goto(p, "mint")
       \/ /\ Answer(p)              \* KE1 does not decode
          /\ UNCHANGED session
    /\ UNCHANGED <<now, attempts, stored, record, epoch, gauge, removed>>

\* The 64-bit product time.Duration(d) * time.Second.
Wrap(d) == ((d * Second + DurationLimit) % (2 * DurationLimit)) - DurationLimit

LifetimeUncapped(d) == IF d > 0 THEN Wrap(d) ELSE SessionTTL

\* session_duration replaces the configured lifetime only when it is shorter.
Lifetime(d) == IF d > 0 /\ Wrap(d) < SessionTTL THEN Wrap(d) ELSE SessionTTL

MintSessionPublishes(p) ==
    /\ At(p, "mint")
    /\ session' = [session EXCEPT ![ptr[p]].expires = now + Lifetime(req[p].duration)]
    /\ Create(ptr[p])
    /\ Goto(p, "create")
    /\ UNCHANGED <<now, attempts, record, epoch, gauge, removed, ptr>>

MintSession(p) ==
    /\ At(p, "mint")
    /\ session' = [session EXCEPT ![ptr[p]].expires = now + Lifetime(req[p].duration)]
    /\ Goto(p, "create")
    /\ UNCHANGED <<now, attempts, stored, record, epoch, gauge, removed, ptr>>

CreateSession(p) ==
    /\ At(p, "create")
    /\ Create(ptr[p])
    /\ Answer(p)
    /\ UNCHANGED <<now, attempts, session, record, epoch, gauge, removed>>

-----------------------------------------------------------------------------
(***************************************************************************)
(* authFinalize.                                                           *)
(***************************************************************************)

AuthFinalizeDecodesOnly(id, password) == password \in Passwords

\* AuthFinalize: KE3 carries the authenticator the session expects.
AuthFinalize(id, password) == /\ password \in Passwords
                              /\ password = session[id].mac

\* Get, then AuthFinalize on the pointer's ClientMAC, which never changes.
FindSession(p) ==
    /\ At(p, "find")
    /\ LET id == Get(req[p].sid)
       IN  IF id = NoSession
           THEN Answer(p)
           ELSE /\ ptr' = [ptr EXCEPT ![p] = id]
                /\ Goto(p, IF AuthFinalize(id, req[p].password) THEN "success" ELSE "fail")
    /\ UNCHANGED <<now, attempts, session, stored, record, epoch, gauge, removed>>

CountFailure(p) ==
    /\ At(p, "fail")
    /\ RecordFailure(KeyOf(p))
    /\ Goto(p, "delete")
    /\ UNCHANGED <<now, session, stored, record, epoch, gauge, removed, ptr>>

DeleteSession(p) ==
    /\ At(p, "delete")
    /\ Delete(req[p].sid)
    /\ Answer(p)
    /\ UNCHANGED <<now, attempts, session, record, epoch, gauge, removed>>

CountSuccess(p) ==
    /\ At(p, "success")
    /\ RecordSuccess(KeyOf(p))
    /\ Goto(p, "mark")
    /\ UNCHANGED <<now, session, stored, record, epoch, gauge, removed, ptr>>

\* The counter is already reset when the session turns out to be gone.
MarkSession(p) ==
    /\ At(p, "mark")
    /\ MarkVerified(req[p].sid)
    /\ IF req[p].sid \in stored
       THEN Goto(p, "inc") /\ UNCHANGED ptr
       ELSE Answer(p)
    /\ UNCHANGED <<now, attempts, record, epoch, gauge, removed>>

IncrementGauge(p) ==
    /\ At(p, "inc")
    /\ gauge' = gauge + 1
    /\ Answer(p)
    /\ UNCHANGED <<now, attempts, session, stored, record, epoch, removed>>

-----------------------------------------------------------------------------
(***************************************************************************)
(* The gate in front of 2fa_change and of the services of mode 2FA, and    *)
(* what it admits to.                                                      *)
(***************************************************************************)
GateGetUnchecked(p) ==
    /\ At(p, "gate")
    /\ ptr' = [ptr EXCEPT ![p] = Get(req[p].sid)]
    /\ Goto(p, "verify")
    /\ UNCHANGED <<now, attempts, session, stored, record, epoch, gauge, removed>>

GateGet(p) ==
    /\ At(p, "gate")
    /\ LET id == Get(req[p].sid)
       IN  IF id = NoSession
           THEN Answer(p)
           ELSE /\ ptr' = [ptr EXCEPT ![p] = id]
                /\ Goto(p, "verify")
    /\ UNCHANGED <<now, attempts, session, stored, record, epoch, gauge, removed>>

AdmitsUnverified(id, context) == session[id].context = context

Admits(id, context) == /\ session[id].verified
                       /\ session[id].context = context

\* The checks read the object behind the pointer without the store's mutex, at
\* some moment after Get: the read of Verified races with MarkVerified, and
\* sees the value before it or the value after it.
GateVerify(p) ==
    /\ At(p, "verify")
    /\ IF Admits(ptr[p], req[p].context)
       THEN /\ Goto(p, IF req[p].type = "change" THEN "put" ELSE "handle")
            /\ UNCHANGED ptr
       ELSE Answer(p)
    /\ UNCHANGED <<now, attempts, session, stored, record, epoch, gauge, removed>>

\* handler.Handle: the services keep their state elsewhere.
HandleService(p) ==
    /\ At(p, "handle")
    /\ Answer(p)
    /\ UNCHANGED <<now, attempts, session, stored, record, epoch, gauge, removed>>

\* regFinalize, reached by 2fa_registration and, through the gate, 2fa_change.
\* It replaces whatever record there is.  A message that does not decode and an
\* error of the record store leave the record as it is.
PutRecord(p) ==
    /\ At(p, "put")
    /\ \/ /\ req[p].password # NoPassword
          /\ record' = [record EXCEPT ![KeyOf(p)] =
                          [password |-> req[p].password, epoch |-> req[p].epoch]]
       \/ UNCHANGED record
    /\ Answer(p)
    /\ UNCHANGED <<now, attempts, session, stored, epoch, gauge, removed>>

-----------------------------------------------------------------------------
(***************************************************************************)
(* The cleanup goroutine, the clock and a restart.                         *)
(***************************************************************************)
CleanSessions ==
    /\ removed = 0
    /\ ExpiredIds # {}
    /\ CleanExpired
    /\ removed' = Cardinality(ExpiredIds)
    /\ UNCHANGED <<now, attempts, session, record, epoch, gauge, pc, req, ptr>>

SubtractGauge ==
    /\ removed > 0
    /\ gauge' = gauge - removed
    /\ removed' = 0
    /\ UNCHANGED <<now, attempts, session, stored, record, epoch, pc, req, ptr>>

Tick == /\ Advance
        /\ UNCHANGED <<attempts, session, stored, record, epoch, gauge, removed,
                       pc, req, ptr>>

\* A stop or crash and a new start: all memory is lost, new OPAQUE key material
\* is generated, and the records survive only in MongoDB.
Restart ==
    /\ epoch < MaxRestarts
    /\ epoch' = epoch + 1
    /\ record' = IF Persistent THEN record ELSE [k \in Keys |-> NoRecord]
    /\ stored' = {}
    /\ attempts' = [k \in Keys |-> NoAttempts]
    /\ gauge' = 0
    /\ removed' = 0
    /\ pc' = [p \in Procs |-> "idle"]
    /\ req' = [p \in Procs |-> NoRequest]
    /\ ptr' = [p \in Procs |-> NoSession]
    /\ UNCHANGED <<now, session>>

Step(p) == \/ CheckLockout(p) \/ LookupRecord(p) \/ MintSession(p) \/ CreateSession(p)
           \/ FindSession(p) \/ CountFailure(p) \/ DeleteSession(p)
           \/ CountSuccess(p) \/ MarkSession(p) \/ IncrementGauge(p)
           \/ GateGet(p) \/ GateVerify(p) \/ HandleService(p) \/ PutRecord(p)

Next == \/ \E p \in Procs : Process(p) \/ Step(p)
        \/ CleanSessions \/ SubtractGauge
        \/ Tick
        \/ Restart

Spec == Init /\ [][Next]_vars

(***************************************************************************)
(* The Go scheduler runs every runnable goroutine and no handler step      *)
(* waits for another one; the ticker keeps firing; time passes.            *)
(***************************************************************************)
Fairness == /\ \A p \in Procs : WF_vars(Step(p))
            /\ WF_vars(CleanSessions)
            /\ WF_vars(SubtractGauge)
            /\ WF_vars(Tick)

FairSpec == Spec /\ Fairness

-----------------------------------------------------------------------------
(***************************************************************************)
(* Safety.                                                                 *)
(***************************************************************************)

\* The session holds a proof of the password it was opened against.
Proven(id) == /\ Exists(id)
              /\ session[id].verified
              /\ session[id].mac \in Passwords

\* A request that the gate has let through.
PastGate(p) == \/ At(p, "handle") /\ req[p].type = "service2FA"
               \/ At(p, "put") /\ req[p].type = "change"

\* The labels at which a handler goes on to use the session pointer it has.
UsesPointer == {"mint", "create", "fail", "delete", "success", "mark", "inc", "verify"}

(***************************************************************************)
(* No handler goes on with a nil session pointer, and the map holds no     *)
(* identifier without an object: what Get returned stays usable after      *)
(* DeleteSession, CleanSessions or an expiry took it out of the map.       *)
(***************************************************************************)
PointersValid ==
    /\ \A id \in stored : Exists(id)
    /\ \A p \in Procs : (pc[p] \in UsesPointer \/ PastGate(p)) =>
                           ptr[p] \in SessionIds /\ Exists(ptr[p])

(***************************************************************************)
(* A session is verified only with the password it was opened against      *)
(* (authFinalize): a verified session was opened on a usable record, and a *)
(* finalize that reset the counter and is about to mark its session still  *)
(* has the right KE3 for the session that MarkVerified will look up.       *)
(***************************************************************************)
VerifiedOnlyByProof ==
    /\ \A id \in SessionIds : Exists(id) /\ session[id].verified =>
                                 session[id].mac \in Passwords
    /\ \A p \in Procs : pc[p] \in {"success", "mark"} =>
                           /\ ptr[p] = req[p].sid
                           /\ AuthFinalize(ptr[p], req[p].password)

(***************************************************************************)
(* Past the gate of handleService and handle2FAChange, the session is one  *)
(* of the request's context that was verified with the password of a real, *)
(* usable record: never a session opened on a fake record, one whose KE3   *)
(* failed, or one still pending, however requests, deletions, cleanups and *)
(* restarts interleave between Get, the reads through the pointer and the  *)
(* handler.                                                                *)
(***************************************************************************)
GateAdmitsOnlyProven ==
    \A p \in Procs : PastGate(p) => /\ ptr[p] \in SessionIds
                                    /\ Proven(ptr[p])
                                    /\ session[ptr[p]].context = req[p].context

\* No session_duration, not even one whose product with time.Second overflows
\* (authEvaluate), yields a session that outlives the configured lifetime.
LifetimeWithinTTL ==
    \A id \in SessionIds : Exists(id) => session[id].expires <= now + SessionTTL

(***************************************************************************)
(* Once a session has expired no request gets hold of it any more, in      *)
(* authFinalize or at the gate; what still uses it got it from Get in time.*)
(***************************************************************************)
NewHolder(p, id) == ptr[p] # id /\ ptr'[p] = id

ExpiredSessionAdmitsNobody ==
    [][\A p \in Procs, id \in SessionIds :
          Exists(id) /\ Expired(id) => ~NewHolder(p, id)]_vars

(***************************************************************************)
(* The failures counted for a client and context go down only after a full *)
(* lockout, in a restart, or when a finalize that names this client and    *)
(* context has answered the session that it names.  Neither more failures, *)
(* nor an evaluate, nor a cleanup, nor a finalize of another account       *)
(* lowers them (counter.go, and its callers).  Whose session it was that   *)
(* the finalize answered, authFinalize does not compare.                   *)
(***************************************************************************)
LockoutServed(k) == Exhausted(k) /\ ~Locked(k)

ResetBy(p, k) == /\ At(p, "success")
                 /\ KeyOf(p) = k
                 /\ AuthFinalize(ptr[p], req[p].password)

CountFallsOnlyForCause ==
    [][\A k \in Keys :
          attempts'[k].failures < attempts[k].failures =>
             \/ LockoutServed(k)
             \/ \E p \in Procs : ResetBy(p, k)
             \/ epoch' # epoch]_vars

\* Some evaluate is still building the session.
UnderConstruction(id) == \E p \in Procs : ptr[p] = id /\ pc[p] \in {"mint", "create"}

(***************************************************************************)
(* Until Create publishes it, a session belongs to the evaluate that is    *)
(* building it (authEvaluate): it is not in the map, it is not verified,   *)
(* and no other handler has a pointer to it.                               *)
(***************************************************************************)
PrivateUntilCreate ==
    \A p \in Procs : pc[p] \in {"mint", "create"} =>
        /\ ptr[p] \notin stored
        /\ ~session[ptr[p]].verified
        /\ \A q \in Procs \ {p} : ptr[q] # ptr[p]

(***************************************************************************)
(* The sessions of the dispatcher implement SessionLifecycle.  A session   *)
(* is fresh until Create puts it in the map.                               *)
(***************************************************************************)
PhaseOf(id) == IF ~Exists(id) \/ UnderConstruction(id) THEN "fresh"
               ELSE IF id \notin stored THEN "closed"
               ELSE IF session[id].verified THEN "verified"
               ELSE "pending"

Lifecycle == INSTANCE SessionLifecycle WITH
    Ids <- SessionIds,
    phase <- [id \in SessionIds |-> PhaseOf(id)],
    genuine <- [id \in SessionIds |-> Exists(id) /\ session[id].mac \in Passwords]

ImplementsLifecycle == Lifecycle!LifecycleSpec

-----------------------------------------------------------------------------
(***************************************************************************)
(* Liveness.  No session stays in the map for good, verified or abandoned  *)
(* in the middle of the handshake (StartSessionCleanup); the last instants *)
(* before the clock's bound are left out, since the clock stops there.     *)
(***************************************************************************)
NoSessionLeak ==
    \A id \in SessionIds :
        (id \in stored /\ session[id].expires < MaxTime) ~> id \notin stored

-----------------------------------------------------------------------------
(***************************************************************************)
(* What the documentation says and the code does not do.                   *)
(***************************************************************************)

\* The session that p finalizes is one of the client and context it names.
OwnSession(p) == <<session[ptr[p]].client, session[ptr[p]].context>> = KeyOf(p)

\* The lockout is enforced: the failures of a client and context are forgotten
\* only when it has served its lockout, by a proof of its own password, given on
\* a session of its own, or by a restart.  authFinalize resets the counter that
\* the request names, whoever the session belongs to.
ForgivenOnlyForCause ==
    [][\A k \in Keys :
          attempts'[k].failures < attempts[k].failures =>
             \/ LockoutServed(k)
             \/ \E p \in Procs : ResetBy(p, k) /\ OwnSession(p)
             \/ epoch' # epoch]_vars

\* The stored OPAQUE records are usable: the password can be proved.
StoredRecordsUsable ==
    \A k \in Keys : record[k] # NoRecord => Answerable(k) = record[k].password
=============================================================================
