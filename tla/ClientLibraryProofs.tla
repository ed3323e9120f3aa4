------------------------- MODULE ClientLibraryProofs -------------------------
(***************************************************************************)
(* The dispatcher together with any number of client objects is still the  *)
(* dispatcher: what TwoFactorProofs proves of every request stream holds   *)
(* of the library's.  Three invariants follow, each on top of the last:    *)
(*                                                                         *)
(* OneBoot.  The record of a registration is made with the answer of the   *)
(* boot whose key the object knows.  The key changes only while the object *)
(* is idle and works on nothing.                                           *)
(*                                                                         *)
(* FitInvariant.  Every KE3 under way fits the session that it names, so   *)
(* no finalize fails and no failure is counted.                            *)
(*                                                                         *)
(* HeldInvariant.  What an object knows of its session is true from the    *)
(* evaluate that opens it to the call that uses it.  That the session      *)
(* stays in the map rests on FitInvariant, since only a finalize that      *)
(* fails deletes one, and that it is nobody else's on PrivateUntilCreate.  *)
(***************************************************************************)
EXTENDS ClientLibrary, TwoFactorRefinement

\* The record that an object sends was made with the key that it knows.
OneBoot == \A a \in Apps : work[a].op = "registration" => work[a].epoch = trusts[a]

-----------------------------------------------------------------------------
\* Every step of the composition is a step of the dispatcher or leaves its
\* state alone.
LEMMA DispatcherSteps == ASSUME [ClientNext]_cvars PROVE [Next]_vars
<1>1. CASE \E a \in Apps : \/ NewClient(a) \/ Register(a) \/ Authenticate(a)
                           \/ CallService(a) \/ Receive(a) \/ GiveUp(a) \/ RegEvaluate(a)
    BY <1>1 DEF NewClient, Register, Authenticate, CallService, Begin, Receive, SendRecord,
        SendKE3, FinishAuthenticate, Finish, ReturnError, GiveUp, RegEvaluate
<1>2. CASE \E p \in Procs : (\E a \in Apps : Deliver(a, p)) \/ DeliverLate(p) \/ Serve(p)
    BY <1>2 DEF Deliver, DeliverLate, Serve, Next
<1>3. CASE RestartServer \/ Background
    BY <1>3 DEF RestartServer, Background, Next
<1>4. CASE UNCHANGED cvars
    BY <1>4 DEF cvars
<1> QED
    BY <1>1, <1>2, <1>3, <1>4 DEF ClientNext

\* The composition implements the dispatcher's specification: the library is
\* one of the clients that TwoFactor allows (client.go against dispatcher.go).
THEOREM ImplementsDispatcher == ClientSpec => Spec
<1>1. ClientInit => Init
    BY DEF ClientInit
<1> QED
    BY <1>1, DispatcherSteps, PTL DEF ClientSpec, Spec

\* The gate admits only proven sessions, also to the requests of the library,
\* the late ones and those of two objects of one account included.
THEOREM LibraryPassesGate == ClientSpec => []GateAdmitsOnlyProven
BY ImplementsDispatcher, GateSound, PTL

-----------------------------------------------------------------------------
\* The constants of the client's types.
LEMMA ClientConstants ==
    /\ NoWork \in Work /\ NoWork.op = "service2FA" /\ NoWork.sid = NoSession
    /\ ErrorReply \in Reply /\ ErrorReply.ok = FALSE
BY TwoFactorAssumption DEF NoWork, Work, Exchanges, ErrorReply, Reply

\* The first state of the client objects.
LEMMA ClientStart == ClientInit => ClientTypeOK /\ OneBoot
BY TwoFactorAssumption, ClientAssumption, ClientConstants
   DEF ClientInit, ClientTypeOK, OneBoot, Stages

\* The steps that begin an exchange keep the types.
LEMMA SendKeeps ==
    ASSUME ClientTypeOK, NEW a \in Apps, NEW w \in Work, Send(a, w),
           stage[a] # "served", held' = held, calls' \in 0..MaxCalls,
           wrong' \in [Keys -> Nat]
    PROVE  ClientTypeOK'
BY ClientConstants DEF ClientTypeOK, Send, Stages

\* The request of an object is one that the dispatcher can decode.
LEMMA RequestOfType ==
    ASSUME ClientTypeOK, NEW a \in Apps, work[a].op # "regEvaluate"
    PROVE  RequestOf(a) \in Request
<1>1. work[a] \in Work
    BY DEF ClientTypeOK
<1>2. work[a].op \in RequestTypes /\ 0 \in Durations
    BY <1>1, ClientAssumption, TwoFactorAssumption DEF Work, Exchanges
<1>3. Account[a][1] \in Clients /\ Account[a][2] \in Contexts
    BY ClientAssumption DEF Keys
<1> QED
    BY <1>1, <1>2, <1>3 DEF Work, Request, RequestOf

\* The steps that end a call keep the types, and work on nothing.
LEMMA ReturnKeeps ==
    ASSUME ClientTypeOK, OneBoot, NEW a \in Apps, Return(a),
           held' \in [Apps -> SessionIds \cup {NoSession}], late' \in SUBSET Request,
           wrong' \in [Keys -> Nat]
    PROVE  ClientTypeOK' /\ OneBoot'
<1>1. ClientTypeOK'
    BY ClientConstants DEF ClientTypeOK, Return, Stages
<1>2. OneBoot'
    BY ClientConstants DEF ClientTypeOK, OneBoot, Return
<1> QED
    BY <1>1, <1>2

\* A step of an object keeps what is true of the records it sends.
LEMMA ObjectSteps ==
    ASSUME TypeOK, ClientTypeOK, OneBoot, NEW a \in Apps,
           \/ NewClient(a) \/ Register(a) \/ Authenticate(a) \/ CallService(a)
           \/ Receive(a) \/ GiveUp(a) \/ RegEvaluate(a)
    PROVE  ClientTypeOK' /\ OneBoot'
<1> DEFINE Kept == ClientTypeOK' /\ OneBoot'
<1>0. wrong' \in [Keys -> Nat]
    <2>1. wrong \in [Keys -> Nat] /\ Account[a] \in Keys
        BY ClientAssumption DEF ClientTypeOK
    <2>2. CASE Receive(a)
        <3>1. NotePassword(a)
            BY <2>2 DEF Receive
        <3> QED
            BY <2>1, <3>1 DEF NotePassword
    <2>3. CASE ~Receive(a)
        <3>1. wrong' = wrong
            BY <2>3 DEF NewClient, Register, Authenticate, CallService, Begin, GiveUp, RegEvaluate
        <3> QED
            BY <2>1, <3>1
    <2> QED
        BY <2>2, <2>3
<1>1. epoch \in 0..MaxRestarts /\ work[a] \in Work /\ reply[a] \in Reply
      /\ held[a] \in SessionIds \cup {NoSession}
    BY DEF TypeOK, ClientTypeOK
<1>2. CASE NewClient(a)
    BY <1>0, <1>1, <1>2, ClientConstants DEF NewClient, Idle, ClientTypeOK, OneBoot
<1>3. ASSUME NEW w \in Work, w.op # "registration", Begin(a, w)
      PROVE  Kept
    <2>1. /\ Send(a, w) /\ stage[a] # "served" /\ held' = held
          /\ calls' \in 0..MaxCalls
        BY <1>3, ClientAssumption DEF Begin, Idle, ClientTypeOK
    <2>2. ClientTypeOK'
        BY <1>0, <2>1, SendKeeps
    <2>3. OneBoot'
        BY <1>3, <2>1 DEF Send, ClientTypeOK, OneBoot
    <2> QED
        BY <2>2, <2>3
<1>4. CASE Register(a)
    <2>1. PICK pw \in Passwords :
             Begin(a, [NoWork EXCEPT !.op = "regEvaluate", !.password = pw])
        BY <1>4 DEF Register
    <2>2. /\ [NoWork EXCEPT !.op = "regEvaluate", !.password = pw] \in Work
          /\ [NoWork EXCEPT !.op = "regEvaluate", !.password = pw].op # "registration"
        BY ClientConstants DEF Work, Exchanges
    <2> QED
        BY <1>3, <2>1, <2>2
<1>5. CASE Authenticate(a)
    <2>1. PICK pw \in Passwords :
             Begin(a, [NoWork EXCEPT !.op = "evaluate", !.password = pw])
        BY <1>5 DEF Authenticate
    <2>2. /\ [NoWork EXCEPT !.op = "evaluate", !.password = pw] \in Work
          /\ [NoWork EXCEPT !.op = "evaluate", !.password = pw].op # "registration"
        BY ClientConstants DEF Work, Exchanges
    <2> QED
        BY <1>3, <2>1, <2>2
<1>6. CASE CallService(a)
    <2>1. [NoWork EXCEPT !.sid = held[a]] \in Work
          /\ [NoWork EXCEPT !.sid = held[a]].op # "registration"
        BY <1>1, TwoFactorAssumption DEF NoWork, Work, Exchanges
    <2> QED
        BY <1>3, <1>6, <2>1 DEF CallService
<1>7. CASE SendRecord(a)
    <2> DEFINE w == [work[a] EXCEPT !.op = "registration", !.epoch = reply[a].boot]
    <2>1. w \in Work /\ w.epoch = trusts[a]
        BY <1>1, <1>7 DEF Work, Exchanges, Reply, SendRecord, Verify
    <2>2. Send(a, w) /\ stage[a] # "served" /\ held' = held /\ calls' \in 0..MaxCalls
        BY <1>7 DEF SendRecord, Answered, ClientTypeOK
    <2> HIDE DEF w
    <2>3. ClientTypeOK'
        BY <2>1, <2>2, <1>0, SendKeeps
    <2>4. OneBoot'
        BY <2>1, <2>2 DEF Send, ClientTypeOK, OneBoot
    <2> QED
        BY <2>3, <2>4
<1>8. CASE SendKE3(a)
    <2> DEFINE w == [work[a] EXCEPT !.op = "finalize", !.sid = reply[a].sid]
    <2>1. w \in Work /\ w.op = "finalize"
        BY <1>1, <1>8 DEF Work, Exchanges, Reply
    <2>2. Send(a, w) /\ stage[a] # "served" /\ held' = held /\ calls' \in 0..MaxCalls
        BY <1>8 DEF SendKE3, Answered, ClientTypeOK
    <2> HIDE DEF w
    <2>3. ClientTypeOK'
        BY <2>1, <2>2, <1>0, SendKeeps
    <2>4. OneBoot'
        BY <2>1, <2>2 DEF Send, ClientTypeOK, OneBoot
    <2> QED
        BY <2>3, <2>4
<1>9. CASE FinishAuthenticate(a) \/ Finish(a) \/ ReturnError(a) \/ GiveUp(a)
    <2>1. held' \in [Apps -> SessionIds \cup {NoSession}]
        BY <1>1, <1>9 DEF FinishAuthenticate, Finish, ReturnError, GiveUp, ClientTypeOK, Work
    <2>2. late' \in SUBSET Request
        BY <1>9, RequestOfType DEF FinishAuthenticate, Finish, ReturnError, GiveUp, ClientTypeOK
    <2>3. Return(a)
        BY <1>9 DEF FinishAuthenticate, Finish, ReturnError, GiveUp
    <2> QED
        BY <2>1, <2>2, <2>3, <1>0, ReturnKeeps
<1>10. CASE RegEvaluate(a)
    <2>1. [ErrorReply EXCEPT !.ok = TRUE, !.boot = epoch] \in Reply
        BY <1>1 DEF ErrorReply, Reply
    <2> QED
        BY <1>0, <1>10, <2>1 DEF RegEvaluate, ClientTypeOK, OneBoot, Stages
<1> QED
    BY <1>2, <1>4, <1>5, <1>6, <1>7, <1>8, <1>9, <1>10 DEF Receive

\* So does a step of the transport or of the server, which leaves what objects
\* know and work on as it is.
LEMMA ServerSteps ==
    ASSUME TypeOK, ClientTypeOK, OneBoot,
           \/ \E p \in Procs : \/ \E a \in Apps : Deliver(a, p)
                               \/ DeliverLate(p) \/ Serve(p)
           \/ RestartServer \/ Background \/ UNCHANGED cvars
    PROVE  ClientTypeOK' /\ OneBoot'
<1>1. UNCHANGED <<trusts, work>>
    BY DEF Deliver, DeliverLate, Serve, SendAnswer, RestartServer, Background, clientVars, cvars
<1>2. OneBoot'
    BY <1>1 DEF OneBoot
<1>3. ASSUME NEW p \in Procs, NEW a \in Apps, Deliver(a, p)
      PROVE  ClientTypeOK'
    BY <1>3, ClientAssumption DEF Deliver, ClientTypeOK, Stages
<1>4. ASSUME NEW p \in Procs, DeliverLate(p)
      PROVE  ClientTypeOK'
    BY <1>4 DEF DeliverLate, ClientTypeOK
<1>5. ASSUME NEW p \in Procs, SendAnswer(p)
      PROVE  ClientTypeOK'
    <2>1. PICK ok \in BOOLEAN :
             reply' = [a \in Apps |-> IF a \in Waiting(p)
                                      THEN [ok |-> ok, boot |-> epoch,
                                            sid |-> IF pc[p] = "create" THEN ptr[p]
                                                    ELSE NoSession]
                                      ELSE reply[a]]
        BY <1>5 DEF SendAnswer
    <2>2. [ok |-> ok, boot |-> epoch, sid |-> IF pc[p] = "create" THEN ptr[p] ELSE NoSession]
             \in Reply
        BY DEF TypeOK, Reply
    <2> QED
        BY <1>5, <2>1, <2>2, ClientAssumption DEF SendAnswer, ClientTypeOK, Stages, Waiting
<1>6. ASSUME NEW p \in Procs, Serve(p)
      PROVE  ClientTypeOK'
    BY <1>5, <1>6 DEF Serve, clientVars, ClientTypeOK
<1>7. CASE RestartServer
    BY <1>2, <1>7, ClientAssumption DEF RestartServer, ClientTypeOK, Stages
<1>8. CASE Background \/ UNCHANGED cvars
    BY <1>2, <1>8 DEF Background, cvars, clientVars, ClientTypeOK
<1> QED
    BY <1>2, <1>3, <1>4, <1>6, <1>7, <1>8

\* The client's variables have their types, and every record that is on its
\* way was made with the key its object knows (Register in client.go).
THEOREM ClientInvariance == ClientSpec => [](ClientTypeOK /\ OneBoot)
<1>1. ASSUME TypeOK, ClientTypeOK, OneBoot, [ClientNext]_cvars
      PROVE  ClientTypeOK' /\ OneBoot'
    BY <1>1, ObjectSteps, ServerSteps DEF ClientNext
<1> QED
    BY <1>1, ClientStart, ImplementsDispatcher, TypeAndPointers, PTL DEF ClientSpec

\* A registration that succeeds was made and stored by one boot of the server,
\* for any number of objects, restarts and lost answers (client.go, Register).
THEOREM RegistrationOneBoot == ClientSpec => []RegisteredWithOneBoot
<1>1. OneBoot => RegisteredWithOneBoot
    BY DEF OneBoot, RegisteredWithOneBoot, Answered, Verify
<1> QED
    BY <1>1, ClientInvariance, PTL

-----------------------------------------------------------------------------
(***************************************************************************)
(* No failure.  A KE3 that is sent fits its session (KE3Fits) and goes on  *)
(* to fit it while it is late (LateFits) or waits for Get (the last part   *)
(* of Route), because the ClientMAC of a session never changes.  That it   *)
(* fits when it is made needs the session of the evaluate's answer, hence  *)
(* SessionTold, and for that Served and the rest of Route: which type of   *)
(* request is at which label.                                              *)
(***************************************************************************)

\* A KE3 made with password pw fits session s.
Fits(s, pw) == /\ s \in SessionIds /\ Exists(s)
               /\ pw \in Passwords
               /\ session[s].mac = pw

\* A goroutine is where its type of request leads, never at RecordFailure.
Route(p) ==
    /\ pc[p] \notin {"fail", "delete"}
    /\ pc[p] \in {"check", "lookup", "mint", "create"} => req[p].type = "evaluate"
    /\ pc[p] \in {"find", "success", "mark", "inc"} => req[p].type = "finalize"
    /\ pc[p] \in {"gate", "verify", "handle", "put"} => req[p].type \notin {"evaluate", "finalize"}
    /\ pc[p] = "find" => Fits(req[p].sid, req[p].password)

LateFits == \A r \in late : r.type = "finalize" => Fits(r.sid, r.password)

KE3Fits == \A a \in Apps :
              /\ work[a].op = "finalize" => Fits(work[a].sid, work[a].password)
              /\ work[a].op = "evaluate" => work[a].password \in Passwords

\* The goroutine that an object waits for serves the request it has sent.
Served == \A a \in Apps : by[a] # NoProc => /\ pc[by[a]] # "idle"
                                           /\ req[by[a]] = RequestOf(a)

\* A successful answer to evaluate names a session.
SessionTold == \A a \in Apps : reply[a].ok /\ work[a].op = "evaluate" =>
                                  reply[a].sid \in SessionIds /\ Exists(reply[a].sid)

\* The library's requests have made the server count no failure.
NoneCounted == \A k \in Keys : attempts[k].failures = 0

FitInvariant == /\ \A p \in Procs : Route(p)
                /\ NoneCounted
                /\ LateFits /\ KE3Fits /\ Served /\ SessionTold

\* Once a session exists it stays, with the authenticator it expects.
LEMMA MacPersists ==
    ASSUME TypeOK, PointersValid, [Next]_vars
    PROVE  \A s \in SessionIds : Exists(s) => /\ session'[s] # Unallocated
                                             /\ session'[s].mac = session[s].mac
BY SessionsPersist, SessionFieldsPersist

\* A goroutine goes on along its route: what is found fits.
LEMMA RouteStep ==
    ASSUME TypeOK, PointersValid, NEW p \in Procs, Step(p), Route(p)
    PROVE  Route(p)'
<1>1. /\ pc'[p] # "find"
      /\ pc'[p] = "idle" \/ req'[p] = req[p]
    BY DEF TypeOK, Step, CheckLockout, LookupRecord, MintSession, CreateSession,
        FindSession, CountFailure, DeleteSession, CountSuccess, MarkSession, IncrementGauge,
        GateGet, GateVerify, HandleService, PutRecord, Answer, Goto
<1>2. CASE FindSession(p)
    <2>1. pc[p] = "find" /\ Fits(req[p].sid, req[p].password)
        BY <1>2 DEF FindSession, At, Route
    <2>2. Get(req[p].sid) # NoSession => AuthFinalize(Get(req[p].sid), req[p].password)
        BY <2>1, GetType DEF Fits, AuthFinalize, TypeOK
    <2>3. pc'[p] \in {"idle", "success"}
        BY <1>2, <2>2 DEF FindSession, Answer, Goto, TypeOK
    <2> QED
        BY <1>1, <2>1, <2>3 DEF Route
<1>3. CASE ~FindSession(p)
    <2>1. /\ pc[p] \in {"check", "lookup", "mint", "create"} =>
               pc'[p] \in {"idle", "lookup", "mint", "create"}
          /\ pc[p] \in {"success", "mark", "inc"} => pc'[p] \in {"idle", "mark", "inc"}
          /\ pc[p] \in {"gate", "verify", "handle", "put"} =>
               pc'[p] \in {"idle", "verify", "handle", "put"}
          /\ pc[p] \in {"check", "lookup", "mint", "create", "success", "mark", "inc",
                        "gate", "verify", "handle", "put"}
        BY <1>3 DEF TypeOK, Route, At, Step, CheckLockout, LookupRecord, MintSession,
            CreateSession, CountFailure, DeleteSession, CountSuccess, MarkSession,
            IncrementGauge, GateGet, GateVerify, HandleService, PutRecord, Answer, Goto
    <2> QED
        BY <1>1, <2>1 DEF Route
<1> QED
    BY <1>2, <1>3

\* Without a failure on the way the counter stays at zero.
LEMMA CounterStep ==
    ASSUME TypeOK, [Next]_vars, \A p \in Procs : Route(p), NoneCounted
    PROVE  NoneCounted'
<1>1. ASSUME NEW k \in Keys, attempts' = [attempts EXCEPT ![k] = NoAttempts]
      PROVE  NoneCounted'
    BY <1>1 DEF NoneCounted, TypeOK, CounterTypeOK, NoAttempts
<1>2. CASE attempts' = attempts
    BY <1>2 DEF NoneCounted
<1>3. ASSUME NEW p \in Procs, CheckLockout(p) \/ CountSuccess(p)
      PROVE  NoneCounted'
    <2>1. KeyOf(p) \in Keys
        BY <1>3, RequestType DEF CheckLockout, CountSuccess, At
    <2> QED
        BY <1>1, <1>2, <1>3, <2>1 DEF CheckLockout, Check, CountSuccess, RecordSuccess
<1>4. CASE Restart
    BY <1>4 DEF Restart, NoneCounted, NoAttempts
<1>5. attempts' = attempts \/ Restart \/ \E p \in Procs : CheckLockout(p) \/ CountSuccess(p)
    BY DEF Route, At, Next, Step, vars, Process, LookupRecord, MintSession, CreateSession,
        FindSession, CountFailure, DeleteSession, MarkSession, IncrementGauge, GateGet,
        GateVerify, HandleService, PutRecord, CleanSessions, SubtractGauge, Tick
<1> QED
    BY <1>2, <1>3, <1>4, <1>5

\* The steps of the dispatcher, and those that leave it alone, keep what is
\* true of the requests that are late or being made.
LEMMA FitsKept ==
    ASSUME TypeOK, PointersValid, [Next]_vars, LateFits, KE3Fits, UNCHANGED work,
           late' \subseteq late
    PROVE  LateFits' /\ KE3Fits'
BY MacPersists DEF LateFits, KE3Fits, Fits, Exists

\* So do an exchange that begins, if its KE3 fits,
LEMMA SendFits ==
    ASSUME ClientTypeOK, FitInvariant, UNCHANGED vars, NEW a \in Apps, NEW w \in Work,
           Send(a, w), stage[a] # "served",
           w.op = "finalize" => Fits(w.sid, w.password),
           w.op = "evaluate" => w.password \in Passwords
    PROVE  FitInvariant'
<1>1. by[a] = NoProc
    BY DEF ClientTypeOK
<1>2. (\A p \in Procs : Route(p)') /\ NoneCounted' /\ LateFits'
    BY DEF FitInvariant, Route, NoneCounted, LateFits, Fits, Exists, Send, vars
<1>3. KE3Fits' /\ Served'
    BY <1>1 DEF FitInvariant, KE3Fits, Served, RequestOf, Fits, Exists, Send, vars, ClientTypeOK
<1>4. SessionTold'
    BY ClientConstants DEF FitInvariant, SessionTold, Exists, Send, vars, ClientTypeOK
<1> QED
    BY <1>2, <1>3, <1>4 DEF FitInvariant

\* and a call that ends.
LEMMA ReturnFits ==
    ASSUME ClientTypeOK, FitInvariant, UNCHANGED vars, NEW a \in Apps, Return(a), LateFits'
    PROVE  FitInvariant'
<1>1. (\A p \in Procs : Route(p)') /\ NoneCounted'
    BY DEF FitInvariant, Route, NoneCounted, Fits, Exists, vars
<1>2. KE3Fits' /\ Served'
    BY ClientConstants DEF FitInvariant, KE3Fits, Served, RequestOf, Fits, Exists, Return, vars,
        ClientTypeOK
<1>3. SessionTold'
    BY ClientConstants DEF FitInvariant, SessionTold, Exists, Return, vars, ClientTypeOK
<1> QED
    BY <1>1, <1>2, <1>3 DEF FitInvariant

\* The steps of a client object.
LEMMA ObjectFits ==
    ASSUME ClientTypeOK, FitInvariant, NEW a \in Apps,
           \/ NewClient(a) \/ Register(a) \/ Authenticate(a) \/ CallService(a)
           \/ Receive(a) \/ GiveUp(a) \/ RegEvaluate(a)
    PROVE  FitInvariant'
<1>1. /\ UNCHANGED vars /\ work[a] \in Work /\ reply[a] \in Reply
      /\ held[a] \in SessionIds \cup {NoSession}
    BY DEF ClientTypeOK, NewClient, Register, Authenticate, CallService, Begin, Receive,
        SendRecord, SendKE3, FinishAuthenticate, Finish, ReturnError, GiveUp, RegEvaluate
<1>2. CASE NewClient(a)
    BY <1>1, <1>2 DEF NewClient, FitInvariant, Route, NoneCounted, LateFits, KE3Fits,
        Served, RequestOf, SessionTold, Fits, Exists, vars
<1>3. ASSUME NEW w \in Work, Begin(a, w), w.op # "finalize",
             w.op = "evaluate" => w.password \in Passwords
      PROVE  FitInvariant'
    BY <1>1, <1>3, SendFits DEF Begin, Idle
<1>4. CASE Register(a)
    <2>1. PICK pw \in Passwords :
             Begin(a, [NoWork EXCEPT !.op = "regEvaluate", !.password = pw])
        BY <1>4 DEF Register
    <2>2. /\ [NoWork EXCEPT !.op = "regEvaluate", !.password = pw] \in Work
          /\ [NoWork EXCEPT !.op = "regEvaluate", !.password = pw].op = "regEvaluate"
        BY ClientConstants DEF Work, Exchanges
    <2> QED
        BY <1>3, <2>1, <2>2
<1>5. CASE Authenticate(a)
    <2>1. PICK pw \in Passwords :
             Begin(a, [NoWork EXCEPT !.op = "evaluate", !.password = pw])
        BY <1>5 DEF Authenticate
    <2>2. /\ [NoWork EXCEPT !.op = "evaluate", !.password = pw] \in Work
          /\ [NoWork EXCEPT !.op = "evaluate", !.password = pw].op = "evaluate"
          /\ [NoWork EXCEPT !.op = "evaluate", !.password = pw].password = pw
        BY ClientConstants DEF Work, Exchanges
    <2> QED
        BY <1>3, <2>1, <2>2
<1>6. CASE CallService(a)
    <2>1. /\ [NoWork EXCEPT !.sid = held[a]] \in Work
          /\ [NoWork EXCEPT !.sid = held[a]].op = "service2FA"
        BY <1>1, ClientConstants DEF Work, Exchanges
    <2> QED
        BY <1>3, <1>6, <2>1 DEF CallService
<1>7. CASE SendRecord(a)
    <2> DEFINE w == [work[a] EXCEPT !.op = "registration", !.epoch = reply[a].boot]
    <2>1. w \in Work /\ w.op = "registration"
        BY <1>1 DEF Work, Exchanges, Reply
    <2>2. Send(a, w) /\ stage[a] # "served"
        BY <1>7 DEF SendRecord, Answered
    <2> HIDE DEF w
    <2> QED
        BY <1>1, <2>1, <2>2, SendFits
<1>8. CASE SendKE3(a)
    <2> DEFINE w == [work[a] EXCEPT !.op = "finalize", !.sid = reply[a].sid]
    <2>1. /\ w \in Work /\ w.op = "finalize"
          /\ w.sid = reply[a].sid /\ w.password = work[a].password
        BY <1>1 DEF Work, Exchanges, Reply
    <2>2. Send(a, w) /\ stage[a] # "served"
        BY <1>8 DEF SendKE3, Answered
    <2>3. Fits(reply[a].sid, work[a].password)
        BY <1>8 DEF SendKE3, Answered, Verify, GenerateKE3, FitInvariant, SessionTold, KE3Fits, Fits
    <2> HIDE DEF w
    <2> QED
        BY <1>1, <2>1, <2>2, <2>3, SendFits
<1>9. CASE FinishAuthenticate(a) \/ Finish(a) \/ ReturnError(a) \/ GiveUp(a)
    <2>1. Return(a)
        BY <1>9 DEF FinishAuthenticate, Finish, ReturnError, GiveUp
    <2>2. late' \subseteq late \cup {RequestOf(a)}
        BY <1>9 DEF FinishAuthenticate, Finish, ReturnError, GiveUp
    <2>3. RequestOf(a).type = "finalize" => Fits(RequestOf(a).sid, RequestOf(a).password)
        BY DEF RequestOf, FitInvariant, KE3Fits
    <2>4. LateFits'
        BY <1>1, <2>2, <2>3 DEF FitInvariant, LateFits, Fits, Exists, vars
    <2> QED
        BY <1>1, <2>1, <2>4, ReturnFits
<1>10. CASE RegEvaluate(a)
    BY <1>1, <1>10 DEF RegEvaluate, FitInvariant, Route, NoneCounted, LateFits, KE3Fits,
        Served, RequestOf, SessionTold, Fits, Exists, vars, ClientTypeOK
<1> QED
    BY <1>2, <1>4, <1>5, <1>6, <1>7, <1>8, <1>9, <1>10 DEF Receive

\* A request that arrives starts on its route.
LEMMA ArrivalFits ==
    ASSUME TypeOK, PointersValid, ClientTypeOK, FitInvariant, NEW p \in Procs, Process(p),
           req'[p].type = "finalize" => Fits(req'[p].sid, req'[p].password)
    PROVE  (\A q \in Procs : Route(q)') /\ NoneCounted'
<1>1. PICK r \in Request : req' = [req EXCEPT ![p] = r] /\ pc' = [pc EXCEPT ![p] = EntryOf(r.type)]
    BY DEF Process
<1>2. r.type \in AllTypes /\ req'[p] = r /\ pc'[p] = EntryOf(r.type)
    BY <1>1, TwoFactorAssumption DEF Request, TypeOK
<1>3. session' = session /\ attempts' = attempts
    BY DEF Process
<1>4. Route(p)'
    BY <1>2, <1>3 DEF Route, EntryOf, AllTypes, Fits, Exists
<1>5. ASSUME NEW q \in Procs \ {p} PROVE Route(q)'
    BY <1>3, OthersUntouched DEF Route, FitInvariant, Fits, Exists
<1> QED
    BY <1>3, <1>4, <1>5 DEF FitInvariant, NoneCounted

\* The transport and the server.
LEMMA ServerFits ==
    ASSUME TypeOK, PointersValid, ClientTypeOK, FitInvariant, [Next]_vars,
           \/ \E p \in Procs : \/ \E a \in Apps : Deliver(a, p)
                               \/ DeliverLate(p) \/ Serve(p)
           \/ RestartServer \/ Background \/ UNCHANGED cvars
    PROVE  FitInvariant'
<1>1. UNCHANGED work /\ late' \subseteq late
    BY DEF Deliver, DeliverLate, Serve, SendAnswer, RestartServer, Background, clientVars, cvars
<1>2. LateFits' /\ KE3Fits'
    BY <1>1, FitsKept DEF FitInvariant
<1>3. reply' = reply => SessionTold'
    BY <1>1, MacPersists DEF FitInvariant, SessionTold, Exists
<1>4. ASSUME NEW p \in Procs, NEW a \in Apps, Deliver(a, p)
      PROVE  FitInvariant'
    <2>1. /\ Process(p) /\ req'[p] = RequestOf(a) /\ reply' = reply
          /\ by' = [by EXCEPT ![a] = p]
        BY <1>4 DEF Deliver
    <2>2. /\ req'[p].type = work[a].op
          /\ req'[p].type = "finalize" => Fits(req'[p].sid, req'[p].password)
        BY <2>1 DEF RequestOf, FitInvariant, KE3Fits
    <2>3. pc[p] = "idle" /\ pc'[p] # "idle"
        BY <2>1, EntryBeforeGate DEF Process, At, TypeOK
    <2>4. Served'
        BY <1>1, <2>1, <2>3, OthersUntouched DEF FitInvariant, Served, RequestOf, ClientTypeOK
    <2> QED
        BY <1>2, <1>3, <2>1, <2>2, <2>4, ArrivalFits DEF FitInvariant
<1>5. ASSUME NEW p \in Procs, DeliverLate(p)
      PROVE  FitInvariant'
    <2>1. Process(p) /\ req'[p] \in late /\ reply' = reply /\ by' = by
        BY <1>5 DEF DeliverLate
    <2>2. req'[p].type = "finalize" => Fits(req'[p].sid, req'[p].password)
        BY <2>1 DEF FitInvariant, LateFits
    <2>3. pc[p] = "idle"
        BY <2>1 DEF Process, At
    <2>4. Served'
        BY <1>1, <2>1, <2>3, OthersUntouched DEF FitInvariant, Served, RequestOf, ClientTypeOK
    <2> QED
        BY <1>2, <1>3, <2>1, <2>2, <2>4, ArrivalFits DEF FitInvariant
<1>6. ASSUME NEW p \in Procs, Serve(p)
      PROVE  FitInvariant'
    <2>1. Step(p) /\ Route(p)
        BY <1>6 DEF Serve, FitInvariant
    <2>2. pc[p] # "idle" /\ (pc'[p] # "idle" => req'[p] = req[p])
        BY <2>1 DEF TypeOK, At, Step, CheckLockout, LookupRecord, MintSession, CreateSession,
            FindSession, CountFailure, DeleteSession, CountSuccess, MarkSession,
            IncrementGauge, GateGet, GateVerify, HandleService, PutRecord, Answer, Goto
    <2>3. ASSUME NEW q \in Procs PROVE Route(q)'
        <3>1. CASE q = p
            BY <2>1, <3>1, RouteStep
        <3>2. CASE q # p
            BY <2>1, <3>2, OthersUntouched, MacPersists DEF Route, FitInvariant, Fits, Exists
        <3> QED
            BY <3>1, <3>2
    <2>4. NoneCounted'
        BY CounterStep DEF FitInvariant
    <2>5. CASE pc'[p] # "idle"
        <3>1. UNCHANGED clientVars
            BY <1>6, <2>5 DEF Serve
        <3>2. Served'
            BY <2>1, <2>2, <2>5, <3>1, OthersUntouched
               DEF FitInvariant, Served, RequestOf, clientVars, ClientTypeOK
        <3> QED
            BY <1>2, <1>3, <2>3, <2>4, <3>1, <3>2 DEF FitInvariant, clientVars
    <2>6. CASE pc'[p] = "idle"
        <3>1. SendAnswer(p)
            BY <1>6, <2>6 DEF Serve
        <3>2. Served'
            BY <1>1, <2>1, <3>1, OthersUntouched
               DEF FitInvariant, Served, RequestOf, SendAnswer, Waiting, ClientTypeOK
        <3>3. PICK ok \in BOOLEAN :
                 /\ ok => Succeeds(p)
                 /\ reply' = [a \in Apps |-> IF a \in Waiting(p)
                                             THEN [ok |-> ok, boot |-> epoch,
                                                   sid |-> IF pc[p] = "create" THEN ptr[p]
                                                           ELSE NoSession]
                                             ELSE reply[a]]
            BY <3>1 DEF SendAnswer
        <3>4. ASSUME NEW a \in Apps, reply'[a].ok, work'[a].op = "evaluate"
              PROVE  reply'[a].sid \in SessionIds /\ session'[reply'[a].sid] # Unallocated
            <4>1. CASE a \in Waiting(p)
                <5>1. ok /\ req[p].type = "evaluate"
                    <6>1. req[p] = RequestOf(a)
                        BY <4>1, ClientAssumption DEF Waiting, FitInvariant, Served
                    <6> QED
                        BY <1>1, <3>3, <3>4, <4>1, <6>1 DEF RequestOf
                <5>2. pc[p] = "create"
                    BY <2>1, <3>3, <5>1 DEF Succeeds, Route
                <5>3. ptr[p] \in SessionIds /\ Exists(ptr[p]) /\ reply'[a].sid = ptr[p]
                    BY <3>3, <4>1, <5>2 DEF PointersValid, UsesPointer
                <5> QED
                    BY <5>3, MacPersists
            <4>2. CASE a \notin Waiting(p)
                BY <1>1, <3>3, <3>4, <4>2, MacPersists DEF FitInvariant, SessionTold
            <4> QED
                BY <4>1, <4>2
        <3> QED
            BY <1>2, <2>3, <2>4, <3>2, <3>4 DEF FitInvariant, SessionTold, Exists
    <2> QED
        BY <2>5, <2>6
<1>7. CASE RestartServer
    <2>1. /\ pc' = [p \in Procs |-> "idle"] /\ reply' = reply
          /\ by' = [a \in Apps |-> NoProc]
        BY <1>7 DEF RestartServer, Restart
    <2>2. (\A p \in Procs : Route(p)') /\ Served'
        BY <2>1 DEF Route, Served
    <2> QED
        BY <1>2, <1>3, <2>1, <2>2, CounterStep DEF FitInvariant
<1>8. CASE Background \/ UNCHANGED cvars
    <2>1. UNCHANGED <<pc, req, session, clientVars>>
        BY <1>8 DEF Background, CleanSessions, SubtractGauge, Tick, cvars, vars
    <2>2. (\A p \in Procs : Route(p)') /\ Served'
        BY <2>1 DEF Route, Served, RequestOf, FitInvariant, Fits, Exists, clientVars
    <2> QED
        BY <1>2, <1>3, <2>1, <2>2, CounterStep DEF FitInvariant, clientVars
<1> QED
    BY <1>4, <1>5, <1>6, <1>7, <1>8

\* FitInvariant holds in every reachable state (Authenticate, authFinalize).
THEOREM FitInvariance == ClientSpec => []FitInvariant
<1>1. ClientInit => FitInvariant
    BY ClientConstants DEF ClientInit, Init, CounterInit, NoAttempts, FitInvariant, Route,
        NoneCounted, LateFits, KE3Fits, Served, SessionTold
<1>2. ASSUME TypeOK, PointersValid, ClientTypeOK, FitInvariant, [ClientNext]_cvars
      PROVE  FitInvariant'
    BY <1>2, DispatcherSteps, ObjectFits, ServerFits DEF ClientNext
<1> QED
    BY <1>1, <1>2, ClientInvariance, ImplementsDispatcher, TypeAndPointers, PTL DEF ClientSpec

\* With the right password nobody is locked out, for any number of objects,
\* restarts, lost and late requests: no failure is counted at all, so the count
\* is never above the wrong passwords tried (Authenticate in client.go).
THEOREM RightPasswordNeverLocks == ClientSpec => []LockoutOnlyByWrongPassword
<1>1. FitInvariant /\ ClientTypeOK => LockoutOnlyByWrongPassword
    BY DEF FitInvariant, NoneCounted, ClientTypeOK, LockoutOnlyByWrongPassword
<1> QED
    BY <1>1, FitInvariance, ClientInvariance, PTL

-----------------------------------------------------------------------------
(***************************************************************************)
(* The session that an object holds.  It is followed from where it is made *)
(* to where it is kept: the goroutine of an evaluate builds it for the     *)
(* account of the object that waits (Built), tells it in its answer, the   *)
(* KE3 names it (Knows), the finalize marks it (Marked) and its answer     *)
(* lets the object adopt it.  All along it belongs to that object alone    *)
(* (Ownership), and once verified it stays in the map (Good): it does not  *)
(* expire early because MintSession only dates sessions that are not yet   *)
(* verified, and no finalize deletes it because none fails (Route).        *)
(***************************************************************************)

\* Session s was opened for account k.
OpenedFor(s, k) == /\ s \in SessionIds /\ Exists(s)
                   /\ <<session[s].client, session[s].context>> = k

\* Session s is verified and, in that boot of the server, in the map until it
\* expires.
Good(s, boot) == /\ s \in SessionIds /\ Proven(s)
                 /\ boot = epoch /\ ~Expired(s) => s \in stored

Built == \A p \in Procs : pc[p] \in Building => OpenedFor(ptr[p], KeyOf(p))

Marked == \A p \in Procs : pc[p] = "inc" => Good(req[p].sid, epoch)

\* What an object knows of the server is true.
Knows(a) ==
    /\ trusts[a] <= epoch /\ reply[a].boot <= epoch
    /\ work[a].op = "finalize" => OpenedFor(work[a].sid, Account[a])
    /\ reply[a].ok /\ work[a].op = "evaluate" => OpenedFor(reply[a].sid, Account[a])
    /\ reply[a].ok /\ work[a].op = "finalize" => Good(work[a].sid, reply[a].boot)
    /\ held[a] # NoSession => OpenedFor(held[a], Account[a]) /\ Good(held[a], trusts[a])

\* The sessions that an object has got or is about to get.
Owns(a, s) == \/ s \in {held[a], work[a].sid, reply[a].sid}
              \/ by[a] # NoProc /\ pc[by[a]] \in Building /\ ptr[by[a]] = s

Ownership ==
    /\ \A a, b \in Apps : a # b /\ by[a] # NoProc => by[a] # by[b]
    /\ \A a \in Apps, s \in SessionIds : Owns(a, s) => Exists(s)
    /\ \A a, b \in Apps, s \in SessionIds : Owns(a, s) /\ Owns(b, s) => a = b

HeldInvariant == Built /\ Marked /\ (\A a \in Apps : Knows(a)) /\ Ownership

\* What earlier theorems give for every reachable state.
Context == RefinementInvariant /\ ClientTypeOK /\ FitInvariant

-----------------------------------------------------------------------------
\* A session stays that of its account.
LEMMA OpenedForKept ==
    ASSUME TypeOK, PointersValid, [Next]_vars, NEW s, NEW k, OpenedFor(s, k)
    PROVE  OpenedFor(s, k)'
BY SessionsPersist, SessionFieldsPersist DEF OpenedFor, Exists

\* Only a step of the goroutine that is dating a session changes its expiry.
LEMMA ExpiryKept ==
    ASSUME TypeOK, PointersValid, [Next]_vars, NEW s \in SessionIds, Exists(s),
           \A p \in Procs : pc[p] = "mint" => ptr[p] # s
    PROVE  session'[s].expires = session[s].expires
<1>1. CASE session' = session
    BY <1>1
<1>2. ASSUME NEW p \in Procs, LookupRecord(p)
      PROVE  session'[s].expires = session[s].expires
    BY <1>2, LookupEffect
<1>3. ASSUME NEW p \in Procs, MintSession(p)
      PROVE  session'[s].expires = session[s].expires
    BY <1>3, MintEffect DEF MintSession, At
<1>4. ASSUME NEW p \in Procs, MarkSession(p)
      PROVE  session'[s].expires = session[s].expires
    BY <1>4, MarkEffect
<1> QED
    BY <1>1, <1>2, <1>3, <1>4, OtherStepsKeepSessions

\* A boot lasts until the next restart, and boots are numbered in order.
LEMMA Boots ==
    ASSUME TypeOK, [Next]_vars
    PROVE  /\ epoch' = epoch \/ (Restart /\ epoch' = epoch + 1)
           /\ epoch \in Nat /\ epoch' \in Nat /\ epoch <= epoch'
<1>1. epoch' = epoch \/ (Restart /\ epoch' = epoch + 1)
    BY DEF Next, Step, vars, Process, CheckLockout, LookupRecord, MintSession, CreateSession,
        FindSession, CountFailure, DeleteSession, CountSuccess, MarkSession, IncrementGauge,
        GateGet, GateVerify, HandleService, PutRecord, CleanSessions, SubtractGauge, Tick, Restart
<1> QED
    BY <1>1 DEF TypeOK

\* Within a boot only the cleaner takes a session of a library user out of the
\* map, and only one that has expired.
LEMMA StaysStored ==
    ASSUME [Next]_vars, \A p \in Procs : Route(p), ~Restart, NEW s \in stored, ~Expired(s)
    PROVE  s \in stored'
<1>1. CASE CleanSessions
    BY <1>1 DEF CleanSessions, CleanExpired, ExpiredIds
<1>2. CASE ~CleanSessions
    BY <1>2 DEF Route, At, Next, Step, vars, Process, CheckLockout, LookupRecord, MintSession,
        CreateSession, Create, FindSession, CountFailure, DeleteSession, CountSuccess,
        MarkSession, MarkVerified, IncrementGauge, GateGet, GateVerify, HandleService, PutRecord,
        SubtractGauge, Tick
<1> QED
    BY <1>1, <1>2

\* A good session stays good.
LEMMA GoodKept ==
    ASSUME RefinementInvariant, \A p \in Procs : Route(p), [Next]_vars,
           NEW s, NEW boot \in Nat, boot <= epoch, Good(s, boot)
    PROVE  Good(s, boot)'
<1> USE DEF RefinementInvariant, GateInvariant
<1>1. s \in SessionIds /\ Exists(s) /\ session[s].verified /\ session[s].mac \in Passwords
    BY DEF Good, Proven
<1>2. Proven(s)'
    BY <1>1, SessionsPersist, SessionFieldsPersist DEF Proven, Exists
<1>3. session'[s].expires = session[s].expires
    BY <1>1, ExpiryKept DEF PrivateUntilCreate
<1>4. ASSUME boot = epoch', ~Expired(s)'
      PROVE  s \in stored'
    <2>1. ~Restart /\ boot = epoch
        BY <1>4, Boots DEF Restart
    <2>2. ~Expired(s)
        <3>1. now \in Nat /\ now' \in Nat /\ now <= now' /\ session[s].expires \in Int
            BY <1>1, ClockMonotone DEF TypeOK, ClockTypeOK, StoreTypeOK, Session, Exists
        <3> QED
            BY <1>3, <1>4, <3>1 DEF Expired
    <2> QED
        BY <2>1, <2>2, StaysStored DEF Good
<1> QED
    BY <1>1, <1>2, <1>4 DEF Good

-----------------------------------------------------------------------------
\* What a goroutine builds is for the account of its request.
LEMMA BuiltStep ==
    ASSUME RefinementInvariant, Built, [Next]_vars
    PROVE  Built'
<1> USE DEF RefinementInvariant, GateInvariant
<1> SUFFICES ASSUME NEW q \in Procs, pc'[q] \in Building
             PROVE  OpenedFor(ptr[q], KeyOf(q))'
    BY DEF Built
<1>1. CASE LookupRecord(q) /\ pc'[q] = "mint"
    <2>1. PICK id \in SessionIds, mac \in {Answerable(KeyOf(q)), NoPassword} :
             /\ ~Exists(id)
             /\ session' = [session EXCEPT ![id] =
                              [client |-> req[q].client, context |-> req[q].context,
                               mac |-> mac, expires |-> now, verified |-> FALSE]]
             /\ ptr' = [ptr EXCEPT ![q] = id]
             /\ req' = req
        BY <1>1 DEF LookupRecord, Goto, Answer, TypeOK
    <2>2. ptr'[q] = id /\ session'[id].client = req[q].client
          /\ session'[id].context = req[q].context
        BY <2>1 DEF TypeOK, StoreTypeOK
    <2>3. session'[id] # Unallocated
        BY <1>1, <2>2, LookupEffect
    <2> QED
        BY <2>1, <2>2, <2>3 DEF OpenedFor, KeyOf, Exists
<1>2. CASE pc[q] \in Building /\ ptr'[q] = ptr[q]
    <2>1. req'[q] = req[q]
        <3>1. ASSUME NEW p \in Procs, Process(p) \/ Step(p)
              PROVE  req'[q] = req[q]
            <4>1. CASE q = p
                BY <1>2, <3>1, <4>1 DEF Building, TypeOK, At, Process, Step, CheckLockout,
                    LookupRecord, MintSession, CreateSession, FindSession, CountFailure,
                    DeleteSession, CountSuccess, MarkSession, IncrementGauge, GateGet, GateVerify,
                    HandleService, PutRecord, Answer, Goto
            <4> QED
                BY <3>1, <4>1, OthersUntouched
        <3>2. ~Restart
            BY DEF Restart, Building
        <3> QED
            BY <3>1, <3>2 DEF Next, vars, CleanSessions, SubtractGauge, Tick
    <2>2. OpenedFor(ptr[q], KeyOf(q))
        BY <1>2 DEF Built
    <2>3. OpenedFor(ptr[q], <<req[q].client, req[q].context>>)'
        BY <1>2, <2>1, <2>2, OpenedForKept DEF OpenedFor, KeyOf, Exists
    <2> QED
        BY <2>3 DEF KeyOf
<1> QED
    BY <1>1, <1>2, StartsBuilding

\* A session that was marked is good until the answer leaves.
LEMMA MarkedStep ==
    ASSUME RefinementInvariant, RefinementInvariant', \A p \in Procs : Route(p), Marked,
           [Next]_vars
    PROVE  Marked'
<1> USE DEF RefinementInvariant, GateInvariant
<1> SUFFICES ASSUME NEW q \in Procs, pc'[q] = "inc"
             PROVE  Good(req[q].sid, epoch)'
    BY DEF Marked
<1>1. CASE MarkSession(q)
    <2>1. req[q].sid \in stored /\ req' = req /\ stored' = stored
        BY <1>1 DEF MarkSession, MarkVerified, Answer, Goto, TypeOK
    <2>2. req[q].sid \in SessionIds /\ Exists(req[q].sid)
        BY <2>1 DEF PointersValid, TypeOK, StoreTypeOK
    <2>3. session'[req[q].sid] # Unallocated
        BY <2>2, SessionsPersist
    <2>4. session'[req[q].sid].verified
        BY <1>1, <2>1, <2>2 DEF MarkSession, MarkVerified, TypeOK, StoreTypeOK, Session, Exists
    <2> QED
        BY <2>1, <2>2, <2>3, <2>4 DEF Good, Proven, Exists, VerifiedOnlyByProof
<1>2. CASE ~MarkSession(q)
    <2>1. pc[q] = "inc" /\ req'[q] = req[q] /\ epoch' = epoch
        <3>1. ASSUME NEW p \in Procs, Process(p) \/ Step(p), p # q
              PROVE  pc[q] = "inc" /\ req'[q] = req[q]
            BY <3>1, OthersUntouched
        <3>2. ~Process(q)
            BY TwoFactorAssumption DEF Process, EntryOf, Request, AllTypes, TypeOK
        <3>3. ~Step(q)
            BY <1>2 DEF TypeOK, Step, CheckLockout, LookupRecord, MintSession, CreateSession,
                FindSession, CountFailure, DeleteSession, CountSuccess, IncrementGauge, GateGet,
                GateVerify, HandleService, PutRecord, Answer, Goto
        <3>4. ~Restart
            BY DEF Restart
        <3> QED
            BY <3>1, <3>2, <3>3, <3>4, Boots DEF Next, vars, CleanSessions, SubtractGauge, Tick
    <2>2. Good(req[q].sid, epoch)
        BY <2>1 DEF Marked
    <2> QED
        BY <2>1, <2>2, GoodKept, Boots DEF Good, Proven, Exists, Expired
<1> QED
    BY <1>1, <1>2

\* What an object knows stays true while others act,
LEMMA KnowsKept ==
    ASSUME Context, [Next]_vars, NEW a \in Apps, Knows(a),
           trusts'[a] = trusts[a], held'[a] = held[a], work'[a] = work[a], reply'[a] = reply[a]
    PROVE  Knows(a)'
<1> USE DEF Context, RefinementInvariant, GateInvariant, FitInvariant
<1>1. trusts[a] \in Nat /\ reply[a].boot \in Nat
    BY TwoFactorAssumption DEF ClientTypeOK, Reply
<1>2. trusts[a] <= epoch' /\ reply[a].boot <= epoch'
    BY <1>1, Boots DEF Knows
<1>3. work[a].op = "finalize" => OpenedFor(work[a].sid, Account[a])'
    BY OpenedForKept DEF Knows, OpenedFor, Exists
<1>4. ASSUME reply[a].ok, work[a].op = "evaluate"
      PROVE  OpenedFor(reply[a].sid, Account[a])'
    <2>1. OpenedFor(reply[a].sid, Account[a])
        BY <1>4 DEF Knows
    <2> QED
        BY <2>1, OpenedForKept DEF OpenedFor, Exists
<1>5. reply[a].ok /\ work[a].op = "finalize" => Good(work[a].sid, reply[a].boot)'
    BY <1>1, GoodKept DEF Knows, Good, Proven, Exists, Expired
<1>6. held[a] # NoSession => OpenedFor(held[a], Account[a])' /\ Good(held[a], trusts[a])'
    BY <1>1, OpenedForKept, GoodKept DEF Knows, OpenedFor, Good, Proven, Exists, Expired
<1> QED
    BY <1>2, <1>3, <1>4, <1>5, <1>6 DEF Knows

\* while it sends,
LEMMA KnowsSending ==
    ASSUME Context, UNCHANGED vars, NEW a \in Apps, Knows(a), NEW w \in Work, Send(a, w),
           held' = held, w.op = "finalize" => OpenedFor(w.sid, Account[a])
    PROVE  Knows(a)'
<1>1. /\ work'[a] = w /\ reply'[a] = ErrorReply /\ trusts' = trusts
      /\ UNCHANGED <<session, stored, epoch, now>>
    BY DEF Send, Context, ClientTypeOK, vars
<1>2. ~reply'[a].ok /\ reply'[a].boot = 0 /\ 0 <= epoch
    BY <1>1 DEF ErrorReply, Context, RefinementInvariant, GateInvariant, TypeOK
<1> QED
    BY <1>1, <1>2 DEF Knows, OpenedFor, Good, Proven, Exists, Expired

\* and when a call ends, with its session or the one it authenticated.
LEMMA KnowsReturning ==
    ASSUME Context, UNCHANGED vars, NEW a \in Apps, Knows(a), Return(a),
           \/ held'[a] = held[a]
           \/ OpenedFor(held'[a], Account[a]) /\ Good(held'[a], trusts[a])
    PROVE  Knows(a)'
<1>1. /\ work'[a] = NoWork /\ reply'[a] = ErrorReply /\ trusts' = trusts
      /\ UNCHANGED <<session, stored, epoch, now>>
    BY DEF Return, Context, ClientTypeOK, vars
<1>2. /\ ~reply'[a].ok /\ reply'[a].boot = 0 /\ 0 <= epoch
      /\ work'[a].op = "service2FA"
    BY <1>1, ClientConstants DEF ErrorReply, Context, RefinementInvariant, GateInvariant, TypeOK
<1> QED
    BY <1>1, <1>2 DEF Knows, OpenedFor, Good, Proven, Exists, Expired

\* The steps of a client object.
LEMMA ObjectKnows ==
    ASSUME Context, NEW a \in Apps, Knows(a),
           \/ NewClient(a) \/ Register(a) \/ Authenticate(a) \/ CallService(a)
           \/ Receive(a) \/ GiveUp(a) \/ RegEvaluate(a)
    PROVE  Knows(a)'
<1>1. /\ UNCHANGED vars /\ work[a] \in Work /\ reply[a] \in Reply
      /\ held[a] \in SessionIds \cup {NoSession} /\ epoch \in Nat
    <2>1. UNCHANGED vars
        BY DEF NewClient, Register, Authenticate, CallService, Begin, Receive, SendRecord,
            SendKE3, FinishAuthenticate, Finish, ReturnError, GiveUp, RegEvaluate
    <2> QED
        BY <2>1 DEF Context, RefinementInvariant, GateInvariant, TypeOK, ClientTypeOK
<1>2. CASE NewClient(a)
    <2>1. /\ trusts'[a] = epoch /\ held'[a] = NoSession
          /\ UNCHANGED <<work, reply, session, stored, epoch, now>>
        BY <1>1, <1>2 DEF NewClient, Context, ClientTypeOK, vars
    <2> QED
        BY <1>1, <2>1 DEF Knows, OpenedFor, Good, Proven, Exists, Expired
<1>3. ASSUME NEW w \in Work, Begin(a, w), w.op # "finalize"
      PROVE  Knows(a)'
    BY <1>1, <1>3, KnowsSending DEF Begin
<1>4. CASE Register(a) \/ Authenticate(a)
    <2>1. PICK pw \in Passwords, op \in {"regEvaluate", "evaluate"} :
             Begin(a, [NoWork EXCEPT !.op = op, !.password = pw])
        BY <1>4 DEF Register, Authenticate
    <2>2. /\ [NoWork EXCEPT !.op = op, !.password = pw] \in Work
          /\ [NoWork EXCEPT !.op = op, !.password = pw].op = op
        BY ClientConstants DEF Work, Exchanges
    <2> QED
        BY <1>3, <2>1, <2>2
<1>5. CASE CallService(a)
    <2>1. /\ [NoWork EXCEPT !.sid = held[a]] \in Work
          /\ [NoWork EXCEPT !.sid = held[a]].op = "service2FA"
        BY <1>1, ClientConstants DEF Work, Exchanges
    <2> QED
        BY <1>3, <1>5, <2>1 DEF CallService
<1>6. CASE SendRecord(a)
    <2> DEFINE w == [work[a] EXCEPT !.op = "registration", !.epoch = reply[a].boot]
    <2>1. w \in Work /\ w.op = "registration"
        BY <1>1 DEF Work, Exchanges, Reply
    <2>2. Send(a, w) /\ held' = held
        BY <1>6 DEF SendRecord
    <2> HIDE DEF w
    <2> QED
        BY <1>1, <2>1, <2>2, KnowsSending
<1>7. CASE SendKE3(a)
    <2> DEFINE w == [work[a] EXCEPT !.op = "finalize", !.sid = reply[a].sid]
    <2>1. w \in Work /\ w.sid = reply[a].sid
        BY <1>1 DEF Work, Exchanges, Reply
    <2>2. Send(a, w) /\ held' = held
        BY <1>7 DEF SendKE3
    <2>3. OpenedFor(reply[a].sid, Account[a])
        BY <1>7 DEF SendKE3, Answered, Verify, Knows
    <2> HIDE DEF w
    <2> QED
        BY <1>1, <2>1, <2>2, <2>3, KnowsSending
<1>8. CASE FinishAuthenticate(a)
    <2>1. held'[a] = work[a].sid /\ Return(a)
        BY <1>8 DEF FinishAuthenticate, Context, ClientTypeOK
    <2>2. OpenedFor(work[a].sid, Account[a]) /\ Good(work[a].sid, trusts[a])
        BY <1>8 DEF FinishAuthenticate, Answered, Verify, Knows
    <2> QED
        BY <1>1, <2>1, <2>2, KnowsReturning
<1>9. CASE Finish(a) \/ ReturnError(a) \/ GiveUp(a)
    BY <1>1, <1>9, KnowsReturning DEF Finish, ReturnError, GiveUp
<1>10. CASE RegEvaluate(a)
    <2>1. /\ reply'[a] = [ErrorReply EXCEPT !.ok = TRUE, !.boot = epoch]
          /\ work[a].op = "regEvaluate"
          /\ UNCHANGED <<trusts, held, work, session, stored, epoch, now>>
        BY <1>1, <1>10 DEF RegEvaluate, Context, ClientTypeOK, vars
    <2>2. reply'[a].boot = epoch
        BY <2>1 DEF ErrorReply
    <2> QED
        BY <1>1, <2>1, <2>2 DEF Knows, OpenedFor, Good, Proven, Exists, Expired
<1> QED
    BY <1>2, <1>4, <1>5, <1>6, <1>7, <1>8, <1>9, <1>10 DEF Receive

\* An answer tells the object that waits for it what is true.
LEMMA AnswerKnows ==
    ASSUME Context, Built, Marked, NEW a \in Apps, Knows(a), NEW p \in Procs, Step(p),
           SendAnswer(p), by[a] = p
    PROVE  Knows(a)'
<1> USE DEF Context, RefinementInvariant, GateInvariant, FitInvariant
<1>1. req[p] = RequestOf(a)
    BY ClientAssumption DEF Served
<1>2. /\ req[p].type = work[a].op /\ req[p].sid = work[a].sid
      /\ KeyOf(p) = Account[a]
    BY <1>1, ClientAssumption DEF RequestOf, KeyOf, Keys
<1>3. PICK ok \in BOOLEAN :
         /\ ok => Succeeds(p)
         /\ reply'[a] = [ok |-> ok, boot |-> epoch,
                        sid |-> IF pc[p] = "create" THEN ptr[p] ELSE NoSession]
    BY DEF SendAnswer, Waiting
<1>4. UNCHANGED <<trusts, held, work>> /\ [Next]_vars
    BY DEF SendAnswer, Next
<1>5. epoch' = epoch /\ epoch \in Nat /\ trusts[a] \in Nat
    BY <1>4, Boots, TwoFactorAssumption DEF Step, Restart, CheckLockout, LookupRecord,
        MintSession, CreateSession, FindSession, CountFailure, DeleteSession, CountSuccess,
        MarkSession, IncrementGauge, GateGet, GateVerify, HandleService, PutRecord, ClientTypeOK
<1>6. work[a].op = "finalize" => OpenedFor(work[a].sid, Account[a])'
    BY <1>4, OpenedForKept DEF Knows, OpenedFor, Exists
<1>7. held[a] # NoSession => OpenedFor(held[a], Account[a])' /\ Good(held[a], trusts[a])'
    BY <1>4, <1>5, OpenedForKept, GoodKept DEF Knows, OpenedFor, Good, Proven, Exists, Expired
<1>8. ASSUME ok, work[a].op = "evaluate"
      PROVE  OpenedFor(reply[a].sid, Account[a])'
    <2>1. pc[p] = "create"
        BY <1>2, <1>3, <1>8 DEF Succeeds, Route
    <2>2. OpenedFor(ptr[p], Account[a]) /\ reply'[a].sid = ptr[p]
        BY <1>2, <1>3, <2>1 DEF Built, Building
    <2> QED
        BY <1>4, <2>2, OpenedForKept DEF OpenedFor, Exists
<1>9. ASSUME ok, work[a].op = "finalize"
      PROVE  Good(work[a].sid, reply[a].boot)'
    <2>1. pc[p] = "inc"
        BY <1>2, <1>3, <1>9 DEF Succeeds, Route
    <2>2. Good(work[a].sid, epoch) /\ reply'[a].boot = epoch
        BY <1>2, <1>3, <2>1 DEF Marked
    <2> QED
        BY <1>4, <1>5, <2>2, GoodKept DEF Good, Proven, Exists, Expired
<1> QED
    BY <1>3, <1>4, <1>5, <1>6, <1>7, <1>8, <1>9 DEF Knows

\* What every object knows stays true.
LEMMA KnowsStep ==
    ASSUME Context, HeldInvariant, [ClientNext]_cvars, NEW b \in Apps
    PROVE  Knows(b)'
<1> USE DEF HeldInvariant
<1>0. [Next]_vars
    BY DispatcherSteps
<1>1. ASSUME NEW a \in Apps,
             \/ NewClient(a) \/ Register(a) \/ Authenticate(a) \/ CallService(a)
             \/ Receive(a) \/ GiveUp(a) \/ RegEvaluate(a)
      PROVE  Knows(b)'
    <2>1. CASE a = b
        BY <1>1, <2>1, ObjectKnows
    <2>2. CASE a # b
        <3>1. /\ trusts'[b] = trusts[b] /\ held'[b] = held[b]
              /\ work'[b] = work[b] /\ reply'[b] = reply[b]
            BY <1>1, <2>2 DEF Context, ClientTypeOK, NewClient, Register, Authenticate,
                CallService, Begin, Receive, SendRecord, SendKE3, FinishAuthenticate, Finish,
                ReturnError, GiveUp, RegEvaluate, Send, Return
        <3> QED
            BY <1>0, <3>1, KnowsKept
    <2> QED
        BY <2>1, <2>2
<1>2. CASE UNCHANGED <<trusts, held, work, reply>>
    BY <1>0, <1>2, KnowsKept
<1>3. ASSUME NEW p \in Procs, Serve(p)
      PROVE  Knows(b)'
    <2>1. CASE UNCHANGED clientVars
        BY <1>2, <2>1 DEF clientVars
    <2>2. CASE SendAnswer(p)
        <3>1. CASE by[b] = p
            BY <1>3, <2>2, <3>1, AnswerKnows DEF Serve
        <3>2. CASE by[b] # p
            BY <1>0, <2>2, <3>2, KnowsKept DEF SendAnswer, Waiting
        <3> QED
            BY <3>1, <3>2
    <2> QED
        BY <1>3, <2>1, <2>2 DEF Serve
<1>4. CASE \/ \E p \in Procs : (\E a \in Apps : Deliver(a, p)) \/ DeliverLate(p)
           \/ RestartServer \/ Background \/ UNCHANGED cvars
    BY <1>2, <1>4 DEF Deliver, DeliverLate, RestartServer, Background, clientVars, cvars
<1> QED
    BY <1>1, <1>3, <1>4 DEF ClientNext

-----------------------------------------------------------------------------
\* A session comes to an object only through its own evaluate.
LEMMA OwnsStep ==
    ASSUME Context, [ClientNext]_cvars, NEW b \in Apps, NEW s \in SessionIds, Owns(b, s)'
    PROVE  \/ Owns(b, s)
           \/ /\ by[b] \in Procs /\ LookupRecord(by[b])
              /\ pc'[by[b]] = "mint" /\ ptr'[by[b]] = s
<1> DEFINE New == /\ by[b] \in Procs /\ LookupRecord(by[b])
                  /\ pc'[by[b]] = "mint" /\ ptr'[by[b]] = s
<1> USE DEF Context, RefinementInvariant, GateInvariant
<1>0. [Next]_vars /\ s # NoSession
    BY DispatcherSteps, StoreAssumption
<1>1. ASSUME UNCHANGED <<held, work>>, reply'[b] = reply[b], by'[b] = by[b]
      PROVE  Owns(b, s) \/ New
    <2>1. CASE s \in {held[b], work[b].sid, reply[b].sid}
        BY <2>1 DEF Owns
    <2>2. CASE by'[b] # NoProc /\ pc'[by'[b]] \in Building /\ ptr'[by'[b]] = s
        BY <1>0, <1>1, <2>2, StartsBuilding DEF Owns, ClientTypeOK
    <2> QED
        BY <1>1, <2>1, <2>2 DEF Owns
<1>2. ASSUME UNCHANGED vars, by'[b] \in {by[b], NoProc},
             {held'[b], work'[b].sid, reply'[b].sid}
                \subseteq {held[b], work[b].sid, reply[b].sid, NoSession}
      PROVE  Owns(b, s)
    BY <1>0, <1>2 DEF Owns, vars
<1>3. ASSUME NEW a \in Apps,
             \/ NewClient(a) \/ Register(a) \/ Authenticate(a) \/ CallService(a)
             \/ Receive(a) \/ GiveUp(a) \/ RegEvaluate(a)
      PROVE  Owns(b, s)
    <2>1. UNCHANGED vars
        BY <1>3 DEF NewClient, Register, Authenticate, CallService, Begin, Receive, SendRecord,
            SendKE3, FinishAuthenticate, Finish, ReturnError, GiveUp, RegEvaluate
    <2>2. by'[b] \in {by[b], NoProc}
        BY <1>3 DEF ClientTypeOK, NewClient, Register, Authenticate, CallService, Begin, Receive,
            SendRecord, SendKE3, FinishAuthenticate, Finish, ReturnError, GiveUp, RegEvaluate,
            Send, Return
    <2>3. {held'[b], work'[b].sid, reply'[b].sid}
             \subseteq {held[b], work[b].sid, reply[b].sid, NoSession}
        <3>1. CASE a # b
            BY <1>3, <3>1 DEF ClientTypeOK, NewClient, Register, Authenticate, CallService,
                Begin, Receive, SendRecord, SendKE3, FinishAuthenticate, Finish, ReturnError,
                GiveUp, RegEvaluate, Send, Return
        <3>2. ErrorReply.sid = NoSession /\ NoWork.sid = NoSession
            BY DEF ErrorReply, NoWork
        <3>3. CASE NewClient(b)
            BY <3>3 DEF NewClient, ClientTypeOK
        <3>4. CASE Register(b) \/ Authenticate(b)
            <4>1. PICK pw \in Passwords, op \in {"regEvaluate", "evaluate"} :
                     Begin(b, [NoWork EXCEPT !.op = op, !.password = pw])
                BY <3>4 DEF Register, Authenticate
            <4>2. [NoWork EXCEPT !.op = op, !.password = pw].sid = NoSession
                BY DEF NoWork
            <4> QED
                BY <3>2, <4>1, <4>2 DEF Begin, Send, ClientTypeOK
        <3>5. CASE CallService(b)
            <4>1. [NoWork EXCEPT !.sid = held[b]].sid = held[b]
                BY DEF NoWork
            <4> QED
                BY <3>2, <3>5, <4>1 DEF CallService, Begin, Send, ClientTypeOK
        <3>6. CASE SendRecord(b)
            <4>1. [work[b] EXCEPT !.op = "registration", !.epoch = reply[b].boot].sid = work[b].sid
                BY DEF ClientTypeOK, Work
            <4> QED
                BY <3>2, <3>6, <4>1 DEF SendRecord, Send, ClientTypeOK
        <3>7. CASE SendKE3(b)
            <4>1. [work[b] EXCEPT !.op = "finalize", !.sid = reply[b].sid].sid = reply[b].sid
                BY DEF ClientTypeOK, Work
            <4> QED
                BY <3>2, <3>7, <4>1 DEF SendKE3, Send, ClientTypeOK
        <3>8. CASE FinishAuthenticate(b) \/ Finish(b) \/ ReturnError(b) \/ GiveUp(b)
            BY <3>2, <3>8 DEF FinishAuthenticate, Finish, ReturnError, GiveUp, Return, ClientTypeOK
        <3>9. CASE RegEvaluate(b)
            <4>1. [ErrorReply EXCEPT !.ok = TRUE, !.boot = epoch].sid = NoSession
                BY DEF ErrorReply
            <4> QED
                BY <3>9, <4>1 DEF RegEvaluate, ClientTypeOK
        <3> QED
            BY <1>3, <3>1, <3>3, <3>4, <3>5, <3>6, <3>7, <3>8, <3>9 DEF Receive
    <2> QED
        BY <1>2, <2>1, <2>2, <2>3
<1>4. ASSUME NEW a \in Apps, NEW p \in Procs, Deliver(a, p)
      PROVE  Owns(b, s) \/ New
    <2>1. UNCHANGED <<held, work, reply>> /\ by' = [by EXCEPT ![a] = p]
        BY <1>4 DEF Deliver
    <2>2. CASE a # b
        BY <1>1, <2>1, <2>2 DEF ClientTypeOK
    <2>3. CASE a = b
        <3>1. by'[b] = p /\ pc'[p] \notin Building
            <4>1. PICK r \in Request : pc'[p] = EntryOf(r.type)
                BY <1>4 DEF Deliver, Process, TypeOK
            <4> QED
                BY <2>1, <2>3, <4>1, EntryBeforeGate DEF ClientTypeOK, UsesPointer, Building
        <3> QED
            BY <2>1, <3>1 DEF Owns
    <2> QED
        BY <2>2, <2>3
<1>5. ASSUME NEW p \in Procs, Serve(p)
      PROVE  Owns(b, s) \/ New
    <2>1. CASE UNCHANGED clientVars
        BY <1>1, <2>1 DEF clientVars
    <2>2. CASE SendAnswer(p) /\ by[b] = p
        <3>1. /\ UNCHANGED <<held, work>> /\ by'[b] = NoProc
              /\ reply'[b].sid = IF pc[p] = "create" THEN ptr[p] ELSE NoSession
            BY <2>2 DEF SendAnswer, Waiting
        <3> QED
            BY <1>0, <2>2, <3>1, ClientAssumption DEF Owns, Building
    <2>3. CASE SendAnswer(p) /\ by[b] # p
        BY <1>1, <2>3 DEF SendAnswer, Waiting
    <2> QED
        BY <1>5, <2>1, <2>2, <2>3 DEF Serve
<1>6. CASE RestartServer
    BY <1>6 DEF RestartServer, Owns
<1>7. CASE (\E p \in Procs : DeliverLate(p)) \/ Background \/ UNCHANGED cvars
    BY <1>1, <1>7 DEF DeliverLate, Background, clientVars, cvars
<1> QED
    BY <1>3, <1>4, <1>5, <1>6, <1>7 DEF ClientNext

\* No goroutine serves two objects.
LEMMA OneWaits ==
    ASSUME Context, Ownership, [ClientNext]_cvars, NEW a \in Apps, NEW b \in Apps, a # b,
           by'[a] # NoProc
    PROVE  by'[a] # by'[b]
<1> USE DEF Context, ClientTypeOK
<1>1. ASSUME \A c \in Apps : by'[c] \in {by[c], NoProc}
      PROVE  by'[a] # by'[b]
    BY <1>1 DEF Ownership
<1>2. ASSUME NEW c \in Apps, NEW p \in Procs, Deliver(c, p)
      PROVE  by'[a] # by'[b]
    <2>1. by' = [by EXCEPT ![c] = p] /\ pc[p] = "idle"
        BY <1>2 DEF Deliver, Process, At
    <2>2. \A d \in Apps : by[d] # p
        BY <2>1, ClientAssumption DEF FitInvariant, Served
    <2> QED
        BY <2>1, <2>2 DEF Ownership
<1>3. ASSUME NEW c \in Apps,
             \/ NewClient(c) \/ Register(c) \/ Authenticate(c) \/ CallService(c)
             \/ Receive(c) \/ GiveUp(c) \/ RegEvaluate(c)
      PROVE  \A d \in Apps : by'[d] \in {by[d], NoProc}
    BY <1>3 DEF NewClient, Register, Authenticate, CallService, Begin, Receive, SendRecord,
        SendKE3, FinishAuthenticate, Finish, ReturnError, GiveUp, RegEvaluate, Send, Return
<1>4. CASE \/ \E p \in Procs : DeliverLate(p) \/ Serve(p)
           \/ RestartServer \/ Background \/ UNCHANGED cvars
    <2>1. \A c \in Apps : by'[c] \in {by[c], NoProc}
        BY <1>4 DEF DeliverLate, Serve, SendAnswer, RestartServer, Background, clientVars, cvars
    <2> QED
        BY <1>1, <2>1
<1> QED
    BY <1>1, <1>2, <1>3, <1>4 DEF ClientNext

\* Every session belongs to at most one object: a new one is drawn by the
\* goroutine of a single evaluate, which a single object waits for.
LEMMA OwnershipStep ==
    ASSUME Context, Ownership, [ClientNext]_cvars
    PROVE  Ownership'
<1> USE DEF Context, RefinementInvariant, GateInvariant
<1>0. [Next]_vars
    BY DispatcherSteps
<1> DEFINE New(a, s) == /\ by[a] \in Procs /\ LookupRecord(by[a])
                        /\ pc'[by[a]] = "mint" /\ ptr'[by[a]] = s
<1>1. \A a \in Apps, s \in SessionIds : Owns(a, s)' => Owns(a, s) \/ New(a, s)
    BY OwnsStep
<1>2. \A a \in Apps, s \in SessionIds :
         New(a, s) => ~Exists(s) /\ session'[s] # Unallocated
    BY LookupEffect
<1>3. ASSUME NEW a \in Apps, NEW b \in Apps, NEW s \in SessionIds, New(a, s), New(b, s)
      PROVE  a = b
    <2>1. by[a] = by[b]
        <3> SUFFICES ASSUME by[a] # by[b] PROVE FALSE
            OBVIOUS
        <3>1. pc'[by[b]] = pc[by[b]]
            BY <1>3, OthersUntouched DEF Step
        <3> QED
            BY <1>3, <3>1 DEF LookupRecord, At
    <2> QED
        BY <1>3, <2>1, ClientAssumption DEF Ownership
<1> HIDE DEF New
<1>4. \A a \in Apps, s \in SessionIds : Owns(a, s)' => session'[s] # Unallocated
    BY <1>0, <1>1, <1>2, SessionsPersist DEF Ownership
<1>5. ASSUME NEW a \in Apps, NEW b \in Apps, NEW s \in SessionIds, Owns(a, s)', Owns(b, s)'
      PROVE  a = b
    <2>1. CASE Owns(a, s) /\ Owns(b, s)
        BY <2>1 DEF Ownership
    <2>2. CASE New(a, s) /\ New(b, s)
        BY <1>3, <2>2
    <2>3. ~(Owns(a, s) /\ New(b, s)) /\ ~(New(a, s) /\ Owns(b, s))
        BY <1>2 DEF Ownership
    <2> QED
        BY <1>1, <1>5, <2>1, <2>2, <2>3
<1>6. \A a, b \in Apps : a # b /\ by'[a] # NoProc => by'[a] # by'[b]
    BY OneWaits
<1> QED
    BY <1>4, <1>5, <1>6 DEF Ownership, Exists

\* What objects believe of their sessions is true, in every interleaving of
\* calls, lost answers, late requests, cleanups and restarts (client.go).
THEOREM HeldInvariance == ClientSpec => []HeldInvariant
<1>1. ClientInit => HeldInvariant
    <2> SUFFICES ASSUME ClientInit PROVE HeldInvariant
        OBVIOUS
    <2>1. Built /\ Marked
        BY DEF ClientInit, Init, Built, Marked, Building
    <2>2. ErrorReply.sid = NoSession /\ ErrorReply.boot = 0 /\ ~ErrorReply.ok
          /\ NoWork.sid = NoSession /\ NoWork.op = "service2FA"
        BY DEF ErrorReply, NoWork
    <2>3. \A a \in Apps : Knows(a)
        BY <2>2 DEF ClientInit, Init, Knows
    <2>4. \A a \in Apps, s \in SessionIds : ~Owns(a, s)
        BY <2>2, StoreAssumption DEF ClientInit, Owns
    <2>5. Ownership
        BY <2>4 DEF ClientInit, Ownership
    <2> QED
        BY <2>1, <2>3, <2>5 DEF HeldInvariant
<1>2. ASSUME Context, Context', HeldInvariant, [ClientNext]_cvars
      PROVE  HeldInvariant'
    <2>1. [Next]_vars
        BY <1>2, DispatcherSteps
    <2>2. Built'
        BY <1>2, <2>1, BuiltStep DEF Context, HeldInvariant
    <2>3. Marked'
        BY <1>2, <2>1, MarkedStep DEF Context, HeldInvariant, FitInvariant
    <2>4. \A a \in Apps : Knows(a)'
        BY <1>2, KnowsStep
    <2>5. Ownership'
        BY <1>2, OwnershipStep DEF HeldInvariant
    <2> QED
        BY <2>2, <2>3, <2>4, <2>5 DEF HeldInvariant
<1>3. ClientSpec => []Context
    BY ClientInvariance, FitInvariance, ImplementsDispatcher, RefinementInvariance, PTL
       DEF Context
<1> QED
    BY <1>1, <1>2, <1>3, PTL DEF ClientSpec

\* An object holds only a session that its own password opened, for its own
\* account, and that no other object has (Authenticate in client.go).
THEOREM HeldProven == ClientSpec => []HeldSessionProven
<1>1. HeldInvariant /\ ClientTypeOK => HeldSessionProven
    BY DEF HeldInvariant, Knows, OpenedFor, Good, Ownership, Owns, ClientTypeOK,
        HeldSessionProven
<1> QED
    BY <1>1, HeldInvariance, ClientInvariance, PTL

\* Until it expires, that session is in the store of the server whose key the
\* object knows (CallService in client.go, session.go).
THEOREM HeldUsable == ClientSpec => []HeldSessionUsable
<1>1. HeldInvariant => HeldSessionUsable
    BY DEF HeldInvariant, Knows, Good, HeldSessionUsable
<1> QED
    BY <1>1, HeldInvariance, PTL
=============================================================================
