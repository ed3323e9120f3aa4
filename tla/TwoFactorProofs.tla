--------------------------- MODULE TwoFactorProofs ---------------------------
(***************************************************************************)
(* Theorems about TwoFactor, for any number of clients, contexts, request  *)
(* goroutines, sessions and restarts, and for any configured limits.       *)
(***************************************************************************)
EXTENDS TwoFactor, FiniteSetTheorems, TLAPS

-----------------------------------------------------------------------------
(***************************************************************************)
(* Facts about single operators.                                           *)
(***************************************************************************)

\* A goroutine that is not idle works on a request, for a key of the counter.
LEMMA RequestType ==
    ASSUME TypeOK, NEW p \in Procs, pc[p] # "idle"
    PROVE  /\ req[p] \in Request
           /\ KeyOf(p) \in Keys
<1>1. req[p] \in Request
  BY DEF TypeOK
<1> QED
  BY <1>1 DEF Request, KeyOf, Keys

\* Get returns a session of the map that has not expired, or nil.
LEMMA GetType ==
    ASSUME StoreTypeOK, NEW id, Get(id) # NoSession
    PROVE  Get(id) = id /\ id \in stored /\ id \in SessionIds /\ ~Expired(id)
BY DEF Get, StoreTypeOK

\* Changing when a session expires, or that it is verified, changes no other
\* field.
LEMMA UpdateExpires ==
    ASSUME NEW s \in Session, NEW t \in Int
    PROVE  LET r == [s EXCEPT !.expires = t]
           IN  /\ r \in Session /\ r # Unallocated
               /\ r.expires = t
               /\ r.client = s.client /\ r.context = s.context
               /\ r.mac = s.mac /\ r.verified = s.verified
BY StoreAssumption DEF Session

LEMMA UpdateVerified ==
    ASSUME NEW s \in Session
    PROVE  LET r == [s EXCEPT !.verified = TRUE]
           IN  /\ r \in Session /\ r # Unallocated
               /\ r.verified
               /\ r.client = s.client /\ r.context = s.context
               /\ r.mac = s.mac /\ r.expires = s.expires
BY StoreAssumption DEF Session

\* The lifetime of a session is an integer, whatever the product wraps to, and
\* never exceeds the configured one.
LEMMA LifetimeBound ==
    ASSUME NEW d \in Durations
    PROVE  Lifetime(d) \in Int /\ Lifetime(d) <= SessionTTL
<1>1. d \in Int /\ Second \in Int /\ DurationLimit \in Int /\ DurationLimit > 0
      /\ SessionTTL \in Int
  BY TwoFactorAssumption
<1>2. d * Second + DurationLimit \in Int
  BY <1>1
<1>3. Wrap(d) \in Int
  BY <1>1, <1>2 DEF Wrap
<1> QED
  BY <1>1, <1>3 DEF Lifetime

\* Answer and Goto keep the goroutines well typed.
LEMMA AnswerType ==
    ASSUME TypeOK, NEW p \in Procs, Answer(p)
    PROVE  /\ pc' \in [Procs -> Labels]
           /\ req' \in [Procs -> Request \cup {NoRequest}]
           /\ ptr' \in [Procs -> SessionIds \cup {NoSession}]
           /\ \A q \in Procs : pc'[q] = "idle" <=> req'[q] = NoRequest
BY DEF TypeOK, Answer, Labels

LEMMA GotoType ==
    ASSUME TypeOK, NEW p \in Procs, NEW label \in Labels \ {"idle"},
           pc[p] # "idle", Goto(p, label)
    PROVE  /\ pc' \in [Procs -> Labels]
           /\ req' \in [Procs -> Request \cup {NoRequest}]
           /\ \A q \in Procs : pc'[q] = "idle" <=> req'[q] = NoRequest
BY DEF TypeOK, Goto

-----------------------------------------------------------------------------
(***************************************************************************)
(* Type correctness.                                                       *)
(***************************************************************************)

\* The initial state is well typed.
LEMMA TypeInit == Init => TypeOK
<1> SUFFICES ASSUME Init PROVE TypeOK
  OBVIOUS
<1>1. ClockTypeOK /\ StoreTypeOK
  BY DEF Init, ClockInit, StoreInit, ClockTypeOK, StoreTypeOK
<1>2. CounterTypeOK
  BY DEF Init, CounterInit, CounterTypeOK, AttemptRecord, NoAttempts
<1>3. epoch \in 0..MaxRestarts /\ gauge \in Int /\ removed \in Nat
  BY TwoFactorAssumption DEF Init
<1>4. record \in [Keys -> StoredRecord]
  BY TwoFactorAssumption DEF Init, StoredRecord, NoRecord
<1>5. /\ pc \in [Procs -> Labels]
      /\ req \in [Procs -> Request \cup {NoRequest}]
      /\ ptr \in [Procs -> SessionIds \cup {NoSession}]
      /\ \A p \in Procs : pc[p] = "idle" <=> req[p] = NoRequest
  BY DEF Init, Labels
<1> QED
  BY <1>1, <1>2, <1>3, <1>4, <1>5 DEF TypeOK

\* Every step keeps the state well typed.
LEMMA TypeStep ==
    ASSUME TypeOK, PointersValid, [Next]_vars
    PROVE  TypeOK'
<1>1. ASSUME NEW p \in Procs, Process(p) PROVE TypeOK'
  <2>1. PICK r \in Request : /\ req' = [req EXCEPT ![p] = r]
                             /\ pc' = [pc EXCEPT ![p] = EntryOf(r.type)]
    BY <1>1 DEF Process
  <2>2. EntryOf(r.type) \in Labels \ {"idle"}
    BY TwoFactorAssumption DEF EntryOf, Labels, Request, AllTypes
  <2>3. r # NoRequest
    BY TwoFactorAssumption
  <2>4. /\ pc' \in [Procs -> Labels]
        /\ req' \in [Procs -> Request \cup {NoRequest}]
        /\ \A q \in Procs : pc'[q] = "idle" <=> req'[q] = NoRequest
    BY <2>1, <2>2, <2>3 DEF TypeOK
  <2> QED
    BY <1>1, <2>4 DEF Process, TypeOK, ClockTypeOK, CounterTypeOK, StoreTypeOK
<1>2. ASSUME NEW p \in Procs, CheckLockout(p) PROVE TypeOK'
  <2>1. KeyOf(p) \in Keys
    BY <1>2, RequestType DEF CheckLockout, At
  <2>2. CounterTypeOK'
    BY <1>2, <2>1 DEF CheckLockout, Check, TypeOK, CounterTypeOK, AttemptRecord, NoAttempts
  <2>3. CASE Locked(KeyOf(p))
    BY <1>2, <2>2, <2>3, AnswerType DEF CheckLockout, TypeOK, ClockTypeOK, StoreTypeOK
  <2>4. CASE ~Locked(KeyOf(p))
    <3>1. "lookup" \in Labels \ {"idle"} /\ pc[p] # "idle" /\ Goto(p, "lookup")
      BY <1>2, <2>4 DEF CheckLockout, At, Labels
    <3> QED
      BY <1>2, <2>2, <2>4, <3>1, GotoType DEF CheckLockout, TypeOK, ClockTypeOK, StoreTypeOK
  <2> QED
    BY <2>3, <2>4
<1>3. ASSUME NEW p \in Procs, LookupRecord(p) PROVE TypeOK'
  <2>1. req[p] \in Request /\ KeyOf(p) \in Keys /\ pc[p] # "idle"
    BY <1>3, RequestType DEF LookupRecord, At
  <2>2. CASE Answer(p) /\ UNCHANGED session
    BY <1>3, <2>2, AnswerType DEF LookupRecord, TypeOK, ClockTypeOK, CounterTypeOK, StoreTypeOK
  <2>3. CASE ~(Answer(p) /\ UNCHANGED session)
    <3>1. PICK id \in SessionIds, mac \in {Answerable(KeyOf(p)), NoPassword} :
             /\ session' = [session EXCEPT ![id] =
                             [client |-> req[p].client, context |-> req[p].context,
                              mac |-> mac, expires |-> now, verified |-> FALSE]]
             /\ ptr' = [ptr EXCEPT ![p] = id]
      BY <1>3, <2>3 DEF LookupRecord
    <3>2. mac \in Passwords \cup {NoPassword}
      BY <2>1, <3>1 DEF Answerable, TypeOK, StoredRecord
    <3>3. [client |-> req[p].client, context |-> req[p].context,
           mac |-> mac, expires |-> now, verified |-> FALSE] \in Session
      BY <2>1, <3>2 DEF Session, Request, TypeOK, ClockTypeOK
    <3>4. session' \in [SessionIds -> Session \cup {Unallocated}]
      BY <3>1, <3>3 DEF TypeOK, StoreTypeOK
    <3>5. ptr' \in [Procs -> SessionIds \cup {NoSession}]
      BY <3>1 DEF TypeOK
    <3>6. "mint" \in Labels \ {"idle"} /\ Goto(p, "mint")
      BY <1>3, <2>3 DEF LookupRecord, Labels
    <3> QED
      BY <1>3, <2>1, <3>4, <3>5, <3>6, GotoType
         DEF LookupRecord, TypeOK, ClockTypeOK, CounterTypeOK, StoreTypeOK
  <2> QED
    BY <2>2, <2>3
<1>4. ASSUME NEW p \in Procs, MintSession(p) PROVE TypeOK'
  <2>1. req[p].duration \in Durations /\ pc[p] # "idle"
    BY <1>4, RequestType DEF MintSession, At, Request
  <2>2. Lifetime(req[p].duration) \in Int
    BY <2>1, LifetimeBound
  <2>3. now + Lifetime(req[p].duration) \in Int
    BY <2>2 DEF TypeOK, ClockTypeOK
  <2>4. session' \in [SessionIds -> Session \cup {Unallocated}]
    <3>1. ptr[p] \in SessionIds /\ session[ptr[p]] \in Session
      BY <1>4 DEF MintSession, At, PointersValid, UsesPointer, Exists, TypeOK, StoreTypeOK
    <3>2. [session[ptr[p]] EXCEPT !.expires = now + Lifetime(req[p].duration)] \in Session
      BY <2>3, <3>1 DEF Session
    <3> QED
      BY <1>4, <3>1, <3>2 DEF MintSession, TypeOK, StoreTypeOK
  <2>5. "create" \in Labels \ {"idle"} /\ Goto(p, "create")
    BY <1>4 DEF MintSession, Labels
  <2> QED
    BY <1>4, <2>1, <2>4, <2>5, GotoType
       DEF MintSession, TypeOK, ClockTypeOK, CounterTypeOK, StoreTypeOK
<1>5. ASSUME NEW p \in Procs, CreateSession(p) PROVE TypeOK'
  <2>1. ptr[p] \in SessionIds
    BY <1>5 DEF CreateSession, At, PointersValid, UsesPointer
  <2> QED
    BY <1>5, <2>1, AnswerType
       DEF CreateSession, Create, TypeOK, ClockTypeOK, CounterTypeOK, StoreTypeOK
<1>6. ASSUME NEW p \in Procs, FindSession(p) PROVE TypeOK'
  <2> DEFINE id == Get(req[p].sid)
  <2>1. CASE id = NoSession
    BY <1>6, <2>1, AnswerType DEF FindSession, TypeOK, ClockTypeOK, CounterTypeOK, StoreTypeOK
  <2>2. CASE id # NoSession
    <3>1. id \in SessionIds
      BY <2>2, GetType DEF TypeOK
    <3>2. PICK label \in {"success", "fail"} : Goto(p, label)
      BY <1>6, <2>2 DEF FindSession
    <3>3. label \in Labels \ {"idle"} /\ pc[p] # "idle"
      BY <1>6, <3>2 DEF FindSession, At, Labels
    <3>4. ptr' = [ptr EXCEPT ![p] = id]
      BY <1>6, <2>2 DEF FindSession
    <3>5. ptr' \in [Procs -> SessionIds \cup {NoSession}]
      BY <3>1, <3>4 DEF TypeOK
    <3> HIDE DEF id
    <3> QED
      BY <1>6, <3>2, <3>3, <3>5, GotoType
         DEF FindSession, TypeOK, ClockTypeOK, CounterTypeOK, StoreTypeOK
  <2> QED
    BY <2>1, <2>2
<1>7. ASSUME NEW p \in Procs, CountFailure(p) PROVE TypeOK'
  <2>1. KeyOf(p) \in Keys /\ pc[p] # "idle"
    BY <1>7, RequestType DEF CountFailure, At
  <2>2. CounterTypeOK'
    BY <1>7, <2>1 DEF CountFailure, RecordFailure, TypeOK, CounterTypeOK, AttemptRecord, ClockTypeOK
  <2>3. "delete" \in Labels \ {"idle"} /\ Goto(p, "delete")
    BY <1>7 DEF CountFailure, Labels
  <2> QED
    BY <1>7, <2>1, <2>2, <2>3, GotoType DEF CountFailure, TypeOK, ClockTypeOK, StoreTypeOK
<1>8. ASSUME NEW p \in Procs, DeleteSession(p) PROVE TypeOK'
  BY <1>8, AnswerType
     DEF DeleteSession, Delete, TypeOK, ClockTypeOK, CounterTypeOK, StoreTypeOK
<1>9. ASSUME NEW p \in Procs, CountSuccess(p) PROVE TypeOK'
  <2>1. KeyOf(p) \in Keys /\ pc[p] # "idle"
    BY <1>9, RequestType DEF CountSuccess, At
  <2>2. CounterTypeOK'
    BY <1>9, <2>1 DEF CountSuccess, RecordSuccess, TypeOK, CounterTypeOK, AttemptRecord, NoAttempts
  <2>3. "mark" \in Labels \ {"idle"} /\ Goto(p, "mark")
    BY <1>9 DEF CountSuccess, Labels
  <2> QED
    BY <1>9, <2>1, <2>2, <2>3, GotoType DEF CountSuccess, TypeOK, ClockTypeOK, StoreTypeOK
<1>10. ASSUME NEW p \in Procs, MarkSession(p) PROVE TypeOK'
  <2>1. StoreTypeOK'
    <3>1. CASE req[p].sid \in stored
      <4>1. req[p].sid \in SessionIds /\ session[req[p].sid] \in Session
        BY <3>1 DEF PointersValid, Exists, TypeOK, StoreTypeOK
      <4>2. [session[req[p].sid] EXCEPT !.verified = TRUE] \in Session
        BY <4>1 DEF Session
      <4> QED
        BY <1>10, <3>1, <4>1, <4>2 DEF MarkSession, MarkVerified, TypeOK, StoreTypeOK
    <3>2. CASE req[p].sid \notin stored
      BY <1>10, <3>2 DEF MarkSession, MarkVerified, TypeOK, StoreTypeOK
    <3> QED
      BY <3>1, <3>2
  <2>2. CASE req[p].sid \in stored
    <3>1. "inc" \in Labels \ {"idle"} /\ pc[p] # "idle" /\ Goto(p, "inc")
      BY <1>10, <2>2 DEF MarkSession, At, Labels
    <3> QED
      BY <1>10, <2>1, <2>2, <3>1, GotoType DEF MarkSession, TypeOK, ClockTypeOK, CounterTypeOK
  <2>3. CASE req[p].sid \notin stored
    BY <1>10, <2>1, <2>3, AnswerType DEF MarkSession, TypeOK, ClockTypeOK, CounterTypeOK
  <2> QED
    BY <2>2, <2>3
<1>11. ASSUME NEW p \in Procs, IncrementGauge(p) PROVE TypeOK'
  BY <1>11, AnswerType
     DEF IncrementGauge, TypeOK, ClockTypeOK, CounterTypeOK, StoreTypeOK
<1>12. ASSUME NEW p \in Procs, GateGet(p) PROVE TypeOK'
  <2> DEFINE id == Get(req[p].sid)
  <2>1. CASE id = NoSession
    BY <1>12, <2>1, AnswerType DEF GateGet, TypeOK, ClockTypeOK, CounterTypeOK, StoreTypeOK
  <2>2. CASE id # NoSession
    <3>1. id \in SessionIds
      BY <2>2, GetType DEF TypeOK
    <3>2. ptr' = [ptr EXCEPT ![p] = id]
      BY <1>12, <2>2 DEF GateGet
    <3>3. ptr' \in [Procs -> SessionIds \cup {NoSession}]
      BY <3>1, <3>2 DEF TypeOK
    <3>4. "verify" \in Labels \ {"idle"} /\ pc[p] # "idle" /\ Goto(p, "verify")
      BY <1>12, <2>2 DEF GateGet, At, Labels
    <3> HIDE DEF id
    <3> QED
      BY <1>12, <3>3, <3>4, GotoType
         DEF GateGet, TypeOK, ClockTypeOK, CounterTypeOK, StoreTypeOK
  <2> QED
    BY <2>1, <2>2
<1>13. ASSUME NEW p \in Procs, GateVerify(p) PROVE TypeOK'
  <2>1. CASE Admits(ptr[p], req[p].context)
    <3>1. PICK label \in {"put", "handle"} : Goto(p, label)
      BY <1>13, <2>1 DEF GateVerify
    <3>2. label \in Labels \ {"idle"} /\ pc[p] # "idle"
      BY <1>13, <3>1 DEF GateVerify, At, Labels
    <3> QED
      BY <1>13, <2>1, <3>1, <3>2, GotoType
         DEF GateVerify, TypeOK, ClockTypeOK, CounterTypeOK, StoreTypeOK
  <2>2. CASE ~Admits(ptr[p], req[p].context)
    BY <1>13, <2>2, AnswerType
       DEF GateVerify, TypeOK, ClockTypeOK, CounterTypeOK, StoreTypeOK
  <2> QED
    BY <2>1, <2>2
<1>14. ASSUME NEW p \in Procs, HandleService(p) PROVE TypeOK'
  BY <1>14, AnswerType
     DEF HandleService, TypeOK, ClockTypeOK, CounterTypeOK, StoreTypeOK
<1>15. ASSUME NEW p \in Procs, PutRecord(p) PROVE TypeOK'
  <2>1. req[p] \in Request /\ KeyOf(p) \in Keys
    BY <1>15, RequestType DEF PutRecord, At
  <2>2. record' \in [Keys -> StoredRecord]
    BY <1>15, <2>1 DEF PutRecord, TypeOK, StoredRecord, Request
  <2> QED
    BY <1>15, <2>2, AnswerType
       DEF PutRecord, TypeOK, ClockTypeOK, CounterTypeOK, StoreTypeOK
<1>16. ASSUME CleanSessions PROVE TypeOK'
  <2>1. IsFiniteSet(ExpiredIds)
    <3>1. ExpiredIds \subseteq SessionIds
      BY DEF ExpiredIds, TypeOK, StoreTypeOK
    <3> QED
      BY <3>1, StoreAssumption, FS_Subset
  <2>2. removed' \in Nat
    BY <1>16, <2>1, FS_CardinalityType DEF CleanSessions
  <2> QED
    BY <1>16, <2>2
       DEF CleanSessions, CleanExpired, TypeOK, ClockTypeOK, CounterTypeOK, StoreTypeOK
<1>17. CASE SubtractGauge
  BY <1>17 DEF SubtractGauge, TypeOK, ClockTypeOK, CounterTypeOK, StoreTypeOK
<1>18. CASE Tick
  BY <1>18 DEF Tick, Advance, TypeOK, ClockTypeOK, CounterTypeOK, StoreTypeOK
<1>19. CASE Restart
  <2>1. NoRecord \in StoredRecord
    BY TwoFactorAssumption DEF NoRecord, StoredRecord
  <2>2. record' \in [Keys -> StoredRecord]
    BY <1>19, <2>1 DEF Restart, TypeOK
  <2>3. CounterTypeOK'
    BY <1>19 DEF Restart, CounterTypeOK, AttemptRecord, NoAttempts
  <2>4. epoch' \in 0..MaxRestarts
    BY <1>19, TwoFactorAssumption DEF Restart, TypeOK
  <2>5. /\ pc' \in [Procs -> Labels]
        /\ req' \in [Procs -> Request \cup {NoRequest}]
        /\ ptr' \in [Procs -> SessionIds \cup {NoSession}]
        /\ \A p \in Procs : pc'[p] = "idle" <=> req'[p] = NoRequest
    BY <1>19 DEF Restart, Labels
  <2>6. ClockTypeOK' /\ StoreTypeOK' /\ gauge' \in Int /\ removed' \in Nat
    BY <1>19 DEF Restart, TypeOK, ClockTypeOK, StoreTypeOK
  <2> QED
    BY <2>2, <2>3, <2>4, <2>5, <2>6 DEF TypeOK
<1>20. CASE UNCHANGED vars
  BY <1>20 DEF vars, TypeOK, ClockTypeOK, CounterTypeOK, StoreTypeOK
<1> QED
  BY <1>1, <1>2, <1>3, <1>4, <1>5, <1>6, <1>7, <1>8, <1>9, <1>10, <1>11, <1>12,
     <1>13, <1>14, <1>15, <1>16, <1>17, <1>18, <1>19, <1>20 DEF Next, Step

-----------------------------------------------------------------------------
(***************************************************************************)
(* Session pointers.                                                       *)
(***************************************************************************)

\* A step of p touches no other goroutine.
LEMMA OthersUntouched ==
    ASSUME TypeOK, NEW p \in Procs, Process(p) \/ Step(p)
    PROVE  \A q \in Procs \ {p} : pc'[q] = pc[q] /\ req'[q] = req[q] /\ ptr'[q] = ptr[q]
BY DEF TypeOK, Process, Step, CheckLockout, LookupRecord, MintSession, CreateSession,
       FindSession, CountFailure, DeleteSession, CountSuccess, MarkSession, IncrementGauge,
       GateGet, GateVerify, HandleService, PutRecord, Answer, Goto

\* What LookupRecord does to the session objects: one more, not verified.
LEMMA LookupEffect ==
    ASSUME TypeOK, NEW p \in Procs, LookupRecord(p)
    PROVE  /\ \A id \in SessionIds : Exists(id) => session'[id] = session[id]
           /\ \A id \in SessionIds : ~Exists(id) /\ session'[id] # Unallocated =>
                 /\ session'[id].verified = FALSE
                 /\ session'[id].expires = now
           /\ pc'[p] = "mint" => ptr'[p] \in SessionIds /\ ~Exists(ptr'[p])
                                 /\ session'[ptr'[p]] # Unallocated
<1>1. CASE Answer(p) /\ UNCHANGED session
  BY <1>1 DEF Answer, TypeOK, Exists
<1>2. CASE ~(Answer(p) /\ UNCHANGED session)
  <2>1. req[p] \in Request /\ KeyOf(p) \in Keys
    BY RequestType DEF LookupRecord, At
  <2>2. PICK id \in SessionIds, mac \in {Answerable(KeyOf(p)), NoPassword} :
           /\ ~Exists(id)
           /\ session' = [session EXCEPT ![id] =
                           [client |-> req[p].client, context |-> req[p].context,
                            mac |-> mac, expires |-> now, verified |-> FALSE]]
           /\ ptr' = [ptr EXCEPT ![p] = id]
    BY <1>2 DEF LookupRecord
  <2>3. mac \in Passwords \cup {NoPassword}
    BY <2>1, <2>2 DEF Answerable, TypeOK, StoredRecord
  <2>4. [client |-> req[p].client, context |-> req[p].context,
         mac |-> mac, expires |-> now, verified |-> FALSE] \in Session
    BY <2>1, <2>3 DEF Session, Request, TypeOK, ClockTypeOK
  <2>5. ptr'[p] = id
    BY <2>2 DEF TypeOK
  <2> QED
    BY <2>2, <2>4, <2>5, StoreAssumption DEF TypeOK, StoreTypeOK, Exists
<1> QED
  BY <1>1, <1>2

\* What MintSession does to the session objects: it sets when one expires.
LEMMA MintEffect ==
    ASSUME TypeOK, PointersValid, NEW p \in Procs, MintSession(p)
    PROVE  \A id \in SessionIds :
              /\ session'[id] # Unallocated <=> Exists(id)
              /\ Exists(id) => /\ session'[id].mac = session[id].mac
                               /\ session'[id].client = session[id].client
                               /\ session'[id].context = session[id].context
                               /\ session'[id].verified = session[id].verified
                               /\ \/ session'[id].expires = session[id].expires
                                  \/ id = ptr[p] /\ session'[id].expires <= now + SessionTTL
<1>1. ptr[p] \in SessionIds /\ session[ptr[p]] \in Session
  BY DEF MintSession, At, PointersValid, UsesPointer, Exists, TypeOK, StoreTypeOK
<1>2. req[p].duration \in Durations
  BY RequestType DEF MintSession, At, Request
<1> DEFINE t == now + Lifetime(req[p].duration)
<1>3. t \in Int /\ t <= now + SessionTTL
  <2>1. Lifetime(req[p].duration) \in Int /\ Lifetime(req[p].duration) <= SessionTTL
    BY <1>2, LifetimeBound
  <2>2. now \in Int /\ SessionTTL \in Int
    BY TwoFactorAssumption DEF TypeOK, ClockTypeOK
  <2> HIDE DEF Lifetime
  <2> QED
    BY <2>1, <2>2
<1>4. session' = [session EXCEPT ![ptr[p]] = [session[ptr[p]] EXCEPT !.expires = t]]
  BY <1>1 DEF MintSession, TypeOK, StoreTypeOK
<1> HIDE DEF t
<1> QED
  BY <1>1, <1>3, <1>4, UpdateExpires, StoreAssumption DEF TypeOK, StoreTypeOK, Exists

\* What MarkSession does to the session objects: it verifies one of the map.
LEMMA MarkEffect ==
    ASSUME TypeOK, PointersValid, NEW p \in Procs, MarkSession(p)
    PROVE  \A id \in SessionIds :
              /\ session'[id] # Unallocated <=> Exists(id)
              /\ Exists(id) => /\ session'[id].mac = session[id].mac
                               /\ session'[id].client = session[id].client
                               /\ session'[id].context = session[id].context
                               /\ session'[id].expires = session[id].expires
                               /\ session[id].verified => session'[id].verified
                               /\ id # req[p].sid \/ id \notin stored =>
                                     session'[id].verified = session[id].verified
<1>1. CASE req[p].sid \in stored
  <2>1. req[p].sid \in SessionIds /\ session[req[p].sid] \in Session
    BY <1>1 DEF PointersValid, Exists, TypeOK, StoreTypeOK
  <2> DEFINE r == [session[req[p].sid] EXCEPT !.verified = TRUE]
  <2>2. session' = [session EXCEPT ![req[p].sid] = r]
    BY <1>1, <2>1 DEF MarkSession, MarkVerified, TypeOK, StoreTypeOK
  <2>3. /\ r # Unallocated /\ r.verified
        /\ r.mac = session[req[p].sid].mac
        /\ r.client = session[req[p].sid].client
        /\ r.context = session[req[p].sid].context
        /\ r.expires = session[req[p].sid].expires
    BY <2>1, UpdateVerified
  <2>4. session[req[p].sid] # Unallocated
    BY <2>1, StoreAssumption
  <2> HIDE DEF r
  <2> QED
    BY <1>1, <2>1, <2>2, <2>3, <2>4 DEF TypeOK, StoreTypeOK, Exists
<1>2. CASE req[p].sid \notin stored
  BY <1>2 DEF MarkSession, MarkVerified, Exists
<1> QED
  BY <1>1, <1>2

\* The other steps leave the session objects alone.
LEMMA OtherStepsKeepSessions ==
    ASSUME [Next]_vars, session' # session
    PROVE  \E p \in Procs : LookupRecord(p) \/ MintSession(p) \/ MarkSession(p)
BY DEF Next, Step, vars, Process, CheckLockout, CreateSession, FindSession, CountFailure,
       DeleteSession, CountSuccess, IncrementGauge, GateGet, GateVerify, HandleService,
       PutRecord, CleanSessions, SubtractGauge, Tick, Restart

\* No step takes a session object away.
LEMMA SessionsPersist ==
    ASSUME TypeOK, PointersValid, [Next]_vars
    PROVE  \A id \in SessionIds : Exists(id) => session'[id] # Unallocated
BY OtherStepsKeepSessions, LookupEffect, MintEffect, MarkEffect DEF Exists

\* Only CreateSession adds to the map.
LEMMA OnlyCreateStores ==
    ASSUME [Next]_vars, NEW id \in stored', id \notin stored
    PROVE  \E p \in Procs : CreateSession(p) /\ id = ptr[p]
BY DEF Next, Step, vars, Process, CheckLockout, LookupRecord, MintSession, CreateSession,
       Create, FindSession, CountFailure, DeleteSession, Delete, CountSuccess, MarkSession,
       MarkVerified, IncrementGauge, GateGet, GateVerify, HandleService, PutRecord,
       CleanSessions, CleanExpired, SubtractGauge, Tick, Restart

\* A request starts before any gate and with no session.
LEMMA EntryBeforeGate ==
    ASSUME NEW r \in Request
    PROVE  /\ EntryOf(r.type) \notin UsesPointer
           /\ EntryOf(r.type) # "idle"
           /\ EntryOf(r.type) = "handle" => r.type = "service1FA"
           /\ EntryOf(r.type) = "put" => r.type = "registration"
BY TwoFactorAssumption DEF EntryOf, Request, AllTypes, UsesPointer

\* The pointer of the goroutine that takes a step.
LEMMA OwnPointer ==
    ASSUME TypeOK, PointersValid, NEW p \in Procs, Process(p) \/ Step(p),
           pc'[p] \in UsesPointer \/ PastGate(p)'
    PROVE  ptr'[p] \in SessionIds /\ session'[ptr'[p]] # Unallocated
<1>1. CASE Process(p)
  <2>1. PICK r \in Request : req'[p] = r /\ pc'[p] = EntryOf(r.type)
    BY <1>1 DEF Process, TypeOK
  <2> QED
    BY <2>1, EntryBeforeGate DEF PastGate, At
<1>2. CASE Answer(p)
  BY <1>2 DEF Answer, TypeOK, PastGate, At, UsesPointer
<1>3. CASE CheckLockout(p) /\ ~Answer(p)
  BY <1>3 DEF CheckLockout, Goto, TypeOK, PastGate, At, UsesPointer
<1>4. CASE LookupRecord(p) /\ ~Answer(p)
  <2>1. pc'[p] = "mint"
    BY <1>4 DEF LookupRecord, Goto, TypeOK
  <2> QED
    BY <1>4, <2>1, LookupEffect
<1>5. CASE MintSession(p)
  <2>1. ptr'[p] = ptr[p] /\ ptr[p] \in SessionIds /\ Exists(ptr[p])
    BY <1>5 DEF MintSession, At, PointersValid, UsesPointer
  <2> QED
    BY <1>5, <2>1, MintEffect
<1>6. CASE FindSession(p) /\ ~Answer(p)
  <2>1. Get(req[p].sid) # NoSession /\ ptr'[p] = Get(req[p].sid) /\ session' = session
    BY <1>6 DEF FindSession, TypeOK
  <2> QED
    BY <2>1, GetType DEF PointersValid, Exists, TypeOK
<1>7. CASE CountFailure(p) \/ CountSuccess(p)
  BY <1>7 DEF CountFailure, CountSuccess, At, PointersValid, UsesPointer, Exists
<1>8. CASE MarkSession(p) /\ ~Answer(p)
  <2>1. ptr'[p] = ptr[p] /\ ptr[p] \in SessionIds /\ Exists(ptr[p])
    BY <1>8 DEF MarkSession, At, PointersValid, UsesPointer
  <2> QED
    BY <1>8, <2>1, MarkEffect
<1>9. CASE GateGet(p) /\ ~Answer(p)
  <2>1. Get(req[p].sid) # NoSession /\ ptr'[p] = Get(req[p].sid) /\ session' = session
    BY <1>9 DEF GateGet, TypeOK
  <2> QED
    BY <2>1, GetType DEF PointersValid, Exists, TypeOK
<1>10. CASE GateVerify(p) /\ ~Answer(p)
  <2>1. ptr'[p] = ptr[p] /\ session' = session /\ pc[p] = "verify"
    BY <1>10 DEF GateVerify, At
  <2> QED
    BY <2>1 DEF PointersValid, UsesPointer, Exists
<1> QED
  BY <1>1, <1>2, <1>3, <1>4, <1>5, <1>6, <1>7, <1>8, <1>9, <1>10
     DEF Step, CreateSession, DeleteSession, IncrementGauge, HandleService, PutRecord

\* Every step keeps the pointers valid.
LEMMA PointersStep ==
    ASSUME TypeOK, PointersValid, [Next]_vars, TypeOK'
    PROVE  PointersValid'
<1>1. \A id \in SessionIds : Exists(id) => session'[id] # Unallocated
  BY SessionsPersist
<1>2. \A id \in stored' : session'[id] # Unallocated
  <2> SUFFICES ASSUME NEW id \in stored' PROVE session'[id] # Unallocated
    OBVIOUS
  <2>1. CASE id \in stored
    BY <1>1, <2>1 DEF PointersValid, TypeOK, StoreTypeOK
  <2>2. CASE id \notin stored
    <3>1. PICK p \in Procs : CreateSession(p) /\ id = ptr[p]
      BY <2>2, OnlyCreateStores
    <3> QED
      BY <1>1, <3>1 DEF CreateSession, At, PointersValid, UsesPointer
  <2> QED
    BY <2>1, <2>2
<1>3. ASSUME NEW q \in Procs, pc'[q] \in UsesPointer \/ PastGate(q)'
      PROVE  ptr'[q] \in SessionIds /\ session'[ptr'[q]] # Unallocated
  <2>1. CASE pc'[q] = pc[q] /\ req'[q] = req[q] /\ ptr'[q] = ptr[q]
    BY <1>1, <1>3, <2>1 DEF PointersValid, PastGate, At
  <2>2. CASE Restart
    BY <1>3, <2>2 DEF Restart, PastGate, At, UsesPointer
  <2>3. ASSUME NEW p \in Procs, Process(p) \/ Step(p)
        PROVE  ptr'[q] \in SessionIds /\ session'[ptr'[q]] # Unallocated
    <3>1. CASE q = p
      BY <1>3, <2>3, <3>1, OwnPointer
    <3>2. CASE q # p
      BY <2>1, <2>3, <3>2, OthersUntouched
    <3> QED
      BY <3>1, <3>2
  <2> QED
    BY <2>1, <2>2, <2>3 DEF Next, vars, CleanSessions, SubtractGauge, Tick
<1> QED
  BY <1>2, <1>3 DEF PointersValid, Exists

\* Initially the map is empty and every goroutine is idle.
LEMMA PointersInit == Init => PointersValid
BY DEF Init, StoreInit, PointersValid, PastGate, At, UsesPointer

\* TwoFactor keeps its types, and no handler ever goes on with a nil session
\* pointer: each conjunct is needed to carry the other through a step.
THEOREM TypeAndPointers == Spec => [](TypeOK /\ PointersValid)
<1>1. Init => TypeOK /\ PointersValid
  BY TypeInit, PointersInit
<1>2. TypeOK /\ PointersValid /\ [Next]_vars => TypeOK' /\ PointersValid'
  BY TypeStep, PointersStep
<1> QED
  BY <1>1, <1>2, PTL DEF Spec

-----------------------------------------------------------------------------
(***************************************************************************)
(* Verified sessions and the gate.                                         *)
(***************************************************************************)

\* The password of a session never changes once the object exists, and neither
\* do its client and context; a verified session stays verified.
LEMMA SessionFieldsPersist ==
    ASSUME TypeOK, PointersValid, [Next]_vars, NEW id \in SessionIds, Exists(id)
    PROVE  /\ session'[id].mac = session[id].mac
           /\ session'[id].client = session[id].client
           /\ session'[id].context = session[id].context
           /\ session[id].verified => session'[id].verified
<1>1. CASE session' = session
  BY <1>1
<1>2. CASE session' # session
  <2>1. PICK p \in Procs : LookupRecord(p) \/ MintSession(p) \/ MarkSession(p)
    BY <1>2, OtherStepsKeepSessions
  <2> QED
    BY <2>1, LookupEffect, MintEffect, MarkEffect
<1> QED
  BY <1>1, <1>2

\* Every step keeps verified sessions proven.
LEMMA ProofStep ==
    ASSUME TypeOK, PointersValid, VerifiedOnlyByProof, [Next]_vars
    PROVE  VerifiedOnlyByProof'
<1>1. ASSUME NEW id \in SessionIds, session'[id] # Unallocated, session'[id].verified
      PROVE  session'[id].mac \in Passwords
  <2>1. CASE session' = session
    BY <1>1, <2>1 DEF VerifiedOnlyByProof, Exists
  <2>2. ASSUME NEW p \in Procs, LookupRecord(p) PROVE session'[id].mac \in Passwords
    BY <1>1, <2>2, LookupEffect DEF VerifiedOnlyByProof, Exists
  <2>3. ASSUME NEW p \in Procs, MintSession(p) PROVE session'[id].mac \in Passwords
    BY <1>1, <2>3, MintEffect DEF VerifiedOnlyByProof
  <2>4. ASSUME NEW p \in Procs, MarkSession(p) PROVE session'[id].mac \in Passwords
    <3>1. Exists(id) /\ session'[id].mac = session[id].mac
      BY <1>1, <2>4, MarkEffect
    <3>2. CASE id = req[p].sid
      BY <2>4, <3>1, <3>2 DEF MarkSession, At, VerifiedOnlyByProof, AuthFinalize
    <3>3. CASE id # req[p].sid
      BY <1>1, <2>4, <3>1, <3>3, MarkEffect DEF VerifiedOnlyByProof
    <3> QED
      BY <3>2, <3>3
  <2> QED
    BY <2>1, <2>2, <2>3, <2>4, OtherStepsKeepSessions
<1>2. ASSUME NEW q \in Procs, pc'[q] \in {"success", "mark"}
      PROVE  /\ ptr'[q] = req'[q].sid
             /\ req'[q].password \in Passwords
             /\ req'[q].password = session'[ptr'[q]].mac
  <2>1. CASE pc[q] \in {"success", "mark"} /\ req'[q] = req[q] /\ ptr'[q] = ptr[q]
    <3>1. ptr[q] \in SessionIds /\ Exists(ptr[q])
      BY <2>1 DEF PointersValid, UsesPointer
    <3> QED
      BY <2>1, <3>1, SessionFieldsPersist DEF VerifiedOnlyByProof, AuthFinalize
  <2>2. CASE Restart
    BY <1>2, <2>2 DEF Restart
  <2>3. ASSUME NEW p \in Procs, Process(p) \/ Step(p), q # p
        PROVE  pc[q] \in {"success", "mark"} /\ req'[q] = req[q] /\ ptr'[q] = ptr[q]
    BY <1>2, <2>3, OthersUntouched
  <2>4. CASE FindSession(q)
    <3>1. Get(req[q].sid) # NoSession
      BY <1>2, <2>4 DEF FindSession, Answer, TypeOK
    <3>2. /\ ptr'[q] = Get(req[q].sid) /\ req' = req /\ session' = session
          /\ AuthFinalize(Get(req[q].sid), req[q].password)
      BY <1>2, <2>4, <3>1 DEF FindSession, Goto, TypeOK
    <3> QED
      BY <3>1, <3>2, GetType DEF AuthFinalize, TypeOK
  <2>5. CASE Process(q)
    <3>1. PICK r \in Request : pc'[q] = EntryOf(r.type)
      BY <2>5 DEF Process, TypeOK
    <3> QED
      BY <1>2, <3>1, EntryBeforeGate DEF UsesPointer
  <2>6. CASE Step(q) /\ ~FindSession(q)
    <3>1. pc[q] \in {"success", "mark"} /\ req'[q] = req[q] /\ ptr'[q] = ptr[q]
      BY <1>2, <2>6
         DEF TypeOK, Step, At, CheckLockout, LookupRecord, MintSession, CreateSession,
             CountFailure, DeleteSession, CountSuccess, MarkSession, IncrementGauge,
             GateGet, GateVerify, HandleService, PutRecord, Answer, Goto
    <3> QED
      BY <2>1, <3>1
  <2> QED
    BY <1>2, <2>1, <2>2, <2>3, <2>4, <2>5, <2>6
       DEF Next, vars, CleanSessions, SubtractGauge, Tick
<1> QED
  BY <1>1, <1>2 DEF VerifiedOnlyByProof, Exists, AuthFinalize

\* Every step lets only proven sessions through the gate.
LEMMA GateStep ==
    ASSUME TypeOK, PointersValid, VerifiedOnlyByProof, GateAdmitsOnlyProven, [Next]_vars
    PROVE  GateAdmitsOnlyProven'
<1> SUFFICES ASSUME NEW q \in Procs, PastGate(q)'
             PROVE  /\ ptr'[q] \in SessionIds
                    /\ session'[ptr'[q]] # Unallocated
                    /\ session'[ptr'[q]].verified
                    /\ session'[ptr'[q]].mac \in Passwords
                    /\ session'[ptr'[q]].context = req'[q].context
  BY DEF GateAdmitsOnlyProven, Proven, Exists
<1>1. CASE PastGate(q) /\ req'[q] = req[q] /\ ptr'[q] = ptr[q]
  <2>1. ptr[q] \in SessionIds /\ Proven(ptr[q]) /\ session[ptr[q]].context = req[q].context
    BY <1>1 DEF GateAdmitsOnlyProven
  <2> QED
    BY <1>1, <2>1, SessionFieldsPersist, SessionsPersist DEF Proven
<1>2. CASE Restart
  BY <1>2 DEF Restart, PastGate, At
<1>3. ASSUME NEW p \in Procs, Process(p) \/ Step(p), q # p
      PROVE  PastGate(q) /\ req'[q] = req[q] /\ ptr'[q] = ptr[q]
  BY <1>3, OthersUntouched DEF PastGate, At
<1>4. CASE GateVerify(q)
  <2>1. Admits(ptr[q], req[q].context)
    BY <1>4 DEF GateVerify, Answer, TypeOK, PastGate, At
  <2>2. req'[q] = req[q] /\ ptr'[q] = ptr[q] /\ session' = session
    BY <1>4, <2>1 DEF GateVerify, Goto
  <2>3. ptr[q] \in SessionIds /\ Exists(ptr[q])
    BY <1>4 DEF GateVerify, At, PointersValid, UsesPointer
  <2> QED
    BY <2>1, <2>2, <2>3 DEF Admits, VerifiedOnlyByProof, Exists
<1>5. CASE Process(q)
  <2>1. PICK r \in Request : pc'[q] = EntryOf(r.type) /\ req'[q] = r
    BY <1>5 DEF Process, TypeOK
  <2> QED
    BY <2>1, EntryBeforeGate DEF PastGate, At
<1>6. CASE Step(q) /\ ~GateVerify(q)
  <2>1. pc'[q] \notin {"put", "handle"}
    BY <1>6
       DEF TypeOK, Step, At, CheckLockout, LookupRecord, MintSession, CreateSession,
           FindSession, CountFailure, DeleteSession, CountSuccess, MarkSession,
           IncrementGauge, GateGet, HandleService, PutRecord, Answer, Goto
  <2> QED
    BY <2>1 DEF PastGate, At
<1> QED
  BY <1>1, <1>2, <1>3, <1>4, <1>5, <1>6
     DEF Next, vars, CleanSessions, SubtractGauge, Tick, PastGate, At

\* The inductive invariant behind the theorems below.
GateInvariant == TypeOK /\ PointersValid /\ VerifiedOnlyByProof /\ GateAdmitsOnlyProven

\* GateInvariant holds in every reachable state.
THEOREM GateInvariance == Spec => []GateInvariant
<1>1. Init => GateInvariant
  <2>1. Init => VerifiedOnlyByProof /\ GateAdmitsOnlyProven
    BY DEF Init, StoreInit, VerifiedOnlyByProof, GateAdmitsOnlyProven, PastGate, At, Exists
  <2> QED
    BY <2>1, TypeInit, PointersInit DEF GateInvariant
<1>2. GateInvariant /\ [Next]_vars => GateInvariant'
  BY TypeStep, PointersStep, ProofStep, GateStep DEF GateInvariant
<1> QED
  BY <1>1, <1>2, PTL DEF Spec

\* A session is verified only with the password it was opened against.
THEOREM VerifiedByProof == Spec => []VerifiedOnlyByProof
BY GateInvariance, PTL DEF GateInvariant

\* The gate of handleService and handle2FAChange lets a request through only on
\* a session of its context that was verified with the password of a usable
\* record, whatever interleaves between Get and the handler.
THEOREM GateSound == Spec => []GateAdmitsOnlyProven
BY GateInvariance, PTL DEF GateInvariant

-----------------------------------------------------------------------------
(***************************************************************************)
(* Lifetimes.                                                              *)
(***************************************************************************)

\* Time does not go back.
LEMMA ClockMonotone ==
    ASSUME TypeOK, [Next]_vars
    PROVE  now' \in Nat /\ now <= now'
<1>1. CASE now' = now
  BY <1>1 DEF TypeOK, ClockTypeOK
<1>2. CASE Tick
  BY <1>2 DEF Tick, Advance, TypeOK, ClockTypeOK
<1>3. now' = now \/ Tick
  BY DEF Next, Step, vars, Process, CheckLockout, LookupRecord, MintSession,
         CreateSession, FindSession, CountFailure, DeleteSession, CountSuccess,
         MarkSession, IncrementGauge, GateGet, GateVerify, HandleService, PutRecord,
         CleanSessions, SubtractGauge, Restart
<1> QED
  BY <1>1, <1>2, <1>3

\* No session outlives the configured lifetime, whatever session_duration asks
\* for and however its conversion to a time.Duration overflows.
THEOREM LifetimeCapped == Spec => []LifetimeWithinTTL
<1>1. Init => LifetimeWithinTTL
  BY DEF Init, StoreInit, LifetimeWithinTTL, Exists
<1>2. GateInvariant /\ LifetimeWithinTTL /\ [Next]_vars => LifetimeWithinTTL'
  <2> SUFFICES ASSUME TypeOK, PointersValid, LifetimeWithinTTL, [Next]_vars,
                      NEW id \in SessionIds, session'[id] # Unallocated
               PROVE  session'[id].expires <= now' + SessionTTL
    BY DEF GateInvariant, LifetimeWithinTTL, Exists
  <2>1. now \in Nat /\ now' \in Nat /\ now <= now' /\ SessionTTL \in Nat
    BY ClockMonotone, TwoFactorAssumption DEF TypeOK, ClockTypeOK
  <2>2. Exists(id) => session[id].expires \in Int /\ session[id].expires <= now + SessionTTL
    BY DEF LifetimeWithinTTL, Exists, TypeOK, StoreTypeOK, Session
  <2>3. CASE session' = session
    BY <2>1, <2>2, <2>3 DEF Exists
  <2>4. ASSUME NEW p \in Procs, LookupRecord(p)
        PROVE  session'[id].expires <= now' + SessionTTL
    <3>1. CASE Exists(id)
      <4>1. session'[id].expires = session[id].expires
        BY <2>4, <3>1, LookupEffect
      <4> QED
        BY <2>1, <2>2, <3>1, <4>1
    <3>2. CASE ~Exists(id)
      <4>1. session'[id].expires = now
        BY <2>4, <3>2, LookupEffect
      <4>2. \A a, b, c \in Nat : a <= b => a <= b + c
        OBVIOUS
      <4>3. now <= now' + SessionTTL
        BY <2>1, <4>2
      <4> QED
        BY <4>1, <4>3
    <3> QED
      BY <3>1, <3>2
  <2>5. ASSUME NEW p \in Procs, MintSession(p)
        PROVE  session'[id].expires <= now' + SessionTTL
    <3>1. now' = now /\ Exists(id)
      BY <2>5, MintEffect DEF MintSession
    <3> QED
      BY <2>1, <2>2, <2>5, <3>1, MintEffect
  <2>6. ASSUME NEW p \in Procs, MarkSession(p)
        PROVE  session'[id].expires <= now' + SessionTTL
    <3>1. Exists(id) /\ session'[id].expires = session[id].expires
      BY <2>6, MarkEffect
    <3> QED
      BY <2>1, <2>2, <3>1
  <2> QED
    BY <2>3, <2>4, <2>5, <2>6, OtherStepsKeepSessions
<1> QED
  BY <1>1, <1>2, GateInvariance, PTL DEF Spec

\* Once a session has expired, no request gets hold of it.
THEOREM ExpiryFinal == Spec => ExpiredSessionAdmitsNobody
<1>1. GateInvariant /\ [Next]_vars =>
         [\A p \in Procs, id \in SessionIds :
             Exists(id) /\ Expired(id) => ~NewHolder(p, id)]_vars
  <2> SUFFICES ASSUME TypeOK, Next,
                      NEW q \in Procs, NEW id \in SessionIds,
                      Exists(id), Expired(id), NewHolder(q, id)
               PROVE  FALSE
    BY DEF GateInvariant
  <2>1. ptr'[q] = id /\ ptr[q] # id /\ id # NoSession
    BY StoreAssumption DEF NewHolder
  <2>2. CASE Restart
    BY <2>1, <2>2 DEF Restart
  <2>3. ASSUME NEW p \in Procs, Process(p) \/ Step(p), q # p PROVE FALSE
    BY <2>1, <2>3, OthersUntouched
  <2>4. CASE FindSession(q) \/ GateGet(q)
    <3>1. ptr'[q] = Get(req[q].sid)
      BY <2>1, <2>4 DEF FindSession, GateGet, Answer, TypeOK
    <3>2. ~Expired(Get(req[q].sid))
      BY <2>1, <3>1, GetType DEF TypeOK
    <3> QED
      BY <2>1, <3>1, <3>2
  <2>5. CASE LookupRecord(q)
    <3>1. CASE Answer(q)
      BY <2>1, <3>1 DEF Answer, TypeOK
    <3>2. CASE ~Answer(q)
      <4>1. pc'[q] = "mint"
        BY <2>5, <3>2 DEF LookupRecord, Goto, TypeOK
      <4> QED
        BY <2>1, <2>5, <4>1, LookupEffect
    <3> QED
      BY <3>1, <3>2
  <2>6. CASE \/ Process(q)
             \/ Step(q) /\ ~FindSession(q) /\ ~GateGet(q) /\ ~LookupRecord(q)
    BY <2>1, <2>6
       DEF TypeOK, Process, Step, CheckLockout, MintSession, CreateSession, CountFailure,
           DeleteSession, CountSuccess, MarkSession, IncrementGauge, GateVerify,
           HandleService, PutRecord, Answer, Goto
  <2> QED
    BY <2>1, <2>2, <2>3, <2>4, <2>5, <2>6 DEF Next, CleanSessions, SubtractGauge, Tick
<1> QED
  BY <1>1, GateInvariance, PTL DEF Spec, ExpiredSessionAdmitsNobody

-----------------------------------------------------------------------------
(***************************************************************************)
(* The attempt counter.                                                    *)
(***************************************************************************)

\* The failures of a client and context go down only after a full lockout, in a
\* restart, or by a finalize that names this client and context and has answered
\* the session that it names, whoever that session was opened for (authFinalize).
THEOREM CountFallsForCause == Spec => CountFallsOnlyForCause
<1>1. GateInvariant /\ [Next]_vars =>
         [\A k \in Keys : attempts'[k].failures < attempts[k].failures =>
             \/ LockoutServed(k)
             \/ \E p \in Procs : ResetBy(p, k)
             \/ epoch' # epoch]_vars
  <2> SUFFICES ASSUME TypeOK, VerifiedOnlyByProof, Next, NEW k \in Keys,
                      attempts'[k].failures < attempts[k].failures
               PROVE  \/ LockoutServed(k)
                      \/ \E p \in Procs : ResetBy(p, k)
                      \/ epoch' # epoch
    BY DEF GateInvariant
  <2>1. attempts[k] \in AttemptRecord /\ attempts[k].failures \in Nat
    BY DEF TypeOK, CounterTypeOK, AttemptRecord
  <2>2. CASE attempts' = attempts
    BY <2>1, <2>2
  <2>3. ASSUME NEW p \in Procs, CheckLockout(p) PROVE LockoutServed(k)
    BY <2>1, <2>3 DEF CheckLockout, Check, LockoutServed, TypeOK, CounterTypeOK
  <2>4. ASSUME NEW p \in Procs, CountFailure(p) PROVE FALSE
    <3>1. KeyOf(p) \in Keys
      BY <2>4, RequestType DEF CountFailure, At
    <3>2. CASE k = KeyOf(p)
      BY <2>1, <2>4, <3>2 DEF CountFailure, RecordFailure, TypeOK, CounterTypeOK
    <3>3. CASE k # KeyOf(p)
      BY <2>1, <2>4, <3>3 DEF CountFailure, RecordFailure, TypeOK, CounterTypeOK
    <3> QED
      BY <3>2, <3>3
  <2>5. ASSUME NEW p \in Procs, CountSuccess(p) PROVE ResetBy(p, k)
    <3>1. k = KeyOf(p)
      BY <2>1, <2>5 DEF CountSuccess, RecordSuccess, TypeOK, CounterTypeOK
    <3> QED
      BY <2>5, <3>1 DEF CountSuccess, At, ResetBy, VerifiedOnlyByProof
  <2>6. CASE Restart
    BY <2>6 DEF Restart, TypeOK
  <2> QED
    BY <2>2, <2>3, <2>4, <2>5, <2>6
       DEF Next, Step, Process, LookupRecord, MintSession, CreateSession, FindSession,
           DeleteSession, MarkSession, IncrementGauge, GateGet, GateVerify, HandleService,
           PutRecord, CleanSessions, SubtractGauge, Tick
<1> QED
  BY <1>1, GateInvariance, PTL DEF Spec, CountFallsOnlyForCause

\* Every finalize that is about to reset a counter answered a session of the
\* client and context that it names.
OwnSessionsOnly == \A p \in Procs : At(p, "success") => OwnSession(p)

\* That the session's account is not compared is the only way in which failures
\* are forgotten without a cause: where clients finalize only their own sessions,
\* the lockout is enforced (authFinalize, RecordSuccess).
THEOREM OwnSessionsSuffice == Spec /\ []OwnSessionsOnly => ForgivenOnlyForCause
<1> DEFINE Cause(k) == \/ LockoutServed(k)
                       \/ \E p \in Procs : ResetBy(p, k)
                       \/ epoch' # epoch
           OwnCause(k) == \/ LockoutServed(k)
                          \/ \E p \in Procs : ResetBy(p, k) /\ OwnSession(p)
                          \/ epoch' # epoch
<1>1. OwnSessionsOnly
      /\ [\A k \in Keys : attempts'[k].failures < attempts[k].failures => Cause(k)]_vars
      => [\A k \in Keys : attempts'[k].failures < attempts[k].failures => OwnCause(k)]_vars
    BY DEF OwnSessionsOnly, ResetBy
<1> QED
    BY <1>1, CountFallsForCause, PTL DEF CountFallsOnlyForCause, ForgivenOnlyForCause
=============================================================================
