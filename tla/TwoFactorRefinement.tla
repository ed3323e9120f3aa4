------------------------- MODULE TwoFactorRefinement -------------------------
(***************************************************************************)
(* TwoFactor implements SessionLifecycle, for every value of the           *)
(* constants.                                                              *)
(***************************************************************************)
EXTENDS TwoFactorProofs

Building == {"mint", "create"}

\* A session pointer that is not nil points to an object.
HeldExist == \A p \in Procs : ptr[p] # NoSession => Exists(ptr[p])

\* The inductive invariant of the refinement.
RefinementInvariant == GateInvariant /\ HeldExist /\ PrivateUntilCreate

-----------------------------------------------------------------------------
(***************************************************************************)
(* How a step changes a goroutine's pointer and whether it is building.    *)
(***************************************************************************)

\* A pointer is set only by LookupRecord and by a successful Get.
LEMMA PointerChange ==
    ASSUME TypeOK, [Next]_vars, NEW q \in Procs, ptr'[q] # ptr[q]
    PROVE  \/ ptr'[q] = NoSession
           \/ LookupRecord(q) /\ pc'[q] = "mint"
           \/ ptr'[q] \in stored
<1>1. CASE Restart
  BY <1>1 DEF Restart
<1>2. ASSUME NEW p \in Procs, Process(p) \/ Step(p), q # p PROVE FALSE
  BY <1>2, OthersUntouched
<1>3. CASE Answer(q)
  BY <1>3 DEF Answer, TypeOK
<1>4. CASE LookupRecord(q) /\ ~Answer(q)
  BY <1>4 DEF LookupRecord, Goto, TypeOK
<1>5. CASE (FindSession(q) \/ GateGet(q)) /\ ~Answer(q)
  <2>1. Get(req[q].sid) # NoSession /\ ptr'[q] = Get(req[q].sid)
    BY <1>5 DEF FindSession, GateGet, TypeOK
  <2> QED
    BY <2>1, GetType DEF TypeOK
<1>6. CASE \/ Process(q)
           \/ Step(q) /\ ~Answer(q) /\ ~FindSession(q) /\ ~GateGet(q) /\ ~LookupRecord(q)
  BY <1>6
     DEF Process, Step, CheckLockout, MintSession, CreateSession, CountFailure,
         DeleteSession, CountSuccess, MarkSession, IncrementGauge, GateVerify,
         HandleService, PutRecord
<1> QED
  BY <1>1, <1>2, <1>3, <1>4, <1>5, <1>6 DEF Next, vars, CleanSessions, SubtractGauge, Tick

\* An evaluate starts building in LookupRecord and keeps its pointer.
LEMMA StartsBuilding ==
    ASSUME TypeOK, [Next]_vars, NEW q \in Procs, pc'[q] \in Building
    PROVE  \/ LookupRecord(q) /\ pc'[q] = "mint"
           \/ pc[q] \in Building /\ ptr'[q] = ptr[q]
<1>1. CASE Restart
  BY <1>1 DEF Restart, Building
<1>2. ASSUME NEW p \in Procs, Process(p) \/ Step(p), q # p
      PROVE  pc[q] \in Building /\ ptr'[q] = ptr[q]
  BY <1>2, OthersUntouched
<1>3. CASE Process(q)
  <2>1. PICK r \in Request : pc'[q] = EntryOf(r.type)
    BY <1>3 DEF Process, TypeOK
  <2> QED
    BY <2>1, EntryBeforeGate DEF UsesPointer, Building
<1>4. CASE Step(q)
  BY <1>4
     DEF TypeOK, Building, At, Step, CheckLockout, LookupRecord, MintSession,
         CreateSession, FindSession, CountFailure, DeleteSession, CountSuccess,
         MarkSession, IncrementGauge, GateGet, GateVerify, HandleService, PutRecord,
         Answer, Goto
<1> QED
  BY <1>1, <1>2, <1>3, <1>4 DEF Next, vars, CleanSessions, SubtractGauge, Tick

\* Building ends in CreateSession or with the process.
LEMMA StopsBuilding ==
    ASSUME TypeOK, [Next]_vars, NEW q \in Procs, pc[q] \in Building
    PROVE  \/ pc'[q] \in Building /\ ptr'[q] = ptr[q]
           \/ CreateSession(q)
           \/ Restart
<1>1. ASSUME NEW p \in Procs, Process(p) \/ Step(p), q # p
      PROVE  pc'[q] \in Building /\ ptr'[q] = ptr[q]
  BY <1>1, OthersUntouched
<1>2. CASE Process(q) \/ Step(q)
  BY <1>2
     DEF TypeOK, Building, At, Process, Step, CheckLockout, LookupRecord, MintSession,
         FindSession, CountFailure, DeleteSession, CountSuccess, MarkSession,
         IncrementGauge, GateGet, GateVerify, HandleService, PutRecord, Goto
<1> QED
  BY <1>1, <1>2 DEF Next, vars, CleanSessions, SubtractGauge, Tick

-----------------------------------------------------------------------------
(***************************************************************************)
(* The invariant.                                                          *)
(***************************************************************************)

\* Every step keeps held pointers pointing to objects.
LEMMA HeldStep ==
    ASSUME TypeOK, PointersValid, HeldExist, [Next]_vars, TypeOK'
    PROVE  HeldExist'
<1> SUFFICES ASSUME NEW q \in Procs, ptr'[q] # NoSession
             PROVE  session'[ptr'[q]] # Unallocated
  BY DEF HeldExist, Exists
<1>1. ptr'[q] \in SessionIds
  BY DEF TypeOK
<1>2. CASE ptr'[q] = ptr[q] \/ ptr'[q] \in stored
  BY <1>1, <1>2, SessionsPersist DEF HeldExist, PointersValid
<1>3. CASE LookupRecord(q) /\ pc'[q] = "mint"
  BY <1>3, LookupEffect
<1> QED
  BY <1>2, <1>3, PointerChange

\* Every step keeps the sessions under construction private.
LEMMA PrivateStep ==
    ASSUME TypeOK, PointersValid, HeldExist, PrivateUntilCreate, [Next]_vars
    PROVE  PrivateUntilCreate'
<1> SUFFICES ASSUME NEW p \in Procs, pc'[p] \in Building
             PROVE  /\ ptr'[p] \notin stored'
                    /\ ~session'[ptr'[p]].verified
                    /\ \A q \in Procs \ {p} : ptr'[q] # ptr'[p]
  BY DEF PrivateUntilCreate, Building
<1>1. CASE LookupRecord(p) /\ pc'[p] = "mint"
  <2>1. /\ ptr'[p] \in SessionIds /\ ~Exists(ptr'[p])
        /\ session'[ptr'[p]] # Unallocated
        /\ session'[ptr'[p]].verified = FALSE
    BY <1>1, LookupEffect
  <2>2. stored' = stored
    BY <1>1 DEF LookupRecord
  <2>3. \A q \in Procs \ {p} : ptr'[q] = ptr[q]
    BY <1>1, OthersUntouched DEF Step
  <2>4. ptr'[p] # NoSession
    BY <2>1, StoreAssumption
  <2> QED
    BY <2>1, <2>2, <2>3, <2>4 DEF PointersValid, HeldExist
<1>2. CASE pc[p] \in Building /\ ptr'[p] = ptr[p]
  <2>1. /\ ptr[p] \in SessionIds /\ Exists(ptr[p])
        /\ ptr[p] \notin stored /\ ~session[ptr[p]].verified
        /\ \A q \in Procs \ {p} : ptr[q] # ptr[p]
    BY <1>2 DEF Building, PointersValid, UsesPointer, PrivateUntilCreate
  <2>2. ptr[p] \notin stored'
    <3> SUFFICES ASSUME ptr[p] \in stored' PROVE FALSE
      OBVIOUS
    <3>1. PICK q \in Procs : CreateSession(q) /\ ptr[p] = ptr[q]
      BY <2>1, OnlyCreateStores
    <3>2. q = p
      BY <2>1, <3>1
    <3> QED
      BY <3>1, <3>2 DEF CreateSession, Answer, TypeOK, Building
  <2>3. ~session'[ptr[p]].verified
    <3>1. CASE session' = session
      BY <2>1, <3>1
    <3>2. ASSUME NEW q \in Procs, LookupRecord(q) PROVE ~session'[ptr[p]].verified
      BY <2>1, <3>2, LookupEffect
    <3>3. ASSUME NEW q \in Procs, MintSession(q) PROVE ~session'[ptr[p]].verified
      BY <2>1, <3>3, MintEffect
    <3>4. ASSUME NEW q \in Procs, MarkSession(q) PROVE ~session'[ptr[p]].verified
      BY <2>1, <3>4, MarkEffect
    <3> QED
      BY <3>1, <3>2, <3>3, <3>4, OtherStepsKeepSessions
  <2>4. ASSUME NEW q \in Procs \ {p} PROVE ptr'[q] # ptr[p]
    <3>1. CASE ptr'[q] = ptr[q] \/ ptr'[q] = NoSession \/ ptr'[q] \in stored
      BY <2>1, <3>1, StoreAssumption
    <3>2. CASE LookupRecord(q) /\ pc'[q] = "mint"
      BY <2>1, <3>2, LookupEffect
    <3> QED
      BY <3>1, <3>2, PointerChange
  <2> QED
    BY <1>2, <2>2, <2>3, <2>4
<1> QED
  BY <1>1, <1>2, StartsBuilding

\* RefinementInvariant holds in every reachable state.
THEOREM RefinementInvariance == Spec => []RefinementInvariant
<1>1. Init => HeldExist /\ PrivateUntilCreate
  BY DEF Init, HeldExist, PrivateUntilCreate
<1>2. GateInvariant /\ GateInvariant' /\ HeldExist /\ PrivateUntilCreate /\ [Next]_vars
         => HeldExist' /\ PrivateUntilCreate'
  BY HeldStep, PrivateStep DEF GateInvariant
<1> QED
  BY <1>1, <1>2, GateInvariance, PTL DEF Spec, RefinementInvariant

\* Between LookupRecord and CreateSession nobody but the goroutine of authEvaluate
\* has the session that it builds, in the map or by a pointer.
THEOREM SessionsPrivate == Spec => []PrivateUntilCreate
BY RefinementInvariance, PTL DEF RefinementInvariant

-----------------------------------------------------------------------------
(***************************************************************************)
(* The refinement.  PhaseMap and GenuineMap are the abstract variables.    *)
(***************************************************************************)
PhaseMap == [id \in SessionIds |-> PhaseOf(id)]

GenuineMap == [id \in SessionIds |-> Exists(id) /\ session[id].mac \in Passwords]

\* A restart generates new key material.
LEMMA NotRestart == ASSUME TypeOK, epoch' = epoch PROVE ~Restart
BY DEF TypeOK, Restart

\* A session is under construction from LookupRecord to CreateSession.
LEMMA ConstructionStable ==
    ASSUME TypeOK, [Next]_vars, ~Restart, NEW id \in SessionIds,
           \A p \in Procs : ~(LookupRecord(p) /\ pc'[p] = "mint" /\ ptr'[p] = id),
           \A p \in Procs : ~(CreateSession(p) /\ ptr[p] = id)
    PROVE  UnderConstruction(id)' <=> UnderConstruction(id)
<1>1. ASSUME UnderConstruction(id)' PROVE UnderConstruction(id)
  <2>1. PICK p \in Procs : ptr'[p] = id /\ pc'[p] \in Building
    BY <1>1 DEF UnderConstruction, Building
  <2>2. pc[p] \in Building /\ ptr[p] = id
    BY <2>1, StartsBuilding
  <2> QED
    BY <2>2 DEF UnderConstruction, Building
<1>2. ASSUME UnderConstruction(id) PROVE UnderConstruction(id)'
  <2>1. PICK p \in Procs : ptr[p] = id /\ pc[p] \in Building
    BY <1>2 DEF UnderConstruction, Building
  <2>2. pc'[p] \in Building /\ ptr'[p] = id
    BY <2>1, StopsBuilding
  <2> QED
    BY <2>2 DEF UnderConstruction, Building
<1> QED
  BY <1>1, <1>2

\* What the phase of a session depends on.
LEMMA PhaseStable ==
    ASSUME NEW id \in SessionIds,
           session'[id] # Unallocated <=> Exists(id),
           UnderConstruction(id)' <=> UnderConstruction(id),
           id \in stored' <=> id \in stored,
           Exists(id) => session'[id].verified = session[id].verified
    PROVE  PhaseOf(id)' = PhaseOf(id)
<1>1. CASE ~Exists(id) \/ UnderConstruction(id)
  BY <1>1 DEF PhaseOf, Exists
<1>2. CASE Exists(id) /\ ~UnderConstruction(id)
  BY <1>2 DEF PhaseOf, Exists
<1> QED
  BY <1>1, <1>2

\* The password of an existing session is fixed, so is whether it is genuine.
LEMMA GenuineStable ==
    ASSUME TypeOK, PointersValid, [Next]_vars, \A p \in Procs : ~LookupRecord(p)
    PROVE  GenuineMap' = GenuineMap
<1>1. \A id \in SessionIds : (session'[id] # Unallocated <=> Exists(id))
  BY OtherStepsKeepSessions, MintEffect, MarkEffect DEF Exists
<1>2. \A id \in SessionIds : Exists(id) => session'[id].mac = session[id].mac
  BY SessionFieldsPersist
<1> QED
  BY <1>1, <1>2 DEF GenuineMap, Exists

\* The initial states are those of the abstract specification.
LEMMA RefinementInit == Init => Lifecycle!LifecycleInit
BY DEF Init, StoreInit, Lifecycle!LifecycleInit, PhaseOf, Exists

\* LookupRecord prepares a session that is still fresh, or does nothing.
LEMMA LookupRefines ==
    ASSUME RefinementInvariant, NEW p \in Procs, LookupRecord(p)
    PROVE  /\ PhaseMap' = PhaseMap
           /\ \/ GenuineMap' = GenuineMap
              \/ \E id \in SessionIds : /\ PhaseMap[id] = "fresh"
                                        /\ ~GenuineMap[id]
                                        /\ GenuineMap' = [GenuineMap EXCEPT ![id] = TRUE]
<1> USE DEF RefinementInvariant, GateInvariant
<1>1. [Next]_vars /\ ~Restart /\ stored' = stored /\ pc[p] = "lookup"
  BY DEF Next, Step, LookupRecord, Restart, At, TypeOK
<1>2. CASE Answer(p) /\ session' = session
  <2>1. ASSUME NEW id \in SessionIds PROVE PhaseOf(id)' = PhaseOf(id)
    <3>1. \A q \in Procs : ~(LookupRecord(q) /\ pc'[q] = "mint" /\ ptr'[q] = id)
      BY <1>2, OthersUntouched DEF Answer, TypeOK, Step, LookupRecord, At
    <3>2. \A q \in Procs : ~CreateSession(q)
      BY <1>1, <1>2 DEF CreateSession, Answer, At, TypeOK
    <3>3. UnderConstruction(id)' <=> UnderConstruction(id)
      BY <1>1, <3>1, <3>2, ConstructionStable
    <3> QED
      BY <1>1, <1>2, <3>3, PhaseStable DEF Exists
  <2> QED
    BY <1>2, <2>1 DEF PhaseMap, GenuineMap, Exists
<1>3. CASE ~(Answer(p) /\ session' = session)
  <2>1. PICK id \in SessionIds, mac \in {Answerable(KeyOf(p)), NoPassword} :
           /\ ~Exists(id)
           /\ session' = [session EXCEPT ![id] =
                           [client |-> req[p].client, context |-> req[p].context,
                            mac |-> mac, expires |-> now, verified |-> FALSE]]
           /\ ptr' = [ptr EXCEPT ![p] = id]
           /\ Goto(p, "mint")
    BY <1>3 DEF LookupRecord
  <2> DEFINE s == [client |-> req[p].client, context |-> req[p].context,
                   mac |-> mac, expires |-> now, verified |-> FALSE]
  <2>2. s # Unallocated /\ s.mac = mac
    <3>1. req[p] \in Request /\ KeyOf(p) \in Keys
      BY <1>1, RequestType
    <3>2. mac \in Passwords \cup {NoPassword}
      BY <3>1 DEF Answerable, TypeOK, StoredRecord
    <3>3. s \in Session
      BY <3>1, <3>2 DEF Session, Request, TypeOK, ClockTypeOK
    <3> QED
      BY <3>3, StoreAssumption
  <2>3. /\ session'[id] = s
        /\ \A x \in SessionIds \ {id} : session'[x] = session[x]
    BY <2>1 DEF TypeOK, StoreTypeOK
  <2>4. ptr'[p] = id /\ pc'[p] = "mint"
    BY <2>1 DEF Goto, TypeOK
  <2> HIDE DEF s
  <2>5. PhaseOf(id) = "fresh" /\ PhaseOf(id)' = "fresh"
    <3>1. UnderConstruction(id)'
      BY <2>4 DEF UnderConstruction
    <3> QED
      BY <2>1, <3>1 DEF PhaseOf
  <2>6. ASSUME NEW x \in SessionIds \ {id} PROVE PhaseOf(x)' = PhaseOf(x)
    <3>1. ASSUME NEW q \in Procs, q # p PROVE pc'[q] = pc[q]
      BY <3>1, OthersUntouched DEF Step
    <3>2. \A q \in Procs : ~(LookupRecord(q) /\ pc'[q] = "mint" /\ ptr'[q] = x)
      BY <2>4, <3>1 DEF LookupRecord, At
    <3>3. \A q \in Procs : ~CreateSession(q)
      BY <1>1, <3>1 DEF CreateSession, Answer, At, TypeOK
    <3>4. UnderConstruction(x)' <=> UnderConstruction(x)
      BY <1>1, <3>2, <3>3, ConstructionStable
    <3> QED
      BY <1>1, <2>3, <3>4, PhaseStable DEF Exists
  <2>7. PhaseMap' = PhaseMap
    BY <2>5, <2>6 DEF PhaseMap
  <2>8. PhaseMap[id] = "fresh" /\ ~GenuineMap[id]
    BY <2>1, <2>5 DEF PhaseMap, GenuineMap
  <2>9. \A x \in SessionIds : GenuineMap'[x] = IF x = id THEN mac \in Passwords ELSE GenuineMap[x]
    BY <2>2, <2>3 DEF GenuineMap, Exists
  <2>10. CASE mac \in Passwords
    <3>1. GenuineMap' = [GenuineMap EXCEPT ![id] = TRUE]
      BY <2>9, <2>10 DEF GenuineMap
    <3> QED
      BY <2>7, <2>8, <3>1
  <2>11. CASE mac \notin Passwords
    <3>1. GenuineMap' = GenuineMap
      BY <2>8, <2>9, <2>11 DEF GenuineMap
    <3> QED
      BY <2>7, <3>1
  <2> QED
    BY <2>10, <2>11
<1> QED
  BY <1>2, <1>3

\* CreateSession opens a fresh session.
LEMMA CreateRefines ==
    ASSUME RefinementInvariant, NEW p \in Procs, CreateSession(p)
    PROVE  /\ ptr[p] \in SessionIds
           /\ PhaseMap[ptr[p]] = "fresh"
           /\ PhaseMap' = [PhaseMap EXCEPT ![ptr[p]] = "pending"]
<1> USE DEF RefinementInvariant, GateInvariant
<1>1. /\ [Next]_vars /\ ~Restart /\ session' = session
      /\ stored' = stored \cup {ptr[p]}
      /\ pc[p] = "create" /\ pc'[p] = "idle"
  BY DEF Next, Step, CreateSession, Create, Restart, At, Answer, TypeOK
<1>2. /\ ptr[p] \in SessionIds /\ Exists(ptr[p])
      /\ ~session[ptr[p]].verified
      /\ \A q \in Procs \ {p} : ptr[q] # ptr[p]
  BY <1>1 DEF PointersValid, UsesPointer, PrivateUntilCreate
<1>3. \A q \in Procs \ {p} : pc'[q] = pc[q] /\ ptr'[q] = ptr[q]
  BY OthersUntouched DEF Step
<1>4. PICK id \in SessionIds : id = ptr[p]
  BY <1>2
<1>5. PhaseOf(id) = "fresh"
  BY <1>1, <1>4 DEF PhaseOf, UnderConstruction
<1>6. PhaseOf(id)' = "pending"
  <2>1. ~UnderConstruction(id)'
    BY <1>1, <1>2, <1>3, <1>4 DEF UnderConstruction
  <2>2. Exists(id)' /\ id \in stored' /\ ~session'[id].verified
    BY <1>1, <1>2, <1>4 DEF Exists
  <2> QED
    BY <2>1, <2>2 DEF PhaseOf
<1>7. ASSUME NEW x \in SessionIds \ {id} PROVE PhaseOf(x)' = PhaseOf(x)
  <2>1. \A q \in Procs : ~(LookupRecord(q) /\ pc'[q] = "mint" /\ ptr'[q] = x)
    BY <1>1, <1>3 DEF LookupRecord, At
  <2>2. \A q \in Procs : ~(CreateSession(q) /\ ptr[q] = x)
    BY <1>3, <1>4 DEF CreateSession, Answer, At, TypeOK
  <2>3. UnderConstruction(x)' <=> UnderConstruction(x)
    BY <1>1, <2>1, <2>2, ConstructionStable
  <2> QED
    BY <1>1, <1>4, <2>3, PhaseStable DEF Exists
<1> QED
  BY <1>4, <1>5, <1>6, <1>7 DEF PhaseMap

\* Apart from LookupRecord, CreateSession and a restart, the phase of a session
\* that MarkSession, DeleteSession or CleanSessions does not touch is stable.
LEMMA OtherPhasesStable ==
    ASSUME TypeOK, [Next]_vars, ~Restart,
           \A p \in Procs : ~LookupRecord(p) /\ ~CreateSession(p),
           NEW id \in SessionIds,
           session'[id] # Unallocated <=> Exists(id),
           Exists(id) => session'[id].verified = session[id].verified,
           id \in stored' <=> id \in stored
    PROVE  PhaseOf(id)' = PhaseOf(id)
<1>1. UnderConstruction(id)' <=> UnderConstruction(id)
  BY ConstructionStable
<1> QED
  BY <1>1, PhaseStable

\* A session of the map is not under construction.
LEMMA StoredNotBuilding ==
    ASSUME RefinementInvariant, NEW id \in stored
    PROVE  Exists(id) /\ ~UnderConstruction(id)
BY DEF RefinementInvariant, GateInvariant, PointersValid, PrivateUntilCreate,
       UnderConstruction

\* MarkSession verifies a pending, genuine session, or changes nothing.
LEMMA MarkRefines ==
    ASSUME RefinementInvariant, NEW p \in Procs, MarkSession(p)
    PROVE  \/ PhaseMap' = PhaseMap
           \/ \E id \in SessionIds : /\ PhaseMap[id] = "pending"
                                     /\ GenuineMap[id]
                                     /\ PhaseMap' = [PhaseMap EXCEPT ![id] = "verified"]
<1> USE DEF RefinementInvariant, GateInvariant
<1>1. [Next]_vars /\ ~Restart /\ stored' = stored /\ pc[p] = "mark"
  <2>1. [Next]_vars
    BY DEF Next, Step
  <2> QED
    BY <2>1, NotRestart DEF MarkSession, MarkVerified, At
<1>2. \A q \in Procs : ~LookupRecord(q) /\ ~CreateSession(q)
  <2>1. \A q \in Procs \ {p} : pc'[q] = pc[q]
    BY OthersUntouched DEF Step
  <2> QED
    BY <1>1, <2>1 DEF LookupRecord, CreateSession, Answer, Goto, At, TypeOK
<1>3. ASSUME NEW x \in SessionIds, x # req[p].sid \/ x \notin stored
      PROVE  PhaseOf(x)' = PhaseOf(x)
  BY <1>1, <1>2, <1>3, MarkEffect, OtherPhasesStable
<1>4. CASE req[p].sid \notin stored
  BY <1>3, <1>4 DEF PhaseMap
<1>5. CASE req[p].sid \in stored
  <2>1. PICK id \in SessionIds : id = req[p].sid /\ id \in stored
    BY <1>5 DEF TypeOK, StoreTypeOK
  <2>2. Exists(id) /\ ~UnderConstruction(id)
    BY <2>1, StoredNotBuilding
  <2>3. UnderConstruction(id)' <=> UnderConstruction(id)
    BY <1>1, <1>2, ConstructionStable
  <2>4. session'[id] # Unallocated /\ session'[id].verified
    <3>1. session'[id].verified
      BY <2>1, <2>2 DEF MarkSession, MarkVerified, TypeOK, StoreTypeOK, Session, Exists
    <3> QED
      BY <2>2, <3>1, MarkEffect
  <2>5. PhaseOf(id)' = "verified"
    BY <1>1, <2>1, <2>2, <2>3, <2>4 DEF PhaseOf, Exists
  <2>6. PhaseMap' = [PhaseMap EXCEPT ![id] = "verified"]
    BY <1>3, <2>1, <2>5 DEF PhaseMap
  <2>7. GenuineMap[id]
    BY <1>1, <2>1, <2>2 DEF GenuineMap, VerifiedOnlyByProof, AuthFinalize
  <2>8. PhaseMap[id] \in {"pending", "verified"}
    BY <2>1, <2>2 DEF PhaseMap, PhaseOf
  <2>9. CASE PhaseMap[id] = "pending"
    BY <2>6, <2>7, <2>9
  <2>10. CASE PhaseMap[id] = "verified"
    BY <2>6, <2>10 DEF PhaseMap
  <2> QED
    BY <2>8, <2>9, <2>10
<1> QED
  BY <1>4, <1>5

\* Closing the sessions of S, which leave the map.
LEMMA CloseRefines ==
    ASSUME RefinementInvariant, [Next]_vars, ~Restart, session' = session,
           \A p \in Procs : ~LookupRecord(p) /\ ~CreateSession(p),
           NEW S \in SUBSET stored, stored' = stored \ S
    PROVE  PhaseMap' = [id \in SessionIds |-> IF id \in S THEN "closed" ELSE PhaseMap[id]]
<1> USE DEF RefinementInvariant, GateInvariant
<1>1. ASSUME NEW id \in SessionIds, id \in S PROVE PhaseOf(id)' = "closed"
  <2>1. Exists(id) /\ ~UnderConstruction(id)
    BY <1>1, StoredNotBuilding
  <2>2. UnderConstruction(id)' <=> UnderConstruction(id)
    BY ConstructionStable
  <2> QED
    BY <1>1, <2>1, <2>2 DEF PhaseOf, Exists
<1>2. ASSUME NEW id \in SessionIds, id \notin S PROVE PhaseOf(id)' = PhaseOf(id)
  BY <1>2, OtherPhasesStable DEF Exists
<1> QED
  BY <1>1, <1>2 DEF PhaseMap

\* A restart closes every session there is, under construction or not.
LEMMA RestartRefines ==
    ASSUME RefinementInvariant, Restart
    PROVE  /\ PhaseMap' = [id \in SessionIds |-> IF id \in {x \in SessionIds : Exists(x)}
                                                  THEN "closed" ELSE PhaseMap[id]]
           /\ GenuineMap' = GenuineMap
<1>1. \A id \in SessionIds : ~UnderConstruction(id)'
  BY StoreAssumption DEF Restart, UnderConstruction
<1>2. stored' = {} /\ session' = session
  BY DEF Restart
<1>3. ASSUME NEW id \in SessionIds
      PROVE  PhaseOf(id)' = IF Exists(id) THEN "closed" ELSE PhaseOf(id)
  BY <1>1, <1>2 DEF PhaseOf, Exists
<1> QED
  BY <1>2, <1>3 DEF PhaseMap, GenuineMap, Exists

\* Every step is a step of the abstract specification or a stutter.
LEMMA RefinementStep ==
    ASSUME RefinementInvariant, [Next]_vars
    PROVE  [Lifecycle!LifecycleNext]_(Lifecycle!lifecycleVars)
<1> USE DEF RefinementInvariant, GateInvariant
<1> DEFINE Stutter == PhaseMap' = PhaseMap /\ GenuineMap' = GenuineMap
           Closes(S) == /\ PhaseMap' = [id \in SessionIds |-> IF id \in S THEN "closed"
                                                              ELSE PhaseMap[id]]
                        /\ GenuineMap' = GenuineMap
<1>1. Stutter => [Lifecycle!LifecycleNext]_(Lifecycle!lifecycleVars)
  BY DEF Lifecycle!lifecycleVars, PhaseMap, GenuineMap
<1>2. \A S \in SUBSET SessionIds :
         Closes(S) => [Lifecycle!LifecycleNext]_(Lifecycle!lifecycleVars)
  BY DEF Lifecycle!LifecycleNext, Lifecycle!Close, PhaseMap, GenuineMap
<1>3. ASSUME NEW p \in Procs, LookupRecord(p)
      PROVE  [Lifecycle!LifecycleNext]_(Lifecycle!lifecycleVars)
  BY <1>1, <1>3, LookupRefines
     DEF Lifecycle!LifecycleNext, Lifecycle!Prepare, PhaseMap, GenuineMap
<1>4. ASSUME NEW p \in Procs, CreateSession(p)
      PROVE  [Lifecycle!LifecycleNext]_(Lifecycle!lifecycleVars)
  <2>1. session' = session
    BY <1>4 DEF CreateSession
  <2>2. GenuineMap' = GenuineMap
    BY <2>1 DEF GenuineMap, Exists
  <2> QED
    BY <1>4, <2>2, CreateRefines
       DEF Lifecycle!LifecycleNext, Lifecycle!Open, PhaseMap, GenuineMap
<1>5. CASE Restart
  BY <1>2, <1>5, RestartRefines
<1>6. CASE ~Restart /\ \A p \in Procs : ~LookupRecord(p) /\ ~CreateSession(p)
  <2>1. GenuineMap' = GenuineMap
    BY <1>6, GenuineStable
  <2>2. ASSUME NEW p \in Procs, MarkSession(p)
        PROVE  [Lifecycle!LifecycleNext]_(Lifecycle!lifecycleVars)
    BY <1>1, <2>1, <2>2, MarkRefines
       DEF Lifecycle!LifecycleNext, Lifecycle!Verify, PhaseMap, GenuineMap
  <2>3. ASSUME NEW p \in Procs, DeleteSession(p)
        PROVE  [Lifecycle!LifecycleNext]_(Lifecycle!lifecycleVars)
    <3> DEFINE S == stored \cap {req[p].sid}
    <3>1. stored' = stored \ S /\ session' = session
      BY <2>3 DEF DeleteSession, Delete
    <3>2. Closes(S)
      BY <1>6, <2>1, <3>1, CloseRefines
    <3>3. S \in SUBSET SessionIds
      BY DEF TypeOK, StoreTypeOK
    <3> QED
      BY <1>2, <3>2, <3>3
  <2>4. CASE CleanSessions
    <3>1. stored' = stored \ ExpiredIds /\ session' = session /\ ExpiredIds \in SUBSET stored
      BY <2>4 DEF CleanSessions, CleanExpired, ExpiredIds
    <3>2. Closes(ExpiredIds)
      BY <1>6, <2>1, <3>1, CloseRefines
    <3>3. ExpiredIds \in SUBSET SessionIds
      BY <3>1 DEF TypeOK, StoreTypeOK
    <3> QED
      BY <1>2, <3>2, <3>3
  <2>5. CASE ~CleanSessions /\ \A p \in Procs : ~MarkSession(p) /\ ~DeleteSession(p)
    <3>1. stored' = stored
      BY <1>6, <2>5
         DEF Next, Step, vars, Process, CheckLockout, MintSession, FindSession,
             CountFailure, CountSuccess, IncrementGauge, GateGet, GateVerify,
             HandleService, PutRecord, SubtractGauge, Tick
    <3>2. ASSUME NEW id \in SessionIds
          PROVE  /\ session'[id] # Unallocated <=> Exists(id)
                 /\ Exists(id) => session'[id].verified = session[id].verified
      BY <1>6, <2>5, OtherStepsKeepSessions, MintEffect DEF Exists
    <3>3. \A id \in SessionIds : PhaseOf(id)' = PhaseOf(id)
      BY <1>6, <3>1, <3>2, OtherPhasesStable
    <3>4. PhaseMap' = PhaseMap
      BY <3>3 DEF PhaseMap
    <3> QED
      BY <1>1, <2>1, <3>4
  <2> QED
    BY <2>2, <2>3, <2>4, <2>5
<1> QED
  BY <1>3, <1>4, <1>5, <1>6

\* The sessions of the dispatcher implement SessionLifecycle: fresh, pending,
\* verified, closed and never back, and verified only when genuine.
THEOREM Refinement == Spec => ImplementsLifecycle
BY RefinementInit, RefinementStep, RefinementInvariance, PTL
   DEF Spec, ImplementsLifecycle, Lifecycle!LifecycleSpec
=============================================================================
