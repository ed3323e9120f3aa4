----------------------------- MODULE Fido2Proofs -----------------------------
(***************************************************************************)
(* The FIDO2 flows are safe for every number of clients, goroutines,       *)
(* challenges, credentials and sessions.                                   *)
(*                                                                         *)
(* What a goroutine knows at each step was established by an earlier one,  *)
(* and the store, the clock and the other goroutines have moved on since.  *)
(* The inductive invariant says which of it is still true:                 *)
(*  - the label says which kind of request is worked on (RequestAt);       *)
(*  - a token that was accepted was issued, to the account of the request, *)
(*    and no token is ever issued twice or changed (TokenAt);              *)
(*  - past the verification, the assertion is by a credential that is      *)
(*    still registered (no step removes one) and its counter was accepted  *)
(*    against the one that was stored then (AssertionAt);                  *)
(*  - iat is the second in which the token was made, and no token was made *)
(*    in the future (TokensDated).                                         *)
(***************************************************************************)
EXTENDS Fido2, TLAPS

Finalizing == {"token", "lookup", "fail", "update", "create", "success"}

RequestAt(p) ==
    /\ pc[p] \in {"check", "issue"} => req[p] \in ChallengeRequest
    /\ pc[p] \in {"register", "put"} => req[p] \in RegisterRequest
    /\ pc[p] \in Finalizing => req[p] \in FinalizeRequest
    /\ pc[p] \in {"gate", "handle"} => req[p] \in SignRequest

TypeInv == Fido2TypeOK /\ \A p \in Procs : RequestAt(p)

TokenAt(p) ==
    /\ pc[p] \in Finalizing => issued[req[p].token] # None
    /\ pc[p] \in Finalizing \ {"token"} =>
          <<issued[req[p].token].client, issued[req[p].token].context>> = KeyOf(p)

AssertionAt(p) ==
    pc[p] \in {"update", "create", "success"} =>
       /\ req[p].challenge = req[p].token
       /\ req[p].signer = req[p].cred
       /\ signCount[<<KeyOf(p), req[p].cred>>] # None
       /\ req[p].known # None
       /\ CountAccepted(req[p].count, req[p].known)

TokensDated ==
    \A ch \in Challenges : issued[ch] # None =>
       /\ issued[ch].born <= now
       /\ issued[ch].iat = issued[ch].born - (issued[ch].born % Second)

FlowInv == /\ TypeInv
           /\ TokensDated
           /\ \A p \in Procs : TokenAt(p) /\ AssertionAt(p)

-----------------------------------------------------------------------------
\* A request has an account unless it is a sign request.
LEMMA Accounts ==
    ASSUME TypeInv, NEW p \in Procs,
           pc[p] \notin {"idle", "gate", "handle"}
    PROVE  KeyOf(p) \in Keys /\ req[p].client \in Clients /\ req[p].context \in Contexts
BY DEF TypeInv, Fido2TypeOK, RequestAt, Labels, Finalizing, KeyOf, Keys,
    ChallengeRequest, RegisterRequest, FinalizeRequest

\* An answered request leaves its goroutine idle.
LEMMA AnswerType ==
    ASSUME TypeInv, NEW p \in Procs, Answer(p)
    PROVE  /\ pc' \in [Procs -> Labels] /\ req' \in [Procs -> Request \cup {None}]
           /\ \A q \in Procs : (pc[q] = "idle" <=> req[q] = None)'
           /\ \A q \in Procs : RequestAt(q)'
BY DEF TypeInv, Fido2TypeOK, RequestAt, Labels, Finalizing, Answer

\* A request stays with the steps of its kind.
LEMMA GotoType ==
    ASSUME TypeInv, NEW p \in Procs, pc[p] # "idle", NEW l \in Labels \ {"idle"}, Goto(p, l),
           \/ {pc[p], l} \subseteq {"check", "issue"}
           \/ {pc[p], l} \subseteq {"register", "put"}
           \/ {pc[p], l} \subseteq Finalizing
           \/ {pc[p], l} \subseteq {"gate", "handle"}
    PROVE  /\ pc' \in [Procs -> Labels] /\ req' \in [Procs -> Request \cup {None}]
           /\ \A q \in Procs : (pc[q] = "idle" <=> req[q] = None)'
           /\ \A q \in Procs : RequestAt(q)'
BY DEF TypeInv, Fido2TypeOK, RequestAt, Labels, Finalizing, Goto

\* A whole second is not after the instant it is of, and less than a second
\* before it.
LEMMA WholeSecond ==
    ASSUME NEW t \in Nat
    PROVE  t % Second \in 0..(Second - 1) /\ t - (t % Second) \in Nat
BY Fido2Assumption

\* The initial state: nothing issued, registered or opened, nobody at work.
LEMMA TypeInitial == Init => TypeInv
BY AbsenceAssumption DEF Init, TypeInv, Fido2TypeOK, ClockInit, ClockTypeOK, CounterInit,
    CounterTypeOK, AttemptRecord, NoAttempts, Labels, RequestAt, Finalizing

\* The arrival of a request: its type decides the first label.
LEMMA ProcessType == ASSUME TypeInv, NEW p \in Procs, Process(p) PROVE TypeInv'
<1> PICK r \in Request : /\ req' = [req EXCEPT ![p] = r]
                         /\ pc' = [pc EXCEPT ![p] = EntryOf(r.type)]
    BY DEF Process
<1>1. \/ r \in ChallengeRequest /\ EntryOf(r.type) \in {"issue", "check"}
      \/ r \in RegisterRequest /\ EntryOf(r.type) = "register"
      \/ r \in FinalizeRequest /\ EntryOf(r.type) = "token"
      \/ r \in SignRequest /\ EntryOf(r.type) = "gate"
    BY DEF Request, ChallengeRequest, RegisterRequest, FinalizeRequest, SignRequest, EntryOf
<1>2. r # None
    BY AbsenceAssumption
<1>3. /\ pc' \in [Procs -> Labels] /\ req' \in [Procs -> Request \cup {None}]
      /\ \A q \in Procs : (pc[q] = "idle" <=> req[q] = None)'
    BY <1>1, <1>2 DEF TypeInv, Fido2TypeOK, Labels
<1>4. ASSUME NEW q \in Procs
      PROVE  RequestAt(q)'
    BY <1>1 DEF TypeInv, Fido2TypeOK, RequestAt, Finalizing, Labels
<1> QED
    BY <1>3, <1>4 DEF Process, TypeInv, Fido2TypeOK, ClockTypeOK, CounterTypeOK

\* Challenge tokens.
LEMMA ChallengeType ==
    ASSUME TypeInv, NEW p \in Procs, CheckLockout(p) \/ IssueToken(p)
    PROVE  TypeInv'
<1>1. CASE CheckLockout(p)
    <2>1. KeyOf(p) \in Keys
        BY <1>1, Accounts DEF CheckLockout, At
    <2>2. CounterTypeOK'
        BY <1>1, <2>1 DEF CheckLockout, Check, TypeInv, Fido2TypeOK, CounterTypeOK,
            AttemptRecord, NoAttempts
    <2>3. /\ pc' \in [Procs -> Labels] /\ req' \in [Procs -> Request \cup {None}]
          /\ \A q \in Procs : (pc[q] = "idle" <=> req[q] = None)'
          /\ \A q \in Procs : RequestAt(q)'
        <3>1. CASE Answer(p)
            BY <3>1, AnswerType
        <3>2. CASE Goto(p, "issue")
            BY <1>1, <3>2, GotoType DEF CheckLockout, At, Labels
        <3> QED
            BY <1>1, <3>1, <3>2 DEF CheckLockout
    <2> QED
        BY <1>1, <2>2, <2>3 DEF CheckLockout, TypeInv, Fido2TypeOK, ClockTypeOK
<1>2. CASE IssueToken(p)
    <2>1. req[p].client \in Clients /\ req[p].context \in Contexts
        BY <1>2, Accounts DEF IssueToken, At
    <2>2. now \in Nat /\ now - (now % Second) \in Nat
        BY WholeSecond DEF TypeInv, Fido2TypeOK, ClockTypeOK
    <2>3. issued' \in [Challenges -> Token \cup {None}]
        BY <1>2, <2>1, <2>2 DEF IssueToken, TypeInv, Fido2TypeOK, Token
    <2> QED
        BY <1>2, <2>3, AnswerType DEF IssueToken, TypeInv, Fido2TypeOK, ClockTypeOK,
            CounterTypeOK
<1> QED
    BY <1>1, <1>2

\* Registration.
LEMMA RegisterType ==
    ASSUME TypeInv, NEW p \in Procs, Register(p) \/ PutCredential(p)
    PROVE  TypeInv'
<1>1. CASE Register(p)
    <2>1. CASE Answer(p)
        BY <1>1, <2>1, AnswerType DEF Register, TypeInv, Fido2TypeOK, ClockTypeOK, CounterTypeOK
    <2>2. CASE Goto(p, "put")
        BY <1>1, <2>2, GotoType DEF Register, At, Labels, TypeInv, Fido2TypeOK, ClockTypeOK,
            CounterTypeOK
    <2> QED
        BY <1>1, <2>1, <2>2 DEF Register
<1>2. CASE PutCredential(p)
    <2>1. req[p].count \in Counts
        BY <1>2 DEF PutCredential, At, TypeInv, RequestAt, RegisterRequest
    <2>2. signCount' \in [Keys \X Credentials -> Counts \cup {None}]
        BY <1>2, <2>1 DEF PutCredential, TypeInv, Fido2TypeOK
    <2> QED
        BY <1>2, <2>2, AnswerType DEF PutCredential, TypeInv, Fido2TypeOK, ClockTypeOK,
            CounterTypeOK
<1> QED
    BY <1>1, <1>2

\* The verification of a finalize request: the counter it was checked against
\* is kept with the request.
LEMMA VerifyType ==
    ASSUME TypeInv, NEW p \in Procs, DecryptToken(p) \/ LookupAndVerify(p)
    PROVE  TypeInv'
<1>1. CASE DecryptToken(p)
    <2>1. CASE Answer(p)
        BY <1>1, <2>1, AnswerType DEF DecryptToken, TypeInv, Fido2TypeOK, ClockTypeOK,
            CounterTypeOK
    <2>2. CASE Goto(p, "lookup")
        BY <1>1, <2>2, GotoType DEF DecryptToken, At, Labels, Finalizing, TypeInv, Fido2TypeOK,
            ClockTypeOK, CounterTypeOK
    <2> QED
        BY <1>1, <2>1, <2>2 DEF DecryptToken
<1>2. CASE LookupAndVerify(p)
    <2> DEFINE known == signCount[<<KeyOf(p), req[p].cred>>]
    <2>1. CASE Goto(p, "fail")
        BY <1>2, <2>1, GotoType DEF LookupAndVerify, At, Labels, Finalizing, TypeInv,
            Fido2TypeOK, ClockTypeOK, CounterTypeOK
    <2>2. CASE /\ pc' = [pc EXCEPT ![p] = "update"]
               /\ req' = [req EXCEPT ![p].known = known]
        <3>1. req[p] \in FinalizeRequest /\ KeyOf(p) \in Keys
            BY <1>2, Accounts DEF LookupAndVerify, At, TypeInv, RequestAt, Finalizing
        <3>2. known \in Counts \cup {None}
            BY <3>1 DEF TypeInv, Fido2TypeOK, FinalizeRequest
        <3>3. [req[p] EXCEPT !.known = known] \in FinalizeRequest
            BY <3>1, <3>2 DEF FinalizeRequest
        <3>4. req'[p] \in FinalizeRequest /\ req'[p] # None
            BY <2>2, <3>3, AbsenceAssumption DEF TypeInv, Fido2TypeOK, Request
        <3>5. req' \in [Procs -> Request \cup {None}]
            BY <2>2, <3>3 DEF TypeInv, Fido2TypeOK, Request
        <3>6. \A q \in Procs : RequestAt(q)' /\ (pc[q] = "idle" <=> req[q] = None)'
            BY <2>2, <3>4 DEF TypeInv, Fido2TypeOK, RequestAt, Finalizing, Labels
        <3> QED
            BY <1>2, <2>2, <3>5, <3>6 DEF LookupAndVerify, TypeInv, Fido2TypeOK, ClockTypeOK,
                CounterTypeOK, Labels
    <2>3. CASE Answer(p)
        BY <1>2, <2>3, AnswerType DEF LookupAndVerify, TypeInv, Fido2TypeOK, ClockTypeOK,
            CounterTypeOK
    <2> QED
        BY <1>2, <2>1, <2>2, <2>3 DEF LookupAndVerify
<1> QED
    BY <1>1, <1>2

\* The outcome of a finalize request.
LEMMA OutcomeType ==
    ASSUME TypeInv, NEW p \in Procs,
           CountFailure(p) \/ UpdateSignCount(p) \/ CreateSession(p) \/ CountSuccess(p)
    PROVE  TypeInv'
<1>0. /\ req[p] \in FinalizeRequest /\ pc[p] \in Finalizing
      /\ KeyOf(p) \in Keys /\ req[p].client \in Clients /\ req[p].context \in Contexts
    BY Accounts DEF CountFailure, UpdateSignCount, CreateSession, CountSuccess, At, TypeInv,
        RequestAt, Finalizing
<1>1. CASE CountFailure(p) \/ CountSuccess(p)
    <2>1. CounterTypeOK'
        BY <1>0, <1>1 DEF CountFailure, RecordFailure, CountSuccess, RecordSuccess, TypeInv,
            Fido2TypeOK, ClockTypeOK, CounterTypeOK, AttemptRecord, NoAttempts
    <2> QED
        BY <1>1, <2>1, AnswerType DEF CountFailure, CountSuccess, TypeInv, Fido2TypeOK,
            ClockTypeOK
<1>2. CASE UpdateSignCount(p)
    <2>1. req[p].count \in Counts
        BY <1>0 DEF FinalizeRequest
    <2>2. signCount' \in [Keys \X Credentials -> Counts \cup {None}]
        BY <1>2, <2>1 DEF UpdateSignCount, TypeInv, Fido2TypeOK
    <2>3. CASE Answer(p)
        BY <1>2, <2>2, <2>3, AnswerType DEF UpdateSignCount, TypeInv, Fido2TypeOK, ClockTypeOK,
            CounterTypeOK
    <2>4. CASE Goto(p, "create")
        BY <1>2, <2>2, <2>4, GotoType DEF UpdateSignCount, At, Labels, Finalizing, TypeInv,
            Fido2TypeOK, ClockTypeOK, CounterTypeOK
    <2> QED
        BY <1>2, <2>3, <2>4 DEF UpdateSignCount
<1>3. CASE CreateSession(p)
    <2>1. req[p].task \in Tasks /\ now + SessionTTL \in Nat
        BY <1>0, Fido2Assumption DEF FinalizeRequest, TypeInv, Fido2TypeOK, ClockTypeOK
    <2>2. session' \in [SessionIds -> Session \cup {None, Closed}]
        BY <1>0, <1>3, <2>1 DEF CreateSession, TypeInv, Fido2TypeOK, Session
    <2>3. CASE Answer(p)
        BY <1>3, <2>2, <2>3, AnswerType DEF CreateSession, TypeInv, Fido2TypeOK, ClockTypeOK,
            CounterTypeOK
    <2>4. CASE Goto(p, "success")
        BY <1>3, <2>2, <2>4, GotoType DEF CreateSession, At, Labels, Finalizing, TypeInv,
            Fido2TypeOK, ClockTypeOK, CounterTypeOK
    <2> QED
        BY <1>3, <2>3, <2>4 DEF CreateSession
<1> QED
    BY <1>1, <1>2, <1>3

\* Sign requests, the cleaner of expired sessions and the clock.
LEMMA OtherType ==
    ASSUME TypeInv,
           \/ \E p \in Procs : Gate(p) \/ HandleSign(p)
           \/ CleanExpired \/ Tick \/ UNCHANGED vars
    PROVE  TypeInv'
<1>1. ASSUME NEW p \in Procs, Gate(p)
      PROVE  TypeInv'
    <2>1. CASE Answer(p)
        BY <1>1, <2>1, AnswerType DEF Gate, TypeInv, Fido2TypeOK, ClockTypeOK, CounterTypeOK
    <2>2. CASE Goto(p, "handle")
        BY <1>1, <2>2, GotoType DEF Gate, At, Labels, TypeInv, Fido2TypeOK, ClockTypeOK,
            CounterTypeOK
    <2> QED
        BY <1>1, <2>1, <2>2 DEF Gate
<1>2. ASSUME NEW p \in Procs, HandleSign(p)
      PROVE  TypeInv'
    BY <1>2, AnswerType DEF HandleSign, TypeInv, Fido2TypeOK, ClockTypeOK, CounterTypeOK
<1>3. CASE CleanExpired
    <2>1. session' \in [SessionIds -> Session \cup {None, Closed}]
        BY <1>3 DEF CleanExpired, TypeInv, Fido2TypeOK
    <2> QED
        BY <1>3, <2>1 DEF CleanExpired, TypeInv, Fido2TypeOK, ClockTypeOK, CounterTypeOK,
            RequestAt
<1>4. CASE Tick \/ UNCHANGED vars
    BY <1>4 DEF Tick, Advance, vars, TypeInv, Fido2TypeOK, ClockTypeOK, CounterTypeOK, RequestAt
<1> QED
    BY <1>1, <1>2, <1>3, <1>4

\* The types are inductive.
LEMMA TypeStep == ASSUME TypeInv, [Next]_vars PROVE TypeInv'
BY ProcessType, ChallengeType, RegisterType, VerifyType, OutcomeType, OtherType DEF Next, Step

\* Every variable keeps its type, and every goroutine works on a request of the
\* kind its step is for (Process, handleFIDO2).
THEOREM TypesKept == Spec => []Fido2TypeOK
BY TypeInitial, TypeStep, PTL DEF Spec, TypeInv

-----------------------------------------------------------------------------
(***************************************************************************)
(* What no step undoes.                                                    *)
(***************************************************************************)
IssuedForGood == \A ch \in Challenges : issued[ch] # None => issued'[ch] = issued[ch]

RegisteredForGood ==
    \A c \in Keys \X Credentials : signCount[c] # None => signCount'[c] # None

\* No token changes and no credential is lost.
LEMMA Persistence ==
    ASSUME TypeInv, [Next]_vars
    PROVE  IssuedForGood /\ RegisteredForGood
<1>1. IssuedForGood
    <2>1. ASSUME NEW p \in Procs, IssueToken(p)
          PROVE  IssuedForGood
        BY <2>1 DEF IssueToken, IssuedForGood, TypeInv, Fido2TypeOK
    <2>2. CASE ~\E p \in Procs : IssueToken(p)
        <3>1. UNCHANGED issued
            BY <2>2 DEF Next, Step, Process, CheckLockout, Register, PutCredential, DecryptToken,
                LookupAndVerify, CountFailure, UpdateSignCount, CreateSession, CountSuccess,
                Gate, HandleSign, CleanExpired, Tick, vars
        <3> QED
            BY <3>1 DEF IssuedForGood
    <2> QED
        BY <2>1, <2>2
<1>2. RegisteredForGood
    <2>1. ASSUME NEW p \in Procs, PutCredential(p)
          PROVE  RegisteredForGood
        BY <2>1 DEF PutCredential, RegisteredForGood, TypeInv, Fido2TypeOK
    <2>2. ASSUME NEW p \in Procs, UpdateSignCount(p)
          PROVE  RegisteredForGood
        <3>1. req[p].count # None
            BY <2>2, AbsenceAssumption DEF UpdateSignCount, At, TypeInv, RequestAt, Finalizing,
                FinalizeRequest
        <3> QED
            BY <2>2, <3>1 DEF UpdateSignCount, RegisteredForGood, TypeInv, Fido2TypeOK
    <2>3. CASE ~\E p \in Procs : PutCredential(p) \/ UpdateSignCount(p)
        <3>1. UNCHANGED signCount
            BY <2>3 DEF Next, Step, Process, CheckLockout, IssueToken, Register, DecryptToken,
                LookupAndVerify, CountFailure, CreateSession, CountSuccess, Gate, HandleSign,
                CleanExpired, Tick, vars
        <3> QED
            BY <3>1 DEF RegisteredForGood
    <2> QED
        BY <2>1, <2>2, <2>3
<1> QED
    BY <1>1, <1>2

\* A step of one goroutine leaves the requests of the others alone.
LEMMA OneActs ==
    ASSUME TypeInv, NEW p \in Procs, Step(p), NEW q \in Procs, q # p
    PROVE  pc'[q] = pc[q] /\ req'[q] = req[q]
BY DEF TypeInv, Fido2TypeOK, Step, Process, CheckLockout, IssueToken, Register, PutCredential,
    DecryptToken, LookupAndVerify, CountFailure, UpdateSignCount, CreateSession, CountSuccess,
    Gate, HandleSign, Goto, Answer

\* So what a goroutine knows stays true while the others act.
LEMMA WhileOthersAct ==
    ASSUME TypeInv, TypeInv', IssuedForGood, RegisteredForGood,
           NEW q \in Procs, TokenAt(q), AssertionAt(q),
           pc'[q] = pc[q], req'[q] = req[q]
    PROVE  TokenAt(q)' /\ AssertionAt(q)'
<1>1. pc[q] \in Finalizing => /\ req[q].token \in Challenges
                              /\ <<KeyOf(q), req[q].cred>> \in Keys \X Credentials
    BY Accounts DEF TypeInv, RequestAt, FinalizeRequest, Finalizing
<1>2. TokenAt(q)'
    BY <1>1 DEF TokenAt, IssuedForGood, KeyOf, Finalizing
<1>3. AssertionAt(q)'
    BY <1>1 DEF AssertionAt, RegisteredForGood, KeyOf, Finalizing
<1> QED
    BY <1>2, <1>3

-----------------------------------------------------------------------------
\* A token bears the second in which it is made.
LEMMA DatedKept == ASSUME TypeInv, TokensDated, [Next]_vars PROVE TokensDated'
<1>1. ASSUME NEW p \in Procs, IssueToken(p)
      PROVE  TokensDated'
    BY <1>1 DEF IssueToken, TokensDated, TypeInv, Fido2TypeOK, ClockTypeOK
<1>2. CASE ~\E p \in Procs : IssueToken(p)
    <2>1. UNCHANGED issued /\ (UNCHANGED now \/ Advance)
        BY <1>2 DEF Next, Step, Process, CheckLockout, Register, PutCredential, DecryptToken,
            LookupAndVerify, CountFailure, UpdateSignCount, CreateSession, CountSuccess, Gate,
            HandleSign, CleanExpired, Tick, vars
    <2>2. \A ch \in Challenges : issued[ch] # None => issued[ch].born \in Nat
        BY DEF TypeInv, Fido2TypeOK, Token
    <2> QED
        BY <2>1, <2>2 DEF TokensDated, TypeInv, Fido2TypeOK, ClockTypeOK, Advance
<1> QED
    BY <1>1, <1>2

\* The goroutine that acts: what it knows after its step.
LEMMA ActorKnows ==
    ASSUME FlowInv, TypeInv', IssuedForGood, RegisteredForGood,
           NEW p \in Procs, Step(p)
    PROVE  TokenAt(p)' /\ AssertionAt(p)'
<1> USE DEF FlowInv
<1>0. pc \in [Procs -> Labels] /\ req \in [Procs -> Request \cup {None}]
    BY DEF TypeInv, Fido2TypeOK
<1>1. CASE pc'[p] = "idle"
    BY <1>1 DEF TokenAt, AssertionAt, Finalizing
<1>2. CASE Process(p)
    <2> PICK r \in Request : /\ Known(r)
                             /\ req' = [req EXCEPT ![p] = r]
                             /\ pc' = [pc EXCEPT ![p] = EntryOf(r.type)]
        BY <1>2 DEF Process
    <2>1. r \in FinalizeRequest \/ (pc'[p] \notin Finalizing /\ pc'[p] # "handle")
        BY <1>0 DEF Request, ChallengeRequest, RegisterRequest, FinalizeRequest, SignRequest,
            EntryOf, Finalizing
    <2>2. ASSUME r \in FinalizeRequest
          PROVE  pc'[p] = "token" /\ issued[r.token] # None
        <3>1. r.type = "finalize" /\ r.token \in Challenges
            BY <2>2 DEF FinalizeRequest
        <3>2. r.token \in {r.token, r.challenge} \ {None}
            BY <3>1, Fido2Assumption
        <3>3. issued[r.token] # None
            BY <3>1, <3>2 DEF Known
        <3>4. EntryOf(r.type) = "token"
            BY <3>1 DEF EntryOf
        <3> QED
            BY <1>0, <3>3, <3>4
    <2>3. UNCHANGED issued /\ req'[p] = r
        BY <1>0, <1>2 DEF Process
    <2> QED
        BY <2>1, <2>2, <2>3 DEF TokenAt, AssertionAt, Finalizing
<1>3. CASE pc'[p] \in {"issue", "put"}
    BY <1>3 DEF TokenAt, AssertionAt, Finalizing
<1>4. CASE DecryptToken(p) /\ Goto(p, "lookup")
    BY <1>0, <1>4, Fido2Assumption DEF DecryptToken, At, Goto, Answer, Accepts, TokenAt,
        AssertionAt, Finalizing, KeyOf
<1>5. CASE LookupAndVerify(p)
    <2>1. CASE Goto(p, "fail")
        BY <1>0, <1>5, <2>1 DEF LookupAndVerify, At, Goto, TokenAt, AssertionAt,
            Finalizing, KeyOf
    <2> DEFINE known == signCount[<<KeyOf(p), req[p].cred>>]
    <2>2. CASE /\ known # None
               /\ VerifyAssertion(req[p], known)
               /\ pc' = [pc EXCEPT ![p] = "update"]
               /\ req' = [req EXCEPT ![p].known = known]
        <3>1. req[p] \in FinalizeRequest
            BY <1>5 DEF LookupAndVerify, At, TypeInv, RequestAt, Finalizing
        <3>2. /\ req'[p] = [req[p] EXCEPT !.known = known]
              /\ req'[p].token = req[p].token /\ req'[p].challenge = req[p].challenge
              /\ req'[p].signer = req[p].signer /\ req'[p].cred = req[p].cred
              /\ req'[p].count = req[p].count /\ req'[p].known = known
              /\ req'[p].client = req[p].client /\ req'[p].context = req[p].context
            BY <1>0, <2>2, <3>1 DEF FinalizeRequest
        <3>3. UNCHANGED <<issued, signCount>> /\ pc[p] = "lookup" /\ pc'[p] = "update"
            BY <1>0, <1>5, <2>2 DEF LookupAndVerify, At
        <3> HIDE DEF known
        <3>4. TokenAt(p)'
            BY <3>2, <3>3 DEF TokenAt, KeyOf, Finalizing
        <3>5. AssertionAt(p)'
            BY <2>2, <3>2, <3>3 DEF AssertionAt, KeyOf, VerifyAssertion, known
        <3> QED
            BY <3>4, <3>5
    <2>3. CASE Answer(p)
        BY <1>0, <1>1, <2>3 DEF Answer
    <2> QED
        BY <1>5, <2>1, <2>2, <2>3 DEF LookupAndVerify
<1>6. CASE (UpdateSignCount(p) /\ Goto(p, "create")) \/ (CreateSession(p) /\ Goto(p, "success"))
    <2>1. /\ pc[p] \in {"update", "create"} /\ pc'[p] \in {"create", "success"}
          /\ req'[p] = req[p] /\ UNCHANGED issued
        BY <1>0, <1>6 DEF UpdateSignCount, CreateSession, At, Goto
    <2>2. <<KeyOf(p), req[p].cred>> \in Keys \X Credentials
        BY <2>1, Accounts DEF TypeInv, RequestAt, FinalizeRequest, Finalizing
    <2> QED
        BY <2>1, <2>2 DEF TokenAt, AssertionAt, KeyOf, Finalizing, RegisteredForGood
<1>7. CASE Gate(p) /\ Goto(p, "handle")
    <2>1. /\ Open(req[p].sid)
          /\ req[p].hash # None => ValidateSAD(session[req[p].sid].task, req[p].hash)
          /\ pc'[p] = "handle" /\ req'[p] = req[p] /\ UNCHANGED session
        BY <1>0, <1>7 DEF Gate, At, Goto, Answer
    <2> QED
        BY <2>1 DEF Open, TokenAt, AssertionAt, Finalizing
<1>8. \/ Process(p) \/ pc'[p] \in {"idle", "issue", "put"} \/ LookupAndVerify(p)
      \/ DecryptToken(p) /\ Goto(p, "lookup")
      \/ UpdateSignCount(p) /\ Goto(p, "create")
      \/ CreateSession(p) /\ Goto(p, "success")
      \/ Gate(p) /\ Goto(p, "handle")
    BY <1>0 DEF Step, CheckLockout, IssueToken, Register, PutCredential, DecryptToken,
        CountFailure, UpdateSignCount, CreateSession, CountSuccess, Gate, HandleSign, Goto, Answer
<1> QED
    BY <1>1, <1>2, <1>3, <1>4, <1>5, <1>6, <1>7, <1>8

\* FlowInv is inductive.
LEMMA FlowStep == ASSUME FlowInv, [Next]_vars PROVE FlowInv'
<1>1. TypeInv' /\ TokensDated'
    BY TypeStep, DatedKept DEF FlowInv
<1>2. IssuedForGood /\ RegisteredForGood
    BY Persistence DEF FlowInv
<1>3. CASE \E p \in Procs : Step(p)
    <2> PICK p \in Procs : Step(p)
        BY <1>3
    <2>1. ASSUME NEW q \in Procs
          PROVE  TokenAt(q)' /\ AssertionAt(q)'
        <3>1. CASE q = p
            BY <1>1, <1>2, <3>1, ActorKnows
        <3>2. CASE q # p
            BY <1>1, <1>2, <3>2, OneActs, WhileOthersAct DEF FlowInv
        <3> QED
            BY <3>1, <3>2
    <2> QED
        BY <1>1, <2>1 DEF FlowInv
<1>4. CASE CleanExpired \/ Tick \/ UNCHANGED vars
    <2>1. UNCHANGED <<pc, req>>
        BY <1>4 DEF CleanExpired, Tick, vars
    <2> QED
        BY <1>1, <1>2, <2>1, WhileOthersAct DEF FlowInv
<1> QED
    BY <1>3, <1>4 DEF Next

\* What every goroutine knows at every step of the FIDO2 flows (fido2.go).
THEOREM FlowInvariance == Spec => []FlowInv
<1>1. Init => FlowInv
    BY TypeInitial DEF Init, FlowInv, TokensDated, TokenAt, AssertionAt, Finalizing
<1> QED
    BY <1>1, FlowStep, PTL DEF Spec

-----------------------------------------------------------------------------
\* Past the verification, a request proves the second factor of its account.
LEMMA ProvedPastVerification ==
    ASSUME FlowInv, NEW p \in Procs, pc[p] \in {"update", "create", "success"}
    PROVE  Proves(p)
BY DEF FlowInv, TokenAt, AssertionAt, Proves, Finalizing

\* Only an assertion over a challenge issued to the account opens a session,
\* however requests interleave (fido2AuthFinalize).
THEOREM SessionsOpenedByAssertion == Spec => SessionOpenedByAssertion
<1> DEFINE Opens == \A id \in SessionIds : session[id] = None /\ session'[id] # None =>
                      \E p \in Procs : /\ At(p, "create")
                                       /\ Proves(p)
                                       /\ <<session'[id].client, session'[id].context>> = KeyOf(p)
<1>1. ASSUME FlowInv, [Next]_vars
      PROVE  [Opens]_vars
    <2> SUFFICES ASSUME NEW id \in SessionIds, session[id] = None, session'[id] # None
                 PROVE  \E p \in Procs : /\ At(p, "create")
                                         /\ Proves(p)
                                         /\ <<session'[id].client, session'[id].context>> = KeyOf(p)
        OBVIOUS
    <2>1. ~CleanExpired /\ session' # session
        BY <1>1 DEF CleanExpired, Open
    <2>2. PICK p \in Procs : CreateSession(p)
        BY <1>1, <2>1 DEF Next, Step, Process, CheckLockout, IssueToken, Register, PutCredential,
            DecryptToken, LookupAndVerify, CountFailure, UpdateSignCount, CountSuccess, Gate,
            HandleSign, Tick, vars
    <2>3. At(p, "create") /\ Proves(p)
        BY <1>1, <2>2, ProvedPastVerification DEF CreateSession, At
    <2>4. <<session'[id].client, session'[id].context>> = KeyOf(p)
        BY <1>1, <2>2 DEF CreateSession, KeyOf, FlowInv, TypeInv, Fido2TypeOK
    <2> QED
        BY <2>3, <2>4
<1> QED
    BY <1>1, FlowInvariance, PTL DEF Spec, SessionOpenedByAssertion

\* Failures are forgotten only after a lockout has been served or for the
\* proved factor, in every interleaving of requests (Check, RecordSuccess).
THEOREM ForgivenForCause == Spec => FailuresForgivenForCause
<1> DEFINE Cause == \A k \in Keys :
                      attempts'[k].failures < attempts[k].failures =>
                         \/ Exhausted(k) /\ ~Locked(k)
                         \/ \E p \in Procs : At(p, "success") /\ KeyOf(p) = k /\ Proves(p)
<1>1. ASSUME FlowInv, [Next]_vars
      PROVE  [Cause]_vars
    <2> SUFFICES ASSUME NEW k \in Keys, attempts'[k].failures < attempts[k].failures
                 PROVE  \/ Exhausted(k) /\ ~Locked(k)
                        \/ \E p \in Procs : At(p, "success") /\ KeyOf(p) = k /\ Proves(p)
        OBVIOUS
    <2>1. attempts \in [Keys -> AttemptRecord] /\ attempts[k].failures \in Nat
        BY <1>1 DEF FlowInv, TypeInv, Fido2TypeOK, CounterTypeOK, AttemptRecord
    <2>2. attempts' # attempts
        BY <2>1
    <2>3. PICK p \in Procs : CheckLockout(p) \/ CountFailure(p) \/ CountSuccess(p)
        BY <1>1, <2>2 DEF Next, Step, Process, IssueToken, Register, PutCredential, DecryptToken,
            LookupAndVerify, UpdateSignCount, CreateSession, Gate, HandleSign, CleanExpired,
            Tick, vars
    <2>4. CASE CheckLockout(p)
        BY <2>1, <2>2, <2>4 DEF CheckLockout, Check
    <2>5. CASE CountFailure(p)
        BY <2>1, <2>5 DEF CountFailure, RecordFailure
    <2>6. CASE CountSuccess(p)
        <3>1. KeyOf(p) = k
            BY <2>1, <2>6 DEF CountSuccess, RecordSuccess
        <3> QED
            BY <1>1, <2>6, <3>1, ProvedPastVerification DEF CountSuccess, At
    <2> QED
        BY <2>3, <2>4, <2>5, <2>6
<1> QED
    BY <1>1, FlowInvariance, PTL DEF Spec, FailuresForgivenForCause

\* A stored signature counter falls only in a race of two finalize requests
\* (VerifyAssertion, UpdateWebAuthnSignCount).
THEOREM FallsOnlyInRace == Spec => CounterFallsOnlyInRace
<1> DEFINE Race == \A c \in Keys \X Credentials :
                     signCount[c] # None /\ signCount'[c] < signCount[c] =>
                        \E p \in Procs : /\ At(p, "update")
                                         /\ c = <<KeyOf(p), req[p].cred>>
                                         /\ req[p].known # signCount[c]
<1>1. ASSUME FlowInv, [Next]_vars
      PROVE  [Race]_vars
    <2> SUFFICES ASSUME NEW c \in Keys \X Credentials, signCount[c] # None,
                        signCount'[c] < signCount[c]
                 PROVE  \E p \in Procs : /\ At(p, "update")
                                         /\ c = <<KeyOf(p), req[p].cred>>
                                         /\ req[p].known # signCount[c]
        OBVIOUS
    <2>1. /\ signCount \in [Keys \X Credentials -> Counts \cup {None}]
          /\ signCount[c] \in Nat
        BY <1>1 DEF FlowInv, TypeInv, Fido2TypeOK, Counts
    <2>2. signCount'[c] # signCount[c]
        BY <2>1
    <2>3. PICK p \in Procs : UpdateSignCount(p)
        <3>1. ~\E p \in Procs : PutCredential(p)
            BY <2>1, <2>2 DEF PutCredential
        <3> QED
            BY <1>1, <2>2, <3>1 DEF Next, Step, Process, CheckLockout, IssueToken, Register,
                DecryptToken, LookupAndVerify, CountFailure, CreateSession, CountSuccess, Gate,
                HandleSign, CleanExpired, Tick, vars
    <2>4. c = <<KeyOf(p), req[p].cred>> /\ signCount'[c] = req[p].count
        BY <2>1, <2>2, <2>3 DEF UpdateSignCount
    <2>5. req[p].count \in Nat /\ CountAccepted(req[p].count, req[p].known)
        BY <1>1, <2>3 DEF UpdateSignCount, At, FlowInv, TypeInv, RequestAt, AssertionAt,
            FinalizeRequest, Finalizing, Counts
    <2> QED
        BY <2>1, <2>3, <2>4, <2>5 DEF UpdateSignCount, CountAccepted
<1> QED
    BY <1>1, FlowInvariance, PTL DEF Spec, CounterFallsOnlyInRace

\* A token is good for its TTL, give or take the second that iat loses
\* (Encrypt, Decrypt).
THEOREM TokensLiveTheirTTL == Spec => TokenLifetime
<1> DEFINE Lifetime == \A p \in Procs : At(p, "token") =>
              /\ pc'[p] = "lookup" => Age(req[p].token) <= TokenTTL
              /\ /\ pc'[p] = "idle"
                 /\ <<issued[req[p].token].client, issued[req[p].token].context>> = KeyOf(p)
                 => Age(req[p].token) + Second - 1 > TokenTTL
<1>1. ASSUME FlowInv, [Next]_vars
      PROVE  [Lifetime]_vars
    <2> SUFFICES ASSUME NEW p \in Procs, At(p, "token"), pc'[p] \in {"lookup", "idle"}
                 PROVE  /\ pc'[p] = "lookup" => Age(req[p].token) <= TokenTTL
                        /\ /\ pc'[p] = "idle"
                           /\ <<issued[req[p].token].client, issued[req[p].token].context>> = KeyOf(p)
                           => Age(req[p].token) + Second - 1 > TokenTTL
        OBVIOUS
    <2>1. DecryptToken(p)
        <3>1. PICK q \in Procs : Step(q)
            BY <1>1 DEF Next, CleanExpired, Tick, vars, At
        <3>2. q = p
            BY <1>1, <3>1, OneActs DEF FlowInv, At
        <3> QED
            BY <3>1, <3>2 DEF Step, Process, CheckLockout, IssueToken, Register, PutCredential,
                LookupAndVerify, CountFailure, UpdateSignCount, CreateSession, CountSuccess,
                Gate, HandleSign, At
    <2> DEFINE t == issued[req[p].token]
    <2>2. req[p].token \in Challenges /\ t # None
        BY <1>1 DEF At, FlowInv, TypeInv, RequestAt, FinalizeRequest, Finalizing, TokenAt
    <2>3. /\ t.born \in Nat /\ t.born <= now /\ now \in Nat
          /\ t.iat = t.born - (t.born % Second)
        <3>1. t \in Token /\ now \in Nat
            BY <1>1, <2>2 DEF FlowInv, TypeInv, Fido2TypeOK, ClockTypeOK
        <3>2. t.born \in Nat
            BY <3>1 DEF Token
        <3> QED
            BY <1>1, <2>2, <3>1, <3>2 DEF FlowInv, TokensDated
    <2>4. t.iat <= t.born /\ t.born <= t.iat + Second - 1 /\ t.iat \in Nat
        <3>1. t.born % Second \in 0..(Second - 1) /\ t.born - (t.born % Second) \in Nat
            BY <2>3, WholeSecond
        <3> HIDE DEF t
        <3>2. Second \in Nat
            BY Fido2Assumption
        <3> QED
            BY <2>3, <3>1, <3>2
    <2>5. /\ pc'[p] = "lookup" => now - t.iat <= TokenTTL
          /\ pc'[p] = "idle" /\ <<t.client, t.context>> = KeyOf(p) => now - t.iat > TokenTTL
        BY <1>1, <2>1, <2>3, <2>4, Fido2Assumption DEF DecryptToken, At, Accepts, Goto, Answer,
            FlowInv, TypeInv, Fido2TypeOK
    <2> HIDE DEF t
    <2>6. /\ pc'[p] = "lookup" => now - t.born <= TokenTTL
          /\ pc'[p] = "idle" /\ <<t.client, t.context>> = KeyOf(p) =>
                now - t.born + Second - 1 > TokenTTL
        BY <2>3, <2>4, <2>5, Fido2Assumption
    <2> QED
        BY <2>6 DEF Age, t
<1> QED
    BY <1>1, FlowInvariance, PTL DEF Spec, TokenLifetime
=============================================================================
