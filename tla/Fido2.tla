-------------------------------- MODULE Fido2 --------------------------------
(***************************************************************************)
(* The FIDO2 flows of the dispatcher (internal/service/fido2.go) with the  *)
(* challenge tokens and the assertion checks of internal/webauthn, the     *)
(* WebAuthn credentials of the store, and the signature activation data    *)
(* (sad.go) that binds a FIDO2 session to the hashes it may sign.          *)
(*                                                                         *)
(* The server keeps no challenge: it hands out an encrypted token that     *)
(* comes back with the answer.  Two random challenges never coincide, so a *)
(* token is identified with its challenge.  As in TwoFactor, a step is one *)
(* call into shared state and the local work before the next one.          *)
(***************************************************************************)
EXTENDS AttemptCounter

CONSTANTS
    Procs,          \* the request goroutines that may run at the same time
    RequestTypes,   \* the kinds of request that clients send
    Challenges,     \* bound: the challenges ever issued
    Credentials,    \* credential ids; each names a key pair of an authenticator
    MaxCount,       \* bound: the signature counters of authenticators
    SessionIds,     \* bound: the sessions ever opened
    MaxRefused,     \* bound: finalize requests taken while failures are below
    Tasks,          \* the task fields that clients send: the hashes they name
    Hashes,         \* the hashes that sign requests carry
    Commitment,     \* the SHA-256 of each hash
    TokenTTL,       \* lifetime of a challenge token, in clock units
    SessionTTL,     \* session_ttl, in clock units
    Second,         \* clock units in a second
    Closed,         \* a session that was removed from the map
    None            \* absent or not decodable

ASSUME Fido2Assumption ==
    /\ RequestTypes \subseteq {"regChallenge", "register", "authChallenge",
                               "finalize", "sign"}
    /\ None # Closed
    /\ None \notin Challenges \cup Credentials \cup SessionIds \cup Hashes
    /\ Commitment \in [Hashes -> Hashes]
    /\ Tasks \subseteq SUBSET Hashes
    /\ {MaxCount, MaxRefused, TokenTTL, SessionTTL} \subseteq Nat
    /\ Second \in Nat \ {0}

VARIABLES
    issued,      \* the token of each challenge that was issued
    signCount,   \* of each account and credential id: the stored counter
    session,     \* the session map
    pc, req      \* of each goroutine: next step, request

vars == <<now, attempts, issued, signCount, session, pc, req>>

\* A challenge token; born is not part of it, it is when the token was made.
Token == [client : Clients, context : Contexts, iat : Nat, born : Nat]

Session == [client : Clients, context : Contexts, task : Tasks, expires : Nat]

\* An assertion in a finalize request: the key that made its signature (None:
\* no key of this relying party), the challenge and the counter it covers.
\* Counters may take any value, since authenticators can be cloned.  known is the
\* stored counter that the request was checked against, once it was.
Counts == 0..MaxCount

ChallengeRequest ==
    [type : {"regChallenge", "authChallenge"} \cap RequestTypes,
     client : Clients, context : Contexts]

RegisterRequest ==
    [type : {"register"} \cap RequestTypes, client : Clients, context : Contexts,
     token : Challenges \cup {None}, challenge : Challenges \cup {None},
     cred : Credentials, count : Counts]

FinalizeRequest ==
    [type : {"finalize"} \cap RequestTypes, client : Clients, context : Contexts,
     token : Challenges, challenge : Challenges \cup {None},
     cred : Credentials, signer : Credentials \cup {None},
     count : Counts, task : Tasks, known : Counts \cup {None}]

SignRequest ==
    [type : {"sign"} \cap RequestTypes, context : Contexts, sid : SessionIds,
     hash : Hashes \cup {None}]

Request == ChallengeRequest \cup RegisterRequest \cup FinalizeRequest \cup SignRequest

\* None stands for the absence of a counter or of a request.
ASSUME AbsenceAssumption == None \notin Counts \cup Request

Labels == {"idle", "check", "issue", "register", "put", "token", "lookup", "fail",
           "update", "create", "success", "gate", "handle"}

\* Every variable holds a value of its type; a goroutine works on a request
\* exactly while it is not idle.
Fido2TypeOK ==
    /\ ClockTypeOK
    /\ CounterTypeOK
    /\ issued \in [Challenges -> Token \cup {None}]
    /\ signCount \in [Keys \X Credentials -> Counts \cup {None}]
    /\ session \in [SessionIds -> Session \cup {None, Closed}]
    /\ pc \in [Procs -> Labels]
    /\ req \in [Procs -> Request \cup {None}]
    /\ \A p \in Procs : pc[p] = "idle" <=> req[p] = None

Init == /\ ClockInit
        /\ CounterInit
        /\ issued = [ch \in Challenges |-> None]
        /\ signCount = [c \in Keys \X Credentials |-> None]
        /\ session = [id \in SessionIds |-> None]
        /\ pc = [p \in Procs |-> "idle"]
        /\ req = [p \in Procs |-> None]

-----------------------------------------------------------------------------
KeyOf(p) == <<req[p].client, req[p].context>>

At(p, label) == pc[p] = label

Goto(p, label) == /\ pc' = [pc EXCEPT ![p] = label]
                  /\ req' = req

Answer(p) == /\ pc' = [pc EXCEPT ![p] = "idle"]
             /\ req' = [req EXCEPT ![p] = None]

Open(id) == session[id] \notin {None, Closed}

\* Clients know the challenges, tokens and session ids they were given.
Known(r) == \/ r.type \in {"regChallenge", "authChallenge"}
            \/ /\ r.type \in {"register", "finalize"}
               /\ r.type = "finalize" => r.known = None
               /\ \A ch \in {r.token, r.challenge} \ {None} : issued[ch] # None
            \/ r.type = "sign" /\ session[r.sid] # None

\* handleFIDO2: fido2RegChallenge does not consult the attempt counter.
EntryOf(type) == CASE type = "regChallenge"  -> "issue"
                   [] type = "register"      -> "register"
                   [] type = "authChallenge" -> "check"
                   [] type = "finalize"      -> "token"
                   [] type = "sign"          -> "gate"

Process(p) == /\ At(p, "idle")
              /\ \E r \in Request : /\ Known(r)
                                    /\ r.type = "finalize" =>
                                         attempts[<<r.client, r.context>>].failures < MaxRefused
                                    /\ req' = [req EXCEPT ![p] = r]
                                    /\ pc' = [pc EXCEPT ![p] = EntryOf(r.type)]
              /\ UNCHANGED <<now, attempts, issued, signCount, session>>

-----------------------------------------------------------------------------
(***************************************************************************)
(* Challenge tokens.                                                       *)
(***************************************************************************)
CheckLockout(p) ==
    /\ At(p, "check")
    /\ Check(KeyOf(p))
    /\ IF Locked(KeyOf(p)) THEN Answer(p) ELSE Goto(p, "issue")
    /\ UNCHANGED <<now, issued, signCount, session>>

\* iat is a whole second.  Encrypt may fail.
IssueToken(p) ==
    /\ At(p, "issue")
    /\ \/ \E ch \in Challenges :
             /\ issued[ch] = None
             /\ issued' = [issued EXCEPT ![ch] =
                             [client |-> req[p].client, context |-> req[p].context,
                              iat |-> now - (now % Second), born |-> now]]
       \/ UNCHANGED issued
    /\ Answer(p)
    /\ UNCHANGED <<now, attempts, signCount, session>>

AcceptsYounger(ch, k) == /\ now - issued[ch].iat < TokenTTL
                         /\ <<issued[ch].client, issued[ch].context>> = k

AcceptsAnyAccount(ch, k) == now - issued[ch].iat <= TokenTTL

\* Decrypt, and the check of the token's binding to the account.
Accepts(ch, k) == /\ now - issued[ch].iat <= TokenTTL
                  /\ <<issued[ch].client, issued[ch].context>> = k

-----------------------------------------------------------------------------
(***************************************************************************)
(* fido2RegRegister, for 2fa_registration only: handleFIDO2 refuses        *)
(* 2fa_change.  Without a token the expected challenge is the empty one,   *)
(* and VerifyRegistration accepts client data with an empty challenge.     *)
(***************************************************************************)
VerifyRegistration(r) == r.challenge = r.token

Register(p) ==
    /\ At(p, "register")
    /\ \/ /\ req[p].token # None => Accepts(req[p].token, KeyOf(p))
          /\ VerifyRegistration(req[p])
          /\ Goto(p, "put")
       \/ Answer(p)         \* the token is refused, or the checks of its
                            \* encoding, origin, flags or public key fail
    /\ UNCHANGED <<now, attempts, issued, signCount, session>>

PutResetsCounter(p) ==
    LET c == <<KeyOf(p), req[p].cred>>
    IN  /\ At(p, "put")
        /\ signCount' = [signCount EXCEPT ![c] = IF @ = None THEN req[p].count ELSE @]
        /\ RecordSuccess(KeyOf(p))
        /\ Answer(p)
        /\ UNCHANGED <<now, issued, session>>

\* PutWebAuthnCredential appends without looking for the id.  Lookups and
\* updates take the first credential with an id, so a later one with the same
\* id is never seen.
PutCredential(p) ==
    LET c == <<KeyOf(p), req[p].cred>>
    IN  /\ At(p, "put")
        /\ \/ signCount' = [signCount EXCEPT ![c] = IF @ = None THEN req[p].count ELSE @]
           \/ UNCHANGED signCount          \* the store fails
        /\ Answer(p)
        /\ UNCHANGED <<now, attempts, issued, session>>

-----------------------------------------------------------------------------
(***************************************************************************)
(* fido2AuthFinalize.                                                      *)
(***************************************************************************)
DecryptToken(p) ==
    /\ At(p, "token")
    /\ IF Accepts(req[p].token, KeyOf(p)) THEN Goto(p, "lookup") ELSE Answer(p)
    /\ UNCHANGED <<now, attempts, issued, signCount, session>>

CountNotRepeated(count, known) == count # 0 => count # known

\* A counter that is zero on both sides is not compared.
CountAccepted(count, known) == (count # 0 \/ known # 0) => count > known

VerifyAssertion(r, known) == /\ r.challenge = r.token
                             /\ r.signer = r.cred
                             /\ CountAccepted(r.count, known)

\* An assertion that does not decode ends the request, and no failure is counted.
\* GetWebAuthnCredential, which may fail, and VerifyAssertion with the counter
\* as it was then; its origin and flag checks may fail too.  A stored public key
\* always decodes, since PutCredential encoded it.
LookupAndVerify(p) ==
    LET known == signCount[<<KeyOf(p), req[p].cred>>]
    IN  /\ At(p, "lookup")
        /\ \/ /\ known # None
              /\ VerifyAssertion(req[p], known)
              /\ pc' = [pc EXCEPT ![p] = "update"]
              /\ req' = [req EXCEPT ![p].known = known]
           \/ Goto(p, "fail")
           \/ Answer(p)
        /\ UNCHANGED <<now, attempts, issued, signCount, session>>

CountFailure(p) == /\ At(p, "fail")
                   /\ RecordFailure(KeyOf(p))
                   /\ Answer(p)
                   /\ UNCHANGED <<now, issued, signCount, session>>

UpdateStoresNext(p) ==
    LET c == <<KeyOf(p), req[p].cred>>
    IN  /\ At(p, "update")
        /\ signCount' = [signCount EXCEPT ![c] = req[p].count + 1]
        /\ Goto(p, "create") \/ Answer(p)
        /\ UNCHANGED <<now, attempts, issued, session>>

\* An error of UpdateWebAuthnSignCount is ignored; a client_epub that does not
\* decode ends the request after the update.
UpdateSignCount(p) ==
    LET c == <<KeyOf(p), req[p].cred>>
    IN  /\ At(p, "update")
        /\ \/ signCount' = [signCount EXCEPT ![c] = req[p].count]
           \/ UNCHANGED signCount
        /\ Goto(p, "create") \/ Answer(p)
        /\ UNCHANGED <<now, attempts, issued, session>>

\* A session is born verified, with the expiry computed on the way to Create.
\* The other outcome is a failure of the key agreement or derivation.
CreateSession(p) ==
    /\ At(p, "create")
    /\ \/ /\ \E id \in SessionIds :
                /\ session[id] = None
                /\ session' = [session EXCEPT ![id] =
                                 [client |-> req[p].client, context |-> req[p].context,
                                  task |-> req[p].task, expires |-> now + SessionTTL]]
          /\ Goto(p, "success")
       \/ Answer(p) /\ UNCHANGED session
    /\ UNCHANGED <<now, attempts, issued, signCount>>

CountSuccess(p) == /\ At(p, "success")
                   /\ RecordSuccess(KeyOf(p))
                   /\ Answer(p)
                   /\ UNCHANGED <<now, issued, signCount, session>>

-----------------------------------------------------------------------------
(***************************************************************************)
(* A sign request with a FIDO2 session (handleService, ECDSAHandler).      *)
(***************************************************************************)
\* ValidateSAD: a task that names no hash binds nothing; a hash is named as it
\* is or by its SHA-256.
ValidateSAD(task, hash) == \/ task = {}
                           \/ hash \in task
                           \/ Commitment[hash] \in task

\* Get and the checks.  Nothing writes to a FIDO2 session after Create, so the
\* moment of the reads through the pointer does not matter.  A hash that does
\* not decode is not validated here.
Gate(p) ==
    LET r == req[p]
        s == session[r.sid]
    IN  /\ At(p, "gate")
        /\ IF /\ Open(r.sid) /\ now <= s.expires
              /\ s.context = r.context
              /\ r.hash # None => ValidateSAD(s.task, r.hash)
           THEN Goto(p, "handle") ELSE Answer(p)
        /\ UNCHANGED <<now, attempts, issued, signCount, session>>

\* The ECDSA handler refuses what does not decode and signs the rest.
HandleSign(p) == /\ At(p, "handle")
                 /\ Answer(p)
                 /\ UNCHANGED <<now, attempts, issued, signCount, session>>

-----------------------------------------------------------------------------
CleanExpired ==
    /\ session' = [id \in SessionIds |->
                     IF Open(id) /\ now > session[id].expires
                     THEN Closed ELSE session[id]]
    /\ session' # session
    /\ UNCHANGED <<now, attempts, issued, signCount, pc, req>>

Tick == Advance /\ UNCHANGED <<attempts, issued, signCount, session, pc, req>>

Step(p) == \/ Process(p)
           \/ CheckLockout(p) \/ IssueToken(p)
           \/ Register(p) \/ PutCredential(p)
           \/ DecryptToken(p) \/ LookupAndVerify(p) \/ CountFailure(p)
           \/ UpdateSignCount(p) \/ CreateSession(p) \/ CountSuccess(p)
           \/ Gate(p) \/ HandleSign(p)

Next == (\E p \in Procs : Step(p)) \/ CleanExpired \/ Tick

Spec == Init /\ [][Next]_vars

-----------------------------------------------------------------------------
(***************************************************************************)
(* Properties.                                                             *)
(***************************************************************************)

\* The request of p carries an assertion by a credential that is registered for
\* its account, over the challenge of the token it carries, which was issued to
\* that account.
Proves(p) ==
    LET r == req[p]
    IN  /\ r.signer = r.cred
        /\ signCount[<<KeyOf(p), r.cred>>] # None
        /\ r.challenge = r.token
        /\ <<issued[r.token].client, issued[r.token].context>> = KeyOf(p)

(***************************************************************************)
(* Whoever opens a session (fido2AuthFinalize) has proved the second       *)
(* factor of the account the session is for, with a challenge issued to    *)
(* that very account: not to another client or context, and not an older   *)
(* challenge than that of the token whose age was checked.                 *)
(***************************************************************************)
SessionOpenedByAssertion ==
    [][\A id \in SessionIds : session[id] = None /\ session'[id] # None =>
          \E p \in Procs : /\ At(p, "create")
                           /\ Proves(p)
                           /\ <<session'[id].client, session'[id].context>> = KeyOf(p)]_vars

(***************************************************************************)
(* Failures of an account are forgotten only after a full lockout or by a  *)
(* request that proved the account's factor: not by one that was refused   *)
(* after its counter update, and not by a registration.                    *)
(***************************************************************************)
FailuresForgivenForCause ==
    [][\A k \in Keys :
          attempts'[k].failures < attempts[k].failures =>
             \/ Exhausted(k) /\ ~Locked(k)
             \/ \E p \in Procs : At(p, "success") /\ KeyOf(p) = k /\ Proves(p)]_vars

(***************************************************************************)
(* The stored signature counter of a credential goes back only in a race:  *)
(* by a finalize that was checked against another value than the one it    *)
(* replaces, which a concurrent finalize of the same credential has        *)
(* written in between (VerifyAssertion, UpdateWebAuthnSignCount).  This is *)
(* about the stored value only, not about the counts that are accepted: a  *)
(* failed update leaves the old value, so that the same count is accepted  *)
(* again, and zero is accepted again for as long as zero is stored.        *)
(***************************************************************************)
CounterFallsOnlyInRace ==
    [][\A c \in Keys \X Credentials :
          signCount[c] # None /\ signCount'[c] < signCount[c] =>
             \E p \in Procs : /\ At(p, "update")
                              /\ c = <<KeyOf(p), req[p].cred>>
                              /\ req[p].known # signCount[c]]_vars

(***************************************************************************)
(* A challenge token lives for at most its TTL, and for no less than its   *)
(* TTL without the fraction of a second that iat loses (at most Second - 1 *)
(* clock units): fido2AuthFinalize goes on with no older one, and refuses  *)
(* no younger one of the account (Encrypt, Decrypt).                       *)
(***************************************************************************)
Age(ch) == now - issued[ch].born

TokenLifetime ==
    [][\A p \in Procs : At(p, "token") =>
          /\ pc'[p] = "lookup" => Age(req[p].token) <= TokenTTL
          /\ /\ pc'[p] = "idle"
             /\ <<issued[req[p].token].client, issued[req[p].token].context>> = KeyOf(p)
             => Age(req[p].token) + Second - 1 > TokenTTL]_vars
=============================================================================
