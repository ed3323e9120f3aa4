---------------------------- MODULE ClientLibrary ----------------------------
(***************************************************************************)
(* pkg/client/client.go against the dispatcher: what a wallet that uses    *)
(* the client library believes about its session, and what the server has. *)
(*                                                                         *)
(* The module extends TwoFactor.  Its requests are those the library       *)
(* sends, and every step is a step of TwoFactor, or of a client object, or *)
(* of both.  A call of the library is one or two HTTP exchanges.  The      *)
(* transport may fail at any moment: before the request arrives (it may    *)
(* then arrive late, when nobody waits for its answer), while it is        *)
(* served, or on the way back.  main makes a new signing key at every      *)
(* start, and a client object knows one server key: it accepts the answers *)
(* of one boot of the server.                                              *)
(***************************************************************************)
EXTENDS TwoFactor

CONSTANTS Apps,       \* the client objects
          Account,    \* of each object: its client id and context
          NoProc,     \* no goroutine serves a request of the object
          MaxCalls    \* bound: the calls of the library

ASSUME ClientAssumption == /\ Account \in [Apps -> Keys]
                           /\ {"registration", "evaluate", "finalize", "service2FA"}
                                 \subseteq RequestTypes
                           /\ NoProc \notin Procs
                           /\ MaxCalls \in Nat

VARIABLES
    trusts,   \* of each object: serverPub, as the boot whose key it is
    held,     \* sessionID and sessionKey, which are only set together
    stage,    \* where its HTTP exchange is
    work,     \* the call it is in, and what it has got so far
    by,       \* the goroutine that serves its request
    reply,    \* the answer that has come back
    late,     \* requests that nobody waits for and that may still arrive
    calls,    \* how many calls of the library have begun
    wrong     \* history, of each account: the wrong passwords that were tried
              \* since the last right one and since the server started

clientVars == <<trusts, held, stage, work, by, reply, late, calls, wrong>>

cvars == <<vars, clientVars>>

Stages == {"idle", "sent", "served", "answered"}

\* The exchanges: the two of Register, the two of Authenticate, CallService.
Exchanges == {"regEvaluate", "registration", "evaluate", "finalize", "service2FA"}

Work == [op : Exchanges, password : Passwords \cup {NoPassword},
         sid : SessionIds \cup {NoSession}, epoch : 0..MaxRestarts]

Reply == [ok : BOOLEAN, sid : SessionIds \cup {NoSession}, boot : 0..MaxRestarts]

NoWork == [op |-> "service2FA", password |-> NoPassword, sid |-> NoSession, epoch |-> 0]

ErrorReply == [ok |-> FALSE, sid |-> NoSession, boot |-> 0]

\* Every client variable holds a value of its type; an object that is idle has
\* no work, one that has no answer yet has no reply, and a goroutine is known
\* exactly while it serves.
ClientTypeOK == /\ trusts \in [Apps -> 0..MaxRestarts]
                /\ held \in [Apps -> SessionIds \cup {NoSession}]
                /\ stage \in [Apps -> Stages]
                /\ work \in [Apps -> Work]
                /\ by \in [Apps -> Procs \cup {NoProc}]
                /\ reply \in [Apps -> Reply]
                /\ late \in SUBSET Request
                /\ calls \in 0..MaxCalls
                /\ wrong \in [Keys -> Nat]
                /\ \A a \in Apps : /\ stage[a] = "idle" => work[a] = NoWork
                                   /\ stage[a] # "answered" => reply[a] = ErrorReply
                                   /\ stage[a] = "served" <=> by[a] # NoProc

\* NewClient
ClientInit == /\ Init
              /\ trusts = [a \in Apps |-> 0]
              /\ held = [a \in Apps |-> NoSession]
              /\ stage = [a \in Apps |-> "idle"]
              /\ work = [a \in Apps |-> NoWork]
              /\ by = [a \in Apps |-> NoProc]
              /\ reply = [a \in Apps |-> ErrorReply]
              /\ late = {}
              /\ calls = 0
              /\ wrong = [k \in Keys |-> 0]

-----------------------------------------------------------------------------
(***************************************************************************)
(* The steps of a client object.                                           *)
(***************************************************************************)

\* send2FA and CallService: build the request and hand it to the transport.
Send(a, w) == /\ stage' = [stage EXCEPT ![a] = "sent"]
              /\ work' = [work EXCEPT ![a] = w]
              /\ reply' = [reply EXCEPT ![a] = ErrorReply]
              /\ UNCHANGED <<trusts, by, late>>

\* The call of the library is over, with a result or an error.
Return(a) == /\ stage' = [stage EXCEPT ![a] = "idle"]
             /\ work' = [work EXCEPT ![a] = NoWork]
             /\ reply' = [reply EXCEPT ![a] = ErrorReply]
             /\ by' = [by EXCEPT ![a] = NoProc]
             /\ UNCHANGED <<trusts, calls>>

Idle(a) == stage[a] = "idle"

\* The application calls the library.
Begin(a, w) == /\ Idle(a)
               /\ calls < MaxCalls
               /\ calls' = calls + 1
               /\ Send(a, w)
               /\ UNCHANGED <<vars, held, wrong>>

\* The application makes a new object, with the key of the running server.
NewClient(a) == /\ Idle(a)
                /\ trusts' = [trusts EXCEPT ![a] = epoch]
                /\ held' = [held EXCEPT ![a] = NoSession]
                /\ UNCHANGED <<vars, stage, work, by, reply, late, calls, wrong>>

Register(a) == \E pw \in Passwords :
                  Begin(a, [NoWork EXCEPT !.op = "regEvaluate", !.password = pw])

Authenticate(a) == \E pw \in Passwords :
                      Begin(a, [NoWork EXCEPT !.op = "evaluate", !.password = pw])

\* Without a session the library refuses by itself.
CallService(a) == /\ held[a] # NoSession
                  /\ Begin(a, [NoWork EXCEPT !.sid = held[a]])

VerifyAnySignature(a) == reply[a].ok

\* VerifyJWS with serverPub.  Error answers are not signed.
Verify(a) == reply[a].ok /\ reply[a].boot = trusts[a]

\* The answer to the exchange op has come.
Answered(a, op) == stage[a] = "answered" /\ work[a].op = op

\* Register, second half: the record is made with the answer of the first.
SendRecord(a) == /\ Answered(a, "regEvaluate")
                 /\ Verify(a)
                 /\ Send(a, [work[a] EXCEPT !.op = "registration", !.epoch = reply[a].boot])
                 /\ UNCHANGED <<vars, held, calls>>

GenerateKE3Blindly(a) == TRUE

\* GenerateKE3 opens the envelope and checks the server's MAC: it fails unless
\* the password is the one that the record was made with.
GenerateKE3(a) == session[reply[a].sid].mac = work[a].password

SendKE3Adopts(a) == /\ Answered(a, "evaluate")
                    /\ Verify(a)
                    /\ GenerateKE3(a)
                    /\ Send(a, [work[a] EXCEPT !.op = "finalize", !.sid = reply[a].sid])
                    /\ held' = [held EXCEPT ![a] = reply[a].sid]
                    /\ UNCHANGED <<vars, calls>>

\* Authenticate, second half.
SendKE3(a) == /\ Answered(a, "evaluate")
              /\ Verify(a)
              /\ GenerateKE3(a)
              /\ Send(a, [work[a] EXCEPT !.op = "finalize", !.sid = reply[a].sid])
              /\ UNCHANGED <<vars, held, calls>>

FinishAuthenticate(a) == /\ Answered(a, "finalize")
                         /\ Verify(a)
                         /\ held' = [held EXCEPT ![a] = work[a].sid]
                         /\ Return(a)
                         /\ UNCHANGED <<vars, late>>

\* Register and CallService end with an answer that verifies.
Finish(a) == /\ Answered(a, "registration") \/ Answered(a, "service2FA")
             /\ Verify(a)
             /\ Return(a)
             /\ UNCHANGED <<vars, held, late>>

\* Every error ends the call and leaves the session of the object as it is.
ReturnError(a) == /\ stage[a] = "answered"
                  /\ ~(Verify(a) /\ (Answered(a, "evaluate") => GenerateKE3(a)))
                  /\ Return(a)
                  /\ UNCHANGED <<vars, held, late>>

-----------------------------------------------------------------------------
(***************************************************************************)
(* The transport and the server.                                           *)
(***************************************************************************)
RequestOf(a) == [type |-> work[a].op, client |-> Account[a][1], context |-> Account[a][2],
                 sid |-> work[a].sid,
                 password |-> IF work[a].op = "evaluate" THEN NoPassword ELSE work[a].password,
                 duration |-> 0, epoch |-> work[a].epoch]

\* The transport fails.  A request that was on its way is lost or comes late.
GiveUp(a) == /\ stage[a] # "idle"
             /\ \/ late' = late
                \/ /\ stage[a] = "sent" /\ work[a].op # "regEvaluate"
                   /\ late' = late \cup {RequestOf(a)}
             /\ Return(a)
             /\ UNCHANGED <<vars, held, wrong>>

\* regEvaluate: nothing is kept, and the answer depends on the boot only.
RegEvaluate(a) == /\ stage[a] = "sent" /\ work[a].op = "regEvaluate"
                  /\ stage' = [stage EXCEPT ![a] = "answered"]
                  /\ reply' = [reply EXCEPT ![a] = [ErrorReply EXCEPT !.ok = TRUE,
                                                                     !.boot = epoch]]
                  /\ UNCHANGED <<vars, trusts, held, work, by, late, calls, wrong>>

Deliver(a, p) == /\ stage[a] = "sent" /\ work[a].op # "regEvaluate"
                 /\ Process(p)
                 /\ req'[p] = RequestOf(a)
                 /\ stage' = [stage EXCEPT ![a] = "served"]
                 /\ by' = [by EXCEPT ![a] = p]
                 /\ UNCHANGED <<trusts, held, work, reply, late, calls, wrong>>

DeliverLate(p) == /\ Process(p)
                  /\ req'[p] \in late
                  /\ late' = late \ {req'[p]}
                  /\ UNCHANGED <<trusts, held, stage, work, by, reply, calls, wrong>>

\* The steps whose answer is a success; a record store that fails and a
\* signature that fails are error answers.
Succeeds(p) == \/ pc[p] \in {"create", "inc", "handle"}
               \/ /\ pc[p] = "put"
                  /\ record'[KeyOf(p)] = [password |-> req[p].password, epoch |-> req[p].epoch]

Waiting(p) == {a \in Apps : by[a] = p}

\* The answer of p, for whoever still waits for it.
SendAnswer(p) ==
    /\ stage' = [a \in Apps |-> IF a \in Waiting(p) THEN "answered" ELSE stage[a]]
    /\ \E ok \in BOOLEAN :
          /\ ok => Succeeds(p)
          /\ reply' = [a \in Apps |-> IF a \in Waiting(p)
                                      THEN [ok |-> ok, boot |-> epoch,
                                            sid |-> IF pc[p] = "create" THEN ptr[p] ELSE NoSession]
                                      ELSE reply[a]]
    /\ by' = [a \in Apps |-> IF a \in Waiting(p) THEN NoProc ELSE by[a]]
    /\ UNCHANGED <<trusts, held, work, late, calls, wrong>>

Serve(p) == /\ Step(p)
            /\ IF pc'[p] = "idle" THEN SendAnswer(p) ELSE UNCHANGED clientVars

RestartKeepsConnections ==
    /\ Restart
    /\ stage' = [a \in Apps |-> IF stage[a] = "served" THEN "answered" ELSE stage[a]]
    /\ UNCHANGED <<trusts, held, work, by, reply, late, calls, wrong>>

\* The connections of a server that stops break.
RestartServer ==
    /\ Restart
    /\ stage' = [a \in Apps |-> IF stage[a] = "served" THEN "answered" ELSE stage[a]]
    /\ by' = [a \in Apps |-> NoProc]
    /\ wrong' = [k \in Keys |-> 0]
    /\ UNCHANGED <<trusts, held, work, reply, late, calls>>

Background == /\ CleanSessions \/ SubtractGauge \/ Tick
              /\ UNCHANGED clientVars

\* The password that was typed is not the one that the account registered.
WrongPassword(a) == LET mac == session[reply[a].sid].mac IN
                    /\ Answered(a, "evaluate") /\ Verify(a)
                    /\ mac \in Passwords
                    /\ mac # work[a].password

\* The history of the account: a wrong password more, or a right one.
NotePassword(a) ==
    wrong' = [wrong EXCEPT ![Account[a]] =
                 IF WrongPassword(a) THEN @ + 1
                 ELSE IF Answered(a, "finalize") /\ Verify(a) THEN 0 ELSE @]

Receive(a) == /\ \/ SendRecord(a) \/ SendKE3(a)
                 \/ FinishAuthenticate(a) \/ Finish(a) \/ ReturnError(a)
              /\ NotePassword(a)

ClientNext == \/ \E a \in Apps : \/ NewClient(a)
                                 \/ Register(a) \/ Authenticate(a) \/ CallService(a)
                                 \/ Receive(a)
                                 \/ GiveUp(a)
                                 \/ RegEvaluate(a)
                                 \/ \E p \in Procs : Deliver(a, p)
              \/ \E p \in Procs : DeliverLate(p) \/ Serve(p)
              \/ RestartServer
              \/ Background

ClientSpec == ClientInit /\ [][ClientNext]_cvars

-----------------------------------------------------------------------------
(***************************************************************************)
(* The session that an object holds after Authenticate was opened for its  *)
(* own client id and context, is verified, with a password that was really *)
(* proved, and no other object ever holds it: whatever answers were lost,  *)
(* whatever requests arrived late, and whatever boot of the server is      *)
(* running now.                                                            *)
(***************************************************************************)
HeldSessionProven ==
    \A a \in Apps : held[a] # NoSession =>
        /\ Proven(held[a])
        /\ <<session[held[a]].client, session[held[a]].context>> = Account[a]
        /\ \A b \in Apps \ {a} : held[b] # held[a]

(***************************************************************************)
(* The session of an object that knows the running server's key is in the  *)
(* session store until it expires: no late or repeated exchange, no other  *)
(* object of the same account and no cleanup takes it away early, so       *)
(* CallService is not refused for want of a session.                       *)
(***************************************************************************)
HeldSessionUsable ==
    \A a \in Apps :
        held[a] # NoSession /\ trusts[a] = epoch /\ ~Expired(held[a]) => held[a] \in stored

(***************************************************************************)
(* An account is locked out only by wrong passwords: the failures that the *)
(* server has counted are at most the wrong passwords that were tried.     *)
(* With the right password a user of the library is never locked out: not  *)
(* by a KE3 that arrives late, after a new registration, an expiry or a    *)
(* restart, nor by an evaluate before the registration or with a record of *)
(* another boot.                                                           *)
(***************************************************************************)
LockoutOnlyByWrongPassword == \A k \in Keys : attempts[k].failures <= wrong[k]

(***************************************************************************)
(* A Register that is about to succeed has its record made with the keys   *)
(* of the boot that stored it, also when the server restarted between its  *)
(* two exchanges: the registration can be used for as long as that boot    *)
(* lasts.                                                                  *)
(***************************************************************************)
RegisteredWithOneBoot ==
    \A a \in Apps : Answered(a, "registration") /\ Verify(a) => work[a].epoch = reply[a].boot

-----------------------------------------------------------------------------
(***************************************************************************)
(* What the documentation says (README.md:164, "Max failed auth attempts   *)
(* before lockout"; ADR-006:33): when MaxFails wrong passwords have been   *)
(* tried the account is locked.  The code does not keep it: Authenticate   *)
(* notices a wrong password itself, from the answer to its evaluate, and   *)
(* ends without the finalize that RecordFailure would count.               *)
(***************************************************************************)
WrongPasswordsLock == \A k \in Keys : wrong[k] >= MaxFails => Exhausted(k)
=============================================================================
