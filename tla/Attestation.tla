----------------------------- MODULE Attestation -----------------------------
(***************************************************************************)
(* The life of wallet attestations: the WKA and WIA handlers allocate a    *)
(* status list index, record it under the client and sign a token that     *)
(* refers to it; the revoke and suspend handlers set the status of every   *)
(* index of a client; the admin API allocates indices and sets statuses    *)
(* (internal/service/eudiw_handlers.go, internal/admin/admin.go, over      *)
(* internal/store/mongodb.go).                                             *)
(*                                                                         *)
(* Every request runs in a goroutine of its own and every database call is *)
(* a step of its own.  A call may fail, and a call that timed out may have *)
(* been applied all the same.  The in-memory store is the special case     *)
(* where no call fails and the two steps of AllocateIndex are one.         *)
(***************************************************************************)
EXTENDS Naturals

CONSTANTS Clients,
          Procs,      \* the request goroutines that may run at the same time
          Ops,        \* the operations that are requested
          MaxIndex,   \* bound: the indices of a category
          NoJob       \* what an idle goroutine is working on

AllOps == {"attest", "revoke", "suspend", "allocate", "set"}

\* Key attestations (WKA) and wallet instance attestations (WIA).
Categories == {"ka", "wia"}

Indices == 0..(MaxIndex - 1)

\* The status list entries.
Slots == Categories \X Indices

StatusValid == 0
StatusInvalid == 1
StatusSuspended == 2
NoEntry == 3               \* no document in the statuses collection

(***************************************************************************)
(* slots is what a revocation or suspension has still to set in cat.  The  *)
(* history fields of a revocation: earlier, the slots of the tokens issued *)
(* to the client before it began, without those that somebody has since    *)
(* given another status than revoked, and skipped, whether a status could  *)
(* not be set.                                                             *)
(***************************************************************************)
Job == [op : Ops, client : Clients, cat : Categories, idx : Indices \cup {MaxIndex},
        slots : SUBSET Slots, earlier : SUBSET Slots, skipped : BOOLEAN]

ASSUME AttestationAssumption == /\ Ops \subseteq AllOps
                                /\ MaxIndex \in Nat
                                /\ NoJob \notin Job

VARIABLES
    counter,         \* of each category: the value of its counter document
    statuses,        \* of each slot: its status, or NoEntry
    clientIndices,   \* of each client: the slots recorded for it
    issued,          \* the signed tokens: whose and at which slot
    pc, job          \* of each goroutine

avars == <<counter, statuses, clientIndices, issued, pc, job>>

Token == [client : Clients, slot : Slots]

Labels == {"idle", "inc", "insert", "record", "sign", "list", "set", "answer"}

\* Every variable holds a value of its type, and only the three statuses that
\* two bits are read as are ever stored.
AttestTypeOK ==
    /\ counter \in [Categories -> 0..MaxIndex]
    /\ statuses \in [Slots -> {StatusValid, StatusInvalid, StatusSuspended, NoEntry}]
    /\ clientIndices \in [Clients -> SUBSET Slots]
    /\ issued \in SUBSET Token
    /\ pc \in [Procs -> Labels]
    /\ job \in [Procs -> Job \cup {NoJob}]
    /\ \A p \in Procs : pc[p] = "idle" <=> job[p] = NoJob

AttestInit == /\ counter = [cat \in Categories |-> 0]
              /\ statuses = [s \in Slots |-> NoEntry]
              /\ clientIndices = [c \in Clients |-> {}]
              /\ issued = {}
              /\ pc = [p \in Procs |-> "idle"]
              /\ job = [p \in Procs |-> NoJob]

SlotOf(p) == <<job[p].cat, job[p].idx>>

Goto(p, label) == pc' = [pc EXCEPT ![p] = label] /\ job' = job

\* The handler returns, with a result or an error.
Return(p) == /\ pc' = [pc EXCEPT ![p] = "idle"]
             /\ job' = [job EXCEPT ![p] = NoJob]

IssuedTo(c) == {t.slot : t \in {u \in issued : u.client = c}}

\* The slots of client c in category cat.
Recorded(c, cat) == {s \in clientIndices[c] : s[1] = cat}

-----------------------------------------------------------------------------
(***************************************************************************)
(* Requests that pass the checks of their handler.                         *)
(***************************************************************************)
NewJob(op, c, cat) == [op |-> op, client |-> c, cat |-> cat, idx |-> MaxIndex,
                       slots |-> {}, skipped |-> FALSE,
                       earlier |-> IF op = "revoke" THEN IssuedTo(c) ELSE {}]

Start(p, label, j) == /\ pc[p] = "idle"
                      /\ j.op \in Ops
                      /\ pc' = [pc EXCEPT ![p] = label]
                      /\ job' = [job EXCEPT ![p] = j]
                      /\ UNCHANGED <<counter, statuses, clientIndices, issued>>

StartWKA(p) == \E c \in Clients : Start(p, "inc", NewJob("attest", c, "ka"))

StartWIA(p) == \E c \in Clients : Start(p, "inc", NewJob("attest", c, "wia"))

\* The admin's handleAllocateIndex; its client means nothing.
StartAllocate(p) == \E c \in Clients, cat \in Categories :
                       Start(p, "inc", NewJob("allocate", c, cat))

\* Revoke and suspend: first "ka", then "wia".
StartRevoke(p) == \E c \in Clients : Start(p, "list", NewJob("revoke", c, "ka"))

StartSuspend(p) == \E c \in Clients : Start(p, "list", NewJob("suspend", c, "ka"))

-----------------------------------------------------------------------------
(***************************************************************************)
(* AllocateIndex, RecordWUA and SignJWT.                                   *)
(***************************************************************************)
TakeIndex(p) == /\ pc' = [pc EXCEPT ![p] = "insert"]
                /\ job' = [job EXCEPT ![p].idx = counter[job[p].cat]]

IncReadsOnly(p) ==
    /\ pc[p] = "inc"
    /\ \/ counter[job[p].cat] < MaxIndex /\ TakeIndex(p)
       \/ Return(p)
    /\ UNCHANGED <<counter, statuses, clientIndices, issued>>

\* FindOneAndUpdate with $inc, atomic.  An error may leave an index unused.
Inc(p) ==
    LET bumped == [counter EXCEPT ![job[p].cat] = @ + 1]
    IN  /\ pc[p] = "inc"
        /\ \/ /\ counter[job[p].cat] < MaxIndex
              /\ counter' = bumped
              /\ TakeIndex(p) \/ Return(p)
           \/ Return(p) /\ UNCHANGED counter
        /\ UNCHANGED <<statuses, clientIndices, issued>>

\* InsertOne; the unique index on category and idx refuses a second entry.
Insert(p) ==
    /\ pc[p] = "insert"
    /\ \/ /\ statuses[SlotOf(p)] = NoEntry
          /\ statuses' = [statuses EXCEPT ![SlotOf(p)] = StatusValid]
          /\ \/ job[p].op = "attest" /\ Goto(p, "record")
             \/ Return(p)
       \/ Return(p) /\ UNCHANGED statuses
    /\ UNCHANGED <<counter, clientIndices, issued>>

RecordIgnoresError(p) ==
    /\ pc[p] = "record"
    /\ \/ clientIndices' = [clientIndices EXCEPT ![job[p].client] = @ \cup {SlotOf(p)}]
       \/ UNCHANGED clientIndices
    /\ Goto(p, "sign")
    /\ UNCHANGED <<counter, statuses, issued>>

RecordWUA(p) ==
    /\ pc[p] = "record"
    /\ \/ /\ clientIndices' = [clientIndices EXCEPT ![job[p].client] = @ \cup {SlotOf(p)}]
          /\ Goto(p, "sign") \/ Return(p)
       \/ Return(p) /\ UNCHANGED clientIndices
    /\ UNCHANGED <<counter, statuses, issued>>

Sign(p) ==
    /\ pc[p] = "sign"
    /\ \/ issued' = issued \cup {[client |-> job[p].client, slot |-> SlotOf(p)]}
       \/ UNCHANGED issued
    /\ Return(p)
    /\ UNCHANGED <<counter, statuses, clientIndices>>

-----------------------------------------------------------------------------
(***************************************************************************)
(* revokeAll and the same loop of the suspend handler.                     *)
(***************************************************************************)
TargetStatus(op) == IF op = "revoke" THEN StatusInvalid ELSE StatusSuspended

ListAllClients(p) ==
    /\ pc[p] = "list"
    /\ \/ /\ pc' = [pc EXCEPT ![p] = "set"]
          /\ job' = [job EXCEPT ![p].slots =
                        UNION {Recorded(c, job[p].cat) : c \in Clients}]
       \/ Return(p)
    /\ UNCHANGED <<counter, statuses, clientIndices, issued>>

\* GetClientIndices: what it returns is not looked up again.  Its error ends
\* the handler.
GetClientIndices(p) ==
    /\ pc[p] = "list"
    /\ \/ /\ pc' = [pc EXCEPT ![p] = "set"]
          /\ job' = [job EXCEPT ![p].slots = Recorded(job[p].client, job[p].cat)]
       \/ Return(p)
    /\ UNCHANGED <<counter, statuses, clientIndices, issued>>

\* The earlier tokens that a revocation answers for, after slot s got a status.
Owed(q, s, status) == IF status = StatusInvalid THEN job[q].earlier ELSE job[q].earlier \ {s}

\* SetStatus of slot s by p.  It may fail, and a call that timed out may have been
\* applied all the same.  An error, and a slot without an entry, is skipped.
SetSlot(p, s, applied, failed) ==
    LET status == TargetStatus(job[p].op)
    IN  /\ applied => statuses[s] # NoEntry
        /\ statuses' = IF applied THEN [statuses EXCEPT ![s] = status] ELSE statuses
        /\ job' = [q \in Procs |->
                     IF job[q] = NoJob THEN NoJob
                     ELSE [job[q] EXCEPT
                             !.earlier = IF applied THEN Owed(q, s, status) ELSE @,
                             !.slots = IF q = p THEN @ \ {s} ELSE @,
                             !.skipped = @ \/ (q = p /\ failed /\ job[p].op = "revoke")]]

SetOne(p) == /\ pc[p] = "set"
             /\ \E s \in job[p].slots :
                   \E applied \in BOOLEAN, failed \in BOOLEAN :
                      (applied \/ failed) /\ SetSlot(p, s, applied, failed)
             /\ UNCHANGED <<counter, clientIndices, issued, pc>>

StopAfterKa(p) ==
    /\ pc[p] = "set"
    /\ job[p].slots = {}
    /\ Goto(p, "answer")
    /\ UNCHANGED <<counter, statuses, clientIndices, issued>>

NextCategory(p) ==
    /\ pc[p] = "set"
    /\ job[p].slots = {}
    /\ \/ /\ job[p].cat = "ka"
          /\ pc' = [pc EXCEPT ![p] = "list"]
          /\ job' = [job EXCEPT ![p].cat = "wia"]
       \/ /\ job[p].cat = "wia"
          /\ Goto(p, "answer")
    /\ UNCHANGED <<counter, statuses, clientIndices, issued>>

\* "wallet instance revoked" (or suspended), also when slots were skipped.
AnswerSet(p) == /\ pc[p] = "answer"
                /\ Return(p)
                /\ UNCHANGED <<counter, statuses, clientIndices, issued>>

-----------------------------------------------------------------------------
AdminSetsAnyByte(s, status) ==
    /\ "set" \in Ops
    /\ statuses[s] # NoEntry
    /\ \E byte \in 0..255 : statuses' = [statuses EXCEPT ![s] = byte]
    /\ UNCHANGED <<counter, clientIndices, issued, pc, job>>

\* The admin's handleSetStatus.
AdminSetStatus(s, status) ==
    /\ "set" \in Ops
    /\ statuses[s] # NoEntry
    /\ statuses' = [statuses EXCEPT ![s] = status]
    /\ job' = [q \in Procs |-> IF job[q] = NoJob THEN NoJob
                               ELSE [job[q] EXCEPT !.earlier = Owed(q, s, status)]]
    /\ UNCHANGED <<counter, clientIndices, issued, pc>>

\* The server process stops at any moment.  The database and the tokens remain.
Crash == /\ \E p \in Procs : pc[p] # "idle"
         /\ pc' = [p \in Procs |-> "idle"]
         /\ job' = [p \in Procs |-> NoJob]
         /\ UNCHANGED <<counter, statuses, clientIndices, issued>>

Request(p) == \/ StartWKA(p) \/ StartWIA(p) \/ StartAllocate(p)
              \/ StartRevoke(p) \/ StartSuspend(p)

AttestStep(p) == \/ Request(p)
                 \/ Inc(p) \/ Insert(p) \/ RecordWUA(p) \/ Sign(p)
                 \/ GetClientIndices(p) \/ SetOne(p) \/ NextCategory(p) \/ AnswerSet(p)

AttestNext == \/ \E p \in Procs : AttestStep(p)
              \/ \E s \in Slots, status \in {StatusValid, StatusInvalid, StatusSuspended} :
                    AdminSetStatus(s, status)
              \/ Crash

AttestSpec == AttestInit /\ [][AttestNext]_avars

-----------------------------------------------------------------------------
\* A slot that AllocateIndex gave to p and that p has not finished with.
Allocated(p) == pc[p] \in {"insert", "record", "sign"}

(***************************************************************************)
(* AllocateIndex gives no slot to two attestations, whether they run at    *)
(* the same time, one after the other, or after calls that failed or a     *)
(* crash: revoking one token never revokes another.                        *)
(***************************************************************************)
SlotUsedOnce ==
    /\ \A p \in Procs : Allocated(p) =>
          /\ \A t \in issued : t.slot # SlotOf(p)
          /\ \A q \in Procs \ {p} : Allocated(q) => SlotOf(q) # SlotOf(p)
    /\ \A t, u \in issued : t.slot = u.slot => t = u

(***************************************************************************)
(* A token that was signed can be revoked, whatever failed on the way: its *)
(* status has an entry, and it is recorded for its client and for nobody   *)
(* else, so that revokeAll finds it and sets it.                           *)
(***************************************************************************)
TokensRevocable ==
    \A t \in issued :
        /\ statuses[t.slot] # NoEntry
        /\ \A c \in Clients : t.slot \in clientIndices[c] <=> c = t.client

(***************************************************************************)
(* When a revocation answers and no SetStatus failed, every token that was *)
(* issued to the client before the request is revoked, in both categories  *)
(* and whatever was recorded while the loops ran, except those that a      *)
(* suspension at work at the same time, or an admin, has given another     *)
(* status since the request began: the last one wins.                      *)
(***************************************************************************)
RevocationReachesAll ==
    \A p \in Procs :
        pc[p] = "answer" /\ job[p].op = "revoke" /\ ~job[p].skipped =>
            \A s \in job[p].earlier : statuses[s] = StatusInvalid

(***************************************************************************)
(* The status of a client's token is changed only by that client's own     *)
(* revoke or suspend request, or by an admin, and only an admin makes it   *)
(* valid again: a suspension may replace a revocation, and neither it nor  *)
(* an attestation that reuses, retries or crashes ever lifts one.          *)
(***************************************************************************)
OwnTokensOnly ==
    [][\A t \in issued : statuses'[t.slot] # statuses[t.slot] =>
          \/ \E p \in Procs : /\ pc[p] = "set" /\ job[p].client = t.client
                              /\ statuses'[t.slot] # StatusValid
          \/ \E status \in {StatusValid, StatusInvalid, StatusSuspended} :
                AdminSetStatus(t.slot, status)]_avars

(***************************************************************************)
(* What a comment says and the code does not do: on revocation, all status *)
(* entries are revoked, so the answer "wallet instance revoked" leaves no  *)
(* token valid that was issued before the request.                         *)
(***************************************************************************)
RevokedMeansRevoked ==
    \A p \in Procs :
        pc[p] = "answer" /\ job[p].op = "revoke" =>
            \A s \in job[p].earlier : statuses[s] # StatusValid
=============================================================================
