-------------------------- MODULE AttestationProofs --------------------------
(***************************************************************************)
(* Status list slots are given out once, signed tokens can be revoked,     *)
(* only their owner or an admin changes their status, and a revocation     *)
(* reaches them all: for every number of clients, of concurrent requests   *)
(* and of indices, with failing calls and crashes anywhere.                *)
(*                                                                         *)
(* Everything follows the counter: a slot that anybody knows of is Below   *)
(* it, so the next slot is new to everybody.  Progress says how far the    *)
(* slot of an attestation at work has come, so that what Sign issues has   *)
(* an entry and an owner.  RevokeInv follows the loops of a revocation: a  *)
(* slot that it answers for is revoked, or its turn is still to come.      *)
(***************************************************************************)
EXTENDS Attestation, TLAPS

\* The counter of its category has passed the slot.
Below(s) == s[2] < counter[s[1]]

\* No slot at or above the counter is known to anybody.
KnownBelow == /\ \A p \in Procs : Allocated(p) => SlotOf(p) \in Slots /\ Below(SlotOf(p))
              /\ \A c \in Clients : \A s \in clientIndices[c] : Below(s)
              /\ \A t \in issued : Below(t.slot)

\* The slot of an attestation at work is recorded for its client only, and only
\* once RecordWUA returned; by then it has an entry.
Progress ==
    \A p \in Procs : Allocated(p) =>
        /\ \A c \in Clients : SlotOf(p) \in clientIndices[c] <=>
                                 pc[p] = "sign" /\ c = job[p].client
        /\ pc[p] # "insert" => statuses[SlotOf(p)] # NoEntry

\* No slot is recorded for two clients.
OneOwner == \A c, d \in Clients : \A s \in clientIndices[c] : s \in clientIndices[d] => c = d

\* What a revocation or suspension is going to set is its client's.
SetsOwn == \A p \in Procs : pc[p] = "set" => job[p].slots \subseteq clientIndices[job[p].client]

SlotInv == /\ AttestTypeOK
           /\ KnownBelow
           /\ Progress
           /\ OneOwner
           /\ SetsOwn
           /\ SlotUsedOnce
           /\ TokensRevocable

-----------------------------------------------------------------------------
\* The empty database satisfies the invariant.
LEMMA SlotInitial == AttestInit => SlotInv
BY AttestationAssumption DEF AttestInit, SlotInv, AttestTypeOK, KnownBelow, Progress, OneOwner,
    SetsOwn, SlotUsedOnce, TokensRevocable, Allocated, Labels, Categories, Indices, Slots

\* A goroutine that stops or goes elsewhere, and leaves the database and the
\* tokens as they are, disturbs nothing.
LEMMA QuietStep ==
    ASSUME SlotInv, AttestTypeOK',
           UNCHANGED <<counter, statuses, clientIndices, issued>>,
           \A p \in Procs : Allocated(p)' => UNCHANGED <<pc[p], job[p]>>,
           \A p \in Procs : pc'[p] = "set" => job'[p].slots \subseteq clientIndices[job'[p].client]
    PROVE  SlotInv'
<1> USE DEF SlotInv
<1>1. \A p \in Procs : Allocated(p)' => Allocated(p) /\ SlotOf(p)' = SlotOf(p)
                                        /\ pc'[p] = pc[p] /\ job'[p] = job[p]
    BY DEF Allocated, SlotOf
<1>2. KnownBelow' /\ Progress'
    BY <1>1 DEF KnownBelow, Progress, Below
<1>3. OneOwner' /\ SetsOwn' /\ TokensRevocable'
    BY DEF OneOwner, SetsOwn, TokensRevocable
<1>4. SlotUsedOnce'
    BY <1>1 DEF SlotUsedOnce
<1> QED
    BY <1>2, <1>3, <1>4

\* A start, and everything a revocation does but SetOne.
LEMMA ControlSteps ==
    ASSUME SlotInv, NEW p \in Procs,
           \/ Request(p) \/ GetClientIndices(p)
           \/ NextCategory(p) \/ AnswerSet(p)
    PROVE  SlotInv'
<1>1. AttestTypeOK'
    <2> USE AttestationAssumption DEF SlotInv, AttestTypeOK, Labels
    <2>1. \A c \in Clients : IssuedTo(c) \subseteq Slots
        BY DEF IssuedTo, Token
    <2>2. \A c \in Clients, cat \in Categories : Recorded(c, cat) \subseteq Slots
        BY DEF Recorded
    <2>3. \A op \in Ops, c \in Clients, cat \in Categories : NewJob(op, c, cat) \in Job
        BY <2>1 DEF NewJob, Job
    <2>4. CASE Request(p)
        <3>1. "ka" \in Categories /\ "wia" \in Categories
            BY DEF Categories
        <3>2. PICK label \in {"inc", "list"}, op \in AllOps, c \in Clients, cat \in Categories :
                 Start(p, label, NewJob(op, c, cat))
            BY <2>4, <3>1 DEF Request, StartWKA, StartWIA, StartAllocate, StartRevoke,
                StartSuspend, AllOps
        <3>3. NewJob(op, c, cat) \in Job
            BY <2>3, <3>2 DEF Start, NewJob
        <3> QED
            BY <3>2, <3>3 DEF Start
    <2>6. CASE GetClientIndices(p)
        <3>1. job[p] \in Job /\ Recorded(job[p].client, job[p].cat) \subseteq Slots
            BY <2>2, <2>6 DEF GetClientIndices, Job
        <3>2. [job[p] EXCEPT !.slots = Recorded(job[p].client, job[p].cat)] \in Job
            BY <3>1 DEF Job
        <3> QED
            BY <2>6, <3>2 DEF GetClientIndices, Return
    <2>7. CASE NextCategory(p)
        <3>1. job[p] \in Job
            BY <2>7 DEF NextCategory
        <3>2. [job[p] EXCEPT !.cat = "wia"] \in Job
            BY <3>1 DEF Job, Categories
        <3> QED
            BY <2>7, <3>1, <3>2 DEF NextCategory, Goto
    <2>8. CASE AnswerSet(p)
        BY <2>8 DEF AnswerSet, Return
    <2> QED
        BY <2>4, <2>6, <2>7, <2>8
<1>2. UNCHANGED <<counter, statuses, clientIndices, issued>>
    BY DEF Request, StartWKA, StartWIA, StartAllocate,
        StartRevoke, StartSuspend, Start, GetClientIndices, NextCategory, AnswerSet
<1>3. \A q \in Procs : Allocated(q)' => UNCHANGED <<pc[q], job[q]>>
    BY DEF SlotInv, AttestTypeOK, Allocated, Request, StartWKA, StartWIA, StartAllocate,
        StartRevoke, StartSuspend, Start,
        GetClientIndices, NextCategory, AnswerSet, Goto, Return
<1>4. \A q \in Procs : pc'[q] = "set" => job'[q].slots \subseteq clientIndices[job'[q].client]
    <2>1. CASE GetClientIndices(p)
        BY <2>1 DEF SlotInv, AttestTypeOK, SetsOwn, GetClientIndices, Return, Recorded, Job
    <2>2. CASE ~GetClientIndices(p)
        BY <2>2 DEF SlotInv, AttestTypeOK, SetsOwn, Request, StartWKA, StartWIA, StartAllocate,
        StartRevoke, StartSuspend, Start,
            NextCategory, AnswerSet, Goto, Return
    <2> QED
        BY <2>1, <2>2
<1> QED
    BY <1>1, <1>2, <1>3, <1>4, QuietStep

\* The new index is unknown to everybody.
LEMMA IncStep ==
    ASSUME SlotInv, NEW p \in Procs, Inc(p)
    PROVE  SlotInv'
<1> USE AttestationAssumption DEF SlotInv
<1> DEFINE n == counter[job[p].cat]
<1>1. job[p] \in Job /\ n \in Nat
    BY DEF AttestTypeOK, Inc, Job
<1>2. AttestTypeOK'
    <2>1. n < MaxIndex => [job[p] EXCEPT !.idx = n] \in Job
        BY <1>1 DEF Job, Indices
    <2>2. job[p].cat \in Categories
        BY <1>1 DEF Job
    <2> QED
        BY <1>1, <2>1, <2>2 DEF AttestTypeOK, Inc, TakeIndex, Return, Labels
<1>3. UNCHANGED <<statuses, clientIndices, issued>>
    BY DEF Inc
<1>4. \A s \in Slots : Below(s) => Below(s)'
    BY <1>1 DEF Below, Inc, AttestTypeOK, Slots, Categories, Indices
<1>5. \A q \in Procs : Allocated(q)' =>
         \/ Allocated(q) /\ SlotOf(q)' = SlotOf(q) /\ pc'[q] = pc[q] /\ job'[q] = job[q]
         \/ /\ q = p /\ SlotOf(q)' = <<job[p].cat, n>> /\ pc'[q] = "insert"
            /\ n < MaxIndex /\ counter' = [counter EXCEPT ![job[p].cat] = @ + 1]
    BY <1>1 DEF Allocated, SlotOf, Inc, TakeIndex, Return, AttestTypeOK, Job
<1>6. ~Below(<<job[p].cat, n>>)
    BY <1>1 DEF Below
<1>7. KnownBelow'
    <2>1. \A q \in Procs : Allocated(q)' => SlotOf(q)' \in Slots /\ Below(SlotOf(q))'
        BY <1>1, <1>4, <1>5 DEF KnownBelow, Below, Slots, Indices, AttestTypeOK, Job
    <2>2. \A c \in Clients : \A s \in clientIndices[c] : s \in Slots
        BY DEF AttestTypeOK
    <2>3. \A t \in issued : t.slot \in Slots
        BY DEF AttestTypeOK, Token
    <2> QED
        BY <1>3, <1>4, <2>1, <2>2, <2>3 DEF KnownBelow
<1>8. Progress'
    BY <1>3, <1>5, <1>6 DEF Progress, KnownBelow
<1>9. OneOwner' /\ TokensRevocable'
    BY <1>3 DEF OneOwner, TokensRevocable
<1>10. SetsOwn'
    BY DEF SetsOwn, Inc, TakeIndex, Return, AttestTypeOK
<1>11. SlotUsedOnce'
    BY <1>3, <1>5, <1>6 DEF SlotUsedOnce, KnownBelow
<1> QED
    BY <1>2, <1>7, <1>8, <1>9, <1>10, <1>11

\* The remaining steps of an attestation keep its slot or let go of it.
LEMMA AttestSteps ==
    ASSUME SlotInv, NEW p \in Procs, Insert(p) \/ RecordWUA(p) \/ Sign(p)
    PROVE  SlotInv'
<1> USE AttestationAssumption DEF SlotInv
<1>1. job[p] \in Job /\ Allocated(p) /\ SlotOf(p) \in Slots
    BY DEF AttestTypeOK, Insert, RecordWUA, Sign, Allocated, KnownBelow, Labels
<1>2. AttestTypeOK'
    <2>1. CASE Insert(p)
        BY <1>1, <2>1 DEF AttestTypeOK, Insert, Goto, Return, Labels
    <2>2. CASE RecordWUA(p)
        BY <1>1, <2>2 DEF AttestTypeOK, RecordWUA, Goto, Return, Labels, Job
    <2>3. CASE Sign(p)
        BY <1>1, <2>3 DEF AttestTypeOK, Sign, Return, Labels, Job, Token
    <2> QED
        BY <2>1, <2>2, <2>3
<1>3. \A q \in Procs : Allocated(q)' =>
         /\ Allocated(q) /\ SlotOf(q)' = SlotOf(q) /\ job'[q] = job[q]
         /\ q # p => pc'[q] = pc[q]
    BY DEF Allocated, SlotOf, Insert, RecordWUA, Sign, Goto, Return, AttestTypeOK
<1>4. UNCHANGED counter
    BY DEF Insert, RecordWUA, Sign
<1>5. \A q \in Procs : q # p /\ Allocated(q) => SlotOf(q) # SlotOf(p)
    BY <1>1 DEF SlotUsedOnce
<1>6. CASE Insert(p)
    <2>1. KnownBelow' /\ OneOwner'
        BY <1>3, <1>4, <1>6 DEF KnownBelow, Below, OneOwner, Insert
    <2>2. Progress'
        <3>1. UNCHANGED clientIndices /\ pc[p] = "insert" /\ pc'[p] # "sign"
            BY <1>6 DEF Insert, Goto, Return, AttestTypeOK
        <3>2. \A s \in Slots : s # SlotOf(p) => statuses'[s] = statuses[s]
            BY <1>6 DEF Insert, AttestTypeOK
        <3>3. pc'[p] = "record" => statuses'[SlotOf(p)] # NoEntry
            BY <1>1, <1>6 DEF Insert, Return, AttestTypeOK, StatusValid, NoEntry
        <3>4. pc'[p] \in {"record", "idle"}
            BY <1>6 DEF Insert, Goto, Return, AttestTypeOK
        <3> QED
            BY <1>1, <1>3, <1>5, <3>1, <3>2, <3>3, <3>4 DEF Progress, Allocated, KnownBelow
    <2>3. SetsOwn'
        BY <1>6 DEF SetsOwn, Insert, Goto, Return, AttestTypeOK
    <2>4. SlotUsedOnce'
        BY <1>3, <1>6 DEF SlotUsedOnce, Insert
    <2>5. TokensRevocable'
        BY <1>1, <1>6 DEF TokensRevocable, Insert, AttestTypeOK, Token, StatusValid, NoEntry
    <2> QED
        BY <1>2, <2>1, <2>2, <2>3, <2>4, <2>5
<1>7. CASE RecordWUA(p)
    <2>1. UNCHANGED <<statuses, issued>> /\ pc[p] = "record"
        BY <1>7 DEF RecordWUA
    <2>2. /\ \A c \in Clients : c # job[p].client => clientIndices'[c] = clientIndices[c]
          /\ \A s : s # SlotOf(p) =>
                \A c \in Clients : s \in clientIndices'[c] <=> s \in clientIndices[c]
          /\ pc'[p] = "sign" => SlotOf(p) \in clientIndices'[job[p].client]
          /\ pc'[p] \in {"sign", "idle"}
        BY <1>1, <1>7 DEF RecordWUA, AttestTypeOK, Goto, Return, Job
    <2>3. \A c \in Clients : SlotOf(p) \notin clientIndices[c]
        BY <1>1, <2>1 DEF Progress
    <2>4. KnownBelow'
        BY <1>1, <1>3, <1>4, <2>1, <2>2 DEF KnownBelow, Below
    <2>5. Progress'
        BY <1>1, <1>3, <1>5, <2>1, <2>2, <2>3 DEF Progress, Allocated
    <2>6. OneOwner'
        BY <2>2, <2>3 DEF OneOwner
    <2>7. SetsOwn'
        BY <1>1, <1>7 DEF SetsOwn, RecordWUA, Goto, Return, AttestTypeOK, Job
    <2>8. SlotUsedOnce'
        BY <1>3, <2>1 DEF SlotUsedOnce
    <2>9. TokensRevocable'
        BY <1>1, <2>1, <2>2 DEF TokensRevocable, SlotUsedOnce
    <2> QED
        BY <1>2, <2>4, <2>5, <2>6, <2>7, <2>8, <2>9
<1>8. CASE Sign(p)
    <2>1. UNCHANGED <<statuses, clientIndices>> /\ pc[p] = "sign" /\ ~Allocated(p)'
        BY <1>8 DEF Sign, Return, AttestTypeOK, Allocated
    <2> DEFINE tok == [client |-> job[p].client, slot |-> SlotOf(p)]
    <2>2. issued' \subseteq issued \cup {tok}
        BY <1>8 DEF Sign
    <2>3. KnownBelow'
        BY <1>1, <1>3, <1>4, <2>1, <2>2 DEF KnownBelow, Below
    <2>4. Progress' /\ OneOwner'
        BY <1>3, <2>1 DEF Progress, OneOwner
    <2>5. SetsOwn'
        BY <1>8 DEF SetsOwn, Sign, Return, AttestTypeOK
    <2>6. SlotUsedOnce'
        BY <1>1, <1>3, <1>5, <2>1, <2>2 DEF SlotUsedOnce
    <2>7. TokensRevocable'
        BY <1>1, <2>1, <2>2 DEF TokensRevocable, Progress, Job
    <2> QED
        BY <1>2, <2>3, <2>4, <2>5, <2>6, <2>7
<1> QED
    BY <1>6, <1>7, <1>8

\* What a step that sets a status does to the jobs: it only takes slots and
\* history away.
JobsKept == \A q \in Procs :
    IF job[q] = NoJob THEN job'[q] = NoJob
    ELSE /\ job'[q] \in Job
         /\ job'[q].op = job[q].op /\ job'[q].client = job[q].client
         /\ job'[q].cat = job[q].cat /\ job'[q].idx = job[q].idx
         /\ job'[q].slots \subseteq job[q].slots

\* SetOne drops one slot from its list and sets its status, if it has one.
LEMMA SetOneEffect ==
    ASSUME SlotInv, NEW p \in Procs, SetOne(p)
    PROVE  /\ pc[p] = "set"
           /\ job[p] \in Job
           /\ JobsKept
           /\ \/ statuses' = statuses
              \/ \E s \in job[p].slots :
                    /\ statuses[s] # NoEntry
                    /\ statuses' = [statuses EXCEPT ![s] = TargetStatus(job[p].op)]
<1>1. pc[p] = "set" /\ job[p] \in Job
    BY DEF SetOne, SlotInv, AttestTypeOK
<1>2. PICK s \in job[p].slots, applied \in BOOLEAN, failed \in BOOLEAN :
         SetSlot(p, s, applied, failed)
    BY DEF SetOne
<1>3. JobsKept
    <2> SUFFICES ASSUME NEW q \in Procs, job[q] # NoJob
                 PROVE  /\ job'[q] \in Job
                        /\ job'[q].op = job[q].op /\ job'[q].client = job[q].client
                        /\ job'[q].cat = job[q].cat /\ job'[q].idx = job[q].idx
                        /\ job'[q].slots \subseteq job[q].slots
        BY <1>2 DEF JobsKept, SetSlot
    <2>1. job[q] \in Job
        BY DEF SlotInv, AttestTypeOK
    <2>2. Owed(q, s, TargetStatus(job[p].op)) \subseteq Slots
        BY <2>1 DEF Owed, Job
    <2> QED
        BY <1>2, <2>1, <2>2 DEF Job, SetSlot
<1>4. \/ statuses' = statuses
      \/ \E r \in job[p].slots :
            /\ statuses[r] # NoEntry
            /\ statuses' = [statuses EXCEPT ![r] = TargetStatus(job[p].op)]
    BY <1>2 DEF SetSlot
<1> QED
    BY <1>1, <1>3, <1>4

\* The same of the admin.
LEMMA AdminEffect ==
    ASSUME SlotInv, NEW s \in Slots, NEW st, AdminSetStatus(s, st)
    PROVE  JobsKept
<1> SUFFICES ASSUME NEW q \in Procs, job[q] # NoJob
             PROVE  /\ job'[q] \in Job
                    /\ job'[q].op = job[q].op /\ job'[q].client = job[q].client
                    /\ job'[q].cat = job[q].cat /\ job'[q].idx = job[q].idx
                    /\ job'[q].slots \subseteq job[q].slots
    BY DEF JobsKept, AdminSetStatus
<1>1. job[q] \in Job
    BY DEF SlotInv, AttestTypeOK
<1>2. Owed(q, s, st) \subseteq Slots
    BY <1>1 DEF Owed, Job
<1> QED
    BY <1>1, <1>2 DEF AdminSetStatus, Job

\* A status is set where there is one, to another status.
LEMMA StatusSteps ==
    ASSUME SlotInv,
           \/ \E p \in Procs : SetOne(p)
           \/ \E s \in Slots, st \in {StatusValid, StatusInvalid, StatusSuspended} :
                 AdminSetStatus(s, st)
    PROVE  SlotInv'
<1> USE DEF SlotInv, StatusValid, StatusInvalid, StatusSuspended, NoEntry
<1>1. UNCHANGED <<counter, clientIndices, issued, pc>>
    BY DEF SetOne, AdminSetStatus
<1>2. JobsKept
    BY SetOneEffect, AdminEffect
<1>3. \/ statuses' = statuses
      \/ \E s \in Slots, st \in {0, 1, 2} : /\ statuses[s] # NoEntry
                                           /\ statuses' = [statuses EXCEPT ![s] = st]
    <2>1. ASSUME NEW p \in Procs, SetOne(p)
          PROVE  job[p].slots \subseteq Slots /\ TargetStatus(job[p].op) \in {0, 1, 2}
        BY <2>1, SetOneEffect DEF Job, TargetStatus
    <2> QED
        BY <2>1, SetOneEffect DEF AdminSetStatus
<1>4. AttestTypeOK'
    <2>1. statuses' \in [Slots -> {0, 1, 2, 3}]
        BY <1>3 DEF AttestTypeOK
    <2>2. job' = [q \in Procs |-> job'[q]]
        BY DEF SetOne, SetSlot, AdminSetStatus
    <2>3. /\ job' \in [Procs -> Job \cup {NoJob}]
          /\ \A p \in Procs : pc[p] = "idle" <=> job'[p] = NoJob
        BY <1>2, <2>2, AttestationAssumption DEF AttestTypeOK, JobsKept
    <2> QED
        BY <1>1, <2>1, <2>3 DEF AttestTypeOK
<1>5. \A p \in Procs : Allocated(p)' => /\ Allocated(p) /\ SlotOf(p)' = SlotOf(p)
                                        /\ job'[p].client = job[p].client
    BY <1>1, <1>2 DEF Allocated, SlotOf, AttestTypeOK, JobsKept
<1>6. \A s \in Slots : statuses[s] # NoEntry => statuses'[s] # NoEntry
    BY <1>3 DEF AttestTypeOK
<1>7. KnownBelow' /\ OneOwner' /\ SlotUsedOnce'
    BY <1>1, <1>5 DEF KnownBelow, Below, OneOwner, SlotUsedOnce
<1>8. Progress'
    BY <1>1, <1>5, <1>6 DEF Progress, KnownBelow
<1>9. TokensRevocable'
    BY <1>1, <1>6 DEF TokensRevocable, AttestTypeOK, Token
<1>10. SetsOwn'
    BY <1>1, <1>2 DEF SetsOwn, AttestTypeOK, JobsKept
<1> QED
    BY <1>4, <1>7, <1>8, <1>9, <1>10

\* SlotInv is inductive, crashes included.
THEOREM SlotInvariance == AttestSpec => []SlotInv
<1>1. SlotInv /\ [AttestNext]_avars => SlotInv'
    <2> SUFFICES ASSUME SlotInv, [AttestNext]_avars
                 PROVE  SlotInv'
        OBVIOUS
    <2>1. ASSUME Crash \/ UNCHANGED avars
          PROVE  SlotInv'
        <3>1. AttestTypeOK' /\ UNCHANGED <<counter, statuses, clientIndices, issued>>
            BY <2>1 DEF SlotInv, AttestTypeOK, Crash, avars, Labels
        <3>2. \A p \in Procs : \/ pc'[p] = "idle"
                               \/ pc'[p] = pc[p] /\ job'[p] = job[p]
            BY <2>1 DEF Crash, avars
        <3> QED
            BY <3>1, <3>2, QuietStep DEF SlotInv, SetsOwn, Allocated
    <2> QED
        BY <2>1, ControlSteps, IncStep, AttestSteps, StatusSteps DEF AttestNext, AttestStep
<1> QED
    BY SlotInitial, <1>1, PTL DEF AttestSpec

-----------------------------------------------------------------------------
\* The variables keep their types, AllocateIndex never gives a slot to two
\* attestations, and a signed token has a status entry and is recorded for its
\* client alone (WKA and WIA handlers).
THEOREM SlotsSound == AttestSpec => [](AttestTypeOK /\ SlotUsedOnce /\ TokensRevocable)
<1>1. SlotInv => AttestTypeOK /\ SlotUsedOnce /\ TokensRevocable
    BY DEF SlotInv
<1> QED
    BY SlotInvariance, <1>1, PTL

\* The status of a token is changed by a request of its own client, which never
\* makes it valid again, or by an admin (revokeAll, WISuspendHandler,
\* handleSetStatus).
THEOREM StatusChangesOwned == AttestSpec => OwnTokensOnly
<1> DEFINE Owned == \A t \in issued : statuses'[t.slot] # statuses[t.slot] =>
          \/ \E p \in Procs : /\ pc[p] = "set" /\ job[p].client = t.client
                              /\ statuses'[t.slot] # StatusValid
          \/ \E status \in {StatusValid, StatusInvalid, StatusSuspended} :
                AdminSetStatus(t.slot, status)
<1>1. SlotInv /\ [AttestNext]_avars => [Owned]_avars
    <2> SUFFICES ASSUME SlotInv, AttestNext, NEW t \in issued,
                        statuses'[t.slot] # statuses[t.slot]
                 PROVE  \/ \E p \in Procs : /\ pc[p] = "set" /\ job[p].client = t.client
                                            /\ statuses'[t.slot] # StatusValid
                        \/ \E status \in {StatusValid, StatusInvalid, StatusSuspended} :
                              AdminSetStatus(t.slot, status)
        BY DEF avars
    <2>1. t.slot \in Slots /\ statuses[t.slot] # NoEntry /\ t.client \in Clients
        BY DEF SlotInv, AttestTypeOK, Token, TokensRevocable
    <2>2. ASSUME NEW p \in Procs, SetOne(p)
          PROVE  /\ pc[p] = "set" /\ job[p].client = t.client
                 /\ statuses'[t.slot] # StatusValid
        <3>1. /\ pc[p] = "set" /\ job[p] \in Job /\ t.slot \in job[p].slots
              /\ statuses'[t.slot] # StatusValid
            BY <2>1, <2>2, SetOneEffect DEF SlotInv, AttestTypeOK, TargetStatus,
                StatusValid, StatusInvalid, StatusSuspended
        <3> QED
            BY <2>1, <3>1 DEF SlotInv, SetsOwn, TokensRevocable, Job
    <2>3. ASSUME NEW p \in Procs, Insert(p)
          PROVE  FALSE
        BY <2>1, <2>3 DEF Insert, SlotInv, AttestTypeOK
    <2>4. ASSUME NEW s \in Slots, NEW st \in {StatusValid, StatusInvalid, StatusSuspended},
                 AdminSetStatus(s, st)
          PROVE  AdminSetStatus(t.slot, st)
        BY <2>1, <2>4 DEF AdminSetStatus, SlotInv, AttestTypeOK
    <2>5. CASE Crash
        BY <2>5 DEF Crash
    <2>6. ASSUME NEW p \in Procs, AttestStep(p), ~SetOne(p), ~Insert(p)
          PROVE  statuses' = statuses
        BY <2>6 DEF AttestStep, Request, StartWKA, StartWIA, StartAllocate,
        StartRevoke, StartSuspend, Start, Inc, RecordWUA, Sign,
            GetClientIndices, NextCategory, AnswerSet
    <2> QED
        BY <2>2, <2>3, <2>4, <2>5, <2>6 DEF AttestNext
<1> QED
    BY SlotInvariance, <1>1, PTL DEF AttestSpec, OwnTokensOnly

-----------------------------------------------------------------------------
\* A revocation has still to come to slot s.
StillToSet(p, s) == \/ job[p].cat = "ka" /\ s[1] = "wia"
                    \/ pc[p] = "list" /\ s[1] = job[p].cat
                    \/ pc[p] = "set" /\ s \in job[p].slots

\* What a revocation that skipped nothing answers for is recorded for its
\* client, and is revoked or still to be set.
RevokesInOrder(p) ==
    /\ pc[p] \in {"list", "set", "answer"}
    /\ pc[p] = "answer" => job[p].cat = "wia"
    /\ job[p].earlier \subseteq clientIndices[job[p].client]
    /\ ~job[p].skipped =>
          \A s \in job[p].earlier : StillToSet(p, s) \/ statuses[s] = StatusInvalid

Revoking(p) == job[p] # NoJob /\ job[p].op = "revoke"

RevokeInv == \A p \in Procs : Revoking(p) => RevokesInOrder(p)

\* Whoever is left alone by a step stays in order.
LEMMA LeftAlone ==
    ASSUME RevokeInv, NEW q \in Procs, job'[q] = job[q], pc'[q] = pc[q],
           \A c \in Clients : clientIndices[c] \subseteq clientIndices'[c],
           \A s \in Slots : statuses[s] = StatusInvalid => statuses'[s] = StatusInvalid,
           SlotInv, Revoking(q)'
    PROVE  RevokesInOrder(q)'
<1>1. Revoking(q) /\ job[q] \in Job
    BY DEF Revoking, SlotInv, AttestTypeOK
<1>2. job[q].earlier \subseteq Slots /\ job[q].client \in Clients
    BY <1>1 DEF Job
<1> QED
    BY <1>1, <1>2 DEF RevokeInv, RevokesInOrder, StillToSet

\* No step but SetOne and the admin's takes a revocation back, and records are
\* only added.
LEMMA OtherSteps ==
    ASSUME SlotInv, NEW p \in Procs, AttestStep(p), ~SetOne(p)
    PROVE  /\ \A c \in Clients : clientIndices[c] \subseteq clientIndices'[c]
           /\ \A s \in Slots : statuses[s] = StatusInvalid => statuses'[s] = StatusInvalid
           /\ \A q \in Procs \ {p} : job'[q] = job[q] /\ pc'[q] = pc[q]
<1> USE DEF SlotInv, AttestTypeOK, Goto, Return
<1>1. CASE Request(p)
    BY <1>1 DEF Request, StartWKA, StartWIA, StartAllocate, StartRevoke, StartSuspend, Start
<1>2. CASE Inc(p)
    BY <1>2 DEF Inc, TakeIndex
<1>3. CASE Insert(p)
    BY <1>3 DEF Insert, NoEntry, StatusInvalid
<1>4. CASE RecordWUA(p)
    BY <1>4 DEF RecordWUA
<1>5. CASE Sign(p)
    BY <1>5 DEF Sign
<1>6. CASE GetClientIndices(p)
    BY <1>6 DEF GetClientIndices
<1>7. CASE NextCategory(p) \/ AnswerSet(p)
    BY <1>7 DEF NextCategory, AnswerSet
<1> QED
    BY <1>1, <1>2, <1>3, <1>4, <1>5, <1>6, <1>7 DEF AttestStep

\* The goroutine that takes one of those steps stays in order as well.
LEMMA RevocationSteps ==
    ASSUME SlotInv, RevokeInv, NEW p \in Procs, AttestStep(p), ~SetOne(p), Revoking(p)'
    PROVE  RevokesInOrder(p)'
<1> USE DEF SlotInv
<1>1. CASE Request(p)
    <2>1. StartRevoke(p)
        <3>1. ASSUME NEW label, NEW op, NEW c \in Clients, NEW cat, op # "revoke",
                     Start(p, label, NewJob(op, c, cat))
              PROVE  FALSE
            BY <3>1 DEF Start, AttestTypeOK, Revoking, NewJob
        <3> QED
            BY <1>1, <3>1 DEF Request, StartWKA, StartWIA, StartAllocate, StartSuspend
    <2>2. PICK c \in Clients : Start(p, "list", NewJob("revoke", c, "ka"))
        BY <2>1 DEF StartRevoke
    <2>3. /\ job'[p] = NewJob("revoke", c, "ka") /\ pc'[p] = "list"
          /\ UNCHANGED <<statuses, clientIndices>>
        BY <2>2 DEF Start, AttestTypeOK
    <2>4. /\ job'[p].cat = "ka" /\ job'[p].client = c
          /\ job'[p].earlier = IssuedTo(c)
        BY <2>3 DEF NewJob
    <2>5. \A s \in IssuedTo(c) : s \in clientIndices[c] /\ s \in Slots
        BY DEF IssuedTo, TokensRevocable, AttestTypeOK, Token
    <2>6. \A s \in Slots : s[1] = "ka" \/ s[1] = "wia"
        BY DEF Slots, Categories
    <2> QED
        BY <2>3, <2>4, <2>5, <2>6 DEF RevokesInOrder, StillToSet
<1>2. CASE Inc(p) \/ Insert(p) \/ RecordWUA(p) \/ Sign(p)
    <2>1. pc[p] \in {"inc", "insert", "record", "sign"} /\ job[p] \in Job
        BY <1>2 DEF Inc, Insert, RecordWUA, Sign, AttestTypeOK
    <2>2. job[p].op # "revoke"
        BY <2>1, AttestationAssumption DEF RevokeInv, Revoking, RevokesInOrder
    <2>3. job'[p] = NoJob \/ job'[p].op = job[p].op
        BY <1>2, <2>1 DEF Inc, Insert, RecordWUA, Sign, TakeIndex, Goto, Return, AttestTypeOK, Job
    <2> QED
        BY <2>2, <2>3 DEF Revoking
<1>3. CASE GetClientIndices(p) \/ NextCategory(p) \/ AnswerSet(p)
    <2>1. job[p] \in Job /\ UNCHANGED <<statuses, clientIndices>> /\ pc[p] \in {"list", "set", "answer"}
        BY <1>3 DEF GetClientIndices, NextCategory, AnswerSet, AttestTypeOK
    <2>2. CASE GetClientIndices(p)
        <3>1. /\ pc[p] = "list" /\ pc'[p] = "set"
              /\ job' = [job EXCEPT ![p].slots = Recorded(job[p].client, job[p].cat)]
            BY <2>2 DEF GetClientIndices, Return, Revoking, AttestTypeOK
        <3>2. /\ job'[p].slots = Recorded(job[p].client, job[p].cat)
              /\ job'[p].op = job[p].op /\ job'[p].cat = job[p].cat
              /\ job'[p].client = job[p].client /\ job'[p].earlier = job[p].earlier
              /\ job'[p].skipped = job[p].skipped
            BY <2>1, <3>1 DEF AttestTypeOK, Job
        <3>3. RevokesInOrder(p)
            BY <2>1, <3>2, AttestationAssumption DEF Revoking, RevokeInv
        <3>4. ASSUME ~job'[p].skipped, NEW s \in job'[p].earlier
              PROVE  StillToSet(p, s)' \/ statuses'[s] = StatusInvalid
            <4>1. s \in clientIndices[job[p].client] /\ (StillToSet(p, s) \/ statuses[s] = StatusInvalid)
                BY <3>2, <3>3, <3>4 DEF RevokesInOrder
            <4> QED
                BY <2>1, <3>1, <3>2, <4>1 DEF StillToSet, Recorded
        <3> QED
            BY <2>1, <3>1, <3>2, <3>3, <3>4 DEF RevokesInOrder
    <2>3. CASE NextCategory(p)
        <3>1. /\ pc[p] = "set" /\ job[p].slots = {}
              /\ \/ /\ job[p].cat = "ka" /\ pc'[p] = "list"
                    /\ job' = [job EXCEPT ![p].cat = "wia"]
                 \/ /\ job[p].cat = "wia" /\ pc'[p] = "answer"
                    /\ job' = job
            BY <2>3 DEF NextCategory, Goto, AttestTypeOK
        <3>2. /\ job'[p].op = job[p].op /\ job'[p].cat = "wia"
              /\ job'[p].client = job[p].client /\ job'[p].earlier = job[p].earlier
              /\ job'[p].skipped = job[p].skipped
            BY <2>1, <3>1 DEF AttestTypeOK, Job
        <3>3. RevokesInOrder(p)
            BY <2>1, <3>2, AttestationAssumption DEF Revoking, RevokeInv
        <3>4. ASSUME ~job'[p].skipped, NEW s \in job'[p].earlier
              PROVE  StillToSet(p, s)' \/ statuses'[s] = StatusInvalid
            <4>1. StillToSet(p, s) \/ statuses[s] = StatusInvalid
                BY <3>2, <3>3, <3>4 DEF RevokesInOrder
            <4> QED
                BY <2>1, <3>1, <3>2, <4>1 DEF StillToSet
        <3> QED
            BY <2>1, <3>1, <3>2, <3>3, <3>4 DEF RevokesInOrder
    <2>4. CASE AnswerSet(p)
        BY <2>4 DEF AnswerSet, Return, Revoking, AttestTypeOK
    <2> QED
        BY <1>3, <2>2, <2>3, <2>4
<1> QED
    BY <1>1, <1>2, <1>3 DEF AttestStep

\* A status that is set: a slot that a revocation answers for gets no other
\* status than revoked without being taken from what it answers for.
LEMMA StatusStepsInOrder ==
    ASSUME SlotInv, RevokeInv, NEW q \in Procs, Revoking(q)',
           \/ \E p \in Procs : SetOne(p)
           \/ \E s \in Slots, st \in {StatusValid, StatusInvalid, StatusSuspended} :
                 AdminSetStatus(s, st)
    PROVE  RevokesInOrder(q)'
<1> USE DEF SlotInv
<1>1. JobsKept /\ UNCHANGED <<clientIndices, pc>>
    BY SetOneEffect, AdminEffect DEF SetOne, AdminSetStatus
<1>2. job[q] \in Job /\ Revoking(q) /\ RevokesInOrder(q)
    BY <1>1 DEF JobsKept, Revoking, RevokeInv, AttestTypeOK
<1>3. job'[q].client = job[q].client /\ job'[q].cat = job[q].cat
    BY <1>1, <1>2 DEF JobsKept, Revoking
<1>4. CASE \E p \in Procs : SetOne(p)
    <2>1. PICK p \in Procs : SetOne(p)
        BY <1>4
    <2>2. PICK s \in job[p].slots, applied \in BOOLEAN, failed \in BOOLEAN :
             (applied \/ failed) /\ SetSlot(p, s, applied, failed)
        BY <2>1 DEF SetOne
    <2> DEFINE st == TargetStatus(job[p].op)
    <2>3. /\ statuses' = IF applied THEN [statuses EXCEPT ![s] = st] ELSE statuses
          /\ job'[q].earlier = IF applied THEN Owed(q, s, st) ELSE job[q].earlier
          /\ job'[q].slots = IF q = p THEN job[q].slots \ {s} ELSE job[q].slots
          /\ job'[q].skipped = (job[q].skipped \/ (q = p /\ failed /\ job[p].op = "revoke"))
        BY <1>2, <2>2 DEF SetSlot, Revoking, Job
    <2>4. job'[q].earlier \subseteq job[q].earlier
        BY <2>3 DEF Owed
    <2>5. ASSUME ~job'[q].skipped, NEW r \in job'[q].earlier
          PROVE  StillToSet(q, r)' \/ statuses'[r] = StatusInvalid
        <3>1. r \in Slots /\ r \in job[q].earlier /\ ~job[q].skipped
            BY <1>2, <2>3, <2>4, <2>5 DEF Job
        <3>2. StillToSet(q, r) \/ statuses[r] = StatusInvalid
            BY <1>2, <3>1 DEF RevokesInOrder
        <3>3. CASE r = s /\ applied
            BY <2>3, <3>1, <3>3 DEF Owed, AttestTypeOK
        <3>4. CASE r = s /\ ~applied
            BY <1>1, <1>2, <1>3, <2>2, <2>3, <2>5, <3>2, <3>4 DEF StillToSet, Revoking
        <3>5. CASE r # s
            BY <1>1, <1>3, <2>3, <3>1, <3>2, <3>5 DEF StillToSet, AttestTypeOK
        <3> QED
            BY <3>3, <3>4, <3>5
    <2> QED
        BY <1>1, <1>2, <1>3, <2>4, <2>5 DEF RevokesInOrder
<1>5. CASE \E s \in Slots, st \in {StatusValid, StatusInvalid, StatusSuspended} :
              AdminSetStatus(s, st)
    <2>1. PICK s \in Slots, st \in {StatusValid, StatusInvalid, StatusSuspended} :
             AdminSetStatus(s, st)
        BY <1>5
    <2>2. /\ statuses' = [statuses EXCEPT ![s] = st]
          /\ job'[q].earlier = Owed(q, s, st)
          /\ job'[q].slots = job[q].slots /\ job'[q].skipped = job[q].skipped
        BY <1>2, <2>1 DEF AdminSetStatus, Revoking, Job
    <2>3. job'[q].earlier \subseteq job[q].earlier
        BY <2>2 DEF Owed
    <2>4. ASSUME ~job'[q].skipped, NEW r \in job'[q].earlier
          PROVE  StillToSet(q, r)' \/ statuses'[r] = StatusInvalid
        <3>1. r \in Slots /\ (StillToSet(q, r) \/ statuses[r] = StatusInvalid)
            BY <1>2, <2>2, <2>3, <2>4 DEF RevokesInOrder, Job
        <3>2. CASE r = s
            BY <2>2, <3>1, <3>2 DEF Owed, AttestTypeOK
        <3>3. CASE r # s
            BY <1>1, <1>3, <2>2, <3>1, <3>3 DEF StillToSet, AttestTypeOK
        <3> QED
            BY <3>2, <3>3
    <2> QED
        BY <1>1, <1>2, <1>3, <2>3, <2>4 DEF RevokesInOrder
<1> QED
    BY <1>4, <1>5

\* A revocation none of whose SetStatus calls failed leaves every token of the
\* client that was issued before it revoked, but for those that a concurrent
\* suspension or an admin has set since (revokeAll).
THEOREM RevocationComplete == AttestSpec => []RevocationReachesAll
<1>1. AttestInit => RevokeInv
    BY DEF AttestInit, RevokeInv, Revoking
<1>2. SlotInv /\ RevokeInv /\ [AttestNext]_avars => RevokeInv'
    <2> SUFFICES ASSUME SlotInv, RevokeInv, [AttestNext]_avars, NEW q \in Procs, Revoking(q)'
                 PROVE  RevokesInOrder(q)'
        BY DEF RevokeInv
    <2>1. CASE UNCHANGED avars
        BY <2>1, LeftAlone DEF avars
    <2>2. CASE Crash
        BY <2>2 DEF Crash, Revoking
    <2>3. CASE \/ \E p \in Procs : SetOne(p)
               \/ \E s \in Slots, st \in {StatusValid, StatusInvalid, StatusSuspended} :
                     AdminSetStatus(s, st)
        BY <2>3, StatusStepsInOrder
    <2>4. ASSUME NEW p \in Procs, AttestStep(p), ~SetOne(p)
          PROVE  RevokesInOrder(q)'
        BY <2>4, OtherSteps, RevocationSteps, LeftAlone
    <2> QED
        BY <2>1, <2>2, <2>3, <2>4 DEF AttestNext
<1>3. SlotInv /\ RevokeInv => RevocationReachesAll
    <2> SUFFICES ASSUME SlotInv, RevokeInv, NEW p \in Procs,
                        pc[p] = "answer", job[p].op = "revoke", ~job[p].skipped,
                        NEW s \in job[p].earlier
                 PROVE  statuses[s] = StatusInvalid
        BY DEF RevocationReachesAll
    <2>1. Revoking(p)
        BY DEF Revoking, SlotInv, AttestTypeOK
    <2> QED
        BY <2>1 DEF RevokeInv, RevokesInOrder, StillToSet
<1> QED
    BY SlotInvariance, <1>1, <1>2, <1>3, PTL DEF AttestSpec
=============================================================================
