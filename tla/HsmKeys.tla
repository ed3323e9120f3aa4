------------------------------- MODULE HsmKeys -------------------------------
(***************************************************************************)
(* Key pairs on the HSM and their public keys in the store: GenerateECKey  *)
(* and Sign of internal/hsm/pkcs11.go, the key generation handler          *)
(* (internal/service/handlers.go), PutPublicKey and GetPublicKey of the    *)
(* store, and the WKA and WIA handlers, which resolve with them the keys   *)
(* that they attest (internal/service/eudiw_handlers.go).                  *)
(*                                                                         *)
(* GenerateECKey cannot know the kid, a hash of the public key, before the *)
(* pair exists.  It generates the pair under a random temporary CKA_ID,    *)
(* reads the public key, and renames the two token objects one after the   *)
(* other, finding the private one by the temporary id.  Every PKCS#11 call *)
(* may fail, requests run concurrently, and token objects outlive the      *)
(* server process.  HsmPool models the session each request works with.    *)
(***************************************************************************)
EXTENDS Naturals, FiniteSets

CONSTANTS
    Procs,         \* the request goroutines that may run at the same time
    Pairs,         \* bound: the key pairs ever generated
    None,          \* no key pair, no object
    Persistent,    \* public keys are kept in MongoDB (TRUE) or in memory (FALSE)
    MaxRestarts    \* bound: restarts of the server process

ASSUME KeysAssumption == /\ None \notin Pairs
                         /\ Persistent \in BOOLEAN
                         /\ MaxRestarts \in Nat

VARIABLES
    pubId, privId,   \* the CKA_ID of the token objects of each key pair
    published,       \* the key pairs whose kid is in the public key store
    confirmed,       \* the key pairs whose creation a client was told of
    attested,        \* the key pairs whose public key is in a signed attestation
    restarts,
    pc,              \* of each goroutine: its next step,
    pair,            \* the pair it works on, or whose kid it signs with,
    handle,          \* the private key object it found,
    toAttest,        \* the keys of keys_to_attest that it has still to resolve
    resolved         \* and those whose JWK it has

vars == <<pubId, privId, published, confirmed, attested, restarts, pc, pair, handle,
          toAttest, resolved>>

\* The token objects; and what an attestation works on.
tokenVars == <<pubId, privId>>

jwkVars == <<attested, toAttest, resolved>>

\* The random CKA_ID that a pair is generated under: 16 bytes, drawn for each
\* generation, that are assumed never to coincide.
TempId(k) == <<"temporary", k>>

\* The kid: the first half of the SHA-256 of the public key.
Kid(k) == <<"kid", k>>

Ids == {TempId(k) : k \in Pairs} \cup {Kid(k) : k \in Pairs}

NoId == <<"no object">>

Labels == {"idle", "renamePub", "find", "renamePriv", "publish", "confirm",
           "findKey", "sign", "resolve"}

\* Every variable holds a value of its type, a busy goroutine has key pairs to
\* work on, and none goes on to use a private key object it did not find.
KeysTypeOK == /\ pubId \in [Pairs -> Ids \cup {NoId}]
              /\ privId \in [Pairs -> Ids \cup {NoId}]
              /\ published \in SUBSET Pairs
              /\ confirmed \in SUBSET Pairs
              /\ attested \in SUBSET Pairs
              /\ restarts \in 0..MaxRestarts
              /\ pc \in [Procs -> Labels]
              /\ pair \in [Procs -> Pairs \cup {None}]
              /\ handle \in [Procs -> Pairs \cup {None}]
              /\ toAttest \in [Procs -> SUBSET Pairs]
              /\ resolved \in [Procs -> SUBSET Pairs]
              /\ \A p \in Procs : /\ pc[p] \notin {"idle", "resolve"} => pair[p] \in Pairs
                                  /\ pc[p] \in {"renamePriv", "sign"} => handle[p] \in Pairs

Idle == /\ pc = [p \in Procs |-> "idle"]
        /\ pair = [p \in Procs |-> None]
        /\ handle = [p \in Procs |-> None]
        /\ toAttest = [p \in Procs |-> {}]
        /\ resolved = [p \in Procs |-> {}]

Init == /\ pubId = [k \in Pairs |-> NoId]
        /\ privId = [k \in Pairs |-> NoId]
        /\ published = {}
        /\ confirmed = {}
        /\ attested = {}
        /\ restarts = 0
        /\ Idle

At(p, label) == pc[p] = label

Goto(p, label) == pc' = [pc EXCEPT ![p] = label]

Answer(p) == /\ Goto(p, "idle")
             /\ pair' = [pair EXCEPT ![p] = None]
             /\ handle' = [handle EXCEPT ![p] = None]

-----------------------------------------------------------------------------
(***************************************************************************)
(* GenerateECKey.                                                          *)
(***************************************************************************)

\* GenerateKeyPair and readECPoint, which may fail after the pair was made.
GenerateKeyPair(p) ==
    /\ At(p, "idle")
    /\ \E k \in Pairs :
          /\ privId[k] = NoId
          /\ pubId' = [pubId EXCEPT ![k] = TempId(k)]
          /\ privId' = [privId EXCEPT ![k] = TempId(k)]
          /\ \/ /\ pair' = [pair EXCEPT ![p] = k]
                /\ Goto(p, "renamePub")
             \/ UNCHANGED <<pair, pc>>
    /\ UNCHANGED <<published, confirmed, restarts, handle, jwkVars>>

RenamePublic(p) ==
    /\ At(p, "renamePub")
    /\ \/ /\ pubId' = [pubId EXCEPT ![pair[p]] = Kid(pair[p])]
          /\ Goto(p, "find")
          /\ UNCHANGED <<pair, handle>>
       \/ UNCHANGED pubId /\ Answer(p)
    /\ UNCHANGED <<privId, published, confirmed, restarts, jwkVars>>

FoundIgnoresError(p, id, label) ==
    /\ \/ \E j \in Pairs : /\ privId[j] = id
                           /\ handle' = [handle EXCEPT ![p] = j]
       \/ UNCHANGED handle
    /\ Goto(p, label)
    /\ UNCHANGED pair

\* findPrivateKeyByID: some private key object with that id, or an error.
Found(p, id, label) ==
    \/ /\ \E j \in Pairs : /\ privId[j] = id
                           /\ handle' = [handle EXCEPT ![p] = j]
       /\ Goto(p, label)
       /\ UNCHANGED pair
    \/ Answer(p)

FindPrivate(p) ==
    /\ At(p, "find")
    /\ Found(p, TempId(pair[p]), "renamePriv")
    /\ UNCHANGED <<pubId, privId, published, confirmed, restarts, jwkVars>>

RenameIgnoresError(p) ==
    /\ At(p, "renamePriv")
    /\ \/ privId' = [privId EXCEPT ![handle[p]] = Kid(pair[p])]
       \/ UNCHANGED privId
    /\ Goto(p, "publish")
    /\ UNCHANGED <<pubId, published, confirmed, restarts, pair, handle, jwkVars>>

RenamePrivate(p) ==
    /\ At(p, "renamePriv")
    /\ \/ /\ privId' = [privId EXCEPT ![handle[p]] = Kid(pair[p])]
          /\ Goto(p, "publish")
          /\ UNCHANGED <<pair, handle>>
       \/ UNCHANGED privId /\ Answer(p)
    /\ UNCHANGED <<pubId, published, confirmed, restarts, jwkVars>>

-----------------------------------------------------------------------------
(***************************************************************************)
(* ECKeygenHandler: an error of PutPublicKey is ignored.                   *)
(***************************************************************************)
PutPublicKey(p) ==
    /\ At(p, "publish")
    /\ \/ published' = published \cup {pair[p]}
       \/ UNCHANGED published
    /\ Goto(p, "confirm")
    /\ UNCHANGED <<pubId, privId, confirmed, restarts, pair, handle, jwkVars>>

Confirm(p) ==
    /\ At(p, "confirm")
    /\ confirmed' = confirmed \cup {pair[p]}
    /\ Answer(p)
    /\ UNCHANGED <<pubId, privId, published, restarts, jwkVars>>

-----------------------------------------------------------------------------
(***************************************************************************)
(* Sign, with any well-formed kid, that of a key being generated too.      *)
(* Temporary ids are random bytes, not the text that a kid is.             *)
(***************************************************************************)
StartSign(p) ==
    /\ At(p, "idle")
    /\ \E k \in Pairs : pair' = [pair EXCEPT ![p] = k]
    /\ Goto(p, "findKey")
    /\ UNCHANGED <<pubId, privId, published, confirmed, restarts, handle, jwkVars>>

FindAnyKey(p) ==
    /\ At(p, "findKey")
    /\ \E id \in Ids \ {NoId} : Found(p, id, "sign")
    /\ UNCHANGED <<pubId, privId, published, confirmed, restarts, jwkVars>>

FindKey(p) ==
    /\ At(p, "findKey")
    /\ Found(p, Kid(pair[p]), "sign")
    /\ UNCHANGED <<pubId, privId, published, confirmed, restarts, jwkVars>>

Sign(p) == /\ At(p, "sign")
           /\ Answer(p)
           /\ UNCHANGED <<pubId, privId, published, confirmed, restarts, jwkVars>>

-----------------------------------------------------------------------------
(***************************************************************************)
(* WKAHandler and WIAHandler, with any well-formed kids.  A WIA has one    *)
(* key; a WIA whose key does not resolve is refused, like a WKA none of    *)
(* whose keys do.                                                          *)
(***************************************************************************)
StartAttest(p) ==
    /\ At(p, "idle")
    /\ \E kids \in SUBSET Pairs \ {{}} : toAttest' = [toAttest EXCEPT ![p] = kids]
    /\ Goto(p, "resolve")
    /\ UNCHANGED <<tokenVars, published, confirmed, attested, restarts, pair, handle, resolved>>

ResolveListed(p) ==
    /\ At(p, "resolve")
    /\ \E k \in toAttest[p] :
          /\ toAttest' = [toAttest EXCEPT ![p] = @ \ {k}]
          /\ \/ /\ pubId[k] # NoId
                /\ resolved' = [resolved EXCEPT ![p] = @ \cup {k}]
             \/ UNCHANGED resolved
    /\ UNCHANGED <<tokenVars, published, confirmed, attested, restarts, pc, pair, handle>>

\* resolveKeyJWK: GetPublicKey, which may fail, and pubKeyToJWK.  A key that does
\* not resolve is left out.
ResolveKey(p) ==
    /\ At(p, "resolve")
    /\ \E k \in toAttest[p] :
          /\ toAttest' = [toAttest EXCEPT ![p] = @ \ {k}]
          /\ \/ /\ k \in published
                /\ resolved' = [resolved EXCEPT ![p] = @ \cup {k}]
             \/ UNCHANGED resolved
    /\ UNCHANGED <<tokenVars, published, confirmed, attested, restarts, pc, pair, handle>>

\* The rest of the handler (see Attestation), which may fail: with no key left
\* there is nothing to attest.
Attest(p) ==
    /\ At(p, "resolve")
    /\ toAttest[p] = {}
    /\ attested' \in {attested, attested \cup resolved[p]}
    /\ resolved' = [resolved EXCEPT ![p] = {}]
    /\ Goto(p, "idle")
    /\ UNCHANGED <<tokenVars, published, confirmed, restarts, pair, handle, toAttest>>

\* The end of the server process, at any moment, and a new start.
Restart ==
    /\ restarts < MaxRestarts
    /\ restarts' = restarts + 1
    /\ published' = IF Persistent THEN published ELSE {}
    /\ pc' = [p \in Procs |-> "idle"]
    /\ pair' = [p \in Procs |-> None]
    /\ handle' = [p \in Procs |-> None]
    /\ toAttest' = [p \in Procs |-> {}]
    /\ resolved' = [p \in Procs |-> {}]
    /\ UNCHANGED <<tokenVars, confirmed, attested>>

Step(p) == \/ GenerateKeyPair(p) \/ RenamePublic(p) \/ FindPrivate(p)
           \/ RenamePrivate(p) \/ PutPublicKey(p) \/ Confirm(p)
           \/ StartSign(p) \/ FindKey(p) \/ Sign(p)
           \/ StartAttest(p) \/ ResolveKey(p) \/ Attest(p)

Next == (\E p \in Procs : Step(p)) \/ Restart

Spec == Init /\ [][Next]_vars

-----------------------------------------------------------------------------
(***************************************************************************)
(* Properties.                                                             *)
(***************************************************************************)

(***************************************************************************)
(* What attestations can name, and what a client was told was created, can *)
(* sign (ECKeygenHandler, resolveKeyJWK): the kid of a published or        *)
(* confirmed pair is the CKA_ID of the private key object of that very     *)
(* pair and of no other object, so Sign finds it, whichever PKCS#11 calls  *)
(* failed and whatever other generations ran in between.                   *)
(***************************************************************************)
PublishedCanSign ==
    \A k \in published \cup confirmed : \A j \in Pairs : privId[j] = Kid(k) <=> j = k

(***************************************************************************)
(* The same of every key in a signed attestation, for good: also when it   *)
(* was being generated while the attestation was made, when the generation *)
(* was cut short by a failure or the end of the process, and when the      *)
(* public key store has since been lost (WKAHandler, WIAHandler).          *)
(***************************************************************************)
AttestedCanSign ==
    \A k \in attested : \A j \in Pairs : privId[j] = Kid(k) <=> j = k

(***************************************************************************)
(* A signature under a kid is made with the private key that belongs to    *)
(* the public key the kid is a hash of (Sign, findPrivateKeyByID): a       *)
(* half-finished or concurrent generation never puts a kid on the private  *)
(* key of another pair.                                                    *)
(***************************************************************************)
SignsWithNamedKey ==
    \A p \in Procs : At(p, "sign") => handle[p] = pair[p]
=============================================================================
