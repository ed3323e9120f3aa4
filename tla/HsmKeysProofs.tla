---------------------------- MODULE HsmKeysProofs ----------------------------
(***************************************************************************)
(* Proofs about HsmKeys, for any number of requests, key pairs and         *)
(* restarts.  PublishedCanSign is not inductive: it needs that a private   *)
(* key object never carries an id that belongs to another pair, and that   *)
(* the object a generation found is the one of its own pair.               *)
(***************************************************************************)
EXTENDS HsmKeys, TLAPS

\* A private key object has no id, or the temporary id or the kid of its pair.
OwnIds == \A j \in Pairs : privId[j] \in {NoId, TempId(j), Kid(j)}

FoundOwn == \A p \in Procs : pc[p] \in {"renamePriv", "sign"} => handle[p] = pair[p]

Renamed == /\ \A p \in Procs : pc[p] \in {"publish", "confirm"} => privId[pair[p]] = Kid(pair[p])
           /\ \A k \in published \cup confirmed \cup attested : privId[k] = Kid(k)
           /\ \A p \in Procs : \A k \in resolved[p] : privId[k] = Kid(k)

KeysInv == KeysTypeOK /\ OwnIds /\ FoundOwn /\ Renamed

\* Ids of different pairs, and the two ids of one pair, are different.
LEMMA IdsDiffer ==
    ASSUME NEW j \in Pairs, NEW k \in Pairs
    PROVE  /\ TempId(j) = TempId(k) => j = k
           /\ Kid(j) = Kid(k) => j = k
           /\ TempId(j) # Kid(k)
           /\ NoId # TempId(j) /\ NoId # Kid(j)
           /\ TempId(j) \in Ids /\ Kid(j) \in Ids
BY DEF TempId, Kid, NoId, Ids

\* The initial state satisfies the invariant.
LEMMA KeysInitial == Init => KeysInv
BY KeysAssumption
   DEF Init, Idle, KeysInv, KeysTypeOK, OwnIds, FoundOwn, Renamed, At, Labels

\* Every step preserves the invariant, one case per action.
LEMMA KeysInvariance == KeysInv /\ [Next]_vars => KeysInv'
<1> SUFFICES ASSUME KeysInv, [Next]_vars
             PROVE  KeysInv'
  OBVIOUS
<1> USE KeysAssumption DEF KeysInv, KeysTypeOK, Labels, At, Goto, tokenVars, jwkVars
<1>1. ASSUME NEW p \in Procs, GenerateKeyPair(p)
      PROVE  KeysInv'
  <2>1. PICK k \in Pairs :
           /\ privId[k] = NoId
           /\ pubId' = [pubId EXCEPT ![k] = TempId(k)]
           /\ privId' = [privId EXCEPT ![k] = TempId(k)]
           /\ \/ /\ pair' = [pair EXCEPT ![p] = k]
                 /\ Goto(p, "renamePub")
              \/ UNCHANGED <<pair, pc>>
    BY <1>1 DEF GenerateKeyPair
  <2>2. TempId(k) \in Ids
    BY IdsDiffer
  <2>3. At(p, "idle") /\ UNCHANGED <<published, confirmed, restarts, handle, jwkVars>>
    BY <1>1 DEF GenerateKeyPair
  <2>4. KeysTypeOK'
    BY <2>1, <2>2, <2>3
  <2>5. OwnIds' /\ FoundOwn'
    BY <2>1, <2>3 DEF OwnIds, FoundOwn
  <2>6. Renamed'
    BY <2>1, <2>3, IdsDiffer DEF Renamed
  <2>7. QED
    BY <2>4, <2>5, <2>6
<1>2. ASSUME NEW p \in Procs, RenamePublic(p)
      PROVE  KeysInv'
  <2>1. Kid(pair[p]) \in Ids
    BY <1>2, IdsDiffer DEF RenamePublic
  <2>2. QED
    BY <1>2, <2>1 DEF RenamePublic, Answer, OwnIds, FoundOwn, Renamed
<1>3. ASSUME NEW p \in Procs, FindPrivate(p)
      PROVE  KeysInv'
  <2>1. pair[p] \in Pairs
    BY <1>3 DEF FindPrivate
  <2>2. \A j \in Pairs : privId[j] = TempId(pair[p]) => j = pair[p]
    BY <2>1, IdsDiffer DEF OwnIds
  <2>3. KeysTypeOK' /\ OwnIds' /\ Renamed'
    BY <1>3 DEF FindPrivate, Found, Answer, OwnIds, Renamed
  <2>4. FoundOwn'
    BY <1>3, <2>2 DEF FindPrivate, Found, Answer, FoundOwn
  <2>5. QED
    BY <2>3, <2>4
<1>4. ASSUME NEW p \in Procs, RenamePrivate(p)
      PROVE  KeysInv'
  <2>1. handle[p] = pair[p] /\ pair[p] \in Pairs
    BY <1>4 DEF RenamePrivate, FoundOwn
  <2>2. Kid(pair[p]) \in Ids
    BY <2>1, IdsDiffer
  <2>3. KeysTypeOK'
    BY <1>4, <2>1, <2>2 DEF RenamePrivate, Answer
  <2>4. OwnIds' /\ FoundOwn'
    BY <1>4, <2>1 DEF RenamePrivate, Answer, OwnIds, FoundOwn
  <2>5. Renamed'
    BY <1>4, <2>1 DEF RenamePrivate, Answer, Renamed
  <2>6. QED
    BY <2>3, <2>4, <2>5
<1>5. ASSUME NEW p \in Procs, PutPublicKey(p)
      PROVE  KeysInv'
  BY <1>5 DEF PutPublicKey, OwnIds, FoundOwn, Renamed
<1>6. ASSUME NEW p \in Procs, Confirm(p)
      PROVE  KeysInv'
  BY <1>6 DEF Confirm, Answer, OwnIds, FoundOwn, Renamed
<1>7. ASSUME NEW p \in Procs, StartSign(p)
      PROVE  KeysInv'
  BY <1>7 DEF StartSign, OwnIds, FoundOwn, Renamed
<1>8. ASSUME NEW p \in Procs, FindKey(p)
      PROVE  KeysInv'
  <2>1. pair[p] \in Pairs
    BY <1>8 DEF FindKey
  <2>2. \A j \in Pairs : privId[j] = Kid(pair[p]) => j = pair[p]
    BY <2>1, IdsDiffer DEF OwnIds
  <2>3. KeysTypeOK' /\ OwnIds' /\ Renamed'
    BY <1>8 DEF FindKey, Found, Answer, OwnIds, Renamed
  <2>4. FoundOwn'
    BY <1>8, <2>2 DEF FindKey, Found, Answer, FoundOwn
  <2>5. QED
    BY <2>3, <2>4
<1>9. ASSUME NEW p \in Procs, Sign(p)
      PROVE  KeysInv'
  BY <1>9 DEF Sign, Answer, OwnIds, FoundOwn, Renamed
<1>10. CASE Restart
  BY <1>10 DEF Restart, OwnIds, FoundOwn, Renamed
<1>11. CASE UNCHANGED vars
  BY <1>11 DEF vars, OwnIds, FoundOwn, Renamed
<1>12. ASSUME NEW p \in Procs, StartAttest(p)
      PROVE  KeysInv'
  BY <1>12 DEF StartAttest, OwnIds, FoundOwn, Renamed
<1>13. ASSUME NEW p \in Procs, ResolveKey(p)
      PROVE  KeysInv'
  BY <1>13 DEF ResolveKey, OwnIds, FoundOwn, Renamed
<1>14. ASSUME NEW p \in Procs, Attest(p)
      PROVE  KeysInv'
  BY <1>14 DEF Attest, OwnIds, FoundOwn, Renamed
<1>15. QED
  BY <1>1, <1>2, <1>3, <1>4, <1>5, <1>6, <1>7, <1>8, <1>9, <1>10, <1>11, <1>12, <1>13, <1>14
     DEF Next, Step

\* The invariant implies the properties of kids.
LEMMA KeysInvImplies ==
    KeysInv => KeysTypeOK /\ PublishedCanSign /\ AttestedCanSign /\ SignsWithNamedKey
<1> SUFFICES ASSUME KeysInv
             PROVE  KeysTypeOK /\ PublishedCanSign /\ AttestedCanSign /\ SignsWithNamedKey
  OBVIOUS
<1>1. ASSUME NEW k \in published \cup confirmed \cup attested, NEW j \in Pairs
      PROVE  privId[j] = Kid(k) <=> j = k
  <2>1. k \in Pairs /\ privId[k] = Kid(k)
    BY DEF KeysInv, KeysTypeOK, Renamed
  <2>2. QED
    BY <2>1, IdsDiffer DEF KeysInv, OwnIds
<1>2. SignsWithNamedKey
  BY DEF KeysInv, FoundOwn, SignsWithNamedKey, At
<1>3. QED
  BY <1>1, <1>2 DEF KeysInv, PublishedCanSign, AttestedCanSign

(***************************************************************************)
(* For every number of concurrent requests, key pairs and restarts, and    *)
(* whichever PKCS#11 or store calls fail, the kid of a published or       *)
(* confirmed key is the id of exactly the private key of its pair          *)
(* (GenerateECKey, ECKeygenHandler).                                       *)
(***************************************************************************)
THEOREM PublishedKeysSign == Spec => []PublishedCanSign
<1>1. QED
  BY KeysInitial, KeysInvariance, KeysInvImplies, PTL DEF Spec

(***************************************************************************)
(* Likewise, every signature under a kid is made with the private key that *)
(* the kid names (Sign), and the variables keep their types.               *)
(***************************************************************************)
THEOREM KidNamesKey == Spec => [](KeysTypeOK /\ SignsWithNamedKey)
<1>1. QED
  BY KeysInitial, KeysInvariance, KeysInvImplies, PTL DEF Spec

(***************************************************************************)
(* And every key in a signed attestation has its private key on the HSM    *)
(* under its kid, whatever has happened to the public key store since      *)
(* (WKAHandler, WIAHandler).                                               *)
(***************************************************************************)
THEOREM AttestedKeysSign == Spec => []AttestedCanSign
<1>1. QED
  BY KeysInitial, KeysInvariance, KeysInvImplies, PTL DEF Spec
=============================================================================
