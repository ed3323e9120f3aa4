----------------------------- MODULE SessionStore -----------------------------
(***************************************************************************)
(* internal/pake/session.go: the in-memory session store.                  *)
(*                                                                         *)
(* The Go map holds POINTERS: a handler that called Get keeps the session  *)
(* object after Delete or CleanExpired dropped it from the map.  So the    *)
(* state is two variables: session[id], the object once it exists, and     *)
(* stored, the identifiers the map holds.  Each method runs under the      *)
(* store's mutex, so each is one step of its caller.  An identifier is 32  *)
(* random bytes, so one is never drawn twice: the already-exists error of  *)
(* Create cannot occur.                                                    *)
(***************************************************************************)
EXTENDS WallClock, FiniteSets

CONSTANTS SessionIds,     \* bound: the sessions ever opened
          NoSession,      \* the nil pointer, and an absent session id
          Passwords,
          NoPassword,     \* no password at all
          Unallocated     \* no session object yet

(***************************************************************************)
(* mac stands for ClientMAC, the authenticator the server expects in KE3:  *)
(* the password whose holder can compute it for this session's key         *)
(* exchange, or NoPassword when nobody can.                                *)
(***************************************************************************)
Session == [client : Clients, context : Contexts,
            mac : Passwords \cup {NoPassword},
            expires : Int, verified : BOOLEAN]

ASSUME StoreAssumption == /\ IsFiniteSet(SessionIds)
                          /\ NoSession \notin SessionIds
                          /\ NoPassword \notin Passwords
                          /\ Unallocated \notin Session

VARIABLES session, stored

Exists(id) == session[id] # Unallocated

StoreTypeOK == /\ session \in [SessionIds -> Session \cup {Unallocated}]
               /\ stored \in SUBSET SessionIds

StoreInit == /\ session = [id \in SessionIds |-> Unallocated]
             /\ stored = {}

\* now.After(ExpiresAt): a session is still good at the instant it expires.
Expired(id) == now > session[id].expires

Create(id) == stored' = stored \cup {id}

GetIgnoresExpiry(id) == IF id \in stored THEN id ELSE NoSession

\* Get: the pointer, or nil when the id is unknown or the session expired.
Get(id) == IF id \in stored /\ ~Expired(id) THEN id ELSE NoSession

MarkVerifiedReinserts(id) ==
    /\ session' = [session EXCEPT ![id].verified = TRUE]
    /\ stored' = stored \cup {id}

\* MarkVerified looks the id up again, without regard to expiry; an id that is
\* no longer in the map is the "session not found" error and changes nothing.
MarkVerified(id) ==
    /\ session' = IF id \in stored
                  THEN [session EXCEPT ![id].verified = TRUE]
                  ELSE session
    /\ stored' = stored

Delete(id) == stored' = stored \ {id}

ExpiredVerifiedIds == {id \in stored : Expired(id) /\ session[id].verified}

ExpiringIds == {id \in stored : now >= session[id].expires}

ExpiredIds == {id \in stored : Expired(id)}

CleanExpired == stored' = stored \ ExpiredIds
=============================================================================
