# A formal model of go-r2ps-service

go-r2ps-service is the server side of a remote wallet key service.  A client
authenticates a second factor (an OPAQUE password, or a FIDO2 credential), gets
a session, and uses it to generate and use keys in an HSM, and to obtain, revoke
and suspend attestations whose status is published in token status lists.

This directory holds TLA+ modules that model the stateful parts of the server,
TLC configurations that check them on small instances, and theorems, checked by
TLAPS, that hold for every value of the constants.  `PROJECT.json` maps every
definition to the lines it models, and lists runs, hazards, findings and
theorems.

    tlc -config MCTwoFactor_gate.cfg MCTwoFactor      # a run
    tlapm TwoFactorProofs.tla                         # proofs

## 1. The system

| Part | Source | State | Operations |
|---|---|---|---|
| Dispatcher, OPAQUE flows | `internal/service/dispatcher.go` | none of its own; keeps session pointers across calls | registration, evaluate, finalize, 2fa_change, 1FA and 2FA services, cleanup goroutine |
| Session store | `internal/pake/session.go` | map of sessions behind a mutex | Create, Get, MarkVerified, Delete, CleanExpired |
| Attempt counter | `internal/pake/counter.go` | failures and lock time per client and context | Check, RecordFailure, RecordSuccess |
| OPAQUE server | `internal/pake/opaque.go` | key material, new at every start | evaluate, finalize, fake records |
| Record stores | `dispatcher.go`, `internal/store` | one record per client and context, in memory or in MongoDB | GetRecord, PutRecord |
| FIDO2 flows | `internal/service/fido2.go`, `internal/webauthn` | credentials with signature counters; challenges are stateless tokens | registration, challenge, finalize |
| Signature activation | `internal/service/sad.go` | the task bound to a session | ValidateSAD |
| HSM backend | `internal/hsm/pkcs11.go` | a channel of PKCS#11 sessions; the token's key objects | GenerateECKey, Sign, ECDH, ListKeys, Close |
| HSM handlers | `internal/service/handlers.go` | the public key store | keygen, sign, ECDH, list |
| Attestation handlers | `internal/service/eudiw_handlers.go` | index counters, statuses, indices per client | WKA, WIA, revoke, suspend |
| Admin API | `internal/admin/admin.go` | the same store | allocate an index, set a status |
| Status list | `internal/statuslist/statuslist.go` | reads statuses | ServeHTTP |
| Server process | `cmd/server/main.go` | keys made at start, two HTTP servers, deferred Close calls | start, requests and their deadline, `/readyz`, shutdown |
| Client library | `pkg/client/client.go` | the server's key, a session id and key | NewClient, Register, Authenticate, CallService |

Every HTTP request runs in a goroutine of its own.  The shared objects protect
single calls with a mutex, so what interleaves is the *sequence* of calls that a
handler makes: Get and later MarkVerified, AllocateIndex and later RecordWUA,
the read of a signature counter and its later update.  Session pointers outlive
the map entry they came from.  The cleanup goroutine, the clock, other requests
and (for MongoDB) other failures come in between.

What is hard here, and what would make each part correct:

* **Sessions.**  A gate that lets requests through must only see sessions that
  were proved, whatever other finalize, cleanup or expiry happens between two
  calls; sessions never come back once closed and none is leaked.
* **Lockout.**  Failures are counted at finalize and looked at in evaluate;
  wrong passwords must reach the count, and nothing but a served lockout or a
  proof of the account's own password may lower it (5 says where this fails).
* **Pool.**  No PKCS#11 session is used by two requests or lost on a timeout or
  error path; nobody waits for good; shutdown closes everything.
* **Attestations.**  Allocation, recording and signing fail and crash
  separately; a signed token must remain revocable, by its owner only.
* **Keys.**  A pair is generated under a temporary id and renamed in two steps;
  a kid must never name another pair's private key.
* **FIDO2.**  The server remembers no challenge; a session still has to be
  opened by an assertion over a challenge issued to the same account.
* **Status list.**  Two-bit packing, byte boundaries and gaps.
* **Client library.**  Requests and answers are lost or late and the server
  restarts between two exchanges; what the client believes about its session
  must be what the server has, and the transport may lock nobody out.
* **Shutdown.**  Close calls are deferred and run in reverse order, while
  requests may be between the HSM and the store, and the HSM may hang.

## 2. Modules

| Module | Models | Extends |
|---|---|---|
| `WallClock` | the clock (external) | |
| `AttemptCounter` | `counter.go` | `WallClock` |
| `SessionStore` | `session.go` | `WallClock` |
| `SessionLifecycle` | abstract: what a session promises | |
| `TwoFactor` | the OPAQUE dispatcher, composing the two above | `AttemptCounter`, `SessionStore` |
| `Fido2` | FIDO2 flows, challenge tokens, SAD | `AttemptCounter` |
| `ClientLibrary` | `client.go` and its transport, composed with the dispatcher | `TwoFactor` |
| `HsmPool` | the session pool and its Close | |
| `ServerProcess` | `main.go`: requests between HSM and store, the admin server, shutdown | `HsmPool` |
| `HsmKeys` | key objects: generation, signing, and the keys that attestations name | |
| `Attestation` | attestation handlers, admin, lifecycle store | |
| `StatusList` | the published bits | |
| `TwoFactorProofs`, `TwoFactorRefinement`, `ClientLibraryProofs`, `Fido2Proofs`, `ServerProcessProofs` (with the pool), `HsmKeysProofs`, `AttestationProofs`, `StatusListProofs` | theorems | the module they are about; `ClientLibraryProofs` also `TwoFactorRefinement`, and that `TwoFactorProofs` |
| `MC...` | symmetry sets and constant values for TLC | the module they check |

**Granularity.**  A step is one call into shared state, with the local work up
to the next one.  In `TwoFactor`, `pc[p]` names the call that goroutine p makes
next, `req[p]` the decoded request and `ptr[p]` the session pointer it holds;
`session` are the objects and `stored` the ids in the map, so an object that was
removed can still be used through a pointer.  Reads and writes of `Verified`
through a pointer without the mutex are steps of their own, so both outcomes of
that race are behaviours.

**Composition.**  `ClientLibrary` and `ServerProcess` add variables and let every
step be a step of the component below, of the part above, or of both; that they
implement `TwoFactor` and `HsmPool` is proved, so the theorems about these hold
in the composed systems.  In `ClientLibrary` a client object has at most one
exchange under way (`stage`), `by` is the goroutine that serves it, and `late`
are the requests that the client gave up on and that may still arrive.  `trusts`
is the boot whose signing key the object knows: an answer of another boot does
not verify.  An Authenticate is two exchanges, between which the client computes
KE3, which fails when the password is not that of the record (`GenerateKE3`).
`wrong` is a history variable, on which no step depends: the wrong passwords that
users of the library have tried, per account, since a right one or a restart.
In `ServerProcess` a request is at the HSM (`state`), or at the store (`db`:
between two calls, or in one), or at neither; a key generation goes from one to
the other.

**Data.**  A password stands for the key material derived from it: a KE3 is the
password it was computed with, for one session, or NoPassword.  A fake record
(unknown client, store error, record of an earlier boot) is a session that no
password can answer.  A challenge stands for its token, a credential id for its
key pair, a task for the set of hashes it parses to (a task whose references all
fail to parse binds nothing), a byte of the status list for the set of its one
bits.  Random values that the code draws anew (session ids, challenges, the
temporary ids of key pairs) are assumed never to coincide.  JWS, JWE, CBOR and JSON are left out; where decoding may fail the handler
may take its error return at any time.

**Integers.**  `Wrap` is the product of `session_duration` and `time.Second` in
a signed integer of 2 * DurationLimit values.

**Failures.**  In `Attestation` and `HsmKeys` every database or PKCS#11 call may
fail, a database call may also fail after it took effect, and the process may
stop between any two steps.  In `HsmPool` and `ServerProcess` contexts expire,
HSM calls may hang, store calls may fail, and `srv.Shutdown` may time out.  In
`ClientLibrary` the transport loses requests and answers and delays requests, and
the server may restart at any moment.

## 3. Runs

TLC takes at most about three minutes for each.  Symmetry is used only where no
liveness is checked.

| Run | Bounds | Result |
|---|---|---|
| `gate` | 2 requests at a time, all 6 types, 1 client in 2 contexts, 1 session, 2 failures lock, durations absent and overflowing, one tick of the clock, which ends sessions and lockouts, 1 restart with records in MongoDB, after it one request at a time, fair | 1.2 million: types, no nil pointer is followed, verified only by a proof, the gate admits only proved sessions of its context, an expired session is handed to nobody, a session outlives session_ttl for no duration, keeps to `SessionLifecycle` and is not leaked; a failure count falls only by a served lockout or a finalize in the counter's name that answered the session it names |
| `process` | 2 handles, 2 requests and a probe, 1 admin request, fair | 128 thousand: handles are neither shared nor lost; what a drained shutdown waited for meets neither a closed pool nor a closed store; deadlines end waits even when the HSM hangs, all waits end while it answers; after the signal main gets to its Close calls although the HSM hangs |
| `client` | 2 objects of one account, 3 calls, 2 sessions, 2 passwords, 2 goroutines, one tick, 1 restart with records in MongoDB | 487 thousand: a session that an object holds is its own and proved, and usable until it expires; the failures counted are at most the wrong passwords tried; a registration that succeeds belongs to one boot; two sessions, built at the same time, are private until Create and keep to `SessionLifecycle` through a restart |
| `attestation` | 2 clients, 2 requests at a time of all kinds, admin, 1 index per category | 145 thousand: slots are used once; signed tokens have an entry and one owner; only that owner or an admin changes their status, and only an admin makes one valid again; a revocation in which no update failed leaves no earlier token unrevoked, but for those set since by a concurrent suspension or an admin |
| `status_list` | 6 indices, so two bytes, all gaps | 5 thousand: the list reads back as the store |
| `fido2` | requests of all kinds on 2 accounts, 2 at a time with 1 challenge or 1 at a time with 2 (`OneAtATime`), counters 0..1, a task that names one hash as it is and one by its SHA-256 | 2.0 million: sessions are opened, and failures forgiven, only by an assertion for the account over the challenge of its token; a stored counter falls only between two assertions at the same time; a token is good for its TTL less at most a second |
| `hsm_keys` | 3 requests at a time, 3 key pairs, 1 restart | 410 thousand: published, confirmed or attested kids name exactly their private key, and signatures use it |
| `forgiveness` | 1 request at a time, 1 client in 2 contexts, 2 sessions | violated, see 5 |
| `wrong_password` | 1 object, 3 calls, 2 passwords, 2 failures lock, no lockout ends | violated, see 5 |
| `restart` | 1 request, 1 restart | violated, see 5 |
| `pool_probe` | 1 handle, 1 request and a probe, fair | violated, see 5 |
| `attest_skipped` | 1 client, 2 requests at a time, 1 index | violated, see 5 |

**Why these bounds.**  The races of this code are between two handlers, or one
handler and the cleanup, the clock or a restart; two goroutines on one session
reach them all (a second finalize deletes what the first has in hand).  Two
contexts are needed because the gate compares contexts and because a counter
belongs to one; one session, finalized repeatedly, accumulates failures.  A
restart may come between any two steps of `gate`; after it that run goes on with
one request at a time (the constraint `OneAtATimeAfterRestart`), so that an old
session id or a record of the old boot still meets every handler.  Two sessions,
and two requests at once after a restart, are those of `client`, where every
request, late or not, is one of the library's; for any requests they
are covered by the theorems.  The clock goes past
the expiry of a session and the end of a lockout (one tick, at any
moment, does both).  MaxGauge and MaxRefused bound
how many finalize requests are *accepted*; a request that has started always
runs to its end.  One index in each of the two categories makes revokeAll
go through both of its loops; loops over several slots are covered by the
theorem `RevocationComplete`, which is about any number.  Three calls of the
library are enough for a registration and two authentications, or an
authentication that is repeated while the first is still on its way, on two
objects of one account.  Two requests on two handles, with the probe, fill the
pool and queue.  Two challenges let a request mix the token of one with an
assertion over the other, which takes no second goroutine.  Six list entries fill a byte and a half.

**Fairness.**  `TwoFactor!Fairness`: every step a goroutine can make is made, the
cleanup ticker keeps firing and time passes.  No handler step waits for another,
so weak fairness is what the Go scheduler gives.  `HsmPool!TimersAndScheduler`:
deadlines fire and runnable goroutines run; `Acquire` is strongly fair because
the runtime queues the receivers of a channel in order of arrival.  That PKCS#11
calls return is *not* assumed; it is the premise of `AcquireEnds` only.
`FairProcessSpec` adds that main goes on: Shutdown's timer fires, the store's
Disconnect returns, and the channel is closed.  CloseSession and Finalize call
the HSM, so nothing is assumed of them, nor of the requests and the admin
server.  Deadlock is not checked for the pool and the process, since the process
ends.

## 4. Proofs

All theorems hold for arbitrary sets of clients, requests, sessions, handles,
keys and indices, and arbitrary limits, under the assumptions on constants that
the modules name (for example that `NoSession` is not a session id).

* `TwoFactorProofs`.  TypeOK and PointersValid are inductive together
  (`TypeAndPointers`).  `GateInvariant` adds VerifiedOnlyByProof and
  GateAdmitsOnlyProven.  The second needs the first when the gate reads Verified,
  and the first has a conjunct about goroutines on their way to MarkVerified,
  because that acts on what AuthFinalize found some steps earlier.
  From it come `VerifiedByProof`, `GateSound`, `LifetimeCapped` and the action
  properties `ExpiryFinal` and `CountFallsForCause`.  The latter says no more than
  the code does: the finalize that lowers a count was sent in its name and answered
  some session.  `OwnSessionsSuffice` says what is missing: as long as every
  finalize names a session of its own client and context, ForgivenOnlyForCause,
  which the run `forgiveness` refutes, holds too.
* `TwoFactorRefinement`.  `Refinement`: the detailed specification implements
  `SessionLifecycle`.  The mapping needs PrivateUntilCreate, which in turn needs
  that a pointer that is not nil points to an allocated object; both are part of
  `RefinementInvariant` (`SessionsPrivate` states the first).
* `ClientLibraryProofs`.  `ImplementsDispatcher`: clients that use the library
  are clients of `TwoFactor`, so its theorems hold for them (`LibraryPassesGate`).
  `RegistrationOneBoot` needs `OneBoot`, that the record of a registration under
  way was made with the boot the object trusts.  `RightPasswordNeverLocks`
  needs `FitInvariant`: every KE3 under way, with the client, late or in a handler,
  fits the session it names, so AuthFinalize never fails and no failure is counted
  (`NoneCounted`, which is why the run `wrong_password` finds what it finds); for
  this the answer that names a session has to come from the goroutine that made it.

  `HeldProven` and `HeldUsable` come from `HeldInvariant`, which follows a session
  from evaluate to the object that uses it.  `Built`: what evaluate is building is
  for the account of its request.  `Marked`: between MarkVerified and the answer
  the session is verified and in the map until it expires, whatever cleanup and
  other finalize requests do meanwhile.  `Knows`: the same of the answer on its
  way, of the exchange under way and of the session held, as long as the boot
  that answered is the one that runs.  `Ownership`: of each session at most one
  object has it, or is about to get it from the goroutine that serves it.  The
  last needs PrivateUntilCreate (a session under construction is not one that
  somebody has already), and "in the map until it expires" needs FitInvariant
  (no finalize fails, and only one that fails deletes a session early).  So
  HeldSessionUsable is about clients that use the library, which never send a KE3
  that does not fit.
* `Fido2Proofs`.  What a goroutine knows was found out some steps earlier, and the
  stores, the clock and other requests have moved on; `FlowInv` says which of it
  still holds.  The label determines the kind of request (`RequestAt`); a token
  that was accepted was issued to the account and is never reissued (`TokenAt`);
  past the verification the credential is still registered and the counter was
  accepted against the value that was stored then, which need not be the one
  stored now (`AssertionAt`); iat is the second of the token's making, and that is
  not in the future (`TokensDated`).  It rests on two facts that outlive any step:
  an issued token stays as it is, and a registered credential stays registered.
  From it `SessionsOpenedByAssertion`, `ForgivenForCause`, `FallsOnlyInRace`
  and `TokensLiveTheirTTL`, and `TypesKept` from its first part.  AbsenceAssumption, that None is neither a counter nor a request, stands
  for the nil of Go.
* `ServerProcessProofs`.  Of the pool, `PoolExclusive` and `ShutdownGraceful`:
  NeverShared and NeverLost need each other, and `Accounted` carries the
  bookkeeping across the closing of the channel.  `ImplementsPool`: the process
  is a user of `HsmPool`, so `PoolSafeInProcess`.  `StoreClosedLast`
  from `Quiet`, which says that a Shutdown that was not forced leaves no request at the HSM or at the store.
* `HsmKeysProofs`.  `PublishedKeysSign`, `AttestedKeysSign` and `KidNamesKey`, from the invariant
  that a private key object only ever has ids of its own pair and that a
  generation found the object of its own pair.
* `AttestationProofs`.  `SlotsSound`, `StatusChangesOwned` and
  `RevocationComplete`.  Every slot that anybody knows of is below the counter,
  and `Progress` says how far the slot of an attestation at work has come.
  `RevokeInv` follows the two loops of a revocation: a slot that it answers for
  is revoked, or its turn is still to come.
* `StatusListProofs`.  `ListFaithful`, for every length of the list and every gap.
  The length of the list comes from the greatest index with an entry, so the
  inductive invariant says that there is one (`HasGreatest`); then `Positions` and
  `BitsApart` show that byte and offset determine the index and that the two bits
  of one entry are never those of another.

Only model-checked: the violations, and the four liveness properties NoSessionLeak,
ShutdownEnds, AcquireEnds and DeadlineEndsWait, which need fairness and so ENABLED,
for which the prover has no rules.  Every invariant and every action property of a
passing run is also stated by a theorem.

## 5. Findings

* `forgiveness`.  A finalize finds its session by the id alone and resets the
  counter of the client and context that the request names.  A success on a
  session of one account clears the failures of another, during its lockout too,
  so the lockout does not bound wrong guesses as ADR 006 says it does.
* `wrong_password`.  The client library finds out from the answer to evaluate that
  a password is wrong and stops, as OPAQUE clients do.  Only a finalize is counted,
  so wrong passwords do not lead to the lockout that README.md and ADR 006 describe.
* `restart`.  `main` generates new OPAQUE key material at every start, so the
  records that MongoDB keeps cannot be used after a restart.
* `pool_probe`.  `/readyz` waits for a PKCS#11 session without a deadline, which
  ADR 003's context-aware acquisition is meant to prevent.
* `attest_skipped`.  A revocation answers "wallet instance revoked" although the
  update of a status failed and was skipped.

Further behaviour of the code that the models have and that no run is about:

* a finalize does not look at the lock, so a handshake opened before the last
  failure can end a lockout early by succeeding, and one that fails counts beyond
  the maximum and starts the lockout again;
* the cleanup subtracts from the ActiveSessions gauge sessions that were never
  added to it (abandoned handshakes), so it does not track the live sessions as
  ADR 008 says; nothing in the program reads it;
* a session_duration that overflows may give a session shorter than the maximum,
  or one that is expired when it is created;
* the gate compares the session's context but not its client;
* Close leaves the sessions of requests open that are still at work when
  `srv.Shutdown` timed out, and their release panics on the closed channel, so
  ADR 003's "All sessions are closed on shutdown" holds for a shutdown that
  drained; Logout is called on a session that was closed before;
* recoverMiddleware panics again "so the process exits", but net/http recovers
  the panic of a handler, so the process goes on;
* main does not wait for the Shutdown of the admin server, so an admin request
  may meet a closed store;
* the client library does not compare the nonce of an answer with that of its
  request;
* a client object knows one server key, and the server makes a new one at every
  start, so after a restart every call fails until the object is replaced;
* a suspension replaces a revocation if it comes later, and admin reads show a
  status that could not be read as valid;
* the status list URI in a token ends in idx/1000, while ServeHTTP publishes one
  list per category;
* of two FIDO2 assertions at the same time the lower counter may be stored last;
  a failed update of the counter is ignored, so that the same count is accepted
  again by the next request, and a count of zero is accepted for as long as zero
  is stored (CounterFallsOnlyInRace is about the stored value only);
* a task whose references all fail to parse binds its session to no hash;
  a second registration of a credential id is never looked at; a registration
  without a token needs an empty challenge in its client data;
* a confirmed key may be missing from the public key store, and ListKeys may list
  a pair whose private key was not renamed and so cannot sign;
* a gap in the status list reads as valid, but no token refers to it;
* RecordUsage has no caller, and cmd/server does not configure FIDO2.

## 6. Not modelled

Authentication middleware, JOSE and ECDH helpers and the audit log keep no state
between requests; the protocol types that the models do not have are data without
behaviour.  The operating mode and the configuration are read once, before the
server listens: a role that is absent takes whole handlers away, and a start that
fails ends in os.Exit before there is any state.  The reads of the admin API
change nothing.  The cryptography is
assumed to be sound.  Metrics other than ActiveSessions are write-only (the
FIDO2 flow's increment of that gauge is left out too).  Nonces are not
remembered by the server, so a request may be repeated; in the models a client
may send equal requests any number of times.
The checks of Process before routing (signature, version, nonce, iat) change no
state and are what makes a request a member of `Request`.

## 7. Plan

Done, in this order: the OPAQUE core with its stores, its safety, its
refinement and liveness; the pool; attestations and the status list; FIDO2 with
SAD; HSM keys; their proofs; the client library composed with the dispatcher; the
server process composed with the pool; revocation against concurrent
suspensions; the keys that attestations name; the signature counter and the
lifetime of challenge tokens; the lockout against what the documents say of it.

After these, the proofs of what an object of the library holds, of the FIDO2 flows
and of the status list, so that only liveness is left to TLC alone.

Next:

1. Safety lemmas behind the liveness properties: which steps a goroutine has left
   (a measure that every step of its own lowers) and that no step of another
   goroutine disables them.  With weak fairness these are what NoSessionLeak and
   DeadlineEndsWait rest on.
2. An abstract specification of the FIDO2 sessions like `SessionLifecycle`, and a
   refinement from `FlowInv`.
