CONSTANTS
    Procs = {p1, p2}
    Clients = {alice}
    Contexts = {ctxA, ctxB}
    RequestTypes = {"regChallenge", "register", "authChallenge", "finalize", "sign"}
    Challenges = {ch1, ch2}
    Credentials = {key1}
    MaxCount = 1
    SessionIds = {s1}
    Tasks <- SomeTasks
    Hashes = {1, 2, 3}
    Commitment <- HashOf
    TokenTTL = 1
    SessionTTL = 1
    Second = 2
    MaxFails = 1
    MaxRefused = 1
    Lockout = 2
    MaxTime = 2
    None = None
    Closed = Closed
SPECIFICATION Spec
CONSTRAINT OneAtATime
SYMMETRY Symmetry
INVARIANTS Fido2TypeOK
PROPERTIES SessionOpenedByAssertion FailuresForgivenForCause CounterFallsOnlyInRace TokenLifetime
