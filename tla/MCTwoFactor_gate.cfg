CONSTANTS
    Procs = {p1, p2}
    Clients = {alice}
    Contexts = {ctxA, ctxB}
    SessionIds = {s1}
    Passwords = {pw}
    NoSession = NoSession
    NoPassword = NoPassword
    NoRequest = NoRequest
    Unallocated = Unallocated
    RequestTypes = {"registration", "evaluate", "finalize", "change", "service1FA", "service2FA"}
    Durations = {0, 6}
    MaxFails = 2
    Lockout = 1
    SessionTTL = 0
    Second = 3
    DurationLimit = 8
    Persistent = TRUE
    MaxRestarts = 1
    MaxGauge = 2
    MaxTime = 1
SPECIFICATION FairSpec
INVARIANTS TypeOK PointersValid VerifiedOnlyByProof GateAdmitsOnlyProven LifetimeWithinTTL
PROPERTIES ExpiredSessionAdmitsNobody ImplementsLifecycle CountFallsOnlyForCause NoSessionLeak
CONSTRAINT OneAtATimeAfterRestart
