CONSTANTS
    Procs = {p1}
    Clients = {alice}
    Contexts = {ctxA, ctxB}
    SessionIds = {s1, s2}
    Passwords = {pw}
    NoSession = NoSession
    NoPassword = NoPassword
    NoRequest = NoRequest
    Unallocated = Unallocated
    RequestTypes = {"registration", "evaluate", "finalize"}
    Durations = {0}
    MaxFails = 2
    Lockout = 2
    SessionTTL = 1
    Second = 2
    DurationLimit = 8
    Persistent = TRUE
    MaxRestarts = 0
    MaxGauge = 2
    MaxTime = 1
SPECIFICATION Spec
PROPERTIES ForgivenOnlyForCause
