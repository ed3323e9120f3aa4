CONSTANTS
    Procs = {p1}
    Clients = {alice}
    Contexts = {ctxA}
    SessionIds = {s1}
    Passwords = {pw}
    NoSession = NoSession
    NoPassword = NoPassword
    NoRequest = NoRequest
    Unallocated = Unallocated
    RequestTypes = {"registration", "evaluate", "finalize"}
    Durations = {0}
    MaxFails = 2
    Lockout = 2
    SessionTTL = 1
    Second = 2
    DurationLimit = 8
    Persistent = TRUE
    MaxRestarts = 1
    MaxGauge = 2
    MaxTime = 1
SPECIFICATION Spec
INVARIANTS StoredRecordsUsable
