CONSTANTS
    Clients = {alice}
    Contexts = {signing}
    alice = alice
    signing = signing
    Apps = {w1}
    Account <- OneAccount
    NoProc = NoProc
    MaxCalls = 3
    MaxTime = 1
    MaxFails = 2
    Lockout = 2
    SessionIds = {s1, s2}
    NoSession = NoSession
    Passwords = {pin, other}
    NoPassword = NoPassword
    Unallocated = Unallocated
    Procs = {p1}
    RequestTypes = {"registration", "evaluate", "finalize", "service2FA"}
    Durations = {0}
    NoRequest = NoRequest
    SessionTTL = 1
    Second = 1
    DurationLimit = 4
    Persistent = TRUE
    MaxRestarts = 0
    MaxGauge = 4
SPECIFICATION ClientSpec
INVARIANTS WrongPasswordsLock
