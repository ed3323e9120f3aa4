CONSTANTS
    Clients = {alice}
    Contexts = {signing}
    alice = alice
    signing = signing
    Apps = {w1, w2}
    Account <- OneAccount
    NoProc = NoProc
    MaxCalls = 3
    MaxTime = 1
    MaxFails = 2
    Lockout = 1
    SessionIds = {s1, s2}
    NoSession = NoSession
    Passwords = {pin, other}
    NoPassword = NoPassword
    Unallocated = Unallocated
    Procs = {p1, p2}
    RequestTypes = {"registration", "evaluate", "finalize", "service2FA"}
    Durations = {0}
    NoRequest = NoRequest
    SessionTTL = 0
    Second = 1
    DurationLimit = 4
    Persistent = TRUE
    MaxRestarts = 1
    MaxGauge = 4
SYMMETRY Symmetry
SPECIFICATION ClientSpec
INVARIANTS ClientTypeOK PrivateUntilCreate HeldSessionProven HeldSessionUsable LockoutOnlyByWrongPassword RegisteredWithOneBoot
PROPERTIES ImplementsLifecycle
