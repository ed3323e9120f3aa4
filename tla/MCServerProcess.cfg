CONSTANTS
    Handles = {h1, h2}
    Callers = {c1, c2, probe}
    Probes = {probe}
    Admins = {a1}
    NoHandle = NoHandle
SPECIFICATION FairProcessSpec
CHECK_DEADLOCK FALSE
INVARIANTS ProcessTypeOK NeverShared NeverLost GracefulShutdown StoreOutlivesRequests
PROPERTIES DeadlineEndsWait AcquireEnds ShutdownEnds
