CONSTANTS
    Handles = {h1}
    Callers = {c1, probe}
    Probes = {probe}
    NoHandle = NoHandle
SPECIFICATION FairPoolSpec
CHECK_DEADLOCK FALSE
PROPERTIES ProbeEndsWait
