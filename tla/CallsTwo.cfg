SPECIFICATION FairSpec

CONSTANTS
    Calls = {c1, c2}
    MaxAttempts = 2
    Jitter = {80, 120}
    BadStatus = {s500}
    OkStatus = OkStatus
    NoResult = NoResult
    None = None

INVARIANTS
    CountersAgree
    ClientOutlivesCalls

PROPERTIES
    CallEnds
    ShutdownEnds

CHECK_DEADLOCK FALSE
