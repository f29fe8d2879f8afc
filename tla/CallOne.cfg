SPECIFICATION Spec

CONSTANTS
    Calls = {c1}
    MaxAttempts = 4
    Jitter = {80, 120}
    BadStatus = {s404, s500}
    OkStatus = OkStatus
    NoResult = NoResult
    None = None

INVARIANTS
    TypeOK
    NoSendAfterSuccess
    OutcomeTellsHistory
    TargetSawIt

PROPERTIES
    BackoffGrows
    CallWindsDown
    JobSpec

CHECK_DEADLOCK FALSE
