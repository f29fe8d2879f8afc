SPECIFICATION Spec

CONSTANTS
    Procs = {p1}
    Workers = {w1, w2}
    Events = {e1, e2, e3, e4}
    Sources = {s1}
    Keys = {NoKey}
    NoKey = NoKey
    EmptyKey = EmptyKey
    NoEvent = NoEvent
    NoSource = NoSource
    QueueSize = 2
    HasTarget = TRUE
    HasRetention = TRUE
    Retention = 0
    MaxTime = 1
    Faults = {"crash", "stop", "db", "unacked", "job"}

SYMMETRY Symmetry

INVARIANTS
    TypeOK
    JobOwesResult
    ScheduledIsAccounted
    AdmittedJobFits
    StatusMatchesPosts

PROPERTIES
    StoreSpec

CHECK_DEADLOCK FALSE
