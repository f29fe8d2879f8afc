SPECIFICATION Spec

CONSTANTS
    Procs = {p1, p2}
    Workers = {w1}
    Events = {e1, e2, e3}
    Sources = {s1}
    Keys = {k1, NoKey}
    NoKey = NoKey
    EmptyKey = EmptyKey
    NoEvent = NoEvent
    NoSource = NoSource
    QueueSize = 1
    HasTarget = TRUE
    HasRetention = TRUE
    Retention = 0
    MaxTime = 1
    Faults = {"crash", "stop", "db", "unacked", "job"}

SYMMETRY Symmetry

INVARIANTS
    OneJobPerEvent
    HeldJobIsFresh

PROPERTIES
    NoSecondJob

CHECK_DEADLOCK FALSE
