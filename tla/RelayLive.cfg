SPECIFICATION FairSpec

CONSTANTS
    Procs = {p1}
    Workers = {w1, w2}
    Events = {e1, e2, e3}
    Sources = {s1}
    Keys = {NoKey}
    NoKey = NoKey
    EmptyKey = EmptyKey
    NoEvent = NoEvent
    NoSource = NoSource
    QueueSize = 2
    HasTarget = TRUE
    HasRetention = TRUE
    Retention = 0
    MaxTime = 1
    Faults = {"crash", "stop", "db", "unacked", "job"}

PROPERTIES
    ScheduledEnds

CHECK_DEADLOCK FALSE
