SPECIFICATION FairSpec

CONSTANTS
    Procs = {p1}
    Workers = {w1}
    Events = {e1}
    Sources = {s1}
    Keys = {NoKey}
    NoKey = NoKey
    EmptyKey = EmptyKey
    NoEvent = NoEvent
    NoSource = NoSource
    QueueSize = 1
    HasTarget = TRUE
    HasRetention = FALSE
    Retention = 0
    MaxTime = 0
    Faults = {"stop"}

PROPERTIES
    ScheduledSettles

CHECK_DEADLOCK FALSE
