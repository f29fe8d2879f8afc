SPECIFICATION Spec

CONSTANTS
    Procs = {p1, p2}
    Workers = {w1}
    Events = {e1, e2, e3}
    Sources = {s1, s2}
    Keys = {k1, EmptyKey, NoKey}
    NoKey = NoKey
    EmptyKey = EmptyKey
    NoEvent = NoEvent
    NoSource = NoSource
    QueueSize = 1
    HasTarget = FALSE
    HasRetention = TRUE
    Retention = 0
    MaxTime = 1
    Faults = {"crash", "unacked"}

SYMMETRY Symmetry

INVARIANTS
    UniqueKey
    ReplyNamesOriginal
    RepliesAgree
    ConflictIsExplained

PROPERTIES
    StoreSpec

CHECK_DEADLOCK FALSE
