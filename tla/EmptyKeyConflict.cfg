SPECIFICATION Spec

CONSTANTS
    Procs = {p1}
    Workers = {w1}
    Events = {e1, e2}
    Sources = {s1}
    Keys = {k1, EmptyKey, NoKey}
    NoKey = NoKey
    EmptyKey = EmptyKey
    NoEvent = NoEvent
    NoSource = NoSource
    QueueSize = 1
    HasTarget = FALSE
    HasRetention = FALSE
    Retention = 0
    MaxTime = 0
    Faults = {}

SYMMETRY Symmetry

INVARIANTS
    ProvidedKeyIsReplayed

CHECK_DEADLOCK FALSE
