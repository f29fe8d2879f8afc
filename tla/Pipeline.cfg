SPECIFICATION Spec

SYMMETRY Symmetry

CONSTANTS
    Requests = {r1, r2}
    Ids = {x}
    None = None

INVARIANTS
    OneIdPerRequest
    GatesGuard
    RowsAreAnswered
    CountersTellReplies

CHECK_DEADLOCK FALSE
