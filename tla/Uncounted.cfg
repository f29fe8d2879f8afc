SPECIFICATION Spec

SYMMETRY Symmetry

CONSTANTS
    Requests = {r1, r2}
    Ids = {x}
    None = None

INVARIANTS
    EveryRequestIsCounted

CHECK_DEADLOCK FALSE
