SPECIFICATION FairSpec

CONSTANTS
    Events = {1, 2, 3, 4}
    Sources = {s1, s2}
    AnySource = AnySource
    Limits = {1, 2}
    MaxTime = 1
    Zone = 1
    Naive = Naive
    NoCursor = NoCursor

INVARIANTS
    TypeOK
    WalkDescends
    NothingSkipped

PROPERTIES
    CursorIsHonest
    WalkEnds

