CONSTANTS
    Users = {u1}
    Deletable = {u1}
    Venues = {v1}
    Custom = custom
    CheckInIds = {c1, c2, c3}
    VoteIds = {w1, w2}
    Sessions = {s1, s2}
    None = None
    Overlap <- AllButCastPairs
    LastDay = 1
    MidnightSplits = TRUE
SYMMETRY Interchangeable
SPECIFICATION Spec
INVARIANTS
    UpvotesExact
    VoteNeedsCheckIn
CHECK_DEADLOCK FALSE
