CONSTANTS
    Users = {u1, u2}
    Deletable = {u2}
    Venues = {v1}
    Custom = custom
    CheckInIds = {c1, c2}
    VoteIds = {w1, w2}
    Sessions = {s1, s2}
    None = None
    Overlap <- DeletionOnly
    LastDay = 1
    MidnightSplits = FALSE
SYMMETRY Interchangeable
SPECIFICATION Spec
INVARIANTS
    CheckInCountExact
    OncePerVnDay
PROPERTIES
    ImplementsLedger
