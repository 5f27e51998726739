CONSTANTS
    Users = {u1, u2}
    Deletable = {u2}
    Sessions = {s1}
    None = None
    SaveRaces = FALSE
SPECIFICATION Spec
INVARIANTS
    FollowerCountInSync
