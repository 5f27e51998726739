CONSTANTS
    Users = {u1, u2, u3}
    Sessions = {s1, s2}
    None = None
    Races = {}
    MaxTime = 1
    MaxPosts = 2
SYMMETRY Symmetry
SPECIFICATION Spec
INVARIANTS OneOwner
PROPERTIES Membership ClosedForGood AlbumFrozen
CHECK_DEADLOCK FALSE
