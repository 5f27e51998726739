CONSTANTS
    Users = {u1, u2, u3}
    Deletable = {u3}
    Sessions = {s1, s2}
    None = None
    SaveRaces = FALSE
SPECIFICATION FairSpec
INVARIANTS
    DriftOnlyByDeletion
PROPERTIES
    RequestsEnd
    ImplementsLedger
