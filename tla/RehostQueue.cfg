CONSTANTS
    x = x
    y = y
    Urls = {x, y}
    Venues = {v1, v2}
    Edits <- MCEdits
    Procs = {p1}
    Requests = {r1}
    None = None
    Concurrency = 1
    Clustered = FALSE
    Races = FALSE
    MaxEdits = 3
    MaxFaults = 1
SPECIFICATION FairSpec
INVARIANTS ImagesTracked WorkedOnce EditsKept
PROPERTIES PendingEnds
CHECK_DEADLOCK FALSE
