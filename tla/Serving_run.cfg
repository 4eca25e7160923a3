SPECIFICATION Spec
CONSTANTS
    Requests = {r1, r2}
    Files = {f1, f2}
    MaxTime = 1
    TTL = 0
    Conns = {c1}
    Capacity = 1
    BatchSize = 2
    MaxRecords = 3
    MaxKills = 1
    None = None
INVARIANTS FlushKeepsAll ImportsWhatWasShown
PROPERTIES StopsClean
CHECK_DEADLOCK FALSE
