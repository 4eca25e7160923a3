SPECIFICATION Spec
CONSTANTS
    recorded = recorded
    planned = planned
    Trips <- MCTrips
    Recorded <- MCRecorded
    tag = tag
    other = other
    Tags <- MCTags
    coll = coll
    Colls <- MCColls
    Present <- MCPresent
    Tracks = {k1}
    Names = {n1, n2}
    Shares = {s1}
    Owners = {o1, o2}
    Creators = {o3}
    Clients = {v1}
    MaxTime = 4
    Horizon = 1
    Lasts <- MCLasts
    Visits = {q1, q2}
    Ttl = 3
    RefreshAfter = 2
    FailureLimit = 2
    Lockout = 2
    Patience = 1
    Listers = {l1, l2}
    Others = {o4}
    KomootIds = {t1, t2}
    PageSize = 1
    MinGap = 1
    Backoffs = {1, 2}
    MaxSlot = 4
    Exports = {x1}
    MinKept = 2
    Retention = 1
    MaxVersion = 1
    MaxWork = 3
    Never = Never
    None = None
SYMMETRY IdSymmetry
INVARIANTS ShowsWhatWasCovered GuessesArePaced LivesWhileUsed
    ListsWhatStayed CanGoBack
PROPERTIES NeverReopens Throttled
CHECK_DEADLOCK FALSE
