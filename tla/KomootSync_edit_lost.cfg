CONSTANTS
    t1 = t1
    t2 = t2
    Tours = {t1}
    Trips = {i1}
    Names = {n1, n2}
    Statuses = {unknown}
    Unknown = unknown
    Kind <- MCMixed
    Syncs = {s1}
    Backfills = {}
    Views = {}
    Reqs = {r1}
    AppTours = {}
    None = None
SPECIFICATION Spec
INVARIANT NoEditLost
