CONSTANTS
    t1 = t1
    t2 = t2
    Tours = {t1}
    Trips = {i1, i2}
    Names = {n1, n2}
    Statuses = {public, unknown}
    Unknown = unknown
    Kind <- MCRecorded
    Syncs = {s1, s2}
    Backfills = {}
    Views = {}
    Reqs = {r1}
    AppTours = {t1}
    None = None
SPECIFICATION Spec
SYMMETRY MCSymmetry
INVARIANTS
    LinkConsistent
    OneSync
    OwnersWordKept
    NoResurrection
PROPERTIES KeepsLifecycle NeverDeletesLiveTour
