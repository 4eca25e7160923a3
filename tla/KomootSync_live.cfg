CONSTANTS
    t1 = t1
    t2 = t2
    Tours = {t1}
    Trips = {i1, i2}
    Names = {n1}
    Statuses = {unknown}
    Unknown = unknown
    Kind <- MCMixed
    Syncs = {s1}
    Backfills = {b1}
    Views = {v1}
    Reqs = {r1}
    AppTours = {t1}
    None = None
SPECIFICATION FairSpec
PROPERTIES EditsReachKomoot DeletesReachKomoot
