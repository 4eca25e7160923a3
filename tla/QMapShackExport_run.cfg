SPECIFICATION Spec
CONSTANTS
    trip = trip
    track = track
    waypoint = waypoint
    m1 = m1
    m2 = m2
    HasTrack = FALSE
    Keys <- MCKeys
    Order <- MCOrder
    KindOf <- MCKindOf
    Foreign = {theirs}
    Metas = {m1, m2}
    Geoms = {g1, g2}
    Names = {"a", "b"}
    PathOf <- MCPathOf
    OwnerNote = OwnerNote
    MaxFolder = 3
    MaxChange = 2
    MaxOwner = 1
    MaxBeside = 1
    None = None
SYMMETRY Geometries
INVARIANT CleanRunMirrors
PROPERTIES NothingForeign RemovesOnlyTheGone
CHECK_DEADLOCK FALSE
