CONSTANTS
    r1 = r1
    r2 = r2
    g = g
    h = h
    None = None
    New = New
    Skip = Skip
    Reqs = {r1, r2}
    MaxColl = 1
    TrackIds = 2
    WaypointIds = 1
    MaxItem <- MCMaxItem
    MaxUpload = 2
    Lines = {g, h}
SPECIFICATION Spec
INVARIANTS ImportedOnce
PROPERTIES LosesOnlyWhatWasShown KeepsItemTable
SYMMETRY MCSymmetry
CHECK_DEADLOCK FALSE
