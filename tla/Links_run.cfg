CONSTANTS
    r1 = r1
    r2 = r2
    rec = rec
    plan = plan
    g = g
    h = h
    None = None
    Reqs = {r1, r2}
    TrackIds = 0
    WaypointIds = 1
    MaxItem <- MCMaxItem
    Lines = {g, h}
    Recorded = {rec}
    Planned = {plan}
    MaxClicks = 2
    FollowSet <- MCFollows
SPECIFICATION Spec
INVARIANT NothingOverlooked
PROPERTIES LinksKept
SYMMETRY MCSymmetry
CHECK_DEADLOCK FALSE
