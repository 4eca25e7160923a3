SPECIFICATION FiguresSpec
CONSTANTS
  Piece = 2
  Rules <- MCRules
  Rule <- MCRule
  Starts <- MCStarts
  Corners <- MCCorners
  Grids = {1, 2, 3}
  Looked <- MCLooked
  Places <- MCPlaces
  Plans <- MCPlans
  Times <- MCTimes
  Zones <- MCZones
  Offsets = {0, 1, 2}
  Distances = {0, 1, 2, 3, 4, 5, 6, 7, 8}
  Elevations = {0, 1, 2, 3, 4, 5}
  MaxTrip = 4
  MaxTrack = 4
  MaxProfile = 6
  Unknown = Unknown
  WidestOffset = 2
INVARIANTS JudgesWhatIsNear ReadsTheClock NoRiseOverlooked
CHECK_DEADLOCK FALSE
