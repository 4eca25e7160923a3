SPECIFICATION BrowserSpec
CONSTANTS
  r = r
  p = p
  c = c
  k = k
  west = west
  t1 = t1
  t2 = t2
  j1 = j1
  j2 = j2
  Tasks = {t1, t2}
  MaxChoices = 2
  MaxParked = 3
  MaxMade = 2
  MaxPicks = 1
  Batches = 2
  Order <- MCOrder
  SortOf <- MCSort
  Views = {west}
  Within <- MCWithin
  PageSize = 2
  Urls <- MCUrls
  Trips = {1, 2}
  Files = {1, 2}
  Jobs = {j1, j2}
  Fields = {"name", "activity"}
  MaxValue = 1
  MaxStored = 2
  MaxEvents = 4
  MaxMoves = 4
  la = la
  lb = lb
  lx = lx
  TripPages = {la, lb}
  ItemPages = {lx}
  Linkable <- MCPairs
  Presses = {j1, j2}
  MaxClicks = 3
  None = None
SYMMETRY Sym
INVARIANTS ImportedOnce NothingLeftParked ListsWhatMatches GalleryIsCurrent
    MapFollowsLinks ProposalsAreCurrent
PROPERTIES SavesOnlyAltered
CHECK_DEADLOCK FALSE
