-------------------------------- MODULE Browser --------------------------------
(***************************************************************************)
(* The single-page application around its list, its import and its trip   *)
(* screen (main.rs, Route): one screen is shown at a time, opened afresh,  *)
(* and what a screen left behind was asking goes on at the archive.  The   *)
(* pages' links and the proposals are followed on their own: they meet     *)
(* neither what the other screens keep nor what they ask.                  *)
(***************************************************************************)
EXTENDS ImportScreen, ListScreen, DetailScreen, LinkScreen

VARIABLE route  \* "list", "import", "trip", "links", or "elsewhere"

listing == <<filters, view, trips, collections, picked, panel, page, sent, marks, astray>>
detailing == <<at, trip, photos, cached, controls, job, fields, stored, gone, untold>>
linkage == <<joined, place, section, overlays, listed, selected, counted, press, missed, unread>>
vars == <<route, importing, listing, detailing, linkage, events>>

BrowserInit ==
    /\ route \in {"list", "import", "trip", "links"}
    /\ ImportInit /\ ListInit /\ DetailInit /\ LinkScreenInit
    /\ route = "links" \/ \A p \in Linkable : joined[p] = "proposed"
    /\ route = "links" => at = CHOOSE t \in Trips : TRUE

\* Shown afresh, with what it asks first; what the list asked last time it
\* was shown may be carried out yet.
ListShown ==
    /\ route' = "list"
    /\ filters' \in Urls
    /\ view' = None
    /\ trips' = Fresh(TripQuery(filters')) /\ collections' = Fresh(CollectionQuery(filters'))
    /\ picked' = {} /\ panel' = None /\ page' = 0
    /\ astray' = {}
    /\ UNCHANGED <<sent, marks>>

OpenList ==
    /\ route = "elsewhere" /\ Event
    /\ ListShown
    /\ UNCHANGED <<importing, detailing>>

OpenImport ==
    /\ route = "elsewhere" /\ Event
    /\ route' = "import"
    /\ UNCHANGED <<importing, listing, detailing>>

OpenTrip ==
    /\ route = "elsewhere" /\ Event
    /\ route' = "trip" /\ at' \in Trips
    /\ UNCHANGED <<trip, photos, cached, controls, job, fields, stored, gone, untold>>
    /\ UNCHANGED <<importing, listing>>

LeaveList ==
    /\ route = "list"
    /\ route' = "elsewhere"
    /\ filters' \in Urls /\ view' = None
    /\ trips' = Fresh(None) /\ collections' = Fresh(None)
    /\ picked' = {} /\ panel' = None /\ page' = 0
    /\ sent' = Outstanding(sent) /\ astray' = {}
    /\ UNCHANGED <<marks, importing, detailing, events>>

\* For another page, or for the page of the trip or the collection made.
LeaveImport ==
    /\ route = "import"
    /\ route' = "elsewhere"
    /\ Leave \/ \E t \in Tasks : Opens(t)
    /\ UNCHANGED <<listing, detailing, events>>

LeaveTrip ==
    /\ route = "trip"
    /\ route' = "elsewhere"
    /\ Away
    /\ UNCHANGED <<importing, listing>>

\* navigator().replace(TripList)
TripDeleted ==
    /\ route = "trip"
    /\ \E j \in Jobs : Deleted(j)
    /\ ListShown
    /\ UNCHANGED importing

OnImport ==
    /\ route = "import"
    /\ ImportClick \/ ImportHandler
    /\ UNCHANGED <<route, listing, detailing>>

OnList == route = "list" /\ ListClick /\ UNCHANGED <<route, importing, detailing>>
OnTrip == route = "trip" /\ DetailClick /\ UNCHANGED <<route, importing, listing>>

\* The archive's side, and the network's, whatever is shown.
Archive ==
    \/ ImportArchive /\ UNCHANGED <<route, listing, detailing>>
    \/ ListArchive /\ UNCHANGED <<route, importing, detailing>>
    \/ DetailArchive /\ UNCHANGED <<route, importing, listing>>

BrowserNext ==
    \/ /\ route # "links"
       /\ \/ OpenList \/ OpenImport \/ OpenTrip
          \/ LeaveList \/ LeaveImport \/ LeaveTrip \/ TripDeleted
          \/ OnImport \/ OnList \/ OnTrip \/ Archive
       /\ UNCHANGED linkage
    \/ route = "links" /\ LinkScreenNext /\ UNCHANGED <<route, importing, listing, detailing>>

BrowserSpec == BrowserInit /\ [][BrowserNext]_vars

----------------------------------------------------------------------------
\* Strengthening for the proofs: a trip screen not shown keeps nothing.
TripsAway == route # "trip" =>
    /\ trip = Opening /\ photos = Opening /\ cached = None /\ controls = Idle
    /\ Working = {}
=============================================================================
