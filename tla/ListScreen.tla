----------------------------- MODULE ListScreen -----------------------------
(***************************************************************************)
(* The list screen of the single-page application (US-41, US-90): filters, *)
(* the region map they follow, the two lists read for them, what is        *)
(* selected, and the bar acting on it.  A read answers late or never, the  *)
(* filters move on meanwhile, and a panel may close under its request.     *)
(* What one change of a signal sets off (memos, effects, restarted reads)  *)
(* is one step, as no event is handled before it.                          *)
(***************************************************************************)
EXTENDS Screens, SequencesExt

CONSTANTS
    Order,      \* every item, in the order the table lists them
    SortOf,     \* "recorded", "planned", "collection" or "track"
    Views,      \* regions the map may show
    Within,     \* the items a region overlaps
    PageSize,   \* PAGE_SIZE
    Urls,       \* the filters the screen is opened with
    MaxMoves    \* bound: the owner's clicks, and settlings of the map

Items == ToSet(Order)
Kinds == {"recorded", "planned", "collections"}
Actions == {"tag", "activity", "link"}

ASSUME ListAssumption ==
    /\ SortOf \in [Items -> {"recorded", "planned", "collection", "track"}]
    /\ Within \in [Views -> SUBSET Items] /\ None \notin Views
    /\ PageSize \in Nat \ {0} /\ MaxMoves \in Nat
    /\ Urls \subseteq [kinds : (SUBSET Kinds) \ {{}}, marked : {FALSE}, tagged : BOOLEAN,
                       bbox : Views \cup {None}, followed : {TRUE}]

VARIABLES
    filters,      \* [kinds, marked, tagged, bbox, followed]
    view,         \* where the map settled: [bbox, fitted], else None
    trips,        \* the trips' resource: [key, read, asked, answer]
    collections,  \* the collections'
    picked,       \* the selection
    panel,        \* the open panel's action, else None
    page,
    sent,         \* the bar's requests: [no, action, ids, at]
    marks,        \* the archive: items tagged, typed or linked
    astray        \* lists read before a change they are not read anew for

list == <<filters, view, trips, collections, picked, panel, page, sent, marks, astray, events>>

Move == events < MaxMoves /\ events' = events + 1

KindOf(i) ==
    IF SortOf[i] \in {"collection", "track"} THEN "collections" ELSE SortOf[i]
IsTrip(i) == SortOf[i] \in {"recorded", "planned"}

TripsOnly(f) == f.kinds \ {"collections"}

----------------------------------------------------------------------------
\* The queries, and what the archive answers them with: each row with its
\* mark.  `marked` is a filter on every kind, `tagged` one on trips alone.

TripQuery(f) ==
    IF TripsOnly(f) = {} THEN None
    ELSE [kinds |-> TripsOnly(f), marked |-> f.marked, tagged |-> f.tagged, bbox |-> f.bbox]
CollectionQuery(f) ==
    IF "collections" \notin f.kinds THEN None
    ELSE [kinds |-> {"collections"}, marked |-> f.marked, tagged |-> FALSE, bbox |-> f.bbox]

Matching(q) ==
    {i \in Items : /\ KindOf(i) \in q.kinds
                   /\ q.marked \/ q.tagged => i \in marks
                   /\ q.bbox = None \/ i \in Within[q.bbox]}
Answer(q) ==
    [kinds |-> q.kinds, failed |-> FALSE, rows |-> {<<i, i \in marks>> : i \in Matching(q)}]
NoAnswer(q) == [kinds |-> q.kinds, failed |-> TRUE, rows |-> {}]

\* use_resource: a new query drops the read under way and keeps the last
\* answer, but for no query, which answers at once.
Requery(r, q) ==
    IF q = r.key THEN r
    ELSE [key |-> q, read |-> IF q = None THEN None ELSE r.read,
          asked |-> q # None, answer |-> None]
Restart(r) == [r EXCEPT !.asked = r.key # None, !.answer = None]

\* Mutant: an answer for other kinds is listed as well.
AnyRead(f) == trips.read
\* read_for
ReadFor(f) ==
    IF trips.read # None /\ trips.read.kinds = TripsOnly(f) THEN trips.read ELSE None

Unread == (TripsOnly(filters) # {} /\ ReadFor(filters) = None)
          \/ ("collections" \in filters.kinds /\ collections.read = None)
\* A failure in either is the list's, which shows it instead.
NotLoaded == (TripsOnly(filters) # {} /\ ReadFor(filters).failed)
          \/ ("collections" \in filters.kinds /\ collections.read.failed)
Listed ==
    IF Unread \/ NotLoaded THEN {}
    ELSE (IF TripsOnly(filters) # {} THEN ReadFor(filters).rows ELSE {})
         \cup (IF "collections" \in filters.kinds THEN collections.read.rows ELSE {})

\* The table's pages count trips and collections, not the tracks folded
\* into them.
Entries ==
    LET all == Listed IN {i \in Items : SortOf[i] # "track" /\ \E m \in BOOLEAN : <<i, m>> \in all}
Rows == LET on == Entries IN SelectSeq(Order, LAMBDA i : i \in on)
PageCount == IF Len(Rows) = 0 THEN 1 ELSE (Len(Rows) + PageSize - 1) \div PageSize
Shown == IF page < PageCount THEN page ELSE PageCount - 1
PageRows ==
    LET rows == Rows
        current == Shown
    IN {i \in Entries : \E k \in DOMAIN rows : rows[k] = i /\ (k - 1) \div PageSize = current}

----------------------------------------------------------------------------
\* The selection and its actions.

Pairs(sel) ==
    LET n(s) == Cardinality({i \in sel : SortOf[i] = s})
    IN n("recorded") * n("planned") + (n("recorded") + n("planned")) * n("track")

Active(action, sel) ==
    CASE action = "link" -> Pairs(sel) > 0 /\ \A i \in sel : SortOf[i] # "collection"
      [] action = "tag" -> sel # {} /\ (\/ \A i \in sel : IsTrip(i)
                                        \/ \A i \in sel : SortOf[i] = "collection")
      [] action = "activity" -> sel # {} /\ \A i \in sel : IsTrip(i)

RetainKinds(sel, f) == {i \in sel : KindOf(i) \in f.kinds}

StaysOpen(open, sel) == IF open # None /\ Active(open, sel) THEN open ELSE None

\* What a request marks: linking the ends that are no recorded trip, the
\* others every item; and the lists that show it.
Marked(s) == {i \in s.ids : s.action = "link" => SortOf[i] # "recorded"}
Touched(s) == {IF IsTrip(i) THEN "trips" ELSE "collections" : i \in Marked(s)}

\* Of handlers dropped: the requests the archive may carry out yet, and the
\* lists showing what it has carried out.
Outstanding(dropped) == {[s EXCEPT !.at = "unheard"] : s \in {s \in dropped : s.at # "applied"}}
Unseen(dropped) == UNION {Touched(s) : s \in {s \in dropped : s.at = "applied"}}
Drop(dropped) ==
    /\ sent' = (sent \ dropped) \cup Outstanding(dropped)
    /\ astray' = astray \cup Unseen(dropped)

\* A panel closed drops the handlers waiting in it.
Selects(sel, open) ==
    /\ picked' = sel
    /\ panel' = StaysOpen(open, sel)
    /\ Drop({s \in sent : s.action # panel'})

\* The signal is written: the reads, the page and the selection follow.
Filter(f) ==
    /\ Move
    /\ filters' = f
    /\ trips' = Requery(trips, TripQuery(f))
    /\ collections' = Requery(collections, CollectionQuery(f))
    /\ page' = IF f = filters THEN page ELSE 0
    /\ Selects(RetainKinds(picked, f), panel)
    /\ UNCHANGED marks

----------------------------------------------------------------------------
\* FilterBar

Toggle(k) ==
    /\ filters.kinds # {k}
    /\ Filter([filters EXCEPT !.kinds = IF k \in @ THEN @ \ {k} ELSE @ \cup {k}])
    /\ UNCHANGED view

FilterMarked == Filter([filters EXCEPT !.marked = ~@]) /\ UNCHANGED view

\* Offered only with a kind of trip on, and kept without one.
FilterTagged ==
    /\ TripsOnly(filters) # {}
    /\ Filter([filters EXCEPT !.tagged = ~@])
    /\ UNCHANGED view

Cleared(f) ==
    [f EXCEPT !.marked = FALSE, !.bbox = None, !.followed = FALSE,
              !.tagged = IF TripsOnly(f) # {} THEN FALSE ELSE @]

Clear == Filter(Cleared(filters)) /\ UNCHANGED view

----------------------------------------------------------------------------
\* RegionFilter

\* The map settles: once fitted to the items, or with a region already
\* chosen, the region follows it.
Settle(v, fitted) ==
    /\ view # None /\ view.fitted => fitted
    /\ view' = [bbox |-> v, fitted |-> fitted]
    /\ Filter(IF filters.followed /\ (filters.bbox # None \/ fitted)
              THEN [filters EXCEPT !.bbox = v] ELSE filters)

FilterToMap(on) ==
    /\ view # None
    /\ Filter([filters EXCEPT !.bbox = IF on THEN view.bbox ELSE None, !.followed = on])
    /\ UNCHANGED view

----------------------------------------------------------------------------
\* The reads: asked, answered by the archive as it stands and taken in, or
\* failed.

ReadTrips ==
    /\ trips.asked
    /\ \/ trips' = [trips EXCEPT !.asked = FALSE, !.answer = Answer(trips.key)]
       \/ trips' = [trips EXCEPT !.asked = FALSE, !.read = NoAnswer(trips.key), !.answer = None]
    /\ astray' = astray \ {"trips"}
    /\ UNCHANGED <<filters, view, collections, picked, panel, page, sent, marks, events>>

ReadCollections ==
    /\ collections.asked
    /\ \/ collections' = [collections EXCEPT !.asked = FALSE, !.answer = Answer(collections.key)]
       \/ collections' = [collections EXCEPT !.asked = FALSE, !.read = NoAnswer(collections.key),
                                     !.answer = None]
    /\ astray' = astray \ {"collections"}
    /\ UNCHANGED <<filters, view, trips, picked, panel, page, sent, marks, events>>

ListTrips ==
    /\ trips.answer # None
    /\ trips' = [trips EXCEPT !.read = trips.answer, !.answer = None]
    /\ UNCHANGED <<filters, view, collections, picked, panel, page, sent, marks, astray, events>>

ListCollections ==
    /\ collections.answer # None
    /\ collections' = [collections EXCEPT !.read = collections.answer, !.answer = None]
    /\ UNCHANGED <<filters, view, trips, picked, panel, page, sent, marks, astray, events>>

----------------------------------------------------------------------------
\* ListTable and Pager

Turn(to) ==
    /\ Move
    /\ to \in {Shown + 1} \cup {p \in 0 .. Shown : p + 1 = Shown} /\ to < PageCount
    /\ page' = to
    /\ UNCHANGED <<filters, view, trips, collections, picked, panel, sent, marks, astray>>

\* A row of the page, or a track folded out of one of its collections.
PickOne(i) ==
    /\ Move
    /\ i \in PageRows \/ (SortOf[i] = "track" /\ \E m \in BOOLEAN : <<i, m>> \in Listed)
    /\ Selects(IF i \in picked THEN picked \ {i} ELSE picked \cup {i}, panel)
    /\ UNCHANGED <<filters, view, trips, collections, page, marks>>

PickAll ==
    /\ Move
    /\ PageRows # {}
    /\ Selects(IF PageRows \subseteq picked THEN picked \ PageRows ELSE picked \cup PageRows, panel)
    /\ UNCHANGED <<filters, view, trips, collections, page, marks>>

----------------------------------------------------------------------------
\* SelectionBar and its panels

Open(action) ==
    /\ Move
    /\ Active(action, picked)
    /\ Selects(picked, IF panel = action THEN None ELSE action)
    /\ UNCHANGED <<filters, view, trips, collections, page, marks>>

\* Confirmed in the panel, once more while the last press is unanswered too.
Send ==
    /\ Move
    /\ panel # None
    /\ sent' = sent \cup {[no |-> events, action |-> panel, ids |-> picked, at |-> "asked"]}
    /\ UNCHANGED <<filters, view, trips, collections, picked, panel, page, marks, astray>>

Apply(s) ==
    /\ s \in sent /\ s.at \in {"asked", "unheard"}
    /\ marks' = marks \cup Marked(s)
    /\ sent' = (sent \ {s}) \cup (IF s.at = "unheard" THEN {} ELSE {[s EXCEPT !.at = "applied"]})
    /\ astray' = IF s.at = "unheard" THEN astray \cup Touched(s) ELSE astray
    /\ UNCHANGED <<filters, view, trips, collections, picked, panel, page, events>>

\* What an applied action has the list read anew, by the selection now.
Renewed(action, sel) ==
    CASE action = "link" -> {"trips"} \cup {"collections" : i \in {i \in sel : SortOf[i] = "track"}}
      [] OTHER -> {IF IsTrip(i) THEN "trips" ELSE "collections" : i \in sel}

\* The answer: a tag keeps the selection, the others drop it with the panel
\* and with the handlers of what else was asked in it.
Applied(s) ==
    /\ s \in sent /\ s.at = "applied"
    /\ LET renewed == Renewed(s.action, picked)
           others == IF s.action = "tag" THEN {} ELSE sent \ {s}
       IN /\ trips' = IF "trips" \in renewed THEN Restart(trips) ELSE trips
          /\ collections' = IF "collections" \in renewed THEN Restart(collections) ELSE collections
          /\ sent' = ((sent \ {s}) \ others) \cup Outstanding(others)
          /\ astray' = astray \cup Unseen(others) \cup (Touched(s) \ renewed)
    /\ IF s.action = "tag" THEN UNCHANGED <<picked, panel>>
       ELSE picked' = {} /\ panel' = None
    /\ UNCHANGED <<filters, view, page, marks, events>>

\* Refused, or never arrived: the panel says so, and nothing is read.
NotApplied(s) ==
    /\ s \in sent /\ s.at # "applied"
    /\ sent' = sent \ {s}
    /\ UNCHANGED <<filters, view, trips, collections, picked, panel, page, marks, astray, events>>

\* The answer is lost: the panel says so as well.
LoseAnswer(s) ==
    /\ s \in sent /\ s.at # "unheard"
    /\ Drop({s})
    /\ UNCHANGED <<filters, view, trips, collections, picked, panel, page, marks, events>>

----------------------------------------------------------------------------
Fresh(q) == [key |-> q, read |-> None, asked |-> q # None, answer |-> None]

\* The screen opens with the filters of its URL.
Opened ==
    /\ filters \in Urls
    /\ view = None
    /\ trips = Fresh(TripQuery(filters))
    /\ collections = Fresh(CollectionQuery(filters))
    /\ picked = {} /\ panel = None /\ page = 0
    /\ sent = {} /\ astray = {} /\ events = 0

ListInit == Opened /\ marks = {}

\* The screen's own steps, then those of the archive and the network.
ListClick ==
    \/ \E k \in Kinds : Toggle(k)
    \/ FilterMarked \/ FilterTagged \/ Clear
    \/ \E v \in Views, fitted \in BOOLEAN : Settle(v, fitted)
    \/ \E on \in BOOLEAN : FilterToMap(on)
    \/ ReadTrips \/ ReadCollections \/ ListTrips \/ ListCollections
    \/ \E to \in 0 .. Len(Order) : Turn(to)
    \/ \E i \in Items : PickOne(i)
    \/ PickAll
    \/ \E action \in Actions : Open(action)
    \/ Send \/ \E s \in sent : Applied(s)

ListArchive == \E s \in sent : Apply(s) \/ NotApplied(s) \/ LoseAnswer(s)

ListNext == ListClick \/ ListArchive

ListSpec == ListInit /\ [][ListNext]_list

----------------------------------------------------------------------------
\* Properties.

\* The reads have answered, and no answer to what was applied is on its way.
Quiet ==
    /\ trips.key = TripQuery(filters) /\ collections.key = CollectionQuery(filters)
    /\ Settled(trips) /\ Settled(collections) /\ ~NotLoaded
    /\ \A s \in sent : s.at # "applied"

RowsOf(q) == {row \in Listed : KindOf(row[1]) \in q.kinds}

\* No row is listed of a kind that is off; while "Filter to map" is ticked the
\* region is the map's once it fitted; and once the reads have answered the
\* list is what the archive matches with the filters set, marks included,
\* whatever was toggled, typed, moved or applied meanwhile.  Three changes are
\* out: one whose panel was closed before the answer, one whose answer was
\* lost, and a link answered after the owner unpicked its tracks, which marks
\* collections that the bar (selection_bar.rs:54) does not have read anew; each
\* only in the lists it touched, and until these are read again.
ListsWhatMatches ==
    /\ \A row \in Listed : KindOf(row[1]) \in filters.kinds
    /\ filters.followed /\ view # None /\ view.fitted => filters.bbox = view.bbox
    /\ Quiet =>
          /\ TripsOnly(filters) # {} /\ "trips" \notin astray =>
                RowsOf(TripQuery(filters)) = Answer(TripQuery(filters)).rows
          /\ "collections" \in filters.kinds \ astray =>
                RowsOf(CollectionQuery(filters)) = Answer(CollectionQuery(filters)).rows

----------------------------------------------------------------------------
(* Strengthening for the proofs.                                           *)

TripKinds == Kinds \ {"collections"}
Queries(kinds) == [kinds : kinds, marked : BOOLEAN, tagged : BOOLEAN, bbox : Views \cup {None}]
ListRead == [kinds : SUBSET Kinds, failed : BOOLEAN, rows : SUBSET (Items \X BOOLEAN)]
Queried(queries) ==
    [key : queries \cup {None}, read : ListRead \cup {None}, asked : BOOLEAN,
     answer : ListRead \cup {None}]
Requests ==
    [no : Nat, action : Actions, ids : SUBSET Items, at : {"asked", "applied", "unheard"}]

ASSUME ListApart == None \notin Actions \cup Queries(SUBSET Kinds) \cup ListRead

ListTypes ==
    /\ filters \in [kinds : SUBSET Kinds, marked : BOOLEAN, tagged : BOOLEAN,
                    bbox : Views \cup {None}, followed : BOOLEAN]
    /\ trips \in Queried(Queries(SUBSET TripKinds))
    /\ collections \in Queried(Queries({{"collections"}}))
    /\ view \in [bbox : Views, fitted : BOOLEAN] \cup {None}
    /\ picked \subseteq Items /\ panel \in Actions \cup {None}
    /\ sent \subseteq Requests /\ astray \subseteq {"trips", "collections"}

\* What was read is of the kinds it says, and asked only for a query.
OfItsKinds(answer) == answer # None => \A row \in answer.rows : KindOf(row[1]) \in answer.kinds
ReadsFit ==
    /\ OfItsKinds(trips.read) /\ OfItsKinds(trips.answer)
    /\ \A answer \in {collections.read, collections.answer} \ {None} :
          OfItsKinds(answer) /\ answer.kinds = {"collections"}
    /\ (trips.asked => trips.key # None) /\ (collections.asked => collections.key # None)

\* The bar's requests heard are of the panel open, and for items alike those
\* picked since.
Alike(action, items) ==
    /\ action = "tag" =>
          (\A i \in items : IsTrip(i)) \/ (\A i \in items : SortOf[i] = "collection")
    /\ action = "activity" => \A i \in items : IsTrip(i)
    /\ action = "link" => \A i \in items : SortOf[i] # "collection"
BarFollows ==
    /\ panel # None => Alike(panel, picked) /\ (panel # "link" => picked # {})
    /\ \A s \in sent : s.at # "unheard" =>
          panel = s.action /\ Alike(s.action, s.ids \cup picked)

\* A list is the archive's for its query or its failure, is being read, is
\* about to be for a request applied, or lacks a change it is not read for.
UpToKey(r, name) ==
    r.key # None =>
        \/ r.asked
        \/ /\ Latest(r) # None /\ Latest(r).kinds = r.key.kinds
           /\ \/ Latest(r) \in {Answer(r.key), NoAnswer(r.key)} \/ name \in astray
              \/ \E s \in sent : s.at = "applied" /\ name \in Touched(s)
ListsFollow == UpToKey(trips, "trips") /\ UpToKey(collections, "collections")

RegionFollows == filters.followed /\ view # None /\ view.fitted => filters.bbox = view.bbox

ListInductive == ListTypes /\ ReadsFit /\ BarFollows /\ ListsFollow /\ RegionFollows
=============================================================================
