----------------------------- MODULE KomootSync -----------------------------
(***************************************************************************)
(* The archive's synchronisation with Komoot (US-20, US-22 to US-26,       *)
(* US-35): a "Sync now" run pushes pending edits, pushes pending deletes   *)
(* and pulls the selected tours, while the owner edits and deletes trips,  *)
(* a review screen or a backfill process works beside it, Komoot's own app *)
(* changes tours, and any of these may stop between two steps.             *)
(*                                                                         *)
(* A step is one database transaction or one Komoot call, the grain at     *)
(* which the awaits of src/src/server/komoot_sync.rs interleave.  A trip's *)
(* "name" stands for everything an edit sends beside the privacy.          *)
(***************************************************************************)
EXTENDS Naturals

CONSTANTS
    Tours,        \* Komoot tour ids, never reused by Komoot
    Trips,        \* trip ids, AUTOINCREMENT: handed out once (bounds imports)
    Names,        \* contents a trip can have
    Statuses,     \* privacy values, Unknown among them
    Unknown,      \* a Komoot status the archive cannot map, never sent back
    Kind,         \* which listing a tour appears in: recorded or planned
    Syncs,        \* concurrent POST /api/komoot/sync requests
    Backfills,    \* concurrent komoot_backfill processes
    Views,        \* concurrent GET /api/komoot/sync requests
    Reqs,         \* concurrent edit and delete requests
    AppTours,     \* tours the owner also changes in Komoot's own app
    None

Procs == Syncs \cup Backfills \cup Views
Settable == Statuses \ {Unknown}
Content == [name : Names, priv : Statuses]
Item == [trip : Trips \cup {None}, name : Names, priv : Statuses]
Link == [trip : Trips \cup {None}, edit : BOOLEAN, del : BOOLEAN,
         priv : Statuses]
Call == [op : {"update", "delete"}, tour : Tours, item : Item \cup {None}]
\* Of one trip, any of its fields; of a selection, the content (its activity).
Edit == {q \in [op : {"edit"}, trips : SUBSET Trips, name : Names \cup {None},
                priv : Settable \cup {None}] :
            (q.priv = None /\ q.name # None) \/ \E i \in Trips : q.trips = {i}}
Delete == [op : {"delete"}, trip : Trips]
Phase == {"idle", "edits", "push", "clear", "delete", "unlink", "list",
          "refresh", "dedup", "pull", "insert"}

ASSUME ProcsDisjoint ==
    /\ Syncs \cap Backfills = {}
    /\ Syncs \cap Views = {}
    /\ Backfills \cap Views = {}
ASSUME StatusAssumption == Unknown \in Statuses
ASSUME KindAssumption == Kind \in [Tours -> {"recorded", "planned"}]
ASSUME AppAssumption == AppTours \subseteq Tours
ASSUME NoneAssumption ==
    None \notin Tours \cup Trips \cup Names \cup Statuses \cup Content
                \cup Item \cup Link \cup Call \cup Edit \cup Delete

VARIABLES
    trip,     \* trip table: name of each existing trip, else None
    used,     \* trip ids handed out so far
    link,     \* trip_komoot_link: the row of each tour, else None
    komoot,   \* the tours as Komoot holds them, None once gone
    syncing,  \* AppState.sync_in_progress
    pc, todo, cur, snap,  \* per process: phase, work left, tour, rows read
    late,     \* per sync slot: a Komoot call that outlived its request
    req,      \* per request slot: an edit or delete past its flag check
    sent,     \* history: content last agreed with Komoot, per tour
    choice,   \* history: privacy the owner chose, until Komoot's app changed it
    origin,   \* history: the tour each trip was imported from
    deleted,  \* history: tours whose trip the owner deleted
    raced,    \* history: tours edited or called while a push held them
    outdated  \* history: tours pushed beside a listing from before the push

db == <<trip, used, link>>
procs == <<pc, todo, cur, snap>>
history == <<sent, choice, origin, deleted, raced, outdated>>
vars == <<trip, used, link, komoot, syncing, pc, todo, cur, snap, late, req,
          sent, choice, origin, deleted, raced, outdated>>

Empty == [t \in Tours |-> None]

Init ==
    /\ trip = [i \in Trips |-> None]
    /\ used = {}
    /\ link = Empty
    /\ komoot \in [Tours -> Content]
    /\ syncing = FALSE
    /\ pc = [p \in Procs |-> "idle"]
    /\ todo = [p \in Procs |-> {}]
    /\ cur = [p \in Procs |-> None]
    /\ snap = [p \in Procs |-> Empty]
    /\ late = [s \in Syncs |-> None]
    /\ req = [r \in Reqs |-> None]
    /\ sent = Empty
    /\ choice = Empty
    /\ origin = [i \in Trips |-> None]
    /\ deleted = {}
    /\ raced = {}
    /\ outdated = {}

Live(t) == link[t] # None /\ link[t].trip # None
Orphaned(t) == link[t] # None /\ link[t].trip = None
Linked == {t \in Tours : link[t] # None}

\* The process p moves to phase ph with work w, tour t and rows s.
Become(p, ph, w, t, s) ==
    /\ pc' = [pc EXCEPT ![p] = ph]
    /\ todo' = [todo EXCEPT ![p] = w]
    /\ cur' = [cur EXCEPT ![p] = t]
    /\ snap' = [snap EXCEPT ![p] = s]

\* The process ends; a sync run's SyncGuard is dropped with it.
End(p) ==
    /\ Become(p, "idle", {}, None, Empty)
    /\ syncing' = IF p \in Syncs THEN FALSE ELSE syncing

-----------------------------------------------------------------------------
(* Push phase of a "Sync now" run.                                         *)

\* Mutant: the flag is set without looking at it.
FreeAnyway == TRUE
\* try_start_sync's compare_exchange finds no run under way.
Free == ~syncing

\* handle_sync claims the flag by compare_exchange, or answers 409.
StartSync(s) ==
    /\ pc[s] = "idle"
    /\ Free
    /\ syncing' = TRUE
    /\ Become(s, "edits", {}, None, Empty)
    /\ UNCHANGED <<db, komoot, late, req, history>>

\* list_edit_pending: an inner join on trip.
EditPending(t) == Live(t) /\ link[t].edit

\* push_pending_edits reads every pending edit of an existing trip.
ListEdits(s) ==
    LET pending == {t \in Tours : EditPending(t)} IN
    /\ pc[s] = "edits"
    /\ Become(s, "push", pending, None,
              [t \in Tours |->
                  IF t \in pending
                  THEN [trip |-> link[t].trip, name |-> trip[link[t].trip],
                        priv |-> link[t].priv]
                  ELSE None])
    /\ UNCHANGED <<db, komoot, syncing, late, req, history>>

\* What a tour holds after update_tour(it): an unknown privacy is not sent.
Updated(t, it) ==
    [name |-> it.name,
     priv |-> IF it.priv = Unknown THEN komoot[t].priv ELSE it.priv]

\* A review screen or a backfill has yet to apply a listing of the tour.
Listed(t) == \E p \in Backfills \cup Views :
    pc[p] \in {"list", "refresh"} /\ snap[p][t] # None

\* push_one_edit: Komoot takes the update; it refuses one of a lost tour.
PushEdit(s, t) ==
    /\ pc[s] = "push"
    /\ t \in todo[s]
    /\ komoot[t] # None
    /\ komoot' = [komoot EXCEPT ![t] = Updated(t, snap[s][t])]
    /\ sent' = [sent EXCEPT ![t] = [name |-> snap[s][t].name,
                                    priv |-> snap[s][t].priv]]
    /\ outdated' = IF Listed(t) THEN outdated \cup {t} ELSE outdated
    /\ Become(s, "clear", todo[s], t, snap[s])
    /\ UNCHANGED <<db, syncing, late, req, choice, origin, deleted, raced>>

\* Mutant: the flag is left set.
NotCleared(row) == row
Cleared(row) == [row EXCEPT !.edit = FALSE]

\* clear_edit_pending, by trip id and without looking at what was pushed.
ClearEdit(s) ==
    LET t == cur[s] IN
    /\ pc[s] = "clear"
    /\ link' = [u \in Tours |->
                  IF link[u] # None /\ link[u].trip = snap[s][t].trip
                  THEN Cleared(link[u])
                  ELSE link[u]]
    /\ Become(s, "push", todo[s] \ {t}, None, [snap[s] EXCEPT ![t] = None])
    /\ UNCHANGED <<trip, used, komoot, syncing, late, req, history>>

\* Mutant: one query for everything pending.
AnyPending(t) == link[t] # None /\ (link[t].del \/ link[t].edit)
\* Mutant: joins trip, as list_edit_pending does.
DeletePendingJoined(t) == Live(t) /\ link[t].del
\* list_delete_pending.
DeletePending(t) == link[t] # None /\ link[t].del

\* Every edit is pushed: push_pending_deletes reads the tombstones.
ListDeletes(s) ==
    /\ pc[s] = "push"
    /\ todo[s] = {}
    /\ Become(s, "delete", {t \in Tours : DeletePending(t)}, None, Empty)
    /\ UNCHANGED <<db, komoot, syncing, late, req, history>>

\* delete_tour: Komoot drops the tour.  Of one it has lost it may refuse the
\* deletion, and every answer but success is an error (map_status).
PushDelete(s, t) ==
    /\ pc[s] = "delete"
    /\ t \in todo[s]
    /\ komoot' = [komoot EXCEPT ![t] = None]
    /\ Become(s, "unlink", todo[s], t, snap[s])
    /\ UNCHANGED <<db, syncing, late, req, history>>

\* delete_link: the tombstone goes once Komoot has answered.
Unlink(s) ==
    /\ pc[s] = "unlink"
    /\ link' = [link EXCEPT ![cur[s]] = None]
    /\ Become(s, "delete", todo[s] \ {cur[s]}, None, snap[s])
    /\ UNCHANGED <<trip, used, komoot, syncing, late, req, history>>

-----------------------------------------------------------------------------
(* Pull: of a sync run, of a backfill, and the review screen's listing.    *)

\* Komoot's answer to listing the tours of these kinds.
Listing(kinds) ==
    [t \in Tours |->
        IF komoot[t] # None /\ Kind[t] \in kinds
        THEN [trip |-> None, name |-> komoot[t].name, priv |-> komoot[t].priv]
        ELSE None]

\* sync_selected_tours: list only the kinds the owner's selection spans.
ListSelected(s, sel) ==
    /\ s \in Syncs
    /\ pc[s] = "delete"
    /\ todo[s] = {}
    /\ Become(s, "refresh", sel, None, Listing({Kind[t] : t \in sel}))
    /\ UNCHANGED <<db, komoot, syncing, late, req, history>>

\* backfill: list one kind, then pick from it in ListUnlinked.
StartBackfill(b, kind) ==
    /\ pc[b] = "idle"
    /\ Become(b, "list", {}, None, Listing({kind}))
    /\ UNCHANGED <<db, komoot, syncing, late, req, history>>

\* backfill: the listed tours without a link row, up to a limit.
ListUnlinked(b, sel) ==
    /\ pc[b] = "list"
    /\ sel \subseteq {t \in Tours \ Linked : snap[b][t] # None}
    /\ Become(b, "refresh", sel, None, snap[b])
    /\ UNCHANGED <<db, komoot, syncing, late, req, history>>

\* list_sync_candidates: the review screen lists both kinds, unguarded.
StartView(v) ==
    /\ pc[v] = "idle"
    /\ Become(v, "refresh", {}, None, Listing({"recorded", "planned"}))
    /\ UNCHANGED <<db, komoot, syncing, late, req, history>>

Refreshable(t) == link[t] # None /\ ~link[t].edit /\ ~link[t].del

\* refresh_privacy_from_listing, skipping rows with anything pending.
Refresh(p) ==
    /\ pc[p] = "refresh"
    /\ link' = [t \in Tours |->
                  IF snap[p][t] # None /\ Refreshable(t)
                  THEN [link[t] EXCEPT !.priv = snap[p][t].priv]
                  ELSE link[t]]
    /\ IF p \in Views
       THEN End(p)
       ELSE /\ Become(p, "dedup", todo[p], None, snap[p])
            /\ UNCHANGED syncing
    /\ UNCHANGED <<trip, used, komoot, late, req, history>>

\* import_selected_tours: one snapshot of the linked tours for the whole pull.
Dedup(p) ==
    /\ pc[p] = "dedup"
    /\ Become(p, "pull", todo[p] \ Linked, None, snap[p])
    /\ UNCHANGED <<db, komoot, syncing, late, req, history>>

\* sync_one_tour fetches the track and photos of a tour that was listed.
Fetch(p, t) ==
    /\ pc[p] = "pull"
    /\ t \in todo[p]
    /\ snap[p][t] # None
    /\ komoot[t] # None
    /\ Become(p, "insert", todo[p], t, snap[p])
    /\ UNCHANGED <<db, komoot, syncing, late, req, history>>

\* The UNIQUE constraint on komoot_tour_id lets the link row in.
Insertable(t) == link[t] = None

NewLink(i, s) == [trip |-> i, edit |-> FALSE, del |-> FALSE, priv |-> s]

\* sync_one_tour's transaction: trip, link row and privacy, or nothing.
Insert(p, i) ==
    LET t == cur[p] IN
    /\ pc[p] = "insert"
    /\ Insertable(t)
    /\ i \in Trips \ used
    /\ used' = used \cup {i}
    /\ trip' = [trip EXCEPT ![i] = snap[p][t].name]
    /\ link' = [link EXCEPT ![t] = NewLink(i, snap[p][t].priv)]
    /\ origin' = [origin EXCEPT ![i] = t]
    /\ sent' = [sent EXCEPT ![t] = [name |-> snap[p][t].name,
                                    priv |-> snap[p][t].priv]]
    /\ choice' = [choice EXCEPT ![t] = None]
    /\ outdated' = outdated \ {t}
    /\ Become(p, "pull", todo[p] \ {t}, None, [snap[p] EXCEPT ![t] = None])
    /\ UNCHANGED <<komoot, syncing, late, req, deleted, raced>>

\* Everything selected is imported or was linked already.
Finish(p) ==
    /\ pc[p] = "pull"
    /\ todo[p] = {}
    /\ End(p)
    /\ UNCHANGED <<db, komoot, late, req, history>>

\* The run ends early at any step: Komoot refuses or does not answer, the
\* database fails, a tour is no longer listed or already linked, the request
\* is cancelled, the process dies.  What it committed stays committed.
Halt(p) ==
    /\ pc[p] # "idle"
    /\ End(p)
    /\ UNCHANGED <<db, komoot, late, req, history>>

-----------------------------------------------------------------------------
(* A cancelled request does not stop the blocking call it has started.     *)

\* handle_sync's future is dropped while update_tour or delete_tour runs.
Detach(s, t) ==
    /\ pc[s] \in {"push", "delete"}
    /\ t \in todo[s]
    /\ late[s] = None
    /\ late' = [late EXCEPT ![s] =
                  [op |-> IF pc[s] = "push" THEN "update" ELSE "delete",
                   tour |-> t, item |-> snap[s][t]]]
    /\ raced' = IF pc[s] = "push" THEN raced \cup {t} ELSE raced
    /\ End(s)
    /\ UNCHANGED <<db, komoot, req, sent, choice, origin, deleted, outdated>>

\* The detached call reaches Komoot, or is lost.
Land(s) ==
    LET t == late[s].tour IN
    /\ late[s] # None
    /\ late' = [late EXCEPT ![s] = None]
    /\ \/ /\ late[s].op = "update"
          /\ komoot[t] # None
          /\ komoot' = [komoot EXCEPT ![t] = Updated(t, late[s].item)]
          /\ sent' = [sent EXCEPT ![t] = [name |-> late[s].item.name,
                                          priv |-> late[s].item.priv]]
       \/ /\ late[s].op = "delete"
          /\ komoot' = [komoot EXCEPT ![t] = None]
          /\ UNCHANGED sent
       \/ UNCHANGED <<komoot, sent>>
    /\ UNCHANGED <<db, syncing, procs, req, choice, origin, deleted, raced, outdated>>

-----------------------------------------------------------------------------
(* The owner's requests, and Komoot's own app.                             *)

\* The trips a request is about.
About(q) == IF q.op = "edit" THEN q.trips ELSE {q.trip}

\* handle_edit_trip, handle_bulk_set_activity_type or handle_delete_trip reads
\* the flag, once; an empty selection is refused.
CheckFlag(r, q) ==
    /\ req[r] = None
    /\ Free
    /\ About(q) # {} /\ \A i \in About(q) : trip[i] # None
    /\ req' = [req EXCEPT ![r] = q]
    /\ UNCHANGED <<db, komoot, syncing, procs, late, history>>

\* A push of the tour t is between its read of the edits and its clear.
InPush(t) == \E s \in Syncs : pc[s] \in {"push", "clear"} /\ t \in todo[s]

\* Mutant: the edit is stored without being queued.
Unqueued(row, s) == [row EXCEPT !.priv = IF s = None THEN @ ELSE s]
\* update_trip's write to the link row: COALESCE keeps an omitted privacy.
Queued(row, s) ==
    [row EXCEPT !.edit = TRUE, !.priv = IF s = None THEN @ ELSE s]

\* repo::update_trip, set_activity_type: the trips, their privacy and
\* edit_pending in one write, of all of them or of none.
CommitEdit(r) ==
    LET edited == req[r].trips
        n == req[r].name
        s == req[r].priv
        mine == {t \in Tours : link[t] # None /\ link[t].trip \in edited}
    IN
    /\ req[r] # None
    /\ req[r].op = "edit"
    /\ \A i \in edited : trip[i] # None
    /\ trip' = [i \in Trips |-> IF i \in edited /\ n # None THEN n ELSE trip[i]]
    /\ link' = [t \in Tours |->
                  IF t \in mine
                  THEN Queued(link[t], s)
                  ELSE link[t]]
    /\ choice' = [t \in Tours |->
                    IF t \in mine /\ s # None THEN s ELSE choice[t]]
    /\ raced' = raced \cup {t \in mine : InPush(t)}
    /\ req' = [req EXCEPT ![r] = None]
    /\ UNCHANGED <<used, komoot, syncing, procs, late, sent, origin, deleted, outdated>>

\* Mutant: the row goes with its trip (ON DELETE CASCADE).
Cascaded(row) == None
\* Mutant: delete_pending is not set.
TombstoneUnmarked(row) == [row EXCEPT !.trip = None]
\* delete_pending is set, then ON DELETE SET NULL clears trip_id.
Tombstone(row) == [row EXCEPT !.del = TRUE, !.trip = None]

\* repo::delete_trip: tombstone and trip row in one write; edit_pending stays.
CommitDelete(r) ==
    LET i == req[r].trip
        mine == {t \in Tours : link[t] # None /\ link[t].trip = i}
    IN
    /\ req[r] # None
    /\ req[r].op = "delete"
    /\ trip[i] # None
    /\ trip' = [trip EXCEPT ![i] = None]
    /\ link' = [t \in Tours |->
                  IF t \in mine
                  THEN Tombstone(link[t])
                  ELSE link[t]]
    /\ deleted' = deleted \cup {origin[i]}
    /\ origin' = [origin EXCEPT ![i] = None]
    /\ req' = [req EXCEPT ![r] = None]
    /\ UNCHANGED <<used, komoot, syncing, procs, late, sent, choice, raced, outdated>>

\* The request fails or finds its trip gone (404).
DropReq(r) ==
    /\ req[r] # None
    /\ req' = [req EXCEPT ![r] = None]
    /\ UNCHANGED <<db, komoot, syncing, procs, late, history>>

\* The owner changes a tour in Komoot's own app.
AppEdit(t, c) ==
    /\ komoot[t] # None
    /\ komoot' = [komoot EXCEPT ![t] = c]
    /\ choice' = IF c.priv = komoot[t].priv THEN choice
                 ELSE [choice EXCEPT ![t] = None]
    /\ UNCHANGED <<db, syncing, procs, late, req, sent, origin, deleted, raced, outdated>>

\* The owner deletes a tour in Komoot's own app.
AppDelete(t) ==
    /\ komoot[t] # None
    /\ komoot' = [komoot EXCEPT ![t] = None]
    /\ UNCHANGED <<db, syncing, procs, late, req, history>>

-----------------------------------------------------------------------------
SyncStep(s) ==
    \/ StartSync(s) \/ ListEdits(s) \/ ClearEdit(s) \/ ListDeletes(s)
    \/ Unlink(s) \/ Land(s)
    \/ \E t \in Tours : PushEdit(s, t) \/ PushDelete(s, t) \/ Detach(s, t)
    \/ \E sel \in SUBSET Tours : ListSelected(s, sel)

PullStep(p) ==
    \/ Dedup(p) \/ Finish(p)
    \/ \E t \in Tours : Fetch(p, t)
    \/ \E i \in Trips : Insert(p, i)

BackfillStep(b) ==
    \/ \E kind \in {"recorded", "planned"} : StartBackfill(b, kind)
    \/ \E sel \in SUBSET Tours : ListUnlinked(b, sel)

ReqStep(r) ==
    \/ \E q \in Edit \cup Delete : CheckFlag(r, q)
    \/ CommitEdit(r) \/ CommitDelete(r) \/ DropReq(r)

AppStep(t) == AppDelete(t) \/ \E c \in Content : AppEdit(t, c)

Next ==
    \/ \E s \in Syncs : SyncStep(s)
    \/ \E p \in Syncs \cup Backfills : PullStep(p)
    \/ \E b \in Backfills : BackfillStep(b)
    \/ \E v \in Views : StartView(v)
    \/ \E p \in Procs : Refresh(p) \/ Halt(p)
    \/ \E r \in Reqs : ReqStep(r)
    \/ \E t \in AppTours : AppStep(t)

Spec == Init /\ [][Next]_vars

-----------------------------------------------------------------------------
(* Properties.                                                             *)

\* Every variable keeps its type: the columns of the two tables, the locals
\* of each handler, and the calls and requests under way.
TypeOK ==
    /\ trip \in [Trips -> Names \cup {None}]
    /\ used \subseteq Trips
    /\ link \in [Tours -> Link \cup {None}]
    /\ komoot \in [Tours -> Content \cup {None}]
    /\ syncing \in BOOLEAN
    /\ pc \in [Procs -> Phase]
    /\ todo \in [Procs -> SUBSET Tours]
    /\ cur \in [Procs -> Tours \cup {None}]
    /\ snap \in [Procs -> [Tours -> Item \cup {None}]]
    /\ late \in [Syncs -> Call \cup {None}]
    /\ req \in [Reqs -> Edit \cup Delete \cup {None}]
    /\ sent \in [Tours -> Content \cup {None}]
    /\ choice \in [Tours -> Settable \cup {None}]
    /\ origin \in [Trips -> Tours \cup {None}]
    /\ deleted \subseteq Tours
    /\ raced \subseteq Tours
    /\ outdated \subseteq Tours

\* No imported trip is without its link row, so none is imported twice, and a
\* row without a trip is exactly a tombstone (sync_one_tour's and
\* delete_trip's transactions; ADR-0021, "no duplicate trip is created").
LinkConsistent ==
    /\ \A i \in Trips : trip[i] # None =>
          /\ i \in used
          /\ origin[i] # None
          /\ link[origin[i]] # None
          /\ link[origin[i]].trip = i
    /\ \A t \in Tours : link[t] # None =>
          /\ link[t].del <=> link[t].trip = None
          /\ link[t].trip # None =>
                trip[link[t].trip] # None /\ origin[link[t].trip] = t

\* At most one sync run works at a time, and the flag is set exactly while one
\* does, however it ends (try_start_sync, SyncGuard; US-26).
OneSync ==
    /\ \A s1, s2 \in Syncs : pc[s1] # "idle" /\ pc[s2] # "idle" => s1 = s2
    /\ syncing <=> \E s \in Syncs : pc[s] # "idle"

EditKept(t) == Live(t) /\ ~link[t].edit => trip[link[t].trip] = sent[t].name
ChoiceKept(t) == Live(t) /\ choice[t] # None => link[t].priv = choice[t]

\* Unless it raced a push: an edit whose queue flag is clear has reached
\* Komoot (update_trip, push_pending_edits, clear_edit_pending), and a privacy
\* the owner chose stays stored until Komoot's own app changes it
\* (set_privacy_in_tx, refresh_privacy_from_listing) - also unless a review
\* screen or a backfill was still to apply a listing from before its push.
EditsKept == \A t \in Tours \ raced : EditKept(t)
ChoicesKept == \A t \in Tours \ (raced \cup outdated) : ChoiceKept(t)
OwnersWordKept == EditsKept /\ ChoicesKept

\* No edit is ever lost: ADR-0021, "an edit to a Komoot-sourced trip is never
\* silently lost"; US-26, "my change can't race the sync's read".
NoEditLost == \A t \in Tours : EditKept(t)

\* A tour whose trip the owner deleted never comes back as a trip: the
\* tombstone hides it from the pull until Komoot has dropped the tour.
NoResurrection == \A t \in deleted : ~Live(t)

\* The archive deletes no tour at Komoot whose trip still exists; only
\* Komoot's own app does (push_pending_deletes, and calls that land late).
NeverDeletesLiveTour ==
    [][\A t \in Tours : komoot[t] # None /\ komoot'[t] = None =>
          AppDelete(t) \/ (t \in deleted /\ ~Live(t))]_vars

-----------------------------------------------------------------------------
(* Without a backfill process the archive keeps TourLifecycle's promise.   *)

Life(t) ==
    CASE Live(t) -> "kept"
      [] Orphaned(t) -> "condemned"
      [] link[t] = None -> IF t \in deleted THEN "gone" ELSE "absent"

Lifecycle == INSTANCE TourLifecycle
             WITH life <- [t \in Tours |-> Life(t)],
                  held <- {t \in Tours : komoot[t] # None}

\* Each tour is imported at most once, condemned by its trip's deletion, and
\* forgotten only once Komoot no longer holds it (ADR-0021, "cannot resurrect
\* the trip on a subsequent pull").
KeepsLifecycle == Lifecycle!Spec

-----------------------------------------------------------------------------
(* Strengthenings that make the invariants inductive (KomootSyncProofs).   *)

\* What each phase knows of the tours it works on.
WorkingOf(p) ==
    /\ pc[p] \in {"push", "clear"} =>
          p \in Syncs /\ \A t \in todo[p] : snap[p][t] \in Item
    /\ pc[p] \in {"delete", "unlink"} =>
          p \in Syncs /\ \A t \in todo[p] : DeletePending(t)
    /\ pc[p] \in {"clear", "unlink", "insert"} => cur[p] \in todo[p]
    /\ pc[p] = "unlink" => komoot[cur[p]] = None
    /\ pc[p] = "insert" => snap[p][cur[p]] \in Item

\* A call still under way updates a raced tour or deletes a deleted one.
LateOf(s) == late[s] # None =>
    IF late[s].op = "update"
    THEN late[s].item \in Item /\ late[s].tour \in raced
    ELSE late[s].tour \in deleted

Working == (\A p \in Procs : WorkingOf(p)) /\ (\A s \in Syncs : LateOf(s))

\* Tombstones are the deleted tours that Komoot may still hold.
Tombstones ==
    /\ \A t \in Tours : DeletePending(t) => t \in deleted
    /\ \A t \in deleted : DeletePending(t) \/ komoot[t] = None

Inductive == TypeOK /\ LinkConsistent /\ OneSync /\ Working /\ Tombstones

\* A push holds rows that no other process removes, of trips that stay the
\* tour's own; a tour that was not raced is as the push read it, or deleted.
HeldIn(s, t) ==
    /\ link[t] # None
    /\ snap[s][t].trip \in used /\ origin[snap[s][t].trip] \in {t, None}
    /\ t \notin raced /\ Live(t) =>
          /\ link[t].edit
          /\ snap[s][t] = [trip |-> link[t].trip, name |-> trip[link[t].trip],
                          priv |-> link[t].priv]
    /\ t \notin raced /\ pc[s] = "clear" /\ cur[s] = t =>
          sent[t] # None /\ sent[t].name = snap[s][t].name

PushHolds == \A s \in Syncs :
    pc[s] \in {"push", "clear"} => \A t \in todo[s] : HeldIn(s, t)

EditInductive == Inductive /\ PushHolds /\ EditsKept

\* A push has told Komoot of the tour's edit and is about to clear its flag.
Told(t) == \E s \in Syncs : pc[s] = "clear" /\ cur[s] = t

\* A chosen privacy that is not queued any more is what Komoot holds.
ChoiceTold(t) ==
    Live(t) /\ komoot[t] # None /\ (link[t].edit => Told(t)) =>
        choice[t] \in {None, komoot[t].priv}

\* What a process has listed does not contradict a chosen privacy.
ChoiceListed(t) == \A p \in Procs :
    pc[p] \in {"list", "refresh"} /\ snap[p][t] # None /\ Live(t)
      /\ (link[t].edit => Told(t)) =>
        choice[t] \in {None, snap[p][t].priv}

ChoicesHold == \A t \in Tours \ (raced \cup outdated) :
    ChoiceKept(t) /\ ChoiceTold(t) /\ ChoiceListed(t)

WordInductive == EditInductive /\ ChoicesHold

\* Without a backfill, a tour to be pulled is neither linked nor deleted.
PullHolds == \A s \in Syncs :
    /\ pc[s] \in {"pull", "insert"} => todo[s] \cap Linked = {}
    /\ pc[s] = "insert" => cur[s] \notin deleted

PullInductive == Inductive /\ PullHolds /\ NoResurrection

-----------------------------------------------------------------------------
(* Liveness.  The owner keeps pressing "Sync now", every run ends (a call  *)
(* to Komoot times out after 15 seconds), and a push step that is possible *)
(* again and again one day succeeds.                                       *)

Fairness ==
    \A s \in Syncs :
        /\ SF_vars(StartSync(s)) /\ SF_vars(ListEdits(s))
        /\ SF_vars(ListDeletes(s)) /\ WF_vars(Halt(s))
        /\ \A t \in Tours :
              /\ SF_vars(PushEdit(s, t))
              /\ SF_vars(komoot[t] # None /\ PushDelete(s, t))
              /\ SF_vars(cur[s] = t /\ ClearEdit(s))
              /\ SF_vars(cur[s] = t /\ Unlink(s))

FairSpec == Spec /\ Fairness

\* Entries of tours Komoot has lost: its answer is an error every time, and
\* halt-on-first-failure stops each run there (ADR-0021 accepts this).
EditBlocked == \E t \in Tours : EditPending(t) /\ komoot[t] = None
DeleteBlocked == \E t \in Tours : DeletePending(t) /\ komoot[t] = None

\* Every queued edit is one day pushed, or its trip is deleted, unless one of
\* a lost tour blocks the queue.
EditsReachKomoot == \A t \in Tours :
    EditPending(t) ~> ~EditPending(t) \/ EditBlocked

\* Every tour whose trip was deleted is one day gone from Komoot, whatever
\* interrupted the earlier runs (US-24) - unless an entry of a lost tour blocks
\* the queue.  That its row goes too is not said: see DeletesAreForgotten.
DeletesReachKomoot == \A t \in Tours :
    Orphaned(t) ~> komoot[t] = None \/ EditBlocked \/ DeleteBlocked

\* US-47, "an interrupted sync never blocks the next one".  It does, if it is
\* stopped between Komoot's deletion and the row's: the deletion is sent again,
\* of a tour that Komoot has lost by then.
DeletesAreForgotten == \A t \in Tours :
    Orphaned(t) ~> ~Orphaned(t) \/ EditBlocked
=============================================================================
