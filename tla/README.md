# Trip Archive: a TLA+ verification development

The trip archive (`gps-trips`) is one owner's archive of recorded and planned
trips: a Rust server on SQLite, a browser application, a few command-line
tools, and three neighbours it does not control: Komoot, the file system and a
QMapShack database. This directory holds TLA+ models of the parts where several
actors touch the same state and of the algorithms behind what is shown, the TLC
configurations that check them on small instances, and theorems about them with
proofs checked by TLAPS.

Paths below are those of the repository under `src/`; `src/src/server/` is
shortened to `server/` and `src/crates/ui-dioxus/src/` to `ui/`. `PROJECT.json`
lists the components, runs, mutants, findings, hazards and theorems, and says
for every definition which lines of the source it stands for.

## 1. The system

### Components

| Component | State it keeps | Operations | Modelled in |
|---|---|---|---|
| **Komoot sync** `server/komoot_sync.rs`, `server/repo/komoot.rs`, `server/state.rs` | `trip_komoot_link` (one row per imported tour: trip, edit and delete flags, privacy); the in-memory sync flag | push of queued edits, push of queued deletes, selective pull; review listing with its privacy refresh; `komoot_backfill` in another process | `KomootSync` |
| **Trip edit and deletion** `server/edit.rs`, `server/delete.rs`, `server/repo/trip.rs`, `server/repo/bulk_edit.rs` | `trip` table | edit one, edit a selection, delete | `KomootSync`, `PhotoStore` |
| **Komoot client** `server/komoot.rs`, `server/komoot/rate_limit.rs` | the next slot of the throttle | listing page by page, one throttle for all requests, backing off | `TourListing` |
| **Photos** `server/photos.rs`, `server/import.rs`, `server/storage.rs` | `photo` table and files ("blobs") beside the database | import with photos, add photos, delete | `PhotoStore` |
| **Laptop backup** `server/backup.rs`, `server/backup/client.rs` | a directory: a database copy and photo files | snapshot, fetch, swap in, sweep | `Backup` |
| **Staged GPX import** `server/staged_import.rs`, `server/repo/staging.rs` | parked parses | park, confirm, cancel, sweep | `StagedImport` |
| **Access log** `server/access_log/writer.rs` | a bounded queue, a writer task | record, batch, flush | `Serving` |
| **Database and shutdown** `server/db.rs`, `main.rs` | the pool; SQLite's one write lock; the WAL | `begin_write`, stop, close | `Serving` |
| **Collections** `server/collections.rs`, `server/collection_import.rs`, `server/collection_match.rs`, `server/repo/collection*` | collections, tracks, waypoints, parked uploads | create, park, review, confirm, edit by hand, delete | `Collections` |
| **Links and proposals** `server/link_check.rs`, `server/links.rs`, `server/repo/link*` | three link tables, each row proposed or the owner's | check on entry, check on demand, link, confirm, dismiss, unlink | `Links` |
| **QMapShack export** `server/qmapshack.rs`, `server/qmapshack/target.rs` | another program's database | reconcile item by item, remove stale items | `QMapShackExport` |
| **QMapShack rolling backups** `server/qmapshack/backup.rs` | copies of that database | copy before the first write, prune | `RollingBackups` |
| **Shares and tags** `server/share.rs`, `server/repo/share.rs`, `server/tags.rs`, `server/repo/tag.rs` | shares and their expiry; tags and their uses | create, resolve, narrow, stop; tag, rename, untag, delete | `Sharing` |
| **Sign-in** `server/auth.rs`, `server/session.rs` | a failure counter under a mutex; an expiry in the browser's cookie | log in, gate every request, renew, sign out | `Gate` |
| **Line matching** `server/line_grid.rs`, `server/link_match.rs` | none | does a trip follow a plan | `LineGrid`, `LinkMatch` |
| **Photo placement** `server/placement.rs`, `server/timezone.rs`, `server/gpx.rs` | none | when and where was a photo taken | `Placement` |
| **Climbs** `server/climbs.rs` | none | the climbs of a track | `Climbs` |
| **Browser application** `ui/` | signals, resources, handlers under way | list, import, trip and links screens | `ListScreen`, `ImportScreen`, `DetailScreen`, `LinkScreen`, `Browser` |
| Other screens, statistics, filters, suggestions, thumbnails, places and ground data, file formats, tools | none of their own, or read-only lookup data | | not modelled (section 5) |

### How they interact

Requests run side by side on an async runtime; the only mutual exclusion between
them is SQLite's write lock (`db::begin_write`, which other writers wait for),
the sync flag (claimed by a sync run, *read once* by an edit or a deletion), and
the lockout's mutex. Every other consistency rests on what one transaction does
and on constraints of the schema: primary keys, `ON DELETE CASCADE`,
`AUTOINCREMENT`. Calls that block (Komoot, file writes) run in
`spawn_blocking`, so a request that is cancelled leaves its call running. No
task survives a restart; what must survive is in the database.

In the browser one thread runs signals, resources and async handlers. A handler
goes on while the owner clicks; its scope may be gone, or show something else,
when its answer comes.

### What is hard, and what makes each part correct

- **Interleavings at awaits.** Sync, edit and deletion act on the same link row
  in turn: imported trips and rows must stay matched, queued edits must be
  pushed, and only tours of deleted trips may be deleted at Komoot.
- **Two stores, no common transaction.** Photo rows and files; link rows and
  Komoot's tours; the backup's database and its files; the archive and QMapShack.
  A row must never name what is not there, whichever step is the last one
  executed.
- **Calls outliving requests.** A late file write or Komoot call lands in a world
  its caller did not know; a browser's handler outlives its form.
- **Decisions on a stale view.** A review of an import, a listing of Komoot's, a
  check's reading of a line, a time read before a mutex, a form filled before
  another change: what was read is used after an await.
- **Ids as identities.** File keys, links, shares and reviewed plans name rows by
  id, so no id may ever name a second thing.
- **Stopping.** Records of answered requests must be stored, and the WAL gone,
  whatever is in flight when the signal comes.
- **Progress.** What is queued must reach Komoot whatever stopped earlier runs; a
  stop must end.

The full list, each at its line and with the properties that cover it, is under
`hazards` in `PROJECT.json`.

## 2. The modules

| Module | What it is | Checked by |
|---|---|---|
| `TourLifecycle` | abstract: what the archive promises about one Komoot tour | `KeepsLifecycle` |
| `KomootSync` | sync, backfill, review screen, edit and delete requests, Komoot's own app | `MCKomootSync`, three runs |
| `KomootSyncProofs` | its theorems | TLAPS |
| `PhotoStore` | photo rows and files under adds and deletions | through `Backup` |
| `BackupProofs` | theorems about both | TLAPS |
| `Backup` | extends `PhotoStore` by the laptop's run | `MCBackup` |
| `StagedImport` | the two-phase import of a GPX file | through `Serving` |
| `Serving` | extends `StagedImport` by the access log, the pool and the process's life | itself |
| `ServingProofs` | theorems about both, and about `Figures` | TLAPS |
| `ItemTable` | abstract: what `Collections` promises `Links` | `KeepsItemTable` |
| `Collections` | collections and their two-phase import | `MCCollections` |
| `CollectionsProofs` | theorems about `Collections` | TLAPS |
| `Links` | extends `ItemTable` by trips, links, proposals and checks | `MCLinks` |
| `LinksProofs` | its theorems | TLAPS |
| `QMapShackExport` | the export, and the owner's work and other runs' on the same database | `MCQMapShackExport` |
| `QMapShackExportProofs` | its theorems | TLAPS |
| `Clock` | the time that four parts read | |
| `Sharing`, `Gate`, `TourListing`, `RollingBackups` | extend `Clock`: shares and tags; sign-in; throttle and pages; pruned copies | through `Timed` |
| `Timed` | the four side by side | `MCTimed` |
| `TimedProofs` | theorems about each of the four, in `Timed` | TLAPS |
| `Screens` | what screens share: resources that are read, answered, read again | |
| `ListScreen`, `ImportScreen`, `DetailScreen`, `LinkScreen` | extend `Screens` by a screen each | through `Browser` |
| `Browser` | the router and the four | `MCBrowser`, two runs |
| `BrowserProofs` | theorems about each of the four, in `Browser` | TLAPS |
| `LineGrid`, `LinkMatch`, `Placement`, `Climbs` | algorithms, as operators | through `Figures` |
| `Figures` | inputs that grow, and what each algorithm is judged against | `MCFigures` |

How they are composed:

- `Backup` and `PhotoStore` interleave: a step is the server's or the laptop's.
- `Collections` and `Links` meet through an interface: `Links` is built on
  `ItemTable`, the abstract behaviour of the item tables, and `Collections` is
  shown to implement it by the refinement `KeepsItemTable`. So what holds of
  `Links` holds beside the real import.
- `Serving` composes the requests of `StagedImport` with what every request
  passes through: its end queues a record, its transaction holds the write lock
  that the log's batches wait for, and a stop waits for it.
- `Timed` runs four parts that share no state beside each other, a behaviour
  following one of them; `Browser` shows one screen at a time while the handlers
  of the ones left go on; `Figures` follows one input.

### KomootSync

`trip`, `link` and `used` are the `trip` and `trip_komoot_link` tables and the
ids handed out; `komoot` is Komoot's side; `syncing` is `AppState`'s flag. `pc`,
`todo`, `cur` and `snap` are the locals of each run (`run_sync`,
`run_backfill`, `list_sync_candidates`), `late` a Komoot call whose request is
gone, `req` an edit or deletion that has read the flag. The rest is history the
properties speak of and no guard reads.

A run goes `StartSync`, `ListEdits`, (`PushEdit`, `ClearEdit`)\*,
`ListDeletes`, (`PushDelete`, `Unlink`)\*, `ListSelected`, `Refresh`, `Dedup`,
(`Fetch`, `Insert`)\*, `Finish`, one action per transaction or Komoot call.
`Halt` ends it between any two: an error, a dropped request, the process's end -
after any of them the flag is free and only the tables are left, so a restart
needs no action of its own. `Detach` ends it *during* a Komoot call, which
`Land` completes later or never. `CheckFlag` and `CommitEdit` or `CommitDelete`
are the two halves of an edit or deletion (`http.rs:508`, `edit.rs:85`). An edit
is of one trip, or of a selection (`edit.rs:140`, `repo/bulk_edit.rs`): then all
of it is stored and queued in one transaction, or, if a trip of it is gone,
nothing is.

Abstracted: a trip's name stands for everything an edit sends beside privacy;
reading and updating a tour at Komoot are one call; a listing is one read, not
pages (`TourListing` is what stands behind it); at most one call per sync slot
outlives its request. Trips that did not come from Komoot, and rows from before
the privacy column, are left out. `Trips` bounds imports.

### PhotoStore and Backup

`trips`, `lastId` and `photos` are the tables, `blob` the files, `writer` the
holder of SQLite's write lock, `up` and `del` the requests under way, `late` a
file write whose request is gone. `Begin`, (`Put`, `PutThumb`)\*, `Commit` is
an upload; `ListPhotos`, `DeleteTrip`, `DeleteBlob`\*, `EndDelete` a deletion.
`Abort` is an error or a crash, `Cancel` a client that leaves during a file
write. A write that fails (`PutFails`), or that a crash cuts off (`Land`), may
leave part of a file (`Torn`), because `fs::write` is not atomic
(`storage.rs:78`). A thumbnail may fail without failing its photo. A file that
is read, for a backup or a page, is read in one step: what is fetched while a
late write goes on is the file before it or after it, or `Torn`, but never half
of each. `Backup` adds the
laptop's directory (`held`, `saved`) and the run's locals: `Snapshot`,
`Fetch`\*, `SwapIn`, `Sweep`\*, `EndRun`, with `Stop` anywhere.

### StagedImport and Serving

A request of `StagedImport` parks a file, confirms an id, cancels one, or is the
sweep; confirming takes the row and inserts the trip in one write transaction.
An id may come from a tab that was left open over a sweep. A request may fail or
be dropped at any await. `Serving` gives every request an end: its record goes
into the queue (`Capacity`) or is counted as dropped; the writer takes up to
`BatchSize` of them, stores them in one transaction, and answers a flush when it
comes to it. On the signal, `main` waits for the requests, sends the flush, waits
for the pool to close, opens the last connection, closes it and looks for the
WAL until patience runs out; opening or closing the last connection may fail
instead (`LastFails`, `db.rs:57`), and then `main` ends and the WAL may stay.
`MaxKills` kills empty all memory at any moment and
a new process starts on what is in the file.

### Collections, ItemTable and Links

`Collections` keeps the item tables with their id sequences, the parked uploads
(`staged`) and each confirmation under way (`imp`). `Park`, `Review`,
`Prepare`, `Store` is the import; `Prepare` matches against one reading of the
collection, `Store` commits under the write lock if the digest is still the
reviewed one. What matching decides is any outcome it can produce (`Outcomes`):
the score is data, the control is all there. `EditItem` is an edit by hand, of a
waypoint or of a track's name: both are in what the digest reads.

`Links` keeps trips, items, links (`None`, `"proposed"`, `"linked"`) and the
checks under way. A check of a trip is `LookAtPlans`, `LookAtItems`, `Propose`;
of items, `ReadIds`, `Forget`, `ReadItems`, `LookAtTrips`, `Propose`. Which
trip follows which line is a constant relation here; `LinkMatch` is how it is
judged. The several queries that read one kind of end are one step, because a
pair is judged from one row of them: pair by pair nothing is lost.

### QMapShackExport

`archive` is what the server holds, `file`, `folders`, `items` and `links` the
target database. A run reads two lists, opens or creates the target, takes its
records in the lists' order (`Order`), walks each one's folder path segment by
segment, compares name and comment, fetches the geometry if they differ, writes
the item, links it, and afterwards removes in one pass per kind what its lists do
not name. An item's failure is counted and the run goes on; anything else ends
it. Between any two steps the archive changes, the owner edits items, moves them,
empties the trash, drops folders, and other runs of the exporter write:
`run_export` takes no lock, and one may be started by hand beside the scheduled
one (ADR-0022). "The run" is any one of them; of the others the module has every
write they can make (`Another...`), with lists of any earlier moment. An item is
named by its key, and its row, which runs hold over their awaits, by how many
rows the key has had (`born`), as no id is used twice.

### Sharing, Gate, TourListing, RollingBackups

`Sharing` keeps trips, collections with their tracks, tags, what is tagged, and
shares by trips or by tag with an expiry. The owner's requests that take several
statements (creating, narrowing, stopping) are several steps; a recipient's read
checks that an id is covered and then reads it.

`Gate` is the lockout and the session. An attempt notes the time, waits for the
mutex, and is judged as of the time it noted. A request in flight may carry a
renewal back; answers come in any order or never.

`TourListing` gives every caller a slot of the one throttle (`reserve`), which a
429 pushes back; a listing asks page after page while tours come and go, and what
is selected of it is imported tour by tour.

`RollingBackups` copies the target under a name of the current second, removes
what is beyond `MIN_KEPT` and older than `RETENTION`, then writes; runs overlap
and may be cut off in the middle of a copy. A copy is opened and filled in two
steps; if the target changed between them it may be torn, and counts as spoilt
(`CanGoBack` says nothing of it).

### The browser

A resource of Dioxus is a record: what was read, whether it is asked, the answer
not yet shown. A signal's change and all it sets off (memos, effects, restarted
reads) are one step, because the browser handles no event before; a handler is a
task with the steps between its awaits. Answers may be lost after the archive
acted, and reads may fail. `ImportScreen` follows a file from choosing to its
photos, `ListScreen` the filters, the region map, the two lists and the selection
bar (a panel sends a request per press, so several may be out, and the answer to
the first drops the handlers of the others), `DetailScreen` one scope through
which the router shows trip after trip, `LinkScreen` the Linked section and its
map, the Proposed links page, the check and the menu's count. The archive is what
these screens can observe of it.

### The algorithms

Positions, elevations, times and distances are whole numbers; fractions of them
are compared exactly, so what the code guards against rounding (`line_grid.rs`'s
step count and its `1e-9`, `climbs.rs`'s `ROUNDING_M`) is exact here.

`LineGrid` walks a segment from cell to cell. `LinkMatch` measures lines in
pieces and applies the rules of ADR-0030; its lines run along the axes, so that
lengths are whole. Its plane is flat: the code projects degrees around the plan's
first point (`link_match.rs:66`), so that a plan taken from its other end is
measured on a slightly different plane; that the direction does not matter is
exact here and, in the code, up to that difference. `Placement` sorts a track's
points by time, finds the stretches of one UTC offset, reads a camera's clock
against them or trusts the offset the camera wrote, if there is such an offset
(`WidestOffset`), and finds the points it lies between; an offset per point,
possibly unknown, stands for the zone lookup. `Climbs` finds the stretches in a
single pass and cuts their gentle ends. `Figures` lets each input grow by a point
at a time.

## 3. What each run checks

| Run | Instance | Properties, and what they show |
|---|---|---|
| `komoot_server` | 1 tour, 2 trip ids, 2 names, 2 statuses, 2 sync requests, 1 edit or delete request, Komoot's app | `LinkConsistent` (rows and trips matched one to one), `OneSync`, `OwnersWordKept` (an edit not queued has arrived and a chosen privacy stands, unless the tour raced a push or a review screen held a listing from before it), `NoResurrection`, `NeverDeletesLiveTour`, `KeepsLifecycle` |
| `komoot_live` | 1 tour, a backfill and a review screen beside a sync, fairness | `EditsReachKomoot`, `DeletesReachKomoot`: what is queued is pushed and a deleted trip's tour goes, whatever stopped earlier runs, unless an entry of a tour Komoot has lost blocks the queue |
| `backup_run` | 2 uploads and a deletion, or 1 upload, a deletion and backup runs; 1 trip id, 1 photo | `PhotosKept` (no row names a missing or foreign file), `FilesAccounted` (no file is left but those the code knows it may leave), `BackupWhole`, `PreviousKept` |
| `serving_run` | 2 requests, 2 files, queue of 1, batches of 2, 3 records, 1 kill, fairness | `ImportsWhatWasShown` (an id confirms the file the tab showed, once), `FlushKeepsAll` (once flushed, every record of an answered request is stored, in order, but the counted losses), `StopsClean` (a signal leads to the end, the WAL gone) |
| `collections_run` | 2 confirmations, 2 uploads, 1 collection id, 2 track ids, 1 waypoint id | `ImportedOnce`, `LosesOnlyWhatWasShown`, `KeepsItemTable` |
| `links_run` | a recorded and a planned trip, 1 item, 2 checks, 2 clicks | `LinksKept` (no link of the owner's goes), `NothingOverlooked` (a pair that follows and that nobody settled is proposed once the checks are done) |
| `export_run` | a trip, a waypoint, 2 metas, 2 geometries, a foreign item, 2 archive changes, 1 act of the owner, 1 write of another run | `NothingForeign`, `RemovesOnlyTheGone`, `CleanRunMirrors` (a run without failures beside which nothing changed leaves exactly the archive, whatever went before). `RemovesOnlyTheGone` excepts what another run inserted from later lists (below) |
| `timed_run` | a clock to 4; 2 trips, a collection, 2 tags, 1 share, 2 stopping requests and a creating one, 1 recipient; 2 visits; 2 listers and another caller, 2 tours; 1 export | `ShowsWhatWasCovered`, `NeverReopens` (a dead link stays dead), `GuessesArePaced`, `LivesWhileUsed`, `Throttled`, `ListsWhatStayed`, `CanGoBack` |
| `figures_run` | see the bounds | `JudgesWhatIsNear` (the grid misses no segment; directions do not matter), `ReadsTheClock` (a clock is read at the first instant it showed this), `NoRiseOverlooked` |
| `browser_run` | 4 events on the import and the trip screen, 4 moves on the list, or 3 clicks on the links' screens | `ImportedOnce`, `NothingLeftParked`, `ListsWhatMatches`, `GalleryIsCurrent`, `SavesOnlyAltered`, `MapFollowsLinks`, `ProposalsAreCurrent` |

Two more runs are counterexamples: each checks one statement of the repository's
documents or comments that the code does not keep.

| Run | Statement | What happens |
|---|---|---|
| `komoot_edit_lost` | an edit "is never silently lost" (ADR-0021) | an edit commits between the push's read and `clear_edit_pending`, which clears it by trip id |
| `browser_photos_twice` | "what did arrive must not go up twice" (`ui/photos.rs:249`) | the button is pressed again while the first upload is under way; nothing says that one is |

### Counterexamples to run by hand

Each is a run of the table above with its properties replaced by one (no
symmetry), and shows another statement the code does not keep:

| Run, changed | Property | What happens |
|---|---|---|
| `komoot_live` | `DeletesAreForgotten` | "an interrupted sync never blocks the next one" (US-47): stopped between Komoot's deletion and the row's, every later run sends the deletion again and halts there, if Komoot refuses to delete a tour it has lost - the client takes every answer but success for an error (`komoot.rs:299`) |
| `komoot_server` with `Syncs = {s1}`, `Views = {v1}`, `Statuses = {public, private, unknown}` | `\A t \in Tours \ raced : ChoiceKept(t)` | a queued privacy choice outranks the listing (`repo/komoot.rs:117`), but the review screen applies a listing fetched before the choice was pushed; `OwnersWordKept` excepts such a tour (`outdated`) |
| `backup_run` | `NeverChange` (of steps) | "photos never change once stored" (`backup/client.rs`): a cancelled import's file write lands on the key the next import was given |
| `backup_run` | `Matches` | the backup's parts match (US-40): a trip is deleted after the snapshot, and an upload that fails writes the same key before the fetch |
| `export_run` with `HasTrack = TRUE`, `MaxChange = 3`, `MaxOwner = 0`, `MaxBeside = 0` | `CaughtUp` | "a record that changes after the lists were read is caught up by the next run": not its geometry, if the comment of the earlier list is what the record has again |
| `browser_run` | `KeepsBytes` | a file's bytes are "kept after staging": `start_over` (`ui/import.rs:361`) clears those of a file chosen meanwhile |
| `figures_run` | `DropsOnlyGentleRises` | a climb is none "when the slope reaches it nowhere" (`climbs.rs:101`): the window seen from the top looks back past the start already cut, so a steep rise of few points after a long gentle approach is dropped |

`komoot_server` passes too with `Tours = {t1, t2}`, `Names = {n1}` and no
`AppTours`: edits of a selection, and one tour halting another's push
(1,265,935 states, about a minute); and with a review screen, `Views = {v1}`,
beside one sync (`Syncs = {s1}`: 873,110 states) or beside two with one name
(`Names = {n1}`: 215,137 states).

### Other places where text and code part

Seen while modelling; no run shows them.

- A tombstone keeps `edit_pending`, although `repo/komoot.rs:55-57` describes it
  as not edit-pending.
- A trip deleted after the backup's snapshot is reported as damage on the server
  (`backup/client.rs:52-53`). Photos added between a deletion's listing and its
  transaction keep their files (`FilesAccounted` counts them as loose).
- A check that read a line before its re-import may propose after the re-import's
  check forgot, so a proposal can rest on replaced geometry; a waypoint moved by
  hand is not checked again.
- `SummaryOfReach` (in `Sharing`) does not hold: the summary of a share's tags
  reads in two steps (`server/share.rs:240`), so it can show a tag that the share
  has ceased to reach, although `migrations/0020` has "every check agree".
- The lockout counts from the start of the tripping attempt, not from its end. A
  session left alone lives up to an answer's delay longer or shorter
  (`LivesWhileUsed` grants it `Patience`; `config.rs` says "never"). A request in
  flight at a sign-out and answered later with a renewal signs the browser in
  again; a late 401 of an old session signs out a new one (`ui/main.rs`).
- A tour that *leaves* Komoot during a paged listing moves another one past the
  page that was to name it: `ListsWhatStayed` is stated for listings during which
  none left.
- The export's removal pass "trashes items whose record is gone"
  (`server/qmapshack/reconcile.rs:1-4`). Of two overlapping runs the one with the
  older lists also trashes the item of a record that has come since and that the
  other run has just inserted; the next run links it again. `RemovesOnlyTheGone`
  excepts exactly these items (`late`); without the exception it fails.
- A copy cut off half way counts among `MIN_KEPT`, and two export runs of one
  second write the same copy (`CanGoBack` names both).
- The share form says that a link made for one selection "is never shown as if it
  were the next one's" (`ui/share.rs`); it is, when the selection changes while
  the request is under way.
- On the import screen, closing the form drops the handler of an addition, so the
  screen it came from is not told; photos picked while an earlier pick is read
  (`ui/import/steps.rs:153-179`) may be lost to it; a cancelled import that ends
  late empties the collection chosen since; a confirmation whose answer is lost is
  confirmed again as a second trip, against `ui/import.rs:197-207`. After a failed
  second review the first one's "up to date" stays (`ui/import/review.rs`).
- "Linking marks planned trips and collection tracks anew"
  (`ui/selection_bar.rs:53`) and "`on_linked` lets the list clear its selection
  and read its marks anew" (`ui/link_panel.rs:23`): the lists to read anew are
  chosen by the selection at the answer, not the one that was sent
  (`ui/selection_bar.rs:54-58`). Unpick the tracks while the request is under
  way, and the collections keep their old marks until something else reads them.
  `ListsWhatMatches` excepts that list until then (`astray`), as it does the
  lists of a change whose answer nobody heard: the panel was closed, or a second
  press's request was dropped with the panel that the first answer closed (no
  panel is disabled while its request is out).
- On the links screens, a page left while a settling is under way leaves the
  menu's count stale until the next change of screen.

### Bounds, and why they are enough

- One Komoot tour in `komoot_server`: link rows never refer to each other, and a
  run treats its tours one after the other. What a second tour adds is the order
  of work and the selection, which the larger instance above has, and the
  theorems hold for any number. Two trip ids let a tour be deleted and return;
  two sync slots let a call of the first land in the second.
- One trip id and one photo per trip in `backup_run`: keys of different trips or
  ordinals never meet, and a rolled-back id is handed out again within the bound.
  Two uploads are the pair that can collide; an upload slot serves again and
  again. The laptop's runs are followed beside one upload at a time.
- `serving_run`: with a queue of one, two requests fill it; three records are a
  full batch, one more, and one dropped; the kill may come anywhere, the stop in
  the second life too. `TTL = 0` lets the sweep take a parse a tick after it was
  parked.
- `collections_run` has the two confirmations that can race for one upload, and
  two that race for one collection. One upload holds one item, so a
  confirmation changes one item and drops others.
- `links_run` has one item: a link joins two ends, and the checks treat pairs
  independently. Trip to trip, recorded trip to item and planned trip to item are
  all there.
- `export_run` has a trip and a waypoint, as kinds meet in folders and in the
  removal passes and these are the two ways to tell a change (by the comment, by
  the hash as well), and enough changes for a record to change under the run and
  back, or to go and another to come. One write of another run's is enough to
  undo any one step of this one; the theorems hold for any number. A run follows
  a run without bound. With a track as well (`HasTrack = TRUE`) and
  `MaxBeside = 0` it passes by hand.
- `timed_run` follows each part to its own tick (`MCLasts`): a share's expiry, a
  lockout with a session's half life and whole life (2 and 3), a backoff of 1 or
  2, three copies and a fourth. Larger instances were checked by hand: the gate to
  tick 4 (1.6 million states), 3 tours in pages of 2 (3.1 million), two exports
  beside each other (1.2 million).
- `browser_run` (969,208 states, under three minutes): four events of the owner's
  reach a second choice of a file beside a first one's upload and confirmation, a
  filter changed under a read under an action, and a second trip under the first
  one's upload; three clicks on the links' screens an action on each of two
  pages. By hand: the list alone, with `ListSpec`, one item of each sort in pages
  of 2 and 5 moves, which is what a link answered after its track was unpicked
  takes (255,288 states, a minute); the trip screen to 5, the links' screens to 4
  clicks, three files made on the import screen.
- `figures_run`: segments from 9 starts to 169 ends, both sides of zero, cells of
  1, 2 and 3, looked at from 361 places - every slope up to 7 and every corner
  case of the walk is among them; trips of 4 points against 6 plans in pieces of
  2, with thresholds scaled so that each of the four ways to follow a plan
  decides some; tracks of 4 points, in any order of 4 times, each untimed or not,
  under 3 offsets or an unknown one, which skip hours and repeat them, and a
  camera's offset known, unknown or beyond the widest; profiles of 6 elevations
  out of 0 to 5 under dips of 2 or 80 percent.
- Counters are bounded in guards (`MaxTrip`, `MaxPhotos`, `MaxColl`, `MaxItem`,
  `MaxUpload`, `MaxClicks`, `MaxEvents`, `MaxMoves`, `MaxTime`, `MaxRecords`,
  `MaxKills`, `MaxChange`, `MaxOwner`, `MaxBeside`, `MaxFolder`, `MaxWork`,
  `MaxSlot`, `MaxVersion`, `MaxChoices`, `MaxParked`, `MaxMade`, `MaxPicks`,
  `MaxStored`, `MaxValue`, `MaxTrack`, `MaxProfile`, and `Trips` for imports).
  Where they stop the model although the program goes on, the configuration turns
  deadlock checking off.
- Symmetry is used only in runs without liveness properties, over values no
  definition tells apart. Tours are left out of it because `Kind` and `AppTours`
  tell them apart.

### Fairness

`komoot_live`: `Halt` is weakly fair, as a Komoot
call times out and so a run ends. `StartSync`, the two listings and each push
step are strongly fair: the owner keeps pressing "Sync now", and a step possible
again and again one day succeeds - the deletion of a tour only while Komoot still
holds it. Nothing is assumed of the owner's edits, of the pull or of calls that
outlived their request. Under these an entry of a tour Komoot has lost still
blocks the queue for ever - ADR-0021 accepts halting on the first failure - so
the properties except it (`EditBlocked`, `DeleteBlocked`). The
run has one tour: an entry that waits behind another's failures is not among what
it shows.

`serving_run`: the steps of a request once begun, of the writer's task, of
`main` and of a connection being closed are weakly fair, because the runtime runs
every task that is ready. The signal, a kill, an arrival and the lapse of
patience are not.

No other run assumes any.

### Mutants

For every property of a passing run there is a mutant in the module it is about:
an operator, marked `\* Mutant:`, that stands in for one definition as a
plausible bug would (a dropped guard, a reused id, a digest of ids only), and
makes TLC find that property violated under the same configuration.

## 4. What is proved

Every theorem is about the specification of its component, for any values of the
constants that satisfy the `ASSUME`s of the component's module (TLC evaluates
them on every run). Those say no more than that sorts are disjoint, bounds are
numbers, `None` is no other value, and, where the code has such constants, how
they are related (`Gate`: a session outlives its renewal; `LinkScreen`: a pair
has a trip). Two kinds of statements assume more and say so.

Each component's argument is one inductive invariant, defined at the end of its
module under "Strengthening", checked with TLC on the component's run before it
was proved. The proofs have a lemma per action, and under it a step per conjunct
that the action disturbs; actions that only move a process on share one lemma.

### KomootSync

`KomootSyncProofs`, about `Spec`:

| Theorem | Statement | Rests on |
|---|---|---|
| `TypeCorrect` | `[]TypeOK` | `Inductive` |
| `LinksConsistent` | `[]LinkConsistent` | `Inductive` |
| `OneSyncAtATime` | `[]OneSync` | `Inductive` |
| `LiveToursStay` | `NeverDeletesLiveTour` | `Inductive` |
| `EditsAreSentFirst` | `[]EditsKept` | `EditInductive` |
| `OwnersWordIsKept` | `[]OwnersWordKept` | `WordInductive` |
| `DeletedStaysDeleted` | `[]NoResurrection`, if there is no backfill | `PullInductive` |
| `ArchiveKeepsLifecycle` | `KeepsLifecycle`, the refinement of `TourLifecycle`, if there is no backfill | `PullInductive` |

`Inductive == TypeOK /\ LinkConsistent /\ OneSync /\ Working /\ Tombstones`.
`LinkConsistent` alone is not inductive: that a run forgets only rows without a
trip needs to know that the tours in its hands are still pending deletion, which
needs that no other run works (`OneSync`) and what each phase knows of its work
(`Working`). That a deletion at Komoot hits no live tour needs that tombstones,
and calls under way that outlived a run, are of tours the owner deleted
(`Tombstones`, `LateOf`). The owner's edits add what a push holds in its hands
(`PushHolds`); their privacy choices add that a choice which is not queued any
more is what Komoot holds and what any listing under way says (`ChoicesHold`);
the pull adds that a tour to be pulled is neither linked nor deleted
(`PullHolds`).

Two statements assume that there is no backfill, and need to: a backfill that has
fetched a tour may insert it after a sync imported it, the owner deleted that
trip and a sync forgot its row (`NoResurrection` fails in 23 states).
`komoot_server`, which checks them, has none either; the other theorems are about
any number of backfills, review screens and requests. That a chosen privacy
stands excepts two kinds of tours by name: those that raced a push (`raced`), and
those pushed while a review screen or a backfill had yet to apply a listing from
before the push (`outdated`). Both happen: section 3 has the runs.

### PhotoStore and Backup

`BackupProofs`, about `Spec` of `PhotoStore` and `BackedUp` of `Backup`:

| Theorem | Statement |
|---|---|
| `PhotosInductive`, `PhotoTypes` | `Spec => []Inductive`, `[]TypeOK` |
| `RowsHaveFiles` | `Spec => []PhotosKept` |
| `RowsHaveTheirOwn` | `Spec => []KeysDistinct` |
| `NoFileUnaccounted` | `Spec => []FilesAccounted` |
| `BackupStaysSound` | `BackedUp => []BackupInductive` |
| `BackupIsWhole` | `BackedUp => []BackupWhole` |
| `BackupLeavesTheServer` | `BackedUp => [](PhotosKept /\ FilesAccounted)` |
| `PreviousIsKept` | `BackedUp => PreviousKept` |

A photo's number is how many its trip has, so a key is new because rows are
numbered without gaps (`Numbered`), because the upload that holds the write lock
counts on from there (`Pending`), and because a removal of files follows the
trip's own deletion for good (`Removing`). The backup's directory then holds only
keys of numbers already given (`HeldIsOld`), so what was fetched is never taken
for a photo still to come (`HeldIsRight`), and a run fetches all its snapshot
names before it removes what the snapshot does not name (`OnCourse`).

### StagedImport and Serving

`ServingProofs`, about `Spec` of `Serving`, which runs `StagedImport`'s requests:

| Theorem | Statement | Rests on |
|---|---|---|
| `ImportedAsShown` | `[]ImportsWhatWasShown` | `StagedInductive` |
| `FlushIsWhole` | `[]FlushKeepsAll` | `LogInductive` |

An id names one file for good because ids are never handed out twice
(`IdsNameOneFile`, migration 0017), and a file is in one place (`OnePlace`) because
the transaction that makes its trip takes its row. The log loses nothing on a
flush because a flush is sent when no request is left to answer and so is the
last in the queue (`FlushIsLast`), and what is under way is in the order of the
answers (`InOrder`).

### Collections and Links

`CollectionsProofs` and `LinksProofs`, about `Spec` of each:

| Theorem | Statement |
|---|---|
| `CollectionsTypeCorrect` | `[]TypeOK` |
| `AppliedOnce` | `[]ImportedOnce` |
| `LosesNothingUnseen` | `LosesOnlyWhatWasShown` |
| `ImplementsItemTable` | `KeepsItemTable`, the refinement |
| `LinksStaySound` | `[]LinksInductive` |
| `NoPairIsOverlooked` | `[]NothingOverlooked` |
| `OwnersLinksStay` | `LinksKept` |

`Inductive == TypeOK /\ ImportedOnce /\ Unapplied /\ Decided` of `Collections`:
what still waits, and what was never parked, was not applied; so taking the
upload in the transaction that applies it is what makes one application the
last. A confirmation's digest is of what was shown, and its decisions name only
what was shown (`Decided`). `Store` finds the digest unchanged, so the collection
then *is* what was shown; the lemma `Storing` says so, and everything about
`Store` cites it. The refinement maps a step that changes the tables to `Entry`
or `Removal` (lemmas `Enters`, `Removes`) and every other step to a stutter.

`NothingOverlooked` is about what is left when all checks are over. What holds
while they cross is `SeenFromEitherEnd`: of two checks that have read one end
each and have looked at the other's table, one found the pair; and a check that
looked and found nothing leaves the other end to be checked. The attempt to prove
it found a gap in the model's history: with three requests beside each other, a
check may forget the proposals of an item between another check's look and its
proposal (two requests, which the run has, never do this). A check's `fresh` now
keeps the ends whose proposals stand (`Unread`).

### QMapShackExport

`QMapShackExportProofs`, about `Spec`:

| Theorem | Statement |
|---|---|
| `ExportStaysSound`, `ExportTypeCorrect` | `[]ExportInductive`, `[]ExportTypeOK` |
| `LeavesTheOwners` | `NothingForeign` |
| `TrashesOnlyTheGone` | `RemovesOnlyTheGone` |
| `MirrorsTheArchive` | `[]CleanRunMirrors` |

That only the gone are removed needs that a record which came after its list was
read has no item yet, unless another run inserted it (`NewHaveNoItem`), and that
ids are not handed out again (`Ledger`). That a clean run mirrors the archive is
carried along the run while nothing but the run changes anything: where it has
got to in the folders (`OnItsPath`), what it found of the item in hand (`Found`),
and what it has already achieved for the records behind it (`Settled`,
`Achieved`).

### Sharing, Gate, TourListing, RollingBackups

`TimedProofs`, about `Spec` of `Timed`, with
`TimedInductive` the four parts' invariants side by side:

| Theorem | Statement | Rests on |
|---|---|---|
| `TimedStaysSound` | `[]TimedInductive` | |
| `LockoutHolds` | `[]GuessesArePaced` | the failures counted are the last guesses, judged after the lockout the guess before them set off (`Paced`) |
| `SessionSlides` | `[]LivesWhileUsed` | a cookie on its way is no newer than the jar's but for `Patience` (`Dated`) |
| `ExportCanBeUndone` | `[]CanGoBack` | while a second lasts its copy stays, and two runs in it are noticed (`OwnSecond`) |
| `ListingIsComplete` | `[]ListsWhatStayed` | a tour that stayed was read or is behind the pages that were (`NoneSlipsBy`) |
| `CoveredIsShown` | `[]ShowsWhatWasCovered` | only what was covered is lost, and it does not come back (`LostForGood`) |
| `ClosedForGood` | `NeverReopens` | names once used stay used (`NamesUsed`) |
| `SlotsAreApart` | `Throttled` | each slot in hand is a gap before the next allowed one (`Chained`) |

### The browser

`BrowserProofs`, about `BrowserSpec`:

| Theorem | Statement |
|---|---|
| `LinkScreensStaySound` | `[]LinkScreenInductive` |
| `MapKeepsUp` | `[]MapFollowsLinks` |
| `ProposalsKeepUp` | `[]ProposalsAreCurrent` |
| `TripScreenStaysSound` | `[]DetailInductive` |
| `GalleryKeepsUp` | `[]GalleryIsCurrent` |
| `OnlyAlteredIsSaved` | `SavesOnlyAltered` |
| `ListScreenStaysSound` | `[]ListInductive` |
| `ListKeepsUp` | `[]ListsWhatMatches` |
| `ImportScreenStaysSound` | `[]ImportInductive` |
| `FilesAreImportedOnce` | `[]ImportedOnce` |
| `NothingStaysParked` | `[]NothingLeftParked` |

Each screen's invariant says of every read: it is current, or it is under way
again, or somebody whose end will read it again is still at work, or the screen
was told of no change (`UpToDate`, `GalleryFollows`, `UpToKey`). Beside that it
says what an answer under way can be of (`PhotosFit`, `ReadsFit`), what a
selection and its bar hold (`BarFollows`), and that the map is or will be drawn
from what is ticked (`DrawsTicked`). The screens not open do not move
(`TripsAway`, `ListAway` of `Browser`).

The import screen's argument is another. A choice of a file is a token: it is in
the question that parks it, in a parked row, in the preview, in the confirmation
or in the trip made of it, and in one of them at most (`InOnePlace`), because a
row is taken in the transaction that makes the trip, and a file is parked again
only when the archive said its row is gone. Where an answer is lost the screen
cannot know, and the choice leaves the promise (`unheard`). Nothing stays parked
because each parked row is the one shown or is in the hands of a handler that
will answer or cancel it (`RowsWatched`), and of each of the screen's handlers one
is at work at a time (`OneAtATime`).

### The algorithms

`ServingProofs`, about `FiguresSpec`:

| Theorem | Statement |
|---|---|
| `FiguresAreTyped` | `[]FiguresTypes`, a definition of `ServingProofs` |
| `NoRiseIsOverlooked` | `[]NoRiseOverlooked` |
| `ClocksAreRead` | `[]ReadsTheClock` |
| `GridMissesNothing` | the grid answers as looking at every segment does, for one line and position |
| `NearnessIsJudged` | `[]JudgesWhatIsNear` |

These hold for a track of any number of points, a profile of any length, and a trip
and a plan of any length. They assume of the constants (`FiguresAssumption`) that
times, offsets, elevations and positions are whole numbers, a dip's height is one
that is not negative, its share is at most the whole, tolerances and pieces are
more than nothing, and the corners of trips and plans lie whole pieces apart along
the axes, as the module measures lines; of the thresholds by which a trip is
judged, nothing. All go by induction on the points, over sets of numbers (lemma
`Induction`, from the well-foundedness of `<`); that the functions defined by
recursion exist at all is proved the same way (`WalkExists`, `ForceExists`,
`Recursion`).

- *Climbs.* `NoneOverlooked` is what holds at each point of the single pass. Beside
  what is found and the climb under way it speaks of a rise still going on: if it
  began before the climb's low point, it began no lower (else the low point, moved
  on, would gain less than the rise and the rise would be lost). Of the four ways
  to go on from a point - the top moves, the climb ends, the low point moves, a
  dip - each has its lemma.
- *Photo placement.* Sorted by time (`TimedInOrder`: a point's place is how many
  come before it), the points' offsets in force are those of the last known one
  (`ForceIsLastKnown`), each point is in a stretch that began with its offset
  (`StretchStart`), and so each instant on the track falls in the stretch of the
  offset then in force (`SpanOf`) and in no other (`OffsetInSpan`). The stretches
  come one after the other (`SpansInOrder`), so the first that the clock's reading
  falls in gives the first instant the clock showed it (`ReadsFirst`).
- *The grid.* A point within the tolerance of a segment's nearest point is in that
  point's cell or one beside it (`NearCell`), so it is enough that a segment is
  filed in every cell that any of its points lies in (`FilesWhereItGoes`; points
  are fractions `s` of `L` along). That the walk has filed such a cell, or has it
  ahead with boundaries enough to go, holds at each step (`Looks`, `Heads`): the
  boundary before the cell is no further along than the point, the one after it no
  nearer (`BoundaryBefore`, `BoundaryAfter`), so of the two axes' boundaries the
  walk crosses the right one first, unless both are at the point, a corner, where
  the cells beside it are filed too (`KeepsHeading`). All of it is exact: the code
  compares rounded fractions and takes two as equal within 1e-9.
- *Directions.* A line's pieces from its other end are the same, backwards
  (`PiecesFromEnd`). Of two runs along them from both ends, what each covered and
  the stretch the two have between them come to the same when the next piece is
  counted to one or to the other (`Balanced`), and so a whole run from either end
  does (`EitherWay`). The other line is near the same positions from its other end
  (`ReachesFromEnd`, by the grid and a segment's symmetry), and a run of reached
  points is as long counted from there (`LongRunEitherWay`). On a flat plane: see
  section 2.

### Only model-checked

- *Liveness* (`EditsReachKomoot`, `DeletesReachKomoot`, `StopsClean`): fairness and
  `ENABLED` are beyond the prover.

## 5. Not modelled, and why

- *Pure data*: filters and listings, name and activity suggestions, thumbnails
  and image metadata, moving time, profiles and statistics, QMapShack's byte
  format, the score that matches an import's items, the projection of degrees,
  time-zone lookups, the per-activity rules of climbs. No state; floating-point
  inputs or bytes; covered by unit tests.
- *Single-row updates*: placing a photo by hand, the backfill of capture times, a
  collection's name. One statement by id, nothing read before.
- *Offline tools*: the builds of places and ground data, `komoot_check`.
- *Libraries and services*: SQLite (its lock, cascades and sequences appear as
  guards and effects; when its WAL goes is taken from the comment on `close`),
  Komoot (what the client can observe), Dioxus (resources, scopes, handlers).
- *Other screens*: statistics, tags, shares, collections, the viewer, the review
  of an import into a collection, sign-in and the menu. Each reads on entry and
  sends one request per button; what those requests may do beside each other is
  in the server's modules. Of the modelled screens, layout, maps and charts.
- *Security properties* of sign-in and shares beyond the timing of the lockout and
  the life of a link: signatures, password hashing, tokens.
- *Start-up*: configuration and schema migrations. What the migrations set up is
  part of the modules that rely on it.

## 6. Plan

Done, in this order: `KomootSync` with `TourLifecycle` and its proofs;
`PhotoStore`; `Backup`; `Collections` with `ItemTable` and its proofs; `Links`;
`QMapShackExport`; `StagedImport` and `Serving`; `Sharing`, `Gate`,
`TourListing` and `RollingBackups`; the screens; the algorithms; edits of a
selection.

Proved since, component by component: all of section 4.

Next, modelling: the review of an import into a collection
(`ui/import/review.rs`), the collection's screen, and the name and activity of a
collection edited beside an import.

The project keeps to a dozen runs: a new one replaces one whose question has
been answered for good.

## 7. Running it

    tlc -config KomootSync_server.cfg MCKomootSync
    tlapm KomootSyncProofs.tla      # BackupProofs, BrowserProofs, CollectionsProofs,
                                    # LinksProofs, QMapShackExportProofs,
                                    # ServingProofs, TimedProofs likewise

`PROJECT.json` gives the module and configuration of every run; `Serving` is run
as it is. With two workers the runs take between a few seconds and three minutes
each, the proofs between half a minute and three and a half, `ServingProofs` and
`BrowserProofs` between ten minutes and a quarter of an hour.
