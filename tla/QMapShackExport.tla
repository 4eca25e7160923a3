-------------------------- MODULE QMapShackExport --------------------------
(***************************************************************************)
(* The laptop's export of the archive into a QMapShack database: two lists *)
(* read over HTTP, the target opened, each record's item reconciled alone, *)
(* then one removal pass per kind of record.  The archive changes, the     *)
(* owner works in QMapShack and other runs of the exporter write between   *)
(* any two steps: a run takes no lock.  Of the other runs, however many,   *)
(* the module has what each writes to the target; "the run" is any one.    *)
(* An item is named by its key (`keyqms`), its row by how often an item    *)
(* of that key has been inserted, as no row id is used twice.              *)
(***************************************************************************)
EXTENDS Sequences, FiniteSets, FiniteSetsExt

CONSTANTS
    Keys,       \* records: their kind and id give the item's keyqms
    Order,      \* Keys in the order the lists hold them
    KindOf,     \* "trip", "track" or "waypoint" of a key
    Foreign,    \* items of the target that are not the exporter's
    Metas,      \* what an item's name and comment tell beside the geometry
    Geoms,      \* geometries
    Names,      \* of folders
    PathOf,     \* the folder path (names) of a record, by kind and meta
    OwnerNote,  \* a comment only the owner writes, in QMapShack
    MaxFolder,  \* bound on the folders' ids
    MaxChange,  \* bound on the archive's changes
    MaxOwner,   \* bound on what the owner does in QMapShack
    MaxBeside,  \* bound on what other runs write
    None

Kinds == <<"trip", "track", "waypoint">>
Root == 0
Folders == 1 .. MaxFolder
Items == Keys \cup Foreign
Records == [meta : Metas, geom : Geoms]
FolderRow == [parent : {Root} \cup Folders, name : Names]
ItemRow == [comment : {OwnerNote} \cup (Metas \X (Geoms \cup {None})),
            geom : Geoms \cup {None}]

ASSUME ExportAssumption ==
    /\ Order \in Seq(Keys)
    /\ \A k \in Keys : \E i \in 1 .. Len(Order) : Order[i] = k
    /\ KindOf \in [Keys -> {"trip", "track", "waypoint"}]
    /\ PathOf \in [{"trip", "track", "waypoint"} -> [Metas -> Seq(Names)]]
    /\ Keys \cap Foreign = {}
    /\ MaxFolder \in Nat
    /\ None \notin Keys \cup Records \cup FolderRow \cup ItemRow

VARIABLES
    archive,  \* trips, collection tracks and waypoints: the record, else None
    seen,     \* every record a key has had; none for an id never handed out
    file,     \* the target: "absent", "empty", "foreign", "qmapshack"
    folders,  \* folders and folder2folder: [parent, name], else None
    lastFolder,  \* the folders' sqlite_sequence
    items,    \* items: [comment, geom], else None
    born,     \* the items' sqlite_sequence: how many rows a key has had
    links,    \* folder2item; an item without a link is in the trash
    pc, list, todo, known, cur, pass, stale,  \* the run's locals
    clean,    \* ExportOutcome.failed = 0
    rest,     \* nothing but the run has changed anything since its first list
    late,     \* keys another run inserted after the run had read their list
    changes, owned, beside  \* counters of the three bounds

archiveVars == <<archive, seen>>
targetVars == <<file, folders, lastFolder, items, born, links>>
runVars == <<pc, list, todo, known, cur, pass, stale, clean>>
vars == <<archiveVars, targetVars, runVars, rest, late, changes, owned, beside>>

Idle == [key |-> None, at |-> Root, path |-> <<>>, row |-> 0, new |-> FALSE,
         moves |-> FALSE, geom |-> None]
NoList == [k \in Keys |-> None]

\* items.comment and items.name as the exporter builds them: a track's
\* comment carries the stats and bounds that tell its geometry.
Comment(k, r) == <<r.meta, IF KindOf[k] = "waypoint" THEN None ELSE r.geom>>
Path(k, r) == PathOf[KindOf[k]][r.meta]

Init ==
    /\ archive = NoList
    /\ seen = [k \in Keys |-> {}]
    /\ file \in {"absent", "foreign", "qmapshack"}
    /\ folders = [f \in Folders |-> None]
    /\ lastFolder = 0
    /\ items = [i \in Items |->
                  IF i \in Foreign /\ file # "absent"
                  THEN [comment |-> OwnerNote, geom |-> None] ELSE None]
    /\ born = [k \in Keys |-> 0]
    /\ links = [i \in Items |-> IF items[i] = None THEN {} ELSE {Root}]
    /\ pc = "idle" /\ list = NoList /\ todo = {} /\ known = <<>>
    /\ cur = Idle /\ pass = 0 /\ stale = {} /\ clean = TRUE
    /\ rest = TRUE /\ late = {} /\ changes = 0 /\ owned = 0 /\ beside = 0

----------------------------------------------------------------------------
\* The archive.

Unused(k) == seen[k] = {}

\* A trip's geometry is never replaced; a track's and a waypoint's are.
Change(k, r) ==
    /\ changes < MaxChange
    /\ changes' = changes + 1
    /\ IF r = None THEN archive[k] # None
       ELSE IF archive[k] = None THEN Unused(k)
       ELSE archive[k] # r /\ (KindOf[k] = "trip" => r.geom = archive[k].geom)
    /\ archive' = [archive EXCEPT ![k] = r]
    /\ seen' = [seen EXCEPT ![k] = IF r = None THEN @ ELSE @ \cup {r}]
    /\ rest' = FALSE
    /\ UNCHANGED <<targetVars, runVars, late, owned, beside>>

----------------------------------------------------------------------------
\* The owner in QMapShack, on the same file.

Present == {f \in Folders : folders[f] # None}
Child(p, n) == {f \in Folders : folders[f] = [parent |-> p, name |-> n]}

Owner ==
    /\ owned < MaxOwner
    /\ owned' = owned + 1
    /\ file = "qmapshack"
    /\ rest' = FALSE
    /\ UNCHANGED <<archiveVars, runVars, file, lastFolder, born, late, changes, beside>>

OwnerFiles(i, where) ==  \* moves, copies or trashes an item
    /\ Owner
    /\ items[i] # None /\ where # links[i]
    /\ where \subseteq {Root} \cup Present
    /\ where = {} \/ \E f \in where : where = {f} \/ where = links[i] \cup {f}
    /\ links' = [links EXCEPT ![i] = where]
    /\ UNCHANGED <<folders, items>>

OwnerEdits(i) ==
    /\ Owner
    /\ items[i] # None /\ items[i].comment # OwnerNote
    /\ items' = [items EXCEPT ![i].comment = OwnerNote]
    /\ UNCHANGED <<folders, links>>

OwnerEmptiesTrash ==
    /\ Owner
    /\ \E i \in Items : items[i] # None /\ links[i] = {}
    /\ items' = [i \in Items |-> IF links[i] = {} THEN None ELSE items[i]]
    /\ UNCHANGED <<folders, links>>

OwnerDropsFolder(f) ==
    /\ Owner
    /\ folders[f] # None
    /\ \A g \in Present : folders[g].parent # f
    /\ folders' = [folders EXCEPT ![f] = None]
    /\ links' = [i \in Items |-> links[i] \ {f}]
    /\ UNCHANGED items

----------------------------------------------------------------------------
\* Another run of the exporter, started by hand or by the scheduler: its
\* lists are of any earlier moment, its folders may have been dropped since.

Heard(k) ==  \* the list that holds k has been read
    \/ pc \notin {"idle", "trips"}
    \/ pc = "trips" /\ KindOf[k] = "trip"

Another ==
    /\ beside < MaxBeside
    /\ beside' = beside + 1
    /\ rest' = FALSE
    /\ UNCHANGED <<archiveVars, runVars, changes, owned>>

AnotherOpens ==
    /\ Another
    /\ \/ file = "absent" /\ file' = "empty"
       \/ file = "empty" /\ file' = "qmapshack"
    /\ UNCHANGED <<folders, lastFolder, items, born, links, late>>

Writes ==
    /\ Another
    /\ file = "qmapshack"
    /\ UNCHANGED file

AnotherMakesFolder(p, n) ==
    /\ Writes
    /\ lastFolder + 1 \in Folders /\ p \in {Root} \cup Present
    /\ lastFolder' = lastFolder + 1
    /\ folders' = [folders EXCEPT ![lastFolder'] = [parent |-> p, name |-> n]]
    /\ UNCHANGED <<items, born, links, late>>

\* A record it listed, with the geometry it fetched then or later.
AnotherContent(k, r, g) ==
    /\ r \in seen[k]
    /\ IF KindOf[k] = "waypoint" THEN g = r.geom ELSE \E s \in seen[k] : g = s.geom
    /\ items' = [items EXCEPT ![k] = [comment |-> Comment(k, r), geom |-> g]]

AnotherInserts(k, r, g, f) ==
    /\ Writes
    /\ items[k] = None /\ f <= lastFolder
    /\ AnotherContent(k, r, g)
    /\ born' = [born EXCEPT ![k] = @ + 1]
    /\ links' = [links EXCEPT ![k] = {f}]
    /\ late' = IF Heard(k) THEN late \cup {k} ELSE late
    /\ UNCHANGED <<folders, lastFolder>>

AnotherUpdates(k, r, g) ==
    /\ Writes
    /\ items[k] # None
    /\ AnotherContent(k, r, g)
    /\ UNCHANGED <<folders, lastFolder, born, links, late>>

AnotherFiles(k, f) ==
    /\ Writes
    /\ items[k] # None /\ f <= lastFolder
    /\ links' = [links EXCEPT ![k] = {f}]
    /\ UNCHANGED <<folders, lastFolder, items, born, late>>

AnotherTrashes(k) ==
    /\ Writes
    /\ links[k] # {}
    /\ links' = [links EXCEPT ![k] = {}]
    /\ UNCHANGED <<folders, lastFolder, items, born, late>>

----------------------------------------------------------------------------
\* The run: lists, target, items, removals.

ReadTrips ==
    /\ pc \in {"idle", "done"}
    /\ pc' = "trips"
    /\ list' = [k \in Keys |-> IF KindOf[k] = "trip" THEN archive[k] ELSE None]
    /\ todo' = {} /\ known' = <<>> /\ cur' = Idle /\ pass' = 0 /\ stale' = {}
    /\ clean' = TRUE
    /\ rest' = TRUE /\ late' = {}
    /\ UNCHANGED <<archiveVars, targetVars, changes, owned, beside>>

Step(from, to) ==
    /\ pc = from
    /\ pc' = to
    /\ UNCHANGED <<archiveVars, changes, owned, beside, rest, late>>

ReadCollections ==
    /\ Step("trips", "listed")
    /\ list' = [k \in Keys |-> IF KindOf[k] = "trip" THEN list[k] ELSE archive[k]]
    /\ UNCHANGED <<targetVars, todo, known, cur, pass, stale, clean>>

SeesNoFile ==
    /\ Step("listed", "create")
    /\ file = "absent"
    /\ UNCHANGED <<targetVars, list, todo, known, cur, pass, stale, clean>>

\* Two steps on disk: the file, then one transaction with the schema, which
\* fails if another run's came first.
CreateFile ==
    /\ Step("create", "schema")
    /\ file' = IF file = "absent" THEN "empty" ELSE file
    /\ UNCHANGED <<folders, lastFolder, items, born, links>>
    /\ UNCHANGED <<list, todo, known, cur, pass, stale, clean>>

Opened ==
    /\ todo' = {k \in Keys : list[k] # None}
    /\ UNCHANGED <<folders, lastFolder, items, born, links>>
    /\ UNCHANGED <<list, known, cur, pass, stale, clean>>

Bootstrap ==
    /\ Step("schema", "next")
    /\ file = "empty"
    /\ file' = "qmapshack"
    /\ Opened

\* The version gate lets only QMapShack's own current format through.
OpenTarget ==
    /\ Step("listed", "next")
    /\ file = "qmapshack"
    /\ UNCHANGED file
    /\ Opened

\* The lists' next record.
First(S) == Order[Min({i \in 1 .. Len(Order) : Order[i] \in S})]

NextItem ==
    /\ todo # {}
    /\ LET k == First(todo)
           p == Path(k, list[k])
           hit == {f \in Folders : \E i \in 1 .. Len(known) : known[i] = <<p, f>>}
       IN IF hit # {}
          THEN /\ Step("next", "look")
               /\ cur' = [Idle EXCEPT !.key = k, !.at = Min(hit)]
          ELSE /\ Step("next", "walk")
               /\ cur' = [Idle EXCEPT !.key = k, !.path = p]
    /\ todo' = todo \ {First(todo)}
    /\ UNCHANGED <<targetVars, list, known, pass, stale, clean>>

\* ensure_folder_path, one segment: the oldest child of that name, or a new
\* folder in a transaction of its own, after a lookup that may be outdated.
Reached(f) ==
    /\ cur.path # <<>>
    /\ Step(pc, IF Len(cur.path) = 1 THEN "look" ELSE "walk")
    /\ cur' = [cur EXCEPT !.at = f, !.path = Tail(@)]
    /\ known' = IF Len(cur.path) = 1
                THEN Append(known, <<Path(cur.key, list[cur.key]), f>>) ELSE known
    /\ UNCHANGED <<file, items, born, links, list, todo, pass, stale, clean>>

Held == Child(cur.at, Head(cur.path))

Walk ==
    /\ pc = "walk" /\ Held # {}
    /\ Reached(Min(Held))
    /\ UNCHANGED <<folders, lastFolder>>

SeesNoFolder ==
    /\ Step("walk", "make")
    /\ cur.path # <<>> /\ Held = {}
    /\ UNCHANGED <<targetVars, list, todo, known, cur, pass, stale, clean>>

MakeFolder ==
    /\ pc = "make"
    /\ lastFolder + 1 \in Folders
    /\ lastFolder' = lastFolder + 1
    /\ folders' = [folders EXCEPT ![lastFolder'] = [parent |-> cur.at, name |-> Head(cur.path)]]
    /\ Reached(lastFolder')

\* What differs from what the target holds; a waypoint's hash tells its
\* content as well, the others' geometry is told by the comment alone.
Differs(k, r) ==
    \/ items[k].comment # Comment(k, r)
    \/ KindOf[k] = "waypoint" /\ items[k].geom # r.geom

\* Mutant: an item that is also linked elsewhere counts as placed.
PlacedToo(k) == cur.at \in links[k]
Placed(k) == links[k] = {cur.at}

Look ==
    LET k == cur.key
        new == items[k] = None
        writes == new \/ Differs(k, list[k])
        moves == ~new /\ ~Placed(k)
    IN /\ Step("look", IF writes THEN "fetch" ELSE IF moves THEN "relink" ELSE "next")
       /\ cur' = IF writes \/ moves
                 THEN [cur EXCEPT !.row = born[k], !.new = new, !.moves = moves] ELSE Idle
       /\ UNCHANGED <<targetVars, list, todo, known, pass, stale, clean>>

\* A waypoint is built from the list; a track's geometry is the archive's
\* of this moment, and missing (404) once its record is deleted.
Fetch ==
    /\ Step("fetch", "write")
    /\ KindOf[cur.key] # "waypoint" => archive[cur.key] # None
    /\ cur' = [cur EXCEPT !.geom = IF KindOf[cur.key] = "waypoint"
                                   THEN list[cur.key].geom ELSE archive[cur.key].geom]
    /\ UNCHANGED <<targetVars, list, todo, known, pass, stale, clean>>

\* The row looked up is still there, not a later one of the same key.
Same(k, row) == items[k] # None /\ born[k] = row

\* insert_item links the new item in the same transaction; update_item finds
\* no row if the owner has emptied the trash meanwhile, which is no error.
Write ==
    LET k == cur.key
        content == [comment |-> Comment(k, list[k]), geom |-> cur.geom]
    IN /\ Step("write", IF cur.moves THEN "relink" ELSE "next")
       /\ cur.new => items[k] = None
       /\ items' = [items EXCEPT ![k] = IF cur.new \/ Same(k, cur.row) THEN content ELSE @]
       /\ born' = [born EXCEPT ![k] = IF cur.new THEN @ + 1 ELSE @]
       /\ links' = [links EXCEPT ![k] = IF cur.new THEN {cur.at} ELSE @]
       /\ cur' = IF cur.moves THEN cur ELSE Idle
       /\ UNCHANGED <<file, folders, lastFolder, list, todo, known, pass, stale, clean>>

\* set_item_folder: the mapped folder's link, and no other.  A link to a row
\* that is gone names nothing.
Relink ==
    /\ Step("relink", "next")
    /\ links' = [links EXCEPT ![cur.key] = IF Same(cur.key, cur.row) THEN {cur.at} ELSE @]
    /\ cur' = Idle
    /\ UNCHANGED <<file, folders, lastFolder, items, born>>
    /\ UNCHANGED <<list, todo, known, pass, stale, clean>>

FailItem ==
    /\ pc \in {"walk", "make", "look", "fetch", "write", "relink"}
    /\ Step(pc, "next")
    /\ clean' = FALSE
    /\ cur' = Idle
    /\ UNCHANGED <<targetVars, list, todo, known, pass, stale>>

\* Removal, one namespace after the other.
\* Mutant: the removal lists every item that no record answers to.
AllItems(n) == Foreign \cup {k \in Keys : KindOf[k] = Kinds[n]}
Namespace(n) == {k \in Keys : KindOf[k] = Kinds[n]}

\* Mutant: every item is looked for among the trips.
ListedTrip(k) == list[k] # None /\ KindOf[k] = "trip"
Listed(k) == list[k] # None

RowOf(i) == IF i \in Keys THEN born[i] ELSE 0

ListStale ==
    /\ todo = {} /\ stale = {} /\ pass < Len(Kinds)
    /\ Step("next", "next")
    /\ pass' = pass + 1
    /\ stale' = {<<i, RowOf(i)>> : i \in {j \in Namespace(pass + 1) :
                    /\ items[j] # None /\ links[j] # {}
                    /\ j \in Keys => ~Listed(j)}}
    /\ UNCHANGED <<targetVars, list, todo, known, cur, clean>>

Unlink(i, row, ok) ==
    /\ <<i, row>> \in stale
    /\ Step("next", "next")
    /\ stale' = stale \ {<<i, row>>}
    /\ links' = IF ok /\ RowOf(i) = row THEN [links EXCEPT ![i] = {}] ELSE links
    /\ clean' = (clean /\ ok)
    /\ UNCHANGED <<file, folders, lastFolder, items, born, list, todo, known, cur, pass>>

EndRun ==
    /\ todo = {} /\ stale = {} /\ pass = Len(Kinds)
    /\ Step("next", "done")
    /\ UNCHANGED <<targetVars, list, todo, known, cur, pass, stale, clean>>

\* An unusable list, a target the gate refuses, an error that is not one
\* item's, or the end of the process.
Stop ==
    /\ pc \notin {"idle", "done"}
    /\ Step(pc, "idle")
    /\ list' = NoList /\ todo' = {} /\ known' = <<>> /\ cur' = Idle
    /\ pass' = 0 /\ stale' = {} /\ clean' = TRUE
    /\ UNCHANGED targetVars

Run ==
    \/ ReadTrips \/ ReadCollections \/ SeesNoFile \/ CreateFile \/ Bootstrap \/ OpenTarget
    \/ NextItem \/ Walk \/ SeesNoFolder \/ MakeFolder \/ Look \/ Fetch \/ Write \/ Relink \/ FailItem
    \/ ListStale \/ (\E item \in stale, ok \in BOOLEAN : Unlink(item[1], item[2], ok))
    \/ EndRun \/ Stop

Next ==
    \/ Run
    \/ \E k \in Keys, r \in Records \cup {None} : Change(k, r)
    \/ \E i \in Items, where \in SUBSET (Folders \cup {Root}) : OwnerFiles(i, where)
    \/ \E i \in Items : OwnerEdits(i)
    \/ OwnerEmptiesTrash
    \/ \E f \in Folders : OwnerDropsFolder(f)
    \/ AnotherOpens
    \/ \E p \in {Root} \cup Folders, n \in Names : AnotherMakesFolder(p, n)
    \/ \E k \in Keys, r \in Records, g \in Geoms, f \in Folders : AnotherInserts(k, r, g, f)
    \/ \E k \in Keys, r \in Records, g \in Geoms : AnotherUpdates(k, r, g)
    \/ \E k \in Keys, f \in Folders : AnotherFiles(k, f)
    \/ \E k \in Keys : AnotherTrashes(k)

Spec == Init /\ [][Next]_vars

----------------------------------------------------------------------------
\* Properties.

Placing == {"look", "fetch", "write", "relink"}
AfterLists == Placing \cup {"listed", "create", "schema", "next", "walk", "make", "done"}

\* Types of the tables and of the run's locals.
ExportTypeOK ==
    /\ archive \in [Keys -> Records \cup {None}]
    /\ seen \in [Keys -> SUBSET Records]
    /\ file \in {"absent", "empty", "foreign", "qmapshack"}
    /\ folders \in [Folders -> FolderRow \cup {None}]
    /\ lastFolder \in Nat
    /\ items \in [Items -> ItemRow \cup {None}]
    /\ born \in [Keys -> Nat]
    /\ links \in [Items -> SUBSET ({Root} \cup Folders)]
    /\ pc \in {"idle", "trips"} \cup AfterLists
    /\ list \in [Keys -> Records \cup {None}]
    /\ todo \subseteq Keys
    /\ known \in Seq(Seq(Names) \X Folders)
    /\ cur \in [key : Keys \cup {None}, at : {Root} \cup Folders, path : Seq(Names),
                row : Nat, new : BOOLEAN, moves : BOOLEAN, geom : Geoms \cup {None}]
    /\ pass \in 0 .. Len(Kinds) /\ stale \subseteq Items \X Nat
    /\ clean \in BOOLEAN /\ rest \in BOOLEAN /\ late \subseteq Keys

\* Whatever the exporter does, items outside its namespace and every folder
\* that is there stay as they are (ADR-0022, "never touch what it didn't
\* create").
NothingForeign ==
    [][Run => /\ \A i \in Foreign : items'[i] = items[i] /\ links'[i] = links[i]
              /\ \A f \in Folders : folders[f] # None => folders'[f] = folders[f]]_vars

\* A run sends an item to the trash only if its record is gone for good, and
\* not because it could not read a list, failed on the item, looked at the
\* wrong kind's list, or found a record changed since - with the one exception
\* the code does have: a record that came after this run's lists were read
\* and that another run, with later lists, inserted meanwhile.
RemovesOnlyTheGone ==
    [][Run => \A k \in Keys : links[k] # {} /\ links'[k] = {} =>
                 archive[k] = None \/ k \in late]_vars

\* Folder f is the one at path p.
At(f, p) ==
    \E chain \in [0 .. Len(p) -> {Root} \cup Folders] :
        /\ chain[0] = Root /\ chain[Len(p)] = f
        /\ \A i \in 1 .. Len(p) : /\ chain[i] \in Folders
                                  /\ folders[chain[i]] = [parent |-> chain[i - 1], name |-> p[i]]

Quiet == pc = "done" /\ clean /\ rest

\* After a run without failures beside which nothing changed (no record, no
\* work of the owner's, no write of another run's) the target shows exactly
\* the archive's records, each in its one folder under its present name and
\* comment - whatever earlier runs were stopped at, missed, failed on or did
\* to each other, and whatever the owner had done to the items.
CleanRunMirrors ==
    Quiet => \A k \in Keys :
        IF archive[k] = None THEN items[k] = None \/ links[k] = {}
        ELSE /\ items[k] # None /\ items[k].comment = Comment(k, archive[k])
             /\ KindOf[k] # "track" => items[k].geom = archive[k].geom
             /\ \E f \in Folders : links[k] = {f} /\ At(f, Path(k, archive[k]))

\* "A record that changes after the lists were read is caught up by the next
\* run" (server/qmapshack.rs): its geometry too.
CaughtUp ==
    Quiet => \A k \in Keys : archive[k] # None => items[k].geom = archive[k].geom

----------------------------------------------------------------------------
\* What every state keeps, from which the properties follow.

InHand == Placing \cup {"walk", "make"}

\* Records, listed ones too, are ones the archive has had, and an item is of
\* one; what is gone is linked nowhere; folders are numbered up to lastFolder.
Ledger ==
    /\ \A k \in Keys : /\ archive[k] # None => archive[k] \in seen[k]
                       /\ list[k] # None => list[k] \in seen[k]
                       /\ items[k] # None => seen[k] # {}
    /\ \A i \in Items : items[i] = None => links[i] = {}
    /\ \A f \in Folders : folders[f] # None => f <= lastFolder

\* A record that came after its list was read has no item yet, but from a
\* run with a later list.
NewHaveNoItem ==
    /\ \A k \in Keys : ~Heard(k) => list[k] = None
    /\ \A k \in Keys : Heard(k) /\ list[k] = None /\ archive[k] # None =>
          items[k] = None \/ k \in late
    /\ \A item \in stale : item[1] \in Keys /\ list[item[1]] = None

\* The run works on what it has listed, in a folder it has reached.
WorksOnListed ==
    /\ pc \in {"trips", "listed", "create", "schema"} => pass = 0 /\ stale = {}
    /\ \A k \in todo : list[k] # None
    /\ pc \in InHand => cur.key \in Keys /\ list[cur.key] # None
    /\ pc \in Placing => cur.at \in Folders
    /\ pc = "write" /\ KindOf[cur.key] = "waypoint" => cur.geom = list[cur.key].geom
    /\ pc = "done" => todo = {} /\ stale = {} /\ pass = Len(Kinds)

\* A trip's line is one, wherever it is held.
TripsHaveOneLine ==
    \A k \in Keys, r \in Records : KindOf[k] = "trip" /\ r \in seen[k] =>
        /\ \A s \in seen[k] : s.geom = r.geom
        /\ items[k] # None => items[k].geom = r.geom
        /\ pc = "write" /\ cur.key = k => cur.geom = r.geom

\* While nothing but the run changes anything: where it has got to ...
OnItsPath ==
    LET p == Path(cur.key, list[cur.key]) IN
    /\ \A i \in 1 .. Len(known) : At(known[i][2], known[i][1])
    /\ pc \in {"walk", "make"} => \E n \in 0 .. Len(p) : /\ At(cur.at, SubSeq(p, 1, n))
                                             /\ cur.path = SubSeq(p, n + 1, Len(p))
    /\ pc \in Placing => At(cur.at, p)

\* ... what it has found, or has already written, of the item in hand ...
Says(k) == /\ items[k] # None /\ items[k].comment = Comment(k, list[k])
           /\ KindOf[k] = "waypoint" => items[k].geom = list[k].geom

Found ==
    LET k == cur.key IN
    /\ pc \in {"fetch", "write", "relink"} => cur.row = born[k]
    /\ pc \in {"fetch", "write"} => /\ cur.new <=> items[k] = None
                                    /\ cur.moves <=> ~cur.new /\ links[k] # {cur.at}
    /\ pc = "relink" => Says(k)

\* ... and what is done: the items before it and the passes before this one.
Settled(k) == Says(k) /\ \E f \in Folders : links[k] = {f} /\ At(f, Path(k, list[k]))

Achieved ==
    /\ pc \in InHand \cup {"next", "done"} =>
          \A k \in Keys \ todo :
              list[k] # None /\ ~ (pc \in InHand /\ k = cur.key) => Settled(k)
    /\ \A k \in Keys, n \in 1 .. pass :
          KindOf[k] = Kinds[n] /\ list[k] = None =>
              items[k] = None \/ links[k] = {} \/ <<k, born[k]>> \in stale

Undisturbed ==
    rest => /\ \A k \in Keys : Heard(k) => list[k] = archive[k]
            /\ OnItsPath /\ Found
            /\ clean => Achieved

ExportInductive ==
    /\ ExportTypeOK /\ Ledger /\ NewHaveNoItem /\ WorksOnListed
    /\ TripsHaveOneLine /\ Undisturbed
=============================================================================
