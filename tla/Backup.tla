------------------------------- MODULE Backup -------------------------------
(***************************************************************************)
(* The laptop's backup run (US-40) beside the server of PhotoStore: it     *)
(* takes a snapshot of the database, fetches the photos the snapshot names *)
(* and the directory lacks, swaps the database in with a rename, and then  *)
(* removes the photos the snapshot does not name.  A run may stop at any   *)
(* step; the next one starts over in the directory it left.                *)
(***************************************************************************)
EXTENDS PhotoStore

VARIABLES
    phase,   \* what the run is doing: "idle", "fetch" or "sweep"
    snap,    \* the run's snapshot, still under its temporary name: its rows
    todo,    \* keys the run has yet to fetch, or to remove
    missing, \* Report::missing
    held,    \* photos/ of the backup: the bytes under each key, else None
    saved,   \* the backup's database: its rows, or None before the first one
    gone     \* history: keys a run asked for after their rows were deleted

backup == <<phase, snap, todo, missing, held, saved, gone>>
allVars == <<vars, backup>>

BackupInit ==
    /\ phase = "idle"
    /\ snap = {}
    /\ todo = {}
    /\ missing = {}
    /\ held = [k \in Key |-> None]
    /\ saved = None
    /\ gone = {}

Held == {k \in Key : held[k] # None}

\* The server answers with one consistent state of the database; photo_keys
\* reads the originals' and the thumbnails' keys out of it.
Snapshot ==
    /\ phase = "idle"
    /\ phase' = "fetch"
    /\ snap' = photos
    /\ todo' = Named(photos)
    /\ missing' = {}
    /\ UNCHANGED <<held, saved, gone>>

\* One key: kept if the directory has it, else fetched, else reported.
Fetch(k) ==
    /\ phase = "fetch"
    /\ k \in todo
    /\ todo' = todo \ {k}
    /\ held' = IF k \in Held THEN held ELSE [held EXCEPT ![k] = blob[k]]
    /\ missing' = IF k \in Held \/ blob[k] # None THEN missing
                                                 ELSE missing \cup {k}
    /\ gone' = IF k \in Held \cup Named(photos) THEN gone ELSE gone \cup {k}
    /\ UNCHANGED <<phase, snap, saved>>

\* Mutant: the database is swapped in before the photos are there.
AtOnce == TRUE
\* swap_in comes after the loop over the keys.
AllFetched == todo = {}

\* What remove_unnamed takes away.
Unnamed == Held \ Named(snap)

SwapIn ==
    /\ phase = "fetch"
    /\ AllFetched
    /\ phase' = "sweep"
    /\ saved' = snap
    /\ todo' = Unnamed
    /\ UNCHANGED <<snap, missing, held, gone>>

\* Mutant: files are removed while the old database is still in place.
SweepEarly(k) == phase # "idle" /\ k \in Unnamed
\* Files are removed only once the new database is in place.
Sweepable(k) == phase = "sweep" /\ k \in todo

Sweep(k) ==
    /\ Sweepable(k)
    /\ held' = [held EXCEPT ![k] = None]
    /\ todo' = todo \ {k}
    /\ UNCHANGED <<phase, snap, missing, saved, gone>>

\* The run reports and ends.
EndRun ==
    /\ phase = "sweep"
    /\ todo = {}
    /\ phase' = "idle"
    /\ snap' = {}
    /\ UNCHANGED <<todo, missing, held, saved, gone>>

\* The run fails or is interrupted; its Partial files go or are swept later.
Stop ==
    /\ phase # "idle"
    /\ phase' = "idle"
    /\ snap' = {}
    /\ todo' = {}
    /\ missing' = {}
    /\ UNCHANGED <<held, saved, gone>>

BackupStep ==
    \/ Snapshot \/ SwapIn \/ EndRun \/ Stop
    \/ \E k \in Key : Fetch(k) \/ Sweep(k)

BackedUp ==
    /\ Init /\ BackupInit
    /\ [][\/ Next /\ UNCHANGED backup
          \/ BackupStep /\ UNCHANGED vars]_allVars

-----------------------------------------------------------------------------
(* Properties.                                                             *)

\* The run's locals and the directory keep their types.
BackupTypeOK ==
    /\ phase \in {"idle", "fetch", "sweep"}
    /\ snap \subseteq Row
    /\ todo \subseteq Key /\ missing \subseteq Key
    /\ held \in [Key -> Contents \cup {None}]
    /\ saved = None \/ saved \subseteq Row
    /\ gone \subseteq Key /\ missing \subseteq gone

\* The backup holds each photo its database names, with the bytes of that
\* photo, unless a late write came before it was fetched or its trip was
\* deleted before it was (backup/client.rs run: fetch, then swap, then sweep;
\* trip ids never reused, so a held file is never an older photo's).
BackupWhole ==
    saved # None => \A r \in saved : \A k \in KeysOf(r) \ gone : Holds(held, r, k)

\* Until a run swaps its database in, it leaves every file that the backup's
\* database names as it is, and a swap changes no file (backup/client.rs:
\* "Until step 3 the previous backup is untouched but for new photo files").
PreviousKept ==
    [][saved # None =>
        \A r \in saved : \A k \in KeysOf(r) :
            held[k] # None => held'[k] = held[k] \/ saved' # saved]_allVars

\* docs/requirements.md, US-40: database and photos "match even when the
\* archive changes during a run".
Matches ==
    saved # None => \A r \in saved : \A k \in KeysOf(r) \cap Held :
        Holds(held, r, k)
-----------------------------------------------------------------------------
(* Strengthenings that make the invariants inductive (BackupProofs).       *)

\* The rows of the backup's database, and all the rows there are to compare.
Saved == IF saved = None THEN {} ELSE saved
Seen == photos \cup snap \cup Saved

\* A row the run has seen is still the server's unless its trip is deleted,
\* and no other row has ever had its number.
RowsRemembered ==
    /\ \A r \in snap \cup Saved :
           r.trip <= lastId /\ (r.trip \in trips => r \in photos)
    /\ \A r1, r2 \in Seen : r1.trip = r2.trip /\ r1.ord = r2.ord => r1 = r2

\* No photo still to come will get the key of a file in the directory.
HeldIsOld == \A k \in Held :
    /\ k.trip <= lastId
    /\ k.trip \in trips => k.ord < Cardinality(RowsOf(k.trip))

\* A file fetched while its photo was there is the photo's.
HeldIsRight == \A r \in Seen : \A k \in KeysOf(r) :
    k \in Held \ gone => Holds(held, r, k)

\* What a run has to do: fetch the snapshot's files, then leave only those.
OnCourse ==
    /\ \A k \in gone : Deleted(k.trip)
    /\ phase = "fetch" =>
           todo \subseteq Named(snap) /\ Named(snap) \subseteq todo \cup gone \cup Held
    /\ phase = "sweep" => saved = snap /\ todo \cap Named(snap) = {}
    /\ Named(Saved) \subseteq gone \cup Held

BackupInductive ==
    /\ Inductive /\ BackupTypeOK
    /\ RowsRemembered /\ HeldIsOld /\ HeldIsRight /\ OnCourse
=============================================================================
