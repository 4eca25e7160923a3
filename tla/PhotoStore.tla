----------------------------- MODULE PhotoStore -----------------------------
(***************************************************************************)
(* A trip's photos live in two places that no transaction spans: rows in   *)
(* the database, and files ("blobs") in the BlobStore under keys the rows  *)
(* name (US-2, US-5, US-9, ADR-0007).  Uploads write files before the rows *)
(* that name them, inside a transaction holding SQLite's one write lock;   *)
(* a deletion removes rows first and files afterwards.  Any request may    *)
(* fail, or be cancelled while the blocking file write it started goes on. *)
(*                                                                         *)
(* A step is one transaction, one file operation or one read.  "bytes"     *)
(* stands for a photo's content, the same for its thumbnail.               *)
(***************************************************************************)
EXTENDS Naturals, Sequences, FiniteSets

CONSTANTS
    MaxTrip,    \* bound on the trip ids handed out
    MaxPhotos,  \* bound on a trip's photos, and on one request's
    Names,      \* file names, as sanitised
    Bytes,      \* contents of photos
    Torn,       \* what a write that did not end well may leave
    Uploads,    \* concurrent imports and POST /api/trips/:id/photos requests
    Deletes,    \* concurrent DELETE /api/trips/:id requests
    None

Ids == 1 .. MaxTrip
Photo == [name : Names, bytes : Bytes]
Row == [trip : Ids, ord : 0 .. MaxPhotos, name : Names, thumb : BOOLEAN,
        bytes : Bytes]
Key == [trip : Ids, ord : 0 .. MaxPhotos, name : Names, thumb : BOOLEAN]
Requests == UNION {[1 .. n -> Photo] : n \in 0 .. MaxPhotos}
Upload ==
    [trip : Ids \cup {None}, left : Requests, ord : 0 .. MaxPhotos,
     rows : SUBSET Row, new : BOOLEAN, at : {"begin", "put", "thumb", "failed"}]
Contents == Bytes \cup {Torn}
LateWrite == [key : Key, bytes : Bytes]
Deletion ==
    [trip : Ids, listed : SUBSET Row, keys : SUBSET Key, at : {"trip", "blobs"}]

ASSUME MaxAssumption == MaxTrip \in Nat /\ MaxPhotos \in Nat
ASSUME NoneAssumption ==
    None \notin Ids \cup Contents \cup Uploads \cup Upload \cup LateWrite \cup Deletion

VARIABLES
    trips,    \* trip table: ids of the trips there are
    lastId,   \* sqlite_sequence: the highest id a commit handed out
    photos,   \* photo table; a row's bytes are what its request uploaded
    blob,     \* the BlobStore: what is under each key, else None
    writer,   \* the upload holding the write lock across its file writes
    up,       \* per upload slot: the request under way, else None
    late,     \* per upload slot: a file write that outlived its request
    del,      \* per delete slot: the request under way, else None
    smudged,  \* history: keys whose last write, while their trip was not
              \* deleted, was a late one
    loose     \* history: files written without their row (yet), or whose
              \* removal failed, was cut off, or was never tried

db == <<trips, lastId, photos>>
history == <<smudged, loose>>
vars == <<trips, lastId, photos, blob, writer, up, late, del, smudged, loose>>

Init ==
    /\ trips = {}
    /\ lastId = 0
    /\ photos = {}
    /\ blob = [k \in Key |-> None]
    /\ writer = None
    /\ up = [u \in Uploads |-> None]
    /\ late = [u \in Uploads |-> None]
    /\ del = [d \in Deletes |-> None]
    /\ smudged = {}
    /\ loose = {}

RowsOf(t) == {r \in photos : r.trip = t}
KeyOf(r, thumb) == [trip |-> r.trip, ord |-> r.ord, name |-> r.name,
                    thumb |-> thumb]
\* The blob_key and thumbnail_key columns of a row.
KeysOf(r) == {KeyOf(r, thumb) : thumb \in {FALSE, r.thumb}}
Named(rows) == UNION {KeysOf(r) : r \in rows}

-----------------------------------------------------------------------------
(* Uploads: imports with photos, and photos added to a trip.               *)

\* handle_import reads the upload; handle_add_photos first finds its trip.
Request(u, t, ps) ==
    /\ up[u] = None
    /\ t \in trips \cup {None}
    /\ up' = [up EXCEPT ![u] = [trip |-> t, left |-> ps, ord |-> 0,
                                rows |-> {}, new |-> (t = None),
                                at |-> "begin"]]
    /\ UNCHANGED <<db, blob, writer, late, del, history>>

\* Mutant: a plain INTEGER PRIMARY KEY takes the highest id plus one.
PlainId == IF trips = {} THEN 1 ELSE 1 + CHOOSE t \in trips : \A o \in trips : o <= t
\* AUTOINCREMENT: an id a commit handed out is never handed out again.
NextId == lastId + 1

\* begin_write takes the write lock before the count.
LockFree == writer = None

\* begin_write, insert_trip_in_tx for an import, and count_photos.
Begin(u) ==
    LET t == IF up[u].new THEN NextId ELSE up[u].trip
        n == Cardinality(RowsOf(t))
    IN
    /\ up[u] # None
    /\ up[u].at = "begin"
    /\ LockFree
    /\ t \in Ids                             \* bound: MaxTrip
    /\ n + Len(up[u].left) <= MaxPhotos      \* bound: MaxPhotos
    /\ writer' = u
    /\ up' = [up EXCEPT ![u].trip = t, ![u].ord = n, ![u].at = "put"]
    /\ UNCHANGED <<db, blob, late, del, history>>

\* The photo store_photos is at, and the key it goes under.
Current(u) == Head(up[u].left)
CurrentKey(u, thumb) ==
    [trip |-> up[u].trip, ord |-> up[u].ord, name |-> Current(u).name,
     thumb |-> thumb]

\* A trip there was and is no more.
Deleted(t) == t <= lastId /\ t \notin trips

\* put_blob writes b under the key k.
Written(k, b) ==
    /\ blob' = [blob EXCEPT ![k] = b]
    /\ smudged' = IF Deleted(k.trip) THEN smudged ELSE smudged \ {k}
    /\ loose' = loose \cup {k}

\* The photo's file is written.
Put(u) ==
    /\ up[u] # None
    /\ up[u].at = "put"
    /\ up[u].left # << >>
    /\ Written(CurrentKey(u, FALSE), Current(u).bytes)
    /\ up' = [up EXCEPT ![u].at = "thumb"]
    /\ UNCHANGED <<db, writer, late, del>>

\* The thumbnail's file, if there is a thumbnail and its write succeeds (one
\* that fails may have written a part), and then the row.  insert_photo fails
\* if the trip is gone (foreign key): what is left then is Abort.
PutThumb(u, ok) ==
    LET r == [trip |-> up[u].trip, ord |-> up[u].ord, thumb |-> ok,
              name |-> Current(u).name, bytes |-> Current(u).bytes]
        there == up[u].new \/ up[u].trip \in trips
    IN
    /\ up[u] # None
    /\ up[u].at = "thumb"
    /\ \/ ok /\ Written(CurrentKey(u, TRUE), Current(u).bytes)
       \/ ~ok /\ Written(CurrentKey(u, TRUE), Torn)
       \/ ~ok /\ UNCHANGED <<blob, smudged, loose>>
    /\ up' = IF there
             THEN [up EXCEPT ![u].rows = @ \cup {r}, ![u].left = Tail(@),
                             ![u].ord = @ + 1, ![u].at = "put"]
             ELSE [up EXCEPT ![u].at = "failed"]
    /\ UNCHANGED <<db, writer, late, del>>

\* The transaction commits the trip, if it is new, and its photos' rows.
Commit(u) ==
    /\ up[u] # None
    /\ up[u].at = "put"
    /\ up[u].left = << >>
    /\ photos' = photos \cup up[u].rows
    /\ trips' = IF up[u].new THEN trips \cup {up[u].trip} ELSE trips
    /\ lastId' = IF up[u].new THEN up[u].trip ELSE lastId
    /\ writer' = None
    /\ up' = [up EXCEPT ![u] = None]
    /\ loose' = loose \ Named(photos')
    /\ UNCHANGED <<blob, late, del, smudged>>

\* The request ends and its transaction, if it has one, is rolled back.
Rollback(u) ==
    /\ up' = [up EXCEPT ![u] = None]
    /\ writer' = IF writer = u THEN None ELSE writer
    /\ UNCHANGED <<db, del>>

\* The request fails, or the server dies: the files it wrote stay.
Abort(u) ==
    /\ up[u] # None
    /\ Rollback(u)
    /\ UNCHANGED <<blob, late, history>>

\* The photo's file could not be written to its end (LocalDisk::put writes in
\* place), which fails the request, or ends with it when the server dies.
PutFails(u) ==
    /\ up[u] # None
    /\ up[u].at = "put"
    /\ up[u].left # << >>
    /\ Written(CurrentKey(u, FALSE), Torn)
    /\ Rollback(u)
    /\ UNCHANGED late

\* The client goes away during a file write: spawn_blocking's closure runs on.
Cancel(u) ==
    /\ up[u] # None
    /\ up[u].at \in {"put", "thumb"}
    /\ up[u].left # << >>
    /\ late[u] = None
    /\ late' = [late EXCEPT ![u] =
                  [key |-> CurrentKey(u, up[u].at = "thumb"),
                   bytes |-> Current(u).bytes]]
    /\ Rollback(u)
    /\ UNCHANGED <<blob, history>>

\* The write that outlived its request finishes, if it can, or gets part way.
Land(u) ==
    /\ late[u] # None
    /\ late' = [late EXCEPT ![u] = None]
    /\ \/ /\ \E b \in {late[u].bytes, Torn} : blob' = [blob EXCEPT ![late[u].key] = b]
          /\ smudged' = smudged \cup {late[u].key}
          /\ loose' = loose \cup ({late[u].key} \ Named(photos))
       \/ UNCHANGED <<blob, smudged, loose>>
    /\ UNCHANGED <<db, writer, up, del>>

-----------------------------------------------------------------------------
(* Deletion of a trip.                                                     *)

\* Mutant: the thumbnails are forgotten.
OriginalsOf(rows) == {KeyOf(r, FALSE) : r \in rows}
\* Each photo's blob_key and thumbnail_key.
FilesOf(rows) == Named(rows)

\* delete::delete_trip lists the photos before it deletes anything.
ListPhotos(d, t) ==
    /\ del[d] = None
    /\ t \in trips
    /\ del' = [del EXCEPT ![d] = [trip |-> t, listed |-> RowsOf(t),
                                  keys |-> FilesOf(RowsOf(t)), at |-> "trip"]]
    /\ UNCHANGED <<db, blob, writer, up, late, history>>

\* repo::delete_trip, whose rows go by ON DELETE CASCADE, or finds no trip.
\* Photos added since the listing go from the table, not from the disk.
DeleteTrip(d) ==
    LET t == del[d].trip
        added == Named(RowsOf(t) \ del[d].listed)
    IN
    /\ del[d] # None
    /\ del[d].at = "trip"
    /\ writer = None
    /\ IF t \in trips
       THEN /\ trips' = trips \ {t}
            /\ photos' = photos \ RowsOf(t)
            /\ loose' = loose \cup added
            /\ del' = [del EXCEPT ![d].at = "blobs"]
       ELSE /\ del' = [del EXCEPT ![d] = None]
            /\ UNCHANGED <<trips, photos, loose>>
    /\ UNCHANGED <<lastId, blob, writer, up, late, smudged>>

\* The files are removed only after the rows are.
RowsGone(d) == del[d].at = "blobs"

\* delete_blob: a failure is logged and the next key taken.
DeleteBlob(d, k, ok) ==
    /\ del[d] # None
    /\ RowsGone(d)
    /\ k \in del[d].keys
    /\ blob' = IF ok THEN [blob EXCEPT ![k] = None] ELSE blob
    /\ loose' = IF ok THEN loose \ {k} ELSE loose \cup {k}
    /\ del' = [del EXCEPT ![d].keys = @ \ {k}]
    /\ UNCHANGED <<db, writer, up, late, smudged>>

\* The request is answered, or is cut off: the files left stay.
EndDelete(d) ==
    /\ del[d] # None
    /\ loose' = IF del[d].at = "blobs" THEN loose \cup del[d].keys ELSE loose
    /\ del' = [del EXCEPT ![d] = None]
    /\ UNCHANGED <<db, blob, writer, up, late, smudged>>

-----------------------------------------------------------------------------
UploadStep(u) ==
    \/ \E t \in Ids \cup {None}, ps \in Requests : Request(u, t, ps)
    \/ Begin(u) \/ Put(u) \/ PutFails(u) \/ Commit(u) \/ Abort(u) \/ Cancel(u) \/ Land(u)
    \/ \E ok \in BOOLEAN : PutThumb(u, ok)

DeleteStep(d) ==
    \/ \E t \in Ids : ListPhotos(d, t)
    \/ DeleteTrip(d) \/ EndDelete(d)
    \/ \E k \in Key, ok \in BOOLEAN : DeleteBlob(d, k, ok)

Next ==
    \/ \E u \in Uploads : UploadStep(u)
    \/ \E d \in Deletes : DeleteStep(d)

Spec == Init /\ [][Next]_vars

-----------------------------------------------------------------------------
(* Properties.                                                             *)

\* Every variable keeps its type: the two tables, the files on disk and the
\* locals of each request; and the writer is the one upload that has begun.
TypeOK ==
    /\ trips \subseteq Ids
    /\ lastId \in {0} \cup Ids
    /\ photos \subseteq Row
    /\ blob \in [Key -> Contents \cup {None}]
    /\ writer \in Uploads \cup {None}
    /\ up \in [Uploads -> Upload \cup {None}]
    /\ \A u \in Uploads : writer = u <=> up[u] # None /\ up[u].at # "begin"
    /\ late \in [Uploads -> LateWrite \cup {None}]
    /\ del \in [Deletes -> Deletion \cup {None}]
    /\ smudged \subseteq Key /\ loose \subseteq Key

\* Under k, files hold the bytes r was stored with, unless a late write came.
Holds(files, r, k) ==
    IF k \in smudged THEN files[k] # None ELSE files[k] = r.bytes

\* No row names a missing file or another photo's, whatever fails or runs
\* beside it (store_photos, count_photos' lock, delete_trip's order, trip ids
\* never reused; delete.rs: "the DB has no dangling references").
PhotosKept == \A r \in photos : \A k \in KeysOf(r) : Holds(blob, r, k)

\* Photos belong to a trip there is, and no two share a key (count_photos:
\* "two uploads ... would write the same key").
KeysDistinct ==
    /\ \A r \in photos : r.trip \in trips
    /\ \A r1, r2 \in photos : r1 # r2 => KeysOf(r1) \cap KeysOf(r2) = {}

\* Every file is some photo's, or is about to be removed with its trip, or is
\* one the code is known to leave: written by an upload that did not commit,
\* or not removed because a removal failed, was cut off or was never tried.
FilesAccounted == \A k \in Key : blob[k] # None =>
    \/ k \in Named(photos) \cup loose
    \/ \E d \in Deletes : del[d] # None /\ RowsGone(d) /\ k \in del[d].keys

\* backup/client.rs: "Photos never change once stored (trip ids are never
\* reused, photos are never replaced)".
NeverChange ==
    [][\A r \in photos \cap photos' : \A k \in KeysOf(r) : blob'[k] = blob[k]]_vars

-----------------------------------------------------------------------------
(* Strengthenings that make the invariants inductive (BackupProofs).       *)

\* Trips have ids that were handed out, and a trip's photos are as many as
\* the next one's number says.
Numbered ==
    /\ \A t \in trips : t <= lastId
    /\ IsFiniteSet(photos)
    /\ \A r \in photos : r.ord < Cardinality(RowsOf(r.trip))
    /\ \A r1, r2 \in photos :
           r1.trip = r2.trip /\ r1.ord = r2.ord => r1 = r2

\* Its rows can be stored: the trip is there, or comes with them.
Storable(u) == up[u].new \/ up[u].trip \in trips

\* An upload is for a trip there was, or for the next one, and has nothing to
\* commit before it begins.
Addressed(u) == up[u] # None =>
    /\ up[u].at = "begin" => up[u].rows = {}
    /\ ~up[u].new \/ up[u].at # "begin" => up[u].trip \in Ids
    /\ ~up[u].new => up[u].trip <= lastId
    /\ up[u].new /\ up[u].at # "begin" =>
           up[u].trip = NextId /\ up[u].at # "failed"

\* The upload that holds the lock has the numbers behind those of its trip,
\* and has written the files of the rows it is to commit.
Pending(u) == writer = u =>
    LET held == Cardinality(RowsOf(up[u].trip)) IN
    /\ IsFiniteSet(up[u].rows)
    /\ up[u].rows # {} => Storable(u)
    /\ up[u].at # "failed" =>
           /\ up[u].ord = held + Cardinality(up[u].rows)
           /\ up[u].ord + Len(up[u].left) <= MaxPhotos
    /\ up[u].at = "thumb" =>
           /\ up[u].left # << >>
           /\ Storable(u) =>
                  LET k == CurrentKey(u, FALSE) IN
                  IF k \in smudged THEN blob[k] # None
                                   ELSE blob[k] = Current(u).bytes
    /\ \A r \in up[u].rows :
           /\ r.trip = up[u].trip /\ held <= r.ord /\ r.ord < up[u].ord
           /\ \A k \in KeysOf(r) : Holds(blob, r, k)
    /\ \A r1, r2 \in up[u].rows : r1.ord = r2.ord => r1 = r2

\* A deletion lists files of its trip, and removes them once the trip is gone.
Removing(d) == del[d] # None =>
    /\ \A k \in del[d].keys : k.trip = del[d].trip
    /\ del[d].at = "trip" => del[d].keys = Named(del[d].listed)
    /\ del[d].trip <= lastId
    /\ RowsGone(d) => Deleted(del[d].trip)

Inductive ==
    /\ TypeOK /\ PhotosKept /\ KeysDistinct /\ FilesAccounted /\ Numbered
    /\ \A u \in Uploads : Addressed(u) /\ Pending(u)
    /\ \A d \in Deletes : Removing(d)
=============================================================================
