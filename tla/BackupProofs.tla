----------------------------- MODULE BackupProofs -----------------------------
(***************************************************************************)
(* Proofs about PhotoStore and Backup, for any contents, requests and      *)
(* bounds.  The server's half: types, rows and files stay together, keys   *)
(* are one photo's, every file is accounted for; its inductive invariant   *)
(* is Inductive: what the upload with the write lock is about to commit is *)
(* already on disk, under numbers no row has.  The laptop's half: the      *)
(* directory holds what its database names, with the right bytes, whatever *)
(* the server and the runs do beside each other, as trip ids and photo     *)
(* numbers are never used twice and a run fetches, swaps, then sweeps.     *)
(***************************************************************************)
EXTENDS Backup, TLAPS, FiniteSetTheorems, SequenceTheorems

-----------------------------------------------------------------------------
(* Lemmas on keys, numbers and who holds the lock.                         *)

\* A row's keys are of its trip, under its number.
LEMMA RowKeys ==
    ASSUME NEW r \in Row
    PROVE  /\ KeysOf(r) \subseteq Key
           /\ \A k \in KeysOf(r) : k.trip = r.trip /\ k.ord = r.ord
<1>1. \A thumb \in BOOLEAN : /\ KeyOf(r, thumb) \in Key
                             /\ KeyOf(r, thumb).trip = r.trip
                             /\ KeyOf(r, thumb).ord = r.ord
  BY DEF KeyOf, Key, Row
<1>2. \A k \in KeysOf(r) : \E thumb \in BOOLEAN : k = KeyOf(r, thumb)
  BY DEF KeysOf, Row
<1> QED BY <1>1, <1>2

\* What rows name are keys.
LEMMA NamedKeys == ASSUME NEW S \in SUBSET Row PROVE Named(S) \subseteq Key
BY RowKeys DEF Named

\* None is no request, no id and no content.
LEMMA Values ==
    /\ None \notin Contents /\ None \notin Bytes /\ None \notin Uploads /\ None \notin Ids
    /\ None \notin Upload /\ None \notin LateWrite /\ None \notin Deletion
BY NoneAssumption DEF Contents

\* The rows of a trip are finitely many.
LEMMA RowsFinite ==
    ASSUME Numbered, NEW t
    PROVE  /\ IsFiniteSet(RowsOf(t))
           /\ Cardinality(RowsOf(t)) \in Nat
BY FS_Subset, FS_CardinalityType DEF Numbered, RowsOf

\* Ids are numbers.
LEMMA IdsAreNumbers ==
    ASSUME TypeOK
    PROVE  /\ lastId \in Nat /\ NextId = lastId + 1
           /\ \A t \in Ids : t \in Nat \ {0}
BY MaxAssumption DEF TypeOK, Ids, NextId

\* The next id is no row's and no deleted trip's.
LEMMA NextIsNew ==
    ASSUME TypeOK, KeysDistinct, Numbered
    PROVE  NextId \notin trips /\ RowsOf(NextId) = {} /\ ~Deleted(NextId)
<1>1. \A t \in trips : t \in Nat /\ t <= lastId
  BY IdsAreNumbers DEF TypeOK, Numbered
<1>2. NextId \notin trips
  BY <1>1, IdsAreNumbers
<1>3. RowsOf(NextId) = {}
  BY <1>2 DEF RowsOf, KeysDistinct
<1> QED BY <1>2, <1>3, IdsAreNumbers DEF Deleted

\* Only the upload with the lock has anything to commit.
LEMMA OneWriter ==
    ASSUME TypeOK, NEW u \in Uploads, up[u] # None, up[u].at # "begin"
    PROVE  writer = u /\ \A q \in Uploads : q # u => writer # q
BY DEF TypeOK

-----------------------------------------------------------------------------
(* The invariant holds initially.                                          *)

\* Nothing is stored and nothing under way.
LEMMA InitInductive == Init => Inductive
<1> SUFFICES ASSUME Init PROVE Inductive
  OBVIOUS
<1>1. TypeOK
  BY Values DEF Init, TypeOK
<1>2. PhotosKept /\ KeysDistinct /\ FilesAccounted
  BY DEF Init, PhotosKept, KeysDistinct, FilesAccounted
<1>3. Numbered
  BY FS_EmptySet DEF Init, Numbered
<1>4. ASSUME NEW u \in Uploads PROVE Addressed(u) /\ Pending(u)
  BY Values DEF Init, Addressed, Pending
<1>5. ASSUME NEW d \in Deletes PROVE Removing(d)
  BY DEF Init, Removing
<1> QED BY <1>1, <1>2, <1>3, <1>4, <1>5 DEF Inductive

-----------------------------------------------------------------------------
(* Uploads.                                                                *)

\* A step of one upload that touches neither tables nor files: what is to be
\* shown is that the upload itself is sound afterwards.
LEMMA UploadMoves ==
    ASSUME Inductive, NEW u \in Uploads, TypeOK',
           UNCHANGED <<db, blob, del, history>>,
           \A q \in Uploads : q # u => /\ up'[q] = up[q]
                                       /\ writer' = q => writer = q,
           Addressed(u)', Pending(u)'
    PROVE  Inductive'
<1> USE DEF db, history
<1>1. PhotosKept' /\ KeysDistinct' /\ FilesAccounted' /\ Numbered'
  BY DEF Inductive, PhotosKept, Holds, KeysDistinct, FilesAccounted, RowsGone,
         Numbered, RowsOf
<1>2. ASSUME NEW q \in Uploads, q # u PROVE Addressed(q)' /\ Pending(q)'
  <2>1. Addressed(q) /\ Pending(q) /\ up'[q] = up[q]
    BY <1>2 DEF Inductive
  <2>2. Addressed(q)'
    BY <2>1 DEF Addressed, NextId
  <2>3. Pending(q)'
    BY <1>2, <2>1 DEF Pending, Storable, RowsOf, Holds, CurrentKey, Current
  <2> QED BY <2>2, <2>3
<1>3. ASSUME NEW d \in Deletes PROVE Removing(d)'
  BY DEF Inductive, Removing, RowsGone, Deleted
<1> QED BY <1>1, <1>2, <1>3 DEF Inductive

\* A request for a trip there is.
LEMMA RequestKeeps ==
    ASSUME Inductive, NEW u \in Uploads, NEW t \in Ids \cup {None},
           NEW ps \in Requests, Request(u, t, ps)
    PROVE  Inductive'
<1> DEFINE v == [trip |-> t, left |-> ps, ord |-> 0, rows |-> {},
                 new |-> (t = None), at |-> "begin"]
<1>0. TypeOK /\ Numbered
  BY DEF Inductive
<1>1. v \in Upload
  BY MaxAssumption DEF Upload
<1>2. up' = [up EXCEPT ![u] = v] /\ up[u] = None
  BY DEF Request
<1>3. up' \in [Uploads -> Upload \cup {None}]
  BY <1>0, <1>1, <1>2 DEF TypeOK
<1>4. up'[u] = v /\ \A q \in Uploads : q # u => up'[q] = up[q]
  BY <1>0, <1>2 DEF TypeOK
<1>5. v # None /\ v.at = "begin"
  BY <1>1, Values
<1>6. writer' = writer /\ writer # u
  BY <1>0, <1>2 DEF TypeOK, Request
<1>7. TypeOK'
  <2>1. \A q \in Uploads : writer' = q <=> up'[q] # None /\ up'[q].at # "begin"
    BY <1>0, <1>4, <1>5, <1>6 DEF TypeOK
  <2> QED BY <1>0, <1>3, <2>1 DEF TypeOK, Request, db, history
<1>8. Addressed(u)'
  <2>1. t # None => t \in Ids /\ t <= lastId
    BY <1>0 DEF Request, Numbered
  <2>2. v.trip = t /\ v.rows = {} /\ (v.new <=> t = None)
    OBVIOUS
  <2> HIDE DEF v
  <2> QED BY <1>4, <1>5, <2>1, <2>2 DEF Addressed, Request, db
<1>9. Pending(u)'
  BY <1>6 DEF Pending
<1> HIDE DEF v
<1> QED BY <1>4, <1>6, <1>7, <1>8, <1>9, UploadMoves DEF Request

\* The upload that takes the lock goes on where the trip's rows end.
LEMMA BeginKeeps ==
    ASSUME Inductive, NEW u \in Uploads, Begin(u)
    PROVE  Inductive'
<1> DEFINE t == IF up[u].new THEN NextId ELSE up[u].trip
           n == Cardinality(RowsOf(t))
           v == [up[u] EXCEPT !.trip = t, !.ord = n, !.at = "put"]
<1>0. /\ TypeOK /\ Numbered /\ KeysDistinct /\ Addressed(u)
      /\ up[u] \in Upload /\ up[u] # None /\ up[u].at = "begin"
  BY DEF Inductive, TypeOK, Begin
<1>1. t \in Ids /\ n \in Nat /\ Len(up[u].left) \in Nat
      /\ n + Len(up[u].left) <= MaxPhotos
  <2>1. t \in Ids /\ n + Len(up[u].left) <= MaxPhotos
    BY DEF Begin
  <2>2. n \in Nat
    BY <1>0, RowsFinite
  <2>3. up[u].left \in Requests
    BY <1>0 DEF Upload
  <2>4. Len(up[u].left) \in Nat
    BY <2>3, MaxAssumption DEF Requests
  <2> QED BY <2>1, <2>2, <2>4
<1>2. n \in 0 .. MaxPhotos
  BY <1>1, MaxAssumption
<1>3. v \in Upload /\ v # None /\ v.at = "put" /\ v.trip = t /\ v.ord = n
      /\ v.new = up[u].new /\ v.left = up[u].left /\ v.rows = up[u].rows
  BY <1>0, <1>1, <1>2, Values DEF Upload
<1>4. up' = [up EXCEPT ![u] = v] /\ writer' = u /\ writer = None
  BY <1>0 DEF Begin, LockFree, TypeOK
<1> HIDE DEF t, n, v
<1>5. up'[u] = v /\ \A q \in Uploads : q # u => up'[q] = up[q]
  BY <1>0, <1>4 DEF TypeOK
<1>6. TypeOK'
  <2>1. up' \in [Uploads -> Upload \cup {None}]
    BY <1>0, <1>3, <1>4 DEF TypeOK
  <2>2. \A q \in Uploads : writer' = q <=> up'[q] # None /\ up'[q].at # "begin"
    BY <1>0, <1>3, <1>4, <1>5, Values DEF TypeOK
  <2> QED BY <1>0, <1>4, <2>1, <2>2 DEF TypeOK, Begin, db, history
<1>7. Addressed(u)'
  BY <1>0, <1>1, <1>3, <1>5 DEF t, Addressed, Begin, db, NextId
<1>8. Pending(u)'
  <2>1. v.rows = {}
    BY <1>0, <1>3 DEF Addressed
  <2>2. Cardinality(RowsOf(up[u].trip))' = n
    BY <1>3, <1>5 DEF n, RowsOf, Begin, db
  <2>3. IsFiniteSet(v.rows) /\ Cardinality(v.rows) = 0
    BY <2>1, FS_EmptySet
  <2>4. up'[u].ord = Cardinality(RowsOf(up[u].trip))' + Cardinality(up'[u].rows)
    BY <1>1, <1>3, <1>5, <2>2, <2>3
  <2>5. up'[u].ord + Len(up'[u].left) <= MaxPhotos
    BY <1>1, <1>3, <1>5
  <2>6. up'[u].rows = {} /\ IsFiniteSet(up'[u].rows) /\ up'[u].at = "put"
    BY <1>3, <1>5, <2>1, <2>3
  <2> QED BY <2>4, <2>5, <2>6 DEF Pending
<1> QED BY <1>4, <1>5, <1>6, <1>7, <1>8, UploadMoves DEF Begin

\* A request that ends leaves the lock, if it had it.
LEMMA RollbackType ==
    ASSUME TypeOK, NEW u \in Uploads, up[u] # None, Rollback(u),
           late' \in [Uploads -> LateWrite \cup {None}],
           blob' \in [Key -> Contents \cup {None}],
           smudged' \subseteq Key, loose' \subseteq Key
    PROVE  /\ TypeOK' /\ writer' # u /\ up'[u] = None
           /\ \A q \in Uploads : q # u => /\ up'[q] = up[q]
                                          /\ writer' = q => writer = q
<1>1. up' \in [Uploads -> Upload \cup {None}]
      /\ up'[u] = None /\ \A q \in Uploads : q # u => up'[q] = up[q]
  BY DEF TypeOK, Rollback
<1>2. writer' \in Uploads \cup {None} /\ writer' # u
  BY Values DEF TypeOK, Rollback
<1>3. \A q \in Uploads : q # u => (writer' = q <=> writer = q)
  BY Values DEF TypeOK, Rollback
<1>4. \A q \in Uploads : writer' = q <=> up'[q] # None /\ up'[q].at # "begin"
  BY <1>1, <1>2, <1>3 DEF TypeOK
<1> QED BY <1>1, <1>2, <1>3, <1>4 DEF TypeOK, Rollback, db

\* A failure stores nothing.
LEMMA AbortKeeps ==
    ASSUME Inductive, NEW u \in Uploads, Abort(u)
    PROVE  Inductive'
<1>1. /\ TypeOK /\ late' \in [Uploads -> LateWrite \cup {None}]
      /\ blob' \in [Key -> Contents \cup {None}] /\ smudged' \subseteq Key /\ loose' \subseteq Key
  BY DEF Inductive, TypeOK, Abort, history
<1>2. Addressed(u)' /\ Pending(u)'
  BY <1>1, RollbackType DEF Abort, Addressed, Pending
<1> QED BY <1>1, <1>2, RollbackType, UploadMoves DEF Abort, Rollback

\* The photo an upload is at, the keys it goes under, and what is left then.
LEMMA CurrentPhoto ==
    ASSUME TypeOK, NEW u \in Uploads, Addressed(u), up[u] # None,
           up[u].at # "begin", up[u].left # << >>
    PROVE  /\ Current(u) \in Photo
           /\ \A thumb \in BOOLEAN :
                  LET k == CurrentKey(u, thumb) IN
                  /\ k \in Key /\ k.trip = up[u].trip /\ k.ord = up[u].ord
                  /\ k.thumb = thumb
           /\ Tail(up[u].left) \in Requests
           /\ Len(Tail(up[u].left)) \in Nat
           /\ Len(up[u].left) = Len(Tail(up[u].left)) + 1
<1>1. up[u] \in Upload
  BY DEF TypeOK
<1>2. PICK n \in 0 .. MaxPhotos : up[u].left \in [1 .. n -> Photo]
  BY <1>1 DEF Upload, Requests
<1>3. n \in Nat /\ up[u].left \in Seq(Photo) /\ Len(up[u].left) = n
  BY <1>2, MaxAssumption
<1>4. n # 0
  BY <1>2, <1>3
<1>5. /\ Len(Tail(up[u].left)) = n - 1
      /\ Tail(up[u].left) \in [1 .. n - 1 -> Photo]
  BY <1>3, HeadTailProperties, LenProperties
<1>6. Tail(up[u].left) \in Requests
  <2>1. n - 1 \in 0 .. MaxPhotos
    BY <1>3, <1>4, MaxAssumption
  <2> QED BY <1>5, <2>1 DEF Requests
<1>7. Current(u) \in Photo
  BY <1>2, <1>3, <1>4 DEF Current
<1>8. up[u].trip \in Ids /\ up[u].ord \in 0 .. MaxPhotos
  BY <1>1 DEF Addressed, Upload
<1>9. \A thumb \in BOOLEAN :
          LET k == CurrentKey(u, thumb) IN
          /\ k \in Key /\ k.trip = up[u].trip /\ k.ord = up[u].ord
          /\ k.thumb = thumb
  BY <1>7, <1>8 DEF CurrentKey, Key, Photo
<1> QED BY <1>3, <1>4, <1>5, <1>6, <1>7, <1>9

\* A client that goes away leaves a write behind.
LEMMA CancelKeeps ==
    ASSUME Inductive, NEW u \in Uploads, Cancel(u)
    PROVE  Inductive'
<1> DEFINE w == [key |-> CurrentKey(u, up[u].at = "thumb"),
                 bytes |-> Current(u).bytes]
<1>1. TypeOK /\ Addressed(u)
  BY DEF Inductive
<1>2. w \in LateWrite
  <2>1. (up[u].at = "thumb") \in BOOLEAN
    OBVIOUS
  <2>2. CurrentKey(u, up[u].at = "thumb") \in Key
    BY <1>1, <2>1, CurrentPhoto DEF Cancel
  <2>3. Current(u).bytes \in Bytes
    BY <1>1, CurrentPhoto DEF Cancel, Photo
  <2> QED BY <2>2, <2>3 DEF LateWrite
<1>3. /\ late' \in [Uploads -> LateWrite \cup {None}]
      /\ blob' \in [Key -> Contents \cup {None}] /\ smudged' \subseteq Key /\ loose' \subseteq Key
  BY <1>1, <1>2 DEF TypeOK, Cancel, history
<1>4. Addressed(u)' /\ Pending(u)'
  BY <1>1, <1>3, RollbackType DEF Cancel, Addressed, Pending
<1> QED BY <1>1, <1>3, <1>4, RollbackType, UploadMoves DEF Cancel, Rollback

\* The lock's holder writes under numbers that no row has.
LEMMA FreshKey ==
    ASSUME Inductive, NEW u \in Uploads, writer = u, up[u].at # "failed",
           NEW k \in Key, k.trip = up[u].trip, k.ord = up[u].ord
    PROVE  /\ \A r \in photos : k \notin KeysOf(r)
           /\ \A r \in up[u].rows : k \notin KeysOf(r)
<1> DEFINE numbered == Cardinality(RowsOf(up[u].trip))
<1>1. TypeOK /\ Numbered /\ Pending(u) /\ up[u] \in Upload
  BY Values DEF Inductive, TypeOK
<1>2. numbered \in Nat /\ Cardinality(up[u].rows) \in Nat
  BY <1>1, RowsFinite, FS_CardinalityType DEF Pending
<1>3. up[u].ord = numbered + Cardinality(up[u].rows)
  BY <1>1 DEF Pending
<1>4. ASSUME NEW r \in photos, k \in KeysOf(r) PROVE FALSE
  <2>1. r \in Row /\ r.trip = up[u].trip /\ r.ord = up[u].ord /\ r.ord \in Nat
    BY <1>1, <1>4, RowKeys, MaxAssumption DEF TypeOK, Row
  <2>2. r.ord < numbered
    BY <1>1, <2>1 DEF Numbered
  <2> QED BY <1>2, <1>3, <2>1, <2>2
<1>5. ASSUME NEW r \in up[u].rows, k \in KeysOf(r) PROVE FALSE
  <2>1. r \in Row /\ r.ord = up[u].ord /\ r.ord \in Nat
    BY <1>1, <1>5, RowKeys, MaxAssumption DEF Upload, Row
  <2> QED BY <1>1, <1>5, <2>1 DEF Pending
<1> QED BY <1>4, <1>5

\* A file written under such a key harms no row, and is accounted for.
LEMMA WriteKeeps ==
    ASSUME Inductive, NEW k \in Key, NEW b \in Contents, Written(k, b),
           \A r \in photos : k \notin KeysOf(r), UNCHANGED <<db, del>>
    PROVE  /\ PhotosKept' /\ KeysDistinct' /\ FilesAccounted' /\ Numbered'
           /\ \A d \in Deletes : Removing(d)'
           /\ blob' \in [Key -> Contents \cup {None}]
           /\ blob'[k] = b /\ \A j \in Key : j # k => blob'[j] = blob[j]
           /\ smudged' \subseteq smudged /\ smudged \ {k} \subseteq smudged'
           /\ loose' \subseteq Key
<1> USE DEF db
<1>1. blob' \in [Key -> Contents \cup {None}]
      /\ blob'[k] = b /\ \A j \in Key : j # k => blob'[j] = blob[j]
  BY DEF Inductive, TypeOK, Written
<1>2. smudged' \subseteq smudged /\ smudged \ {k} \subseteq smudged'
  BY DEF Written
<1>3. loose' = loose \cup {k} /\ loose' \subseteq Key
  BY DEF Written, Inductive, TypeOK
<1>4. PhotosKept'
  <2> SUFFICES ASSUME NEW r \in photos, NEW j \in KeysOf(r)
               PROVE  Holds(blob, r, j)'
    BY DEF PhotosKept
  <2>1. j \in Key /\ j # k
    BY RowKeys DEF Inductive, TypeOK
  <2> QED BY <1>1, <1>2, <2>1 DEF Inductive, PhotosKept, Holds
<1>5. KeysDistinct' /\ Numbered'
  BY DEF Inductive, KeysDistinct, Numbered, RowsOf
<1>6. FilesAccounted'
  BY <1>1, <1>3 DEF Inductive, FilesAccounted, RowsGone
<1>7. \A d \in Deletes : Removing(d)'
  BY DEF Inductive, Removing, RowsGone, Deleted
<1> QED BY <1>1, <1>2, <1>3, <1>4, <1>5, <1>6, <1>7

\* An upload other than the one that acts, which does not hold the lock.
LEMMA OtherUploads ==
    ASSUME Inductive, NEW u \in Uploads, writer = u, UNCHANGED <<db, writer>>,
           NEW q \in Uploads, q # u, up'[q] = up[q]
    PROVE  Addressed(q)' /\ Pending(q)'
<1>1. writer' # q /\ Addressed(q)
  BY DEF Inductive
<1> QED BY <1>1 DEF Addressed, Pending, NextId, db

\* A file written ahead of its row.
LEMMA PutKeeps ==
    ASSUME Inductive, NEW u \in Uploads, Put(u)
    PROVE  Inductive'
<1> DEFINE k == CurrentKey(u, FALSE)
           b == Current(u).bytes
           v == [up[u] EXCEPT !.at = "thumb"]
<1>0. /\ TypeOK /\ Addressed(u) /\ Pending(u) /\ writer = u
      /\ up[u] \in Upload /\ up[u].at = "put" /\ up[u] # None
  BY OneWriter DEF Inductive, TypeOK, Put
<1>1. k \in Key /\ k.trip = up[u].trip /\ k.ord = up[u].ord /\ b \in Contents
  BY <1>0, CurrentPhoto DEF Put, Photo, Contents
<1>2. Written(k, b)
  BY DEF Put
<1>3. UNCHANGED <<db, del>> /\ UNCHANGED <<db, writer>> /\ UNCHANGED late
  BY DEF Put
<1>4. up' = [up EXCEPT ![u] = v]
  BY <1>0 DEF Put, TypeOK
<1>5. /\ v \in Upload /\ v # None /\ v.at = "thumb" /\ v.trip = up[u].trip
      /\ v.left = up[u].left /\ v.ord = up[u].ord /\ v.rows = up[u].rows
      /\ v.new = up[u].new
  BY <1>0, Values DEF Upload
<1>6. CurrentKey(u, FALSE)' = k /\ Current(u)'.bytes = b
      /\ up'[u] = v /\ \A q \in Uploads : q # u => up'[q] = up[q]
  <2>1. up'[u] = v /\ \A q \in Uploads : q # u => up'[q] = up[q]
    BY <1>0, <1>4 DEF TypeOK
  <2> QED BY <1>5, <2>1 DEF CurrentKey, Current
<1>7. /\ \A r \in photos : k \notin KeysOf(r)
      /\ \A r \in up[u].rows : k \notin KeysOf(r)
  BY <1>0, <1>1, FreshKey
<1> HIDE DEF k, b, v
<1>8. /\ PhotosKept' /\ KeysDistinct' /\ FilesAccounted' /\ Numbered'
      /\ \A d \in Deletes : Removing(d)'
      /\ blob' \in [Key -> Contents \cup {None}]
      /\ blob'[k] = b /\ \A j \in Key : j # k => blob'[j] = blob[j]
      /\ smudged' \subseteq smudged /\ smudged \ {k} \subseteq smudged'
      /\ loose' \subseteq Key
  BY <1>1, <1>2, <1>3, <1>7, WriteKeeps
<1>9. TypeOK'
  <2>1. up' \in [Uploads -> Upload \cup {None}]
    BY <1>0, <1>4, <1>5 DEF TypeOK
  <2>2. \A q \in Uploads : writer' = q <=> up'[q] # None /\ up'[q].at # "begin"
    BY <1>0, <1>3, <1>5, <1>6 DEF TypeOK
  <2> QED BY <1>0, <1>3, <1>8, <2>1, <2>2 DEF TypeOK, db
<1>10. Addressed(u)'
  BY <1>0, <1>3, <1>5, <1>6 DEF Addressed, NextId, db
<1>11. Pending(u)'
  <2>1. /\ RowsOf(up[u].trip)' = RowsOf(up[u].trip)
        /\ Storable(u)' <=> Storable(u)
    BY <1>3, <1>5, <1>6 DEF RowsOf, Storable, db
  <2>2. \A r \in up[u].rows : \A j \in KeysOf(r) : Holds(blob, r, j)'
    <3> SUFFICES ASSUME NEW r \in up[u].rows, NEW j \in KeysOf(r)
                 PROVE  Holds(blob, r, j)'
      OBVIOUS
    <3>1. j \in Key /\ j # k /\ Holds(blob, r, j)
      BY <1>0, <1>7, RowKeys DEF Upload, Pending
    <3> QED BY <1>8, <3>1 DEF Holds
  <2>3. b # None
    BY <1>1, Values
  <2>4. up[u].left # << >>
    BY DEF Put
  <2>5. IF k \in smudged' THEN blob'[k] # None ELSE blob'[k] = b
    BY <1>8, <2>3
  <2>6. /\ up'[u].rows = up[u].rows /\ up'[u].ord = up[u].ord
        /\ up'[u].left = up[u].left /\ up'[u].at = "thumb"
        /\ up'[u].trip = up[u].trip
    BY <1>5, <1>6
  <2> QED BY <1>0, <1>6, <2>1, <2>2, <2>4, <2>5, <2>6 DEF Pending
<1>12. ASSUME NEW q \in Uploads, q # u PROVE Addressed(q)' /\ Pending(q)'
  BY <1>0, <1>3, <1>6, <1>12, OtherUploads
<1> QED BY <1>8, <1>9, <1>10, <1>11, <1>12 DEF Inductive

\* A file written in part is no row's, and the request that failed in it
\* leaves the lock.
LEMMA PutFailsKeeps ==
    ASSUME Inductive, NEW u \in Uploads, PutFails(u)
    PROVE  Inductive'
<1> DEFINE k == CurrentKey(u, FALSE)
<1>0. /\ TypeOK /\ Addressed(u) /\ Pending(u) /\ writer = u
      /\ up[u] \in Upload /\ up[u].at = "put" /\ up[u] # None
  BY OneWriter DEF Inductive, TypeOK, PutFails
<1>1. k \in Key /\ k.trip = up[u].trip /\ k.ord = up[u].ord
  BY <1>0, CurrentPhoto DEF PutFails
<1>2. Written(k, Torn) /\ Torn \in Contents
  BY DEF PutFails, Contents
<1>3. UNCHANGED <<db, del>> /\ UNCHANGED late /\ Rollback(u)
  BY DEF PutFails, Rollback
<1>4. \A r \in photos : k \notin KeysOf(r)
  BY <1>0, <1>1, FreshKey
<1> HIDE DEF k
<1>5. /\ PhotosKept' /\ KeysDistinct' /\ FilesAccounted' /\ Numbered'
      /\ \A d \in Deletes : Removing(d)'
      /\ blob' \in [Key -> Contents \cup {None}]
      /\ smudged' \subseteq smudged /\ loose' \subseteq Key
  BY <1>1, <1>2, <1>3, <1>4, WriteKeeps
<1>6. /\ late' \in [Uploads -> LateWrite \cup {None}]
      /\ smudged' \subseteq Key
  BY <1>0, <1>3, <1>5 DEF TypeOK
<1>7. /\ TypeOK' /\ writer' # u /\ up'[u] = None
      /\ \A q \in Uploads : q # u => up'[q] = up[q] /\ (writer' = q => writer = q)
  BY <1>0, <1>3, <1>5, <1>6, RollbackType
<1>8. ASSUME NEW q \in Uploads PROVE Addressed(q)' /\ Pending(q)'
  <2>1. CASE q = u
    BY <1>7, <2>1 DEF Addressed, Pending
  <2>2. CASE q # u
    <3>1. up'[q] = up[q] /\ writer' # q /\ Addressed(q)
      BY <1>0, <1>7, <2>2 DEF Inductive
    <3> QED BY <1>3, <3>1 DEF Addressed, Pending, NextId, db
  <2> QED BY <2>1, <2>2
<1> QED BY <1>5, <1>7, <1>8 DEF Inductive

\* A write that outlived its request spoils its key, and says so.
LEMMA LandKeeps ==
    ASSUME Inductive, NEW u \in Uploads, Land(u)
    PROVE  Inductive'
<1> DEFINE k == late[u].key
<1>1. TypeOK /\ late[u] \in LateWrite
  BY DEF Inductive, TypeOK, Land
<1>2. k \in Key /\ {late[u].bytes, Torn} \subseteq Contents /\ None \notin {late[u].bytes, Torn}
  BY <1>1, Values DEF LateWrite, Contents
<1>3. UNCHANGED <<db, writer, up, del>>
  BY DEF Land
<1>4. \/ /\ \E b \in {late[u].bytes, Torn} : blob' = [blob EXCEPT ![k] = b]
         /\ smudged' = smudged \cup {k}
         /\ loose' = loose \cup ({k} \ Named(photos))
      \/ UNCHANGED <<blob, smudged, loose>>
  BY DEF Land
<1> HIDE DEF k
<1> USE DEF db
<1>5. TypeOK'
  <2>1. late' \in [Uploads -> LateWrite \cup {None}]
    BY <1>1 DEF TypeOK, Land
  <2>2. blob' \in [Key -> Contents \cup {None}]
    BY <1>1, <1>2, <1>4 DEF TypeOK
  <2>3. smudged' \subseteq Key /\ loose' \subseteq Key
    BY <1>1, <1>2, <1>4 DEF TypeOK
  <2> QED BY <1>1, <1>3, <2>1, <2>2, <2>3 DEF TypeOK
<1>6. /\ smudged \subseteq smudged'
      /\ \A j \in Key : \/ blob'[j] = blob[j] /\ (j \in smudged' <=> j \in smudged)
                        \/ j \in smudged' /\ blob'[j] # None
  BY <1>1, <1>2, <1>4 DEF TypeOK
<1>7. \A j \in Key : blob[j] # None => blob'[j] # None
  BY <1>6
<1>8. ASSUME NEW r, NEW j \in Key, Holds(blob, r, j), r.bytes # None
      PROVE  Holds(blob, r, j)'
  BY <1>6, <1>7, <1>8 DEF Holds
<1>9. \A r \in Row : r.bytes # None
  BY Values DEF Row
<1>10. PhotosKept'
  <2> SUFFICES ASSUME NEW r \in photos, NEW j \in KeysOf(r)
               PROVE  Holds(blob, r, j)'
    BY <1>3 DEF PhotosKept
  <2>1. r \in Row /\ j \in Key /\ Holds(blob, r, j)
    BY <1>1, RowKeys DEF Inductive, TypeOK, PhotosKept
  <2> QED BY <1>8, <1>9, <2>1
<1>11. KeysDistinct' /\ Numbered'
  BY <1>3 DEF Inductive, KeysDistinct, Numbered, RowsOf
<1>12. FilesAccounted'
  BY <1>1, <1>2, <1>3, <1>4 DEF Inductive, FilesAccounted, RowsGone, TypeOK
<1>13. ASSUME NEW d \in Deletes PROVE Removing(d)'
  BY <1>3 DEF Inductive, Removing, RowsGone, Deleted
<1>14. ASSUME NEW q \in Uploads PROVE Addressed(q)'
  BY <1>3 DEF Inductive, Addressed, NextId
<1>15. ASSUME NEW q \in Uploads PROVE Pending(q)'
  <2> SUFFICES ASSUME writer = q PROVE Pending(q)'
    BY <1>3 DEF Pending
  <2>1. Pending(q) /\ Addressed(q) /\ up[q] \in Upload /\ up[q] # None
        /\ up[q].at # "begin"
    BY <1>1, Values DEF Inductive, TypeOK
  <2>2. /\ RowsOf(up[q].trip)' = RowsOf(up[q].trip) /\ up'[q] = up[q]
        /\ CurrentKey(q, FALSE)' = CurrentKey(q, FALSE)
        /\ Current(q)' = Current(q) /\ (Storable(q)' <=> Storable(q))
    BY <1>3 DEF RowsOf, Storable, CurrentKey, Current
  <2>3. \A r \in up[q].rows : \A j \in KeysOf(r) : Holds(blob, r, j)'
    <3> SUFFICES ASSUME NEW r \in up[q].rows, NEW j \in KeysOf(r)
                 PROVE  Holds(blob, r, j)'
      OBVIOUS
    <3>1. r \in Row /\ j \in Key /\ Holds(blob, r, j)
      BY <2>1, RowKeys DEF Upload, Pending
    <3> QED BY <1>8, <1>9, <3>1
  <2>4. ASSUME up[q].at = "thumb", Storable(q)
        PROVE  LET j == CurrentKey(q, FALSE) IN
               IF j \in smudged' THEN blob'[j] # None
                                 ELSE blob'[j] = Current(q).bytes
    <3>1. CurrentKey(q, FALSE) \in Key /\ Current(q).bytes # None
      BY <1>1, <2>1, <2>4, CurrentPhoto, Values DEF Pending, Photo
    <3> QED BY <1>6, <1>7, <2>1, <2>4, <3>1, <1>3 DEF Pending
  <2> QED BY <1>3, <2>1, <2>2, <2>3, <2>4 DEF Pending
<1> QED BY <1>5, <1>10, <1>11, <1>12, <1>13, <1>14, <1>15 DEF Inductive

\* A row whose files are written joins the rows to commit; a trip that was
\* deleted before the upload began has none.
LEMMA PutThumbKeeps ==
    ASSUME Inductive, NEW u \in Uploads, NEW ok \in BOOLEAN, PutThumb(u, ok)
    PROVE  Inductive'
<1> DEFINE k == CurrentKey(u, FALSE)
           l == CurrentKey(u, TRUE)
           b == Current(u).bytes
           r == [trip |-> up[u].trip, ord |-> up[u].ord, thumb |-> ok,
                 name |-> Current(u).name, bytes |-> b]
           v == IF Storable(u)
                THEN [up[u] EXCEPT !.rows = @ \cup {r}, !.left = Tail(@),
                                   !.ord = @ + 1, !.at = "put"]
                ELSE [up[u] EXCEPT !.at = "failed"]
<1>0. /\ TypeOK /\ Addressed(u) /\ Pending(u) /\ writer = u
      /\ up[u] \in Upload /\ up[u].at = "thumb" /\ up[u] # None
  BY OneWriter DEF Inductive, TypeOK, PutThumb
<1>1. up[u].left # << >>
  BY <1>0 DEF Pending
<1>2. /\ k \in Key /\ k.trip = up[u].trip /\ k.ord = up[u].ord
      /\ l \in Key /\ l.trip = up[u].trip /\ l.ord = up[u].ord /\ l # k
      /\ Current(u) \in Photo /\ b \in Bytes /\ b \in Contents /\ b # None
      /\ Tail(up[u].left) \in Requests /\ Len(Tail(up[u].left)) \in Nat
      /\ Len(up[u].left) = Len(Tail(up[u].left)) + 1
  BY <1>0, <1>1, CurrentPhoto, Values DEF Photo, Contents
<1>3. /\ up' = [up EXCEPT ![u] = v]
      /\ UNCHANGED <<db, del>> /\ UNCHANGED <<db, writer>> /\ UNCHANGED late
  <2>1. UNCHANGED <<db, writer, late, del>>
    BY DEF PutThumb
  <2>2. CASE Storable(u)
    BY <2>2 DEF PutThumb, Storable
  <2>3. CASE ~Storable(u)
    BY <2>3 DEF PutThumb, Storable
  <2> QED BY <2>1, <2>2, <2>3
<1>4. /\ \A s \in photos : k \notin KeysOf(s) /\ l \notin KeysOf(s)
      /\ \A s \in up[u].rows : k \notin KeysOf(s) /\ l \notin KeysOf(s)
  BY <1>0, <1>2, FreshKey
<1>5. /\ PhotosKept' /\ KeysDistinct' /\ FilesAccounted' /\ Numbered'
      /\ \A d \in Deletes : Removing(d)'
      /\ blob' \in [Key -> Contents \cup {None}]
      /\ \A j \in Key : j # l => blob'[j] = blob[j]
      /\ ok => blob'[l] = b
      /\ smudged' \subseteq smudged /\ smudged \ {l} \subseteq smudged'
      /\ loose' \subseteq Key
  <2>1. CASE ok
    <3>1. Written(l, b)
      BY <2>1 DEF PutThumb
    <3> HIDE DEF k, l, b, r, v
    <3> QED BY <1>2, <1>3, <1>4, <2>1, <3>1, WriteKeeps
  <2>2. CASE ~ok /\ Written(l, Torn)
    <3> HIDE DEF k, l, b, r, v
    <3> QED BY <1>2, <1>3, <1>4, <2>2, WriteKeeps DEF Contents
  <2>3. CASE ~ok /\ UNCHANGED <<blob, smudged, loose>>
    <3>1. UNCHANGED <<blob, smudged, loose>>
      BY <2>3
    <3>2. PhotosKept' /\ KeysDistinct' /\ FilesAccounted' /\ Numbered'
      BY <1>3, <3>1 DEF Inductive, PhotosKept, Holds, KeysDistinct,
                        FilesAccounted, RowsGone, Numbered, RowsOf, db
    <3>3. \A d \in Deletes : Removing(d)'
      BY <1>3 DEF Inductive, Removing, RowsGone, Deleted, db
    <3> QED BY <1>0, <2>3, <3>1, <3>2, <3>3 DEF TypeOK
  <2> QED BY <2>1, <2>2, <2>3 DEF PutThumb
<1>6. /\ Cardinality(RowsOf(up[u].trip)) \in Nat
      /\ Cardinality(up[u].rows) \in Nat /\ IsFiniteSet(up[u].rows)
      /\ up[u].ord = Cardinality(RowsOf(up[u].trip)) + Cardinality(up[u].rows)
      /\ up[u].ord + Len(up[u].left) <= MaxPhotos
      /\ up[u].rows # {} => Storable(u)
  BY <1>0, RowsFinite, FS_CardinalityType DEF Inductive, Pending
<1>7. r \in Row
  BY <1>0, <1>2 DEF Row, Upload, Addressed, Photo
<1>8. /\ v \in Upload /\ v # None /\ v.trip = up[u].trip /\ v.new = up[u].new
      /\ Storable(u) => /\ v.at = "put" /\ v.rows = up[u].rows \cup {r}
                        /\ v.left = Tail(up[u].left) /\ v.ord = up[u].ord + 1
      /\ ~Storable(u) => v.at = "failed" /\ v.rows = up[u].rows
  <2>1. CASE Storable(u)
    <3> HIDE DEF r
    <3>1. up[u].ord + 1 \in 0 .. MaxPhotos
      BY <1>2, <1>6, MaxAssumption
    <3>2. v = [up[u] EXCEPT !.rows = @ \cup {r}, !.left = Tail(@),
                            !.ord = @ + 1, !.at = "put"]
      BY <2>1
    <3>3. /\ v \in Upload /\ v.trip = up[u].trip /\ v.new = up[u].new
          /\ v.at = "put" /\ v.rows = up[u].rows \cup {r}
          /\ v.left = Tail(up[u].left) /\ v.ord = up[u].ord + 1
      BY <1>0, <1>2, <1>7, <3>1, <3>2 DEF Upload
    <3> QED BY <2>1, <3>3, Values
  <2>2. CASE ~Storable(u)
    <3>1. /\ v \in Upload /\ v.trip = up[u].trip /\ v.new = up[u].new
          /\ v.at = "failed" /\ v.rows = up[u].rows
      BY <1>0, <2>2 DEF Upload
    <3> QED BY <2>2, <3>1, Values
  <2> QED BY <2>1, <2>2
<1>9. up'[u] = v /\ \A q \in Uploads : q # u => up'[q] = up[q]
  BY <1>0, <1>3 DEF TypeOK
<1>10. TypeOK'
  <2> HIDE DEF v
  <2>1. up' \in [Uploads -> Upload \cup {None}]
    BY <1>0, <1>3, <1>8 DEF TypeOK
  <2>2. v.at # "begin"
    BY <1>8
  <2>3. \A q \in Uploads : writer' = q <=> up'[q] # None /\ up'[q].at # "begin"
    BY <1>0, <1>3, <1>8, <1>9, <2>2 DEF TypeOK
  <2> QED BY <1>0, <1>3, <1>5, <2>1, <2>3 DEF TypeOK, db
<1>11. Addressed(u)'
  <2>1. up[u].new => Storable(u)
    BY DEF Storable
  <2> HIDE DEF v
  <2> QED BY <1>0, <1>3, <1>8, <1>9, <2>1 DEF Addressed, NextId, db
<1>12. Pending(u)'
  <2>1. /\ RowsOf(up[u].trip)' = RowsOf(up[u].trip)
        /\ Storable(u)' <=> Storable(u)
    <3> HIDE DEF v
    <3> QED BY <1>3, <1>8, <1>9 DEF RowsOf, Storable, db
  <2>2. \A s \in up[u].rows : \A j \in KeysOf(s) : Holds(blob, s, j)'
    <3> SUFFICES ASSUME NEW s \in up[u].rows, NEW j \in KeysOf(s)
                 PROVE  Holds(blob, s, j)'
      OBVIOUS
    <3>1. j \in Key /\ j # l /\ Holds(blob, s, j)
      BY <1>0, <1>4, RowKeys DEF Upload, Pending
    <3> HIDE DEF l
    <3> QED BY <1>5, <3>1 DEF Holds
  <2>3. \A s \in up[u].rows :
            s.trip = up[u].trip /\ Cardinality(RowsOf(up[u].trip)) <= s.ord
            /\ s.ord < up[u].ord /\ s.ord \in Nat
    BY <1>0, MaxAssumption DEF Pending, Upload, Row
  <2>4. \A s1, s2 \in up[u].rows : s1.ord = s2.ord => s1 = s2
    BY <1>0 DEF Pending
  <2>5. CASE ~Storable(u)
    <3> HIDE DEF v, r
    <3> QED BY <1>6, <1>8, <1>9, <2>1, <2>5, FS_EmptySet DEF Pending
  <2>6. CASE Storable(u)
    <3>1. r \notin up[u].rows
      BY <2>3
    <3>2. /\ IsFiniteSet(up[u].rows \cup {r})
          /\ Cardinality(up[u].rows \cup {r}) = Cardinality(up[u].rows) + 1
      <4> HIDE DEF r
      <4> QED BY <1>6, <3>1, FS_AddElement
    <3>3. ASSUME NEW s, s = r, NEW j \in KeysOf(s) PROVE Holds(blob, s, j)'
      <4>1. j = k \/ (ok /\ j = l)
        <5>1. j = KeyOf(r, FALSE) \/ j = KeyOf(r, ok)
          BY <3>3 DEF KeysOf
        <5>2. KeyOf(r, FALSE) = k /\ KeyOf(r, TRUE) = l
          BY DEF KeyOf, CurrentKey
        <5>3. ok = TRUE \/ ok = FALSE
          OBVIOUS
        <5> HIDE DEF k, l, b, r, v
        <5>4. CASE ok = TRUE
          BY <5>1, <5>2, <5>4
        <5>5. CASE ok = FALSE
          BY <5>1, <5>2, <5>5
        <5> QED BY <5>3, <5>4, <5>5
      <4>2. IF k \in smudged THEN blob[k] # None ELSE blob[k] = b
        BY <1>0, <2>6 DEF Pending
      <4>3. r.bytes = b
        OBVIOUS
      <4> HIDE DEF k, l, b, r
      <4>4. k \in smudged' <=> k \in smudged
        BY <1>2, <1>5
      <4>5. CASE j = k
        BY <1>2, <1>5, <3>3, <4>2, <4>3, <4>4, <4>5 DEF Holds
      <4>6. CASE ok /\ j = l
        BY <1>2, <1>5, <3>3, <4>3, <4>6 DEF Holds
      <4> QED BY <4>1, <4>5, <4>6
    <3>4. r.trip = up[u].trip /\ r.ord = up[u].ord
      OBVIOUS
    <3> HIDE DEF v, r, k, l, b
    <3>8. /\ up'[u].rows = up[u].rows \cup {r} /\ up'[u].at = "put"
          /\ up'[u].left = Tail(up[u].left) /\ up'[u].ord = up[u].ord + 1
          /\ up'[u].trip = up[u].trip
      BY <1>8, <1>9, <2>6
    <3>5. /\ up'[u].ord = Cardinality(RowsOf(up[u].trip)) + Cardinality(up'[u].rows)
          /\ up'[u].ord + Len(up'[u].left) <= MaxPhotos
          /\ IsFiniteSet(up'[u].rows)
      BY <1>2, <1>6, <3>2, <3>8
    <3>6. \A s \in up'[u].rows :
              /\ s.trip = up'[u].trip
              /\ Cardinality(RowsOf(up[u].trip)) <= s.ord /\ s.ord < up'[u].ord
              /\ \A j \in KeysOf(s) : Holds(blob, s, j)'
      <4> SUFFICES ASSUME NEW s \in up'[u].rows
                   PROVE  /\ s.trip = up'[u].trip
                          /\ Cardinality(RowsOf(up[u].trip)) <= s.ord
                          /\ s.ord < up'[u].ord
                          /\ \A j \in KeysOf(s) : Holds(blob, s, j)'
        OBVIOUS
      <4>1. CASE s \in up[u].rows
        BY <1>6, <2>2, <2>3, <3>8, <4>1
      <4>2. CASE s = r
        <5>1. \A j \in KeysOf(s) : Holds(blob, s, j)'
          BY <3>3, <4>2
        <5> QED BY <1>6, <3>4, <3>8, <4>2, <5>1
      <4> QED BY <3>8, <4>1, <4>2
    <3>7. \A s1, s2 \in up'[u].rows : s1.ord = s2.ord => s1 = s2
      BY <1>6, <2>3, <2>4, <3>8, <3>4
    <3> QED BY <2>1, <2>6, <3>5, <3>6, <3>7, <3>8 DEF Pending
  <2> QED BY <2>5, <2>6
<1>13. ASSUME NEW q \in Uploads, q # u PROVE Addressed(q)' /\ Pending(q)'
  BY <1>0, <1>3, <1>9, <1>13, OtherUploads
<1> QED BY <1>5, <1>10, <1>11, <1>12, <1>13 DEF Inductive
\* The rows that are committed go behind those there are: their trip is there
\* or comes with them, and their files are written.
LEMMA CommitKeeps ==
    ASSUME Inductive, NEW u \in Uploads, Commit(u)
    PROVE  Inductive'
<1> DEFINE t == up[u].trip
           R == up[u].rows
           numbered == Cardinality(RowsOf(t))
<1>0. /\ TypeOK /\ KeysDistinct /\ Numbered /\ Addressed(u) /\ Pending(u)
      /\ writer = u /\ \A q \in Uploads : q # u => writer # q
      /\ up[u] \in Upload /\ up[u].at = "put" /\ up[u] # None
  BY OneWriter DEF Inductive, TypeOK, Commit
<1>1. /\ t \in Ids /\ t \in Nat /\ lastId \in Nat
      /\ up[u].new => t = lastId + 1
      /\ R \subseteq Row /\ up[u].new \in BOOLEAN
      /\ ~up[u].new => t <= lastId
  BY <1>0, IdsAreNumbers DEF Addressed, Upload
<1>2. /\ photos' = photos \cup R
      /\ trips' = IF up[u].new THEN trips \cup {t} ELSE trips
      /\ lastId' = IF up[u].new THEN t ELSE lastId
      /\ writer' = None /\ up' = [up EXCEPT ![u] = None]
      /\ loose' = loose \ Named(photos')
      /\ UNCHANGED <<blob, late, del, smudged>>
  BY DEF Commit
<1>3. /\ numbered \in Nat /\ IsFiniteSet(RowsOf(t)) /\ IsFiniteSet(R)
      /\ Cardinality(R) \in Nat /\ up[u].ord = numbered + Cardinality(R)
  BY <1>0, RowsFinite, FS_CardinalityType DEF Pending
<1>4. \A r \in R : /\ r.trip = t /\ numbered <= r.ord
                   /\ r.ord < numbered + Cardinality(R) /\ r.ord \in Nat
                   /\ \A k \in KeysOf(r) : Holds(blob, r, k)
                   /\ t \in trips'
  BY <1>0, <1>1, <1>2, <1>3, MaxAssumption DEF Pending, Storable, Row
<1>5. \A r1, r2 \in R : r1.ord = r2.ord => r1 = r2
  BY <1>0 DEF Pending
<1>6. \A r \in photos : r \in Row /\ r.ord \in Nat /\ (r.trip = t => r.ord < numbered)
  BY <1>0, MaxAssumption DEF Numbered, TypeOK, Row
<1>7. trips \subseteq trips' /\ lastId <= lastId' /\ lastId' \in Nat
      /\ \A s \in trips' : s <= lastId'
  <2>1. \A s \in trips : s \in Nat /\ s <= lastId
    BY <1>0, IdsAreNumbers DEF Numbered, TypeOK
  <2> HIDE DEF t
  <2>2. CASE up[u].new
    BY <1>1, <1>2, <2>1, <2>2
  <2>3. CASE ~up[u].new
    BY <1>1, <1>2, <2>1, <2>3
  <2> QED BY <2>2, <2>3
<1>8. up'[u] = None /\ \A q \in Uploads : q # u => up'[q] = up[q]
  BY <1>0, <1>2 DEF TypeOK
<1> HIDE DEF t, R, numbered
<1>9. TypeOK'
  <2>1. up' \in [Uploads -> Upload \cup {None}]
    BY <1>0, <1>2 DEF TypeOK
  <2>2. \A q \in Uploads : writer' = q <=> up'[q] # None /\ up'[q].at # "begin"
    BY <1>0, <1>2, <1>8, Values DEF TypeOK
  <2>3. /\ trips' \subseteq Ids /\ lastId' \in {0} \cup Ids /\ photos' \subseteq Row
        /\ loose' \subseteq Key
    BY <1>0, <1>1, <1>2 DEF TypeOK
  <2> QED BY <1>0, <1>2, <2>1, <2>2, <2>3 DEF TypeOK
<1>10. PhotosKept'
  <2> SUFFICES ASSUME NEW r \in photos', NEW k \in KeysOf(r)
               PROVE  Holds(blob, r, k)'
    BY DEF PhotosKept
  <2>1. Holds(blob, r, k)
    BY <1>2, <1>4 DEF Inductive, PhotosKept
  <2> QED BY <1>2, <2>1 DEF Holds
<1>11. \A r1, r2 \in photos' : r1.trip = r2.trip /\ r1.ord = r2.ord => r1 = r2
  <2>1. \A r1 \in photos, r2 \in R : r1.trip # r2.trip \/ r1.ord # r2.ord
    BY <1>3, <1>4, <1>6
  <2> QED BY <1>0, <1>2, <1>5, <2>1, <1>4 DEF Numbered
<1>12. KeysDistinct'
  <2>1. \A r \in photos' : r.trip \in trips' /\ r \in Row
    BY <1>0, <1>1, <1>2, <1>4, <1>6, <1>7 DEF KeysDistinct
  <2>2. ASSUME NEW r1 \in photos', NEW r2 \in photos', r1 # r2
        PROVE  KeysOf(r1) \cap KeysOf(r2) = {}
    BY <1>11, <2>1, <2>2, RowKeys
  <2> QED BY <2>1, <2>2 DEF KeysDistinct
<1>13. FilesAccounted'
  BY <1>2 DEF Inductive, FilesAccounted, RowsGone, Named
<1>14. Numbered'
  <2>1. IsFiniteSet(photos')
    BY <1>0, <1>2, <1>3, FS_Union DEF Numbered
  <2>2. ASSUME NEW r \in photos' PROVE r.ord < Cardinality(RowsOf(r.trip)')
    <3>1. CASE r.trip = t
      <4>1. RowsOf(r.trip)' = RowsOf(t) \cup R
        BY <1>2, <1>4, <3>1 DEF RowsOf
      <4>2. RowsOf(t) \cap R = {}
        BY <1>3, <1>4, <1>6 DEF RowsOf
      <4>3. Cardinality(RowsOf(r.trip)') = numbered + Cardinality(R)
        <5>1. Cardinality(RowsOf(t) \cup R)
              = Cardinality(RowsOf(t)) + Cardinality(R) - Cardinality({})
          BY <1>3, <4>2, FS_Union
        <5>2. Cardinality({}) = 0
          BY FS_EmptySet
        <5>3. Cardinality(RowsOf(t) \cup R) = numbered + Cardinality(R)
          BY <1>3, <5>1, <5>2 DEF numbered
        <5> QED BY <4>1, <5>3
      <4>4. r.ord < numbered + Cardinality(R)
        BY <1>2, <1>3, <1>4, <1>6, <3>1
      <4> QED BY <4>3, <4>4
    <3>2. CASE r.trip # t
      <4>1. r \in photos /\ RowsOf(r.trip)' = RowsOf(r.trip)
        BY <1>2, <1>4, <3>2 DEF RowsOf
      <4> QED BY <1>0, <4>1 DEF Numbered
    <3> QED BY <3>1, <3>2
  <2> QED BY <1>7, <1>11, <2>1, <2>2 DEF Numbered
<1>15. ASSUME NEW q \in Uploads PROVE Addressed(q)' /\ Pending(q)'
  <2>1. writer' # q
    BY <1>2, Values
  <2>2. CASE q = u
    BY <1>8, <2>1, <2>2 DEF Addressed, Pending
  <2>3. CASE q # u
    <3>1. Addressed(q) /\ up'[q] = up[q] /\ (up[q] # None => up[q].at = "begin")
      BY <1>0, <1>8, <2>3 DEF Inductive, TypeOK
    <3>2. up[q] # None /\ ~up[q].new => up[q].trip \in Ids /\ up[q].trip <= lastId
      BY <3>1 DEF Addressed
    <3>3. up[q] # None /\ ~up[q].new => up[q].trip <= lastId'
      <4>1. \A s \in Ids : s <= lastId => s <= lastId'
        BY <1>0, <1>1, <1>7, IdsAreNumbers
      <4> QED BY <3>2, <4>1
    <3> QED BY <2>1, <3>1, <3>2, <3>3 DEF Addressed, Pending
  <2> QED BY <2>2, <2>3
<1>16. ASSUME NEW d \in Deletes PROVE Removing(d)'
  <2>1. Removing(d) /\ del'[d] = del[d] /\ (del[d] # None => del[d].trip \in Nat)
    BY <1>0, <1>2, IdsAreNumbers DEF Inductive, TypeOK, Deletion
  <2>2. del[d] # None => del[d].trip <= lastId' /\ del[d].trip # lastId + 1
    BY <1>1, <1>7, <2>1 DEF Removing
  <2>3. del[d] # None /\ RowsGone(d) => del[d].trip \notin trips'
    BY <1>1, <1>2, <2>1, <2>2 DEF Removing, Deleted
  <2> QED BY <2>1, <2>2, <2>3 DEF Removing, RowsGone, Deleted
<1> QED BY <1>9, <1>10, <1>12, <1>13, <1>14, <1>15, <1>16 DEF Inductive
-----------------------------------------------------------------------------
(* Deletions.                                                              *)

\* A step of one deletion that changes only what it remembers.
LEMMA DeletionMoves ==
    ASSUME Inductive, NEW d \in Deletes, NEW v \in Deletion \cup {None},
           UNCHANGED <<db, blob, writer, up, late, smudged>>,
           del' = [del EXCEPT ![d] = v],
           loose' \subseteq Key, Removing(d)', FilesAccounted'
    PROVE  Inductive'
<1> USE DEF db
<1>1. TypeOK'
  BY DEF Inductive, TypeOK
<1>2. PhotosKept' /\ KeysDistinct' /\ Numbered'
  BY DEF Inductive, PhotosKept, Holds, KeysDistinct, Numbered, RowsOf
<1>3. ASSUME NEW u \in Uploads PROVE Addressed(u)' /\ Pending(u)'
  <2>1. Addressed(u) /\ Pending(u)
    BY DEF Inductive
  <2>2. Addressed(u)'
    BY <2>1 DEF Addressed, NextId
  <2>3. Pending(u)'
    BY <2>1 DEF Pending, Storable, RowsOf, Holds, CurrentKey, Current
  <2> QED BY <2>2, <2>3
<1>4. ASSUME NEW e \in Deletes PROVE Removing(e)'
  <2>1. CASE e = d
    BY <2>1
  <2>2. CASE e # d
    <3>1. del'[e] = del[e] /\ Removing(e)
      BY <2>2 DEF Inductive, TypeOK
    <3> QED BY <3>1 DEF Removing, RowsGone, Deleted
  <2> QED BY <2>1, <2>2
<1> QED BY <1>1, <1>2, <1>3, <1>4 DEF Inductive

\* A deletion that lists its trip's files.
LEMMA ListPhotosKeeps ==
    ASSUME Inductive, NEW d \in Deletes, NEW t \in Ids, ListPhotos(d, t)
    PROVE  Inductive'
<1> DEFINE v == [trip |-> t, listed |-> RowsOf(t), keys |-> FilesOf(RowsOf(t)),
                 at |-> "trip"]
<1>1. TypeOK /\ Numbered /\ RowsOf(t) \subseteq Row /\ t \in trips
  BY DEF Inductive, TypeOK, RowsOf, ListPhotos
<1>2. \A k \in Named(RowsOf(t)) : k \in Key /\ k.trip = t
  BY <1>1, RowKeys DEF Named, RowsOf
<1>3. v \in Deletion /\ v # None
  BY <1>1, <1>2, Values DEF Deletion, FilesOf
<1>4. v.trip = t /\ v.at = "trip" /\ v.keys = Named(v.listed)
      /\ v.keys = Named(RowsOf(t))
  BY DEF FilesOf
<1>5. /\ UNCHANGED <<db, blob, writer, up, late, smudged>> /\ UNCHANGED loose
      /\ del' = [del EXCEPT ![d] = v] /\ del[d] = None
  BY DEF ListPhotos, history
<1> HIDE DEF v
<1>6. del'[d] = v /\ \A e \in Deletes : e # d => del'[e] = del[e]
  BY <1>1, <1>5 DEF TypeOK
<1>7. FilesAccounted'
  BY <1>5, <1>6 DEF Inductive, FilesAccounted, RowsGone, db
<1>8. Removing(d)'
  BY <1>1, <1>2, <1>4, <1>5, <1>6 DEF Removing, RowsGone, Numbered, db
<1>9. loose' \subseteq Key
  BY <1>1, <1>5 DEF TypeOK
<1> QED BY <1>3, <1>5, <1>7, <1>8, <1>9, DeletionMoves

\* A deletion that ends leaves the files it has not removed.
LEMMA EndDeleteKeeps ==
    ASSUME Inductive, NEW d \in Deletes, EndDelete(d)
    PROVE  Inductive'
<1>1. TypeOK /\ del[d] \in Deletion
  BY DEF Inductive, TypeOK, EndDelete
<1>2. /\ UNCHANGED <<db, blob, writer, up, late, smudged>>
      /\ del' = [del EXCEPT ![d] = None]
      /\ loose' = IF del[d].at = "blobs" THEN loose \cup del[d].keys ELSE loose
  BY DEF EndDelete
<1>3. del'[d] = None /\ \A e \in Deletes : e # d => del'[e] = del[e]
  BY <1>1, <1>2 DEF TypeOK
<1>4. loose' \subseteq Key
  BY <1>1, <1>2 DEF TypeOK, Deletion
<1>5. FilesAccounted'
  BY <1>2, <1>3 DEF Inductive, FilesAccounted, RowsGone, db
<1>6. Removing(d)'
  BY <1>3 DEF Removing
<1> QED BY <1>2, <1>4, <1>5, <1>6, DeletionMoves

\* The trip and its rows go; their files are left to the deletion, and those
\* of rows it did not list to nobody.
LEMMA DeleteTripKeeps ==
    ASSUME Inductive, NEW d \in Deletes, DeleteTrip(d)
    PROVE  Inductive'
<1> DEFINE t == del[d].trip
           v == [del[d] EXCEPT !.at = "blobs"]
<1>0. /\ TypeOK /\ KeysDistinct /\ Numbered /\ Removing(d)
      /\ del[d] \in Deletion /\ del[d] # None /\ del[d].at = "trip"
      /\ writer = None
  BY DEF Inductive, TypeOK, DeleteTrip
<1>1. v \in Deletion /\ v # None /\ v.at = "blobs" /\ v.trip = t
      /\ v.keys = del[d].keys
  BY <1>0, Values DEF Deletion
<1>2. UNCHANGED <<lastId, blob, writer, up, late, smudged>>
  BY DEF DeleteTrip
<1>3. CASE t \notin trips
  <2>1. del' = [del EXCEPT ![d] = None] /\ UNCHANGED <<trips, photos, loose>>
    BY <1>3 DEF DeleteTrip
  <2>2. del'[d] = None /\ \A e \in Deletes : e # d => del'[e] = del[e]
    BY <1>0, <2>1 DEF TypeOK
  <2>3. FilesAccounted'
    BY <1>0, <1>2, <2>1, <2>2 DEF Inductive, FilesAccounted, RowsGone
  <2>4. Removing(d)' /\ loose' \subseteq Key
    BY <1>0, <2>1, <2>2 DEF Removing, TypeOK
  <2> QED BY <1>2, <2>1, <2>3, <2>4, DeletionMoves DEF db
<1>4. CASE t \in trips
  <2>1. /\ trips' = trips \ {t} /\ photos' = photos \ RowsOf(t)
        /\ loose' = loose \cup Named(RowsOf(t) \ del[d].listed)
        /\ del' = [del EXCEPT ![d] = v]
    BY <1>0, <1>4 DEF DeleteTrip, TypeOK
  <2>2. del'[d] = v /\ \A e \in Deletes : e # d => del'[e] = del[e]
    BY <1>0, <2>1 DEF TypeOK
  <2>3. t <= lastId /\ del[d].keys = Named(del[d].listed)
        /\ \A k \in del[d].keys : k.trip = t
    BY <1>0 DEF Removing
  <2> HIDE DEF t, v
  <2>4. TypeOK'
    <3>1. Named(RowsOf(t) \ del[d].listed) \subseteq Key
      BY <1>0, NamedKeys DEF TypeOK, RowsOf
    <3>2. del' \in [Deletes -> Deletion \cup {None}]
      BY <1>0, <1>1, <2>1 DEF TypeOK
    <3> QED BY <1>0, <1>2, <2>1, <3>1, <3>2 DEF TypeOK
  <2>5. PhotosKept'
    BY <1>2, <2>1 DEF Inductive, PhotosKept, Holds
  <2>6. KeysDistinct'
    BY <1>0, <2>1 DEF KeysDistinct, RowsOf
  <2>7. FilesAccounted'
    <3> SUFFICES ASSUME NEW k \in Key, blob[k] # None,
                        k \notin Named(photos') \cup loose'
                 PROVE  \E e \in Deletes : del'[e] # None /\ RowsGone(e)'
                                           /\ k \in del'[e].keys
      BY <1>2 DEF FilesAccounted
    <3>1. CASE k \in Named(photos)
      <4>1. k \in Named(RowsOf(t))
        BY <2>1, <3>1 DEF Named
      <4>2. k \in Named(del[d].listed)
        BY <2>1, <4>1 DEF Named
      <4> QED BY <1>1, <2>2, <2>3, <4>2 DEF RowsGone
    <3>2. CASE k \notin Named(photos)
      <4>1. PICK e \in Deletes : del[e] # None /\ RowsGone(e) /\ k \in del[e].keys
        BY <2>1, <3>2 DEF Inductive, FilesAccounted
      <4>2. e # d
        BY <1>0, <4>1 DEF RowsGone
      <4> QED BY <2>2, <4>1, <4>2 DEF RowsGone
    <3> QED BY <3>1, <3>2
  <2>8. Numbered'
    <3>1. IsFiniteSet(photos')
      BY <1>0, <2>1, FS_Subset DEF Numbered
    <3>2. \A r \in photos' : r \in photos /\ RowsOf(r.trip)' = RowsOf(r.trip)
      BY <2>1 DEF RowsOf
    <3> QED BY <1>0, <1>2, <2>1, <3>1, <3>2 DEF Numbered
  <2>9. ASSUME NEW u \in Uploads PROVE Addressed(u)' /\ Pending(u)'
    <3>1. Addressed(u) /\ writer' # u
      BY <1>0, <1>2, Values DEF Inductive
    <3> QED BY <1>2, <3>1 DEF Addressed, Pending, NextId
  <2>10. ASSUME NEW e \in Deletes PROVE Removing(e)'
    <3>1. CASE e = d
      BY <1>1, <1>2, <2>1, <2>2, <2>3, <3>1 DEF Removing, RowsGone, Deleted
    <3>2. CASE e # d
      <4>1. del'[e] = del[e] /\ Removing(e)
        BY <2>2, <3>2 DEF Inductive
      <4> QED BY <1>2, <2>1, <4>1 DEF Removing, RowsGone, Deleted
    <3> QED BY <3>1, <3>2
  <2> QED BY <2>4, <2>5, <2>6, <2>7, <2>8, <2>9, <2>10 DEF Inductive
<1> QED BY <1>3, <1>4

\* A file that is removed is of no trip there is, or is about to be.
LEMMA DeleteBlobKeeps ==
    ASSUME Inductive, NEW d \in Deletes, NEW k \in Key, NEW ok \in BOOLEAN,
           DeleteBlob(d, k, ok)
    PROVE  Inductive'
<1> DEFINE v == [del[d] EXCEPT !.keys = @ \ {k}]
<1>0. /\ TypeOK /\ KeysDistinct /\ Numbered /\ Removing(d)
      /\ del[d] \in Deletion /\ del[d] # None /\ RowsGone(d) /\ k \in del[d].keys
  BY DEF Inductive, TypeOK, DeleteBlob
<1>1. /\ v \in Deletion /\ v # None /\ v.at = del[d].at /\ v.trip = del[d].trip
      /\ v.keys = del[d].keys \ {k}
  BY <1>0, Values DEF Deletion
<1>2. /\ UNCHANGED <<db, writer, up, late, smudged>>
      /\ blob' = IF ok THEN [blob EXCEPT ![k] = None] ELSE blob
      /\ loose' = IF ok THEN loose \ {k} ELSE loose \cup {k}
      /\ del' = [del EXCEPT ![d] = v]
  BY <1>0 DEF DeleteBlob, TypeOK
<1> USE DEF db
<1> HIDE DEF v
<1>3. del'[d] = v /\ \A e \in Deletes : e # d => del'[e] = del[e]
  BY <1>0, <1>2 DEF TypeOK
<1>4. k.trip \notin trips /\ k.trip <= lastId /\ k.trip # NextId
  <2>1. k.trip \in Nat
    BY <1>0, IdsAreNumbers DEF Key
  <2> QED BY <1>0, <2>1, IdsAreNumbers DEF Removing, Deleted
<1>5. \A j \in Key : j # k => blob'[j] = blob[j]
  BY <1>0, <1>2 DEF TypeOK
<1>6. ASSUME NEW r \in Row, r.trip # k.trip, NEW j \in KeysOf(r),
             Holds(blob, r, j)
      PROVE  Holds(blob, r, j)'
  <2>1. j \in Key /\ j # k
    BY <1>6, RowKeys
  <2> QED BY <1>2, <1>5, <1>6, <2>1 DEF Holds
<1>7. TypeOK'
  <2>1. blob' \in [Key -> Contents \cup {None}]
    BY <1>0, <1>2 DEF TypeOK
  <2>2. del' \in [Deletes -> Deletion \cup {None}]
    BY <1>0, <1>1, <1>2 DEF TypeOK
  <2>3. loose' \subseteq Key
    BY <1>0, <1>2 DEF TypeOK
  <2> QED BY <1>0, <1>2, <2>1, <2>2, <2>3 DEF TypeOK
<1>8. PhotosKept'
  <2> SUFFICES ASSUME NEW r \in photos, NEW j \in KeysOf(r)
               PROVE  Holds(blob, r, j)'
    BY <1>2 DEF PhotosKept
  <2>1. r \in Row /\ r.trip # k.trip /\ Holds(blob, r, j)
    BY <1>0, <1>4 DEF Inductive, PhotosKept, KeysDistinct, TypeOK
  <2> QED BY <1>6, <2>1
<1>9. KeysDistinct' /\ Numbered'
  BY <1>0, <1>2 DEF KeysDistinct, Numbered, RowsOf
<1>10. FilesAccounted'
  <2> SUFFICES ASSUME NEW j \in Key, blob'[j] # None,
                      j \notin Named(photos) \cup loose'
               PROVE  \E e \in Deletes : del'[e] # None /\ RowsGone(e)'
                                         /\ j \in del'[e].keys
    BY <1>2 DEF FilesAccounted
  <2>1. j # k
    BY <1>0, <1>2 DEF TypeOK
  <2>2. PICK e \in Deletes : del[e] # None /\ RowsGone(e) /\ j \in del[e].keys
    BY <1>2, <1>5, <2>1 DEF Inductive, FilesAccounted
  <2> QED BY <1>1, <1>3, <2>1, <2>2 DEF RowsGone
<1>11. ASSUME NEW u \in Uploads PROVE Addressed(u)' /\ Pending(u)'
  <2>1. Addressed(u)'
    BY <1>2 DEF Inductive, Addressed, NextId
  <2>2. Pending(u)'
    <3> SUFFICES ASSUME writer = u PROVE Pending(u)'
      BY <1>2 DEF Pending
    <3>1. Pending(u) /\ Addressed(u) /\ up[u] \in Upload /\ up[u] # None
          /\ up[u].at # "begin"
      BY <1>0, Values DEF Inductive, TypeOK
    <3>2. /\ RowsOf(up[u].trip)' = RowsOf(up[u].trip) /\ up'[u] = up[u]
          /\ CurrentKey(u, FALSE)' = CurrentKey(u, FALSE)
          /\ Current(u)' = Current(u) /\ (Storable(u)' <=> Storable(u))
      BY <1>2 DEF RowsOf, Storable, CurrentKey, Current
    <3>3. Storable(u) => up[u].trip # k.trip
      BY <1>4, <3>1 DEF Storable, Addressed
    <3>4. \A r \in up[u].rows : \A j \in KeysOf(r) : Holds(blob, r, j)'
      <4> SUFFICES ASSUME NEW r \in up[u].rows, NEW j \in KeysOf(r)
                   PROVE  Holds(blob, r, j)'
        OBVIOUS
      <4>1. r \in Row /\ r.trip # k.trip /\ Holds(blob, r, j)
        BY <3>1, <3>3 DEF Upload, Pending
      <4> QED BY <1>6, <4>1
    <3>5. ASSUME up[u].at = "thumb", Storable(u)
          PROVE  LET j == CurrentKey(u, FALSE) IN
                 IF j \in smudged' THEN blob'[j] # None
                                   ELSE blob'[j] = Current(u).bytes
      <4>1. CurrentKey(u, FALSE) \in Key /\ CurrentKey(u, FALSE) # k
        BY <1>0, <3>1, <3>3, <3>5, CurrentPhoto DEF Pending
      <4> QED BY <1>2, <1>5, <3>1, <3>5, <4>1 DEF Pending
    <3> QED BY <1>2, <3>1, <3>2, <3>4, <3>5 DEF Pending
  <2> QED BY <2>1, <2>2
<1>12. ASSUME NEW e \in Deletes PROVE Removing(e)'
  <2>1. Removing(e) /\ Removing(d)
    BY DEF Inductive
  <2>2. CASE e = d
    BY <1>0, <1>1, <1>2, <1>3, <2>1, <2>2 DEF Removing, RowsGone, Deleted
  <2>3. CASE e # d
    BY <1>2, <1>3, <2>1, <2>3 DEF Removing, RowsGone, Deleted
  <2> QED BY <2>2, <2>3
<1> QED BY <1>7, <1>8, <1>9, <1>10, <1>11, <1>12 DEF Inductive

-----------------------------------------------------------------------------
(* The theorems.                                                           *)

\* Every step keeps the invariant.
LEMMA NextInductive == Inductive /\ [Next]_vars => Inductive'
<1> SUFFICES ASSUME Inductive, [Next]_vars PROVE Inductive'
  OBVIOUS
<1>1. ASSUME NEW u \in Uploads, UploadStep(u) PROVE Inductive'
  BY <1>1, RequestKeeps, BeginKeeps, PutKeeps, PutFailsKeeps, CommitKeeps, AbortKeeps,
     CancelKeeps, LandKeeps, PutThumbKeeps DEF UploadStep
<1>2. ASSUME NEW d \in Deletes, DeleteStep(d) PROVE Inductive'
  BY <1>2, ListPhotosKeeps, DeleteTripKeeps, EndDeleteKeeps, DeleteBlobKeeps
     DEF DeleteStep
<1>3. CASE UNCHANGED vars
  <2>1. TypeOK' /\ PhotosKept' /\ KeysDistinct' /\ FilesAccounted' /\ Numbered'
    BY <1>3 DEF Inductive, vars, TypeOK, PhotosKept, Holds, KeysDistinct,
                FilesAccounted, RowsGone, Numbered, RowsOf
  <2>2. ASSUME NEW u \in Uploads PROVE Addressed(u)' /\ Pending(u)'
    <3>1. Addressed(u) /\ Pending(u)
      BY DEF Inductive
    <3>2. Addressed(u)'
      BY <1>3, <3>1 DEF vars, Addressed, NextId
    <3>3. Pending(u)'
      BY <1>3, <3>1 DEF vars, Pending, Storable, RowsOf, Holds, CurrentKey,
                        Current
    <3> QED BY <3>2, <3>3
  <2>3. \A d \in Deletes : Removing(d)'
    BY <1>3 DEF Inductive, vars, Removing, RowsGone, Deleted
  <2> QED BY <2>1, <2>2, <2>3 DEF Inductive
<1> QED BY <1>1, <1>2, <1>3 DEF Next

\* What the other theorems rest on: an upload that has the lock writes only
\* under free numbers, and no removal reaches a key that a row has or gets.
THEOREM PhotosInductive == Spec => []Inductive
BY InitInductive, NextInductive, PTL DEF Spec

\* Type correctness of the two tables, the files and the requests' locals.
THEOREM PhotoTypes == Spec => []TypeOK
<1>1. Inductive => TypeOK
  BY DEF Inductive
<1> QED BY <1>1, PhotosInductive, PTL

\* A row names only files that are there, with its own bytes, for any number
\* of uploads, deletions, failures, cancelled requests and late writes.
THEOREM RowsHaveFiles == Spec => []PhotosKept
<1>1. Inductive => PhotosKept
  BY DEF Inductive
<1> QED BY <1>1, PhotosInductive, PTL

\* No two photos share a file, and each belongs to a trip there is.
THEOREM RowsHaveTheirOwn == Spec => []KeysDistinct
<1>1. Inductive => KeysDistinct
  BY DEF Inductive
<1> QED BY <1>1, PhotosInductive, PTL

\* Every file is a row's, about to be removed, or one the code leaves behind.
THEOREM NoFileUnaccounted == Spec => []FilesAccounted
<1>1. Inductive => FilesAccounted
  BY DEF Inductive
<1> QED BY <1>1, PhotosInductive, PTL

-----------------------------------------------------------------------------
(* What the server's steps can do to what a run has seen.                  *)

\* A number no photo has had: of a trip still to come, or behind its rows.
Fresh(t, n) ==
    t > lastId \/ (t \in trips /\ n >= Cardinality(RowsOf(t)))

\* What any step of the server keeps of the tables, and where it writes.
StoreMoves ==
    /\ lastId <= lastId'
    /\ \A t \in trips' : t <= lastId => t \in trips
    /\ \A r \in photos : r.trip \in trips' => r \in photos'
    /\ \A r \in photos' \ photos : Fresh(r.trip, r.ord)
    /\ \A t \in trips' : Cardinality(RowsOf(t)) <= Cardinality(RowsOf(t))'
    /\ \A k \in smudged \ smudged' : Fresh(k.trip, k.ord)

\* A step that leaves the tables and makes no file good again.
LEMMA TablesStay ==
    ASSUME Inductive, UNCHANGED db, smudged \subseteq smudged'
    PROVE  StoreMoves
<1>1. lastId \in Nat /\ \A t : Cardinality(RowsOf(t)) \in Nat
  BY IdsAreNumbers, RowsFinite DEF Inductive
<1>2. \A t : Cardinality(RowsOf(t))' = Cardinality(RowsOf(t))
  BY DEF RowsOf, db
<1> QED BY <1>1, <1>2 DEF StoreMoves, db

\* The lock's holder writes under a number no photo has had.
LEMMA WritesAreFresh ==
    ASSUME Inductive, NEW u \in Uploads, up[u] # None,
           up[u].at \in {"put", "thumb"}, up[u].left # << >>,
           NEW thumb \in BOOLEAN, NEW b, Written(CurrentKey(u, thumb), b),
           UNCHANGED db
    PROVE  StoreMoves
<1> DEFINE k == CurrentKey(u, thumb)
<1>1. /\ TypeOK /\ Numbered /\ Addressed(u) /\ Pending(u) /\ writer = u
      /\ up[u].at # "begin" /\ up[u].at # "failed"
  BY OneWriter DEF Inductive
<1>2. k \in Key /\ k.trip = up[u].trip /\ k.ord = up[u].ord
  BY <1>1, CurrentPhoto
<1>3. /\ Cardinality(RowsOf(up[u].trip)) \in Nat
      /\ Cardinality(up[u].rows) \in Nat
      /\ up[u].ord = Cardinality(RowsOf(up[u].trip)) + Cardinality(up[u].rows)
  BY <1>1, RowsFinite, FS_CardinalityType DEF Pending
<1>4. lastId \in Nat /\ k.trip \in Nat
  BY <1>1, <1>2, IdsAreNumbers DEF Key
<1>5. smudged \ smudged' # {} => ~Deleted(k.trip)
  BY DEF Written
<1>6. \A j \in smudged \ smudged' : j = k
  BY DEF Written
<1>7. ~Deleted(k.trip) => Fresh(k.trip, k.ord)
  BY <1>2, <1>3, <1>4 DEF Deleted, Fresh
<1> HIDE DEF k
<1>8. \A t : Cardinality(RowsOf(t)) \in Nat
             /\ Cardinality(RowsOf(t))' = Cardinality(RowsOf(t))
  BY <1>1, RowsFinite DEF RowsOf, db
<1>9. \A j \in smudged \ smudged' : Fresh(j.trip, j.ord)
  BY <1>5, <1>6, <1>7
<1> QED BY <1>4, <1>8, <1>9 DEF StoreMoves, db

\* What is committed has fresh numbers.
LEMMA CommitMoves ==
    ASSUME Inductive, NEW u \in Uploads, Commit(u)
    PROVE  StoreMoves
<1> DEFINE R == up[u].rows
<1>1. /\ TypeOK /\ Numbered /\ Addressed(u) /\ Pending(u) /\ writer = u
      /\ up[u] \in Upload /\ up[u].at = "put" /\ up[u] # None
  BY OneWriter DEF Inductive, TypeOK, Commit
<1>2. /\ up[u].trip \in Nat /\ lastId \in Nat
      /\ up[u].new => up[u].trip = lastId + 1
  BY <1>1, IdsAreNumbers DEF Addressed
<1>3. /\ photos' = photos \cup R /\ smudged' = smudged
      /\ trips' = IF up[u].new THEN trips \cup {up[u].trip} ELSE trips
      /\ lastId' = IF up[u].new THEN up[u].trip ELSE lastId
  BY DEF Commit
<1>4. /\ lastId <= lastId' /\ \A t \in trips' : t <= lastId => t \in trips
  <2>1. CASE up[u].new
    BY <1>2, <1>3, <2>1
  <2>2. CASE ~up[u].new
    BY <1>2, <1>3, <2>2
  <2> QED BY <2>1, <2>2
<1>5. ASSUME NEW r \in R PROVE Fresh(r.trip, r.ord)
  <2>1. /\ r.trip = up[u].trip /\ Cardinality(RowsOf(up[u].trip)) <= r.ord
        /\ up[u].new \/ up[u].trip \in trips
        /\ Cardinality(RowsOf(up[u].trip)) \in Nat /\ r.ord \in Nat
    BY <1>1, RowsFinite, MaxAssumption DEF Pending, Storable, Upload, Row
  <2> HIDE DEF R
  <2> QED BY <1>2, <2>1 DEF Fresh
<1>6. ASSUME NEW t PROVE Cardinality(RowsOf(t)) <= Cardinality(RowsOf(t))'
  <2>1. IsFiniteSet(photos') /\ RowsOf(t) \subseteq RowsOf(t)'
    BY CommitKeeps, <1>3 DEF Inductive, Numbered, RowsOf
  <2>2. IsFiniteSet(RowsOf(t)')
    BY <2>1, FS_Subset DEF RowsOf
  <2> QED BY <2>1, <2>2, FS_Subset
<1> HIDE DEF R
<1>7. \A r \in photos : r.trip \in trips' => r \in photos'
  BY <1>3
<1>8. \A r \in photos' \ photos : Fresh(r.trip, r.ord)
  BY <1>3, <1>5
<1> QED BY <1>3, <1>4, <1>6, <1>7, <1>8 DEF StoreMoves

\* A trip goes with its rows.
LEMMA DeleteTripMoves ==
    ASSUME Inductive, NEW d \in Deletes, DeleteTrip(d)
    PROVE  StoreMoves
<1>1. CASE del[d].trip \notin trips
  BY <1>1, TablesStay DEF DeleteTrip, db
<1>2. CASE del[d].trip \in trips
  <2>1. /\ trips' = trips \ {del[d].trip}
        /\ photos' = photos \ RowsOf(del[d].trip)
        /\ lastId' = lastId /\ smudged' = smudged
    BY <1>2 DEF DeleteTrip
  <2>2. \A t \in trips' : RowsOf(t)' = RowsOf(t)
    BY <2>1 DEF RowsOf
  <2>3. lastId \in Nat /\ \A t : Cardinality(RowsOf(t)) \in Nat
    BY IdsAreNumbers, RowsFinite DEF Inductive
  <2>4. \A r \in photos : r.trip \in trips' => r \in photos'
    BY <2>1 DEF RowsOf
  <2> QED BY <2>1, <2>2, <2>3, <2>4 DEF StoreMoves
<1> QED BY <1>1, <1>2

\* Every step of the server is such a step.
LEMMA NextMoves == ASSUME Inductive, Next PROVE StoreMoves
<1>1. ASSUME NEW u \in Uploads, UploadStep(u) PROVE StoreMoves
  <2>1. CASE \E t \in Ids \cup {None}, ps \in Requests : Request(u, t, ps)
    BY <2>1, TablesStay DEF Request, db, history
  <2>2. CASE Begin(u) \/ Abort(u) \/ Cancel(u) \/ Land(u)
    BY <2>2, TablesStay DEF Begin, Abort, Cancel, Land, Rollback, db, history
  <2>3. CASE Commit(u)
    BY <2>3, CommitMoves
  <2>4. CASE Put(u) \/ PutFails(u)
    BY <2>4, WritesAreFresh DEF Put, PutFails, Rollback, db
  <2>5. ASSUME NEW ok \in BOOLEAN, PutThumb(u, ok) PROVE StoreMoves
    <3>1. UNCHANGED db
      BY <2>5 DEF PutThumb, db
    <3>2. ASSUME NEW b, Written(CurrentKey(u, TRUE), b) PROVE StoreMoves
      <4>1. up[u] # None /\ up[u].at = "thumb"
        BY <2>5 DEF PutThumb
      <4>2. up[u].left # << >>
        BY <4>1, OneWriter DEF Inductive, Pending
      <4> QED BY <3>1, <3>2, <4>1, <4>2, WritesAreFresh
    <3>3. CASE UNCHANGED <<blob, smudged, loose>>
      BY <3>1, <3>3, TablesStay
    <3> QED BY <2>5, <3>2, <3>3 DEF PutThumb
  <2> QED BY <1>1, <2>1, <2>2, <2>3, <2>4, <2>5 DEF UploadStep
<1>2. ASSUME NEW d \in Deletes, DeleteStep(d) PROVE StoreMoves
  <2>1. CASE \E t \in Ids : ListPhotos(d, t)
    BY <2>1, TablesStay DEF ListPhotos, db, history
  <2>2. CASE DeleteTrip(d)
    BY <2>2, DeleteTripMoves
  <2>3. CASE EndDelete(d) \/ \E k \in Key, ok \in BOOLEAN : DeleteBlob(d, k, ok)
    BY <2>3, TablesStay DEF EndDelete, DeleteBlob, db
  <2> QED BY <1>2, <2>1, <2>2, <2>3 DEF DeleteStep
<1> QED BY <1>1, <1>2 DEF Next
-----------------------------------------------------------------------------
(* The run's lemmas.                                                       *)

\* Rows with a key in common have their number in common.
LEMMA SameNumber ==
    ASSUME NEW r1 \in Row, NEW r2 \in Row,
           NEW k \in KeysOf(r1), k \in KeysOf(r2)
    PROVE  r1.trip = r2.trip /\ r1.ord = r2.ord
BY RowKeys

\* What the run has seen are rows, and has their keys.
LEMMA SeenAreRows ==
    ASSUME Inductive, BackupTypeOK
    PROVE  /\ Seen \subseteq Row
           /\ \A r \in Row : \A k \in KeysOf(r) :
                  k \in Key /\ k.trip = r.trip /\ k.ord = r.ord
           /\ \A k \in Key : k.trip \in Nat /\ k.ord \in Nat
BY RowKeys, MaxAssumption
   DEF Inductive, TypeOK, BackupTypeOK, Seen, Saved, Key, Ids

\* A file's number is not fresh.
LEMMA HeldIsNotFresh ==
    ASSUME Inductive, HeldIsOld, NEW k \in Held, Fresh(k.trip, k.ord)
    PROVE  FALSE
<1>1. lastId \in Nat /\ k.trip \in Nat /\ k.ord \in Nat
      /\ Cardinality(RowsOf(k.trip)) \in Nat
  BY IdsAreNumbers, RowsFinite, MaxAssumption DEF Inductive, Held, Key
<1>2. k.trip <= lastId
      /\ (k.trip \in trips => k.ord < Cardinality(RowsOf(k.trip)))
  BY DEF HeldIsOld
<1> QED BY <1>1, <1>2 DEF Fresh

\* Nor is the number of a row that the run has seen.
LEMMA SeenIsNotFresh ==
    ASSUME Inductive, BackupTypeOK, RowsRemembered, NEW r \in Seen,
           Fresh(r.trip, r.ord)
    PROVE  FALSE
<1>1. lastId \in Nat /\ r.trip \in Nat /\ r.ord \in Nat
      /\ Cardinality(RowsOf(r.trip)) \in Nat
  BY IdsAreNumbers, RowsFinite, SeenAreRows, MaxAssumption
     DEF Inductive, Row
<1>2. /\ r.trip <= lastId
      /\ (r.trip \in trips => r.ord < Cardinality(RowsOf(r.trip)))
  <2>1. CASE r \in photos
    BY <2>1 DEF Inductive, KeysDistinct, Numbered
  <2>2. CASE r \in snap \cup Saved
    BY <2>2 DEF Inductive, Numbered, RowsRemembered
  <2> QED BY <2>1, <2>2 DEF Seen
<1> QED BY <1>1, <1>2 DEF Fresh

-----------------------------------------------------------------------------
(* Steps of the server.                                                    *)

\* Whatever the server does, what the run has seen and holds stays sound.
LEMMA ServerKeeps ==
    ASSUME BackupInductive, Next, UNCHANGED backup
    PROVE  BackupInductive'
<1>1. /\ Inductive /\ BackupTypeOK /\ RowsRemembered /\ HeldIsOld
      /\ HeldIsRight /\ OnCourse /\ StoreMoves
  BY NextMoves DEF BackupInductive
<1>2. Inductive'
  BY <1>1, NextInductive
<1>3. BackupTypeOK'
  BY <1>1 DEF BackupTypeOK, backup
<1>4. Saved' = Saved /\ Held' = Held /\ UNCHANGED <<snap, phase, todo, held, saved, gone>>
  BY DEF Saved, Held, backup
<1>5. /\ lastId \in Nat /\ lastId' \in Nat /\ lastId <= lastId'
      /\ \A t \in Nat : t <= lastId => t <= lastId'
  <2>1. lastId \in Nat
    BY <1>1, IdsAreNumbers DEF Inductive
  <2>2. lastId' \in Nat
    BY <1>2, MaxAssumption DEF Inductive, TypeOK, Ids
  <2> QED BY <1>1, <2>1, <2>2 DEF StoreMoves
<1>6. \A r \in Row : r.trip \in Nat /\ r.ord \in Nat
  BY MaxAssumption DEF Row, Ids
<1>7. RowsRemembered'
  <2>1. ASSUME NEW r \in snap \cup Saved
        PROVE  r.trip <= lastId' /\ (r.trip \in trips' => r \in photos')
    <3>1. r.trip <= lastId /\ (r.trip \in trips => r \in photos) /\ r.trip \in Nat
      BY <1>1, <1>6, SeenAreRows DEF RowsRemembered, Seen
    <3> QED BY <1>1, <1>5, <3>1 DEF StoreMoves
  <2>2. ASSUME NEW r1 \in Seen', NEW r2 \in Seen',
               r1.trip = r2.trip, r1.ord = r2.ord
        PROVE  r1 = r2
    <3>1. CASE r1 \in photos' /\ r2 \in photos'
      BY <1>2, <2>2, <3>1 DEF Inductive, Numbered
    <3>2. ASSUME NEW r \in Seen', r \notin photos' PROVE r \in Seen
      BY <1>4, <3>2 DEF Seen
    <3>3. ASSUME NEW r \in photos', r \notin Seen PROVE Fresh(r.trip, r.ord)
      BY <1>1, <3>3 DEF StoreMoves, Seen
    <3>4. CASE r1 \notin photos' \/ r2 \notin photos'
      BY <1>1, <2>2, <3>2, <3>3, <3>4, SeenIsNotFresh DEF RowsRemembered
    <3> QED BY <3>1, <3>4
  <2> QED BY <1>4, <2>1, <2>2 DEF RowsRemembered
<1>8. HeldIsOld'
  <2> SUFFICES ASSUME NEW k \in Held
               PROVE  /\ k.trip <= lastId'
                      /\ k.trip \in trips' =>
                             k.ord < Cardinality(RowsOf(k.trip)')
    BY <1>4 DEF HeldIsOld
  <2>1. k.trip <= lastId /\ k.trip \in Nat /\ k.ord \in Nat
        /\ (k.trip \in trips => k.ord < Cardinality(RowsOf(k.trip)))
    BY <1>1, SeenAreRows DEF HeldIsOld, Held
  <2>2. k.trip \in trips' =>
            Cardinality(RowsOf(k.trip)) <= Cardinality(RowsOf(k.trip)')
    BY <1>1 DEF StoreMoves
  <2>3. Cardinality(RowsOf(k.trip)) \in Nat /\ Cardinality(RowsOf(k.trip)') \in Nat
    <3>1. IsFiniteSet(RowsOf(k.trip)')
      BY <1>2, FS_Subset DEF Inductive, Numbered, RowsOf
    <3> QED BY <1>1, <3>1, RowsFinite, FS_CardinalityType DEF Inductive
  <2> QED BY <1>1, <1>5, <2>1, <2>2, <2>3 DEF StoreMoves
<1>9. HeldIsRight'
  <2> SUFFICES ASSUME NEW r \in Seen', NEW k \in KeysOf(r), k \in Held \ gone
               PROVE  Holds(held, r, k)'
    BY <1>4 DEF HeldIsRight
  <2>1. ~Fresh(k.trip, k.ord)
    BY <1>1, HeldIsNotFresh
  <2>2. r \in Row /\ r.trip = k.trip /\ r.ord = k.ord
    BY <1>2, <1>3, RowKeys
       DEF Seen, Saved, Inductive, TypeOK, BackupTypeOK
  <2>3. r \in Seen
    BY <1>1, <1>4, <2>1, <2>2 DEF StoreMoves, Seen
  <2>4. Holds(held, r, k)
    BY <1>1, <2>3 DEF HeldIsRight
  <2>5. k \in smudged => k \in smudged'
    BY <1>1, <2>1 DEF StoreMoves
  <2> QED BY <1>4, <2>4, <2>5 DEF Holds, Held
<1>10. OnCourse'
  <2>1. ASSUME NEW k \in gone PROVE Deleted(k.trip)'
    <3>1. k.trip \in Nat /\ k.trip <= lastId /\ k.trip \notin trips
      BY <1>1, SeenAreRows DEF OnCourse, Deleted, BackupTypeOK
    <3> QED BY <1>1, <1>5, <3>1 DEF StoreMoves, Deleted
  <2> QED BY <1>1, <1>4, <2>1 DEF OnCourse
<1> QED BY <1>2, <1>3, <1>7, <1>8, <1>9, <1>10 DEF BackupInductive

-----------------------------------------------------------------------------
(* Steps of the run.                                                       *)

\* The snapshot is what the server has.
LEMMA SnapshotKeeps ==
    ASSUME BackupInductive, Snapshot, UNCHANGED vars
    PROVE  BackupInductive'
<1> USE DEF vars
<1>1. /\ Inductive /\ BackupTypeOK /\ RowsRemembered /\ HeldIsOld
      /\ HeldIsRight /\ OnCourse /\ Inductive'
  BY NextInductive DEF BackupInductive
<1>2. /\ snap' = photos /\ todo' = Named(photos) /\ missing' = {}
      /\ phase' = "fetch" /\ UNCHANGED <<held, saved, gone>>
      /\ Held' = Held /\ Saved' = Saved
  BY DEF Snapshot, Held, Saved
<1>3. Seen' \subseteq Seen
  BY <1>2 DEF Seen
<1>4. BackupTypeOK'
  BY <1>1, <1>2, NamedKeys DEF BackupTypeOK, Inductive, TypeOK
<1>5. RowsRemembered'
  <2>1. \A r \in photos : r.trip <= lastId
    BY <1>1 DEF Inductive, KeysDistinct, Numbered
  <2> QED BY <1>1, <1>2, <1>3, <2>1 DEF RowsRemembered
<1>6. HeldIsOld'
  BY <1>1, <1>2 DEF HeldIsOld, RowsOf
<1>7. HeldIsRight'
  BY <1>1, <1>2, <1>3 DEF HeldIsRight, Holds
<1>8. OnCourse'
  BY <1>1, <1>2 DEF OnCourse, Deleted
<1> QED BY <1>1, <1>4, <1>5, <1>6, <1>7, <1>8 DEF BackupInductive

\* A file that is fetched while its photo is there has that photo's bytes.
LEMMA FetchKeeps ==
    ASSUME BackupInductive, NEW k \in Key, Fetch(k), UNCHANGED vars
    PROVE  BackupInductive'
<1> USE DEF vars
<1>1. /\ Inductive /\ BackupTypeOK /\ RowsRemembered /\ HeldIsOld
      /\ HeldIsRight /\ OnCourse /\ Inductive'
  BY NextInductive DEF BackupInductive
<1>2. /\ phase = "fetch" /\ k \in todo /\ todo' = todo \ {k}
      /\ UNCHANGED <<phase, snap, saved>> /\ Saved' = Saved /\ Seen' = Seen
      /\ held' = IF k \in Held THEN held ELSE [held EXCEPT ![k] = blob[k]]
      /\ missing' = IF k \in Held \/ blob[k] # None THEN missing
                                                     ELSE missing \cup {k}
      /\ gone' = IF k \in Held \cup Named(photos) THEN gone ELSE gone \cup {k}
  BY DEF Fetch, Saved, Seen
<1>3. PICK r \in snap : k \in KeysOf(r)
  BY <1>1, <1>2 DEF OnCourse, Named
<1>4. /\ r \in Seen /\ r \in Row /\ r.trip = k.trip /\ r.ord = k.ord
      /\ r.trip <= lastId /\ (r.trip \in trips => r \in photos)
  BY <1>1, <1>3, SeenAreRows DEF Seen, RowsRemembered
<1>5. k \notin Named(photos) => Deleted(k.trip)
  BY <1>3, <1>4 DEF Named, Deleted
<1>6. k \in Named(photos) => r \in photos /\ Holds(blob, r, k)
  <2>1. SUFFICES ASSUME k \in Named(photos) PROVE r \in photos /\ Holds(blob, r, k)
    OBVIOUS
  <2>2. PICK s \in photos : k \in KeysOf(s)
    BY <2>1 DEF Named
  <2>3. s \in Seen /\ s.trip = k.trip /\ s.ord = k.ord
    BY <1>1, <2>2, SeenAreRows DEF Seen
  <2>4. s = r
    BY <1>1, <1>4, <2>3 DEF RowsRemembered
  <2> QED BY <1>1, <2>2, <2>4 DEF Inductive, PhotosKept
<1>7. k \in Named(photos) => blob[k] # None
  BY <1>4, <1>6, Values DEF Holds, Row
<1>8. /\ held' \in [Key -> Contents \cup {None}]
      /\ \A j \in Key : j # k => held'[j] = held[j]
      /\ k \notin Held => held'[k] = blob[k]
      /\ k \in Held => held' = held
  BY <1>1, <1>2 DEF BackupTypeOK, Inductive, TypeOK
<1>9. \A j \in Key : j # k => (j \in Held' <=> j \in Held)
  BY <1>8 DEF Held
<1>10. Held \subseteq Held' /\ (k \in Named(photos) => k \in Held')
       /\ gone \subseteq gone' /\ (k \notin Held => k \in gone' \cup Held')
  BY <1>2, <1>7, <1>8, <1>9 DEF Held
<1>11. BackupTypeOK'
  <2>1. missing' \subseteq gone' /\ missing' \subseteq Key /\ gone' \subseteq Key
    BY <1>1, <1>2, <1>7 DEF BackupTypeOK
  <2> QED BY <1>1, <1>2, <1>8, <2>1 DEF BackupTypeOK
<1>12. RowsRemembered'
  BY <1>1, <1>2 DEF RowsRemembered
<1>13. HeldIsOld'
  <2> SUFFICES ASSUME NEW j \in Held'
               PROVE  /\ j.trip <= lastId
                      /\ j.trip \in trips => j.ord < Cardinality(RowsOf(j.trip))
    BY DEF HeldIsOld, RowsOf
  <2>1. CASE j \in Held
    BY <1>1, <2>1 DEF HeldIsOld
  <2>2. CASE j = k
    BY <1>1, <1>4, <2>2 DEF Inductive, Numbered
  <2> QED BY <1>9, <2>1, <2>2 DEF Held
<1>14. HeldIsRight'
  <2> SUFFICES ASSUME NEW s \in Seen, NEW j \in KeysOf(s), j \in Held' \ gone'
               PROVE  Holds(held, s, j)'
    BY <1>2 DEF HeldIsRight
  <2>1. j \in Key /\ s.trip = j.trip /\ s.ord = j.ord
    BY <1>1, SeenAreRows
  <2>2. CASE j \in Held
    <3>1. held'[j] = held[j] /\ Holds(held, s, j)
      BY <1>1, <1>8, <1>10, <2>1, <2>2 DEF HeldIsRight
    <3> QED BY <3>1 DEF Holds
  <2>3. CASE j \notin Held
    <3>1. j = k /\ held'[k] = blob[k] /\ k \in Named(photos)
      BY <1>2, <1>8, <1>9, <2>1, <2>3
    <3>2. s = r
      BY <1>1, <1>4, <2>1, <3>1 DEF RowsRemembered
    <3> QED BY <1>6, <3>1, <3>2 DEF Holds
  <2> QED BY <2>2, <2>3
<1>15. OnCourse'
  <2>1. \A j \in gone' : Deleted(j.trip)
    BY <1>1, <1>2, <1>5 DEF OnCourse
  <2>2. todo' \subseteq Named(snap) /\ Named(snap) \subseteq todo' \cup gone' \cup Held'
    BY <1>1, <1>2, <1>10 DEF OnCourse
  <2>3. Named(Saved) \subseteq gone' \cup Held'
    BY <1>1, <1>10 DEF OnCourse
  <2>4. \A j \in gone' : Deleted(j.trip)'
    BY <2>1 DEF Deleted
  <2> QED BY <1>2, <2>2, <2>3, <2>4 DEF OnCourse
<1> QED BY <1>1, <1>11, <1>12, <1>13, <1>14, <1>15 DEF BackupInductive

\* The database that is swapped in names only what has been fetched.
LEMMA SwapInKeeps ==
    ASSUME BackupInductive, SwapIn, UNCHANGED vars
    PROVE  BackupInductive'
<1> USE DEF vars
<1>1. /\ Inductive /\ BackupTypeOK /\ RowsRemembered /\ HeldIsOld
      /\ HeldIsRight /\ OnCourse /\ Inductive'
  BY NextInductive DEF BackupInductive
<1>2. /\ phase = "fetch" /\ todo = {} /\ phase' = "sweep" /\ saved' = snap
      /\ todo' = Held \ Named(snap) /\ UNCHANGED <<snap, missing, held, gone>>
      /\ Held' = Held
  BY DEF SwapIn, AllFetched, Unnamed, Held
<1>3. Saved' \subseteq snap /\ Seen' \subseteq Seen
  BY <1>2 DEF Seen, Saved
<1>4. BackupTypeOK'
  BY <1>1, <1>2 DEF BackupTypeOK, Held
<1>5. RowsRemembered'
  BY <1>1, <1>2, <1>3 DEF RowsRemembered
<1>6. HeldIsOld'
  BY <1>1, <1>2 DEF HeldIsOld, RowsOf
<1>7. HeldIsRight'
  BY <1>1, <1>2, <1>3 DEF HeldIsRight, Holds
<1>8. OnCourse'
  <2>1. \A k \in gone' : Deleted(k.trip)'
    BY <1>1, <1>2 DEF OnCourse, Deleted
  <2>2. Named(Saved)' \subseteq Named(snap)
    BY <1>2, <1>3 DEF Named
  <2>3. Named(Saved)' \subseteq gone' \cup Held'
    BY <1>1, <1>2, <2>2 DEF OnCourse
  <2> QED BY <1>2, <2>1, <2>3 DEF OnCourse
<1> QED BY <1>1, <1>4, <1>5, <1>6, <1>7, <1>8 DEF BackupInductive

\* What is removed is not named by the database that is now in place.
LEMMA SweepKeeps ==
    ASSUME BackupInductive, NEW k \in Key, Sweep(k), UNCHANGED vars
    PROVE  BackupInductive'
<1> USE DEF vars
<1>1. /\ Inductive /\ BackupTypeOK /\ RowsRemembered /\ HeldIsOld
      /\ HeldIsRight /\ OnCourse /\ Inductive'
  BY NextInductive DEF BackupInductive
<1>2. /\ phase = "sweep" /\ k \in todo /\ held' = [held EXCEPT ![k] = None]
      /\ todo' = todo \ {k} /\ UNCHANGED <<phase, snap, missing, saved, gone>>
      /\ Saved' = Saved /\ Seen' = Seen
  BY DEF Sweep, Sweepable, Saved, Seen
<1>3. /\ held' \in [Key -> Contents \cup {None}]
      /\ \A j \in Key : j # k => held'[j] = held[j]
      /\ held'[k] = None
  BY <1>1, <1>2 DEF BackupTypeOK
<1>4. Held' = Held \ {k}
  BY <1>3 DEF Held
<1>5. k \notin Named(Saved)
  BY <1>1, <1>2 DEF OnCourse, Saved, Named
<1>6. BackupTypeOK'
  BY <1>1, <1>2, <1>3 DEF BackupTypeOK
<1>7. RowsRemembered'
  BY <1>1, <1>2 DEF RowsRemembered
<1>8. HeldIsOld'
  BY <1>1, <1>4 DEF HeldIsOld, RowsOf
<1>9. HeldIsRight'
  <2> SUFFICES ASSUME NEW s \in Seen, NEW j \in KeysOf(s), j \in Held' \ gone
               PROVE  Holds(held, s, j)'
    BY <1>2 DEF HeldIsRight
  <2>1. j \in Held \ gone /\ held'[j] = held[j]
    BY <1>3, <1>4 DEF Held
  <2>2. Holds(held, s, j)
    BY <1>1, <2>1 DEF HeldIsRight
  <2> QED BY <2>1, <2>2 DEF Holds
<1>10. OnCourse'
  <2>1. \A j \in gone' : Deleted(j.trip)'
    BY <1>1, <1>2 DEF OnCourse, Deleted
  <2> QED BY <1>1, <1>2, <1>4, <1>5, <2>1 DEF OnCourse
<1> QED BY <1>1, <1>6, <1>7, <1>8, <1>9, <1>10 DEF BackupInductive

\* A run that ends or stops forgets its snapshot.
LEMMA EndKeeps ==
    ASSUME BackupInductive, EndRun \/ Stop, UNCHANGED vars
    PROVE  BackupInductive'
<1> USE DEF vars
<1>1. /\ Inductive /\ BackupTypeOK /\ RowsRemembered /\ HeldIsOld
      /\ HeldIsRight /\ OnCourse /\ Inductive'
  BY NextInductive DEF BackupInductive
<1>2. /\ phase' = "idle" /\ snap' = {} /\ todo' \subseteq todo
      /\ missing' \subseteq missing /\ UNCHANGED <<held, saved, gone>>
      /\ Held' = Held /\ Saved' = Saved
  BY DEF EndRun, Stop, Held, Saved
<1>3. Seen' \subseteq Seen
  BY <1>2 DEF Seen
<1>4. BackupTypeOK'
  BY <1>1, <1>2 DEF BackupTypeOK
<1>5. RowsRemembered'
  BY <1>1, <1>2, <1>3 DEF RowsRemembered
<1>6. HeldIsOld'
  BY <1>1, <1>2 DEF HeldIsOld, RowsOf
<1>7. HeldIsRight'
  BY <1>1, <1>2, <1>3 DEF HeldIsRight, Holds
<1>8. OnCourse'
  BY <1>1, <1>2 DEF OnCourse, Deleted
<1> QED BY <1>1, <1>4, <1>5, <1>6, <1>7, <1>8 DEF BackupInductive

-----------------------------------------------------------------------------
(* The theorems.                                                           *)

\* Nothing is held at first.
LEMMA InitBackup == Init /\ BackupInit => BackupInductive
<1> SUFFICES ASSUME Init, BackupInit PROVE BackupInductive
  OBVIOUS
<1>1. Inductive /\ photos = {}
  BY InitInductive DEF Init
<1>2. Held = {} /\ Saved = {} /\ Seen = {}
  BY <1>1 DEF BackupInit, Held, Saved, Seen
<1>3. BackupTypeOK
  BY DEF BackupInit, BackupTypeOK
<1>4. Named({}) = {}
  BY DEF Named
<1> QED BY <1>1, <1>2, <1>3, <1>4
        DEF BackupInductive, RowsRemembered, HeldIsOld, HeldIsRight, OnCourse,
            BackupInit

\* A step of either leaves the invariant true.
LEMMA BackupNext ==
    BackupInductive /\ [\/ Next /\ UNCHANGED backup
                        \/ BackupStep /\ UNCHANGED vars]_allVars
        => BackupInductive'
<1> SUFFICES ASSUME BackupInductive,
                    [\/ Next /\ UNCHANGED backup
                     \/ BackupStep /\ UNCHANGED vars]_allVars
             PROVE  BackupInductive'
  OBVIOUS
<1>1. CASE Next /\ UNCHANGED backup
  BY <1>1, ServerKeeps
<1>2. CASE BackupStep /\ UNCHANGED vars
  BY <1>2, SnapshotKeeps, FetchKeeps, SwapInKeeps, SweepKeeps, EndKeeps
     DEF BackupStep
<1>3. CASE UNCHANGED allVars
  <2>1. Inductive'
    BY <1>3, NextInductive DEF BackupInductive, allVars
  <2>2. BackupTypeOK' /\ RowsRemembered' /\ HeldIsOld' /\ HeldIsRight'
    BY <1>3 DEF BackupInductive, allVars, vars, backup, BackupTypeOK,
                RowsRemembered, HeldIsOld, HeldIsRight, Saved, Seen, Held,
                Holds, RowsOf
  <2>3. OnCourse'
    BY <1>3 DEF BackupInductive, allVars, vars, backup, OnCourse, Saved, Held,
                Deleted
  <2> QED BY <2>1, <2>2, <2>3 DEF BackupInductive
<1> QED BY <1>1, <1>2, <1>3

\* The server's and the run's invariant, beside each other.
THEOREM BackupStaysSound == BackedUp => []BackupInductive
BY InitBackup, BackupNext, PTL DEF BackedUp

\* The directory holds every photo its database names, with its bytes, however
\* the archive changes during the runs and wherever they stop: a run can be
\* cut off at any point, and the next one starts over.
THEOREM BackupIsWhole == BackedUp => []BackupWhole
<1>1. BackupInductive => BackupWhole
  <2> SUFFICES ASSUME BackupInductive, saved # None, NEW r \in saved,
                      NEW k \in KeysOf(r) \ gone
               PROVE  Holds(held, r, k)
    BY DEF BackupWhole
  <2>1. r \in Saved /\ r \in Seen
    BY DEF Saved, Seen
  <2>2. k \in Held \ gone
    BY <2>1 DEF BackupInductive, OnCourse, Named
  <2> QED BY <2>1, <2>2 DEF BackupInductive, HeldIsRight
<1> QED BY <1>1, BackupStaysSound, PTL

\* The same beside the backup: rows keep their files, and no file is lost
\* sight of.
THEOREM BackupLeavesTheServer == BackedUp => [](PhotosKept /\ FilesAccounted)
<1>1. BackupInductive => PhotosKept /\ FilesAccounted
  BY DEF BackupInductive, Inductive
<1> QED BY <1>1, BackupStaysSound, PTL

\* A run adds files, and removes one only when the new database is in place,
\* which does not name it.
THEOREM PreviousIsKept == BackedUp => PreviousKept
<1>1. ASSUME BackupInductive,
             [\/ Next /\ UNCHANGED backup
              \/ BackupStep /\ UNCHANGED vars]_allVars
      PROVE  [saved # None =>
                \A r \in saved : \A k \in KeysOf(r) :
                    held[k] # None => held'[k] = held[k] \/ saved' # saved]_allVars
  <2> SUFFICES ASSUME saved # None, NEW r \in saved, NEW k \in KeysOf(r),
                      held[k] # None, saved' = saved
               PROVE  held'[k] = held[k]
    OBVIOUS
  <2>1. /\ BackupTypeOK /\ k \in Key /\ k \in Held /\ k \in Named(saved)
        /\ (phase = "sweep" => k \notin todo)
    BY <1>1, SeenAreRows
       DEF BackupInductive, OnCourse, Named, Held, BackupTypeOK, Seen, Saved
  <2>2. ASSUME NEW j \in Key, Fetch(j) PROVE held'[k] = held[k]
    BY <2>1, <2>2 DEF Fetch, BackupTypeOK
  <2>3. ASSUME NEW j \in Key, Sweep(j) PROVE held'[k] = held[k]
    BY <2>1, <2>3 DEF Sweep, Sweepable, BackupTypeOK
  <2>4. CASE UNCHANGED held
    BY <2>4
  <2> QED BY <1>1, <2>2, <2>3, <2>4
          DEF BackupStep, Snapshot, SwapIn, EndRun, Stop, backup, allVars
<1> QED BY <1>1, BackupStaysSound, PTL DEF BackedUp, PreviousKept
=============================================================================
