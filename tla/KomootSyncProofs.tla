-------------------------- MODULE KomootSyncProofs --------------------------
(***************************************************************************)
(* Proofs about KomootSync, for any sets of tours, trips, requests and     *)
(* processes.  The first part is about the types, the link table, the sync *)
(* flag and the tombstones: the inductive invariant is Inductive, and an   *)
(* action that only moves one process to its next phase keeps it by        *)
(* MoveKeeps.  The second part rests on it: what the owner edits, chooses  *)
(* and deletes is kept, and each tour lives through TourLifecycle; what a  *)
(* push holds, what it has told Komoot and what a pull has read are added, *)
(* each with the processes it needs to be absent as a hypothesis.          *)
(***************************************************************************)
EXTENDS KomootSync, TLAPS

\* The initial state satisfies the inductive invariant: nothing is stored.
LEMMA InitInductive == Init => Inductive
<1> SUFFICES ASSUME Init PROVE Inductive
  OBVIOUS
<1>1. TypeOK
  <2>1. "idle" \in Phase
    BY DEF Phase
  <2>2. komoot \in [Tours -> Content \cup {None}]
    BY DEF Init
  <2> QED BY <2>1, <2>2 DEF Init, TypeOK, Empty
<1>2. LinkConsistent
  BY DEF Init, LinkConsistent, Empty
<1>3. OneSync
  BY DEF Init, OneSync, Procs
<1>4. Working
  BY DEF Init, Working, WorkingOf, LateOf, Empty
<1>5. Tombstones
  BY DEF Init, Tombstones, DeletePending, Empty
<1> QED BY <1>1, <1>2, <1>3, <1>4, <1>5 DEF Inductive

\* None is no row, trip, tour or item.
LEMMA NoneOutside ==
    None \notin Link /\ None \notin Trips /\ None \notin Tours
    /\ None \notin Item /\ None \notin Content /\ None \notin Names
BY NoneAssumption

\* Clearing the queue flag keeps the row and whose it is.
LEMMA ClearedRow == \A row \in Link :
    /\ Cleared(row) \in Link
    /\ Cleared(row).trip = row.trip /\ Cleared(row).del = row.del
BY DEF Cleared, Link

\* Queuing an edit keeps whose row it is.
LEMMA QueuedRow == \A row \in Link, c \in Settable \cup {None} :
    /\ Queued(row, c) \in Link /\ Queued(row, c).edit
    /\ Queued(row, c).trip = row.trip /\ Queued(row, c).del = row.del
BY DEF Queued, Link, Settable

\* Refreshing a row's privacy keeps all else.
LEMMA RefreshedRow == \A row \in Link, s \in Statuses :
    LET new == [row EXCEPT !.priv = s] IN
    /\ new \in Link /\ new.edit = row.edit
    /\ new.trip = row.trip /\ new.del = row.del
BY DEF Link

\* A tombstone has no trip.
LEMMA TombstoneRow == \A row \in Link :
    /\ Tombstone(row) \in Link
    /\ Tombstone(row).trip = None /\ Tombstone(row).del
BY DEF Tombstone, Link

\* A new row is its trip's, with nothing pending.
LEMMA NewLinkRow == \A i \in Trips, s \in Statuses :
    /\ NewLink(i, s) \in Link
    /\ NewLink(i, s).trip = i /\ NewLink(i, s).del = FALSE
    /\ NewLink(i, s).edit = FALSE
BY DEF NewLink, Link

\* A change of phase keeps the types of the process variables.
LEMMA BecomeType ==
    ASSUME TypeOK, NEW p \in Procs, NEW ph \in Phase, NEW w \in SUBSET Tours,
           NEW t \in Tours \cup {None},
           NEW s \in [Tours -> Item \cup {None}], Become(p, ph, w, t, s)
    PROVE  /\ pc' \in [Procs -> Phase]
           /\ todo' \in [Procs -> SUBSET Tours]
           /\ cur' \in [Procs -> Tours \cup {None}]
           /\ snap' \in [Procs -> [Tours -> Item \cup {None}]]
BY DEF TypeOK, Become

\* An end is a change of phase to idle, which asks nothing of the process.
LEMMA EndBecomes ==
    ASSUME NEW p, End(p)
    PROVE  /\ Become(p, "idle", {}, None, Empty)
           /\ "idle" \in Phase
           /\ Empty \in [Tours -> Item \cup {None}]
BY DEF End, Phase, Empty

\* A run that goes on, and a process without the flag, leave the flag right.
LEMMA OneSyncStays ==
    ASSUME Inductive, NEW p \in Procs, NEW ph \in Phase, NEW w, NEW t, NEW s,
           Become(p, ph, w, t, s), UNCHANGED syncing,
           p \in Syncs => pc[p] # "idle" /\ ph # "idle"
    PROVE  OneSync'
BY DEF Inductive, OneSync, Become, TypeOK, Procs

\* A run that ends gives the flag back.
LEMMA OneSyncEnds ==
    ASSUME Inductive, NEW p \in Procs, End(p), pc[p] # "idle"
    PROVE  OneSync' /\ syncing' \in BOOLEAN
BY DEF Inductive, OneSync, End, Become, TypeOK, Procs

\* A step that only moves one process, to a phase whose needs are met.
LEMMA MoveKeeps ==
    ASSUME Inductive, NEW p \in Procs, NEW ph \in Phase,
           NEW w \in SUBSET Tours, NEW t \in Tours \cup {None},
           NEW s \in [Tours -> Item \cup {None}], Become(p, ph, w, t, s),
           UNCHANGED <<db, komoot, late, req, history>>,
           OneSync', syncing' \in BOOLEAN,
           ph \in {"push", "clear"} => p \in Syncs /\ \A u \in w : s[u] \in Item,
           ph \in {"delete", "unlink"} =>
               p \in Syncs /\ \A u \in w : DeletePending(u),
           ph \in {"clear", "unlink", "insert"} => t \in w,
           ph = "unlink" => komoot[t] = None,
           ph = "insert" => s[t] \in Item
    PROVE  Inductive'
<1> USE DEF db, history
<1>1. TypeOK'
  BY BecomeType DEF Inductive, TypeOK
<1>2. LinkConsistent'
  BY DEF Inductive, LinkConsistent
<1>3. Working'
  <2>1. ASSUME NEW q \in Procs PROVE WorkingOf(q)'
    <3>1. CASE q = p
      BY <3>1 DEF Become, Inductive, TypeOK, DeletePending, WorkingOf
    <3>2. CASE q # p
      BY <3>2 DEF Become, Inductive, TypeOK, DeletePending, Working, WorkingOf
    <3> QED BY <3>1, <3>2
  <2> QED BY <2>1 DEF Inductive, Working, LateOf
<1>4. Tombstones'
  BY DEF Inductive, Tombstones, DeletePending
<1> QED BY <1>1, <1>2, <1>3, <1>4 DEF Inductive

\* The end of a process that was at work.
LEMMA EndKeeps ==
    ASSUME Inductive, NEW p \in Procs, End(p), pc[p] # "idle",
           UNCHANGED <<db, komoot, late, req, history>>
    PROVE  Inductive'
<1>1. OneSync' /\ syncing' \in BOOLEAN
  BY OneSyncEnds
<1> QED BY <1>1, EndBecomes, MoveKeeps

-----------------------------------------------------------------------------
(* The actions that only move a process.                                   *)

\* Rows read from the tables or from a listing are items or nothing.
LEMMA ListingType ==
    ASSUME TypeOK, NEW kinds
    PROVE  Listing(kinds) \in [Tours -> Item \cup {None}]
BY DEF TypeOK, Listing, Item, Content

\* A sync run starts only if none is at work, and holds the flag from then on.
LEMMA StartSyncKeeps ==
    ASSUME Inductive, NEW s \in Syncs, StartSync(s)
    PROVE  Inductive'
<1>1. s \in Procs /\ "edits" \in Phase /\ Empty \in [Tours -> Item \cup {None}]
  BY DEF Procs, Phase, Empty
<1>2. OneSync' /\ syncing' \in BOOLEAN
  BY <1>1 DEF Inductive, OneSync, StartSync, Free, Become, TypeOK
<1> QED BY <1>1, <1>2, MoveKeeps DEF StartSync

\* The rows a push reads are items: an edit is pending on a stored trip only.
LEMMA ListEditsKeeps ==
    ASSUME Inductive, NEW s \in Syncs, ListEdits(s)
    PROVE  Inductive'
<1> DEFINE pending == {u \in Tours : EditPending(u)}
           rows == [u \in Tours |->
                      IF u \in pending
                      THEN [trip |-> link[u].trip, name |-> trip[link[u].trip],
                            priv |-> link[u].priv]
                      ELSE None]
<1>1. ASSUME NEW u \in pending
      PROVE  [trip |-> link[u].trip, name |-> trip[link[u].trip],
              priv |-> link[u].priv] \in Item
  <2>1. link[u] \in Link /\ link[u].trip \in Trips
    BY DEF Inductive, TypeOK, EditPending, Live, Link
  <2>2. trip[link[u].trip] \in Names
    BY <2>1 DEF Inductive, TypeOK, LinkConsistent, EditPending, Live
  <2> QED BY <2>1, <2>2 DEF Link, Item
<1>2. rows \in [Tours -> Item \cup {None}]
  BY <1>1
<1>3. s \in Procs /\ "push" \in Phase /\ Become(s, "push", pending, None, rows)
  BY DEF ListEdits, Procs, Phase
<1>4. OneSync' /\ syncing' \in BOOLEAN
  BY <1>3, OneSyncStays DEF ListEdits, Inductive, TypeOK
<1> HIDE DEF rows
<1>5. \A u \in pending : rows[u] \in Item
  BY <1>1 DEF rows
<1> QED BY <1>2, <1>3, <1>4, <1>5, MoveKeeps DEF ListEdits

\* The delete phase works on tombstones only.
LEMMA ListDeletesKeeps ==
    ASSUME Inductive, NEW s \in Syncs, ListDeletes(s)
    PROVE  Inductive'
<1>1. s \in Procs /\ "delete" \in Phase /\ Empty \in [Tours -> Item \cup {None}]
  BY DEF Procs, Phase, Empty
<1>2. OneSync' /\ syncing' \in BOOLEAN
  BY <1>1, OneSyncStays DEF ListDeletes, Inductive, TypeOK
<1> QED BY <1>1, <1>2, MoveKeeps DEF ListDeletes

\* A listing is taken, by a sync run, a backfill or the review screen.
LEMMA ListKeeps ==
    ASSUME Inductive, NEW p \in Procs, NEW sel \in SUBSET Tours, NEW kind,
           ListSelected(p, sel) \/ (p \in Backfills /\ StartBackfill(p, kind))
           \/ (p \in Backfills /\ ListUnlinked(p, sel))
           \/ (p \in Views /\ StartView(p))
    PROVE  Inductive'
<1>1. "refresh" \in Phase /\ "list" \in Phase
  BY DEF Phase
<1>2. \A kinds : Listing(kinds) \in [Tours -> Item \cup {None}]
  BY ListingType DEF Inductive
<1>3. snap[p] \in [Tours -> Item \cup {None}] /\ syncing \in BOOLEAN
  BY DEF Inductive, TypeOK
<1>4. CASE ListSelected(p, sel)
  <2>1. OneSync' /\ syncing' \in BOOLEAN
    BY <1>1, <1>3, <1>4, OneSyncStays DEF ListSelected
  <2> QED BY <1>1, <1>2, <1>4, <2>1, MoveKeeps DEF ListSelected
<1>5. CASE p \in Backfills /\ StartBackfill(p, kind)
  <2>1. OneSync' /\ syncing' \in BOOLEAN
    BY <1>1, <1>3, <1>5, OneSyncStays, ProcsDisjoint DEF StartBackfill
  <2> QED BY <1>1, <1>2, <1>5, <2>1, MoveKeeps DEF StartBackfill
<1>6. CASE p \in Backfills /\ ListUnlinked(p, sel)
  <2>1. OneSync' /\ syncing' \in BOOLEAN
    BY <1>1, <1>3, <1>6, OneSyncStays, ProcsDisjoint DEF ListUnlinked
  <2> QED BY <1>1, <1>3, <1>6, <2>1, MoveKeeps DEF ListUnlinked
<1>7. CASE p \in Views /\ StartView(p)
  <2>1. OneSync' /\ syncing' \in BOOLEAN
    BY <1>1, <1>3, <1>7, OneSyncStays, ProcsDisjoint DEF StartView
  <2> QED BY <1>1, <1>2, <1>7, <2>1, MoveKeeps DEF StartView
<1> QED BY <1>4, <1>5, <1>6, <1>7

\* The pull drops what is linked from its work.
LEMMA DedupKeeps ==
    ASSUME Inductive, NEW p \in Procs, Dedup(p)
    PROVE  Inductive'
<1>1. /\ "pull" \in Phase /\ todo[p] \in SUBSET Tours
      /\ snap[p] \in [Tours -> Item \cup {None}] /\ syncing \in BOOLEAN
  BY DEF Inductive, TypeOK, Phase
<1>2. OneSync' /\ syncing' \in BOOLEAN
  BY <1>1, OneSyncStays DEF Dedup
<1> QED BY <1>1, <1>2, MoveKeeps DEF Dedup

\* The pull fetches a tour its listing knows.
LEMMA FetchKeeps ==
    ASSUME Inductive, NEW p \in Procs, NEW t \in Tours, Fetch(p, t)
    PROVE  Inductive'
<1>1. /\ "insert" \in Phase /\ todo[p] \in SUBSET Tours
      /\ snap[p] \in [Tours -> Item \cup {None}] /\ syncing \in BOOLEAN
  BY DEF Inductive, TypeOK, Phase
<1>2. OneSync' /\ syncing' \in BOOLEAN
  BY <1>1, OneSyncStays DEF Fetch
<1>3. snap[p][t] \in Item
  BY <1>1 DEF Fetch
<1> QED BY <1>1, <1>2, <1>3, MoveKeeps DEF Fetch

\* A process that finishes or halts.
LEMMA StopKeeps ==
    ASSUME Inductive, NEW p \in Procs, Finish(p) \/ Halt(p)
    PROVE  Inductive'
BY EndKeeps DEF Finish, Halt

-----------------------------------------------------------------------------
(* The actions that write to a table, to Komoot or to a request.           *)

\* Writes that keep each row's trip and tombstone keep the tables consistent.
LEMMA RowsKeep ==
    ASSUME Inductive, link' \in [Tours -> Link \cup {None}],
           trip' \in [Trips -> Names \cup {None}], UNCHANGED <<used, origin>>,
           \A i \in Trips : trip[i] = None <=> trip'[i] = None,
           \A t \in Tours : link[t] = None <=> link'[t] = None,
           \A t \in Tours : link[t] # None =>
               link'[t].trip = link[t].trip /\ link'[t].del = link[t].del
    PROVE  /\ LinkConsistent'
           /\ \A t \in Tours : DeletePending(t) <=> DeletePending(t)'
BY DEF Inductive, TypeOK, LinkConsistent, DeletePending, Link

\* A process that does not move keeps working while nothing is taken back.
LEMMA OthersWork ==
    ASSUME Inductive, NEW q \in Procs,
           pc'[q] = pc[q], todo'[q] = todo[q], cur'[q] = cur[q],
           snap'[q] = snap[q],
           \A t \in todo[q] : pc[q] \in {"delete", "unlink"} /\ DeletePending(t)
               => DeletePending(t)',
           \A t \in Tours : komoot[t] = None => komoot'[t] = None
    PROVE  WorkingOf(q)'
BY DEF Inductive, TypeOK, Working, WorkingOf

\* Komoot's update, and the history of what was agreed, touch no table.
LEMMA PushEditKeeps ==
    ASSUME Inductive, NEW s \in Syncs, NEW t \in Tours, PushEdit(s, t)
    PROVE  Inductive'
<1>1. /\ s \in Procs /\ "clear" \in Phase
      /\ todo[s] \in SUBSET Tours /\ snap[s] \in [Tours -> Item \cup {None}]
      /\ Become(s, "clear", todo[s], t, snap[s])
  BY DEF Inductive, TypeOK, PushEdit, Procs, Phase
<1>2. snap[s][t] \in Item /\ komoot[t] \in Content
  BY <1>1 DEF Inductive, TypeOK, PushEdit, Working, WorkingOf
<1>3. Updated(t, snap[s][t]) \in Content
      /\ [name |-> snap[s][t].name, priv |-> snap[s][t].priv] \in Content
  BY <1>2 DEF Updated, Content, Item
<1>4. \A u \in Tours : komoot[u] = None => komoot'[u] = None
  BY DEF PushEdit, Inductive, TypeOK
<1>5. TypeOK'
  BY <1>1, <1>3, BecomeType DEF PushEdit, Inductive, TypeOK, db
<1>6. LinkConsistent'
  BY DEF PushEdit, Inductive, LinkConsistent, db
<1>7. OneSync'
  BY <1>1, OneSyncStays DEF PushEdit
<1>8. Working'
  <2>1. ASSUME NEW q \in Procs PROVE WorkingOf(q)'
    <3>1. CASE q = s
      BY <1>1, <3>1 DEF Become, PushEdit, Inductive, TypeOK, Working, WorkingOf
    <3>2. CASE q # s
      <4>1. pc'[q] = pc[q] /\ todo'[q] = todo[q] /\ cur'[q] = cur[q]
            /\ snap'[q] = snap[q]
        BY <1>1, <3>2 DEF Become, Inductive, TypeOK
      <4>2. \A u \in todo[q] : DeletePending(u) => DeletePending(u)'
        BY DEF PushEdit, DeletePending, db
      <4> QED BY <1>4, <4>1, <4>2, OthersWork
    <3> QED BY <3>1, <3>2
  <2> QED BY <2>1 DEF PushEdit, Inductive, Working, LateOf
<1>9. Tombstones'
  BY <1>4 DEF PushEdit, Inductive, Tombstones, DeletePending, db
<1> QED BY <1>5, <1>6, <1>7, <1>8, <1>9 DEF Inductive

\* A process other than the one that moves stays where it is.
LEMMA Unmoved ==
    ASSUME TypeOK, NEW p \in Procs, NEW ph, NEW w, NEW t, NEW s,
           Become(p, ph, w, t, s), NEW q \in Procs, q # p
    PROVE  pc'[q] = pc[q] /\ todo'[q] = todo[q] /\ cur'[q] = cur[q]
           /\ snap'[q] = snap[q]
BY DEF TypeOK, Become

\* Clearing a queue flag keeps every row's trip and tombstone.
LEMMA ClearEditKeeps ==
    ASSUME Inductive, NEW s \in Syncs, ClearEdit(s)
    PROVE  Inductive'
<1> DEFINE t == cur[s]
           rest == [snap[s] EXCEPT ![t] = None]
<1>1. /\ s \in Procs /\ "push" \in Phase
      /\ todo[s] \ {t} \in SUBSET Tours
      /\ rest \in [Tours -> Item \cup {None}]
      /\ Become(s, "push", todo[s] \ {t}, None, rest)
  BY DEF Inductive, TypeOK, ClearEdit, Procs, Phase
<1>2. link' \in [Tours -> Link \cup {None}]
  BY ClearedRow DEF ClearEdit, Inductive, TypeOK
<1>3. \A u \in Tours : /\ link[u] = None <=> link'[u] = None
                       /\ link[u] # None => /\ link'[u].trip = link[u].trip
                                            /\ link'[u].del = link[u].del
  BY NoneOutside, ClearedRow DEF ClearEdit, Inductive, TypeOK
<1>4. LinkConsistent' /\ \A u \in Tours : DeletePending(u) <=> DeletePending(u)'
  BY <1>2, <1>3, RowsKeep DEF ClearEdit, history, Inductive, TypeOK
<1>5. TypeOK'
  BY <1>1, <1>2, BecomeType DEF ClearEdit, Inductive, TypeOK, history
<1>6. OneSync'
  BY <1>1, OneSyncStays DEF ClearEdit
<1>7. Working'
  <2>1. ASSUME NEW q \in Procs PROVE WorkingOf(q)'
    <3>1. CASE q = s
      <4>1. \A u \in todo[s] : snap[s][u] \in Item
        BY <1>1 DEF ClearEdit, Inductive, Working, WorkingOf
      <4>2. /\ pc'[s] = "push" /\ todo'[s] = todo[s] \ {t}
            /\ \A u \in todo[s] \ {t} : snap'[s][u] = snap[s][u]
        BY <1>1 DEF Become, Inductive, TypeOK
      <4> QED BY <3>1, <4>1, <4>2 DEF WorkingOf
    <3>2. CASE q # s
      BY <1>1, <1>4, <3>2, Unmoved, OthersWork DEF ClearEdit, Inductive, TypeOK
    <3> QED BY <3>1, <3>2
  <2> QED BY <2>1 DEF ClearEdit, Inductive, Working, LateOf, history
<1>8. Tombstones'
  BY <1>4 DEF ClearEdit, Inductive, Tombstones, history, TypeOK
<1> QED BY <1>4, <1>5, <1>6, <1>7, <1>8 DEF Inductive

\* Komoot drops a tour whose tombstone stays until Unlink.
LEMMA PushDeleteKeeps ==
    ASSUME Inductive, NEW s \in Syncs, NEW t \in Tours, PushDelete(s, t)
    PROVE  Inductive'
<1>1. /\ s \in Procs /\ "unlink" \in Phase
      /\ todo[s] \in SUBSET Tours /\ snap[s] \in [Tours -> Item \cup {None}]
      /\ Become(s, "unlink", todo[s], t, snap[s])
  BY DEF Inductive, TypeOK, PushDelete, Procs, Phase
<1>2. \A u \in Tours : komoot[u] = None => komoot'[u] = None
  BY DEF PushDelete, Inductive, TypeOK
<1>3. TypeOK'
  BY <1>1, BecomeType DEF PushDelete, Inductive, TypeOK, db, history
<1>4. LinkConsistent' /\ \A u \in Tours : DeletePending(u) <=> DeletePending(u)'
  BY DEF PushDelete, Inductive, LinkConsistent, DeletePending, db, history
<1>5. OneSync'
  BY <1>1, OneSyncStays DEF PushDelete
<1>6. Working'
  <2>1. ASSUME NEW q \in Procs PROVE WorkingOf(q)'
    <3>1. CASE q = s
      <4>1. \A u \in todo[s] : DeletePending(u)
        BY <1>1 DEF PushDelete, Inductive, Working, WorkingOf
      <4>2. pc'[s] = "unlink" /\ todo'[s] = todo[s] /\ cur'[s] = t
            /\ komoot'[t] = None /\ t \in todo[s]
        BY <1>1 DEF Become, Inductive, TypeOK, PushDelete
      <4> QED BY <1>1, <1>4, <3>1, <4>1, <4>2 DEF WorkingOf
    <3>2. CASE q # s
      BY <1>1, <1>2, <1>4, <3>2, Unmoved, OthersWork DEF Inductive, TypeOK
    <3> QED BY <3>1, <3>2
  <2> QED BY <2>1 DEF PushDelete, Inductive, Working, LateOf, history
<1>7. Tombstones'
  BY <1>2, <1>4 DEF PushDelete, Inductive, Tombstones, history, TypeOK
<1> QED BY <1>3, <1>4, <1>5, <1>6, <1>7 DEF Inductive

\* Only one run works on tombstones, so no other run loses one it holds.
LEMMA UnlinkKeeps ==
    ASSUME Inductive, NEW s \in Syncs, Unlink(s)
    PROVE  Inductive'
<1> DEFINE t == cur[s]
<1>1. /\ s \in Procs /\ "delete" \in Phase
      /\ todo[s] \ {t} \in SUBSET Tours /\ snap[s] \in [Tours -> Item \cup {None}]
      /\ Become(s, "delete", todo[s] \ {t}, None, snap[s])
  BY DEF Inductive, TypeOK, Unlink, Procs, Phase
<1>2. t \in Tours /\ DeletePending(t) /\ komoot[t] = None
  BY <1>1 DEF Unlink, Inductive, TypeOK, Working, WorkingOf
<1>3. TypeOK'
  BY <1>1, BecomeType DEF Unlink, Inductive, TypeOK, history
<1>4. LinkConsistent'
  BY <1>2, NoneOutside
  DEF Unlink, Inductive, TypeOK, LinkConsistent, DeletePending, history
<1>5. \A u \in Tours \ {t} : DeletePending(u) <=> DeletePending(u)'
  BY DEF Unlink, Inductive, TypeOK, DeletePending
<1>6. OneSync'
  BY <1>1, OneSyncStays DEF Unlink
<1>7. Working'
  <2>1. ASSUME NEW q \in Procs PROVE WorkingOf(q)'
    <3>1. CASE q = s
      <4>1. \A u \in todo[s] : DeletePending(u)
        BY <1>1 DEF Unlink, Inductive, Working, WorkingOf
      <4>2. pc'[s] = "delete" /\ todo'[s] = todo[s] \ {t}
        BY <1>1 DEF Become, Inductive, TypeOK
      <4> QED BY <1>1, <1>5, <3>1, <4>1, <4>2 DEF WorkingOf
    <3>2. CASE q # s
      <4>1. ~(pc[q] \in {"delete", "unlink"})
        BY <3>2 DEF Unlink, Inductive, OneSync, Working, WorkingOf
      <4> QED BY <1>1, <3>2, <4>1, Unmoved, OthersWork
              DEF Inductive, TypeOK, Unlink
    <3> QED BY <3>1, <3>2
  <2> QED BY <2>1 DEF Unlink, Inductive, Working, LateOf, history
<1>8. Tombstones'
  <2>1. \A u \in Tours : DeletePending(u)' => u \in deleted
    <3>1. \A u \in Tours : u = t => ~DeletePending(u)'
      BY <1>2 DEF Unlink, Inductive, TypeOK, DeletePending
    <3> QED BY <1>5, <3>1 DEF Inductive, Tombstones
  <2>2. \A u \in deleted : DeletePending(u)' \/ komoot[u] = None
    BY <1>2, <1>5 DEF Inductive, TypeOK, Tombstones
  <2> QED BY <2>1, <2>2 DEF Unlink, Tombstones, history
<1> QED BY <1>3, <1>4, <1>6, <1>7, <1>8 DEF Inductive

\* The listing's privacies keep every row's trip and tombstone.
LEMMA RefreshKeeps ==
    ASSUME Inductive, NEW p \in Procs, Refresh(p)
    PROVE  Inductive'
<1>1. PICK ph \in {"idle", "dedup"}, w \in SUBSET Tours,
           s \in [Tours -> Item \cup {None}] : Become(p, ph, w, None, s)
  BY EndBecomes DEF Refresh, Inductive, TypeOK
<1>2. ph \in Phase
  BY DEF Phase
<1>3. \A u \in Tours : snap[p][u] # None => snap[p][u].priv \in Statuses
  BY DEF Inductive, TypeOK, Item
<1>4. link' \in [Tours -> Link \cup {None}]
  BY <1>3, RefreshedRow DEF Refresh, Refreshable, Inductive, TypeOK
<1>5. \A u \in Tours : /\ link[u] = None <=> link'[u] = None
                       /\ link[u] # None => /\ link'[u].trip = link[u].trip
                                            /\ link'[u].del = link[u].del
  BY <1>3, NoneOutside, RefreshedRow
  DEF Refresh, Refreshable, Inductive, TypeOK
<1>6. LinkConsistent' /\ \A u \in Tours : DeletePending(u) <=> DeletePending(u)'
  BY <1>4, <1>5, RowsKeep DEF Refresh, history, Inductive, TypeOK
<1>7. OneSync' /\ syncing' \in BOOLEAN
  <2>1. CASE p \in Views
    BY <2>1, OneSyncEnds DEF Refresh
  <2>2. CASE p \notin Views
    BY <2>2, OneSyncStays DEF Refresh, Inductive, TypeOK, Phase
  <2> QED BY <2>1, <2>2
<1>8. komoot' = komoot
  BY DEF Refresh
<1>9. TypeOK'
  BY <1>1, <1>2, <1>4, <1>7, BecomeType DEF Refresh, Inductive, TypeOK, history
<1>10. Working'
  <2>1. ASSUME NEW q \in Procs PROVE WorkingOf(q)'
    <3>1. CASE q = p
      <4>1. pc'[p] \in {"idle", "dedup"}
        BY <1>1, <1>2 DEF Become, Inductive, TypeOK
      <4> QED BY <3>1, <4>1 DEF WorkingOf
    <3>2. CASE q # p
      BY <1>1, <1>2, <1>6, <1>8, <3>2, Unmoved, OthersWork
      DEF Inductive, TypeOK
    <3> QED BY <3>1, <3>2
  <2> QED BY <2>1 DEF Refresh, Inductive, Working, LateOf, history
<1>11. Tombstones'
  BY <1>6 DEF Refresh, Inductive, Tombstones, history, TypeOK
<1> QED BY <1>6, <1>7, <1>9, <1>10, <1>11 DEF Inductive

\* A tour without a row gets one, for a trip id that was never handed out.
LEMMA InsertKeeps ==
    ASSUME Inductive, NEW p \in Procs, NEW i \in Trips, Insert(p, i)
    PROVE  Inductive'
<1> DEFINE t == cur[p]
           rest == [snap[p] EXCEPT ![t] = None]
<1>1. /\ "pull" \in Phase
      /\ todo[p] \ {t} \in SUBSET Tours
      /\ rest \in [Tours -> Item \cup {None}]
      /\ Become(p, "pull", todo[p] \ {t}, None, rest)
  BY DEF Inductive, TypeOK, Insert, Phase
<1>2. t \in Tours /\ link[t] = None /\ snap[p][t] \in Item /\ i \notin used
  BY DEF Insert, Insertable, Inductive, TypeOK, Working, WorkingOf
<1>3. snap[p][t].name \in Names /\ snap[p][t].priv \in Statuses
      /\ [name |-> snap[p][t].name, priv |-> snap[p][t].priv] \in Content
  BY <1>2 DEF Item, Content
<1> DEFINE row == NewLink(i, snap[p][t].priv)
<1>4. row \in Link /\ row.trip = i /\ row.del = FALSE /\ row # None
  BY <1>3, NewLinkRow, NoneOutside
<1> HIDE DEF row
<1>5. /\ link' = [link EXCEPT ![t] = row]
      /\ trip' = [trip EXCEPT ![i] = snap[p][t].name]
      /\ origin' = [origin EXCEPT ![i] = t]
      /\ used' = used \cup {i}
  BY DEF Insert, row
<1>6. TypeOK'
  <2>1. /\ link' \in [Tours -> Link \cup {None}]
        /\ trip' \in [Trips -> Names \cup {None}]
        /\ origin' \in [Trips -> Tours \cup {None}]
        /\ used' \subseteq Trips
    BY <1>2, <1>3, <1>4, <1>5 DEF Inductive, TypeOK
  <2>2. /\ sent' \in [Tours -> Content \cup {None}]
        /\ choice' \in [Tours -> Settable \cup {None}]
    BY <1>2, <1>3 DEF Insert, Inductive, TypeOK
  <2> QED BY <1>1, <2>1, <2>2, BecomeType DEF Insert, Inductive, TypeOK
<1>7. trip[i] = None /\ \A u \in Tours : link[u] # None => link[u].trip # i
  BY <1>2, NoneOutside DEF Inductive, LinkConsistent
<1>8. LinkConsistent'
  <2>1. ASSUME NEW j \in Trips, trip'[j] # None
        PROVE  /\ j \in used' /\ origin'[j] # None
               /\ link'[origin'[j]] # None /\ link'[origin'[j]].trip = j
    <3>1. CASE j = i
      BY <1>2, <1>4, <1>5, <3>1, NoneOutside DEF Inductive, TypeOK
    <3>2. CASE j # i
      <4>1. trip[j] # None /\ origin'[j] = origin[j]
        BY <1>5, <2>1, <3>2 DEF Inductive, TypeOK
      <4>2. j \in used /\ origin[j] # None /\ link[origin[j]] # None
            /\ link[origin[j]].trip = j
        BY <4>1 DEF Inductive, LinkConsistent
      <4>3. origin[j] \in Tours /\ origin[j] # t
        BY <1>2, <4>2 DEF Inductive, TypeOK
      <4> QED BY <1>5, <4>1, <4>2, <4>3 DEF Inductive, TypeOK
    <3> QED BY <3>1, <3>2
  <2>2. ASSUME NEW u \in Tours, link'[u] # None
        PROVE  /\ link'[u].del <=> link'[u].trip = None
               /\ link'[u].trip # None => trip'[link'[u].trip] # None
                                          /\ origin'[link'[u].trip] = u
    <3>1. CASE u = t
      <4>1. link'[u] = row /\ trip'[i] = snap[p][t].name /\ origin'[i] = t
        BY <1>2, <1>5, <3>1 DEF Inductive, TypeOK
      <4> QED BY <1>3, <1>4, <3>1, <4>1, NoneOutside
    <3>2. CASE u # t
      <4>1. link'[u] = link[u]
        BY <1>5, <3>2 DEF Inductive, TypeOK
      <4>2. /\ link[u].del <=> link[u].trip = None
            /\ link[u].trip # None => trip[link[u].trip] # None
                                      /\ origin[link[u].trip] = u
        BY <2>2, <4>1 DEF Inductive, LinkConsistent
      <4>3. link[u].trip # i /\ link[u].trip \in Trips \cup {None}
        BY <1>7, <2>2, <4>1 DEF Inductive, TypeOK, Link
      <4> QED BY <1>5, <4>1, <4>2, <4>3 DEF Inductive, TypeOK
    <3> QED BY <3>1, <3>2
  <2> QED BY <2>1, <2>2 DEF LinkConsistent
<1>9. \A u \in Tours : DeletePending(u) <=> DeletePending(u)'
  BY <1>2, <1>4, <1>5 DEF Inductive, TypeOK, DeletePending
<1>10. OneSync'
  BY <1>1, OneSyncStays DEF Insert
<1>11. Working'
  <2>1. ASSUME NEW q \in Procs PROVE WorkingOf(q)'
    <3>1. CASE q = p
      <4>1. pc'[p] = "pull"
        BY <1>1 DEF Become, Inductive, TypeOK
      <4> QED BY <3>1, <4>1 DEF WorkingOf
    <3>2. CASE q # p
      BY <1>1, <1>9, <3>2, Unmoved, OthersWork DEF Insert, Inductive, TypeOK
    <3> QED BY <3>1, <3>2
  <2> QED BY <2>1 DEF Insert, Inductive, Working, LateOf
<1>12. Tombstones'
  BY <1>9 DEF Insert, Inductive, Tombstones, TypeOK
<1> QED BY <1>6, <1>8, <1>10, <1>11, <1>12 DEF Inductive

\* A call outlives its request: its tour is raced, or deleted already.
LEMMA DetachKeeps ==
    ASSUME Inductive, NEW s \in Syncs, NEW t \in Tours, Detach(s, t)
    PROVE  Inductive'
<1>1. s \in Procs /\ pc[s] # "idle" /\ snap[s][t] \in Item \cup {None}
  BY DEF Procs, Detach, Inductive, TypeOK
<1>2. OneSync' /\ syncing' \in BOOLEAN
  BY <1>1, OneSyncEnds DEF Detach
<1> DEFINE call == [op |-> IF pc[s] = "push" THEN "update" ELSE "delete",
                    tour |-> t, item |-> snap[s][t]]
<1>3. call \in Call /\ late' = [late EXCEPT ![s] = call]
  BY <1>1 DEF Detach, Call
<1>4. TypeOK'
  <2>1. Become(s, "idle", {}, None, Empty)
        /\ "idle" \in Phase /\ Empty \in [Tours -> Item \cup {None}]
    BY EndBecomes DEF Detach
  <2>2. /\ late' \in [Syncs -> Call \cup {None}] /\ raced' \subseteq Tours
        /\ UNCHANGED <<trip, used, link, komoot, req, sent, choice, origin, deleted,
                       outdated>>
    BY <1>3 DEF Detach, Inductive, TypeOK, db
  <2> QED BY <1>1, <1>2, <2>1, <2>2, BecomeType DEF Inductive, TypeOK
<1>5. LinkConsistent' /\ \A u \in Tours : DeletePending(u) <=> DeletePending(u)'
  BY DEF Detach, Inductive, LinkConsistent, DeletePending, db
<1>6. Working'
  <2>1. ASSUME NEW q \in Procs PROVE WorkingOf(q)'
    <3>1. CASE q = s
      BY <1>1, <3>1 DEF Detach, End, Become, Inductive, TypeOK, WorkingOf
    <3>2. CASE q # s
      BY <1>1, <1>5, <3>2, EndBecomes, Unmoved, OthersWork
      DEF Detach, Inductive, TypeOK
    <3> QED BY <3>1, <3>2
  <2>2. ASSUME NEW r \in Syncs PROVE LateOf(r)'
    <3>1. CASE r = s
      <4>1. CASE pc[s] = "push"
        <5>1. snap[s][t] \in Item /\ t \in raced'
          BY <1>1, <4>1 DEF Detach, Inductive, Working, WorkingOf
        <5> QED BY <1>3, <3>1, <4>1, <5>1 DEF LateOf, Inductive, TypeOK
      <4>2. CASE pc[s] = "delete"
        <5>1. t \in deleted'
          BY <1>1, <4>2
          DEF Detach, Inductive, Working, WorkingOf, Tombstones
        <5> QED BY <1>3, <3>1, <4>2, <5>1 DEF LateOf, Inductive, TypeOK
      <4> QED BY <4>1, <4>2 DEF Detach
    <3>2. CASE r # s
      <4>1. late'[r] = late[r]
        BY <1>3, <3>2 DEF Inductive, TypeOK
      <4> QED BY <4>1 DEF LateOf, Detach, Inductive, Working
    <3> QED BY <3>1, <3>2
  <2> QED BY <2>1, <2>2 DEF Working
<1>7. Tombstones'
  BY <1>5 DEF Detach, Inductive, Tombstones, TypeOK
<1> QED BY <1>2, <1>4, <1>5, <1>6, <1>7 DEF Inductive

\* While no process moves, each keeps working if nothing is taken from it.
LEMMA AllWork ==
    ASSUME Inductive, UNCHANGED procs,
           \A t \in Tours : DeletePending(t) => DeletePending(t)',
           \A t \in Tours : komoot[t] = None => komoot'[t] = None
    PROVE  \A q \in Procs : WorkingOf(q)'
BY OthersWork DEF procs, Inductive, TypeOK

\* A late call changes Komoot only, and a late delete only drops.
LEMMA LandKeeps ==
    ASSUME Inductive, NEW s \in Syncs, Land(s)
    PROVE  Inductive'
<1>1. late[s] \in Call /\ LateOf(s) /\ late[s].tour \in Tours
  BY DEF Land, Inductive, TypeOK, Working, Call
<1>2. late' \in [Syncs -> Call \cup {None}]
      /\ \A r \in Syncs : late'[r] = late[r] \/ late'[r] = None
  BY DEF Land, Inductive, TypeOK
<1>3. /\ komoot' \in [Tours -> Content \cup {None}]
      /\ sent' \in [Tours -> Content \cup {None}]
      /\ \A u \in Tours : komoot[u] = None => komoot'[u] = None
  <2> DEFINE x == late[s].tour
             new == Updated(x, late[s].item)
             agreed == [name |-> late[s].item.name, priv |-> late[s].item.priv]
  <2>1. CASE late[s].op = "update" /\ komoot[x] # None
    <3>1. late[s].item \in Item /\ komoot[x] \in Content
      BY <1>1, <2>1 DEF LateOf, Land, Inductive, TypeOK
    <3>2. new \in Content /\ agreed \in Content
      BY <3>1 DEF Updated, Item, Content
    <3>3. \/ UNCHANGED <<komoot, sent>>
          \/ /\ komoot' = [komoot EXCEPT ![x] = new]
             /\ sent' = [sent EXCEPT ![x] = agreed]
      BY <2>1 DEF Land
    <3> HIDE DEF new, agreed
    <3>4. x \in Tours /\ komoot[x] # None
      BY <1>1, <2>1
    <3>5. /\ komoot \in [Tours -> Content \cup {None}]
          /\ sent \in [Tours -> Content \cup {None}]
      BY DEF Inductive, TypeOK
    <3> HIDE DEF x
    <3> QED BY <3>2, <3>3, <3>4, <3>5
  <2>2. CASE ~(late[s].op = "update" /\ komoot[late[s].tour] # None)
    BY <1>1, <2>2 DEF Land, Inductive, TypeOK
  <2> QED BY <2>1, <2>2
<1>4. TypeOK'
  BY <1>2, <1>3 DEF Land, Inductive, TypeOK, db, procs
<1>5. /\ LinkConsistent' /\ OneSync'
      /\ \A u \in Tours : DeletePending(u) <=> DeletePending(u)'
  BY DEF Land, Inductive, LinkConsistent, OneSync, DeletePending, db, procs
<1>6. Working'
  BY <1>2, <1>3, <1>5, AllWork DEF Land, Inductive, Working, LateOf
<1>7. Tombstones'
  BY <1>3, <1>5 DEF Land, Inductive, Tombstones, TypeOK
<1> QED BY <1>4, <1>5, <1>6, <1>7 DEF Inductive

\* A request that checks the flag, or is dropped, changes nothing else.
LEMMA ReqKeeps ==
    ASSUME Inductive, NEW r \in Reqs, NEW q \in Edit \cup Delete,
           CheckFlag(r, q) \/ DropReq(r)
    PROVE  Inductive'
<1>1. /\ req' \in [Reqs -> Edit \cup Delete \cup {None}]
      /\ UNCHANGED <<db, komoot, syncing, procs, late, history>>
  BY DEF CheckFlag, DropReq, Inductive, TypeOK
<1>2. TypeOK'
  BY <1>1 DEF Inductive, TypeOK, db, procs, history
<1>3. /\ LinkConsistent' /\ OneSync'
      /\ \A u \in Tours : DeletePending(u) <=> DeletePending(u)'
  BY <1>1 DEF Inductive, LinkConsistent, OneSync, DeletePending,
              db, procs, history
<1>4. Working'
  BY <1>1, <1>3, AllWork DEF Inductive, Working, LateOf, history
<1>5. Tombstones'
  BY <1>1, <1>3 DEF Inductive, Tombstones, TypeOK, history
<1> QED BY <1>2, <1>3, <1>4, <1>5 DEF Inductive

\* Komoot's own app touches no table, and brings back no tour it dropped.
LEMMA AppKeeps ==
    ASSUME Inductive, NEW t \in Tours, NEW c \in Content,
           AppEdit(t, c) \/ AppDelete(t)
    PROVE  Inductive'
<1>1. /\ komoot' \in [Tours -> Content \cup {None}]
      /\ choice' \in [Tours -> Settable \cup {None}]
      /\ \A u \in Tours : komoot[u] = None => komoot'[u] = None
  BY DEF AppEdit, AppDelete, Inductive, TypeOK, history
<1>2. UNCHANGED <<db, syncing, procs, late, req, sent, origin, deleted, raced, outdated>>
  BY DEF AppEdit, AppDelete, history
<1>3. TypeOK'
  BY <1>1, <1>2 DEF Inductive, TypeOK, db, procs
<1>4. /\ LinkConsistent' /\ OneSync'
      /\ \A u \in Tours : DeletePending(u) <=> DeletePending(u)'
  BY <1>2 DEF Inductive, LinkConsistent, OneSync, DeletePending, db, procs
<1>5. Working'
  BY <1>1, <1>2, <1>4, AllWork DEF Inductive, Working, LateOf
<1>6. Tombstones'
  BY <1>1, <1>2, <1>4 DEF Inductive, Tombstones, TypeOK
<1> QED BY <1>3, <1>4, <1>5, <1>6 DEF Inductive

\* An edit keeps its trip and every row's trip and tombstone.
LEMMA CommitEditKeeps ==
    ASSUME Inductive, NEW r \in Reqs, CommitEdit(r)
    PROVE  Inductive'
<1> DEFINE edited == req[r].trips
           n == req[r].name
           mine == {u \in Tours : link[u] # None /\ link[u].trip \in edited}
<1>1. req[r] \in Edit
  BY DEF CommitEdit, Inductive, TypeOK, Delete
<1>2. /\ edited \subseteq Trips /\ \A i \in edited : trip[i] \in Names
      /\ n \in Names \cup {None}
      /\ req[r].priv \in Settable \cup {None}
  BY <1>1 DEF CommitEdit, Inductive, TypeOK, Edit
<1>3. /\ trip' = [i \in Trips |-> IF i \in edited /\ n # None THEN n ELSE trip[i]]
      /\ link' = [u \in Tours |-> IF u \in mine THEN Queued(link[u], req[r].priv)
                                                ELSE link[u]]
      /\ choice' = [u \in Tours |-> IF u \in mine /\ req[r].priv # None
                                    THEN req[r].priv ELSE choice[u]]
      /\ raced' \in SUBSET Tours /\ raced \subseteq raced'
      /\ req' = [req EXCEPT ![r] = None]
      /\ UNCHANGED <<used, komoot, syncing, procs, late, sent, origin, deleted, outdated>>
  BY DEF CommitEdit, Inductive, TypeOK
<1>4. link' \in [Tours -> Link \cup {None}]
  BY <1>2, <1>3, QueuedRow DEF Inductive, TypeOK
<1>5. \A u \in Tours : /\ link[u] = None <=> link'[u] = None
                       /\ link[u] # None => /\ link'[u].trip = link[u].trip
                                            /\ link'[u].del = link[u].del
  BY <1>2, <1>3, NoneOutside, QueuedRow DEF Inductive, TypeOK
<1>6. /\ trip' \in [Trips -> Names \cup {None}]
      /\ \A j \in Trips : trip[j] = None <=> trip'[j] = None
  BY <1>2, <1>3, NoneOutside DEF Inductive, TypeOK
<1>7. LinkConsistent' /\ \A u \in Tours : DeletePending(u) <=> DeletePending(u)'
  BY <1>3, <1>4, <1>5, <1>6, RowsKeep
<1>8. TypeOK'
  <2>1. /\ choice' \in [Tours -> Settable \cup {None}]
        /\ req' \in [Reqs -> Edit \cup Delete \cup {None}]
    BY <1>2, <1>3 DEF Inductive, TypeOK
  <2> QED BY <1>3, <1>4, <1>6, <2>1 DEF Inductive, TypeOK, procs
<1>9. OneSync'
  BY <1>3 DEF Inductive, OneSync, procs
<1>10. Working'
  BY <1>3, <1>7, AllWork DEF Inductive, Working, LateOf
<1>11. Tombstones'
  BY <1>3, <1>7 DEF Inductive, Tombstones, TypeOK
<1> QED BY <1>7, <1>8, <1>9, <1>10, <1>11 DEF Inductive

\* A deletion turns exactly the row of its trip into a tombstone.
LEMMA CommitDeleteKeeps ==
    ASSUME Inductive, NEW r \in Reqs, CommitDelete(r)
    PROVE  Inductive'
<1> DEFINE i == req[r].trip
           t == origin[i]
           mine == {u \in Tours : link[u] # None /\ link[u].trip = i}
<1>1. i \in Trips /\ trip[i] # None
  BY DEF CommitDelete, Inductive, TypeOK, Edit, Delete
<1>2. t \in Tours /\ link[t] \in Link /\ link[t].trip = i
  BY <1>1 DEF Inductive, TypeOK, LinkConsistent
<1>3. mine = {t}
  BY <1>1, <1>2, NoneOutside DEF Inductive, LinkConsistent
<1>4. /\ trip' = [trip EXCEPT ![i] = None]
      /\ link' = [u \in Tours |-> IF u \in mine THEN Tombstone(link[u])
                                                ELSE link[u]]
      /\ deleted' = deleted \cup {t}
      /\ origin' = [origin EXCEPT ![i] = None]
      /\ req' = [req EXCEPT ![r] = None]
      /\ UNCHANGED <<used, komoot, syncing, procs, late, sent, choice, raced, outdated>>
  BY DEF CommitDelete
<1>5. /\ link'[t] \in Link /\ link'[t].trip = None /\ link'[t].del
      /\ link'[t] # None
      /\ \A u \in Tours \ {t} : link'[u] = link[u]
  BY <1>2, <1>3, <1>4, TombstoneRow, NoneOutside
<1>6. TypeOK'
  <2>1. /\ link' \in [Tours -> Link \cup {None}]
        /\ trip' \in [Trips -> Names \cup {None}]
        /\ origin' \in [Trips -> Tours \cup {None}]
        /\ deleted' \subseteq Tours
        /\ req' \in [Reqs -> Edit \cup Delete \cup {None}]
    <3> HIDE DEF t, mine
    <3>1. \A u \in Tours : link'[u] \in Link \cup {None}
      BY <1>5 DEF Inductive, TypeOK
    <3>2. link' \in [Tours -> Link \cup {None}]
      BY <1>4, <3>1
    <3> QED BY <1>1, <1>2, <1>4, <3>2 DEF Inductive, TypeOK
  <2> QED BY <1>4, <2>1 DEF Inductive, TypeOK, procs
<1>7. LinkConsistent'
  <2>1. ASSUME NEW j \in Trips, trip'[j] # None
        PROVE  /\ j \in used' /\ origin'[j] # None
               /\ link'[origin'[j]] # None /\ link'[origin'[j]].trip = j
    <3>1. j # i /\ trip[j] # None /\ origin'[j] = origin[j]
      BY <1>1, <1>4, <2>1 DEF Inductive, TypeOK
    <3>2. j \in used /\ origin[j] # None /\ link[origin[j]] # None
          /\ link[origin[j]].trip = j
      BY <3>1 DEF Inductive, LinkConsistent
    <3>3. origin[j] \in Tours \ {t}
      BY <1>2, <3>1, <3>2 DEF Inductive, TypeOK
    <3> QED BY <1>4, <1>5, <3>1, <3>2, <3>3
  <2>2. ASSUME NEW u \in Tours, link'[u] # None
        PROVE  /\ link'[u].del <=> link'[u].trip = None
               /\ link'[u].trip # None => trip'[link'[u].trip] # None
                                          /\ origin'[link'[u].trip] = u
    <3>1. CASE u = t
      BY <1>5, <3>1
    <3>2. CASE u # t
      <4>1. link'[u] = link[u]
        BY <1>5, <3>2
      <4>2. /\ link[u].del <=> link[u].trip = None
            /\ link[u].trip # None => trip[link[u].trip] # None
                                      /\ origin[link[u].trip] = u
        BY <2>2, <4>1 DEF Inductive, LinkConsistent
      <4>3. link[u].trip # i /\ link[u].trip \in Trips \cup {None}
        BY <1>3, <2>2, <3>2, <4>1 DEF Inductive, TypeOK, Link
      <4> QED BY <1>4, <4>1, <4>2, <4>3 DEF Inductive, TypeOK
    <3> QED BY <3>1, <3>2
  <2> QED BY <2>1, <2>2 DEF LinkConsistent
<1>8. \A u \in Tours : DeletePending(u)' <=> DeletePending(u) \/ u = t
  <2> HIDE DEF t
  <2> QED BY <1>5 DEF DeletePending
<1>9. OneSync'
  BY <1>4 DEF Inductive, OneSync, procs
<1>10. Working'
  <2>1. \A q \in Procs : WorkingOf(q)'
    BY <1>4, <1>8, AllWork
  <2> QED BY <1>4, <2>1 DEF Inductive, Working, LateOf
<1>11. Tombstones'
  <2>1. komoot' = komoot /\ deleted' = deleted \cup {t} /\ t \in Tours
    BY <1>2, <1>4
  <2> HIDE DEF t
  <2>2. \A u \in Tours : DeletePending(u)' => u \in deleted'
    BY <1>8, <2>1 DEF Inductive, Tombstones
  <2>3. \A u \in deleted' : DeletePending(u)' \/ komoot'[u] = None
    BY <1>8, <2>1 DEF Inductive, Tombstones, TypeOK
  <2> QED BY <2>2, <2>3 DEF Tombstones
<1> QED BY <1>6, <1>7, <1>9, <1>10, <1>11 DEF Inductive

-----------------------------------------------------------------------------
(* The theorems.                                                           *)

\* Every step keeps the inductive invariant.
LEMMA StepKeeps == Inductive /\ [Next]_vars => Inductive'
<1> SUFFICES ASSUME Inductive, [Next]_vars PROVE Inductive'
  OBVIOUS
<1>1. ASSUME NEW s \in Syncs, SyncStep(s) PROVE Inductive'
  <2>1. s \in Procs
    BY DEF Procs
  <2>2. ASSUME NEW t \in Tours, PushEdit(s, t) \/ PushDelete(s, t) \/ Detach(s, t)
        PROVE  Inductive'
    BY <2>2, PushEditKeeps, PushDeleteKeeps, DetachKeeps
  <2>3. ASSUME NEW sel \in SUBSET Tours, ListSelected(s, sel) PROVE Inductive'
    BY <2>1, <2>3, ListKeeps
  <2> QED BY <1>1, <2>2, <2>3, StartSyncKeeps, ListEditsKeeps, ClearEditKeeps,
             ListDeletesKeeps, UnlinkKeeps, LandKeeps DEF SyncStep
<1>2. ASSUME NEW p \in Syncs \cup Backfills, PullStep(p) PROVE Inductive'
  <2>1. p \in Procs
    BY DEF Procs
  <2> QED BY <1>2, <2>1, DedupKeeps, FetchKeeps, StopKeeps, InsertKeeps
          DEF PullStep
<1>3. ASSUME NEW b \in Backfills, BackfillStep(b) PROVE Inductive'
  BY <1>3, ListKeeps DEF BackfillStep, Procs
<1>4. ASSUME NEW v \in Views, StartView(v) PROVE Inductive'
  BY <1>4, ListKeeps DEF Procs
<1>5. ASSUME NEW p \in Procs, Refresh(p) \/ Halt(p) PROVE Inductive'
  BY <1>5, RefreshKeeps, StopKeeps
<1>6. ASSUME NEW r \in Reqs, ReqStep(r) PROVE Inductive'
  <2>1. ASSUME DropReq(r) PROVE Inductive'
    <3>1. req[r] \in Edit \cup Delete
      BY <2>1 DEF DropReq, Inductive, TypeOK
    <3> QED BY <2>1, <3>1, ReqKeeps
  <2> QED BY <1>6, <2>1, ReqKeeps, CommitEditKeeps, CommitDeleteKeeps
          DEF ReqStep
<1>7. ASSUME NEW t \in AppTours, AppStep(t) PROVE Inductive'
  <2>1. t \in Tours
    BY AppAssumption
  <2>2. ASSUME AppDelete(t) PROVE Inductive'
    <3>1. komoot[t] \in Content
      BY <2>1, <2>2 DEF AppDelete, Inductive, TypeOK
    <3> QED BY <2>1, <2>2, <3>1, AppKeeps
  <2> QED BY <1>7, <2>1, <2>2, AppKeeps DEF AppStep
<1>8. CASE UNCHANGED vars
  BY <1>8 DEF vars, Inductive, TypeOK, LinkConsistent, OneSync, Working,
              WorkingOf, LateOf, Tombstones, DeletePending
<1> QED BY <1>1, <1>2, <1>3, <1>4, <1>5, <1>6, <1>7, <1>8 DEF Next

\* The inductive invariant holds of every behaviour.
LEMMA AlwaysInductive == Spec => []Inductive
<1> QED BY InitInductive, StepKeeps, PTL DEF Spec

\* Every variable keeps its type, whatever the sets of tours and processes.
THEOREM TypeCorrect == Spec => []TypeOK
<1>1. Inductive => TypeOK
  BY DEF Inductive
<1> QED BY <1>1, AlwaysInductive, PTL

\* sync_one_tour's and delete_trip's transactions keep trips and link rows
\* matched: no tour is ever two trips, with any number of runs and backfills.
THEOREM LinksConsistent == Spec => []LinkConsistent
<1>1. Inductive => LinkConsistent
  BY DEF Inductive
<1> QED BY <1>1, AlwaysInductive, PTL

\* SyncGuard: one sync run at a time, however many are asked for.
THEOREM OneSyncAtATime == Spec => []OneSync
<1>1. Inductive => OneSync
  BY DEF Inductive
<1> QED BY <1>1, AlwaysInductive, PTL

\* A tombstone is a deleted tour's row, and has no trip.
LEMMA PendingIsDeleted ==
    ASSUME Inductive, NEW t \in Tours, DeletePending(t)
    PROVE  t \in deleted /\ ~Live(t)
BY DEF Inductive, Tombstones, LinkConsistent, DeletePending, Live

\* The archive deletes only tours the owner deleted: a run works on tombstones,
\* and a late call's tour is a tombstone still or is gone from Komoot already.
THEOREM LiveToursStay == Spec => NeverDeletesLiveTour
<1> DEFINE Dropped(t) == komoot[t] # None /\ komoot'[t] = None
           Allowed(t) == AppDelete(t) \/ (t \in deleted /\ ~Live(t))
<1>1. ASSUME Inductive, [Next]_vars, NEW t \in Tours, Dropped(t)
      PROVE  Allowed(t)
  <2>1. t \in deleted /\ DeletePending(t) => Allowed(t)
    BY <1>1, PendingIsDeleted
  <2>2. ASSUME NEW s \in Syncs, SyncStep(s) PROVE Allowed(t)
    <3>1. ASSUME NEW u \in Tours, PushEdit(s, u) PROVE FALSE
      <4>1. snap[s][u] \in Item /\ komoot[u] \in Content
        BY <1>1, <3>1 DEF PushEdit, Inductive, TypeOK, Working, WorkingOf, Procs
      <4>2. Updated(u, snap[s][u]) \in Content
        BY <4>1 DEF Updated, Item, Content
      <4> QED BY <1>1, <3>1, <4>2, NoneOutside DEF PushEdit, Inductive, TypeOK
    <3>2. ASSUME NEW u \in Tours, PushDelete(s, u) PROVE Allowed(t)
      <4>1. t = u /\ s \in Procs
        BY <1>1, <3>2 DEF PushDelete, Inductive, TypeOK, Procs
      <4>2. DeletePending(t)
        BY <1>1, <3>2, <4>1 DEF PushDelete, Inductive, Working, WorkingOf
      <4> QED BY <1>1, <2>1, <4>2, PendingIsDeleted
    <3>3. ASSUME Land(s) PROVE Allowed(t)
      <4>1. late[s] \in Call /\ LateOf(s) /\ late[s].tour \in Tours
        BY <1>1, <3>3 DEF Land, Inductive, TypeOK, Working, Call
      <4>2. CASE late[s].op = "update"
        <5>1. late[s].item \in Item /\ (komoot[late[s].tour] # None =>
                                          komoot[late[s].tour] \in Content)
          BY <1>1, <3>3, <4>1, <4>2 DEF LateOf, Land, Inductive, TypeOK
        <5>2. komoot[late[s].tour] # None =>
                  Updated(late[s].tour, late[s].item) \in Content
          BY <5>1 DEF Updated, Item, Content
        <5> DEFINE x == late[s].tour
                   new == Updated(x, late[s].item)
        <5>3. komoot' = komoot
              \/ (komoot[x] # None /\ komoot' = [komoot EXCEPT ![x] = new])
          BY <3>3, <4>2 DEF Land
        <5> HIDE DEF x, new
        <5>4. komoot[x] # None => new # None
          BY <5>2, NoneOutside DEF x, new
        <5> QED BY <1>1, <5>3, <5>4 DEF Inductive, TypeOK
      <4>3. CASE late[s].op = "delete"
        <5>1. t = late[s].tour
          BY <1>1, <3>3, <4>1, <4>3 DEF Land, Inductive, TypeOK
        <5>2. t \in deleted /\ DeletePending(t)
          BY <1>1, <3>3, <4>1, <4>3, <5>1
          DEF Land, LateOf, Inductive, Tombstones
        <5> QED BY <2>1, <5>2
      <4> QED BY <4>1, <4>2, <4>3 DEF Call
    <3> QED BY <1>1, <2>2, <3>1, <3>2, <3>3
            DEF SyncStep, StartSync, ListEdits, ClearEdit, ListDeletes, Unlink,
                Detach, ListSelected, db
  <2>3. ASSUME NEW u \in AppTours, AppStep(u) PROVE Allowed(t)
    <3>1. u \in Tours
      BY AppAssumption
    <3>2. ASSUME NEW c \in Content, AppEdit(u, c) PROVE FALSE
      BY <1>1, <3>1, <3>2, NoneOutside DEF AppEdit, Inductive, TypeOK
    <3>3. ASSUME AppDelete(u) PROVE u = t
      BY <1>1, <3>1, <3>3 DEF AppDelete, Inductive, TypeOK
    <3> QED BY <2>3, <3>2, <3>3 DEF AppStep
  <2>4. komoot' # komoot
    BY <1>1
  <2>5. ASSUME NEW p \in Procs,
               PullStep(p) \/ BackfillStep(p) \/ StartView(p) \/ Refresh(p)
               \/ Halt(p)
        PROVE  FALSE
    BY <2>4, <2>5 DEF PullStep, Dedup, Finish, Fetch, Insert, BackfillStep,
                      StartBackfill, ListUnlinked, StartView, Refresh, Halt
  <2>6. ASSUME NEW r \in Reqs, ReqStep(r) PROVE FALSE
    BY <2>4, <2>6 DEF ReqStep, CheckFlag, CommitEdit, CommitDelete, DropReq
  <2> QED BY <1>1, <2>2, <2>3, <2>4, <2>5, <2>6 DEF Next, vars, Procs
<1>2. Inductive /\ [Next]_vars
      => [\A t \in Tours : Dropped(t) => Allowed(t)]_vars
  BY <1>1
<1> QED BY <1>2, AlwaysInductive, PTL DEF Spec, NeverDeletesLiveTour

-----------------------------------------------------------------------------
(* Queued edits, beside any number of backfills and review screens.        *)

\* At the start no run is at work and nothing is stored.
LEMMA InitEdit == Init => EditInductive
<1> SUFFICES ASSUME Init PROVE EditInductive
  OBVIOUS
<1>1. PushHolds
  BY DEF Init, PushHolds, Procs
<1>2. EditsKept
  BY DEF Init, EditsKept, EditKept, Live, Empty
<1> QED BY <1>1, <1>2, InitInductive DEF EditInductive

\* A row that stays as it was stays held by the push.
LEMMA HeldStays ==
    ASSUME NEW s \in Syncs, NEW t \in Tours, HeldIn(s, t),
           snap'[s][t] = snap[s][t], link'[t] = link[t], used \subseteq used',
           origin'[snap[s][t].trip] \in {origin[snap[s][t].trip], None},
           raced \subseteq raced',
           t \notin raced' /\ Live(t) => trip'[link[t].trip] = trip[link[t].trip],
           t \notin raced' => sent'[t] = sent[t],
           pc'[s] = "clear" /\ cur'[s] = t => pc[s] = "clear" /\ cur[s] = t
    PROVE  HeldIn(s, t)'
BY DEF HeldIn, Live

\* A row that stays as it was keeps its edit.
LEMMA EditStays ==
    ASSUME NEW t \in Tours, EditKept(t), link'[t] = link[t], sent'[t] = sent[t],
           Live(t) => trip'[link[t].trip] = trip[link[t].trip]
    PROVE  EditKept(t)'
BY DEF EditKept, Live

\* Only one run works, so while one does, no other holds anything.
LEMMA OthersIdle ==
    ASSUME Inductive, NEW s \in Syncs, pc[s] # "idle", NEW q \in Syncs, q # s
    PROVE  pc[q] = "idle"
BY DEF Inductive, OneSync

\* A process moves, not into a push, and the tables stay as they were.
LEMMA QuietMove ==
    ASSUME EditInductive, NEW p \in Procs, NEW ph, NEW w, NEW t, NEW s,
           Become(p, ph, w, t, s), ph \notin {"push", "clear"},
           UNCHANGED <<trip, used, link, origin, sent, raced>>
    PROVE  PushHolds' /\ EditsKept'
<1>1. ASSUME NEW q \in Syncs, pc'[q] \in {"push", "clear"}, NEW u \in todo'[q]
      PROVE  HeldIn(q, u)'
  <2>1. TypeOK /\ q \in Procs
    BY DEF EditInductive, Inductive, Procs
  <2>2. q # p
    BY <1>1, <2>1 DEF Become, TypeOK
  <2>3. /\ pc'[q] = pc[q] /\ todo'[q] = todo[q] /\ cur'[q] = cur[q]
        /\ snap'[q] = snap[q]
    BY <2>1, <2>2, Unmoved
  <2>4. HeldIn(q, u) /\ u \in Tours
    BY <1>1, <2>1, <2>3 DEF EditInductive, PushHolds, TypeOK
  <2> QED BY <2>3, <2>4, HeldStays
<1>2. ASSUME NEW u \in Tours \ raced' PROVE EditKept(u)'
  BY EditStays DEF EditInductive, EditsKept
<1> QED BY <1>1, <1>2 DEF PushHolds, EditsKept

\* No process moves and the tables stay as they were.
LEMMA QuietStep ==
    ASSUME EditInductive, UNCHANGED procs,
           UNCHANGED <<trip, used, link, origin, sent, raced>>
    PROVE  PushHolds' /\ EditsKept'
BY DEF EditInductive, PushHolds, HeldIn, EditsKept, EditKept, Live, procs

\* The push reads the rows it will hold.
LEMMA ListEditsHolds ==
    ASSUME EditInductive, NEW s \in Syncs, ListEdits(s)
    PROVE  PushHolds' /\ EditsKept'
<1>1. TypeOK /\ LinkConsistent /\ s \in Procs /\ pc[s] # "idle"
  BY DEF EditInductive, Inductive, Procs, ListEdits
<1>2. /\ pc'[s] = "push" /\ todo'[s] = {u \in Tours : EditPending(u)}
      /\ \A u \in todo'[s] :
            snap'[s][u] = [trip |-> link[u].trip, name |-> trip[link[u].trip],
                           priv |-> link[u].priv]
  BY <1>1 DEF ListEdits, Become, TypeOK
<1>3. UNCHANGED <<trip, used, link, origin, sent, raced>>
  BY DEF ListEdits, db, history
<1>4. ASSUME NEW u \in todo'[s] PROVE HeldIn(s, u)'
  <2>1. /\ link[u] # None /\ link[u].trip # None /\ link[u].edit /\ u \in Tours
        /\ snap'[s][u] = [trip |-> link[u].trip, name |-> trip[link[u].trip],
                          priv |-> link[u].priv]
    BY <1>2, <1>4 DEF EditPending, Live
  <2>2. trip[link[u].trip] # None /\ origin[link[u].trip] = u
        /\ link[u].trip \in Trips
    BY <1>1, <2>1 DEF LinkConsistent, TypeOK, Link
  <2>3. link[u].trip \in used
    BY <1>1, <2>2 DEF LinkConsistent
  <2> QED BY <1>2, <1>3, <2>1, <2>2, <2>3 DEF HeldIn
<1>5. ASSUME NEW q \in Syncs, q # s PROVE pc'[q] = "idle"
  BY <1>1, <1>5, OthersIdle, Unmoved DEF EditInductive, ListEdits, Procs
<1>6. ASSUME NEW u \in Tours \ raced' PROVE EditKept(u)'
  BY <1>3, EditStays DEF EditInductive, EditsKept
<1> QED BY <1>4, <1>5, <1>6 DEF PushHolds, EditsKept

\* Komoot is told of an edit that is queued still.
LEMMA PushEditHolds ==
    ASSUME EditInductive, NEW s \in Syncs, NEW t \in Tours, PushEdit(s, t)
    PROVE  PushHolds' /\ EditsKept'
<1>1. TypeOK /\ s \in Procs /\ pc[s] # "idle" /\ t \in todo[s]
  BY DEF EditInductive, Inductive, Procs, PushEdit
<1>2. /\ pc'[s] = "clear" /\ todo'[s] = todo[s] /\ cur'[s] = t
      /\ snap'[s] = snap[s]
  BY <1>1 DEF PushEdit, Become, TypeOK
<1>3. /\ UNCHANGED <<trip, used, link, origin, raced>>
      /\ sent'[t] = [name |-> snap[s][t].name, priv |-> snap[s][t].priv]
      /\ sent'[t] \in Content
      /\ \A u \in Tours \ {t} : sent'[u] = sent[u]
  <2>1. snap[s][t] \in Item
    BY <1>1 DEF EditInductive, Inductive, Working, WorkingOf, PushEdit
  <2> QED BY <1>1, <2>1 DEF PushEdit, TypeOK, db, Item, Content
<1>4. \A u \in todo[s] : HeldIn(s, u) /\ u \in Tours
  BY <1>1 DEF EditInductive, PushHolds, PushEdit, TypeOK
<1>5. HeldIn(s, t)'
  BY <1>1, <1>2, <1>3, <1>4, NoneOutside DEF HeldIn, Live
<1>6. ASSUME NEW u \in todo'[s], u # t PROVE HeldIn(s, u)'
  BY <1>2, <1>3, <1>4, <1>6, HeldStays
<1>7. ASSUME NEW q \in Syncs, q # s PROVE pc'[q] = "idle"
  BY <1>1, <1>7, OthersIdle, Unmoved DEF EditInductive, PushEdit, Procs
<1>8. ASSUME NEW u \in Tours \ raced' PROVE EditKept(u)'
  <2>1. CASE u = t
    BY <1>1, <1>3, <1>4, <1>8, <2>1 DEF HeldIn, EditKept, Live
  <2>2. CASE u # t
    BY <1>3, <1>8, <2>2, EditStays DEF EditInductive, EditsKept
  <2> QED BY <2>1, <2>2
<1> QED BY <1>5, <1>6, <1>7, <1>8 DEF PushHolds, EditsKept

\* The flag is cleared of the row whose edit was sent, and of no other.
LEMMA ClearsOne ==
    ASSUME EditInductive, NEW s \in Syncs, ClearEdit(s)
    PROVE  /\ cur[s] \in todo[s] /\ cur[s] \in Tours
           /\ \A u \in Tours \ {cur[s]} : link'[u] = link[u]
           /\ \A u \in Tours : Live(u)' <=> Live(u)
           /\ Live(cur[s]) => \/ link'[cur[s]] = link[cur[s]]
                              \/ link'[cur[s]] = Cleared(link[cur[s]])
<1> DEFINE t == cur[s]
           i == snap[s][t].trip
<1>1. /\ TypeOK /\ LinkConsistent /\ s \in Procs /\ pc[s] = "clear"
      /\ t \in todo[s] /\ t \in Tours
  BY DEF EditInductive, Inductive, Procs, ClearEdit, TypeOK, Working, WorkingOf
<1>2. HeldIn(s, t)
  BY <1>1 DEF EditInductive, PushHolds, ClearEdit, TypeOK
<1>3. i \in used /\ i # None
  BY <1>1, <1>2, NoneOutside DEF HeldIn, TypeOK
<1>4. ASSUME NEW u \in Tours, u # t PROVE link'[u] = link[u]
  <2>1. ASSUME link[u] # None, link[u].trip = i PROVE FALSE
    <3> HIDE DEF i
    <3>1. origin[i] = u
      BY <1>1, <1>3, <2>1 DEF LinkConsistent
    <3> QED BY <1>2, <1>4, <3>1, NoneOutside DEF HeldIn, i
  <2> QED BY <2>1 DEF ClearEdit
<1>5. ASSUME NEW u \in Tours PROVE Live(u)' <=> Live(u)
  BY <1>1, ClearedRow, NoneOutside DEF ClearEdit, Live, TypeOK
<1>6. link'[t] = link[t] \/ link'[t] = Cleared(link[t])
  BY <1>1 DEF ClearEdit
<1> QED BY <1>1, <1>4, <1>5, <1>6

\* So an unraced tour's flag is cleared once Komoot has been told.
LEMMA ClearEditHolds ==
    ASSUME EditInductive, NEW s \in Syncs, ClearEdit(s)
    PROVE  PushHolds' /\ EditsKept'
<1>0. PICK t \in Tours : t = cur[s]
  BY ClearsOne
<1>1. /\ TypeOK /\ s \in Procs /\ pc[s] = "clear"
      /\ t \in todo[s] /\ t \in Tours
  BY <1>0, ClearsOne DEF EditInductive, Inductive, Procs, ClearEdit
<1>2. /\ pc'[s] = "push" /\ todo'[s] = todo[s] \ {t}
      /\ \A u \in Tours \ {t} : snap'[s][u] = snap[s][u]
  BY <1>0, <1>1 DEF ClearEdit, Become, TypeOK
<1>3. UNCHANGED <<trip, used, origin, sent, raced>>
  BY DEF ClearEdit, history
<1>4. \A u \in todo[s] : HeldIn(s, u) /\ u \in Tours
  BY <1>1 DEF EditInductive, PushHolds, ClearEdit, TypeOK
<1>5. \A u \in Tours \ {t} : link'[u] = link[u]
  BY <1>0, ClearsOne
<1>6. Live(t) => Live(t)' /\ link'[t].trip = link[t].trip
  BY <1>0, <1>1, ClearsOne, ClearedRow DEF TypeOK, Live
<1>7. ASSUME NEW u \in todo'[s] PROVE HeldIn(s, u)'
  <2>1. u # t /\ u \in todo[s]
    BY <1>2, <1>7
  <2> QED BY <1>2, <1>3, <1>4, <1>5, <2>1, HeldStays
<1>8. ASSUME NEW q \in Syncs, q # s PROVE pc'[q] = "idle"
  BY <1>1, <1>8, OthersIdle, Unmoved DEF EditInductive, ClearEdit, Procs
<1>9. ASSUME NEW u \in Tours \ raced' PROVE EditKept(u)'
  <2>1. CASE u # t
    BY <1>3, <1>5, <2>1, <1>9, EditStays DEF EditInductive, EditsKept
  <2>2. CASE u = t
    <3>1. Live(t) => sent[t].name = trip[link[t].trip]
      <4>1. HeldIn(s, t) /\ t \notin raced
        BY <1>1, <1>3, <1>4, <1>9, <2>2
      <4>2. sent[t].name = snap[s][t].name
        BY <1>0, <1>1, <4>1 DEF HeldIn
      <4>3. Live(t) => snap[s][t].name = trip[link[t].trip]
        BY <4>1 DEF HeldIn
      <4> QED BY <4>2, <4>3
    <3>2. Live(t)' => Live(t)
      BY <1>1, ClearsOne
    <3> QED BY <1>3, <1>6, <2>2, <3>1, <3>2 DEF EditKept
  <2> QED BY <2>1, <2>2
<1> QED BY <1>2, <1>7, <1>8, <1>9 DEF PushHolds, EditsKept

\* A forgotten row was a deleted tour's, and no push is at work.
LEMMA UnlinkHolds ==
    ASSUME EditInductive, NEW s \in Syncs, Unlink(s)
    PROVE  PushHolds' /\ EditsKept'
<1>1. /\ TypeOK /\ s \in Procs /\ pc[s] = "unlink" /\ pc'[s] = "delete"
      /\ cur[s] \in Tours
  BY DEF EditInductive, Inductive, Procs, Unlink, Become, TypeOK, Working,
         WorkingOf
<1>2. ASSUME NEW q \in Syncs, q # s PROVE pc'[q] = "idle"
  BY <1>1, <1>2, OthersIdle, Unmoved DEF EditInductive, Unlink, Procs
<1>3. ASSUME NEW u \in Tours \ raced' PROVE EditKept(u)'
  BY <1>1, <1>3
  DEF Unlink, EditInductive, EditsKept, EditKept, Live, TypeOK, history
<1> QED BY <1>1, <1>2, <1>3 DEF PushHolds, EditsKept

\* A listing's privacy is written to rows without a queued edit only.
LEMMA RefreshHolds ==
    ASSUME EditInductive, NEW p \in Procs, Refresh(p)
    PROVE  PushHolds' /\ EditsKept'
<1>1. TypeOK
  BY DEF EditInductive, Inductive
<1>2. PICK ph, w, s : ph \in {"idle", "dedup"} /\ Become(p, ph, w, None, s)
  BY EndBecomes DEF Refresh
<1>3. UNCHANGED <<trip, used, origin, sent, raced>>
  BY DEF Refresh, history
<1>4. ASSUME NEW u \in Tours
      PROVE  /\ link[u] = None <=> link'[u] = None
             /\ link[u] # None => /\ link'[u].trip = link[u].trip
                                  /\ link'[u].edit = link[u].edit
                                  /\ link[u].edit => link'[u] = link[u]
  <2>1. snap[p][u] # None => snap[p][u].priv \in Statuses
    BY <1>1 DEF TypeOK, Item
  <2> QED BY <1>1, <2>1, RefreshedRow, NoneOutside DEF TypeOK, Refresh, Refreshable
<1>5. ASSUME NEW q \in Syncs, pc'[q] \in {"push", "clear"}, NEW u \in todo'[q]
      PROVE  HeldIn(q, u)'
  <2>1. q \in Procs /\ q # p
    BY <1>1, <1>2, <1>5 DEF Become, TypeOK, Procs
  <2>2. /\ pc'[q] = pc[q] /\ todo'[q] = todo[q] /\ cur'[q] = cur[q]
        /\ snap'[q] = snap[q]
    BY <1>1, <1>2, <2>1, Unmoved
  <2>3. HeldIn(q, u) /\ u \in Tours
    BY <1>1, <1>5, <2>1, <2>2 DEF EditInductive, PushHolds, TypeOK
  <2> QED BY <1>3, <1>4, <2>2, <2>3 DEF HeldIn, Live
<1>6. ASSUME NEW u \in Tours \ raced' PROVE EditKept(u)'
  BY <1>3, <1>4, <1>6 DEF EditInductive, EditsKept, EditKept, Live
<1> QED BY <1>5, <1>6 DEF PushHolds, EditsKept

\* The new trip is none that a row or a push knows.
LEMMA InsertHolds ==
    ASSUME EditInductive, NEW p \in Procs, NEW i \in Trips, Insert(p, i)
    PROVE  PushHolds' /\ EditsKept'
<1> DEFINE t == cur[p]
<1>1. /\ TypeOK /\ LinkConsistent /\ i \notin used /\ trip[i] = None
      /\ t \in Tours /\ link[t] = None /\ snap[p][t] \in Item
  BY NoneOutside
  DEF EditInductive, Inductive, Insert, Insertable, TypeOK, Working, WorkingOf,
      LinkConsistent
<1>2. /\ link' = [link EXCEPT ![t] = NewLink(i, snap[p][t].priv)]
      /\ trip' = [trip EXCEPT ![i] = snap[p][t].name]
      /\ origin' = [origin EXCEPT ![i] = t]
      /\ used' = used \cup {i} /\ raced' = raced
      /\ sent' = [sent EXCEPT ![t] = [name |-> snap[p][t].name,
                                      priv |-> snap[p][t].priv]]
  BY DEF Insert
<1>3. PICK w, s : Become(p, "pull", w, None, s)
  BY DEF Insert
<1>4. ASSUME NEW u \in Tours, link[u] # None
      PROVE  /\ u # t /\ link'[u] = link[u] /\ sent'[u] = sent[u]
             /\ Live(u) => trip'[link[u].trip] = trip[link[u].trip]
  <2>1. u # t
    BY <1>1, <1>4
  <2> HIDE DEF t
  <2> QED BY <1>1, <1>2, <1>4, <2>1 DEF TypeOK, LinkConsistent, Live
<1>5. ASSUME NEW q \in Syncs, pc'[q] \in {"push", "clear"}, NEW u \in todo'[q]
      PROVE  HeldIn(q, u)'
  <2>1. q \in Procs /\ q # p
    BY <1>1, <1>3, <1>5 DEF Become, TypeOK, Procs
  <2>2. /\ pc'[q] = pc[q] /\ todo'[q] = todo[q] /\ cur'[q] = cur[q]
        /\ snap'[q] = snap[q]
    BY <1>1, <1>3, <2>1, Unmoved
  <2>3. HeldIn(q, u) /\ u \in Tours
    BY <1>1, <1>5, <2>1, <2>2 DEF EditInductive, PushHolds, TypeOK
  <2>4. snap[q][u].trip \in used /\ snap[q][u].trip # i /\ link[u] # None
    BY <1>1, <2>3 DEF HeldIn
  <2>5. origin'[snap[q][u].trip] = origin[snap[q][u].trip]
    BY <1>1, <1>2, <2>4 DEF TypeOK
  <2> QED BY <1>2, <1>4, <2>2, <2>3, <2>4, <2>5, HeldStays
<1>6. ASSUME NEW u \in Tours \ raced' PROVE EditKept(u)'
  <2>1. CASE link[u] # None
    BY <1>2, <1>4, <1>6, <2>1, EditStays DEF EditInductive, EditsKept
  <2>2. CASE link[u] = None /\ u # t
    <3> HIDE DEF t
    <3> QED BY <1>1, <1>2, <2>2 DEF EditKept, Live, TypeOK
  <2>3. CASE u = t
    <3>1. /\ link'[t].trip = i /\ trip'[i] = snap[p][t].name
          /\ sent'[t].name = snap[p][t].name
      BY <1>1, <1>2, NewLinkRow DEF TypeOK, Item
    <3> QED BY <2>3, <3>1 DEF EditKept, Live
  <2> QED BY <2>1, <2>2, <2>3
<1> QED BY <1>5, <1>6 DEF PushHolds, EditsKept

\* A cancelled run holds nothing any more.
LEMMA DetachHolds ==
    ASSUME EditInductive, NEW s \in Syncs, NEW t \in Tours, Detach(s, t)
    PROVE  PushHolds' /\ EditsKept'
<1>1. TypeOK /\ s \in Procs /\ pc[s] # "idle" /\ pc'[s] = "idle"
  BY DEF EditInductive, Inductive, Procs, Detach, End, Become, TypeOK
<1>2. ASSUME NEW q \in Syncs, q # s PROVE pc'[q] = "idle"
  BY <1>1, <1>2, OthersIdle, Unmoved
  DEF EditInductive, Detach, End, Procs
<1>3. ASSUME NEW u \in Tours \ raced' PROVE EditKept(u)'
  <2>1. u \in Tours \ raced
    BY <1>3 DEF Detach
  <2> QED BY <2>1, EditStays DEF Detach, EditInductive, EditsKept, db
<1> QED BY <1>1, <1>2, <1>3 DEF PushHolds, EditsKept

\* What lands late was sent for a raced tour, or is a deletion.
LEMMA LandHolds ==
    ASSUME EditInductive, NEW s \in Syncs, Land(s)
    PROVE  PushHolds' /\ EditsKept'
<1>1. \A u \in Tours \ raced : sent'[u] = sent[u]
  <2>1. late[s].op = "update" => late[s].tour \in raced
    BY DEF Land, EditInductive, Inductive, Working, LateOf
  <2> DEFINE x == late[s].tour
             agreed == [name |-> late[s].item.name, priv |-> late[s].item.priv]
  <2>2. \/ sent' = sent
        \/ late[s].op = "update" /\ sent' = [sent EXCEPT ![x] = agreed]
    BY DEF Land
  <2> HIDE DEF x, agreed
  <2> QED BY <2>1, <2>2 DEF x, EditInductive, Inductive, TypeOK
<1>2. UNCHANGED <<trip, used, link, origin, raced, pc, todo, cur, snap>>
  BY DEF Land, db, procs
<1>3. ASSUME NEW q \in Syncs, pc'[q] \in {"push", "clear"}, NEW u \in todo'[q]
      PROVE  HeldIn(q, u)'
  <2>1. HeldIn(q, u) /\ u \in Tours
    BY <1>2, <1>3 DEF EditInductive, Inductive, PushHolds, TypeOK, Procs
  <2> QED BY <1>1, <1>2, <2>1, HeldStays
<1>4. ASSUME NEW u \in Tours \ raced' PROVE EditKept(u)'
  BY <1>1, <1>2, <1>4, EditStays DEF EditInductive, EditsKept
<1> QED BY <1>3, <1>4 DEF PushHolds, EditsKept

\* An edited row is queued, and raced if a push holds it.
LEMMA CommitEditHolds ==
    ASSUME EditInductive, NEW r \in Reqs, CommitEdit(r)
    PROVE  PushHolds' /\ EditsKept'
<1> DEFINE edited == req[r].trips
           n == req[r].name
           mine == {u \in Tours : link[u] # None /\ link[u].trip \in edited}
<1>1. /\ TypeOK /\ LinkConsistent
      /\ req[r].priv \in Settable \cup {None}
  BY DEF EditInductive, Inductive, CommitEdit, TypeOK, Edit, Delete
<1>2. /\ trip' = [i \in Trips |-> IF i \in edited /\ n # None THEN n ELSE trip[i]]
      /\ link' = [u \in Tours |-> IF u \in mine THEN Queued(link[u], req[r].priv)
                                                ELSE link[u]]
      /\ raced' = raced \cup {u \in mine : InPush(u)}
      /\ UNCHANGED <<used, pc, todo, cur, snap, sent, origin>>
  BY DEF CommitEdit, procs
<1> HIDE DEF mine, edited, n
<1>3. ASSUME NEW u \in Tours \ mine
      PROVE  /\ link'[u] = link[u]
             /\ Live(u) => trip'[link[u].trip] = trip[link[u].trip]
  <2>1. Live(u) => link[u].trip \in Trips \ edited
    BY <1>1, <1>3 DEF TypeOK, Link, Live, mine
  <2> QED BY <1>2, <1>3, <2>1
<1>4. ASSUME NEW u \in mine
      PROVE  link'[u] # None /\ link'[u].edit /\ u \in Tours
  BY <1>1, <1>2, <1>4, QueuedRow, NoneOutside DEF TypeOK, mine
<1>5. ASSUME NEW q \in Syncs, pc'[q] \in {"push", "clear"}, NEW u \in todo'[q]
      PROVE  HeldIn(q, u)'
  <2>1. HeldIn(q, u) /\ u \in Tours
    BY <1>1, <1>2, <1>5 DEF EditInductive, PushHolds, TypeOK, Procs
  <2>2. CASE u \in mine
    <3>1. u \in raced'
      BY <1>2, <1>5, <2>2 DEF InPush
    <3> QED BY <1>2, <1>4, <2>1, <2>2, <3>1 DEF HeldIn
  <2>3. CASE u \notin mine
    BY <1>2, <1>3, <2>1, <2>3, HeldStays
  <2> QED BY <2>2, <2>3
<1>6. ASSUME NEW u \in Tours \ raced' PROVE EditKept(u)'
  <2>1. CASE u \in mine
    BY <1>4, <2>1 DEF EditKept
  <2>2. CASE u \notin mine
    BY <1>2, <1>3, <1>6, <2>2, EditStays DEF EditInductive, EditsKept
  <2> QED BY <2>1, <2>2
<1> QED BY <1>5, <1>6 DEF PushHolds, EditsKept

\* A deleted trip's row stays, without the trip.
LEMMA CommitDeleteHolds ==
    ASSUME EditInductive, NEW r \in Reqs, CommitDelete(r)
    PROVE  PushHolds' /\ EditsKept'
<1> DEFINE i == req[r].trip
           mine == {u \in Tours : link[u] # None /\ link[u].trip = i}
<1>1. TypeOK /\ LinkConsistent
  BY DEF EditInductive, Inductive
<1>2. /\ trip' = [trip EXCEPT ![i] = None]
      /\ link' = [u \in Tours |-> IF u \in mine THEN Tombstone(link[u])
                                                ELSE link[u]]
      /\ origin' = [origin EXCEPT ![i] = None]
      /\ UNCHANGED <<used, pc, todo, cur, snap, sent, raced>>
  BY DEF CommitDelete, procs
<1> HIDE DEF mine, i
<1>3. ASSUME NEW u \in Tours \ mine
      PROVE  /\ link'[u] = link[u]
             /\ Live(u) => trip'[link[u].trip] = trip[link[u].trip]
  BY <1>1, <1>2, <1>3 DEF TypeOK, Link, Live, mine
<1>4. ASSUME NEW u \in mine PROVE link'[u] # None /\ ~Live(u)'
  BY <1>1, <1>2, <1>4, TombstoneRow, NoneOutside DEF TypeOK, mine, Live
<1>5. \A j : origin'[j] \in {origin[j], None} \/ j \notin Trips
  BY <1>1, <1>2 DEF TypeOK
<1>6. ASSUME NEW q \in Syncs, pc'[q] \in {"push", "clear"}, NEW u \in todo'[q]
      PROVE  HeldIn(q, u)'
  <2>1. HeldIn(q, u) /\ u \in Tours
    BY <1>1, <1>2, <1>6 DEF EditInductive, PushHolds, TypeOK, Procs
  <2>2. snap[q][u].trip \in Trips
    BY <1>1, <2>1 DEF HeldIn, TypeOK
  <2>3. CASE u \in mine
    BY <1>2, <1>4, <1>5, <2>1, <2>2, <2>3 DEF HeldIn
  <2>4. CASE u \notin mine
    BY <1>2, <1>3, <1>5, <2>1, <2>2, <2>4, HeldStays
  <2> QED BY <2>3, <2>4
<1>7. ASSUME NEW u \in Tours \ raced' PROVE EditKept(u)'
  <2>1. CASE u \in mine
    BY <1>4, <2>1 DEF EditKept
  <2>2. CASE u \notin mine
    BY <1>2, <1>3, <1>7, <2>2, EditStays DEF EditInductive, EditsKept
  <2> QED BY <2>1, <2>2
<1> QED BY <1>6, <1>7 DEF PushHolds, EditsKept

\* Every step keeps queued edits queued until they are sent.
LEMMA StepKeepsEdits == EditInductive /\ [Next]_vars => EditInductive'
<1> SUFFICES ASSUME EditInductive, [Next]_vars PROVE PushHolds' /\ EditsKept'
  BY StepKeeps DEF EditInductive
<1>1. ASSUME NEW s \in Syncs, SyncStep(s) PROVE PushHolds' /\ EditsKept'
  <2>1. s \in Procs
    BY DEF Procs
  <2>2. CASE StartSync(s) \/ ListDeletes(s)
    BY <2>1, <2>2, QuietMove DEF StartSync, ListDeletes, db, history
  <2>3. ASSUME NEW t \in Tours, PushDelete(s, t) PROVE PushHolds' /\ EditsKept'
    BY <2>1, <2>3, QuietMove DEF PushDelete, db, history
  <2>4. ASSUME NEW sel \in SUBSET Tours, ListSelected(s, sel)
        PROVE  PushHolds' /\ EditsKept'
    BY <2>1, <2>4, QuietMove DEF ListSelected, db, history
  <2> QED BY <1>1, <2>2, <2>3, <2>4, ListEditsHolds, ClearEditHolds, UnlinkHolds,
             LandHolds, PushEditHolds, DetachHolds DEF SyncStep
<1>2. ASSUME NEW p \in Syncs \cup Backfills, PullStep(p)
      PROVE  PushHolds' /\ EditsKept'
  <2>1. p \in Procs
    BY DEF Procs
  <2>2. ASSUME NEW t \in Tours, Fetch(p, t) PROVE PushHolds' /\ EditsKept'
    BY <2>1, <2>2, QuietMove DEF Fetch, db, history
  <2>3. CASE Dedup(p) \/ Finish(p)
    BY <2>1, <2>3, QuietMove, EndBecomes DEF Dedup, Finish, db, history
  <2> QED BY <1>2, <2>1, <2>2, <2>3, InsertHolds DEF PullStep
<1>3. ASSUME NEW b \in Backfills, BackfillStep(b) PROVE PushHolds' /\ EditsKept'
  BY <1>3, QuietMove DEF BackfillStep, StartBackfill, ListUnlinked, db, history,
                         Procs
<1>4. ASSUME NEW v \in Views, StartView(v) PROVE PushHolds' /\ EditsKept'
  BY <1>4, QuietMove DEF StartView, db, history, Procs
<1>5. ASSUME NEW p \in Procs, Refresh(p) \/ Halt(p)
      PROVE  PushHolds' /\ EditsKept'
  <2>1. CASE Halt(p)
    BY <2>1, QuietMove, EndBecomes DEF Halt, db, history
  <2> QED BY <1>5, <2>1, RefreshHolds
<1>6. ASSUME NEW r \in Reqs, ReqStep(r) PROVE PushHolds' /\ EditsKept'
  <2>1. CASE DropReq(r) \/ \E q \in Edit \cup Delete : CheckFlag(r, q)
    BY <2>1, QuietStep DEF DropReq, CheckFlag, db, history
  <2> QED BY <1>6, <2>1, CommitEditHolds, CommitDeleteHolds DEF ReqStep
<1>7. ASSUME NEW t \in AppTours, AppStep(t) PROVE PushHolds' /\ EditsKept'
  BY <1>7, QuietStep DEF AppStep, AppEdit, AppDelete, db, history
<1>8. CASE UNCHANGED vars
  BY <1>8, QuietStep DEF vars, procs
<1> QED BY <1>1, <1>2, <1>3, <1>4, <1>5, <1>6, <1>7, <1>8 DEF Next

\* push_pending_edits and clear_edit_pending lose no edit of a tour that was
\* not edited while a push held it: what is not queued any more is what was
\* sent, with any number of backfills and review screens at work.
THEOREM EditsAreSentFirst == Spec => []EditsKept
<1>1. EditInductive => EditsKept
  BY DEF EditInductive
<1> QED BY <1>1, InitEdit, StepKeepsEdits, PTL DEF Spec

-----------------------------------------------------------------------------
(* The privacies the owner chose, beside backfills and review screens.     *)

\* At the start nothing is chosen.
LEMMA InitWord == Init => WordInductive
<1> SUFFICES ASSUME Init PROVE ChoicesHold
  BY InitEdit DEF WordInductive
<1> QED BY DEF Init, ChoicesHold, ChoiceKept, ChoiceTold, ChoiceListed, Live, Empty

\* A row that stays as it was agrees with the owner's choice as before, also
\* when Komoot loses the tour.
LEMMA ChoiceStays ==
    ASSUME NEW t \in Tours, ChoiceKept(t), ChoiceTold(t), ChoiceListed(t),
           link'[t] = link[t], choice'[t] = choice[t],
           komoot'[t] \in {komoot[t], None}, Told(t)' => Told(t),
           \A p \in Procs : pc'[p] \in {"list", "refresh"} =>
               pc[p] \in {"list", "refresh"} /\ snap'[p][t] = snap[p][t]
    PROVE  ChoiceKept(t)' /\ ChoiceTold(t)' /\ ChoiceListed(t)'
<1>1. ChoiceKept(t)'
  BY DEF ChoiceKept, Live
<1>2. ChoiceTold(t)'
  BY DEF ChoiceTold, Live
<1>3. ChoiceListed(t)'
  BY DEF ChoiceListed, Live
<1> QED BY <1>1, <1>2, <1>3

\* A process that moves to another phase tells Komoot of no edit.
LEMMA ToldMove ==
    ASSUME TypeOK, NEW p \in Procs, NEW ph, NEW w, NEW t, NEW s,
           Become(p, ph, w, t, s), ph # "clear", NEW u \in Tours, Told(u)'
    PROVE  Told(u)
<1>1. PICK q \in Syncs : pc'[q] = "clear" /\ cur'[q] = u
  BY DEF Told
<1>2. q \in Procs /\ q # p
  BY <1>1 DEF Procs, Become, TypeOK
<1> QED BY <1>1, <1>2, Unmoved DEF Told

\* A process moves, to no new listing or push, and no row or choice changes.
LEMMA ChoiceMove ==
    ASSUME WordInductive, NEW p \in Procs, NEW ph, NEW w, NEW t, NEW s,
           Become(p, ph, w, t, s), ph \notin {"clear", "list"},
           ph = "refresh" => pc[p] = "list" /\ s = snap[p],
           UNCHANGED <<link, choice, outdated>>, raced \subseteq raced',
           \A u \in Tours : komoot'[u] \in {komoot[u], None}
    PROVE  ChoicesHold'
<1>1. TypeOK
  BY DEF WordInductive, EditInductive, Inductive
<1>2. ASSUME NEW u \in Tours \ (raced' \cup outdated')
      PROVE  ChoiceKept(u)' /\ ChoiceTold(u)' /\ ChoiceListed(u)'
  <2>1. ChoiceKept(u) /\ ChoiceTold(u) /\ ChoiceListed(u)
    BY DEF WordInductive, ChoicesHold
  <2>2. ASSUME NEW q \in Procs, pc'[q] \in {"list", "refresh"}
        PROVE  pc[q] \in {"list", "refresh"} /\ snap'[q][u] = snap[q][u]
    <3>1. CASE q = p
      BY <1>1, <2>2, <3>1 DEF Become, TypeOK
    <3>2. CASE q # p
      BY <1>1, <2>2, <3>2, Unmoved
    <3> QED BY <3>1, <3>2
  <2>3. Told(u)' => Told(u)
    BY <1>1, ToldMove
  <2> QED BY <2>1, <2>2, <2>3, ChoiceStays
<1> QED BY <1>2 DEF ChoicesHold

\* What is listed is what a run has told Komoot, or what Komoot's app chose.
LEMMA ListingChoice ==
    ASSUME WordInductive, NEW p \in Procs, NEW ph, NEW w, NEW kinds,
           Become(p, ph, w, None, Listing(kinds)), ph # "clear",
           UNCHANGED <<link, choice, raced, outdated, komoot>>
    PROVE  ChoicesHold'
<1>1. TypeOK
  BY DEF WordInductive, EditInductive, Inductive
<1>2. snap'[p] = Listing(kinds)
  BY <1>1 DEF Become, TypeOK
<1>3. ASSUME NEW u \in Tours \ (raced' \cup outdated')
      PROVE  ChoiceKept(u)' /\ ChoiceTold(u)' /\ ChoiceListed(u)'
  <2>1. ChoiceKept(u) /\ ChoiceTold(u) /\ ChoiceListed(u) /\ u \in Tours
    BY DEF WordInductive, ChoicesHold
  <2>2. Told(u)' => Told(u)
    BY <1>1, ToldMove
  <2>3. snap'[p][u] # None => komoot[u] # None /\ snap'[p][u].priv = komoot[u].priv
    BY <1>2, <2>1 DEF Listing
  <2>4. ChoiceKept(u)' /\ ChoiceTold(u)'
    BY <2>1, <2>2 DEF ChoiceKept, ChoiceTold, Live
  <2>5. ASSUME NEW q \in Procs, pc'[q] \in {"list", "refresh"}, snap'[q][u] # None,
               Live(u)', link'[u].edit => Told(u)'
        PROVE  choice'[u] \in {None, snap'[q][u].priv}
    <3>1. CASE q = p
      BY <2>1, <2>2, <2>3, <2>5, <3>1 DEF ChoiceTold, Live
    <3>2. CASE q # p
      BY <1>1, <2>1, <2>2, <2>5, <3>2, Unmoved DEF ChoiceListed, Live
    <3> QED BY <3>1, <3>2
  <2> QED BY <2>4, <2>5 DEF ChoiceListed
<1> QED BY <1>3 DEF ChoicesHold

\* Komoot takes the privacy the row holds, which is the owner's if one chose.
LEMMA PushEditChoice ==
    ASSUME WordInductive, NEW s \in Syncs, NEW t \in Tours, PushEdit(s, t)
    PROVE  ChoicesHold'
<1>1. TypeOK /\ s \in Procs /\ pc[s] # "idle" /\ t \in todo[s]
  BY DEF WordInductive, EditInductive, Inductive, Procs, PushEdit
<1>2. /\ pc'[s] = "clear" /\ cur'[s] = t
      /\ \A q \in Procs \ {s} : pc'[q] = pc[q] /\ snap'[q] = snap[q]
  BY <1>1 DEF PushEdit, Become, TypeOK
<1>3. /\ UNCHANGED <<link, choice, raced>> /\ outdated \subseteq outdated'
      /\ t \notin outdated' => ~Listed(t)
      /\ komoot'[t] = Updated(t, snap[s][t])
      /\ \A u \in Tours \ {t} : komoot'[u] = komoot[u]
  BY <1>1 DEF PushEdit, TypeOK, db
<1>4. ASSUME NEW q \in Syncs, q # s PROVE pc'[q] = "idle"
  BY <1>1, <1>4, OthersIdle, Unmoved
  DEF WordInductive, EditInductive, PushEdit, Procs
<1>5. ASSUME NEW u \in Tours \ (raced' \cup outdated')
      PROVE  ChoiceKept(u)' /\ ChoiceTold(u)' /\ ChoiceListed(u)'
  <2>1. /\ ChoiceKept(u) /\ ChoiceTold(u) /\ ChoiceListed(u)
        /\ u \in Tours \ raced /\ u \notin outdated'
    BY <1>3 DEF WordInductive, ChoicesHold
  <2>2. CASE u = t
    <3>1. HeldIn(s, t)
      BY <1>1 DEF WordInductive, EditInductive, PushHolds, PushEdit
    <3>2. Live(t) => snap[s][t].priv = link[t].priv
      BY <2>1, <2>2, <3>1 DEF HeldIn
    <3>3. Live(t) /\ choice[t] # None =>
              link[t].priv = choice[t] /\ choice[t] # Unknown
      BY <1>1, <2>1, <2>2 DEF ChoiceKept, TypeOK, Settable
    <3>4. Live(t) /\ choice[t] # None => komoot'[t].priv = choice[t]
      BY <1>3, <3>2, <3>3 DEF Updated
    <3>5. ASSUME NEW q \in Procs, pc'[q] \in {"list", "refresh"}
          PROVE  snap'[q][t] = None
      <4>1. q # s /\ q \in Backfills \cup Views
        BY <1>2, <1>4, <3>5 DEF Procs
      <4> QED BY <1>2, <1>3, <2>1, <2>2, <3>5, <4>1 DEF Listed
    <3>6. ChoiceKept(t)' /\ ChoiceTold(t)'
      BY <1>3, <2>1, <2>2, <3>4 DEF ChoiceKept, ChoiceTold, Live
    <3>7. ChoiceListed(t)'
      BY <3>5 DEF ChoiceListed
    <3> QED BY <2>2, <3>6, <3>7
  <2>3. CASE u # t
    <3>1. Told(u)' => Told(u)
      BY <1>2, <1>4, <2>3 DEF Told
    <3>2. \A q \in Procs : pc'[q] \in {"list", "refresh"} =>
              pc[q] \in {"list", "refresh"} /\ snap'[q][u] = snap[q][u]
      BY <1>2
    <3> QED BY <1>3, <2>1, <2>3, <3>1, <3>2, ChoiceStays
  <2> QED BY <2>2, <2>3
<1> QED BY <1>5 DEF ChoicesHold

\* The row whose flag is cleared agrees with Komoot already.
LEMMA ClearEditChoice ==
    ASSUME WordInductive, NEW s \in Syncs, ClearEdit(s)
    PROVE  ChoicesHold'
<1>1. PICK t \in Tours : t = cur[s]
  BY ClearsOne DEF WordInductive
<1>2. /\ EditInductive /\ TypeOK /\ s \in Procs
      /\ pc[s] = "clear" /\ pc'[s] = "push"
  BY DEF WordInductive, EditInductive, Inductive, Procs, ClearEdit, Become, TypeOK
<1>3. UNCHANGED <<choice, raced, outdated, komoot>>
  BY DEF ClearEdit, history
<1>4. ASSUME NEW q \in Syncs PROVE pc'[q] # "clear"
  BY <1>2, <1>4, OthersIdle, Unmoved DEF EditInductive, ClearEdit, Procs
<1>5. \A q \in Procs : pc'[q] \in {"list", "refresh"} =>
          pc[q] \in {"list", "refresh"} /\ snap'[q] = snap[q]
  BY <1>2 DEF ClearEdit, Become, TypeOK
<1>6. ASSUME NEW u \in Tours \ (raced' \cup outdated')
      PROVE  ChoiceKept(u)' /\ ChoiceTold(u)' /\ ChoiceListed(u)'
  <2>1. ChoiceKept(u) /\ ChoiceTold(u) /\ ChoiceListed(u) /\ u \in Tours
    BY <1>3 DEF WordInductive, ChoicesHold
  <2>2. ~Told(u)'
    BY <1>4 DEF Told
  <2>3. CASE u # t
    <3>1. link'[u] = link[u]
      BY <1>1, <1>2, <2>1, <2>3, ClearsOne
    <3> QED BY <1>3, <1>5, <2>1, <2>2, <3>1, ChoiceStays
  <2>4. CASE u = t
    <3>1. Told(t)
      BY <1>1, <1>2 DEF Told
    <3>2. Live(t)' <=> Live(t)
      BY <1>2, ClearsOne
    <3>3. Live(t) => link'[t].priv = link[t].priv
      <4>1. Live(t) => link[t] \in Link
        BY <1>2 DEF TypeOK, Live
      <4>2. Live(t) => link'[t] = link[t] \/ link'[t] = Cleared(link[t])
        BY <1>1, <1>2, ClearsOne
      <4>3. \A row \in Link : Cleared(row).priv = row.priv
        BY DEF Cleared, Link
      <4> QED BY <4>1, <4>2, <4>3
    <3>4. ChoiceKept(t)' /\ ChoiceTold(t)'
      BY <1>3, <2>1, <2>4, <3>1, <3>2, <3>3 DEF ChoiceKept, ChoiceTold
    <3>5. ChoiceListed(t)'
      BY <1>3, <1>5, <2>1, <2>4, <3>1, <3>2 DEF ChoiceListed
    <3> QED BY <2>4, <3>4, <3>5
  <2> QED BY <2>3, <2>4
<1> QED BY <1>6 DEF ChoicesHold

\* A forgotten row is nobody's any more.
LEMMA UnlinkChoice ==
    ASSUME WordInductive, NEW s \in Syncs, Unlink(s)
    PROVE  ChoicesHold'
<1>1. /\ TypeOK /\ s \in Procs /\ pc[s] = "unlink" /\ pc'[s] = "delete"
  BY DEF WordInductive, EditInductive, Inductive, Procs, Unlink, Become, TypeOK
<1>2. UNCHANGED <<choice, raced, outdated, komoot>>
  BY DEF Unlink, history
<1>3. ASSUME NEW u \in Tours, Told(u)' PROVE Told(u)
  BY <1>1, <1>3, ToldMove DEF Unlink
<1>4. \A q \in Procs : pc'[q] \in {"list", "refresh"} =>
          pc[q] \in {"list", "refresh"} /\ snap'[q] = snap[q]
  BY <1>1 DEF Unlink, Become, TypeOK
<1>5. ASSUME NEW u \in Tours \ (raced' \cup outdated')
      PROVE  ChoiceKept(u)' /\ ChoiceTold(u)' /\ ChoiceListed(u)'
  <2>1. ChoiceKept(u) /\ ChoiceTold(u) /\ ChoiceListed(u) /\ u \in Tours
    BY <1>2 DEF WordInductive, ChoicesHold
  <2>2. link'[u] \in {link[u], None}
    BY <1>1, <2>1 DEF Unlink, TypeOK
  <2>3. CASE link'[u] = link[u]
    BY <1>2, <1>3, <1>4, <2>1, <2>3, ChoiceStays
  <2>4. CASE link'[u] = None
    BY <2>4 DEF ChoiceKept, ChoiceTold, ChoiceListed, Live
  <2> QED BY <2>2, <2>3, <2>4
<1> QED BY <1>5 DEF ChoicesHold

\* A listing overwrites a row's privacy with the owner's choice, or where
\* there is none.
LEMMA RefreshChoice ==
    ASSUME WordInductive, NEW p \in Procs, Refresh(p)
    PROVE  ChoicesHold'
<1>1. TypeOK /\ pc[p] = "refresh"
  BY DEF WordInductive, EditInductive, Inductive, Refresh
<1>2. UNCHANGED <<choice, raced, outdated, komoot>>
  BY DEF Refresh, history
<1>3. PICK ph, w, t, s : Become(p, ph, w, t, s) /\ ph \in {"idle", "dedup"}
  BY EndBecomes DEF Refresh
<1>4. \A q \in Procs : pc'[q] \in {"list", "refresh"} =>
          pc[q] \in {"list", "refresh"} /\ snap'[q] = snap[q]
  BY <1>1, <1>3 DEF Become, TypeOK
<1>5. ASSUME NEW u \in Tours \ (raced' \cup outdated')
      PROVE  ChoiceKept(u)' /\ ChoiceTold(u)' /\ ChoiceListed(u)'
  <2>1. ChoiceKept(u) /\ ChoiceTold(u) /\ ChoiceListed(u) /\ u \in Tours
    BY <1>2 DEF WordInductive, ChoicesHold
  <2>2. Told(u)' => Told(u)
    BY <1>1, <1>3, ToldMove
  <2>3. CASE snap[p][u] # None /\ Refreshable(u)
    <3>1. link[u] \in Link /\ link'[u] = [link[u] EXCEPT !.priv = snap[p][u].priv]
      BY <1>1, <2>1, <2>3 DEF Refresh, Refreshable, TypeOK
    <3>2. /\ link'[u].trip = link[u].trip /\ link'[u].edit = link[u].edit
          /\ link'[u].priv = snap[p][u].priv /\ link[u] # None
      BY <2>3, <3>1 DEF Link, Refreshable
    <3>3. Live(u)' => Live(u)
      BY <3>2 DEF Live
    <3>4. Live(u) => choice[u] \in {None, snap[p][u].priv}
      BY <1>1, <2>1, <2>3 DEF ChoiceListed, Refreshable
    <3>5. ChoiceKept(u)' /\ ChoiceTold(u)'
      BY <1>2, <2>1, <2>2, <3>2, <3>3, <3>4 DEF ChoiceKept, ChoiceTold
    <3>6. ChoiceListed(u)'
      BY <1>2, <1>4, <2>1, <2>2, <3>2, <3>3 DEF ChoiceListed
    <3> QED BY <3>5, <3>6
  <2>4. CASE ~(snap[p][u] # None /\ Refreshable(u))
    <3>1. link'[u] = link[u]
      BY <2>1, <2>4 DEF Refresh
    <3> QED BY <1>2, <1>4, <2>1, <2>2, <3>1, ChoiceStays
  <2> QED BY <2>3, <2>4
<1> QED BY <1>5 DEF ChoicesHold

\* A new trip starts without a choice of the owner's.
LEMMA InsertChoice ==
    ASSUME WordInductive, NEW p \in Procs, NEW i \in Trips, Insert(p, i)
    PROVE  ChoicesHold'
<1>1. PICK t \in Tours : t = cur[p]
  BY DEF WordInductive, EditInductive, Inductive, Insert, TypeOK, Working, WorkingOf
<1>2. TypeOK
  BY DEF WordInductive, EditInductive, Inductive
<1>3. /\ UNCHANGED <<raced, komoot>> /\ choice'[t] = None
      /\ outdated' = outdated \ {t}
      /\ \A u \in Tours \ {t} : link'[u] = link[u] /\ choice'[u] = choice[u]
  BY <1>1, <1>2 DEF Insert, TypeOK
<1>4. PICK w, s : Become(p, "pull", w, None, s)
  BY DEF Insert
<1>5. ASSUME NEW u \in Tours \ (raced' \cup outdated')
      PROVE  ChoiceKept(u)' /\ ChoiceTold(u)' /\ ChoiceListed(u)'
  <2>1. CASE u = t
    BY <1>3, <2>1 DEF ChoiceKept, ChoiceTold, ChoiceListed
  <2>2. CASE u # t
    <3>1. ChoiceKept(u) /\ ChoiceTold(u) /\ ChoiceListed(u) /\ u \in Tours
      BY <1>3, <2>2 DEF WordInductive, ChoicesHold
    <3>2. ASSUME NEW q \in Procs, pc'[q] \in {"list", "refresh"}
          PROVE  pc[q] \in {"list", "refresh"} /\ snap'[q][u] = snap[q][u]
      <4>1. q # p
        BY <1>2, <1>4, <3>2 DEF Become, TypeOK
      <4> QED BY <1>2, <1>4, <3>2, <4>1, Unmoved
    <3>3. Told(u)' => Told(u)
      BY <1>2, <1>4, ToldMove
    <3> QED BY <1>3, <2>2, <3>1, <3>2, <3>3, ChoiceStays
  <2> QED BY <2>1, <2>2
<1> QED BY <1>5 DEF ChoicesHold

\* A late update is of a raced tour; a late delete drops one.
LEMMA LandChoice ==
    ASSUME WordInductive, NEW s \in Syncs, Land(s)
    PROVE  ChoicesHold'
<1>1. UNCHANGED <<link, choice, raced, outdated, pc, todo, cur, snap>>
  BY DEF Land, db, procs
<1>2. \A u \in Tours \ raced : komoot'[u] \in {komoot[u], None}
  <2>1. late[s].op = "update" => late[s].tour \in raced
    BY DEF Land, WordInductive, EditInductive, Inductive, Working, LateOf
  <2>2. PICK x, new : x = late[s].tour /\ new = Updated(x, late[s].item)
    OBVIOUS
  <2>3. \/ komoot' = komoot
        \/ late[s].op = "update" /\ komoot' = [komoot EXCEPT ![x] = new]
        \/ komoot' = [komoot EXCEPT ![x] = None]
    BY <2>2 DEF Land
  <2> QED BY <2>1, <2>2, <2>3 DEF WordInductive, EditInductive, Inductive, TypeOK
<1>3. ASSUME NEW u \in Tours \ (raced' \cup outdated')
      PROVE  ChoiceKept(u)' /\ ChoiceTold(u)' /\ ChoiceListed(u)'
  BY <1>1, <1>2, <1>3, ChoiceStays DEF WordInductive, ChoicesHold, Told
<1> QED BY <1>3 DEF ChoicesHold

\* Queuing an edit stores the privacy it names, if it names one.
LEMMA QueuedPrivacy == \A row \in Link, c \in Settable \cup {None} :
    Queued(row, c).priv = (IF c = None THEN row.priv ELSE c)
BY DEF Queued, Link, Settable

\* The row takes the owner's choice with the edit.
LEMMA CommitEditChoice ==
    ASSUME WordInductive, NEW r \in Reqs, CommitEdit(r)
    PROVE  ChoicesHold'
<1> DEFINE mine == {u \in Tours : link[u] # None /\ link[u].trip \in req[r].trips}
           c == req[r].priv
<1>1. TypeOK /\ c \in Settable \cup {None}
  BY DEF WordInductive, EditInductive, Inductive, CommitEdit, TypeOK, Edit, Delete
<1>2. /\ link' = [u \in Tours |-> IF u \in mine THEN Queued(link[u], c) ELSE link[u]]
      /\ choice' = [u \in Tours |-> IF u \in mine /\ c # None THEN c ELSE choice[u]]
      /\ raced' = raced \cup {u \in mine : InPush(u)}
      /\ UNCHANGED <<komoot, outdated, pc, todo, cur, snap>>
  BY DEF CommitEdit, procs
<1> HIDE DEF mine, c
<1>3. ASSUME NEW u \in Tours \ (raced' \cup outdated')
      PROVE  ChoiceKept(u)' /\ ChoiceTold(u)' /\ ChoiceListed(u)'
  <2>1. ChoiceKept(u) /\ ChoiceTold(u) /\ ChoiceListed(u) /\ u \in Tours
    BY <1>2 DEF WordInductive, ChoicesHold
  <2>2. CASE u \notin mine
    <3>1. link'[u] = link[u] /\ choice'[u] = choice[u] /\ (Told(u)' <=> Told(u))
      BY <1>2, <2>1, <2>2 DEF Told
    <3> QED BY <1>2, <2>1, <3>1, ChoiceStays
  <2>3. CASE u \in mine
    <3>1. link[u] \in Link
      BY <1>1, <2>3 DEF TypeOK, mine
    <3>2. link'[u] = Queued(link[u], c)
          /\ choice'[u] = (IF c # None THEN c ELSE choice[u])
      BY <1>2, <2>1, <2>3
    <3>3. link'[u].edit /\ link'[u].priv = (IF c = None THEN link[u].priv ELSE c)
          /\ link'[u].trip = link[u].trip /\ link[u] # None
      BY <1>1, <2>3, <3>1, <3>2, QueuedRow, QueuedPrivacy DEF mine
    <3>4. ~Told(u)'
      <4>1. ASSUME NEW s \in Syncs, pc[s] = "clear", cur[s] = u PROVE FALSE
        <5>1. u \in todo[s]
          BY <4>1 DEF WordInductive, EditInductive, Inductive, Working, WorkingOf, Procs
        <5> QED BY <1>2, <1>3, <2>3, <4>1, <5>1 DEF InPush
      <4> QED BY <1>2, <4>1 DEF Told
    <3>5. Live(u)' => Live(u)
      BY <3>3 DEF Live
    <3> QED BY <2>1, <3>2, <3>3, <3>4, <3>5 DEF ChoiceKept, ChoiceTold, ChoiceListed
  <2> QED BY <2>2, <2>3
<1> QED BY <1>3 DEF ChoicesHold

\* A deleted trip's row is nobody's word any more.
LEMMA CommitDeleteChoice ==
    ASSUME WordInductive, NEW r \in Reqs, CommitDelete(r)
    PROVE  ChoicesHold'
<1> DEFINE mine == {u \in Tours : link[u] # None /\ link[u].trip = req[r].trip}
<1>1. TypeOK
  BY DEF WordInductive, EditInductive, Inductive
<1>2. /\ link' = [u \in Tours |-> IF u \in mine THEN Tombstone(link[u]) ELSE link[u]]
      /\ UNCHANGED <<komoot, choice, raced, outdated, pc, todo, cur, snap>>
  BY DEF CommitDelete, procs
<1> HIDE DEF mine
<1>3. ASSUME NEW u \in Tours \ (raced' \cup outdated')
      PROVE  ChoiceKept(u)' /\ ChoiceTold(u)' /\ ChoiceListed(u)'
  <2>1. ChoiceKept(u) /\ ChoiceTold(u) /\ ChoiceListed(u) /\ u \in Tours
    BY <1>2 DEF WordInductive, ChoicesHold
  <2>2. CASE u \notin mine
    BY <1>2, <2>1, <2>2, ChoiceStays DEF Told
  <2>3. CASE u \in mine
    <3>1. link[u] \in Link /\ link'[u] = Tombstone(link[u])
      BY <1>1, <1>2, <2>1, <2>3 DEF TypeOK, mine
    <3>2. ~Live(u)'
      BY <3>1, TombstoneRow DEF Live
    <3> QED BY <3>2 DEF ChoiceKept, ChoiceTold, ChoiceListed
  <2> QED BY <2>2, <2>3
<1> QED BY <1>3 DEF ChoicesHold

\* A privacy changed in Komoot's app supersedes the owner's earlier choice.
LEMMA AppChoice ==
    ASSUME WordInductive, NEW t \in Tours, NEW x \in Content,
           AppEdit(t, x) \/ AppDelete(t)
    PROVE  ChoicesHold'
<1>1. TypeOK /\ UNCHANGED <<link, raced, outdated, pc, todo, cur, snap>>
  BY DEF WordInductive, EditInductive, Inductive, AppEdit, AppDelete, db, procs,
         history
<1>2. ASSUME NEW u \in Tours \ (raced' \cup outdated')
      PROVE  ChoiceKept(u)' /\ ChoiceTold(u)' /\ ChoiceListed(u)'
  <2>1. ChoiceKept(u) /\ ChoiceTold(u) /\ ChoiceListed(u) /\ u \in Tours
    BY <1>1 DEF WordInductive, ChoicesHold
  <2>2. \/ choice'[u] = None
        \/ choice'[u] = choice[u] /\ komoot'[u] \in {komoot[u], None}
        \/ /\ choice'[u] = choice[u] /\ komoot[u] # None
           /\ komoot'[u].priv = komoot[u].priv
    BY <1>1, <2>1 DEF AppEdit, AppDelete, TypeOK, history
  <2>3. ChoiceKept(u)'
    BY <1>1, <2>1, <2>2 DEF ChoiceKept, Live
  <2>4. ChoiceTold(u)'
    BY <1>1, <2>1, <2>2 DEF ChoiceTold, Live, Told
  <2>5. ChoiceListed(u)'
    BY <1>1, <2>1, <2>2 DEF ChoiceListed, Live, Told
  <2> QED BY <2>3, <2>4, <2>5
<1> QED BY <1>2 DEF ChoicesHold

\* Every step keeps the owner's word.
LEMMA StepKeepsWord == WordInductive /\ [Next]_vars => WordInductive'
<1> SUFFICES ASSUME WordInductive, [Next]_vars PROVE ChoicesHold'
  BY StepKeepsEdits DEF WordInductive
<1> USE DEF db, history
<1>1. Procs = Syncs \cup Backfills \cup Views
  BY DEF Procs
<1>2. ASSUME NEW s \in Syncs, SyncStep(s) PROVE ChoicesHold'
  <2>1. CASE StartSync(s) \/ ListEdits(s) \/ ListDeletes(s)
    BY <1>1, <2>1, ChoiceMove DEF StartSync, ListEdits, ListDeletes
  <2>2. ASSUME NEW t \in Tours, PushDelete(s, t) PROVE ChoicesHold'
    <3>1. \A u \in Tours : komoot'[u] \in {komoot[u], None}
      BY <2>2 DEF PushDelete, WordInductive, EditInductive, Inductive, TypeOK
    <3> QED BY <1>1, <2>2, <3>1, ChoiceMove DEF PushDelete
  <2>3. ASSUME NEW t \in Tours, Detach(s, t) PROVE ChoicesHold'
    BY <1>1, <2>3, EndBecomes, ChoiceMove DEF Detach
  <2>4. ASSUME NEW sel \in SUBSET Tours, ListSelected(s, sel) PROVE ChoicesHold'
    BY <1>1, <2>4, ListingChoice DEF ListSelected
  <2> QED BY <1>2, <2>1, <2>2, <2>3, <2>4, ClearEditChoice, UnlinkChoice,
             LandChoice, PushEditChoice DEF SyncStep
<1>3. ASSUME NEW p \in Syncs \cup Backfills, PullStep(p) PROVE ChoicesHold'
  <2>1. p \in Procs
    BY DEF Procs
  <2>2. ASSUME NEW t \in Tours, Fetch(p, t) PROVE ChoicesHold'
    BY <2>1, <2>2, ChoiceMove DEF Fetch
  <2>3. CASE Dedup(p) \/ Finish(p)
    BY <2>1, <2>3, ChoiceMove, EndBecomes DEF Dedup, Finish
  <2> QED BY <1>3, <2>1, <2>2, <2>3, InsertChoice DEF PullStep
<1>4. ASSUME NEW p \in Procs, Refresh(p) \/ Halt(p) PROVE ChoicesHold'
  <2>1. CASE Halt(p)
    BY <2>1, ChoiceMove, EndBecomes DEF Halt
  <2> QED BY <1>4, <2>1, RefreshChoice
<1>5. ASSUME NEW r \in Reqs, ReqStep(r) PROVE ChoicesHold'
  <2>1. CASE DropReq(r) \/ \E q \in Edit \cup Delete : CheckFlag(r, q)
    <3>1. UNCHANGED <<link, choice, raced, outdated, komoot, pc, todo, cur, snap>>
      BY <2>1 DEF DropReq, CheckFlag, procs
    <3> QED BY <3>1 DEF WordInductive, ChoicesHold, ChoiceKept, ChoiceTold,
                        ChoiceListed, Live, Told
  <2> QED BY <1>5, <2>1, CommitEditChoice, CommitDeleteChoice DEF ReqStep
<1>6. ASSUME NEW t \in AppTours, AppStep(t) PROVE ChoicesHold'
  <2>1. t \in Tours /\ (komoot[t] # None => komoot[t] \in Content)
    BY AppAssumption DEF WordInductive, EditInductive, Inductive, TypeOK
  <2> QED BY <1>6, <2>1, AppChoice DEF AppStep, AppDelete
<1>7. CASE UNCHANGED vars
  BY <1>7 DEF vars, WordInductive, ChoicesHold, ChoiceKept, ChoiceTold,
              ChoiceListed, Live, Told
<1>8. ASSUME NEW b \in Backfills, BackfillStep(b) PROVE ChoicesHold'
  <2>1. ASSUME NEW kind \in {"recorded", "planned"}, StartBackfill(b, kind)
        PROVE  ChoicesHold'
    BY <1>1, <2>1, ListingChoice DEF StartBackfill
  <2>2. ASSUME NEW sel \in SUBSET Tours, ListUnlinked(b, sel) PROVE ChoicesHold'
    BY <1>1, <2>2, ChoiceMove DEF ListUnlinked
  <2> QED BY <1>8, <2>1, <2>2 DEF BackfillStep
<1>9. ASSUME NEW v \in Views, StartView(v) PROVE ChoicesHold'
  BY <1>1, <1>9, ListingChoice DEF StartView
<1> QED BY <1>2, <1>3, <1>4, <1>5, <1>6, <1>7, <1>8, <1>9 DEF Next

\* US-20, US-22: an edit and a chosen privacy stay the owner's, however many
\* runs, backfills, review screens and requests there are and wherever the
\* runs stop, unless the edit raced its push or a listing from before the push
\* was still to be applied by a backfill or a review screen.
THEOREM OwnersWordIsKept == Spec => []OwnersWordKept
<1>1. WordInductive => OwnersWordKept
  BY DEF WordInductive, EditInductive, ChoicesHold, ChoicesKept, OwnersWordKept
<1> QED BY <1>1, StepKeepsWord, InitWord, PTL DEF Spec

-----------------------------------------------------------------------------
(* Deleted tours, when no backfill imports beside the runs.                *)

\* At the start nothing is deleted and nothing is to be pulled.
LEMMA InitPull == Init => PullInductive
<1> SUFFICES ASSUME Init PROVE PullHolds /\ NoResurrection
  BY InitInductive DEF PullInductive
<1> QED BY DEF Init, PullHolds, NoResurrection, Procs

\* A process moves, not into a pull, and no row or live trip is new.
LEMMA PullMove ==
    ASSUME PullInductive, NEW p \in Procs, NEW ph, NEW w, NEW t, NEW s,
           Become(p, ph, w, t, s), ph \notin {"pull", "insert"},
           UNCHANGED deleted, \A u \in Tours : link[u] = None => link'[u] = None,
           \A u \in Tours : Live(u)' => Live(u)
    PROVE  PullHolds' /\ NoResurrection'
<1>1. TypeOK
  BY DEF PullInductive, Inductive
<1>2. ASSUME NEW q \in Syncs, pc'[q] \in {"pull", "insert"}
      PROVE  /\ todo'[q] \cap Linked' = {}
             /\ pc'[q] = "insert" => cur'[q] \notin deleted'
  <2>1. q \in Procs /\ q # p
    BY <1>1, <1>2 DEF Procs, Become, TypeOK
  <2>2. pc'[q] = pc[q] /\ todo'[q] = todo[q] /\ cur'[q] = cur[q]
    BY <1>1, <2>1, Unmoved
  <2> QED BY <1>2, <2>2 DEF PullInductive, PullHolds, Linked
<1>3. NoResurrection'
  BY <1>1 DEF PullInductive, NoResurrection, TypeOK
<1> QED BY <1>2, <1>3 DEF PullHolds

\* No process moves, and no row or live trip is new.
LEMMA PullRest ==
    ASSUME PullInductive, UNCHANGED procs, UNCHANGED deleted,
           \A u \in Tours : link[u] = None => link'[u] = None,
           \A u \in Tours : Live(u)' => Live(u)
    PROVE  PullHolds' /\ NoResurrection'
<1>1. PullHolds'
  BY DEF PullInductive, PullHolds, Linked, procs
<1>2. NoResurrection'
  BY DEF PullInductive, Inductive, TypeOK, NoResurrection
<1> QED BY <1>1, <1>2

\* The snapshot of the linked tours leaves out every tombstone.
LEMMA DedupPull ==
    ASSUME PullInductive, NEW p \in Syncs, Dedup(p)
    PROVE  PullHolds' /\ NoResurrection'
<1>1. TypeOK /\ p \in Procs /\ pc[p] = "dedup"
  BY DEF PullInductive, Inductive, Procs, Dedup
<1>2. pc'[p] = "pull" /\ todo'[p] = todo[p] \ Linked
      /\ UNCHANGED <<link, deleted>>
  BY <1>1 DEF Dedup, Become, TypeOK, db, history
<1>3. ASSUME NEW q \in Syncs, q # p PROVE pc'[q] = "idle"
  BY <1>1, <1>3, OthersIdle, Unmoved DEF PullInductive, Dedup, Procs
<1>4. PullHolds'
  BY <1>2, <1>3 DEF PullHolds, Linked
<1>5. NoResurrection'
  BY <1>2 DEF PullInductive, NoResurrection, Live
<1> QED BY <1>4, <1>5

\* A deleted tour without a tombstone is gone from Komoot and not fetched.
LEMMA FetchPull ==
    ASSUME PullInductive, NEW p \in Syncs, NEW t \in Tours, Fetch(p, t)
    PROVE  PullHolds' /\ NoResurrection'
<1>1. TypeOK /\ p \in Procs /\ pc[p] = "pull" /\ t \in todo[p]
  BY DEF PullInductive, Inductive, Procs, Fetch
<1>2. pc'[p] = "insert" /\ todo'[p] = todo[p] /\ cur'[p] = t
      /\ UNCHANGED <<link, deleted>>
  BY <1>1 DEF Fetch, Become, TypeOK, db, history
<1>3. ASSUME NEW q \in Syncs, q # p PROVE pc'[q] = "idle"
  BY <1>1, <1>3, OthersIdle, Unmoved DEF PullInductive, Fetch, Procs
<1>4. todo[p] \cap Linked = {}
  BY <1>1 DEF PullInductive, PullHolds
<1>5. t \notin deleted
  BY <1>1, <1>4
  DEF Fetch, PullInductive, Inductive, Tombstones, DeletePending, Linked
<1>6. PullHolds'
  BY <1>2, <1>3, <1>4, <1>5 DEF PullHolds, Linked
<1>7. NoResurrection'
  BY <1>2 DEF PullInductive, NoResurrection, Live
<1> QED BY <1>6, <1>7

\* The tour that becomes a trip was not deleted.
LEMMA InsertPull ==
    ASSUME PullInductive, NEW p \in Syncs, NEW i \in Trips, Insert(p, i)
    PROVE  PullHolds' /\ NoResurrection'
<1>1. PICK t \in Tours : t = cur[p]
  BY DEF PullInductive, Inductive, Insert, TypeOK, Working, WorkingOf, Procs
<1>2. TypeOK /\ p \in Procs /\ pc[p] = "insert" /\ t \notin deleted
  BY <1>1 DEF PullInductive, Inductive, Procs, Insert, PullHolds
<1>3. /\ pc'[p] = "pull" /\ todo'[p] = todo[p] \ {t} /\ deleted' = deleted
      /\ \A u \in Tours \ {t} : link'[u] = link[u]
  BY <1>1, <1>2 DEF Insert, Become, TypeOK
<1>4. ASSUME NEW q \in Syncs, q # p PROVE pc'[q] = "idle"
  BY <1>2, <1>4, OthersIdle, Unmoved DEF PullInductive, Insert, Procs
<1>5. todo[p] \cap Linked = {}
  BY <1>2 DEF PullInductive, PullHolds
<1>6. PullHolds'
  <2>1. todo'[p] \cap Linked' = {}
    BY <1>3, <1>5 DEF Linked
  <2> QED BY <1>3, <1>4, <2>1 DEF PullHolds
<1>7. NoResurrection'
  <2>1. \A u \in deleted : link'[u] = link[u]
    BY <1>2, <1>3 DEF TypeOK
  <2> QED BY <1>3, <2>1 DEF PullInductive, NoResurrection, Live
<1> QED BY <1>6, <1>7

\* A deletion marks the row of its trip and no other, which no pull works on.
LEMMA DeletesOne ==
    ASSUME Inductive, NEW r \in Reqs, CommitDelete(r)
    PROVE  \E t \in Tours : /\ Live(t) /\ deleted' = deleted \cup {t}
                            /\ Orphaned(t)'
                            /\ \A u \in Tours \ {t} : link'[u] = link[u]
<1>1. PICK i : i = req[r].trip
  OBVIOUS
<1>2. i \in Trips /\ trip[i] # None
  BY <1>1 DEF CommitDelete, Inductive, TypeOK, Edit, Delete
<1>3. PICK t \in Tours : t = origin[i] /\ link[t] \in Link /\ link[t].trip = i
  BY <1>2 DEF Inductive, TypeOK, LinkConsistent
<1>4. \A u \in Tours : link[u] # None /\ link[u].trip = i <=> u = t
  BY <1>2, <1>3, NoneOutside DEF Inductive, LinkConsistent
<1>5. /\ deleted' = deleted \cup {t}
      /\ link' = [u \in Tours |-> IF link[u] # None /\ link[u].trip = i
                                  THEN Tombstone(link[u]) ELSE link[u]]
  BY <1>1, <1>3 DEF CommitDelete
<1>6. Live(t) /\ link'[t] = Tombstone(link[t])
  BY <1>2, <1>3, <1>4, <1>5, NoneOutside DEF Live
<1>7. Orphaned(t)'
  BY <1>3, <1>6, TombstoneRow, NoneOutside DEF Orphaned
<1>8. \A u \in Tours \ {t} : link'[u] = link[u]
  BY <1>4, <1>5
<1> QED BY <1>5, <1>6, <1>7, <1>8

\* So a deletion brings nothing back.
LEMMA CommitDeletePull ==
    ASSUME PullInductive, NEW r \in Reqs, CommitDelete(r)
    PROVE  PullHolds' /\ NoResurrection'
<1>1. PICK t \in Tours : /\ Live(t) /\ deleted' = deleted \cup {t}
                         /\ Orphaned(t)'
                         /\ \A u \in Tours \ {t} : link'[u] = link[u]
  BY DeletesOne DEF PullInductive
<1>2. UNCHANGED <<pc, todo, cur>> /\ link[t] # None
  BY <1>1 DEF CommitDelete, procs, Live
<1>3. ASSUME NEW q \in Syncs, pc'[q] \in {"pull", "insert"}
      PROVE  /\ todo'[q] \cap Linked' = {}
             /\ pc'[q] = "insert" => cur'[q] \notin deleted'
  <2>1. todo[q] \cap Linked = {} /\ t \in Linked
    BY <1>2, <1>3 DEF PullInductive, PullHolds, Linked
  <2>2. pc[q] = "insert" => cur[q] \in todo[q] /\ cur[q] \notin deleted
    BY DEF PullInductive, PullHolds, Inductive, Working, WorkingOf, Procs
  <2> QED BY <1>1, <1>2, <1>3, <2>1, <2>2 DEF Linked
<1>4. NoResurrection'
  <2>1. ASSUME NEW u \in deleted' PROVE ~Live(u)'
    <3>1. CASE u = t
      BY <1>1, <3>1 DEF Orphaned, Live
    <3>2. CASE u # t
      BY <1>1, <2>1, <3>2
      DEF PullInductive, Inductive, TypeOK, NoResurrection, Live
    <3> QED BY <3>1, <3>2
  <2> QED BY <2>1 DEF NoResurrection
<1> QED BY <1>3, <1>4 DEF PullHolds

\* Clearing a flag, storing a listing's privacies and editing trips leave every
\* row where it is, with its trip or without.
SameRows == \A u \in Tours :
    (link'[u] = None <=> link[u] = None) /\ (Live(u)' <=> Live(u))

LEMMA ClearEditRows ==
    ASSUME Inductive, NEW s \in Syncs, ClearEdit(s)
    PROVE  SameRows
BY ClearedRow, NoneOutside DEF SameRows, ClearEdit, Live, Inductive, TypeOK

\* As said of SameRows, for a refresh.
LEMMA RefreshRows ==
    ASSUME Inductive, NEW p \in Procs, Refresh(p)
    PROVE  SameRows
<1>1. \A u \in Tours : snap[p][u] # None => snap[p][u].priv \in Statuses
  BY DEF Inductive, TypeOK, Item
<1> QED BY <1>1, RefreshedRow, NoneOutside
        DEF SameRows, Refresh, Refreshable, Live, Inductive, TypeOK

\* As said of SameRows, for an edit.
LEMMA CommitEditRows ==
    ASSUME Inductive, NEW r \in Reqs, CommitEdit(r)
    PROVE  SameRows
<1>1. req[r].priv \in Settable \cup {None}
  BY DEF CommitEdit, Inductive, TypeOK, Edit, Delete
<1> QED BY <1>1, QueuedRow, NoneOutside
        DEF SameRows, CommitEdit, Live, Inductive, TypeOK

\* Without a backfill no step brings a deleted tour back.
LEMMA StepKeepsPull ==
    ASSUME Backfills = {}
    PROVE  PullInductive /\ [Next]_vars => PullInductive'
<1> SUFFICES ASSUME PullInductive, [Next]_vars PROVE PullHolds' /\ NoResurrection'
  BY StepKeeps DEF PullInductive
<1> USE DEF db, history
<1>0. Inductive
  BY DEF PullInductive
<1>1. ASSUME NEW s \in Syncs, SyncStep(s) PROVE PullHolds' /\ NoResurrection'
  <2>1. s \in Procs
    BY DEF Procs
  <2>2. CASE StartSync(s) \/ ListEdits(s) \/ ListDeletes(s)
    BY <2>1, <2>2, PullMove DEF StartSync, ListEdits, ListDeletes, Live
  <2>3. CASE ClearEdit(s) \/ Unlink(s)
    <3>1. CASE ClearEdit(s)
      BY <1>0, <2>1, <3>1, ClearEditRows, PullMove DEF ClearEdit, SameRows
    <3>2. CASE Unlink(s)
      <4>1. \A u \in Tours : link'[u] \in {link[u], None}
        BY <1>0, <3>2 DEF Unlink, Inductive, TypeOK
      <4> QED BY <2>1, <3>2, <4>1, PullMove DEF Unlink, Live
    <3> QED BY <2>3, <3>1, <3>2
  <2>4. CASE Land(s)
    BY <2>4, PullRest DEF Land, Live
  <2>5. ASSUME NEW t \in Tours, PushEdit(s, t) \/ PushDelete(s, t) \/ Detach(s, t)
        PROVE  PullHolds' /\ NoResurrection'
    BY <2>1, <2>5, EndBecomes, PullMove DEF PushEdit, PushDelete, Detach, Live
  <2>6. ASSUME NEW sel \in SUBSET Tours, ListSelected(s, sel)
        PROVE  PullHolds' /\ NoResurrection'
    BY <2>1, <2>6, PullMove DEF ListSelected, Live
  <2> QED BY <1>1, <2>2, <2>3, <2>4, <2>5, <2>6 DEF SyncStep
<1>2. ASSUME NEW p \in Syncs, PullStep(p) PROVE PullHolds' /\ NoResurrection'
  <2>1. CASE Finish(p)
    BY <2>1, EndBecomes, PullMove DEF Finish, Procs, Live
  <2> QED BY <1>2, <2>1, DedupPull, FetchPull, InsertPull DEF PullStep
<1>3. ASSUME NEW v \in Views, StartView(v) PROVE PullHolds' /\ NoResurrection'
  BY <1>3, PullMove DEF StartView, Procs, Live
<1>4. ASSUME NEW p \in Procs, Refresh(p) \/ Halt(p)
      PROVE  PullHolds' /\ NoResurrection'
  <2>1. CASE Halt(p)
    BY <2>1, EndBecomes, PullMove DEF Halt, Live
  <2>2. CASE Refresh(p)
    <3>1. SameRows
      BY <1>0, <2>2, RefreshRows
    <3>2. PICK ph, w, s : ph \in {"idle", "dedup"} /\ Become(p, ph, w, None, s)
      BY <2>2, EndBecomes DEF Refresh
    <3> QED BY <2>2, <3>1, <3>2, PullMove DEF Refresh, SameRows
  <2> QED BY <1>4, <2>1, <2>2
<1>5. ASSUME NEW r \in Reqs, ReqStep(r) PROVE PullHolds' /\ NoResurrection'
  <2>1. CASE DropReq(r) \/ \E q \in Edit \cup Delete : CheckFlag(r, q)
    BY <2>1, PullRest DEF DropReq, CheckFlag, Live
  <2>2. CASE CommitEdit(r)
    <3>1. SameRows
      BY <1>0, <2>2, CommitEditRows
    <3> QED BY <2>2, <3>1, PullRest DEF CommitEdit, SameRows
  <2> QED BY <1>5, <2>1, <2>2, CommitDeletePull DEF ReqStep
<1>6. ASSUME NEW t \in AppTours, AppStep(t) PROVE PullHolds' /\ NoResurrection'
  BY <1>6, PullRest DEF AppStep, AppEdit, AppDelete, Live
<1>7. CASE UNCHANGED vars
  BY <1>7, PullRest DEF vars, procs, Live
<1> QED BY <1>1, <1>2, <1>3, <1>4, <1>5, <1>6, <1>7 DEF Next, BackfillStep

\* ADR-0021: a tour whose trip the owner deleted never becomes a trip again,
\* wherever runs, deletions and late calls interleave, as long as no
\* komoot_backfill imports beside them.
THEOREM DeletedStaysDeleted ==
    ASSUME Backfills = {}
    PROVE  Spec => []NoResurrection
<1>1. PullInductive /\ [Next]_vars => PullInductive'
  BY StepKeepsPull
<1>2. PullInductive => NoResurrection
  BY DEF PullInductive
<1> QED BY <1>1, <1>2, InitPull, PTL DEF Spec

-----------------------------------------------------------------------------
(* The refinement: each step is a step of TourLifecycle or a stutter.      *)

\* A tour whose row and deletion stay as they are stays where it is in life.
LEMMA LifeStays ==
    ASSUME NEW t \in Tours, link'[t] = None <=> link[t] = None,
           Live(t)' <=> Live(t), t \in deleted' <=> t \in deleted
    PROVE  Life(t)' = Life(t)
BY DEF Life, Live, Orphaned

\* So while all rows stay, nothing happens in any tour's life.
LEMMA LivesStay ==
    ASSUME SameRows, UNCHANGED deleted
    PROVE  [t \in Tours |-> Life(t)]' = [t \in Tours |-> Life(t)]
<1>1. \A t \in Tours : Life(t)' = Life(t)
  BY LifeStays DEF SameRows
<1> QED BY <1>1

\* An action of TourLifecycle from one stage of life to the next.
LEMMA LifeAdvances ==
    ASSUME NEW t \in Tours, \A u \in Tours \ {t} : Life(u)' = Life(u)
    PROVE  [u \in Tours |-> Life(u)]' = [[u \in Tours |-> Life(u)] EXCEPT ![t] = Life(t)']
OBVIOUS

\* The tours that Komoot holds.
Held == {t \in Tours : komoot[t] # None}

\* Komoot takes updates of tours it holds, and no update drops one.
LEMMA UpdateKeepsHeld ==
    ASSUME TypeOK, NEW t \in Tours, komoot[t] # None, NEW it \in Item,
           komoot' = [komoot EXCEPT ![t] = Updated(t, it)]
    PROVE  Held' = Held
<1>1. Updated(t, it) # None
  BY NoneOutside DEF TypeOK, Updated, Item, Content
<1> QED BY <1>1 DEF Held, TypeOK

\* A tour that Komoot drops is lost, if it was held still.
LEMMA DropLoses ==
    ASSUME TypeOK, NEW t \in Tours, komoot' = [komoot EXCEPT ![t] = None],
           [u \in Tours |-> Life(u)]' = [u \in Tours |-> Life(u)]
    PROVE  [Lifecycle!Next]_Lifecycle!lvars
<1>1. Held' = Held \ {t}
  BY DEF Held, TypeOK
<1>2. CASE t \in Held
  BY <1>1, <1>2 DEF Lifecycle!Next, Lifecycle!Lose, Held
<1>3. CASE t \notin Held
  BY <1>1, <1>3 DEF Lifecycle!lvars, Held
<1> QED BY <1>2, <1>3

\* Nothing happens in any tour's life and Komoot holds what it held.
LEMMA Stutters ==
    ASSUME SameRows, UNCHANGED deleted, Held' = Held
    PROVE  [Lifecycle!Next]_Lifecycle!lvars
BY LivesStay DEF Lifecycle!lvars, Held

\* The same, when the table and Komoot are not touched at all.
LEMMA StuttersStill ==
    ASSUME UNCHANGED <<link, deleted, komoot>>
    PROVE  [Lifecycle!Next]_Lifecycle!lvars
BY Stutters DEF SameRows, Live, Held

\* An import starts the life of a tour that was never a trip.
LEMMA InsertAdvances ==
    ASSUME PullInductive, NEW p \in Syncs, NEW i \in Trips, Insert(p, i)
    PROVE  Lifecycle!Next
<1>1. PICK t \in Tours : t = cur[p] /\ snap[p][t] \in Item
  BY DEF PullInductive, Inductive, Insert, TypeOK, Working, WorkingOf, Procs
<1>2. TypeOK /\ link[t] = None /\ t \notin deleted
  BY <1>1 DEF PullInductive, Inductive, Insert, Insertable, PullHolds
<1>3. /\ UNCHANGED <<deleted, komoot>> /\ link'[t] = NewLink(i, snap[p][t].priv)
      /\ \A u \in Tours \ {t} : link'[u] = link[u]
  BY <1>1, <1>2 DEF Insert, TypeOK
<1>4. Live(t)'
  <2>1. snap[p][t].priv \in Statuses
    BY <1>1 DEF Item
  <2> QED BY <1>3, <2>1, NewLinkRow, NoneOutside DEF Live
<1>5. Life(t) = "absent" /\ Life(t)' = "kept"
  BY <1>2, <1>4 DEF Life, Live, Orphaned
<1>6. \A u \in Tours \ {t} : Life(u)' = Life(u)
  BY <1>3, LifeStays DEF Live
<1>7. [u \in Tours |-> Life(u)]' = [[u \in Tours |-> Life(u)] EXCEPT ![t] = "kept"]
  BY <1>5, <1>6, LifeAdvances
<1>8. Lifecycle!Import(t)
  BY <1>3, <1>5, <1>7 DEF Lifecycle!Import, Lifecycle!Advance
<1> QED BY <1>8 DEF Lifecycle!Next

\* Deleting the trip condemns its tour.
LEMMA CommitDeleteAdvances ==
    ASSUME Inductive, NEW r \in Reqs, CommitDelete(r)
    PROVE  Lifecycle!Next
<1>1. PICK t \in Tours : /\ Live(t) /\ deleted' = deleted \cup {t}
                         /\ Orphaned(t)'
                         /\ \A u \in Tours \ {t} : link'[u] = link[u]
  BY DeletesOne
<1>2. komoot' = komoot
  BY DEF CommitDelete
<1>3. Life(t) = "kept" /\ Life(t)' = "condemned"
  BY <1>1 DEF Life, Live, Orphaned
<1>4. \A u \in Tours \ {t} : Life(u)' = Life(u)
  BY <1>1, LifeStays DEF Live
<1>5. [u \in Tours |-> Life(u)]'
      = [[u \in Tours |-> Life(u)] EXCEPT ![t] = "condemned"]
  BY <1>3, <1>4, LifeAdvances
<1>6. Lifecycle!Condemn(t)
  BY <1>2, <1>3, <1>5 DEF Lifecycle!Condemn, Lifecycle!Advance
<1> QED BY <1>6 DEF Lifecycle!Next

\* A run forgets a condemned tour that Komoot does not hold.
LEMMA UnlinkAdvances ==
    ASSUME Inductive, NEW s \in Syncs, Unlink(s)
    PROVE  Lifecycle!Next
<1>1. PICK t \in Tours : t = cur[s] /\ DeletePending(t) /\ komoot[t] = None
  BY DEF Unlink, Inductive, TypeOK, Working, WorkingOf, Procs
<1>2. TypeOK /\ t \in deleted /\ ~Live(t)
  BY <1>1, PendingIsDeleted DEF Inductive
<1>3. /\ UNCHANGED <<deleted, komoot>> /\ link'[t] = None
      /\ \A u \in Tours \ {t} : link'[u] = link[u]
  BY <1>1, <1>2 DEF Unlink, TypeOK, history
<1>4. Life(t) = "condemned" /\ Life(t)' = "gone"
  BY <1>1, <1>2, <1>3 DEF Life, Live, Orphaned, DeletePending
<1>5. \A u \in Tours \ {t} : Life(u)' = Life(u)
  BY <1>3, LifeStays DEF Live
<1>6. [u \in Tours |-> Life(u)]' = [[u \in Tours |-> Life(u)] EXCEPT ![t] = "gone"]
  BY <1>4, <1>5, LifeAdvances
<1>7. Lifecycle!Forget(t)
  BY <1>1, <1>3, <1>4, <1>6 DEF Lifecycle!Forget, Lifecycle!Advance
<1> QED BY <1>7 DEF Lifecycle!Next

\* A late update changes what Komoot holds of a tour, a late delete loses it.
LEMMA LandAdvances ==
    ASSUME Inductive, NEW s \in Syncs, Land(s)
    PROVE  [Lifecycle!Next]_Lifecycle!lvars
<1>1. PICK t \in Tours : t = late[s].tour
  BY DEF Land, Inductive, TypeOK, Call
<1>2. SameRows /\ UNCHANGED deleted /\ TypeOK
  BY DEF Land, Inductive, SameRows, Live, db
<1>3. CASE komoot' = komoot
  BY <1>2, <1>3, Stutters DEF Held
<1>4. CASE komoot' = [komoot EXCEPT ![t] = None]
  BY <1>2, <1>4, LivesStay, DropLoses
<1>5. CASE /\ late[s].op = "update" /\ komoot[t] # None
           /\ komoot' = [komoot EXCEPT ![t] = Updated(t, late[s].item)]
  <2>1. late[s].item \in Item
    BY <1>5 DEF Land, Inductive, Working, LateOf
  <2> QED BY <1>2, <1>5, <2>1, UpdateKeepsHeld, Stutters
<1> QED BY <1>1, <1>3, <1>4, <1>5 DEF Land

\* Every step of the archive is a step of TourLifecycle or leaves it alone.
LEMMA StepAdvances ==
    ASSUME Backfills = {}, PullInductive, [Next]_vars
    PROVE  [Lifecycle!Next]_Lifecycle!lvars
<1> USE DEF db, history
<1>0. Inductive /\ TypeOK
  BY DEF PullInductive, Inductive
<1> DEFINE Goal == [Lifecycle!Next]_Lifecycle!lvars
<1>1. ASSUME NEW s \in Syncs, SyncStep(s) PROVE Goal
  <2>1. s \in Procs
    BY DEF Procs
  <2>2. CASE StartSync(s) \/ ListEdits(s) \/ ListDeletes(s)
    BY <2>2, StuttersStill DEF StartSync, ListEdits, ListDeletes
  <2>3. CASE ClearEdit(s)
    BY <1>0, <2>3, ClearEditRows, Stutters DEF ClearEdit, Held
  <2>4. CASE Unlink(s)
    BY <1>0, <2>4, UnlinkAdvances
  <2>5. CASE Land(s)
    BY <1>0, <2>5, LandAdvances
  <2>6. ASSUME NEW t \in Tours, PushEdit(s, t) PROVE Goal
    <3>1. snap[s][t] \in Item
      BY <1>0, <2>1, <2>6 DEF PushEdit, Inductive, Working, WorkingOf
    <3>2. Held' = Held
      BY <1>0, <2>6, <3>1, UpdateKeepsHeld DEF PushEdit
    <3> QED BY <2>6, <3>2, Stutters DEF PushEdit, SameRows, Live
  <2>7. ASSUME NEW t \in Tours, PushDelete(s, t) PROVE Goal
    <3>1. SameRows /\ UNCHANGED deleted /\ komoot' = [komoot EXCEPT ![t] = None]
      BY <2>7 DEF PushDelete, SameRows, Live
    <3> QED BY <1>0, <3>1, LivesStay, DropLoses
  <2>8. ASSUME NEW t \in Tours, Detach(s, t) PROVE Goal
    BY <2>8, StuttersStill DEF Detach
  <2>9. ASSUME NEW sel \in SUBSET Tours, ListSelected(s, sel) PROVE Goal
    BY <2>9, StuttersStill DEF ListSelected
  <2> QED BY <1>1, <2>2, <2>3, <2>4, <2>5, <2>6, <2>7, <2>8, <2>9 DEF SyncStep
<1>2. ASSUME NEW p \in Syncs, PullStep(p) PROVE Goal
  <2>1. ASSUME NEW t \in Tours, Fetch(p, t) PROVE Goal
    BY <2>1, StuttersStill DEF Fetch
  <2>2. CASE Dedup(p) \/ Finish(p)
    BY <2>2, StuttersStill DEF Dedup, Finish
  <2> QED BY <1>2, <2>1, <2>2, InsertAdvances DEF PullStep
<1>3. ASSUME NEW p \in Procs, StartView(p) \/ Halt(p) PROVE Goal
  BY <1>3, StuttersStill DEF StartView, Halt
<1>4. ASSUME NEW p \in Procs, Refresh(p) PROVE Goal
  BY <1>0, <1>4, RefreshRows, Stutters DEF Refresh, Held
<1>5. ASSUME NEW r \in Reqs, ReqStep(r) PROVE Goal
  <2>1. CASE DropReq(r) \/ \E q \in Edit \cup Delete : CheckFlag(r, q)
    BY <2>1, StuttersStill DEF DropReq, CheckFlag
  <2>2. CASE CommitEdit(r)
    BY <1>0, <2>2, CommitEditRows, Stutters DEF CommitEdit, Held
  <2> QED BY <1>0, <1>5, <2>1, <2>2, CommitDeleteAdvances DEF ReqStep
<1>6. ASSUME NEW t \in AppTours, AppStep(t) PROVE Goal
  <2>1. t \in Tours
    BY AppAssumption
  <2>2. ASSUME NEW c \in Content, AppEdit(t, c) PROVE Goal
    <3>1. Held' = Held
      BY <1>0, <2>1, <2>2, NoneOutside DEF AppEdit, Held, TypeOK
    <3> QED BY <2>2, <3>1, Stutters DEF AppEdit, SameRows, Live
  <2>3. CASE AppDelete(t)
    <3>1. SameRows /\ UNCHANGED deleted /\ komoot' = [komoot EXCEPT ![t] = None]
      BY <2>3 DEF AppDelete, SameRows, Live
    <3> QED BY <1>0, <2>1, <3>1, LivesStay, DropLoses
  <2> QED BY <1>6, <2>2, <2>3 DEF AppStep
<1>7. CASE UNCHANGED vars
  BY <1>7, StuttersStill DEF vars
<1> QED BY <1>1, <1>2, <1>3, <1>4, <1>5, <1>6, <1>7
        DEF Next, BackfillStep, Procs

\* The archive implements TourLifecycle: each tour becomes a trip at most once,
\* is condemned by its trip's deletion and forgotten only when Komoot does not
\* hold it any more, as long as no komoot_backfill imports beside the runs.
THEOREM ArchiveKeepsLifecycle ==
    ASSUME Backfills = {}
    PROVE  Spec => KeepsLifecycle
<1>1. Init => Lifecycle!Init
  BY DEF Init, Lifecycle!Init, Life, Live, Orphaned, Empty
<1>2. PullInductive /\ [Next]_vars => [Lifecycle!Next]_Lifecycle!lvars
  BY StepAdvances
<1>3. PullInductive /\ [Next]_vars => PullInductive'
  BY StepKeepsPull
<1> QED BY <1>1, <1>2, <1>3, InitPull, PTL
        DEF Spec, KeepsLifecycle, Lifecycle!Spec
=============================================================================
