----------------------------- MODULE Collections -----------------------------
(***************************************************************************)
(* Collections of tracks and waypoints, and the two-phase import that adds *)
(* files to them (US-86, US-88, ADR-0029): an upload is parked, the owner  *)
(* reviews what matching proposes against what the collection holds, and   *)
(* the confirmation is worked out before the write lock is taken and       *)
(* applied under it - against a collection that other requests change in   *)
(* the meantime.                                                           *)
(*                                                                         *)
(* An upload is one file with one item.  "line" stands for everything of   *)
(* an item that the digest reads: name, description and geometry.          *)
(***************************************************************************)
EXTENDS Naturals, FiniteSets

CONSTANTS
    Reqs,       \* concurrent requests
    MaxColl,    \* bound on the collection ids handed out
    MaxItem,    \* bound on the ids handed out, per kind of item
    MaxUpload,  \* bound on the uploads parked
    Lines,      \* contents of items
    New,        \* a collection, or an item, yet to be made
    Skip,       \* the decision to leave a file's item out
    None

Kinds == {"track", "waypoint"}
Colls == 1 .. MaxColl
Items == UNION {{k} \X (1 .. MaxItem[k]) : k \in Kinds}
Uploads == 1 .. MaxUpload
Item == [coll : Colls, line : Lines]
Upload == [coll : Colls \cup {New}, kind : Kinds, line : Lines]
Contents == UNION {[S -> Lines] : S \in SUBSET Items}
Confirmation ==
    [step : {"reviewed", "matched"}, upload : Uploads, digest : Contents,
     shown : Contents, into : Items \cup {New, Skip}, drop : SUBSET Items]

ASSUME BoundsAssumption ==
    MaxColl \in Nat /\ MaxUpload \in Nat /\ MaxItem \in [Kinds -> Nat]
ASSUME ValuesAssumption ==
    /\ New \notin Colls \cup Items
    /\ Skip \notin Items \cup {New}
    /\ None \notin Item \cup Upload \cup Lines

VARIABLES
    colls,       \* collection table
    lastColl,    \* sqlite_sequence of collection
    items,       \* collection_track and waypoint tables, else None
    lastItem,    \* their sqlite_sequence
    staged,      \* collection_import_staging and its files, else None
    lastUpload,  \* its sqlite_sequence
    imp,         \* per request: the confirmation under way, else None
    used         \* history: how often each upload was applied

vars ==
    <<colls, lastColl, items, lastItem, staged, lastUpload, imp, used>>

Init ==
    /\ colls = {}
    /\ lastColl = 0
    /\ items = [i \in Items |-> None]
    /\ lastItem = [k \in Kinds |-> 0]
    /\ staged = [u \in Uploads |-> None]
    /\ lastUpload = 0
    /\ imp = [r \in Reqs |-> None]
    /\ used = [u \in Uploads |-> 0]

ItemsOf(c) == {i \in Items : items[i] # None /\ items[i].coll = c}
Held(c) == [i \in ItemsOf(c) |-> items[i].line]
\* Mutant: the digest covers ids only.
DigestOfIds(c) == ItemsOf(c)
\* The fingerprint of what matching reads of a collection.
Digest(c) == Held(c)
\* Mutant: ids are handed out without AUTOINCREMENT.
ReusedItem(k) == <<k, 1 + Cardinality({i \in Items : i[1] = k /\ items[i] # None})>>
NextItem(k) == <<k, lastItem[k] + 1>>

-----------------------------------------------------------------------------
(* A collection made from one file at once, and the ways items change      *)
(* outside the import.                                                     *)

Create(k, l) ==
    /\ lastColl < MaxColl
    /\ lastItem[k] < MaxItem[k]
    /\ lastColl' = lastColl + 1
    /\ colls' = colls \cup {lastColl'}
    /\ items' = [items EXCEPT ![NextItem(k)] = [coll |-> lastColl', line |-> l]]
    /\ lastItem' = [lastItem EXCEPT ![k] = @ + 1]
    /\ UNCHANGED <<staged, lastUpload, imp, used>>

DeleteItem(i) ==
    /\ items[i] # None
    /\ items' = [items EXCEPT ![i] = None]
    /\ UNCHANGED <<colls, lastColl, lastItem, staged, lastUpload, imp, used>>

\* The uploads that do not wait for collection c (ON DELETE CASCADE).
UploadsWithout(c) == [u \in Uploads |->
    IF staged[u] # None /\ staged[u].coll = c THEN None ELSE staged[u]]

\* Takes its items, and what was waiting to be added to it, with it.
DeleteColl(c) ==
    /\ c \in colls
    /\ colls' = colls \ {c}
    /\ items' = [i \in Items |-> IF i \in ItemsOf(c) THEN None ELSE items[i]]
    /\ staged' = UploadsWithout(c)
    /\ UNCHANGED <<lastColl, lastItem, lastUpload, imp, used>>

\* An edit by hand: a waypoint's name, description or position, a track's
\* name.  Its id stays.
EditItem(i, l) ==
    /\ items[i] # None
    /\ items[i].line # l
    /\ items' = [items EXCEPT ![i].line = l]
    /\ UNCHANGED <<colls, lastColl, lastItem, staged, lastUpload, imp, used>>

-----------------------------------------------------------------------------
(* The import: park, review, confirm.                                      *)

Park(c, k, l) ==
    /\ c \in colls \cup {New}
    /\ lastUpload < MaxUpload
    /\ lastUpload' = lastUpload + 1
    /\ staged' = [staged EXCEPT ![lastUpload'] =
                      [coll |-> c, kind |-> k, line |-> l]]
    /\ UNCHANGED <<colls, lastColl, items, lastItem, imp, used>>

\* Cancelled by the owner, or swept after its time.
Drop(u) ==
    /\ staged[u] # None
    /\ staged' = [staged EXCEPT ![u] = None]
    /\ UNCHANGED <<colls, lastColl, items, lastItem, lastUpload, imp, used>>

\* The owner reads the review they will confirm; its digest comes back with
\* the confirmation.  shown is history: what the review was worked out from.
Review(r, u) ==
    /\ imp[r] = None
    /\ staged[u] # None
    /\ imp' = [imp EXCEPT ![r] =
           [step |-> "reviewed", upload |-> u, digest |-> Digest(staged[u].coll),
            shown |-> Held(staged[u].coll), into |-> Skip, drop |-> {}]]
    /\ UNCHANGED <<colls, lastColl, items, lastItem, staged, lastUpload, used>>

\* Still parked, and its collection still what the owner reviewed.
AsReviewed(r) ==
    LET s == staged[imp[r].upload] IN
    s # None /\ Digest(s.coll) = imp[r].digest

\* What matching and the owner's decisions can come to: the file's item left
\* out, added, or put in place of a held one; and held items taken out.
Outcomes(u) ==
    LET s == staged[u]
        held == ItemsOf(s.coll)
        places == {i \in held : i[1] = s.kind} \cup {New}
    IN  {o \in [into : places \cup {Skip}, drop : SUBSET held] :
            /\ o.into \notin o.drop
            /\ s.coll = New => o.into = New}

Prepare(r) ==
    /\ imp[r] # None
    /\ imp[r].step = "reviewed"
    /\ AsReviewed(r)
    /\ \E o \in Outcomes(imp[r].upload) :
           imp' = [imp EXCEPT ![r].step = "matched", ![r].into = o.into,
                              ![r].drop = o.drop]
    /\ UNCHANGED <<colls, lastColl, items, lastItem, staged, lastUpload, used>>

Target(r) == LET s == staged[imp[r].upload] IN
             IF s.coll = New THEN lastColl + 1 ELSE s.coll
\* The items a confirmation inserts or updates.
Changed(r) ==
    CASE imp[r].into = Skip -> {}
      [] imp[r].into = New  -> {NextItem(staged[imp[r].upload].kind)}
      [] OTHER              -> {imp[r].into}

\* Mutant: it is read and left.
NotTaken(u) == staged
\* Taking the upload is part of the transaction that applies it.
Taken(u) == [staged EXCEPT ![u] = None]

Store(r) ==
    LET u == imp[r].upload
        s == staged[u]
        c == Target(r)
    IN  /\ imp[r] # None
        /\ imp[r].step = "matched"
        /\ AsReviewed(r)
        /\ c \in Colls
        /\ Changed(r) \subseteq Items
        /\ staged' = Taken(u)
        /\ colls' = colls \cup {c}
        /\ lastColl' = IF s.coll = New THEN c ELSE lastColl
        /\ items' = [i \in Items |->
               IF i \in Changed(r) THEN [coll |-> c, line |-> s.line]
               ELSE IF i \in imp[r].drop THEN None ELSE items[i]]
        /\ lastItem' = [k \in Kinds |->
               IF imp[r].into = New /\ k = s.kind THEN lastItem[k] + 1
               ELSE lastItem[k]]
        /\ imp' = [imp EXCEPT ![r] = None]
        /\ used' = [used EXCEPT ![u] = @ + 1]
        /\ UNCHANGED lastUpload

\* A confirmation refused - spent upload, changed collection, taken name -
\* or given up before it commits, or a review the owner leaves.
Leave(r) ==
    /\ imp[r] # None
    /\ imp' = [imp EXCEPT ![r] = None]
    /\ UNCHANGED <<colls, lastColl, items, lastItem, staged, lastUpload, used>>

-----------------------------------------------------------------------------
Next ==
    \/ \E k \in Kinds, l \in Lines :
          \/ Create(k, l)
          \/ \E c \in Colls \cup {New} : Park(c, k, l)
    \/ \E i \in Items : DeleteItem(i) \/ \E l \in Lines : EditItem(i, l)
    \/ \E c \in Colls : DeleteColl(c)
    \/ \E u \in Uploads : Drop(u)
    \/ \E r \in Reqs :
          \/ \E u \in Uploads : Review(r, u)
          \/ Prepare(r) \/ Store(r) \/ Leave(r)

Spec == Init /\ [][Next]_vars

-----------------------------------------------------------------------------
\* The tables and the confirmations under way keep their types, and what
\* refers to a collection, an item's sequence or an upload's refers to one
\* there is.
TypeOK ==
    /\ lastColl \in 0 .. MaxColl
    /\ colls \subseteq 1 .. lastColl
    /\ lastItem \in [Kinds -> Nat]
    /\ \A k \in Kinds : lastItem[k] <= MaxItem[k]
    /\ items \in [Items -> Item \cup {None}]
    /\ \A i \in Items : items[i] # None =>
           items[i].coll \in colls /\ i[2] <= lastItem[i[1]]
    /\ lastUpload \in 0 .. MaxUpload
    /\ staged \in [Uploads -> Upload \cup {None}]
    /\ \A u \in Uploads : staged[u] # None =>
           staged[u].coll \in colls \cup {New} /\ u <= lastUpload
    /\ imp \in [Reqs -> Confirmation \cup {None}]
    /\ \A r \in Reqs : imp[r] # None => imp[r].upload <= lastUpload
    /\ used \in [Uploads -> Nat]

Table == INSTANCE ItemTable WITH
    items <- [i \in Items |-> IF items[i] = None THEN None ELSE items[i].line]

\* Its tracks and waypoints are to the links an ItemTable: an id names one
\* item for good, whatever import, deletion or edit went before (AUTOINCREMENT
\* in migration 0024; update_track and update_waypoint keep ids).
KeepsItemTable == Table!TableSpec

\* A parked upload is applied at most once, however many confirmations of
\* it - a double click, two tabs - are worked out side by side (US-88; the
\* take in the storing transaction, take_collection_import_in_tx).
ImportedOnce == \A u \in Uploads : used[u] <= 1

\* A confirmation overwrites and removes only items that were in the review
\* the owner decided on, as they were there: whatever entered, changed or went
\* while the owner decided and while the files were matched makes it refuse
\* (the digest, checked in prepare and again in store).
LosesOnlyWhatWasShown ==
    [][\A r \in Reqs :
          imp[r] # None /\ imp'[r] = None =>
              \A i \in Items : items'[i] # items[i] /\ items[i] # None =>
                  /\ i \in DOMAIN imp[r].shown
                  /\ imp[r].shown[i] = items[i].line]_vars

-----------------------------------------------------------------------------
(* Strengthenings that make the invariants inductive (CollectionsProofs).  *)

\* What still waits, or never came, was not applied.
Unapplied == \A u \in Uploads :
    staged[u] # None \/ u > lastUpload => used[u] = 0

\* A confirmation knows what was shown, and decides on that alone.
Decided == \A r \in Reqs : imp[r] # None =>
    /\ imp[r].digest = imp[r].shown
    /\ imp[r].into \in DOMAIN imp[r].shown \cup {New, Skip}
    /\ imp[r].drop \subseteq DOMAIN imp[r].shown \ {imp[r].into}

Inductive == TypeOK /\ ImportedOnce /\ Unapplied /\ Decided
=============================================================================
