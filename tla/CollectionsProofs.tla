-------------------------- MODULE CollectionsProofs --------------------------
(***************************************************************************)
(* Proofs about Collections, for any requests, contents and bounds: the    *)
(* types, that an upload is applied once, that a confirmation overwrites   *)
(* only what was shown, and that the item tables implement ItemTable.      *)
(***************************************************************************)
EXTENDS Collections, TLAPS

-----------------------------------------------------------------------------
(* Lemmas on ids, contents and digests.                                    *)

\* An item's id is its kind and a number within that kind's bound.
LEMMA ItemIds ==
    /\ \A k \in Kinds : \A n : <<k, n>> \in Items <=> n \in 1 .. MaxItem[k]
    /\ \A i \in Items : /\ i[1] \in Kinds
                        /\ i[2] \in 1 .. MaxItem[i[1]]
                        /\ i = <<i[1], i[2]>>
BY DEF Items

\* What a collection holds is a content, over items there are.
LEMMA HeldContent == ASSUME TypeOK, NEW c
                     PROVE  /\ ItemsOf(c) \subseteq Items
                            /\ DOMAIN Held(c) = ItemsOf(c)
                            /\ Held(c) \in [ItemsOf(c) -> Lines]
                            /\ Held(c) \in Contents
<1>1. ItemsOf(c) \subseteq Items
  BY DEF ItemsOf
<1>2. \A i \in ItemsOf(c) : items[i].line \in Lines
  BY DEF ItemsOf, TypeOK, Item
<1>3. Held(c) \in [ItemsOf(c) -> Lines]
  BY <1>2 DEF Held
<1>4. [ItemsOf(c) -> Lines] \in {[S -> Lines] : S \in SUBSET Items}
  BY <1>1
<1> QED BY <1>1, <1>3, <1>4 DEF Contents

\* A content names items.
LEMMA ContentItems == \A f \in Contents : DOMAIN f \subseteq Items
BY DEF Contents

\* The next id of a kind is unused, if it is within the bound.
LEMMA NextIsUnused ==
    ASSUME TypeOK, NEW k \in Kinds, NextItem(k) \in Items
    PROVE  /\ items[NextItem(k)] = None
           /\ lastItem[k] + 1 <= MaxItem[k]
           /\ NextItem(k)[1] = k /\ NextItem(k)[2] = lastItem[k] + 1
<1>1. lastItem[k] \in Nat /\ MaxItem[k] \in Nat
  BY BoundsAssumption DEF TypeOK
<1>2. lastItem[k] + 1 \in 1 .. MaxItem[k]
  BY ItemIds DEF NextItem
<1>3. NextItem(k)[1] = k /\ NextItem(k)[2] = lastItem[k] + 1
  BY DEF NextItem
<1>4. items[NextItem(k)] = None
  BY <1>1, <1>3 DEF TypeOK
<1> QED BY <1>1, <1>2, <1>3, <1>4

\* None, New and Skip are nothing else.
LEMMA Values ==
    /\ None \notin Item /\ None \notin Upload /\ None \notin Lines
    /\ New \notin Colls /\ New \notin Items
    /\ Skip \notin Items /\ Skip # New
BY ValuesAssumption

-----------------------------------------------------------------------------
(* The invariant holds initially, and each action keeps it.                *)

\* Nothing is stored and nothing under way.
LEMMA InitInductive == Init => Inductive
<1> SUFFICES ASSUME Init PROVE Inductive
  OBVIOUS
<1>1. \A k \in Kinds : MaxItem[k] \in Nat
  BY BoundsAssumption
<1>2. TypeOK
  BY <1>1, BoundsAssumption DEF Init, TypeOK
<1> QED BY <1>2 DEF Inductive, Init, ImportedOnce, Unapplied, Decided

\* A step that leaves the uploads and the confirmations alone keeps what is
\* said of them.
LEMMA ImportsUntouched ==
    ASSUME Inductive, TypeOK', UNCHANGED <<staged, lastUpload, imp, used>>
    PROVE  Inductive'
BY DEF Inductive, ImportedOnce, Unapplied, Decided

\* Items with the lines they may have, in collections there are.
LEMMA CreateKeeps ==
    ASSUME Inductive, NEW k \in Kinds, NEW l \in Lines, Create(k, l)
    PROVE  Inductive'
<1> DEFINE i == NextItem(k)
<1>0. TypeOK
  BY DEF Inductive
<1>1. /\ lastColl \in Nat /\ lastColl + 1 \in Colls
      /\ lastItem[k] + 1 \in 1 .. MaxItem[k]
      /\ \A j \in Kinds : lastItem[j] \in Nat /\ MaxItem[j] \in Nat
  BY <1>0, BoundsAssumption DEF TypeOK, Create, Colls
<1>2. i \in Items /\ i[1] = k /\ i[2] = lastItem[k] + 1
  BY <1>1, ItemIds DEF NextItem
<1>3. /\ lastColl' = lastColl + 1 /\ lastColl' \in 0 .. MaxColl
      /\ colls' \subseteq 1 .. lastColl' /\ colls \subseteq colls'
      /\ lastColl' \in colls'
  BY <1>0, <1>1 DEF TypeOK, Create, Colls
<1>4. /\ lastItem' \in [Kinds -> Nat]
      /\ \A j \in Kinds : lastItem'[j] <= MaxItem[j] /\ lastItem[j] <= lastItem'[j]
      /\ lastItem'[k] = lastItem[k] + 1
  BY <1>0, <1>1 DEF TypeOK, Create
<1>5. items' \in [Items -> Item \cup {None}]
  BY <1>0, <1>1, <1>2, <1>3 DEF TypeOK, Create, Item
<1>6. ASSUME NEW j \in Items, items'[j] # None
      PROVE  items'[j].coll \in colls' /\ j[2] <= lastItem'[j[1]]
  <2>1. CASE j = i
    BY <2>1, <1>0, <1>2, <1>3, <1>4 DEF TypeOK, Create
  <2>2. CASE j # i
    <3>1. items'[j] = items[j]
      BY <2>2, <1>0 DEF TypeOK, Create
    <3>2. items[j].coll \in colls /\ j[2] <= lastItem[j[1]]
      BY <3>1, <1>0, <1>6 DEF TypeOK
    <3>3. j[1] \in Kinds /\ j[2] \in Nat
      BY ItemIds, <1>1
    <3>4. /\ lastItem[j[1]] \in Nat /\ lastItem'[j[1]] \in Nat
          /\ lastItem[j[1]] <= lastItem'[j[1]]
      BY <3>3, <1>1, <1>4
    <3>5. j[2] <= lastItem'[j[1]]
      BY <3>2, <3>3, <3>4
    <3> QED BY <3>1, <3>2, <3>5, <1>3
  <2> QED BY <2>1, <2>2
<1>7. TypeOK'
  BY <1>0, <1>3, <1>4, <1>5, <1>6 DEF TypeOK, Create
<1> QED BY <1>7, ImportsUntouched DEF Create

\* Deleting an item refers to nothing new.
LEMMA DeleteItemKeeps ==
    ASSUME Inductive, NEW i \in Items, DeleteItem(i)
    PROVE  Inductive'
<1>1. TypeOK'
  BY DEF Inductive, TypeOK, DeleteItem
<1> QED BY <1>1, ImportsUntouched DEF DeleteItem

\* An edited item keeps its collection.
LEMMA EditItemKeeps ==
    ASSUME Inductive, NEW i \in Items, NEW l \in Lines, EditItem(i, l)
    PROVE  Inductive'
<1>0. TypeOK
  BY DEF Inductive
<1>1. /\ items[i] \in Item /\ items'[i] = [items[i] EXCEPT !.line = l]
      /\ \A j \in Items : j # i => items'[j] = items[j]
  BY <1>0 DEF TypeOK, EditItem
<1>2. items'[i] \in Item /\ items'[i].coll = items[i].coll
  BY <1>1 DEF Item
<1>3. items' \in [Items -> Item \cup {None}]
  BY <1>0, <1>1, <1>2 DEF TypeOK, EditItem
<1>4. \A j \in Items : items'[j] # None =>
          items'[j].coll \in colls /\ j[2] <= lastItem[j[1]]
  BY <1>0, <1>1, <1>2 DEF TypeOK, EditItem
<1>5. TypeOK'
  BY <1>0, <1>3, <1>4 DEF TypeOK, EditItem
<1> QED BY <1>5, ImportsUntouched DEF EditItem

\* The uploads left wait for other collections.
LEMMA DeleteCollKeeps ==
    ASSUME Inductive, NEW c \in Colls, DeleteColl(c)
    PROVE  Inductive'
<1>0. TypeOK
  BY DEF Inductive
<1>1. /\ items' \in [Items -> Item \cup {None}]
      /\ \A j \in Items : items'[j] # None =>
             items'[j] = items[j] /\ items[j].coll # c
  BY <1>0 DEF TypeOK, DeleteColl, ItemsOf
<1>2. /\ staged' \in [Uploads -> Upload \cup {None}]
      /\ \A u \in Uploads : staged'[u] # None =>
             staged'[u] = staged[u] /\ staged[u].coll # c
  BY <1>0 DEF TypeOK, DeleteColl, UploadsWithout
<1>3. TypeOK'
  BY <1>0, <1>1, <1>2 DEF TypeOK, DeleteColl
<1>4. Unapplied'
  BY <1>2 DEF Inductive, Unapplied, DeleteColl
<1> QED BY <1>3, <1>4 DEF Inductive, ImportedOnce, Decided, DeleteColl

\* An upload parked was not applied.
LEMMA ParkKeeps ==
    ASSUME Inductive, NEW c \in Colls \cup {New}, NEW k \in Kinds,
           NEW l \in Lines, Park(c, k, l)
    PROVE  Inductive'
<1> DEFINE s == [coll |-> c, kind |-> k, line |-> l]
<1>0. TypeOK
  BY DEF Inductive
<1>1. /\ lastUpload' = lastUpload + 1 /\ lastUpload \in Nat
      /\ lastUpload' \in Uploads /\ lastUpload' \in 0 .. MaxUpload
  BY <1>0, BoundsAssumption DEF TypeOK, Park, Uploads
<1>2. /\ s \in Upload /\ s.coll \in colls \cup {New}
      /\ staged' = [staged EXCEPT ![lastUpload'] = s]
  BY DEF Upload, Park
<1>3. staged' \in [Uploads -> Upload \cup {None}]
  BY <1>0, <1>1, <1>2 DEF TypeOK
<1>4. \A u \in Uploads : staged'[u] # None =>
          staged'[u].coll \in colls \cup {New} /\ u <= lastUpload'
  BY <1>0, <1>1, <1>2 DEF TypeOK, Uploads
<1>5. \A r \in Reqs : imp[r] # None => imp[r].upload <= lastUpload'
  BY <1>0, <1>1 DEF TypeOK, Confirmation, Uploads
<1>6. TypeOK'
  BY <1>0, <1>1, <1>3, <1>4, <1>5 DEF TypeOK, Park
<1>7. Unapplied'
  <2> SUFFICES ASSUME NEW u \in Uploads, staged'[u] # None \/ u > lastUpload'
               PROVE  used[u] = 0
    BY DEF Unapplied, Park
  <2>1. u \in Nat
    BY DEF Uploads
  <2>2. staged[u] # None \/ u > lastUpload
    BY <2>1, <1>0, <1>1, <1>2 DEF TypeOK
  <2> QED BY <2>2 DEF Inductive, Unapplied
<1> QED BY <1>6, <1>7 DEF Inductive, ImportedOnce, Decided, Park

\* An upload dropped is only gone.
LEMMA DropKeeps ==
    ASSUME Inductive, NEW u \in Uploads, Drop(u)
    PROVE  Inductive'
<1>1. TypeOK'
  BY DEF Inductive, TypeOK, Drop
<1>2. Unapplied'
  BY DEF Inductive, TypeOK, Unapplied, Drop
<1> QED BY <1>1, <1>2 DEF Inductive, ImportedOnce, Decided, Drop

\* A step of one confirmation that stores nothing keeps the invariant if what
\* the confirmation becomes is sound.
LEMMA ConfirmingKeeps ==
    ASSUME Inductive, NEW r \in Reqs, NEW c \in Confirmation \cup {None},
           imp' = [imp EXCEPT ![r] = c],
           c # None => /\ c.upload <= lastUpload
                       /\ c.digest = c.shown
                       /\ c.into \in DOMAIN c.shown \cup {New, Skip}
                       /\ c.drop \subseteq DOMAIN c.shown \ {c.into},
           UNCHANGED <<colls, lastColl, items, lastItem, staged, lastUpload, used>>
    PROVE  Inductive'
<1>1. \A q \in Reqs : imp'[q] = IF q = r THEN c ELSE imp[q]
  BY DEF Inductive, TypeOK
<1>2. imp' \in [Reqs -> Confirmation \cup {None}]
  BY DEF Inductive, TypeOK
<1>3. TypeOK'
  BY <1>1, <1>2 DEF Inductive, TypeOK
<1>4. Decided'
  BY <1>1 DEF Inductive, Decided
<1> QED BY <1>3, <1>4 DEF Inductive, ImportedOnce, Unapplied

\* A review decides on nothing yet.
LEMMA ReviewKeeps ==
    ASSUME Inductive, NEW r \in Reqs, NEW u \in Uploads, Review(r, u)
    PROVE  Inductive'
<1> DEFINE h == Held(staged[u].coll)
           c == [step |-> "reviewed", upload |-> u, digest |-> h, shown |-> h,
                 into |-> Skip, drop |-> {}]
<1>1. h \in Contents
  BY HeldContent DEF Inductive
<1>2. c \in Confirmation
  BY <1>1 DEF Confirmation
<1>3. u <= lastUpload
  BY DEF Inductive, TypeOK, Review
<1>4. imp' = [imp EXCEPT ![r] = c]
  BY DEF Review, Digest
<1> HIDE DEF h
<1> QED BY <1>2, <1>3, <1>4, ConfirmingKeeps DEF Review

\* Matching places and drops only items the collection holds, and it holds
\* what was shown.
LEMMA PrepareKeeps ==
    ASSUME Inductive, NEW r \in Reqs, Prepare(r)
    PROVE  Inductive'
<1>0. TypeOK /\ imp[r] \in Confirmation
  BY DEF Inductive, TypeOK, Prepare
<1>1. PICK o \in Outcomes(imp[r].upload) :
          imp' = [imp EXCEPT ![r].step = "matched", ![r].into = o.into,
                             ![r].drop = o.drop]
  BY DEF Prepare
<1> DEFINE s == staged[imp[r].upload]
           c == [imp[r] EXCEPT !.step = "matched", !.into = o.into,
                               !.drop = o.drop]
<1>2. imp' = [imp EXCEPT ![r] = c]
  BY <1>0, <1>1 DEF TypeOK
<1>3. /\ o.into \in ItemsOf(s.coll) \cup {New, Skip}
      /\ o.drop \subseteq ItemsOf(s.coll) \ {o.into}
  BY DEF Outcomes
<1>4. imp[r].digest = Held(s.coll)
  BY DEF Prepare, AsReviewed, Digest
<1>5. /\ imp[r].digest = imp[r].shown /\ imp[r].upload <= lastUpload
  BY <1>0 DEF Inductive, TypeOK, Decided, Prepare
<1>6. DOMAIN imp[r].shown = ItemsOf(s.coll) /\ ItemsOf(s.coll) \subseteq Items
  BY <1>0, <1>4, <1>5, HeldContent
<1>7. /\ c \in Confirmation
      /\ c.upload = imp[r].upload /\ c.shown = imp[r].shown
      /\ c.digest = imp[r].digest /\ c.into = o.into /\ c.drop = o.drop
  BY <1>0, <1>3, <1>6 DEF Confirmation
<1> HIDE DEF c, s
<1> QED BY <1>2, <1>3, <1>5, <1>6, <1>7, ConfirmingKeeps DEF Prepare

\* Leaving forgets a confirmation.
LEMMA LeaveKeeps ==
    ASSUME Inductive, NEW r \in Reqs, Leave(r)
    PROVE  Inductive'
BY ConfirmingKeeps DEF Leave

-----------------------------------------------------------------------------
(* Storing a confirmation.                                                 *)

\* What a confirmation about to be stored works on: the collection is what
\* was shown, so its decisions are about items there are.
LEMMA Storing ==
    ASSUME Inductive, NEW r \in Reqs, Store(r)
    PROVE  LET u == imp[r].upload
               s == staged[u]
           IN  /\ imp[r] \in Confirmation
               /\ u \in Uploads /\ s \in Upload /\ s # None
               /\ DOMAIN imp[r].shown = ItemsOf(s.coll)
               /\ ItemsOf(s.coll) \subseteq Items
               /\ \A i \in ItemsOf(s.coll) : /\ items[i] # None
                                             /\ imp[r].shown[i] = items[i].line
               /\ imp[r].drop \subseteq ItemsOf(s.coll) \ {imp[r].into}
               /\ \/ imp[r].into \in ItemsOf(s.coll)
                  \/ imp[r].into = Skip
                  \/ imp[r].into = New /\ NextItem(s.kind) \in Items
<1> DEFINE u == imp[r].upload
           s == staged[u]
<1>1. TypeOK /\ imp[r] # None /\ imp[r] \in Confirmation
  BY DEF Inductive, TypeOK, Store
<1>2. u \in Uploads /\ s # None /\ Held(s.coll) = imp[r].digest
  BY <1>1 DEF Store, AsReviewed, Digest, Confirmation
<1>3. s \in Upload
  BY <1>1, <1>2 DEF TypeOK
<1>4. /\ imp[r].digest = imp[r].shown
      /\ imp[r].into \in DOMAIN imp[r].shown \cup {New, Skip}
      /\ imp[r].drop \subseteq DOMAIN imp[r].shown \ {imp[r].into}
  BY <1>1 DEF Inductive, Decided
<1>5. /\ DOMAIN imp[r].shown = ItemsOf(s.coll)
      /\ ItemsOf(s.coll) \subseteq Items
  BY <1>1, <1>2, <1>4, HeldContent
<1>6. \A i \in ItemsOf(s.coll) : /\ items[i] # None
                                 /\ imp[r].shown[i] = items[i].line
  BY <1>2, <1>4 DEF Held, ItemsOf
<1>7. ASSUME imp[r].into = New
      PROVE  NextItem(s.kind) \in Items
  BY <1>7, ValuesAssumption DEF Store, Changed
<1> QED BY <1>1, <1>2, <1>3, <1>4, <1>5, <1>6, <1>7

\* The item a confirmation changes, if any, has an id within the sequence the
\* confirmation leaves, and no other item has a new line.
LEMMA StoredItems ==
    ASSUME Inductive, NEW r \in Reqs, Store(r)
    PROVE  LET s == staged[imp[r].upload] IN
           /\ \A i \in Items : items'[i] =
                  IF i \in Changed(r) THEN [coll |-> Target(r), line |-> s.line]
                  ELSE IF i \in imp[r].drop THEN None ELSE items[i]
           /\ lastItem' \in [Kinds -> Nat]
           /\ \A k \in Kinds : /\ lastItem[k] <= lastItem'[k]
                               /\ lastItem'[k] <= MaxItem[k]
           /\ \A i \in Changed(r) : i \in Items /\ i[2] <= lastItem'[i[1]]
<1> DEFINE s == staged[imp[r].upload]
<1>1. TypeOK /\ s \in Upload /\ s.kind \in Kinds
  BY Storing DEF Inductive, Upload
<1>2. \A k \in Kinds : lastItem[k] \in Nat /\ MaxItem[k] \in Nat
  BY <1>1, BoundsAssumption DEF TypeOK
<1>3. \A k \in Kinds : lastItem'[k] =
          IF imp[r].into = New /\ k = s.kind THEN lastItem[k] + 1
          ELSE lastItem[k]
  BY DEF Store
<1>4. imp[r].into = New =>
          /\ lastItem[s.kind] + 1 <= MaxItem[s.kind]
          /\ NextItem(s.kind)[1] = s.kind
          /\ NextItem(s.kind)[2] = lastItem[s.kind] + 1
  <2> SUFFICES ASSUME imp[r].into = New
               PROVE  NextItem(s.kind) \in Items
    BY <1>1, NextIsUnused
  <2> QED BY ValuesAssumption DEF Store, Changed
<1>5. lastItem' \in [Kinds -> Nat]
  BY <1>2 DEF Store
<1>6. \A k \in Kinds : lastItem[k] <= lastItem'[k] /\ lastItem'[k] <= MaxItem[k]
  BY <1>1, <1>2, <1>3, <1>4 DEF TypeOK
<1>7. ASSUME NEW i \in Changed(r)
      PROVE  i \in Items /\ i[2] <= lastItem'[i[1]]
  <2>1. i \in Items
    BY DEF Store
  <2>2. CASE imp[r].into = New
    <3>1. i = NextItem(s.kind)
      BY <2>2, ValuesAssumption DEF Changed
    <3> QED BY <2>1, <2>2, <3>1, <1>1, <1>2, <1>3, <1>4
  <2>3. CASE imp[r].into # New
    <3>1. i = imp[r].into /\ imp[r].into # Skip
      BY <2>3 DEF Changed
    <3>2. items[i] # None /\ i[2] <= lastItem[i[1]]
      BY <2>1, <2>3, <3>1, <1>1, Storing DEF TypeOK
    <3>3. i[1] \in Kinds
      BY <2>1, ItemIds
    <3> QED BY <2>1, <2>3, <3>2, <3>3, <1>3
  <2> QED BY <2>2, <2>3
<1>8. \A i \in Items : items'[i] =
          IF i \in Changed(r) THEN [coll |-> Target(r), line |-> s.line]
          ELSE IF i \in imp[r].drop THEN None ELSE items[i]
  BY DEF Store
<1> QED BY <1>5, <1>6, <1>7, <1>8

\* Storing applies the upload it takes, and only that one.
LEMMA StoreKeeps ==
    ASSUME Inductive, NEW r \in Reqs, Store(r)
    PROVE  Inductive'
<1> DEFINE u == imp[r].upload
           s == staged[u]
           c == Target(r)
<1>0. /\ TypeOK /\ u \in Uploads /\ s \in Upload /\ s # None /\ s.line \in Lines
      /\ s.coll \in colls \cup {New}
  BY Storing DEF Inductive, TypeOK, Upload
<1>1. /\ c \in Colls /\ colls' = colls \cup {c}
      /\ lastColl' = IF s.coll = New THEN c ELSE lastColl
      /\ c = IF s.coll = New THEN lastColl + 1 ELSE s.coll
      /\ lastColl \in 0 .. MaxColl /\ colls \subseteq 1 .. lastColl
  BY <1>0 DEF Store, Target, TypeOK
<1>2. lastColl' \in 0 .. MaxColl /\ colls' \subseteq 1 .. lastColl'
  <2>1. CASE s.coll = New
    BY <2>1, <1>1, BoundsAssumption DEF Colls
  <2>2. CASE s.coll # New
    BY <2>2, <1>0, <1>1
  <2> QED BY <2>1, <2>2
<1> HIDE DEF c
<1>3. [coll |-> c, line |-> s.line] \in Item
  BY <1>0, <1>1 DEF Item
<1>4. items' \in [Items -> Item \cup {None}]
  BY <1>0, <1>3 DEF Store, TypeOK, c
<1>5. ASSUME NEW i \in Items, items'[i] # None
      PROVE  items'[i].coll \in colls' /\ i[2] <= lastItem'[i[1]]
  <2>1. CASE i \in Changed(r)
    <3>1. items'[i] = [coll |-> c, line |-> s.line]
      BY <2>1, StoredItems DEF c
    <3>2. i[2] <= lastItem'[i[1]]
      BY <2>1, StoredItems
    <3> QED BY <3>1, <3>2, <1>1
  <2>2. CASE i \notin Changed(r)
    <3>1. items'[i] = items[i] /\ items[i] # None
      BY <2>2, <1>5, StoredItems
    <3>2. items[i].coll \in colls /\ i[2] <= lastItem[i[1]]
      BY <3>1, <1>0 DEF TypeOK
    <3>3. i[1] \in Kinds /\ i[2] \in Nat
      BY ItemIds, BoundsAssumption
    <3>4. /\ lastItem[i[1]] \in Nat /\ lastItem'[i[1]] \in Nat
          /\ lastItem[i[1]] <= lastItem'[i[1]]
      BY <3>3, <1>0, StoredItems DEF TypeOK
    <3>5. i[2] <= lastItem'[i[1]]
      BY <3>2, <3>3, <3>4
    <3> QED BY <3>1, <3>2, <3>5, <1>1
  <2> QED BY <2>1, <2>2
<1>6. /\ staged' \in [Uploads -> Upload \cup {None}]
      /\ \A v \in Uploads : staged'[v] # None => v # u /\ staged'[v] = staged[v]
  BY <1>0 DEF Store, Taken, TypeOK
<1>7. /\ imp' \in [Reqs -> Confirmation \cup {None}]
      /\ \A q \in Reqs : imp'[q] # None => imp'[q] = imp[q]
  BY <1>0 DEF Store, TypeOK
<1>8. /\ used' \in [Uploads -> Nat]
      /\ used'[u] = used[u] + 1
      /\ \A v \in Uploads : v # u => used'[v] = used[v]
  BY <1>0 DEF Store, TypeOK
<1>9. TypeOK'
  BY <1>0, <1>1, <1>2, <1>4, <1>5, <1>6, <1>7, <1>8, StoredItems
  DEF Store, TypeOK
<1>10. used[u] = 0 /\ u <= lastUpload
  BY <1>0 DEF Inductive, Unapplied, TypeOK
<1>11. ImportedOnce'
  BY <1>8, <1>10 DEF Inductive, ImportedOnce
<1>12. Unapplied'
  <2> SUFFICES ASSUME NEW v \in Uploads, staged'[v] # None \/ v > lastUpload
               PROVE  used'[v] = 0
    BY DEF Unapplied, Store
  <2>1. lastUpload \in Nat /\ v \in Nat
    BY <1>0 DEF TypeOK, Uploads
  <2>2. v # u
    BY <2>1, <1>6, <1>10
  <2>3. staged[v] # None \/ v > lastUpload
    BY <1>6
  <2> QED BY <2>2, <2>3, <1>8 DEF Inductive, Unapplied
<1>13. Decided'
  BY <1>7 DEF Inductive, Decided
<1> QED BY <1>9, <1>11, <1>12, <1>13 DEF Inductive

-----------------------------------------------------------------------------
(* The invariant, and what follows from it.                                *)

\* Every step keeps the invariant.
LEMMA StepKeeps == Inductive /\ [Next]_vars => Inductive'
<1> SUFFICES ASSUME Inductive, [Next]_vars PROVE Inductive'
  OBVIOUS
<1>1. ASSUME NEW k \in Kinds, NEW l \in Lines, Create(k, l) PROVE Inductive'
  BY <1>1, CreateKeeps
<1>2. ASSUME NEW k \in Kinds, NEW l \in Lines, NEW c \in Colls \cup {New},
             Park(c, k, l)
      PROVE  Inductive'
  BY <1>2, ParkKeeps
<1>3. ASSUME NEW i \in Items, DeleteItem(i) PROVE Inductive'
  BY <1>3, DeleteItemKeeps
<1>4. ASSUME NEW i \in Items, NEW l \in Lines, EditItem(i, l) PROVE Inductive'
  BY <1>4, EditItemKeeps
<1>5. ASSUME NEW c \in Colls, DeleteColl(c) PROVE Inductive'
  BY <1>5, DeleteCollKeeps
<1>6. ASSUME NEW u \in Uploads, Drop(u) PROVE Inductive'
  BY <1>6, DropKeeps
<1>7. ASSUME NEW r \in Reqs, NEW u \in Uploads, Review(r, u) PROVE Inductive'
  BY <1>7, ReviewKeeps
<1>8. ASSUME NEW r \in Reqs, Prepare(r) PROVE Inductive'
  BY <1>8, PrepareKeeps
<1>9. ASSUME NEW r \in Reqs, Store(r) PROVE Inductive'
  BY <1>9, StoreKeeps
<1>10. ASSUME NEW r \in Reqs, Leave(r) PROVE Inductive'
  BY <1>10, LeaveKeeps
<1>11. CASE UNCHANGED vars
  <2>1. TypeOK'
    BY <1>11 DEF Inductive, TypeOK, vars
  <2> QED BY <2>1, <1>11, ImportsUntouched DEF vars
<1> QED BY <1>1, <1>2, <1>3, <1>4, <1>5, <1>6, <1>7, <1>8, <1>9, <1>10, <1>11
        DEF Next

\* The invariant holds in every state.
LEMMA AlwaysInductive == Spec => []Inductive
BY InitInductive, StepKeeps, PTL DEF Spec

\* Tables, uploads and confirmations keep their types, and refer only to what
\* there is (the schema's keys and cascades, migrations 0024 and 0026).
THEOREM CollectionsTypeCorrect == Spec => []TypeOK
<1>1. Inductive => TypeOK
  BY DEF Inductive
<1> QED BY <1>1, AlwaysInductive, PTL

\* A parked upload is applied at most once (take_collection_import_in_tx).
THEOREM AppliedOnce == Spec => []ImportedOnce
<1>1. Inductive => ImportedOnce
  BY DEF Inductive
<1> QED BY <1>1, AlwaysInductive, PTL

\* A confirmation changes and removes nothing but what was in the review the
\* owner decided on, as it was there (the digest, checked again in store).
THEOREM LosesNothingUnseen == Spec => LosesOnlyWhatWasShown
<1> DEFINE Kept(r) == \A i \in Items : items'[i] # items[i] /\ items[i] # None =>
                          /\ i \in DOMAIN imp[r].shown
                          /\ imp[r].shown[i] = items[i].line
           A == \A r \in Reqs : imp[r] # None /\ imp'[r] = None => Kept(r)
<1>1. ASSUME Inductive, NEW r \in Reqs, Store(r)
      PROVE  Kept(r)
  <2> DEFINE s == staged[imp[r].upload]
  <2> SUFFICES ASSUME NEW i \in Items, items'[i] # items[i], items[i] # None
               PROVE  i \in ItemsOf(s.coll)
    BY <1>1, Storing
  <2>1. i \in Changed(r) \/ i \in imp[r].drop
    BY <1>1, StoredItems
  <2>2. s.kind \in Kinds /\ TypeOK
    BY <1>1, Storing DEF Upload, Inductive
  <2>3. imp[r].into = New => items[NextItem(s.kind)] = None
    BY <1>1, <2>2, Storing, NextIsUnused, ValuesAssumption
  <2>4. i \in Changed(r) => i = imp[r].into /\ i # New /\ i # Skip
    BY <2>3, ValuesAssumption DEF Changed
  <2> QED BY <1>1, <2>1, <2>4, Storing
<1>2. ASSUME Inductive, Next PROVE A
  <2>1. ASSUME NEW r \in Reqs, imp[r] # None, imp'[r] = None PROVE Kept(r)
    <3>1. CASE items' = items
      BY <3>1
    <3>2. CASE \E q \in Reqs : Store(q)
      <4>1. PICK q \in Reqs : Store(q)
        BY <3>2
      <4>2. q = r
        BY <4>1, <2>1, <1>2 DEF Store, Inductive, TypeOK
      <4> QED BY <4>1, <4>2, <1>1, <1>2
    <3>3. CASE imp' = imp
      BY <3>3, <2>1
    <3> QED BY <3>1, <3>2, <3>3, <1>2
            DEF Next, Create, Park, DeleteItem, EditItem, DeleteColl, Drop, Review,
                Prepare, Leave
  <2> QED BY <2>1
<1>3. Inductive /\ [Next]_vars => [A]_vars
  BY <1>2
<1> HIDE DEF Kept
<1>4. Spec => [][A]_vars
  BY <1>3, AlwaysInductive, PTL DEF Spec
<1> QED BY <1>4 DEF LosesOnlyWhatWasShown, Kept

-----------------------------------------------------------------------------
(* The item tables implement ItemTable.                                    *)

\* The lines as ItemTable sees them.
Shown == [i \in Items |-> IF items[i] = None THEN None ELSE items[i].line]

\* An item is there for ItemTable exactly if it is in the tables.
LEMMA SamePresent ==
    ASSUME TypeOK
    PROVE  /\ Table!Items = Items /\ Table!Kinds = Kinds
           /\ Table!Present = {i \in Items : items[i] # None}
           /\ Table!Unused = {NextItem(k) : k \in Kinds} \cap Items
<1>1. Table!Items = Items /\ Table!Kinds = Kinds
  BY DEF Table!Items, Table!Kinds, Items, Kinds
<1>2. \A i \in Items : items[i] # None => items[i].line # None
  BY Values DEF TypeOK, Item
<1>3. Table!Present = {i \in Items : items[i] # None}
  BY <1>1, <1>2 DEF Table!Present
<1>4. Table!Unused = {NextItem(k) : k \in Kinds} \cap Items
  BY <1>1 DEF Table!Unused, NextItem
<1> QED BY <1>1, <1>3, <1>4

\* Empty tables are where an ItemTable starts.
LEMMA TableStarts == Init => Table!TableInit
BY DEF Init, Table!TableInit, Table!Items, Table!Kinds, Items, Kinds

\* Items that go, and nothing else, are an ItemTable's removal, or nothing.
LEMMA Removes ==
    ASSUME TypeOK, NEW S \in SUBSET Items, \A i \in S : items[i] # None,
           items' = [i \in Items |-> IF i \in S THEN None ELSE items[i]],
           lastItem' = lastItem
    PROVE  [Table!TableNext]_(Table!tableVars)
<1>1. Shown' = [i \in Items |-> IF i \in S THEN None ELSE Shown[i]]
  BY DEF Shown
<1>2. S \in SUBSET Table!Present
  BY SamePresent
<1>3. CASE S = {}
  <2>1. Shown' = Shown
    BY <1>1, <1>3 DEF Shown
  <2> QED BY <2>1 DEF Table!tableVars, Shown
<1>4. CASE S # {}
  <2>1. Table!Removal(S)
    BY <1>1, <1>2, <1>4, SamePresent DEF Table!Removal, Shown
  <2> QED BY <1>2, <2>1 DEF Table!TableNext
<1> QED BY <1>3, <1>4

\* An item that gets a line, while others may go, is an ItemTable's entry.
LEMMA Enters ==
    ASSUME TypeOK, NEW i \in Items, NEW l \in Lines, NEW S \in SUBSET Items,
           \A j \in S : items[j] # None, i \notin S,
           items[i] # None \/ i = NextItem(i[1]),
           Shown' = [j \in Items |-> IF j = i THEN l
                                     ELSE IF j \in S THEN None ELSE Shown[j]],
           lastItem' = IF items[i] # None THEN lastItem
                       ELSE [lastItem EXCEPT ![i[1]] = @ + 1]
    PROVE  [Table!TableNext]_(Table!tableVars)
<1>1. S \in SUBSET Table!Present
  BY SamePresent
<1>2. i[1] \in Kinds
  BY ItemIds
<1>3. i \in Table!Unused <=> items[i] = None
  <2>1. ASSUME items[i] = None PROVE i \in Table!Unused
    BY <2>1, <1>2, SamePresent
  <2>2. ASSUME i \in Table!Unused PROVE items[i] = None
    BY <2>2, SamePresent, NextIsUnused
  <2> QED BY <2>1, <2>2
<1>4. lastItem' = [lastItem EXCEPT ![i[1]] =
                      IF i \in Table!Unused THEN @ + 1 ELSE @]
  BY <1>2, <1>3 DEF TypeOK
<1>5. Table!Entry(i, l, S)
  BY <1>1, <1>3, <1>4, SamePresent DEF Table!Entry, Shown
<1> QED BY <1>1, <1>5, SamePresent DEF Table!TableNext

\* A stored confirmation enters or replaces one item and removes others, or only
\* removes, or does neither.
LEMMA StoreImplements ==
    ASSUME Inductive, NEW r \in Reqs, Store(r)
    PROVE  [Table!TableNext]_(Table!tableVars)
<1> DEFINE s == staged[imp[r].upload]
           S == imp[r].drop
<1>0. /\ TypeOK /\ s.line \in Lines /\ s.kind \in Kinds
      /\ S \in SUBSET Items /\ \A i \in S : items[i] # None
      /\ imp[r].into \notin S
  BY Storing DEF Inductive, Upload
<1>1. CASE imp[r].into = Skip
  <2>1. Changed(r) = {}
    BY <1>1, Values DEF Changed
  <2>2. items' = [i \in Items |-> IF i \in S THEN None ELSE items[i]]
    BY <2>1 DEF Store
  <2>3. lastItem' = lastItem
    BY <1>0, <1>1, Values DEF Store, TypeOK
  <2> QED BY <1>0, <2>2, <2>3, Removes
<1>2. CASE imp[r].into # Skip
  <2>1. PICK i \in Items : Changed(r) = {i}
    <3>1. CASE imp[r].into = New
      BY <3>1, Storing, Values DEF Changed
    <3>2. CASE imp[r].into # New
      BY <1>2, <3>2, Storing DEF Changed
    <3> QED BY <3>1, <3>2
  <2>2. \/ imp[r].into = New /\ i = NextItem(s.kind) /\ i[1] = s.kind
        \/ imp[r].into # New /\ i = imp[r].into
    BY <1>2, <2>1 DEF Changed, NextItem
  <2>3. items[i] = None <=> imp[r].into = New
    BY <1>0, <1>2, <2>2, Storing, NextIsUnused
  <2>4. i \notin S
    BY <1>0, <2>2, <2>3
  <2>5. Shown' = [j \in Items |-> IF j = i THEN s.line
                                 ELSE IF j \in S THEN None ELSE Shown[j]]
    <3>1. \A j \in Items : items'[j] =
              IF j = i THEN [coll |-> Target(r), line |-> s.line]
              ELSE IF j \in S THEN None ELSE items[j]
      BY <2>1, StoredItems
    <3>2. [coll |-> Target(r), line |-> s.line] # None
      BY <1>0, ValuesAssumption DEF Store, Item
    <3> QED BY <3>1, <3>2 DEF Shown
  <2>6. lastItem' = IF items[i] # None THEN lastItem
                    ELSE [lastItem EXCEPT ![i[1]] = @ + 1]
    BY <1>0, <2>2, <2>3 DEF Store, TypeOK
  <2> QED BY <1>0, <2>2, <2>3, <2>4, <2>5, <2>6, Enters
<1> QED BY <1>1, <1>2

\* An id names one item for good: what Links assumes of the tables, the
\* import and every other request keep (AUTOINCREMENT, migration 0024).
THEOREM ImplementsItemTable == Spec => KeepsItemTable
<1>1. ASSUME Inductive, [Next]_vars
      PROVE  [Table!TableNext]_(Table!tableVars)
  <2>0. TypeOK
    BY <1>1 DEF Inductive
  <2>1. CASE UNCHANGED <<items, lastItem>>
    BY <2>1 DEF Table!tableVars
  <2>2. ASSUME NEW k \in Kinds, NEW l \in Lines, Create(k, l)
        PROVE  [Table!TableNext]_(Table!tableVars)
    <3> DEFINE i == NextItem(k)
    <3>1. i \in Items
      <4>1. lastItem[k] \in Nat /\ MaxItem[k] \in Nat
        BY <2>0, BoundsAssumption DEF TypeOK
      <4>2. lastItem[k] + 1 \in 1 .. MaxItem[k]
        BY <2>2, <4>1 DEF Create
      <4> QED BY <4>2, ItemIds DEF NextItem
    <3>2. items[i] = None /\ i[1] = k
      BY <2>0, <3>1, NextIsUnused
    <3>3. [coll |-> lastColl', line |-> l] # None
      BY <2>0, <2>2, ValuesAssumption, BoundsAssumption
      DEF Create, Item, Colls, TypeOK
    <3>4. Shown' = [j \in Items |-> IF j = i THEN l
                                   ELSE IF j \in {} THEN None ELSE Shown[j]]
      BY <2>0, <2>2, <3>1, <3>3 DEF Create, Shown, TypeOK
    <3>5. lastItem' = IF items[i] # None THEN lastItem
                      ELSE [lastItem EXCEPT ![i[1]] = @ + 1]
      BY <2>2, <3>2 DEF Create
    <3>6. i = NextItem(i[1])
      BY <3>2
    <3>7. {} \in SUBSET Items /\ i \notin {} /\ \A j \in {} : items[j] # None
      OBVIOUS
    <3> HIDE DEF i
    <3> QED BY <2>0, <3>1, <3>4, <3>5, <3>6, <3>7, Enters
  <2>3. ASSUME NEW i \in Items, DeleteItem(i)
        PROVE  [Table!TableNext]_(Table!tableVars)
    <3>1. items' = [j \in Items |-> IF j \in {i} THEN None ELSE items[j]]
      BY <2>0, <2>3 DEF DeleteItem, TypeOK
    <3> QED BY <2>0, <2>3, <3>1, Removes DEF DeleteItem
  <2>4. ASSUME NEW i \in Items, NEW l \in Lines, EditItem(i, l)
        PROVE  [Table!TableNext]_(Table!tableVars)
    <3>1. items'[i] # None /\ items'[i].line = l
      BY <2>0, <2>4, Values DEF EditItem, TypeOK, Item
    <3>2. Shown' = [j \in Items |-> IF j = i THEN l
                                   ELSE IF j \in {} THEN None ELSE Shown[j]]
      BY <2>0, <2>4, <3>1 DEF EditItem, Shown, TypeOK
    <3>3. items[i] # None /\ lastItem' = lastItem
      BY <2>4 DEF EditItem
    <3>4. {} \in SUBSET Items /\ i \notin {} /\ \A j \in {} : items[j] # None
      OBVIOUS
    <3> QED BY <2>0, <3>2, <3>3, <3>4, Enters
  <2>5. ASSUME NEW c \in Colls, DeleteColl(c)
        PROVE  [Table!TableNext]_(Table!tableVars)
    <3>1. /\ ItemsOf(c) \in SUBSET Items
          /\ \A j \in ItemsOf(c) : items[j] # None
      BY DEF ItemsOf
    <3> QED BY <2>0, <2>5, <3>1, Removes DEF DeleteColl
  <2>6. ASSUME NEW r \in Reqs, Store(r)
        PROVE  [Table!TableNext]_(Table!tableVars)
    BY <1>1, <2>6, StoreImplements
  <2> QED BY <1>1, <2>1, <2>2, <2>3, <2>4, <2>5, <2>6
          DEF Next, vars, Park, Drop, Review, Prepare, Leave
<1>2. Spec => Table!TableInit /\ [][Table!TableNext]_(Table!tableVars)
  BY <1>1, TableStarts, AlwaysInductive, PTL DEF Spec
<1> QED BY <1>2 DEF KeepsItemTable, Table!TableSpec
=============================================================================
