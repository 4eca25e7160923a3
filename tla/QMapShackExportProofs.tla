------------------------ MODULE QMapShackExportProofs ------------------------
(***************************************************************************)
(* Proofs about QMapShackExport, for any records, folder paths and bounds: *)
(* a run touches nothing of the owner's, removes only what is gone for     *)
(* good, and, undisturbed and without failures, leaves the archive's       *)
(* mirror.  The inductive invariant is ExportInductive.                    *)
(***************************************************************************)
EXTENDS QMapShackExport, TLAPS, WellFoundedInduction, SequenceTheorems

-----------------------------------------------------------------------------
(* Lemmas on minima, paths and folders.                                    *)

\* A set of numbers with an element has its least one.
LEMMA MinIn ==
    ASSUME NEW S \in SUBSET Nat, S # {}
    PROVE  Min(S) \in S
<1>1. PICK m \in S : \A y \in S : ~ (<<y, m>> \in OpToRel(<, Nat))
  BY NatLessThanWellFounded, WFMin
<1>2. \A y \in S : m <= y
  <2> TAKE y \in S
  <2>1. ~ (y < m)
    BY <1>1 DEF OpToRel
  <2> QED BY <2>1
<1> QED BY <1>2 DEF Min

\* The next record of a set of them is one of them.
LEMMA FirstIn ==
    ASSUME NEW S \in SUBSET Keys, S # {}
    PROVE  First(S) \in S
<1> DEFINE I == {i \in 1 .. Len(Order) : Order[i] \in S}
<1>1. I \in SUBSET Nat /\ I # {}
  <2>1. Len(Order) \in Nat
    BY ExportAssumption
  <2>2. I \in SUBSET Nat
    BY <2>1
  <2>3. PICK k \in S : TRUE
    OBVIOUS
  <2>4. PICK i \in 1 .. Len(Order) : Order[i] = k
    BY ExportAssumption
  <2>5. i \in I
    BY <2>3, <2>4
  <2> QED BY <2>2, <2>5
<1>2. Min(I) \in I
  <2> HIDE DEF I
  <2> QED BY <1>1, MinIn
<1> QED BY <1>2 DEF First

\* None is no key, record, folder or item.
LEMMA Apart ==
    /\ None \notin Keys /\ None \notin Records
    /\ None \notin FolderRow /\ None \notin ItemRow
BY ExportAssumption

\* A record's folder is named by a sequence of names.
LEMMA PathIsOne ==
    ASSUME NEW k \in Keys, NEW r \in Records
    PROVE  Path(k, r) \in Seq(Names)
<1>1. KindOf[k] \in {"trip", "track", "waypoint"} /\ r.meta \in Metas
  BY ExportAssumption DEF Records
<1> QED BY <1>1, ExportAssumption DEF Path

\* What an item says of a record is one of the things items say.
LEMMA CommentIsOne ==
    ASSUME NEW k \in Keys, NEW r \in Records
    PROVE  Comment(k, r) \in Metas \X (Geoms \cup {None})
BY DEF Comment, Records

\* The root is the folder of the empty path.
LEMMA RootAt == At(Root, <<>>)
<1> DEFINE chain == [i \in 0 .. 0 |-> Root]
<1>1. chain \in [0 .. Len(<<>>) -> {Root} \cup Folders]
  BY DEF Root
<1>2. chain[0] = Root /\ Len(<<>>) = 0
  OBVIOUS
<1> HIDE DEF chain
<1>3. \A i \in 1 .. Len(<<>>) : FALSE
  BY <1>2
<1> QED BY <1>1, <1>2, <1>3 DEF At

\* After a step a child of the folder at p is at p and its own name.
LEMMA ChildAt ==
    ASSUME NEW p \in Seq(Names), NEW f, At(f, p)', NEW g \in Folders, NEW n \in Names,
           folders'[g] = [parent |-> f, name |-> n]
    PROVE  At(g, Append(p, n))'
<1>1. PICK chain \in [0 .. Len(p) -> {Root} \cup Folders] :
          /\ chain[0] = Root /\ chain[Len(p)] = f
          /\ \A i \in 1 .. Len(p) :
                /\ chain[i] \in Folders
                /\ folders'[chain[i]] = [parent |-> chain[i - 1], name |-> p[i]]
  BY DEF At
<1> DEFINE q == Append(p, n)
           more == [i \in 0 .. Len(q) |-> IF i = Len(q) THEN g ELSE chain[i]]
<1>2. /\ q \in Seq(Names) /\ Len(q) = Len(p) + 1 /\ q[Len(q)] = n /\ Len(p) \in Nat
      /\ \A i \in 1 .. Len(p) : q[i] = p[i]
  OBVIOUS
<1> HIDE DEF q
<1>3. more \in [0 .. Len(q) -> {Root} \cup Folders]
  BY <1>1, <1>2
<1>4. more[0] = Root /\ more[Len(q)] = g
  BY <1>1, <1>2
<1>5. ASSUME NEW i \in 1 .. Len(q)
      PROVE  /\ more[i] \in Folders
             /\ folders'[more[i]] = [parent |-> more[i - 1], name |-> q[i]]
  <2>1. CASE i = Len(q)
    BY <1>1, <1>2, <2>1
  <2>2. CASE i # Len(q)
    <3>1. i \in 1 .. Len(p) /\ i - 1 \in 0 .. Len(p) /\ i - 1 # Len(q)
      BY <1>2, <2>2
    <3>2. more[i] = chain[i] /\ more[i - 1] = chain[i - 1] /\ q[i] = p[i]
      BY <1>2, <2>2, <3>1
    <3> QED BY <1>1, <3>1, <3>2
  <2> QED BY <2>1, <2>2
<1>6. At(g, q)'
  <2> HIDE DEF more
  <2> QED BY <1>3, <1>4, <1>5 DEF At
<1> QED BY <1>6 DEF q

\* The folders that are there stay as they are.
FoldersStay == \A f \in Folders : folders[f] # None => folders'[f] = folders[f]

\* Then the folder at a path stays there.
LEMMA AtStays ==
    ASSUME FoldersStay, NEW f, NEW p \in Seq(Names), At(f, p)
    PROVE  At(f, p)'
<1>1. PICK chain \in [0 .. Len(p) -> {Root} \cup Folders] :
          /\ chain[0] = Root /\ chain[Len(p)] = f
          /\ \A i \in 1 .. Len(p) :
                /\ chain[i] \in Folders
                /\ folders[chain[i]] = [parent |-> chain[i - 1], name |-> p[i]]
  BY DEF At
<1>2. ASSUME NEW i \in 1 .. Len(p)
      PROVE  folders'[chain[i]] = [parent |-> chain[i - 1], name |-> p[i]]
  <2>1. i \in 0 .. Len(p) /\ i - 1 \in 0 .. Len(p) /\ p[i] \in Names
    OBVIOUS
  <2>2. [parent |-> chain[i - 1], name |-> p[i]] \in FolderRow
    BY <1>1, <2>1 DEF FolderRow
  <2>3. folders[chain[i]] # None
    BY <1>1, <2>2, Apart
  <2> QED BY <1>1, <2>3 DEF FoldersStay
<1> QED BY <1>1, <1>2 DEF At

-----------------------------------------------------------------------------
(* The start, and what goes on beside the run.                             *)

\* What no item is in hand for.
LEMMA IdleIsOne ==
    Idle \in [key : Keys \cup {None}, at : {Root} \cup Folders, path : Seq(Names),
              row : Nat, new : BOOLEAN, moves : BOOLEAN, geom : Geoms \cup {None}]
<1>1. <<>> \in Seq(Names)
  OBVIOUS
<1> QED BY <1>1 DEF Idle

\* At the start there is nothing to be wrong about.
LEMMA InitExport == Init => ExportInductive
<1> SUFFICES ASSUME Init PROVE ExportInductive
  OBVIOUS
<1>1. /\ archive = NoList /\ list = NoList /\ todo = {} /\ known = <<>> /\ cur = Idle
      /\ stale = {} /\ pass = 0 /\ clean = TRUE /\ rest = TRUE /\ pc = "idle"
      /\ folders = [f \in Folders |-> None] /\ lastFolder = 0
      /\ file \in {"absent", "foreign", "qmapshack"}
      /\ seen = [k \in Keys |-> {}] /\ born = [k \in Keys |-> 0] /\ late = {}
  BY DEF Init
<1>2. \A i \in Items : /\ items[i] = None \/ items[i] = [comment |-> OwnerNote, geom |-> None]
                       /\ links[i] = IF items[i] = None THEN {} ELSE {Root}
                       /\ i \in Keys => items[i] = None
  BY ExportAssumption DEF Init, Items
<1>3. ExportTypeOK
  <2>1. items \in [Items -> ItemRow \cup {None}]
    <3>1. items = [i \in Items |-> items[i]]
      BY DEF Init
    <3>2. [comment |-> OwnerNote, geom |-> None] \in ItemRow
      BY DEF ItemRow
    <3> QED BY <1>2, <3>1, <3>2
  <2>2. links \in [Items -> SUBSET ({Root} \cup Folders)]
    <3>1. links = [i \in Items |-> links[i]]
      BY DEF Init
    <3> QED BY <1>2, <3>1
  <2>3. known \in Seq(Seq(Names) \X Folders)
    BY <1>1
  <2>4. pass \in 0 .. Len(Kinds)
    BY <1>1 DEF Kinds
  <2> QED BY <1>1, <2>1, <2>2, <2>3, <2>4, IdleIsOne DEF ExportTypeOK, NoList
<1>4. Ledger
  BY <1>1, <1>2 DEF Ledger, NoList, Items
<1>5. NewHaveNoItem
  BY <1>1 DEF NewHaveNoItem, NoList, Heard
<1>6. WorksOnListed
  BY <1>1 DEF WorksOnListed, InHand, Placing
<1>7. TripsHaveOneLine
  BY <1>1 DEF TripsHaveOneLine, NoList
<1>8. Undisturbed
  <2>1. OnItsPath
    BY <1>1 DEF OnItsPath, Placing
  <2>2. Found
    BY <1>1 DEF Found
  <2>3. Achieved
    BY <1>1 DEF Achieved, InHand, Placing
  <2> QED BY <1>1, <2>1, <2>2, <2>3 DEF Undisturbed, Heard
<1> QED BY <1>3, <1>4, <1>5, <1>6, <1>7, <1>8 DEF ExportInductive

\* A record comes, changes or goes: a new one has a new id, and a trip keeps
\* its line.
LEMMA ChangeKeeps ==
    ASSUME ExportInductive, NEW k \in Keys, NEW r \in Records \cup {None}, Change(k, r)
    PROVE  ExportInductive'
<1>1. ExportTypeOK /\ Ledger /\ NewHaveNoItem /\ WorksOnListed /\ TripsHaveOneLine
  BY DEF ExportInductive
<1>2. /\ UNCHANGED <<file, folders, lastFolder, items, born, links, late>>
      /\ UNCHANGED <<pc, list, todo, known, cur, pass, stale, clean>>
      /\ rest' = FALSE /\ archive' = [archive EXCEPT ![k] = r]
      /\ seen' = [seen EXCEPT ![k] = IF r = None THEN @ ELSE @ \cup {r}]
      /\ archive[k] = None => seen[k] = {} /\ r # None
      /\ r # None /\ archive[k] # None /\ KindOf[k] = "trip" => r.geom = archive[k].geom
  BY DEF Change, targetVars, runVars, Unused
<1>s. \A q \in Keys : seen[q] \subseteq seen'[q]
  BY <1>1, <1>2 DEF ExportTypeOK
<1>3. /\ \A q \in Keys : q # k => archive'[q] = archive[q]
      /\ archive'[k] = r
  BY <1>1, <1>2 DEF ExportTypeOK
<1>4. ExportTypeOK'
  BY <1>1, <1>2 DEF ExportTypeOK
<1>5. Ledger'
  <2>1. archive'[k] # None => archive'[k] \in seen'[k]
    BY <1>1, <1>2, <1>3 DEF ExportTypeOK
  <2>2. \A q \in Keys : seen[q] # {} => seen'[q] # {}
    BY <1>s
  <2> QED BY <1>1, <1>2, <1>3, <1>s, <2>1, <2>2 DEF Ledger
<1>6. NewHaveNoItem'
  BY <1>1, <1>2, <1>3 DEF NewHaveNoItem, Ledger, Heard
<1>7. WorksOnListed'
  BY <1>1, <1>2 DEF WorksOnListed
<1>8. TripsHaveOneLine'
  <2>1. pc = "write" /\ cur.key = k => list[k] \in seen[k]
    BY <1>1 DEF WorksOnListed, InHand, Placing, Ledger
  <2>2. \A q \in Keys : q # k => seen'[q] = seen[q]
    BY <1>1, <1>2 DEF ExportTypeOK
  <2>3. seen'[k] = IF r = None THEN seen[k] ELSE seen[k] \cup {r}
    BY <1>1, <1>2 DEF ExportTypeOK
  <2>4. archive[k] # None => archive[k] \in seen[k] /\ archive[k] \in Records
    BY <1>1 DEF Ledger, ExportTypeOK
  <2>5. ASSUME NEW q \in Keys, NEW a \in Records, KindOf[q] = "trip", a \in seen'[q]
        PROVE  /\ \A b \in seen'[q] : b.geom = a.geom
               /\ items'[q] # None => items'[q].geom = a.geom
               /\ pc' = "write" /\ cur'.key = q => cur'.geom = a.geom
    <3>1. CASE q # k \/ r = None
      BY <1>1, <1>2, <2>2, <2>3, <2>5, <3>1 DEF TripsHaveOneLine
    <3>2. CASE q = k /\ r # None /\ archive[k] = None
      BY <1>1, <1>2, <2>1, <2>3, <2>5, <3>2 DEF Ledger
    <3>3. CASE q = k /\ r # None /\ archive[k] # None
      <4>1. /\ \A b \in seen[k] : b.geom = archive[k].geom
            /\ items[k] # None => items[k].geom = archive[k].geom
            /\ pc = "write" /\ cur.key = k => cur.geom = archive[k].geom
        BY <1>1, <2>4, <2>5, <3>3 DEF TripsHaveOneLine
      <4>2. r.geom = archive[k].geom
        BY <1>2, <2>5, <3>3
      <4>3. \A b \in seen'[k] : b.geom = archive[k].geom
        BY <2>3, <4>1, <4>2
      <4> QED BY <1>2, <2>5, <3>3, <4>1, <4>3
    <3> QED BY <3>1, <3>2, <3>3
  <2> QED BY <2>5 DEF TripsHaveOneLine
<1>9. Undisturbed'
  BY <1>2 DEF Undisturbed
<1> QED BY <1>4, <1>5, <1>6, <1>7, <1>8, <1>9 DEF ExportInductive

\* What the owner does in QMapShack adds no item and gives none another line.
LEMMA OwnerKeeps ==
    ASSUME ExportInductive, Owner,
           folders' \in [Folders -> FolderRow \cup {None}],
           items' \in [Items -> ItemRow \cup {None}],
           links' \in [Items -> SUBSET ({Root} \cup Folders)],
           \A f \in Folders : folders'[f] # None => folders[f] # None,
           \A i \in Items : /\ items'[i] # None => items[i] # None
                            /\ items'[i] # None => items'[i].geom = items[i].geom
                            /\ items'[i] = None => links'[i] = {}
    PROVE  ExportInductive'
<1>1. ExportTypeOK /\ Ledger /\ NewHaveNoItem /\ WorksOnListed /\ TripsHaveOneLine
  BY DEF ExportInductive
<1>2. /\ UNCHANGED <<archive, seen, file, lastFolder, born, late>>
      /\ UNCHANGED <<pc, list, todo, known, cur, pass, stale, clean>>
      /\ rest' = FALSE
  BY DEF Owner, archiveVars, runVars
<1>3. Keys \subseteq Items
  BY DEF Items
<1>4. ExportTypeOK'
  BY <1>1, <1>2 DEF ExportTypeOK
<1>5. Ledger'
  BY <1>1, <1>2, <1>3 DEF Ledger
<1>6. NewHaveNoItem'
  BY <1>1, <1>2, <1>3 DEF NewHaveNoItem, Heard
<1>7. WorksOnListed'
  BY <1>1, <1>2 DEF WorksOnListed
<1>8. TripsHaveOneLine'
  BY <1>1, <1>2, <1>3 DEF TripsHaveOneLine
<1>9. Undisturbed'
  BY <1>2 DEF Undisturbed
<1> QED BY <1>4, <1>5, <1>6, <1>7, <1>8, <1>9 DEF ExportInductive

\* Every act of the owner's is such.
LEMMA OwnersActKeeps ==
    ASSUME ExportInductive,
           \/ \E i \in Items, where \in SUBSET (Folders \cup {Root}) : OwnerFiles(i, where)
           \/ \E i \in Items : OwnerEdits(i)
           \/ OwnerEmptiesTrash
           \/ \E f \in Folders : OwnerDropsFolder(f)
    PROVE  ExportInductive'
<1>1. ExportTypeOK /\ Ledger
  BY DEF ExportInductive
<1>2. CASE \E i \in Items, where \in SUBSET (Folders \cup {Root}) : OwnerFiles(i, where)
  <2>1. PICK i \in Items, where \in SUBSET (Folders \cup {Root}) : OwnerFiles(i, where)
    BY <1>2
  <2>2. /\ Owner /\ UNCHANGED <<folders, items>> /\ items[i] # None
        /\ links' = [links EXCEPT ![i] = where]
    BY <2>1 DEF OwnerFiles
  <2>3. links' \in [Items -> SUBSET ({Root} \cup Folders)]
    BY <1>1, <2>2 DEF ExportTypeOK
  <2> QED BY <1>1, <2>2, <2>3, OwnerKeeps DEF ExportTypeOK, Ledger
<1>3. CASE \E i \in Items : OwnerEdits(i)
  <2>1. PICK i \in Items : OwnerEdits(i)
    BY <1>3
  <2>2. /\ Owner /\ UNCHANGED <<folders, links>> /\ items[i] # None /\ items[i] \in ItemRow
        /\ items' = [items EXCEPT ![i].comment = OwnerNote]
    BY <1>1, <2>1 DEF OwnerEdits, ExportTypeOK
  <2>3. PICK row : row = [items[i] EXCEPT !.comment = OwnerNote]
    OBVIOUS
  <2>4. row \in ItemRow /\ row.geom = items[i].geom
    BY <2>2, <2>3 DEF ItemRow
  <2>5. items' = [items EXCEPT ![i] = row]
    BY <2>2, <2>3
  <2>6. items' \in [Items -> ItemRow \cup {None}] /\ row # None
    BY <1>1, <2>4, <2>5, Apart DEF ExportTypeOK
  <2> QED BY <1>1, <2>2, <2>4, <2>5, <2>6, OwnerKeeps DEF ExportTypeOK, Ledger
<1>4. CASE OwnerEmptiesTrash
  <2>1. /\ Owner /\ UNCHANGED <<folders, links>>
        /\ items' = [i \in Items |-> IF links[i] = {} THEN None ELSE items[i]]
    BY <1>4 DEF OwnerEmptiesTrash
  <2>2. items' \in [Items -> ItemRow \cup {None}]
    BY <1>1, <2>1 DEF ExportTypeOK
  <2> QED BY <1>1, <2>1, <2>2, OwnerKeeps DEF ExportTypeOK, Ledger
<1>5. CASE \E f \in Folders : OwnerDropsFolder(f)
  <2>1. PICK f \in Folders : OwnerDropsFolder(f)
    BY <1>5
  <2>2. /\ Owner /\ UNCHANGED items
        /\ folders' = [folders EXCEPT ![f] = None]
        /\ links' = [i \in Items |-> links[i] \ {f}]
    BY <2>1 DEF OwnerDropsFolder
  <2>3. /\ folders' \in [Folders -> FolderRow \cup {None}]
        /\ links' \in [Items -> SUBSET ({Root} \cup Folders)]
    BY <1>1, <2>2 DEF ExportTypeOK
  <2> QED BY <1>1, <2>2, <2>3, OwnerKeeps DEF ExportTypeOK, Ledger
<1> QED BY <1>2, <1>3, <1>4, <1>5

\* What another run writes is an item of a record that the archive has had,
\* with a line it has had: a new one counts as late where this run has heard.
LEMMA AnotherKeeps ==
    ASSUME ExportInductive, Another,
           file' \in {"absent", "empty", "foreign", "qmapshack"},
           folders' \in [Folders -> FolderRow \cup {None}], lastFolder' \in Nat,
           items' \in [Items -> ItemRow \cup {None}], born' \in [Keys -> Nat],
           links' \in [Items -> SUBSET ({Root} \cup Folders)],
           late' \in SUBSET Keys, late \subseteq late',
           \A f \in Folders : folders'[f] # None => f <= lastFolder',
           \A i \in Items : items'[i] = None => links'[i] = {},
           \A k \in Keys : items'[k] # None =>
              /\ seen[k] # {}
              /\ items'[k] = items[k] \/ \E b \in seen[k] : items'[k].geom = b.geom
                                     \/ KindOf[k] # "trip"
              /\ items[k] = None /\ Heard(k) => k \in late'
    PROVE  ExportInductive'
<1>1. ExportTypeOK /\ Ledger /\ NewHaveNoItem /\ WorksOnListed /\ TripsHaveOneLine
  BY DEF ExportInductive
<1>2. /\ UNCHANGED <<archive, seen>>
      /\ UNCHANGED <<pc, list, todo, known, cur, pass, stale, clean>>
      /\ rest' = FALSE
  BY DEF Another, archiveVars, runVars
<1>4. ExportTypeOK'
  BY <1>1, <1>2 DEF ExportTypeOK
<1>5. Ledger'
  BY <1>1, <1>2 DEF Ledger
<1>6. NewHaveNoItem'
  BY <1>1, <1>2 DEF NewHaveNoItem, Heard
<1>7. WorksOnListed'
  BY <1>1, <1>2 DEF WorksOnListed
<1>8. TripsHaveOneLine'
  <2>1. ASSUME NEW k \in Keys, NEW r \in Records, KindOf[k] = "trip", r \in seen[k], items'[k] # None
        PROVE  items'[k].geom = r.geom
    <3>1. \A b \in seen[k] : b.geom = r.geom
      BY <1>1, <2>1 DEF TripsHaveOneLine
    <3>2. CASE items'[k] = items[k]
      BY <1>1, <2>1, <3>2 DEF TripsHaveOneLine
    <3>3. CASE items'[k] # items[k]
      BY <2>1, <3>1, <3>3
    <3> QED BY <3>2, <3>3
  <2> QED BY <1>1, <1>2, <2>1 DEF TripsHaveOneLine
<1>9. Undisturbed'
  BY <1>2 DEF Undisturbed
<1> QED BY <1>4, <1>5, <1>6, <1>7, <1>8, <1>9 DEF ExportInductive

\* The item another run writes.
LEMMA AnotherContentIs ==
    ASSUME ExportTypeOK, NEW k \in Keys, NEW r \in Records, NEW g \in Geoms, AnotherContent(k, r, g)
    PROVE  /\ items' \in [Items -> ItemRow \cup {None}]
           /\ \A i \in Items : i # k => items'[i] = items[i]
           /\ items'[k] # None /\ seen[k] # {}
           /\ (\E b \in seen[k] : items'[k].geom = b.geom) \/ KindOf[k] # "trip"
<1>1. PICK row : row = [comment |-> Comment(k, r), geom |-> g]
  OBVIOUS
<1>2. row \in ItemRow /\ row # None /\ row.geom = g
  BY <1>1, CommentIsOne, Apart DEF ItemRow
<1>3. k \in Items /\ items' = [items EXCEPT ![k] = row] /\ r \in seen[k]
  BY <1>1 DEF AnotherContent, Items
<1>4. items'[k] = row
  BY <1>3 DEF ExportTypeOK
<1>5. (\E b \in seen[k] : g = b.geom) \/ KindOf[k] # "trip"
  BY DEF AnotherContent
<1> QED BY <1>2, <1>3, <1>4, <1>5 DEF ExportTypeOK

\* Every write of another run's is such.
LEMMA AnotherRunKeeps ==
    ASSUME ExportInductive,
           \/ AnotherOpens
           \/ \E p \in {Root} \cup Folders, n \in Names : AnotherMakesFolder(p, n)
           \/ \E k \in Keys, r \in Records, g \in Geoms, f \in Folders : AnotherInserts(k, r, g, f)
           \/ \E k \in Keys, r \in Records, g \in Geoms : AnotherUpdates(k, r, g)
           \/ \E k \in Keys, f \in Folders : AnotherFiles(k, f)
           \/ \E k \in Keys : AnotherTrashes(k)
    PROVE  ExportInductive'
<1>1. ExportTypeOK /\ Ledger /\ Keys \subseteq Items
  BY DEF ExportInductive, Items
<1>0. /\ file \in {"absent", "empty", "foreign", "qmapshack"}
      /\ folders \in [Folders -> FolderRow \cup {None}] /\ lastFolder \in Nat
      /\ items \in [Items -> ItemRow \cup {None}] /\ born \in [Keys -> Nat]
      /\ links \in [Items -> SUBSET ({Root} \cup Folders)] /\ late \in SUBSET Keys
      /\ \A f \in Folders : folders[f] # None => f <= lastFolder
      /\ \A i \in Items : items[i] = None => links[i] = {}
      /\ \A k \in Keys : items[k] # None => seen[k] # {}
  BY <1>1 DEF ExportTypeOK, Ledger
<1>2. CASE AnotherOpens
  <2>1. Another /\ file' \in {"empty", "qmapshack"}
        /\ UNCHANGED <<folders, lastFolder, items, born, links, late>>
    BY <1>2 DEF AnotherOpens
  <2> QED BY <1>0, <2>1, AnotherKeeps
<1>3. CASE \E p \in {Root} \cup Folders, n \in Names : AnotherMakesFolder(p, n)
  <2>1. PICK p \in {Root} \cup Folders, n \in Names : AnotherMakesFolder(p, n)
    BY <1>3
  <2>2. /\ Another /\ UNCHANGED <<file, items, born, links, late>>
        /\ lastFolder' = lastFolder + 1 /\ lastFolder' \in Folders
        /\ folders' = [folders EXCEPT ![lastFolder'] = [parent |-> p, name |-> n]]
    BY <2>1 DEF AnotherMakesFolder, Writes
  <2>3. [parent |-> p, name |-> n] \in FolderRow
    BY DEF FolderRow
  <2>4. folders' \in [Folders -> FolderRow \cup {None}] /\ lastFolder' \in Nat
    BY <1>0, <2>2, <2>3
  <2>5. ASSUME NEW f \in Folders, folders'[f] # None PROVE f <= lastFolder'
    <3>1. f \in Nat
      BY ExportAssumption DEF Folders
    <3>2. CASE f = lastFolder'
      BY <3>1, <3>2
    <3>3. CASE f # lastFolder'
      <4>1. f <= lastFolder
        BY <1>0, <2>2, <2>5, <3>3
      <4> QED BY <1>0, <2>2, <3>1, <4>1
    <3> QED BY <3>2, <3>3
  <2> QED BY <1>0, <2>2, <2>4, <2>5, AnotherKeeps
<1>4. CASE \E k \in Keys, r \in Records, g \in Geoms, f \in Folders : AnotherInserts(k, r, g, f)
  <2>1. PICK k \in Keys, r \in Records, g \in Geoms, f \in Folders : AnotherInserts(k, r, g, f)
    BY <1>4
  <2>2. /\ Another /\ UNCHANGED <<file, folders, lastFolder>>
        /\ items[k] = None /\ AnotherContent(k, r, g)
        /\ born' = [born EXCEPT ![k] = born[k] + 1]
        /\ links' = [links EXCEPT ![k] = {f}]
        /\ late' = IF Heard(k) THEN late \cup {k} ELSE late
    BY <2>1 DEF AnotherInserts, Writes
  <2>3. /\ items' \in [Items -> ItemRow \cup {None}]
        /\ \A i \in Items : i # k => items'[i] = items[i]
        /\ items'[k] # None /\ seen[k] # {}
        /\ (\E b \in seen[k] : items'[k].geom = b.geom) \/ KindOf[k] # "trip"
    BY <1>1, <2>2, AnotherContentIs
  <2>4. /\ born' \in [Keys -> Nat] /\ links' \in [Items -> SUBSET ({Root} \cup Folders)]
        /\ late' \in SUBSET Keys /\ late \subseteq late'
    BY <1>0, <1>1, <2>2
  <2>5. \A i \in Items : items'[i] = None => links'[i] = {}
    BY <1>0, <1>1, <2>2, <2>3
  <2>6. \A q \in Keys : items'[q] # None =>
           /\ seen[q] # {}
           /\ items'[q] = items[q] \/ \E b \in seen[q] : items'[q].geom = b.geom
                                  \/ KindOf[q] # "trip"
           /\ items[q] = None /\ Heard(q) => q \in late'
    BY <1>0, <1>1, <2>2, <2>3
  <2> QED BY <1>0, <2>2, <2>3, <2>4, <2>5, <2>6, AnotherKeeps
<1>5. CASE \E k \in Keys, r \in Records, g \in Geoms : AnotherUpdates(k, r, g)
  <2>1. PICK k \in Keys, r \in Records, g \in Geoms : AnotherUpdates(k, r, g)
    BY <1>5
  <2>2. /\ Another /\ UNCHANGED <<file, folders, lastFolder, born, links, late>>
        /\ items[k] # None /\ AnotherContent(k, r, g)
    BY <2>1 DEF AnotherUpdates, Writes
  <2>3. /\ items' \in [Items -> ItemRow \cup {None}]
        /\ \A i \in Items : i # k => items'[i] = items[i]
        /\ items'[k] # None /\ seen[k] # {}
        /\ (\E b \in seen[k] : items'[k].geom = b.geom) \/ KindOf[k] # "trip"
    BY <1>1, <2>2, AnotherContentIs
  <2>5. \A i \in Items : items'[i] = None => links'[i] = {}
    BY <1>0, <1>1, <2>2, <2>3
  <2>6. \A q \in Keys : items'[q] # None =>
           /\ seen[q] # {}
           /\ items'[q] = items[q] \/ \E b \in seen[q] : items'[q].geom = b.geom
                                  \/ KindOf[q] # "trip"
           /\ items[q] = None /\ Heard(q) => q \in late'
    BY <1>0, <1>1, <2>2, <2>3
  <2> QED BY <1>0, <2>2, <2>3, <2>5, <2>6, AnotherKeeps
<1>6. CASE (\E k \in Keys, f \in Folders : AnotherFiles(k, f)) \/ (\E k \in Keys : AnotherTrashes(k))
  <2>1. PICK k \in Keys, where \in SUBSET Folders :
           /\ Another /\ UNCHANGED <<file, folders, lastFolder, items, born, late>>
           /\ items[k] # None
           /\ links' = [links EXCEPT ![k] = where]
    <3>1. CASE \E k \in Keys, f \in Folders : AnotherFiles(k, f)
      <4>1. PICK k \in Keys, f \in Folders : AnotherFiles(k, f)
        BY <3>1
      <4>2. PICK where \in SUBSET Folders : where = {f}
        OBVIOUS
      <4> QED BY <4>1, <4>2 DEF AnotherFiles, Writes
    <3>2. CASE \E k \in Keys : AnotherTrashes(k)
      <4>1. PICK k \in Keys : AnotherTrashes(k)
        BY <3>2
      <4>2. PICK where \in SUBSET Folders : where = {}
        OBVIOUS
      <4>3. items[k] # None
        BY <1>0, <1>1, <4>1 DEF AnotherTrashes
      <4> QED BY <4>1, <4>2, <4>3 DEF AnotherTrashes, Writes
    <3> QED BY <1>6, <3>1, <3>2
  <2>2. /\ links' \in [Items -> SUBSET ({Root} \cup Folders)]
        /\ \A i \in Items : items'[i] = None => links'[i] = {}
    BY <1>0, <1>1, <2>1
  <2> QED BY <1>0, <2>1, <2>2, AnotherKeeps
<1> QED BY <1>2, <1>3, <1>4, <1>5, <1>6

-----------------------------------------------------------------------------
(* The lists, and the target opened.                                       *)

\* The run's two steps that read read what the archive holds.
LEMMA ReadTripsKeeps ==
    ASSUME ExportInductive, ReadTrips
    PROVE  ExportInductive'
<1>1. ExportTypeOK /\ Ledger /\ TripsHaveOneLine
  BY DEF ExportInductive
<1>2. /\ UNCHANGED <<archive, seen, file, folders, lastFolder, items, born, links>>
      /\ pc' = "trips" /\ rest' = TRUE /\ late' = {}
      /\ list' = [k \in Keys |-> IF KindOf[k] = "trip" THEN archive[k] ELSE None]
      /\ todo' = {} /\ known' = <<>> /\ cur' = Idle /\ pass' = 0 /\ stale' = {} /\ clean' = TRUE
  BY DEF ReadTrips, archiveVars, targetVars
<1>3. ExportTypeOK'
  <2>1. known' \in Seq(Seq(Names) \X Folders)
    BY <1>2
  <2>2. pass' \in 0 .. Len(Kinds)
    BY <1>2 DEF Kinds
  <2>3. list' \in [Keys -> Records \cup {None}]
    BY <1>1, <1>2 DEF ExportTypeOK
  <2> QED BY <1>1, <1>2, <2>1, <2>2, <2>3, IdleIsOne DEF ExportTypeOK
<1>4. Ledger'
  BY <1>1, <1>2 DEF Ledger
<1>5. NewHaveNoItem'
  BY <1>1, <1>2 DEF NewHaveNoItem, Heard, Ledger
<1>6. WorksOnListed'
  BY <1>2 DEF WorksOnListed, InHand, Placing
<1>7. TripsHaveOneLine'
  BY <1>1, <1>2 DEF TripsHaveOneLine
<1>8. Undisturbed'
  BY <1>2 DEF Undisturbed, Heard, OnItsPath, Found, Achieved, InHand, Placing
<1> QED BY <1>3, <1>4, <1>5, <1>6, <1>7, <1>8 DEF ExportInductive

LEMMA ReadCollectionsKeeps ==
    ASSUME ExportInductive, ReadCollections
    PROVE  ExportInductive'
<1>1. /\ ExportTypeOK /\ Ledger /\ NewHaveNoItem /\ WorksOnListed /\ TripsHaveOneLine
      /\ Undisturbed
  BY DEF ExportInductive
<1>2. /\ UNCHANGED <<archive, seen, file, folders, lastFolder, items, born, links, rest, late>>
      /\ UNCHANGED <<todo, known, cur, pass, stale, clean>>
      /\ pc = "trips" /\ pc' = "listed"
      /\ list' = [k \in Keys |-> IF KindOf[k] = "trip" THEN list[k] ELSE archive[k]]
  BY DEF ReadCollections, Step, archiveVars, targetVars
<1>3. ExportTypeOK'
  <2>1. list' \in [Keys -> Records \cup {None}]
    BY <1>1, <1>2 DEF ExportTypeOK
  <2> QED BY <1>1, <1>2, <2>1 DEF ExportTypeOK, AfterLists
<1>4. Ledger'
  BY <1>1, <1>2 DEF Ledger
<1>5. NewHaveNoItem'
  BY <1>1, <1>2 DEF NewHaveNoItem, WorksOnListed, Heard, Ledger
<1>6. WorksOnListed'
  <2>1. \A k \in todo : list'[k] # None
    BY <1>1, <1>2 DEF WorksOnListed, NewHaveNoItem, Heard, ExportTypeOK, AfterLists, Placing
  <2> QED BY <1>1, <1>2, <2>1 DEF WorksOnListed, InHand, Placing
<1>7. TripsHaveOneLine'
  BY <1>1, <1>2 DEF TripsHaveOneLine
<1>8. Undisturbed'
  <2>1. SUFFICES ASSUME rest PROVE Undisturbed'
    BY <1>2 DEF Undisturbed
  <2>2. \A k \in Keys : list'[k] = archive'[k]
    BY <1>1, <1>2, <2>1 DEF Undisturbed, Heard
  <2>3. OnItsPath'
    <3>1. ASSUME NEW i \in 1 .. Len(known) PROVE At(known[i][2], known[i][1])'
      <4>1. At(known[i][2], known[i][1])
        BY <1>1, <2>1 DEF Undisturbed, OnItsPath
      <4> QED BY <1>2, <4>1 DEF At
    <3> QED BY <1>2, <3>1 DEF OnItsPath, Placing
  <2>4. Found'
    BY <1>2 DEF Found
  <2>5. Achieved'
    BY <1>1, <1>2 DEF Achieved, WorksOnListed, InHand, Placing
  <2> QED BY <2>2, <2>3, <2>4, <2>5 DEF Undisturbed
<1> QED BY <1>3, <1>4, <1>5, <1>6, <1>7, <1>8 DEF ExportInductive

\* A step of a run with its lists that leaves the archive and the target
\* leaves what is said of the two.
LEMMA Steady ==
    ASSUME ExportInductive, pc \in AfterLists, pc' \in AfterLists,
           UNCHANGED <<archive, seen, folders, lastFolder, items, born, links, late, list>>,
           \A j \in stale' : j[1] \in Keys /\ list[j[1]] = None
    PROVE  /\ Ledger' /\ NewHaveNoItem'
           /\ \A k \in Keys : /\ Says(k)' <=> Says(k)
                              /\ Settled(k)' <=> Settled(k)
                              /\ Heard(k) /\ Heard(k)'
           /\ \A f, p : At(f, p)' <=> At(f, p)
<1>1. Ledger /\ NewHaveNoItem
  BY DEF ExportInductive
<1>2. \A k \in Keys : Heard(k) /\ Heard(k)'
  BY DEF Heard, AfterLists, Placing
<1>3. Ledger'
  BY <1>1 DEF Ledger
<1>4. NewHaveNoItem'
  BY <1>1, <1>2 DEF NewHaveNoItem
<1>5. \A f, p : At(f, p)' <=> At(f, p)
  BY DEF At
<1>6. \A k \in Keys : Says(k)' <=> Says(k)
  BY DEF Says, Comment
<1>7. \A k \in Keys : Settled(k)' <=> Settled(k)
  BY <1>5, <1>6 DEF Settled, Path
<1> QED BY <1>2, <1>3, <1>4, <1>5, <1>6, <1>7

\* The file is created; the schema is created, or is there: then the work
\* begins.
LEMMA CreateFileKeeps ==
    ASSUME ExportInductive, SeesNoFile \/ CreateFile
    PROVE  ExportInductive'
<1>1. /\ ExportTypeOK /\ NewHaveNoItem /\ WorksOnListed /\ TripsHaveOneLine
      /\ Undisturbed
  BY DEF ExportInductive
<1>2. /\ UNCHANGED <<archive, seen, folders, lastFolder, items, born, links, rest, late>>
      /\ UNCHANGED <<list, todo, known, cur, pass, stale, clean>>
      /\ pc \in {"listed", "create"} /\ pc' \in {"create", "schema"} /\ file' \in {file, "empty"}
      /\ pc \in AfterLists /\ pc' \in AfterLists
  BY DEF SeesNoFile, CreateFile, Step, archiveVars, targetVars, AfterLists
<1>3. \A j \in stale' : j[1] \in Keys /\ list[j[1]] = None
  BY <1>1, <1>2 DEF NewHaveNoItem
<1>4. /\ Ledger' /\ NewHaveNoItem'
      /\ \A f, p : At(f, p)' <=> At(f, p)
      /\ \A k \in Keys : Heard(k) /\ Heard(k)'
  BY <1>2, <1>3, Steady
<1>5. ExportTypeOK'
  BY <1>1, <1>2 DEF ExportTypeOK
<1>6. WorksOnListed'
  BY <1>1, <1>2 DEF WorksOnListed, InHand, Placing
<1>7. TripsHaveOneLine'
  BY <1>1, <1>2 DEF TripsHaveOneLine
<1>8. Undisturbed'
  <2>1. SUFFICES ASSUME rest PROVE Undisturbed'
    BY <1>2 DEF Undisturbed
  <2>2. OnItsPath'
    <3>1. ASSUME NEW i \in 1 .. Len(known) PROVE At(known[i][2], known[i][1])'
      <4>1. At(known[i][2], known[i][1])
        BY <1>1, <2>1 DEF Undisturbed, OnItsPath
      <4> QED BY <1>2, <4>1 DEF At
    <3> QED BY <1>2, <3>1 DEF OnItsPath, Placing
  <2>3. Found' /\ Achieved'
    BY <1>1, <1>2 DEF Found, Achieved, WorksOnListed, InHand, Placing
  <2> QED BY <1>1, <1>2, <1>4, <2>1, <2>2, <2>3 DEF Undisturbed
<1> QED BY <1>4, <1>5, <1>6, <1>7, <1>8 DEF ExportInductive

LEMMA OpenedKeeps ==
    ASSUME ExportInductive, Bootstrap \/ OpenTarget
    PROVE  ExportInductive'
<1>1. /\ ExportTypeOK /\ NewHaveNoItem /\ WorksOnListed /\ TripsHaveOneLine
      /\ Undisturbed
  BY DEF ExportInductive
<1>2. /\ UNCHANGED <<archive, seen, folders, lastFolder, items, born, links, rest, late>>
      /\ UNCHANGED <<list, known, cur, pass, stale, clean>>
      /\ pc \in {"listed", "schema"} /\ pc' = "next" /\ file' \in {file, "qmapshack"}
      /\ todo' = {k \in Keys : list[k] # None}
      /\ pc \in AfterLists /\ pc' \in AfterLists
  BY DEF Bootstrap, OpenTarget, Opened, Step, archiveVars, AfterLists
<1>3. \A j \in stale' : j[1] \in Keys /\ list[j[1]] = None
  BY <1>1, <1>2 DEF NewHaveNoItem
<1>4. /\ Ledger' /\ NewHaveNoItem'
      /\ \A k \in Keys : Heard(k) /\ Heard(k)'
  BY <1>2, <1>3, Steady
<1>5. ExportTypeOK'
  BY <1>1, <1>2 DEF ExportTypeOK
<1>6. WorksOnListed'
  BY <1>1, <1>2 DEF WorksOnListed, InHand, Placing
<1>7. TripsHaveOneLine'
  BY <1>1, <1>2 DEF TripsHaveOneLine
<1>8. Undisturbed'
  <2>1. SUFFICES ASSUME rest PROVE Undisturbed'
    BY <1>2 DEF Undisturbed
  <2>2. OnItsPath'
    <3>1. ASSUME NEW i \in 1 .. Len(known) PROVE At(known[i][2], known[i][1])'
      <4>1. At(known[i][2], known[i][1])
        BY <1>1, <2>1 DEF Undisturbed, OnItsPath
      <4> QED BY <1>2, <4>1 DEF At
    <3> QED BY <1>2, <3>1 DEF OnItsPath, Placing
  <2>3. Found' /\ Achieved'
    BY <1>1, <1>2 DEF Found, Achieved, WorksOnListed, InHand, Placing
  <2> QED BY <1>1, <1>2, <1>4, <2>1, <2>2, <2>3 DEF Undisturbed
<1> QED BY <1>4, <1>5, <1>6, <1>7, <1>8 DEF ExportInductive

-----------------------------------------------------------------------------
(* One item after the other.                                               *)

\* Where the folders stay, what is known of them stays true.
LEMMA KnownStay ==
    ASSUME ExportTypeOK, FoldersStay, UNCHANGED known, OnItsPath
    PROVE  (\A i \in 1 .. Len(known) : At(known[i][2], known[i][1]))'
<1> SUFFICES ASSUME NEW i \in 1 .. Len(known)
             PROVE  At(known[i][2], known[i][1])'
  OBVIOUS
<1>1. known[i] \in Seq(Names) \X Folders
  BY DEF ExportTypeOK
<1>2. PICK f, p : f = known[i][2] /\ p = known[i][1] /\ p \in Seq(Names)
  BY <1>1
<1>3. At(f, p)
  BY <1>2 DEF OnItsPath
<1>4. At(f, p)'
  BY <1>2, <1>3, AtStays
<1> QED BY <1>2, <1>4 DEF At

\* The path that the item in hand is to have.
LEMMA ItsPath ==
    ASSUME ExportTypeOK, WorksOnListed, pc \in InHand
    PROVE  /\ cur.key \in Keys /\ list[cur.key] \in Records
           /\ Path(cur.key, list[cur.key]) \in Seq(Names)
<1>1. cur.key \in Keys /\ list[cur.key] \in Records
  BY DEF WorksOnListed, ExportTypeOK
<1> QED BY <1>1, PathIsOne

\* The next record: its folder is known, or is to be walked to.
LEMMA NextItemKeeps ==
    ASSUME ExportInductive, NextItem
    PROVE  ExportInductive'
<1>1. /\ ExportTypeOK /\ NewHaveNoItem /\ WorksOnListed /\ TripsHaveOneLine
      /\ Undisturbed
  BY DEF ExportInductive
<1>k. PICK k : k = First(todo)
  OBVIOUS
<1>p. PICK p : p = Path(k, list[k])
  OBVIOUS
<1>h. PICK hit : hit = {f \in Folders : \E i \in 1 .. Len(known) : known[i] = <<p, f>>}
  OBVIOUS
<1>2. k \in todo /\ k \in Keys /\ list[k] \in Records
  <2>1. todo \in SUBSET Keys /\ todo # {}
    BY <1>1 DEF NextItem, ExportTypeOK
  <2>2. First(todo) \in todo
    BY <2>1, FirstIn
  <2> QED BY <1>1, <1>k, <2>1, <2>2 DEF WorksOnListed, ExportTypeOK
<1>3. p \in Seq(Names)
  BY <1>2, <1>p, PathIsOne
<1>4. /\ UNCHANGED <<archive, seen, file, folders, lastFolder, items, born, links, rest, late>>
      /\ UNCHANGED <<list, known, pass, stale, clean>>
      /\ pc = "next" /\ todo' = todo \ {k}
      /\ pc \in AfterLists
  BY <1>k DEF NextItem, Step, archiveVars, targetVars, AfterLists
<1>5. \/ hit # {} /\ pc' = "look" /\ cur' = [Idle EXCEPT !.key = k, !.at = Min(hit)]
      \/ pc' = "walk" /\ cur' = [Idle EXCEPT !.key = k, !.path = p]
  BY <1>k, <1>p, <1>h DEF NextItem, Step
<1>6. hit # {} => Min(hit) \in hit
  <2>1. hit \in SUBSET Nat
    BY <1>h, ExportAssumption DEF Folders
  <2> QED BY <2>1, MinIn
<1>7. \/ /\ pc' = "look" /\ \E f \in hit : cur' = [key |-> k, at |-> f, path |-> <<>>, row |-> 0, new |-> FALSE,
                                      moves |-> FALSE, geom |-> None]
      \/ pc' = "walk" /\ cur' = [key |-> k, at |-> Root, path |-> p, row |-> 0, new |-> FALSE,
                                      moves |-> FALSE, geom |-> None]
  <2> QED BY <1>5, <1>6 DEF Idle
<1>8. /\ \/ pc' = "look" /\ cur'.at \in hit
         \/ pc' = "walk" /\ cur'.at = Root /\ cur'.path = p
      /\ cur'.key = k
      /\ cur' \in [key : Keys \cup {None}, at : {Root} \cup Folders, path : Seq(Names),
                   row : Nat, new : BOOLEAN, moves : BOOLEAN, geom : Geoms \cup {None}]
  <2>1. \A f \in hit : f \in Folders
    BY <1>h
  <2>2. <<>> \in Seq(Names)
    OBVIOUS
  <2>3. CASE pc' = "look" /\ \E f \in hit : cur' = [key |-> k, at |-> f, path |-> <<>>,
                                      row |-> 0, new |-> FALSE, moves |-> FALSE, geom |-> None]
    BY <1>2, <2>1, <2>2, <2>3
  <2>4. CASE pc' = "walk" /\ cur' = [key |-> k, at |-> Root, path |-> p, row |-> 0, new |-> FALSE,
                                      moves |-> FALSE, geom |-> None]
    BY <1>2, <1>3, <2>4
  <2> QED BY <1>7, <2>3, <2>4
<1>9. pc' \in AfterLists /\ \A j \in stale' : j[1] \in Keys /\ list[j[1]] = None
  BY <1>1, <1>4, <1>8 DEF NewHaveNoItem, AfterLists, Placing
<1>10. /\ Ledger' /\ NewHaveNoItem'
       /\ \A f, q : At(f, q)' <=> At(f, q)
       /\ \A q \in Keys : /\ Heard(q) /\ Heard(q)'
                          /\ Settled(q)' <=> Settled(q)
  BY <1>4, <1>9, Steady
<1>11. ExportTypeOK'
  BY <1>1, <1>4, <1>8, <1>9 DEF ExportTypeOK
<1>12. WorksOnListed'
  BY <1>1, <1>2, <1>4, <1>8, <1>h, Apart DEF WorksOnListed, InHand, Placing
<1>13. TripsHaveOneLine'
  BY <1>1, <1>4, <1>8 DEF TripsHaveOneLine
<1>14. Undisturbed'
  <2>1. SUFFICES ASSUME rest PROVE Undisturbed'
    BY <1>4 DEF Undisturbed
  <2>2. OnItsPath
    BY <1>1, <2>1 DEF Undisturbed
  <2>3. (\A i \in 1 .. Len(known) : At(known[i][2], known[i][1]))'
    BY <1>1, <1>4, <2>2, KnownStay DEF FoldersStay
  <2>p. Path(cur.key, list[cur.key])' = p
    BY <1>p, <1>4, <1>8 DEF Path
  <2>4. (pc \in {"walk", "make"} => \E n \in 0 .. Len(p) : /\ At(cur.at, SubSeq(p, 1, n))
                                               /\ cur.path = SubSeq(p, n + 1, Len(p)))'
    <3>1. SUFFICES ASSUME pc' = "walk"
                   PROVE  /\ At(cur.at, SubSeq(p, 1, 0))'
                          /\ cur'.path = SubSeq(p, 0 + 1, Len(p))
                          /\ 0 \in 0 .. Len(p)
      BY <1>8
    <3>2. SubSeq(p, 1, 0) = <<>> /\ SubSeq(p, 1, Len(p)) = p /\ 0 \in 0 .. Len(p)
      <4> QED BY <1>3, SubSeqFull, SubSeqEmpty
    <3>3. At(Root, <<>>)'
      BY <1>4, RootAt DEF At
    <3> QED BY <1>8, <3>1, <3>2, <3>3 DEF At
  <2>5. (pc \in Placing => At(cur.at, p))'
    <3>1. SUFFICES ASSUME pc' = "look" PROVE At(cur.at, p)'
      BY <1>8 DEF Placing
    <3>2. PICK f \in hit : f = cur'.at
      BY <1>8, <3>1
    <3>3. PICK i \in 1 .. Len(known) : known[i] = <<p, f>>
      BY <1>h, <3>2
    <3>4. At(known[i][2], known[i][1])
      BY <2>2 DEF OnItsPath
    <3> QED BY <1>4, <3>2, <3>3, <3>4 DEF At
  <2>6. OnItsPath'
    BY <2>p, <2>3, <2>4, <2>5 DEF OnItsPath
  <2>7. Found'
    BY <1>8 DEF Found
  <2>8. ASSUME clean PROVE Achieved'
    <3>1. Achieved
      BY <1>1, <2>1, <2>8 DEF Undisturbed
    <3>2. pc \in InHand \cup {"next", "done"} /\ pc \notin InHand /\ pc' \in InHand
      BY <1>4, <1>8 DEF InHand, Placing
    <3>3. ASSUME NEW q \in Keys \ todo', list'[q] # None, q # cur'.key
          PROVE  Settled(q)'
      BY <1>4, <1>8, <1>10, <3>1, <3>2, <3>3 DEF Achieved
    <3>4. ASSUME NEW q \in Keys, NEW n \in 1 .. pass', KindOf[q] = Kinds[n], list'[q] = None
          PROVE  items'[q] = None \/ links'[q] = {} \/ <<q, born'[q]>> \in stale'
      BY <1>4, <3>1, <3>4 DEF Achieved
    <3> QED BY <3>2, <3>3, <3>4 DEF Achieved
  <2> QED BY <1>1, <1>4, <1>10, <2>1, <2>6, <2>7, <2>8 DEF Undisturbed
<1> QED BY <1>10, <1>11, <1>12, <1>13, <1>14 DEF ExportInductive

\* What is settled stays so where the folders stay and its item and its list
\* entry do.
LEMMA SettledStays ==
    ASSUME ExportTypeOK, FoldersStay, UNCHANGED list,
           NEW k \in Keys, list[k] # None, items'[k] = items[k], links'[k] = links[k], Settled(k)
    PROVE  Settled(k)'
<1>1. PICK r : r = list[k]
  OBVIOUS
<1>2. r \in Records /\ Path(k, r) \in Seq(Names)
  BY <1>1, PathIsOne DEF ExportTypeOK
<1>3. PICK f \in Folders : links[k] = {f} /\ At(f, Path(k, r))
  BY <1>1 DEF Settled
<1>4. At(f, Path(k, r))'
  BY <1>2, <1>3, AtStays
<1>5. Says(k)'
  BY DEF Settled, Says, Comment
<1>6. links'[k] = {f} /\ At(f, Path(k, list[k]))'
  BY <1>1, <1>3, <1>4 DEF At, Path
<1> QED BY <1>5, <1>6 DEF Settled

\* One segment: the child of that name is there, or is created under a number
\* that no folder has.
LEMMA WalkKeeps ==
    ASSUME ExportInductive, Walk \/ MakeFolder
    PROVE  ExportInductive' /\ FoldersStay
<1>1. /\ ExportTypeOK /\ Ledger /\ NewHaveNoItem /\ WorksOnListed /\ TripsHaveOneLine
      /\ Undisturbed
  BY DEF ExportInductive
<1>k. PICK k, r : k = cur.key /\ r = list[k]
  OBVIOUS
<1>p. PICK p : p = Path(k, r)
  OBVIOUS
<1>2. /\ UNCHANGED <<archive, seen, file, items, born, links, rest, late>>
      /\ UNCHANGED <<list, todo, pass, stale, clean>>
      /\ pc \in {"walk", "make"} /\ pc' = (IF Len(cur.path) = 1 THEN "look" ELSE "walk")
      /\ cur.path # <<>>
  BY <1>k, <1>p DEF Walk, MakeFolder, Reached, Step, archiveVars
<1>3. /\ k \in Keys /\ r \in Records /\ p \in Seq(Names)
      /\ cur.path \in Seq(Names) /\ cur.at \in {Root} \cup Folders
  BY <1>1, <1>2, <1>k, <1>p, ItsPath DEF InHand, ExportTypeOK
<1>n. PICK n : n = Head(cur.path)
  OBVIOUS
<1>4. n \in Names /\ Tail(cur.path) \in Seq(Names)
  BY <1>2, <1>3, <1>n
<1>5. PICK f : /\ cur' = [cur EXCEPT !.at = f, !.path = Tail(@)]
               /\ known' = IF Len(cur.path) = 1 THEN Append(known, <<p, f>>) ELSE known
               /\ \/ /\ Child(cur.at, n) # {} /\ f = Min(Child(cur.at, n))
                     /\ UNCHANGED <<folders, lastFolder>>
                  \/ /\ f = lastFolder + 1 /\ f \in Folders /\ lastFolder' = f
                     /\ folders' = [folders EXCEPT ![f] = [parent |-> cur.at, name |-> n]]
  BY <1>n, <1>k, <1>p DEF Walk, MakeFolder, Reached, Held
<1>6. [parent |-> cur.at, name |-> n] \in FolderRow
  BY <1>3, <1>4 DEF FolderRow
<1>8. \/ folders[f] = [parent |-> cur.at, name |-> n] /\ UNCHANGED <<folders, lastFolder>>
         /\ f \in Folders
      \/ /\ folders[f] = None /\ f = lastFolder + 1 /\ lastFolder' = f /\ f \in Folders
         /\ folders' = [folders EXCEPT ![f] = [parent |-> cur.at, name |-> n]]
  <2>1. CASE Child(cur.at, n) # {} /\ f = Min(Child(cur.at, n)) /\ UNCHANGED <<folders, lastFolder>>
    <3>1. Child(cur.at, n) \in SUBSET Nat
      BY ExportAssumption DEF Child, Folders
    <3>2. f \in Child(cur.at, n)
      BY <2>1, <3>1, MinIn
    <3> QED BY <2>1, <3>2 DEF Child
  <2>2. CASE /\ f = lastFolder + 1 /\ f \in Folders /\ lastFolder' = f
             /\ folders' = [folders EXCEPT ![f] = [parent |-> cur.at, name |-> n]]
    <3>1. lastFolder \in Nat /\ f = lastFolder + 1 /\ lastFolder' = f /\ f \in Folders
      BY <1>1, <2>2 DEF ExportTypeOK
    <3>2. ~ (f <= lastFolder)
      BY <3>1
    <3> QED BY <1>1, <2>2, <3>1, <3>2 DEF Ledger
  <2> QED BY <1>5, <2>1, <2>2
<1>7. /\ folders' \in [Folders -> FolderRow \cup {None}]
      /\ folders'[f] = [parent |-> cur.at, name |-> n]
      /\ \A g \in Folders : g # f => folders'[g] = folders[g]
      /\ f \in Folders
  BY <1>1, <1>6, <1>8 DEF ExportTypeOK
<1>9. FoldersStay
  BY <1>7, <1>8 DEF FoldersStay
<1>10. /\ cur' \in [key : Keys \cup {None}, at : {Root} \cup Folders, path : Seq(Names),
                    row : Nat, new : BOOLEAN, moves : BOOLEAN, geom : Geoms \cup {None}]
       /\ cur'.key = k /\ cur'.at = f /\ cur'.path = Tail(cur.path) /\ cur'.geom = cur.geom
  BY <1>1, <1>4, <1>5, <1>7, <1>k DEF ExportTypeOK
<1>11. pc \in AfterLists /\ pc' \in AfterLists
  BY <1>2 DEF AfterLists, Placing
<1>12. ExportTypeOK'
  <2>1. lastFolder' \in Nat
    BY <1>1, <1>8 DEF ExportTypeOK
  <2>2. known' \in Seq(Seq(Names) \X Folders)
    BY <1>1, <1>3, <1>5, <1>7 DEF ExportTypeOK
  <2> QED BY <1>1, <1>2, <1>7, <1>10, <1>11, <2>1, <2>2 DEF ExportTypeOK
<1>13. Ledger'
  <2>1. ASSUME NEW g \in Folders, folders'[g] # None PROVE g <= lastFolder'
    <3>1. lastFolder \in Nat /\ g \in Nat
      BY <1>1, ExportAssumption DEF ExportTypeOK, Folders
    <3>2. folders[g] # None => g <= lastFolder
      BY <1>1 DEF Ledger
    <3>3. [parent |-> cur.at, name |-> n] # None
      BY <1>6, Apart
    <3> QED BY <1>7, <1>8, <2>1, <3>1, <3>2, <3>3
  <2> QED BY <1>1, <1>2, <2>1 DEF Ledger
<1>14. NewHaveNoItem'
  BY <1>1, <1>2, <1>11 DEF NewHaveNoItem, Heard
<1>15. WorksOnListed'
  BY <1>1, <1>2, <1>3, <1>k, <1>7, <1>10, Apart DEF WorksOnListed, InHand, Placing
<1>16. TripsHaveOneLine'
  BY <1>1, <1>2 DEF TripsHaveOneLine
<1>17. Undisturbed'
  <2>1. SUFFICES ASSUME rest PROVE Undisturbed'
    BY <1>2 DEF Undisturbed
  <2>2. OnItsPath
    BY <1>1, <2>1 DEF Undisturbed
  <2>3. PICK m \in 0 .. Len(p) : At(cur.at, SubSeq(p, 1, m)) /\ cur.path = SubSeq(p, m + 1, Len(p))
    BY <1>2, <1>k, <1>p, <2>2 DEF OnItsPath
  <2>4. /\ m < Len(p) /\ Len(cur.path) = Len(p) - m /\ n = p[m + 1]
        /\ Tail(cur.path) = SubSeq(p, m + 2, Len(p))
        /\ SubSeq(p, 1, m + 1) = Append(SubSeq(p, 1, m), n)
        /\ SubSeq(p, 1, m) \in Seq(Names)
    <3>1. Len(p) \in Nat /\ m \in Nat /\ m <= Len(p)
      BY <1>3
    <3>2. m # Len(p)
      <4>1. SUFFICES ASSUME m = Len(p) PROVE cur.path = <<>>
        BY <1>2
      <4> QED BY <1>3, <2>3, <3>1, <4>1, SubSeqEmpty
    <3>3. Len(cur.path) = Len(p) - m /\ n = p[m + 1]
      BY <1>3, <1>n, <2>3, <3>1, <3>2
    <3>4. Tail(cur.path) = SubSeq(p, m + 2, Len(p))
      BY <1>3, <2>3, <3>1, <3>2
    <3>5. SubSeq(p, 1, m + 1) = Append(SubSeq(p, 1, m), n)
      BY <1>3, <3>1, <3>2, <3>3
    <3>6. SubSeq(p, 1, m) \in Seq(Names)
      BY <1>3, <3>1
    <3> QED BY <3>1, <3>2, <3>3, <3>4, <3>5, <3>6
  <2>a. PICK a : a = cur.at
    OBVIOUS
  <2>5. At(a, SubSeq(p, 1, m))'
    BY <1>9, <2>3, <2>4, <2>a, AtStays
  <2>6. At(f, SubSeq(p, 1, m + 1))'
    <3>1. f \in Folders /\ folders'[f] = [parent |-> a, name |-> n] /\ n \in Names
      BY <1>4, <1>7, <2>a
    <3>2. At(f, Append(SubSeq(p, 1, m), n))'
      BY <2>4, <2>5, <3>1, ChildAt
    <3> QED BY <2>4, <3>2
  <2>7. (\A i \in 1 .. Len(known) : At(known[i][2], known[i][1]))'
    <3>1. CASE Len(cur.path) # 1
      BY <1>1, <1>5, <1>9, <2>2, <3>1, KnownStay
    <3>2. CASE Len(cur.path) = 1
      <4>1. At(f, p)'
        <5>1. m + 1 = Len(p) /\ SubSeq(p, 1, m + 1) = p
          BY <1>3, <2>4, <3>2, SubSeqFull
        <5> QED BY <2>6, <5>1
      <4>2. ASSUME NEW i \in 1 .. Len(known') PROVE At(known[i][2], known[i][1])'
        <5>1. CASE i = Len(known) + 1
          <6>1. known'[i] = <<p, f>>
            BY <1>1, <1>5, <3>2, <5>1 DEF ExportTypeOK
          <6> QED BY <4>1, <6>1 DEF At
        <5>2. CASE i # Len(known) + 1
          <6>1. i \in 1 .. Len(known) /\ known'[i] = known[i] /\ known[i] \in Seq(Names) \X Folders
            BY <1>1, <1>5, <3>2, <4>2, <5>2 DEF ExportTypeOK
          <6>2. PICK g, q : g = known[i][2] /\ q = known[i][1] /\ q \in Seq(Names)
            BY <6>1
          <6>3. At(g, q)
            BY <2>2, <6>1, <6>2 DEF OnItsPath
          <6>4. At(g, q)'
            BY <1>9, <6>2, <6>3, AtStays
          <6>5. known'[i][2] = g /\ known'[i][1] = q
            BY <6>1, <6>2
          <6> QED BY <6>4, <6>5 DEF At
        <5> QED BY <5>1, <5>2
      <4> QED BY <4>2
    <3> QED BY <3>1, <3>2
  <2>p. Path(cur.key, list[cur.key])' = p
    BY <1>k, <1>p, <1>2, <1>10 DEF Path
  <2>8. (pc \in {"walk", "make"} => \E i \in 0 .. Len(p) : /\ At(cur.at, SubSeq(p, 1, i))
                                               /\ cur.path = SubSeq(p, i + 1, Len(p)))'
    <3>1. At(cur.at, SubSeq(p, 1, m + 1))'
      BY <1>10, <2>6 DEF At
    <3>2. m + 1 \in 0 .. Len(p) /\ cur'.path = SubSeq(p, (m + 1) + 1, Len(p))
      BY <1>3, <1>10, <2>4
    <3> QED BY <3>1, <3>2
  <2>9. (pc \in Placing => At(cur.at, p))'
    <3>1. SUFFICES ASSUME pc' = "look" PROVE At(cur.at, p)'
      BY <1>2 DEF Placing
    <3>2. Len(cur.path) = 1
      BY <1>2, <3>1
    <3>3. m + 1 = Len(p) /\ SubSeq(p, 1, m + 1) = p
      BY <1>3, <2>4, <3>2, SubSeqFull
    <3>4. At(f, p)'
      BY <2>6, <3>3
    <3>5. cur'.at = f
      BY <1>10
    <3> QED BY <3>4, <3>5 DEF At
  <2>10. OnItsPath'
    BY <2>p, <2>7, <2>8, <2>9 DEF OnItsPath
  <2>11. Found'
    BY <1>2 DEF Found
  <2>12. ASSUME clean PROVE Achieved'
    <3>1. Achieved
      BY <1>1, <2>1, <2>12 DEF Undisturbed
    <3>2. pc \in InHand /\ pc' \in InHand
      BY <1>2 DEF InHand, Placing
    <3>3. ASSUME NEW q \in Keys \ todo', list'[q] # None, q # cur'.key
          PROVE  Settled(q)'
      <4>1. Settled(q) /\ list[q] # None
        BY <1>2, <1>k, <1>10, <3>1, <3>2, <3>3 DEF Achieved
      <4> QED BY <1>1, <1>2, <1>9, <4>1, SettledStays
    <3>4. ASSUME NEW q \in Keys, NEW i \in 1 .. pass', KindOf[q] = Kinds[i], list'[q] = None
          PROVE  items'[q] = None \/ links'[q] = {} \/ <<q, born'[q]>> \in stale'
      BY <1>2, <3>1, <3>4 DEF Achieved
    <3> QED BY <3>2, <3>3, <3>4 DEF Achieved
  <2>13. \A q \in Keys : Heard(q)' => list'[q] = archive'[q]
    BY <1>1, <1>2, <1>11, <2>1 DEF Undisturbed, Heard
  <2> QED BY <1>2, <2>10, <2>11, <2>12, <2>13 DEF Undisturbed
<1> QED BY <1>9, <1>12, <1>13, <1>14, <1>15, <1>16, <1>17 DEF ExportInductive

\* No folder is found where the next segment is to be: it is to be made.
LEMMA SeesNoFolderKeeps ==
    ASSUME ExportInductive, SeesNoFolder
    PROVE  ExportInductive'
<1>1. /\ ExportTypeOK /\ NewHaveNoItem /\ WorksOnListed /\ TripsHaveOneLine
      /\ Undisturbed
  BY DEF ExportInductive
<1>2. /\ UNCHANGED <<archive, seen, file, folders, lastFolder, items, born, links, rest, late>>
      /\ UNCHANGED <<list, todo, known, cur, pass, stale, clean>>
      /\ pc = "walk" /\ pc' = "make" /\ pc \in AfterLists /\ pc' \in AfterLists
  BY DEF SeesNoFolder, Step, archiveVars, targetVars, AfterLists
<1>3. \A j \in stale' : j[1] \in Keys /\ list[j[1]] = None
  BY <1>1, <1>2 DEF NewHaveNoItem
<1>4. /\ Ledger' /\ NewHaveNoItem'
      /\ \A q \in Keys : /\ Heard(q) /\ Heard(q)'
                         /\ Settled(q)' <=> Settled(q)
  BY <1>2, <1>3, Steady
<1>5. ExportTypeOK'
  BY <1>1, <1>2 DEF ExportTypeOK
<1>6. WorksOnListed'
  BY <1>1, <1>2 DEF WorksOnListed, InHand, Placing
<1>7. TripsHaveOneLine'
  BY <1>1, <1>2 DEF TripsHaveOneLine
<1>8. Undisturbed'
  <2>1. SUFFICES ASSUME rest PROVE Undisturbed'
    BY <1>2 DEF Undisturbed
  <2>2. OnItsPath'
    <3>1. OnItsPath
      BY <1>1, <2>1 DEF Undisturbed
    <3> QED BY <1>2, <3>1 DEF OnItsPath, At, Path, Placing
  <2>3. Found'
    BY <1>2 DEF Found
  <2>4. ASSUME clean PROVE Achieved'
    <3>1. Achieved
      BY <1>1, <2>1, <2>4 DEF Undisturbed
    <3> QED BY <1>2, <1>4, <3>1 DEF Achieved, InHand, Placing
  <2> QED BY <1>1, <1>2, <1>4, <2>1, <2>2, <2>3, <2>4 DEF Undisturbed
<1> QED BY <1>4, <1>5, <1>6, <1>7, <1>8 DEF ExportInductive

\* The path of an item that stays in hand, in its folder, is still its path.
LEMMA PlaceStays ==
    ASSUME ExportTypeOK, WorksOnListed, OnItsPath, FoldersStay, UNCHANGED <<known, list>>,
           pc \in Placing, pc' \in Placing => cur'.key = cur.key /\ cur'.at = cur.at,
           pc' \notin {"walk", "make"}
    PROVE  /\ OnItsPath'
           /\ At(cur.at, Path(cur.key, list[cur.key]))
           /\ \A k, f, p : k = cur.key /\ f = cur.at /\ p = Path(k, list[k]) => At(f, p)'
<1>1. PICK p, f : p = Path(cur.key, list[cur.key]) /\ f = cur.at
  OBVIOUS
<1>2. p \in Seq(Names)
  BY <1>1, ItsPath DEF InHand
<1>3. At(f, p)
  BY <1>1 DEF OnItsPath
<1>4. At(f, p)'
  BY <1>2, <1>3, AtStays
<1>a. pc' \in Placing => Path(cur.key, list[cur.key])' = p
  BY <1>1 DEF Path
<1>5. (pc \in Placing => At(cur.at, p))'
  BY <1>1, <1>4 DEF At
<1>6. (\A i \in 1 .. Len(known) : At(known[i][2], known[i][1]))'
  BY KnownStay
<1>7. OnItsPath'
  BY <1>a, <1>5, <1>6 DEF OnItsPath
<1> QED BY <1>1, <1>3, <1>4, <1>7

\* What is achieved stays so while the item in hand stays in hand, or once it
\* is settled.
LEMMA AchievedStays ==
    ASSUME ExportTypeOK, Achieved, FoldersStay, UNCHANGED <<list, todo, pass, stale>>,
           NEW k \in Keys, k = cur.key, pc \in InHand, pc' \in InHand \cup {"next"},
           pc' \in InHand => cur'.key = k,
           pc' = "next" => Settled(k)',
           \A q \in Keys : q # k => /\ items'[q] = items[q] /\ links'[q] = links[q]
                                    /\ born'[q] = born[q],
           list[k] # None
    PROVE  Achieved'
<1>1. ASSUME NEW q \in Keys \ todo', list'[q] # None, ~ (pc' \in InHand /\ q = cur'.key)
      PROVE  Settled(q)'
  <2>1. CASE q = k
    BY <1>1, <2>1
  <2>2. CASE q # k
    <3>1. Settled(q)
      BY <1>1, <2>2 DEF Achieved
    <3> QED BY <1>1, <2>2, <3>1, SettledStays
  <2> QED BY <2>1, <2>2
<1>2. ASSUME NEW q \in Keys, NEW i \in 1 .. pass', KindOf[q] = Kinds[i], list'[q] = None
      PROVE  items'[q] = None \/ links'[q] = {} \/ <<q, born'[q]>> \in stale'
  BY <1>2 DEF Achieved
<1> QED BY <1>1, <1>2 DEF Achieved

\* What the target holds of the item decides what is written.
LEMMA LookKeeps ==
    ASSUME ExportInductive, Look
    PROVE  ExportInductive'
<1>1. /\ ExportTypeOK /\ NewHaveNoItem /\ WorksOnListed /\ TripsHaveOneLine
      /\ Undisturbed
  BY DEF ExportInductive
<1>k. PICK k, f : k = cur.key /\ f = cur.at
  OBVIOUS
<1>2. /\ UNCHANGED <<archive, seen, file, folders, lastFolder, items, born, links, rest, late>>
      /\ UNCHANGED <<list, todo, known, pass, stale, clean>>
      /\ pc = "look" /\ pc \in AfterLists /\ pc \in Placing /\ pc \in InHand
  BY DEF Look, Step, archiveVars, targetVars, AfterLists, Placing, InHand
<1>3. /\ k \in Keys /\ list[k] # None /\ list[k] \in Records /\ f \in Folders
  BY <1>1, <1>2, <1>k DEF WorksOnListed, ExportTypeOK
<1>4. \/ /\ pc' \in {"fetch", "relink"}
         /\ \E new, moves \in BOOLEAN :
               /\ cur' = [cur EXCEPT !.row = born[k], !.new = new, !.moves = moves]
               /\ new <=> items[k] = None
               /\ moves <=> ~new /\ links[k] # {f}
               /\ pc' = "relink" => ~new /\ ~Differs(k, list[k])
      \/ /\ pc' = "next" /\ cur' = Idle
         /\ items[k] # None /\ ~Differs(k, list[k]) /\ links[k] = {f}
  BY <1>2, <1>k DEF Look, Step, Placed
<1>5. \/ /\ pc' \in {"fetch", "relink"} /\ cur'.key = k /\ cur'.at = f /\ cur'.row = born[k]
         /\ cur' \in [key : Keys \cup {None}, at : {Root} \cup Folders, path : Seq(Names),
                      row : Nat, new : BOOLEAN, moves : BOOLEAN, geom : Geoms \cup {None}]
         /\ cur'.new <=> items[k] = None
         /\ cur'.moves <=> ~cur'.new /\ links[k] # {f}
         /\ pc' = "relink" => Says(k)
      \/ pc' = "next" /\ cur' = Idle /\ Says(k) /\ links[k] = {f}
  <2>1. items[k] # None /\ ~Differs(k, list[k]) => Says(k)
    BY DEF Differs, Says
  <2>2. CASE pc' = "next"
    BY <1>4, <2>1, <2>2
  <2>3. CASE pc' # "next"
    <3>1. PICK new, moves \in BOOLEAN :
               /\ cur' = [cur EXCEPT !.row = born[k], !.new = new, !.moves = moves]
               /\ new <=> items[k] = None
               /\ moves <=> ~new /\ links[k] # {f}
               /\ pc' = "relink" => ~new /\ ~Differs(k, list[k])
      BY <1>4, <2>3
    <3>2. /\ cur' \in [key : Keys \cup {None}, at : {Root} \cup Folders, path : Seq(Names),
                      row : Nat, new : BOOLEAN, moves : BOOLEAN, geom : Geoms \cup {None}]
          /\ cur'.key = k /\ cur'.at = f /\ cur'.row = born[k]
          /\ cur'.new = new /\ cur'.moves = moves
      <4>1. born[k] \in Nat
        BY <1>1, <1>3 DEF ExportTypeOK
      <4> QED BY <1>1, <1>k, <3>1, <4>1 DEF ExportTypeOK
    <3> QED BY <1>4, <2>1, <2>3, <3>1, <3>2
  <2> QED BY <2>2, <2>3
<1>6. pc' \in {"fetch", "relink", "next"} /\ pc' \in AfterLists
  BY <1>5 DEF AfterLists, Placing
<1>7. \A j \in stale' : j[1] \in Keys /\ list[j[1]] = None
  BY <1>1, <1>2 DEF NewHaveNoItem
<1>8. /\ Ledger' /\ NewHaveNoItem'
      /\ \A q \in Keys : /\ Heard(q) /\ Heard(q)'
                         /\ Says(q)' <=> Says(q)
                         /\ Settled(q)' <=> Settled(q)
  BY <1>2, <1>6, <1>7, Steady
<1>9. ExportTypeOK'
  BY <1>1, <1>2, <1>5, <1>6, IdleIsOne DEF ExportTypeOK
<1>10. WorksOnListed'
  BY <1>1, <1>2, <1>3, <1>5 DEF WorksOnListed, InHand, Placing
<1>11. TripsHaveOneLine'
  BY <1>1, <1>2, <1>6 DEF TripsHaveOneLine
<1>12. Undisturbed'
  <2>1. SUFFICES ASSUME rest PROVE Undisturbed'
    BY <1>2 DEF Undisturbed
  <2>2. OnItsPath
    BY <1>1, <2>1 DEF Undisturbed
  <2>3. pc' \in Placing => cur'.key = cur.key /\ cur'.at = cur.at
    BY <1>5, <1>k DEF Placing
  <2>4. FoldersStay
    BY <1>2 DEF FoldersStay
  <2>5. OnItsPath' /\ At(f, Path(k, list[k]))
    BY <1>1, <1>2, <1>6, <1>k, <2>2, <2>3, <2>4, PlaceStays
  <2>6. Found'
    BY <1>2, <1>5, <1>8, <1>k, <1>3, <2>3 DEF Found
  <2>7. ASSUME clean PROVE Achieved'
    <3>1. Achieved
      BY <1>1, <2>1, <2>7 DEF Undisturbed
    <3>2. pc' = "next" => Settled(k)'
      BY <1>3, <1>5, <1>8, <2>5 DEF Settled
    <3>3. pc' \in InHand \cup {"next"} /\ (pc' \in InHand => cur'.key = k)
      BY <1>5, <1>6 DEF InHand, Placing
    <3> QED BY <1>1, <1>2, <1>3, <1>k, <2>4, <3>1, <3>2, <3>3, AchievedStays
  <2> QED BY <1>1, <1>2, <1>8, <2>1, <2>5, <2>6, <2>7 DEF Undisturbed
<1> QED BY <1>8, <1>9, <1>10, <1>11, <1>12 DEF ExportInductive

\* A geometry is the listed one, or the archive's of this moment.
LEMMA FetchKeeps ==
    ASSUME ExportInductive, Fetch
    PROVE  ExportInductive'
<1>1. /\ ExportTypeOK /\ NewHaveNoItem /\ WorksOnListed /\ TripsHaveOneLine
      /\ Undisturbed
  BY DEF ExportInductive
<1>l. Ledger
  BY DEF ExportInductive
<1>k. PICK k, f : k = cur.key /\ f = cur.at
  OBVIOUS
<1>2. /\ UNCHANGED <<archive, seen, file, folders, lastFolder, items, born, links, rest, late>>
      /\ UNCHANGED <<list, todo, known, pass, stale, clean>>
      /\ pc = "fetch" /\ pc \in AfterLists /\ pc \in Placing /\ pc \in InHand
      /\ pc' = "write" /\ pc' \in AfterLists /\ pc' \in Placing /\ pc' \in InHand
  BY DEF Fetch, Step, archiveVars, targetVars, AfterLists, Placing, InHand
<1>3. /\ k \in Keys /\ list[k] # None /\ list[k] \in Records /\ f \in Folders
  BY <1>1, <1>2, <1>k DEF WorksOnListed, ExportTypeOK
<1>4. PICK geom : /\ geom = IF KindOf[k] = "waypoint" THEN list[k].geom ELSE archive[k].geom
                  /\ cur' = [cur EXCEPT !.geom = geom]
                  /\ KindOf[k] # "waypoint" => archive[k] # None
  BY <1>k DEF Fetch
<1>5. geom \in Geoms
  <2>1. KindOf[k] # "waypoint" => archive[k] \in Records
    BY <1>1, <1>3, <1>4 DEF ExportTypeOK
  <2> QED BY <1>3, <1>4, <2>1 DEF Records
<1>6. /\ cur' \in [key : Keys \cup {None}, at : {Root} \cup Folders, path : Seq(Names),
                   row : Nat, new : BOOLEAN, moves : BOOLEAN, geom : Geoms \cup {None}]
      /\ cur'.key = k /\ cur'.at = f /\ cur'.geom = geom
      /\ cur'.row = cur.row /\ cur'.new = cur.new /\ cur'.moves = cur.moves
  BY <1>1, <1>k, <1>4, <1>5 DEF ExportTypeOK
<1>7. \A j \in stale' : j[1] \in Keys /\ list[j[1]] = None
  BY <1>1, <1>2 DEF NewHaveNoItem
<1>8. /\ Ledger' /\ NewHaveNoItem'
      /\ \A q \in Keys : Heard(q) /\ Heard(q)'
  BY <1>2, <1>7, Steady
<1>9. ExportTypeOK'
  BY <1>1, <1>2, <1>6 DEF ExportTypeOK
<1>10. WorksOnListed'
  BY <1>1, <1>2, <1>3, <1>4, <1>6 DEF WorksOnListed
<1>11. TripsHaveOneLine'
  <2>1. KindOf[k] = "trip" => geom = archive[k].geom /\ archive[k] \in seen[k]
    BY <1>3, <1>4, <1>l DEF Ledger
  <2> QED BY <1>1, <1>2, <1>6, <2>1 DEF TripsHaveOneLine
<1>12. Undisturbed'
  <2>1. SUFFICES ASSUME rest PROVE Undisturbed'
    BY <1>2 DEF Undisturbed
  <2>2. OnItsPath /\ Found
    BY <1>1, <2>1 DEF Undisturbed
  <2>3. FoldersStay
    BY <1>2 DEF FoldersStay
  <2>4. OnItsPath'
    BY <1>1, <1>2, <1>6, <1>k, <2>2, <2>3, PlaceStays
  <2>5. Found'
    BY <1>2, <1>6, <1>k, <2>2 DEF Found
  <2>6. ASSUME clean PROVE Achieved'
    <3>1. Achieved
      BY <1>1, <2>1, <2>6 DEF Undisturbed
    <3> QED BY <1>1, <1>2, <1>3, <1>6, <1>k, <2>3, <3>1, AchievedStays
  <2> QED BY <1>1, <1>2, <1>8, <2>1, <2>4, <2>5, <2>6 DEF Undisturbed
<1> QED BY <1>8, <1>9, <1>10, <1>11, <1>12 DEF ExportInductive

\* The item is written as listed, with the geometry fetched, and a new one is
\* linked where it belongs.
LEMMA WriteKeeps ==
    ASSUME ExportInductive, Write
    PROVE  ExportInductive'
<1>1. /\ ExportTypeOK /\ Ledger /\ NewHaveNoItem /\ WorksOnListed /\ TripsHaveOneLine
      /\ Undisturbed
  BY DEF ExportInductive
<1>k. PICK k, f, p : k = cur.key /\ f = cur.at /\ p = Path(k, list[k])
  OBVIOUS
<1>2. /\ UNCHANGED <<archive, seen, file, folders, lastFolder, rest, late>>
      /\ UNCHANGED <<list, todo, known, pass, stale, clean>>
      /\ pc = "write" /\ pc \in AfterLists /\ pc \in Placing /\ pc \in InHand
      /\ pc' = (IF cur.moves THEN "relink" ELSE "next") /\ pc' \in AfterLists
      /\ cur' = IF cur.moves THEN cur ELSE Idle
      /\ cur.new => items[k] = None
  BY <1>k DEF Write, Step, archiveVars, AfterLists, Placing, InHand
<1>3. /\ k \in Keys /\ list[k] # None /\ list[k] \in Records /\ f \in Folders
      /\ k \in Items /\ cur.geom \in Geoms \cup {None}
  BY <1>1, <1>2, <1>k DEF WorksOnListed, ExportTypeOK, Items
<1>4. PICK row : row = [comment |-> Comment(k, list[k]), geom |-> cur.geom]
  OBVIOUS
<1>5. row \in ItemRow /\ row # None
  <2>1. Comment(k, list[k]) \in Metas \X (Geoms \cup {None})
    BY <1>3, CommentIsOne
  <2>2. row \in ItemRow
    BY <1>3, <1>4, <2>1 DEF ItemRow
  <2> QED BY <2>2, Apart
<1>6. /\ items' = [items EXCEPT ![k] = IF cur.new \/ Same(k, cur.row) THEN row ELSE items[k]]
      /\ born' = [born EXCEPT ![k] = IF cur.new THEN born[k] + 1 ELSE born[k]]
      /\ links' = [links EXCEPT ![k] = IF cur.new THEN {f} ELSE links[k]]
  BY <1>k, <1>4 DEF Write
<1>b. /\ born' \in [Keys -> Nat]
      /\ \A q \in Keys : q # k => born'[q] = born[q]
      /\ ~cur.new => born'[k] = born[k]
  BY <1>1, <1>3, <1>6 DEF ExportTypeOK
<1>7. /\ \A i \in Items : i # k => items'[i] = items[i] /\ links'[i] = links[i]
      /\ items'[k] = IF cur.new \/ Same(k, cur.row) THEN row ELSE items[k]
      /\ links'[k] = IF cur.new THEN {f} ELSE links[k]
      /\ items' \in [Items -> ItemRow \cup {None}]
      /\ links' \in [Items -> SUBSET ({Root} \cup Folders)]
  BY <1>1, <1>3, <1>5, <1>6 DEF ExportTypeOK
<1>8. Keys \subseteq Items
  BY DEF Items
<1>9. ExportTypeOK'
  BY <1>1, <1>2, <1>7, <1>b, IdleIsOne DEF ExportTypeOK
<1>10. Ledger'
  <2>1. seen[k] # {}
    BY <1>1, <1>3 DEF Ledger
  <2> QED BY <1>1, <1>2, <1>3, <1>5, <1>7, <1>8, <2>1 DEF Ledger, Same
<1>11. NewHaveNoItem'
  BY <1>1, <1>2, <1>3, <1>7, <1>8 DEF NewHaveNoItem, Heard
<1>12. WorksOnListed'
  BY <1>1, <1>2 DEF WorksOnListed, InHand, Placing
<1>13. TripsHaveOneLine'
  <2>1. \A r \in Records : KindOf[k] = "trip" /\ r \in seen[k] => row.geom = r.geom
    BY <1>1, <1>2, <1>3, <1>4, <1>k DEF TripsHaveOneLine
  <2> QED BY <1>1, <1>2, <1>7, <1>8, <2>1 DEF TripsHaveOneLine
<1>14. Undisturbed'
  <2>1. SUFFICES ASSUME rest PROVE Undisturbed'
    BY <1>2 DEF Undisturbed
  <2>2. OnItsPath /\ Found
    BY <1>1, <2>1 DEF Undisturbed
  <2>3. FoldersStay
    BY <1>2 DEF FoldersStay
  <2>4. OnItsPath' /\ At(f, p)'
    BY <1>1, <1>2, <1>k, <2>2, <2>3, PlaceStays DEF Placing
  <2>5. /\ cur.new <=> items[k] = None
        /\ cur.moves <=> ~cur.new /\ links[k] # {f}
    BY <1>2, <1>k, <2>2, Zenon DEF Found
  <2>r. cur.row = born[k]
    BY <1>2, <1>k, <2>2 DEF Found
  <2>6. Says(k)'
    <3>1. items'[k] = row /\ row # None /\ row.comment = Comment(k, list[k]) /\ row.geom = cur.geom
      BY <1>4, <1>5, <1>7, <2>5, <2>r DEF Same
    <3>2. KindOf[k] = "waypoint" => cur.geom = list[k].geom
      BY <1>1, <1>2, <1>k DEF WorksOnListed
    <3> QED BY <1>2, <3>1, <3>2 DEF Says, Comment
  <2>7. Found'
    <3>1. pc' = "relink" => cur' = cur /\ ~cur.new
      BY <1>2, <2>5
    <3> QED BY <1>2, <1>b, <1>k, <2>6, <2>r, <3>1 DEF Found, Says
  <2>8. ASSUME clean PROVE Achieved'
    <3>1. Achieved
      BY <1>1, <2>1, <2>8 DEF Undisturbed
    <3>2. ASSUME pc' = "next" PROVE Settled(k)'
      <4>1. links'[k] = {f}
        BY <1>2, <1>7, <2>5, <3>2
      <4>2. Path(k, list[k])' = p
        BY <1>2, <1>k DEF Path
      <4> QED BY <1>3, <2>4, <2>6, <4>1, <4>2 DEF Settled
    <3>3. pc' \in InHand \cup {"next"} /\ (pc' \in InHand => cur'.key = k)
      BY <1>2, <1>k DEF InHand, Placing
    <3> QED BY <1>1, <1>2, <1>3, <1>7, <1>8, <1>b, <1>k, <2>3, <3>1, <3>2, <3>3, AchievedStays
  <2>9. \A q \in Keys : list'[q] = archive'[q]
    BY <1>1, <1>2, <2>1 DEF Undisturbed, Heard
  <2> QED BY <1>2, <2>4, <2>7, <2>8, <2>9 DEF Undisturbed
<1> QED BY <1>9, <1>10, <1>11, <1>12, <1>13, <1>14 DEF ExportInductive

\* The item is linked where it belongs, and nowhere else.
LEMMA RelinkKeeps ==
    ASSUME ExportInductive, Relink
    PROVE  ExportInductive'
<1>1. /\ ExportTypeOK /\ Ledger /\ NewHaveNoItem /\ WorksOnListed /\ TripsHaveOneLine
      /\ Undisturbed
  BY DEF ExportInductive
<1>k. PICK k, f, p : k = cur.key /\ f = cur.at /\ p = Path(k, list[k])
  OBVIOUS
<1>2. /\ UNCHANGED <<archive, seen, file, folders, lastFolder, items, born, rest, late>>
      /\ UNCHANGED <<list, todo, known, pass, stale, clean>>
      /\ pc = "relink" /\ pc \in AfterLists /\ pc \in Placing /\ pc \in InHand
      /\ pc' = "next" /\ pc' \in AfterLists /\ cur' = Idle
      /\ links' = [links EXCEPT ![k] = IF Same(k, cur.row) THEN {f} ELSE links[k]]
  BY <1>k DEF Relink, Step, archiveVars, AfterLists, Placing, InHand
<1>3. /\ k \in Keys /\ list[k] # None /\ list[k] \in Records /\ f \in Folders /\ k \in Items
  BY <1>1, <1>2, <1>k DEF WorksOnListed, ExportTypeOK, Items
<1>4. /\ \A i \in Items : i # k => links'[i] = links[i]
      /\ links'[k] = IF Same(k, cur.row) THEN {f} ELSE links[k]
      /\ links' \in [Items -> SUBSET ({Root} \cup Folders)]
  BY <1>1, <1>2, <1>3 DEF ExportTypeOK
<1>5. Keys \subseteq Items
  BY DEF Items
<1>6. ExportTypeOK'
  BY <1>1, <1>2, <1>4, IdleIsOne DEF ExportTypeOK
<1>7. Ledger'
  BY <1>1, <1>2, <1>3, <1>4 DEF Ledger, Same
<1>8. NewHaveNoItem'
  BY <1>1, <1>2 DEF NewHaveNoItem, Heard
<1>9. WorksOnListed'
  BY <1>1, <1>2 DEF WorksOnListed, InHand, Placing
<1>10. TripsHaveOneLine'
  BY <1>1, <1>2 DEF TripsHaveOneLine
<1>11. Undisturbed'
  <2>1. SUFFICES ASSUME rest PROVE Undisturbed'
    BY <1>2 DEF Undisturbed
  <2>2. OnItsPath /\ Found
    BY <1>1, <2>1 DEF Undisturbed
  <2>3. FoldersStay
    BY <1>2 DEF FoldersStay
  <2>4. OnItsPath' /\ At(f, p)'
    BY <1>1, <1>2, <1>k, <2>2, <2>3, PlaceStays DEF Placing
  <2>5. Says(k) /\ Says(k)'
    BY <1>2, <1>k, <2>2 DEF Found, Says, Comment
  <2>6. Found'
    BY <1>2 DEF Found
  <2>7. ASSUME clean PROVE Achieved'
    <3>1. Achieved
      BY <1>1, <2>1, <2>7 DEF Undisturbed
    <3>2. Settled(k)'
      <4>1. links'[k] = {f}
        <5>1. cur.row = born[k]
          BY <1>2, <1>k, <2>2 DEF Found
        <5> QED BY <1>4, <2>5, <5>1 DEF Says, Same
      <4>2. Path(k, list[k])' = p
        BY <1>2, <1>k DEF Path
      <4> QED BY <1>3, <2>4, <2>5, <4>1, <4>2 DEF Settled
    <3>3. pc' \in InHand \cup {"next"} /\ ~ (pc' \in InHand)
      BY <1>2 DEF InHand, Placing
    <3> QED BY <1>1, <1>2, <1>3, <1>4, <1>5, <1>k, <2>3, <3>1, <3>2, <3>3, AchievedStays
  <2>8. \A q \in Keys : list'[q] = archive'[q]
    BY <1>1, <1>2, <2>1 DEF Undisturbed, Heard
  <2> QED BY <1>2, <2>4, <2>6, <2>7, <2>8 DEF Undisturbed
<1> QED BY <1>6, <1>7, <1>8, <1>9, <1>10, <1>11 DEF ExportInductive

\* An item's failure is counted.
LEMMA FailItemKeeps ==
    ASSUME ExportInductive, FailItem
    PROVE  ExportInductive'
<1>1. /\ ExportTypeOK /\ NewHaveNoItem /\ WorksOnListed /\ TripsHaveOneLine
      /\ Undisturbed
  BY DEF ExportInductive
<1>2. /\ UNCHANGED <<archive, seen, file, folders, lastFolder, items, born, links, rest, late>>
      /\ UNCHANGED <<list, todo, known, pass, stale>>
      /\ pc' = "next" /\ clean' = FALSE /\ cur' = Idle
      /\ pc \in AfterLists /\ pc' \in AfterLists /\ pc \in InHand
  BY DEF FailItem, Step, archiveVars, targetVars, AfterLists, Placing, InHand
<1>3. \A j \in stale' : j[1] \in Keys /\ list[j[1]] = None
  BY <1>1, <1>2 DEF NewHaveNoItem
<1>4. /\ Ledger' /\ NewHaveNoItem'
      /\ \A q \in Keys : Heard(q) /\ Heard(q)'
  BY <1>2, <1>3, Steady
<1>5. ExportTypeOK'
  BY <1>1, <1>2, IdleIsOne DEF ExportTypeOK
<1>6. WorksOnListed'
  BY <1>1, <1>2 DEF WorksOnListed, InHand, Placing
<1>7. TripsHaveOneLine'
  BY <1>1, <1>2 DEF TripsHaveOneLine
<1>8. Undisturbed'
  <2>1. SUFFICES ASSUME rest PROVE Undisturbed'
    BY <1>2 DEF Undisturbed
  <2>2. (\A i \in 1 .. Len(known) : At(known[i][2], known[i][1]))'
    BY <1>1, <1>2, <2>1, KnownStay DEF FoldersStay, Undisturbed
  <2>3. OnItsPath' /\ Found'
    BY <1>2, <2>2 DEF OnItsPath, Found, Placing
  <2> QED BY <1>1, <1>2, <1>4, <2>1, <2>3 DEF Undisturbed
<1> QED BY <1>4, <1>5, <1>6, <1>7, <1>8 DEF ExportInductive

-----------------------------------------------------------------------------
(* The removal passes, and the run's end.                                  *)

\* A pass lists what its kind's list does not name.
LEMMA ListStaleKeeps ==
    ASSUME ExportInductive, ListStale
    PROVE  ExportInductive'
<1>1. /\ ExportTypeOK /\ NewHaveNoItem /\ WorksOnListed /\ TripsHaveOneLine
      /\ Undisturbed
  BY DEF ExportInductive
<1>2. /\ UNCHANGED <<archive, seen, file, folders, lastFolder, items, born, links, rest, late>>
      /\ UNCHANGED <<list, todo, known, cur, clean>>
      /\ pc = "next" /\ pc' = "next" /\ pc \in AfterLists /\ pc' \in AfterLists
      /\ todo = {} /\ stale = {} /\ pass < Len(Kinds) /\ pass' = pass + 1
  BY DEF ListStale, Step, archiveVars, targetVars, AfterLists
<1>s. /\ \A j \in stale' : j \in Keys \X Nat /\ list[j[1]] = None
      /\ \A k \in Keys : KindOf[k] = Kinds[pass + 1] /\ items[k] # None /\ links[k] # {}
                         /\ list[k] = None => <<k, born[k]>> \in stale'
  <2>1. stale' = {<<i, RowOf(i)>> : i \in {j \in Namespace(pass + 1) :
                    /\ items[j] # None /\ links[j] # {}
                    /\ j \in Keys => ~Listed(j)}}
    BY DEF ListStale
  <2>2. Namespace(pass + 1) = {k \in Keys : KindOf[k] = Kinds[pass + 1]}
    BY DEF Namespace
  <2>3. \A k \in Keys : RowOf(k) = born[k] /\ born[k] \in Nat
    BY <1>1 DEF RowOf, ExportTypeOK
  <2> QED BY <2>1, <2>2, <2>3 DEF Listed
<1>3. \A j \in stale' : j[1] \in Keys /\ list[j[1]] = None
  BY <1>s
<1>4. /\ Ledger' /\ NewHaveNoItem'
      /\ \A q \in Keys : /\ Heard(q) /\ Heard(q)'
                         /\ Settled(q)' <=> Settled(q)
  BY <1>2, <1>3, Steady
<1>n. pass \in Nat /\ pass \in 0 .. 2 /\ pass' \in 0 .. 3 /\ Len(Kinds) = 3
  BY <1>1, <1>2 DEF ExportTypeOK, Kinds
<1>5. ExportTypeOK'
  <2>1. stale' \subseteq Items \X Nat
    BY <1>s DEF Items
  <2> QED BY <1>1, <1>2, <1>n, <2>1 DEF ExportTypeOK
<1>6. WorksOnListed'
  BY <1>1, <1>2 DEF WorksOnListed, InHand, Placing
<1>7. TripsHaveOneLine'
  BY <1>1, <1>2 DEF TripsHaveOneLine
<1>8. Undisturbed'
  <2>1. SUFFICES ASSUME rest PROVE Undisturbed'
    BY <1>2 DEF Undisturbed
  <2>2. (\A i \in 1 .. Len(known) : At(known[i][2], known[i][1]))'
    BY <1>1, <1>2, <2>1, KnownStay DEF FoldersStay, Undisturbed
  <2>3. OnItsPath' /\ Found'
    BY <1>2, <2>2 DEF OnItsPath, Found, Placing
  <2>4. ASSUME clean PROVE Achieved'
    <3>1. Achieved
      BY <1>1, <2>1, <2>4 DEF Undisturbed
    <3>2. ASSUME NEW q \in Keys, NEW n \in 1 .. pass', KindOf[q] = Kinds[n], list'[q] = None
          PROVE  items'[q] = None \/ links'[q] = {} \/ <<q, born'[q]>> \in stale'
      <4>1. CASE n = pass + 1
        BY <1>2, <1>s, <3>2, <4>1
      <4>2. CASE n # pass + 1
        <5>1. n \in 1 .. pass
          BY <1>2, <1>n, <4>2
        <5> QED BY <1>2, <3>1, <3>2, <5>1 DEF Achieved
      <4> QED BY <4>1, <4>2
    <3>3. ASSUME NEW q \in Keys \ todo', list'[q] # None PROVE Settled(q)'
      BY <1>2, <1>4, <3>1, <3>3 DEF Achieved, InHand, Placing
    <3> QED BY <3>2, <3>3 DEF Achieved
  <2> QED BY <1>1, <1>2, <1>4, <2>1, <2>3, <2>4 DEF Undisturbed
<1> QED BY <1>4, <1>5, <1>6, <1>7, <1>8 DEF ExportInductive

\* One of them is unlinked, or fails to be and is counted.
LEMMA UnlinkKeeps ==
    ASSUME ExportInductive, NEW item \in stale, NEW ok \in BOOLEAN, Unlink(item[1], item[2], ok)
    PROVE  ExportInductive'
<1>1. /\ ExportTypeOK /\ Ledger /\ NewHaveNoItem /\ WorksOnListed /\ TripsHaveOneLine
      /\ Undisturbed
  BY DEF ExportInductive
<1>k. PICK k, row : k = item[1] /\ row = item[2]
  OBVIOUS
<1>2. /\ UNCHANGED <<archive, seen, file, folders, lastFolder, items, born, rest, late>>
      /\ UNCHANGED <<list, todo, known, cur, pass>>
      /\ pc = "next" /\ pc' = "next" /\ pc \in AfterLists /\ pc' \in AfterLists
      /\ stale' = stale \ {<<k, row>>} /\ <<k, row>> \in stale
      /\ links' = (IF ok /\ RowOf(k) = row THEN [links EXCEPT ![k] = {}] ELSE links)
      /\ clean' = (clean /\ ok)
  BY <1>k DEF Unlink, Step, archiveVars, AfterLists
<1>4. k \in Keys /\ list[k] = None /\ Keys \subseteq Items
  BY <1>1, <1>k DEF NewHaveNoItem, Items
<1>3. /\ \A i \in Items : i # k => links'[i] = links[i]
      /\ ok /\ born[k] = row => links'[k] = {}
      /\ links'[k] \subseteq links[k]
      /\ links' \in [Items -> SUBSET ({Root} \cup Folders)]
  BY <1>1, <1>2, <1>4 DEF ExportTypeOK, RowOf
<1>5. ExportTypeOK'
  BY <1>1, <1>2, <1>3 DEF ExportTypeOK
<1>6. Ledger'
  BY <1>1, <1>2, <1>3 DEF Ledger
<1>7. NewHaveNoItem'
  BY <1>1, <1>2 DEF NewHaveNoItem, Heard
<1>8. WorksOnListed'
  BY <1>1, <1>2 DEF WorksOnListed, InHand, Placing
<1>9. TripsHaveOneLine'
  BY <1>1, <1>2 DEF TripsHaveOneLine
<1>10. Undisturbed'
  <2>1. SUFFICES ASSUME rest PROVE Undisturbed'
    BY <1>2 DEF Undisturbed
  <2>2. FoldersStay
    BY <1>2 DEF FoldersStay
  <2>3. (\A i \in 1 .. Len(known) : At(known[i][2], known[i][1]))'
    BY <1>1, <1>2, <2>1, <2>2, KnownStay DEF Undisturbed
  <2>4. OnItsPath' /\ Found'
    BY <1>2, <2>3 DEF OnItsPath, Found, Placing
  <2>5. ASSUME clean, ok PROVE Achieved'
    <3>1. Achieved
      BY <1>1, <2>1, <2>5 DEF Undisturbed
    <3>2. ASSUME NEW q \in Keys, NEW n \in 1 .. pass', KindOf[q] = Kinds[n], list'[q] = None
          PROVE  items'[q] = None \/ links'[q] = {} \/ <<q, born'[q]>> \in stale'
      BY <1>2, <1>3, <1>4, <2>5, <3>1, <3>2 DEF Achieved
    <3>3. ASSUME NEW q \in Keys \ todo', list'[q] # None PROVE Settled(q)'
      <4>1. Settled(q) /\ q # k
        BY <1>2, <1>4, <3>1, <3>3 DEF Achieved, InHand, Placing
      <4> QED BY <1>1, <1>2, <1>3, <1>4, <2>2, <3>3, <4>1, SettledStays
    <3> QED BY <3>2, <3>3 DEF Achieved
  <2>6. \A q \in Keys : list'[q] = archive'[q]
    BY <1>1, <1>2, <2>1 DEF Undisturbed, Heard
  <2> QED BY <1>2, <2>4, <2>5, <2>6 DEF Undisturbed
<1> QED BY <1>5, <1>6, <1>7, <1>8, <1>9, <1>10 DEF ExportInductive

\* After the last pass the run is over.
LEMMA EndRunKeeps ==
    ASSUME ExportInductive, EndRun
    PROVE  ExportInductive'
<1>1. /\ ExportTypeOK /\ NewHaveNoItem /\ WorksOnListed /\ TripsHaveOneLine
      /\ Undisturbed
  BY DEF ExportInductive
<1>2. /\ UNCHANGED <<archive, seen, file, folders, lastFolder, items, born, links, rest, late>>
      /\ UNCHANGED <<list, todo, known, cur, pass, stale, clean>>
      /\ pc = "next" /\ pc' = "done" /\ pc \in AfterLists /\ pc' \in AfterLists
      /\ todo = {} /\ stale = {} /\ pass = Len(Kinds)
  BY DEF EndRun, Step, archiveVars, targetVars, AfterLists
<1>3. \A j \in stale' : j[1] \in Keys /\ list[j[1]] = None
  BY <1>2
<1>4. /\ Ledger' /\ NewHaveNoItem'
      /\ \A q \in Keys : /\ Heard(q) /\ Heard(q)'
                         /\ Settled(q)' <=> Settled(q)
  BY <1>2, <1>3, Steady
<1>5. ExportTypeOK'
  BY <1>1, <1>2 DEF ExportTypeOK
<1>6. WorksOnListed'
  BY <1>1, <1>2 DEF WorksOnListed, InHand, Placing
<1>7. TripsHaveOneLine'
  BY <1>1, <1>2 DEF TripsHaveOneLine
<1>8. Undisturbed'
  <2>1. SUFFICES ASSUME rest PROVE Undisturbed'
    BY <1>2 DEF Undisturbed
  <2>2. (\A i \in 1 .. Len(known) : At(known[i][2], known[i][1]))'
    BY <1>1, <1>2, <2>1, KnownStay DEF FoldersStay, Undisturbed
  <2>3. OnItsPath' /\ Found'
    BY <1>2, <2>2 DEF OnItsPath, Found, Placing
  <2>4. ASSUME clean PROVE Achieved'
    <3>1. Achieved
      BY <1>1, <2>1, <2>4 DEF Undisturbed
    <3> QED BY <1>2, <1>4, <3>1 DEF Achieved, InHand, Placing
  <2> QED BY <1>1, <1>2, <1>4, <2>1, <2>3, <2>4 DEF Undisturbed
<1> QED BY <1>4, <1>5, <1>6, <1>7, <1>8 DEF ExportInductive

\* A run that is stopped leaves nothing but the target.
LEMMA StopKeeps ==
    ASSUME ExportInductive, Stop
    PROVE  ExportInductive'
<1>1. ExportTypeOK /\ Ledger /\ TripsHaveOneLine
  BY DEF ExportInductive
<1>2. /\ UNCHANGED <<archive, seen, file, folders, lastFolder, items, born, links, rest, late>>
      /\ pc' = "idle" /\ list' = NoList
      /\ todo' = {} /\ known' = <<>> /\ cur' = Idle /\ pass' = 0 /\ stale' = {} /\ clean' = TRUE
  BY DEF Stop, Step, archiveVars, targetVars
<1>3. ExportTypeOK'
  <2>1. known' \in Seq(Seq(Names) \X Folders)
    BY <1>2
  <2>2. pass' \in 0 .. Len(Kinds)
    BY <1>2 DEF Kinds
  <2>3. list' \in [Keys -> Records \cup {None}]
    BY <1>2 DEF NoList
  <2> QED BY <1>1, <1>2, <2>1, <2>2, <2>3, IdleIsOne DEF ExportTypeOK
<1>4. Ledger'
  BY <1>1, <1>2 DEF Ledger, NoList
<1>5. NewHaveNoItem'
  BY <1>2 DEF NewHaveNoItem, Heard, NoList
<1>6. WorksOnListed'
  BY <1>2 DEF WorksOnListed, InHand, Placing
<1>7. TripsHaveOneLine'
  BY <1>1, <1>2 DEF TripsHaveOneLine, NoList
<1>8. Undisturbed'
  BY <1>2 DEF Undisturbed, Heard, OnItsPath, Found, Achieved, InHand, Placing
<1> QED BY <1>3, <1>4, <1>5, <1>6, <1>7, <1>8 DEF ExportInductive

-----------------------------------------------------------------------------
(* What the runs check, for any number of records and folders.             *)

\* The tables' rows, the list, what is in hand and what is done fit together,
\* whatever the archive, the owner and other runs do beside the run.
THEOREM ExportStaysSound == Spec => []ExportInductive
<1>1. ExportInductive /\ [Next]_vars => ExportInductive'
  <2> SUFFICES ASSUME ExportInductive, [Next]_vars PROVE ExportInductive'
    OBVIOUS
  <2>1. CASE Run
    BY <2>1, ReadTripsKeeps, ReadCollectionsKeeps, CreateFileKeeps, OpenedKeeps, NextItemKeeps,
       WalkKeeps, SeesNoFolderKeeps, LookKeeps, FetchKeeps, WriteKeeps, RelinkKeeps, FailItemKeeps, ListStaleKeeps,
       UnlinkKeeps, EndRunKeeps, StopKeeps DEF Run
  <2>2. CASE \E k \in Keys, r \in Records \cup {None} : Change(k, r)
    BY <2>2, ChangeKeeps
  <2>3. CASE \/ \E i \in Items, where \in SUBSET (Folders \cup {Root}) : OwnerFiles(i, where)
             \/ \E i \in Items : OwnerEdits(i)
             \/ OwnerEmptiesTrash
             \/ \E f \in Folders : OwnerDropsFolder(f)
    BY <2>3, OwnersActKeeps
  <2>a. CASE \/ AnotherOpens
             \/ \E p \in {Root} \cup Folders, n \in Names : AnotherMakesFolder(p, n)
             \/ \E k \in Keys, r \in Records, g \in Geoms, f \in Folders : AnotherInserts(k, r, g, f)
             \/ \E k \in Keys, r \in Records, g \in Geoms : AnotherUpdates(k, r, g)
             \/ \E k \in Keys, f \in Folders : AnotherFiles(k, f)
             \/ \E k \in Keys : AnotherTrashes(k)
    BY <2>a, AnotherRunKeeps
  <2>4. CASE UNCHANGED vars
    <3>1. ExportTypeOK' /\ Ledger' /\ NewHaveNoItem' /\ WorksOnListed' /\ TripsHaveOneLine'
      BY <2>4 DEF vars, archiveVars, targetVars, runVars, ExportInductive, ExportTypeOK, Ledger,
                  NewHaveNoItem, WorksOnListed, TripsHaveOneLine, Heard
    <3>2. /\ UNCHANGED <<archive, folders, items, born, links, pc, list, todo, known, cur, pass>>
          /\ UNCHANGED <<stale, clean, rest>>
      BY <2>4 DEF vars, archiveVars, targetVars, runVars
    <3>3. OnItsPath => OnItsPath'
      BY <3>2 DEF OnItsPath, At, Path
    <3>4. Found => Found'
      BY <3>2 DEF Found, Says, Comment
    <3>5. \A k \in Keys : Settled(k) => Settled(k)'
      BY <3>2 DEF Settled, Says, Comment, At, Path
    <3>6. Achieved => Achieved'
      BY <3>2, <3>5 DEF Achieved
    <3>7. Undisturbed'
      BY <3>2, <3>3, <3>4, <3>6 DEF ExportInductive, Undisturbed, Heard
    <3> QED BY <3>1, <3>7 DEF ExportInductive
  <2> QED BY <2>1, <2>2, <2>3, <2>a, <2>4 DEF Next
<1> QED BY <1>1, InitExport, PTL DEF Spec

\* Tables and locals keep their types.
THEOREM ExportTypeCorrect == Spec => []ExportTypeOK
<1>1. ExportInductive => ExportTypeOK
  BY DEF ExportInductive
<1> QED BY <1>1, ExportStaysSound, PTL

\* The exporter touches nothing it did not create: no item of the owner's and
\* no folder that is there (ADR-0022).
THEOREM LeavesTheOwners == Spec => NothingForeign
<1>1. ExportInductive /\ [Next]_vars =>
         [Run => /\ \A i \in Foreign : items'[i] = items[i] /\ links'[i] = links[i]
                 /\ \A f \in Folders : folders[f] # None => folders'[f] = folders[f]]_vars
  <2> SUFFICES ASSUME ExportInductive, Run
               PROVE  /\ \A i \in Foreign : items'[i] = items[i] /\ links'[i] = links[i]
                      /\ FoldersStay
    BY DEF FoldersStay
  <2>1. ExportTypeOK /\ NewHaveNoItem /\ WorksOnListed /\ Foreign \subseteq Items
    BY DEF ExportInductive, Items
  <2>2. CASE Walk \/ MakeFolder
    <3>1. UNCHANGED <<items, links>>
      BY <2>2 DEF Walk, MakeFolder, Reached
    <3> QED BY <2>2, <3>1, WalkKeeps
  <2>3. CASE Write
    <3>1. UNCHANGED folders /\ pc = "write" /\ cur.key \in Keys /\ cur.key \notin Foreign
      BY <2>1, <2>3, ExportAssumption DEF Write, Step, WorksOnListed, InHand, Placing
    <3> QED BY <2>1, <2>3, <3>1 DEF Write, ExportTypeOK, FoldersStay
  <2>4. CASE Relink
    <3>1. UNCHANGED <<folders, items>> /\ pc = "relink" /\ cur.key \in Keys /\ cur.key \notin Foreign
      BY <2>1, <2>4, ExportAssumption DEF Relink, Step, WorksOnListed, InHand, Placing
    <3> QED BY <2>1, <2>4, <3>1 DEF Relink, ExportTypeOK, FoldersStay
  <2>5. CASE \E item \in stale, ok \in BOOLEAN : Unlink(item[1], item[2], ok)
    <3>1. PICK item \in stale, ok \in BOOLEAN : Unlink(item[1], item[2], ok)
      BY <2>5
    <3>2. UNCHANGED <<folders, items>> /\ item[1] \in Keys /\ item[1] \notin Foreign
      BY <2>1, <3>1, ExportAssumption DEF Unlink, NewHaveNoItem
    <3> QED BY <2>1, <3>1, <3>2 DEF Unlink, ExportTypeOK, FoldersStay
  <2>6. CASE \/ ReadTrips \/ ReadCollections \/ SeesNoFile \/ CreateFile \/ Bootstrap
             \/ OpenTarget \/ NextItem \/ SeesNoFolder \/ Look \/ Fetch \/ FailItem \/ ListStale \/ EndRun \/ Stop
    BY <2>6 DEF ReadTrips, ReadCollections, SeesNoFile, CreateFile, Bootstrap, OpenTarget, Opened,
                NextItem, SeesNoFolder, Look, Fetch, FailItem, ListStale, EndRun, Stop, targetVars, FoldersStay
  <2> QED BY <2>2, <2>3, <2>4, <2>5, <2>6 DEF Run
<1> QED BY <1>1, ExportStaysSound, PTL DEF Spec, NothingForeign

\* A run sends an item to the trash only if its record is gone for good, or
\* came and was inserted by another run after this one's lists were read.
THEOREM TrashesOnlyTheGone == Spec => RemovesOnlyTheGone
<1>1. ExportInductive /\ [Next]_vars =>
         [Run => \A k \in Keys : links[k] # {} /\ links'[k] = {} =>
                    archive[k] = None \/ k \in late]_vars
  <2> SUFFICES ASSUME ExportInductive, Run, NEW k \in Keys, links[k] # {}, links'[k] = {}
               PROVE  archive[k] = None \/ k \in late
    OBVIOUS
  <2>1. ExportTypeOK /\ Ledger /\ NewHaveNoItem /\ k \in Items
    BY DEF ExportInductive, Items
  <2>2. CASE Write \/ Relink
    BY <2>1, <2>2 DEF Write, Relink, ExportTypeOK
  <2>3. CASE \E item \in stale, ok \in BOOLEAN : Unlink(item[1], item[2], ok)
    <3>1. PICK item \in stale, ok \in BOOLEAN : Unlink(item[1], item[2], ok)
      BY <2>3
    <3>2. item[1] = k /\ item \in stale /\ pc = "next"
      BY <2>1, <3>1 DEF Unlink, Step, ExportTypeOK
    <3>3. items[k] # None /\ list[k] = None /\ Heard(k)
      BY <2>1, <3>2 DEF Ledger, NewHaveNoItem, Heard
    <3> QED BY <2>1, <3>3 DEF NewHaveNoItem
  <2>4. CASE \/ ReadTrips \/ ReadCollections \/ SeesNoFile \/ CreateFile \/ Bootstrap
             \/ OpenTarget \/ NextItem \/ Walk \/ SeesNoFolder \/ MakeFolder \/ Look \/ Fetch
             \/ FailItem \/ ListStale \/ EndRun \/ Stop
    BY <2>4 DEF ReadTrips, ReadCollections, SeesNoFile, CreateFile, Bootstrap, OpenTarget, Opened,
                NextItem, Walk, SeesNoFolder, MakeFolder, Reached, Look, Fetch, FailItem, ListStale, EndRun, Stop, targetVars
  <2> QED BY <2>2, <2>3, <2>4 DEF Run
<1> QED BY <1>1, ExportStaysSound, PTL DEF Spec, RemovesOnlyTheGone

\* After a run without failures beside which nothing changed, the target shows
\* exactly the archive, whatever went before.
THEOREM MirrorsTheArchive == Spec => []CleanRunMirrors
<1>1. ExportInductive => CleanRunMirrors
  <2> SUFFICES ASSUME ExportInductive, Quiet, NEW k \in Keys
               PROVE  IF archive[k] = None THEN items[k] = None \/ links[k] = {}
                      ELSE /\ items[k] # None /\ items[k].comment = Comment(k, archive[k])
                           /\ KindOf[k] # "track" => items[k].geom = archive[k].geom
                           /\ \E f \in Folders : links[k] = {f} /\ At(f, Path(k, archive[k]))
    BY DEF CleanRunMirrors
  <2>1. /\ ExportTypeOK /\ NewHaveNoItem /\ WorksOnListed /\ TripsHaveOneLine /\ Undisturbed
        /\ pc = "done" /\ rest /\ clean
    BY DEF ExportInductive, Quiet
  <2>2. todo = {} /\ stale = {} /\ pass = 3
    BY <2>1 DEF WorksOnListed, Kinds
  <2>3. list[k] = archive[k]
    BY <2>1 DEF Undisturbed, Heard
  <2>4. Achieved
    BY <2>1 DEF Undisturbed
  <2>5. CASE archive[k] = None
    <3>1. PICK n \in 1 .. 3 : KindOf[k] = Kinds[n]
      <4>1. KindOf[k] \in {"trip", "track", "waypoint"}
        BY ExportAssumption
      <4>2. Kinds[1] = "trip" /\ Kinds[2] = "track" /\ Kinds[3] = "waypoint"
        BY DEF Kinds
      <4> QED BY <4>1, <4>2
    <3> QED BY <2>2, <2>3, <2>4, <2>5, <3>1 DEF Achieved
  <2>6. CASE archive[k] # None
    <3>1. Settled(k)
      BY <2>1, <2>2, <2>3, <2>4, <2>6 DEF Achieved, InHand, Placing
    <3>2. KindOf[k] \in {"trip", "track", "waypoint"}
      BY ExportAssumption
    <3>3. KindOf[k] # "track" => items[k].geom = archive[k].geom
      <4>1. archive[k] \in seen[k] /\ archive[k] \in Records
        BY <2>1, <2>6 DEF ExportInductive, Ledger, ExportTypeOK
      <4> QED BY <2>1, <2>3, <2>6, <3>1, <3>2, <4>1 DEF Settled, Says, TripsHaveOneLine
    <3> QED BY <2>3, <2>6, <3>1, <3>3 DEF Settled, Says
  <2> QED BY <2>5, <2>6
<1> QED BY <1>1, ExportStaysSound, PTL
=============================================================================
