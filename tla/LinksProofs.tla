----------------------------- MODULE LinksProofs -----------------------------
(***************************************************************************)
(* Proofs about Links, for any number of requests, trips and items: a link *)
(* of the owner's stays, and no pair is overlooked.  The latter rests on   *)
(* SeenFromEitherEnd: of two checks that have looked, each from one end of *)
(* a pair, the one that looked last saw the other end.                     *)
(***************************************************************************)
EXTENDS Links, TLAPS

-----------------------------------------------------------------------------
(* Lemmas on pairs, items and checks.                                      *)

\* A pair is a trip and another end, and a trip is no item.
LEMMA PairEnds ==
    ASSUME NEW p \in Pairs
    PROVE  /\ p = <<p[1], p[2]>> /\ p[1] \in Trips /\ p[2] \in Ends
           /\ p[1] \in Ends
           /\ p[2] \notin Trips => p[2] \in Items
           /\ p[2] \in Trips => p \in Recorded \X Planned
BY TripsAssumption DEF Pairs, Ends, Trips

\* Trips are no items.
LEMMA TripsAreNoItems == Trips \cap Items = {}
BY TripsAssumption

\* An id is a kind and a number.
LEMMA ItemParts ==
    ASSUME NEW i \in Items
    PROVE  i = <<i[1], i[2]>> /\ i[1] \in Kinds /\ i[2] \in Nat
BY ItemAssumption DEF Items

\* A line that is put into the table is there afterwards; others stay or go.
LEMMA EntryTypes ==
    ASSUME LinksTypeOK, NEW i \in Items, NEW l \in Lines,
           NEW gone \in SUBSET Present, Entry(i, l, gone)
    PROVE  /\ items' \in [Items -> Lines \cup {None}]
           /\ lastItem' \in [Kinds -> Nat]
           /\ \A j \in Present' : j[2] <= lastItem'[j[1]]
           /\ items'[i] = l /\ l # None
           /\ \A j \in Items : j # i => items'[j] \in {items[j], None}
<1>1. items' \in [Items -> Lines \cup {None}] /\ items'[i] = l /\ l # None
      /\ \A j \in Items : j # i => items'[j] \in {items[j], None}
  BY ItemAssumption DEF LinksTypeOK, Entry
<1>2. i[1] \in Kinds /\ i = <<i[1], i[2]>>
  BY ItemParts
<1>3. /\ lastItem' \in [Kinds -> Nat]
      /\ \A k \in Kinds : lastItem[k] <= lastItem'[k]
      /\ (i \in Unused => lastItem'[i[1]] = lastItem[i[1]] + 1)
  BY <1>2 DEF LinksTypeOK, Entry
<1>4. ASSUME NEW j \in Present' PROVE j[2] <= lastItem'[j[1]]
  <2>1. j \in Items /\ j[1] \in Kinds /\ j[2] \in Nat
    BY ItemParts DEF Present
  <2>2. CASE j \in Present
    <3>1. j[2] <= lastItem[j[1]] /\ lastItem[j[1]] \in Nat /\ lastItem'[j[1]] \in Nat
      BY <1>3, <2>1, <2>2 DEF LinksTypeOK
    <3> QED BY <1>3, <2>1, <3>1
  <2>3. CASE j \notin Present
    <3>1. j = i
      BY <1>1, <2>1, <2>3 DEF Present
    <3>2. i \in Unused
      BY <2>3, <3>1 DEF Entry
    <3>3. i[2] = lastItem[i[1]] + 1
      BY <3>2 DEF Unused
    <3>4. lastItem'[i[1]] \in Nat
      BY <1>2, <1>3
    <3>5. i[2] = lastItem'[i[1]]
      BY <1>3, <3>2, <3>3
    <3> QED BY <2>1, <3>1, <3>4, <3>5
  <2> QED BY <2>2, <2>3
<1> QED BY <1>1, <1>3, <1>4

\* Nothing is overlooked by a step after which each pair that is owed has an
\* end that is as new, or was owed before and is followed by the same checks,
\* or by ones that found it.
LEMMA StaysSeen ==
    ASSUME NothingOverlooked, SeenFromEitherEnd,
           \A p \in Pairs : Owed(p)' =>
               \/ \E e \in {p[1], p[2]} :
                      /\ e \in unchecked'
                      /\ \A q \in Reqs : check'[q] # None => e \notin check'[q].fresh
               \/ /\ Owed(p)
                  /\ \A e \in {p[1], p[2]} : e \in unchecked => e \in unchecked'
                  /\ \A e \in {p[1], p[2]}, q \in Reqs : Looked(q, e, p)' =>
                         \/ p \in check'[q].found
                         \/ /\ Looked(q, e, p)
                            /\ p \in check[q].found => p \in check'[q].found
    PROVE  NothingOverlooked' /\ SeenFromEitherEnd'
<1>1. ASSUME NEW p \in Pairs, Owed(p)'
      PROVE  /\ p[1] \in unchecked' \/ p[2] \in unchecked'
             /\ \A r \in Reqs :
                    /\ Looked(r, p[1], p)' =>
                           p \in check'[r].found \/ p[2] \in unchecked'
                    /\ Looked(r, p[2], p)' =>
                           p \in check'[r].found \/ p[1] \in unchecked'
                    /\ \A q \in Reqs : Looked(r, p[1], p)' /\ Looked(q, p[2], p)' =>
                           p \in check'[r].found \cup check'[q].found
  <2>1. ASSUME NEW e \in {p[1], p[2]}, e \in unchecked',
               \A q \in Reqs : check'[q] # None => e \notin check'[q].fresh
        PROVE  /\ e \in unchecked'
               /\ \A r \in Reqs : ~Looked(r, e, p)'
    BY <2>1 DEF Looked
  <2>2. CASE \E e \in {p[1], p[2]} :
                 /\ e \in unchecked'
                 /\ \A q \in Reqs : check'[q] # None => e \notin check'[q].fresh
    BY <2>1, <2>2
  <2>3. CASE /\ Owed(p)
             /\ \A e \in {p[1], p[2]} : e \in unchecked => e \in unchecked'
             /\ \A e \in {p[1], p[2]}, q \in Reqs : Looked(q, e, p)' =>
                    \/ p \in check'[q].found
                    \/ /\ Looked(q, e, p)
                       /\ p \in check[q].found => p \in check'[q].found
    BY <2>3 DEF NothingOverlooked, SeenFromEitherEnd
  <2> QED BY <1>1, <2>2, <2>3
<1> QED BY <1>1 DEF NothingOverlooked, SeenFromEitherEnd

\* A request that starts, moves on in or ends its check, and changes nothing
\* else, has found what it has looked for.
LEMMA CheckMoves ==
    ASSUME LinksInductive, NEW r \in Reqs, NEW v \in Check \cup {None},
           check' = [check EXCEPT ![r] = v],
           UNCHANGED <<tableVars, trips, link, unchecked, waived, clicks>>,
           InStep(r)',
           \A p \in Pairs : \A e \in {p[1], p[2]} :
               Owed(p) /\ Looked(r, e, p)' =>
                   \/ p \in v.found
                   \/ /\ Looked(r, e, p)
                      /\ p \in check[r].found => p \in v.found
    PROVE  LinksInductive'
<1> USE DEF tableVars
<1>1. LinksTypeOK /\ check \in [Reqs -> Check \cup {None}]
  BY DEF LinksInductive, LinksTypeOK
<1>2. check'[r] = v /\ \A q \in Reqs : q # r => check'[q] = check[q]
  BY <1>1
<1>3. LinksTypeOK'
  BY <1>1 DEF LinksTypeOK, Present, Alive, Here
<1>4. \A p \in Pairs : Owed(p)' <=> Owed(p)
  BY DEF Owed, Alive, Here
<1>5. \A q \in Reqs, p \in Pairs : \A e \in {p[1], p[2]} :
          q # r => (Looked(q, e, p)' <=> Looked(q, e, p))
  BY <1>2 DEF Looked
<1>6. NothingOverlooked' /\ SeenFromEitherEnd'
  BY <1>2, <1>4, <1>5, StaysSeen DEF LinksInductive
<1>7. ASSUME NEW q \in Reqs PROVE InStep(q)'
  BY <1>2 DEF LinksInductive, InStep
<1> QED BY <1>3, <1>6, <1>7 DEF LinksInductive
-----------------------------------------------------------------------------
(* The checks.                                                             *)

\* A check that a request starts holds nothing yet.
LEMMA NewCheckType ==
    ASSUME NEW step \in {"ids", "own", "forget", "trips"}, NEW S \in SUBSET Ends
    PROVE  /\ NewCheck(step, S) \in Check
           /\ NewCheck(step, S).step = step /\ NewCheck(step, S).about = S
           /\ NewCheck(step, S).fresh = {} /\ NewCheck(step, S).found = {}
<1>1. [i \in {} |-> None] \in [{} -> Lines]
  OBVIOUS
<1>2. [i \in {} |-> None] \in UNION {[T -> Lines] : T \in SUBSET Items}
  BY <1>1
<1> QED BY <1>2 DEF NewCheck, Check

\* A request under way has a check.
LEMMA UnderWay ==
    ASSUME LinksInductive, NEW r \in Reqs, check[r] # None
    PROVE  check[r] \in Check /\ InStep(r) /\ LinksTypeOK
BY DEF LinksInductive, LinksTypeOK

\* The owner asks about what there is.
LEMMA AskCheckKeeps ==
    ASSUME LinksInductive, NEW r \in Reqs, AskCheck(r)
    PROVE  LinksInductive'
<1>1. PICK step \in {"own", "trips"}, S \in SUBSET Ends :
          /\ check' = [check EXCEPT ![r] = NewCheck(step, S)]
          /\ step = "trips" => S \subseteq Trips /\ \A t \in S : trips[t] = "in"
          /\ step = "own" => S \subseteq Items
  <2>1. CASE \E t \in Trips : trips[t] = "in" /\ Starts(r, "trips", {t})
    <3>1. PICK t \in Trips : trips[t] = "in" /\ Starts(r, "trips", {t})
      BY <2>1
    <3>2. {t} \in SUBSET Ends /\ {t} \subseteq Trips /\ \A e \in {t} : trips[e] = "in"
      BY <3>1 DEF Ends
    <3> QED BY <3>1, <3>2 DEF Starts
  <2>2. CASE \E S \in SUBSET Items : Starts(r, "own", S)
    <3>1. PICK S \in SUBSET Items : Starts(r, "own", S)
      BY <2>2
    <3>2. S \in SUBSET Ends
      BY <3>1 DEF Ends
    <3> QED BY <3>1, <3>2 DEF Starts
  <2> QED BY <2>1, <2>2 DEF AskCheck
<1>2. UNCHANGED <<tableVars, trips, link, unchecked, waived, clicks>>
  BY DEF AskCheck
<1>3. check \in [Reqs -> Check \cup {None}]
  BY DEF LinksInductive, LinksTypeOK
<1> DEFINE v == NewCheck(step, S)
<1>4. v \in Check /\ v.step = step /\ v.about = S /\ v.fresh = {}
  BY NewCheckType
<1> HIDE DEF v
<1>5. check'[r] = v
  BY <1>1, <1>3 DEF v
<1>6. InStep(r)'
  BY <1>1, <1>2, <1>4, <1>5, TripsAreNoItems DEF InStep
<1>7. \A e, p : ~Looked(r, e, p)'
  BY <1>4, <1>5 DEF Looked
<1> QED BY <1>1, <1>2, <1>4, <1>6, <1>7, CheckMoves DEF v

\* The items of a collection.
LEMMA ReadIdsKeeps ==
    ASSUME LinksInductive, NEW r \in Reqs, ReadIds(r)
    PROVE  LinksInductive'
<1>1. check[r] # None /\ check[r].step \in {"ids", "own"}
  BY DEF ReadIds, At
<1>2. check[r] \in Check /\ InStep(r) /\ LinksTypeOK
  BY <1>1, UnderWay
<1>3. PICK step \in {"forget", "items"} :
          check' = [check EXCEPT ![r].step = step, ![r].about = @ \cap Present]
  BY DEF ReadIds
<1> DEFINE v == [check[r] EXCEPT !.step = step, !.about = @ \cap Present]
<1>4. UNCHANGED <<tableVars, trips, link, unchecked, waived, clicks>>
  BY DEF ReadIds
<1>5. check' = [check EXCEPT ![r] = v]
  BY <1>2, <1>3 DEF LinksTypeOK
<1>6. /\ v \in Check /\ v.step = step /\ v.about = check[r].about \cap Present
      /\ v.fresh = check[r].fresh
  BY <1>2 DEF Check
<1> HIDE DEF v
<1>7. check'[r] = v
  BY <1>2, <1>5 DEF LinksTypeOK
<1>8. check[r].about \subseteq Items
  BY <1>1, <1>2 DEF InStep
<1>9. InStep(r)'
  BY <1>1, <1>2, <1>4, <1>6, <1>7, <1>8 DEF InStep
<1>10. \A e, p : ~Looked(r, e, p)'
  BY <1>6, <1>7 DEF Looked
<1> QED BY <1>4, <1>5, <1>6, <1>9, <1>10, CheckMoves

\* The lines of the items asked about.
LEMMA ReadItemsKeeps ==
    ASSUME LinksInductive, NEW r \in Reqs, ReadItems(r)
    PROVE  LinksInductive'
<1> DEFINE S == check[r].about \cap Present
           lines == [i \in S |-> items[i]]
           v == [check[r] EXCEPT !.step = "near", !.seen = lines, !.fresh = S]
<1>1. check[r] # None /\ check[r].step = "items"
  BY DEF ReadItems, At
<1>2. check[r] \in Check /\ InStep(r) /\ LinksTypeOK
  BY <1>1, UnderWay
<1>3. /\ check' = [check EXCEPT ![r].step = "near", ![r].seen = lines,
                                ![r].fresh = S]
      /\ UNCHANGED <<tableVars, trips, link, unchecked, waived, clicks>>
  BY DEF ReadItems
<1>4. S \subseteq Items /\ \A i \in S : items[i] \in Lines
  BY <1>2 DEF Present, LinksTypeOK
<1>5. lines \in UNION {[T -> Lines] : T \in SUBSET Items}
  <2>1. lines \in [S -> Lines]
    BY <1>4
  <2> HIDE DEF S, lines
  <2> QED BY <1>4, <2>1
<1>6. check' = [check EXCEPT ![r] = v]
  BY <1>2, <1>3 DEF LinksTypeOK
<1>7. DOMAIN lines = S /\ \A i \in S : lines[i] = items[i]
  OBVIOUS
<1> HIDE DEF S, lines
<1>8. /\ v \in Check /\ v.step = "near" /\ v.seen = lines /\ v.fresh = S
      /\ v.about = check[r].about
  BY <1>2, <1>4, <1>5 DEF Check, Ends
<1> HIDE DEF v
<1>9. check'[r] = v
  BY <1>2, <1>6 DEF LinksTypeOK
<1>10. check[r].about \subseteq Items
  BY <1>1, <1>2 DEF InStep
<1>11. InStep(r)'
  BY <1>3, <1>4, <1>7, <1>8, <1>9, <1>10, TripsAreNoItems DEF InStep, tableVars
<1>12. \A e, p : ~Looked(r, e, p)'
  BY <1>8, <1>9 DEF Looked
<1> QED BY <1>3, <1>6, <1>8, <1>11, <1>12, CheckMoves

\* The trips near items find every one that follows an item as it was read.
LEMMA LookAtTripsKeeps ==
    ASSUME LinksInductive, NEW r \in Reqs, LookAtTrips(r)
    PROVE  LinksInductive'
<1> DEFINE F == Followers(check[r].seen)
           v == [check[r] EXCEPT !.step = "propose", !.found = F]
<1>1. check[r] # None /\ check[r].step = "near"
  BY DEF LookAtTrips, At
<1>2. check[r] \in Check /\ InStep(r) /\ LinksTypeOK
  BY <1>1, UnderWay
<1>3. /\ check' = [check EXCEPT ![r].step = "propose", ![r].found = F]
      /\ UNCHANGED <<tableVars, trips, link, unchecked, waived, clicks>>
  BY DEF LookAtTrips
<1>4. DOMAIN check[r].seen \subseteq Items
  BY <1>2 DEF Check
<1>5. F \subseteq Pairs
  BY <1>4 DEF Followers, Pairs
<1>6. check' = [check EXCEPT ![r] = v]
  BY <1>2, <1>3 DEF LinksTypeOK
<1>7. ASSUME NEW p \in Pairs, NEW e \in {p[1], p[2]}, Owed(p),
             e \in check[r].fresh
      PROVE  p \in F
  <2>1. e \in DOMAIN check[r].seen
        /\ (items[e] # None => items[e] = check[r].seen[e])
    BY <1>1, <1>2, <1>7 DEF InStep
  <2>2. e = p[2] /\ p[2] \notin Trips
    BY <1>4, <2>1, PairEnds, TripsAreNoItems
  <2>3. trips[p[1]] = "in" /\ items[e] # None /\ Follows(p[1], items[e])
    BY <1>7, <2>2, PairEnds DEF Owed, Alive, Here
  <2>4. p \in Trips \X DOMAIN check[r].seen
    <3>1. p = <<p[1], p[2]>> /\ p[1] \in Trips
      BY PairEnds
    <3> QED BY <2>1, <2>2, <3>1
  <2> QED BY <2>1, <2>2, <2>3, <2>4 DEF Followers
<1> HIDE DEF F
<1>8. /\ v \in Check /\ v.step = "propose" /\ v.found = F
      /\ v.about = check[r].about /\ v.fresh = check[r].fresh
  BY <1>2, <1>5 DEF Check
<1> HIDE DEF v
<1>9. check'[r] = v
  BY <1>2, <1>6 DEF LinksTypeOK
<1>10. InStep(r)'
  BY <1>1, <1>2, <1>3, <1>8, <1>9 DEF InStep
<1>11. \A p \in Pairs : \A e \in {p[1], p[2]} :
           Owed(p) /\ Looked(r, e, p)' => p \in v.found
  BY <1>7, <1>8, <1>9 DEF Looked
<1> QED BY <1>3, <1>6, <1>8, <1>10, <1>11, CheckMoves

\* A trip's check reads its line, and finds the trips it goes with.
LEMMA LookAtPlansKeeps ==
    ASSUME LinksInductive, NEW r \in Reqs, LookAtPlans(r)
    PROVE  LinksInductive'
<1> DEFINE F == UNION {Partners(t) : t \in check[r].about}
           v == [check[r] EXCEPT !.step = "tracks", !.fresh = check[r].about,
                                 !.found = F]
<1>1. check[r] # None /\ check[r].step = "trips"
  BY DEF LookAtPlans, At
<1>2. check[r] \in Check /\ InStep(r) /\ LinksTypeOK
  BY <1>1, UnderWay
<1>3. /\ check' = [check EXCEPT ![r].step = "tracks",
                                ![r].fresh = check[r].about, ![r].found = F]
      /\ UNCHANGED <<tableVars, trips, link, unchecked, waived, clicks>>
  BY DEF LookAtPlans
<1>4. check[r].about \subseteq Trips
  BY <1>1, <1>2 DEF InStep
<1>5. F \subseteq Pairs
  BY DEF Partners, Pairs
<1>6. check' = [check EXCEPT ![r] = v]
  BY <1>2, <1>3 DEF LinksTypeOK
<1>7. ASSUME NEW p \in Pairs, NEW e \in {p[1], p[2]}, Owed(p),
             e \in check[r].about, p[2] \in Trips
      PROVE  p \in F
  <2>1. p \in Recorded \X Planned /\ Alive(p) /\ Follows(p[1], p[2])
    BY <1>7, PairEnds DEF Owed
  <2>2. p \in Partners(e)
    BY <2>1 DEF Partners
  <2> QED BY <1>7, <2>2
<1> HIDE DEF F
<1>8. /\ v \in Check /\ v.step = "tracks" /\ v.found = F
      /\ v.about = check[r].about /\ v.fresh = check[r].about
  BY <1>2, <1>5 DEF Check
<1> HIDE DEF v
<1>9. check'[r] = v
  BY <1>2, <1>6 DEF LinksTypeOK
<1>10. InStep(r)'
  BY <1>1, <1>2, <1>3, <1>4, <1>8, <1>9 DEF InStep
<1>11. \A p \in Pairs : \A e \in {p[1], p[2]} :
           Owed(p) /\ Looked(r, e, p)' => p \in v.found
  BY <1>7, <1>8, <1>9 DEF Looked
<1> QED BY <1>3, <1>6, <1>8, <1>10, <1>11, CheckMoves

\* And then the items it goes along.
LEMMA LookAtItemsKeeps ==
    ASSUME LinksInductive, NEW r \in Reqs, LookAtItems(r)
    PROVE  LinksInductive'
<1> DEFINE F == check[r].found \cup UNION {Passed(t) : t \in check[r].about}
           v == [check[r] EXCEPT !.step = "propose", !.found = F]
<1>1. check[r] # None /\ check[r].step = "tracks"
  BY DEF LookAtItems, At
<1>2. check[r] \in Check /\ InStep(r) /\ LinksTypeOK
  BY <1>1, UnderWay
<1>3. UNCHANGED <<tableVars, trips, link, unchecked, waived, clicks>>
  BY DEF LookAtItems
<1>4. check[r].about \subseteq Trips /\ check[r].fresh \subseteq check[r].about
  BY <1>1, <1>2 DEF InStep
<1>5. F \subseteq Pairs
  BY <1>2, <1>4 DEF Passed, Pairs, Check
<1>6. check' = [check EXCEPT ![r] = v]
  BY <1>2 DEF LinksTypeOK, LookAtItems
<1>7. ASSUME NEW p \in Pairs, NEW e \in {p[1], p[2]}, Owed(p),
             e \in check[r].fresh, p[2] \notin Trips
      PROVE  p \in F
  <2>1. /\ p = <<p[1], p[2]>> /\ p[2] \in Items /\ e = p[1]
        /\ e \in check[r].about
    BY <1>4, <1>7, PairEnds
  <2>2. items[p[2]] # None /\ Follows(p[1], items[p[2]])
    BY <1>7 DEF Owed, Alive, Here
  <2>3. p \in Passed(e)
    BY <2>1, <2>2 DEF Passed
  <2> QED BY <2>1, <2>3
<1>8. check[r].found \subseteq F
  OBVIOUS
<1> HIDE DEF F
<1>9. /\ v \in Check /\ v.step = "propose" /\ v.found = F
      /\ v.about = check[r].about /\ v.fresh = check[r].fresh
  BY <1>2, <1>5 DEF Check
<1> HIDE DEF v
<1>10. check'[r] = v
  BY <1>2, <1>6 DEF LinksTypeOK
<1>11. InStep(r)'
  BY <1>1, <1>2, <1>3, <1>9, <1>10 DEF InStep
<1>12. ASSUME NEW p \in Pairs, NEW e \in {p[1], p[2]}, Owed(p), Looked(r, e, p)'
       PROVE  \/ p \in v.found
              \/ /\ Looked(r, e, p)
                 /\ p \in check[r].found => p \in v.found
  <2>1. e \in check[r].fresh
    BY <1>9, <1>10, <1>12 DEF Looked
  <2>2. CASE p[2] \in Trips
    BY <1>1, <1>8, <1>9, <2>1, <2>2 DEF Looked
  <2>3. CASE p[2] \notin Trips
    BY <1>7, <1>9, <1>12, <2>1, <2>3
  <2> QED BY <2>2, <2>3
<1> QED BY <1>3, <1>6, <1>9, <1>11, <1>12, CheckMoves

\* A check that fails leaves its ends unchecked.
LEMMA FailKeeps ==
    ASSUME LinksInductive, NEW r \in Reqs, Fail(r)
    PROVE  LinksInductive'
<1>1. /\ check' = [check EXCEPT ![r] = None]
      /\ UNCHANGED <<tableVars, trips, link, unchecked, waived, clicks>>
      /\ check \in [Reqs -> Check \cup {None}]
  BY DEF Fail, LinksInductive, LinksTypeOK
<1>2. check'[r] = None
  BY <1>1
<1>3. InStep(r)' /\ \A e, p : ~Looked(r, e, p)'
  BY <1>2 DEF InStep, Looked
<1> QED BY <1>1, <1>3, CheckMoves
\* A proposal stands where there was no link, and the ends a check has read as
\* they are count as checked: what it did not find is owed by nobody, or by an
\* end that another check has yet to judge.
LEMMA ProposeKeeps ==
    ASSUME LinksInductive, NEW r \in Reqs, Propose(r)
    PROVE  LinksInductive'
<1> USE DEF tableVars
<1>1. check[r] # None /\ check[r].step = "propose"
  BY DEF Propose, At
<1>2. check[r] \in Check /\ LinksTypeOK /\ \A q \in Reqs : InStep(q)
  BY <1>1, UnderWay DEF LinksInductive
<1>3. /\ \A p \in check[r].found : Alive(p)
      /\ link' = [p \in Pairs |->
             IF p \in check[r].found THEN Proposed(p) ELSE link[p]]
      /\ unchecked' = unchecked \ check[r].fresh
      /\ waived' = waived \ check[r].found
      /\ check' = [check EXCEPT ![r] = None]
      /\ UNCHANGED <<tableVars, trips, clicks>>
  BY DEF Propose
<1>4. check'[r] = None /\ \A q \in Reqs : q # r => check'[q] = check[q]
  BY <1>2, <1>3 DEF LinksTypeOK
<1>5. \A p \in Pairs : /\ link'[p] \in {None, "proposed", "linked"}
                       /\ link'[p] # None => Alive(p)
                       /\ p \in check[r].found => link'[p] # None
                       /\ link'[p] = None => link[p] = None
  BY <1>2, <1>3, LinkAssumption DEF LinksTypeOK, Proposed
<1>6. LinksTypeOK'
  <2>1. \A p \in Pairs : Alive(p)' <=> Alive(p)
    BY <1>3 DEF Alive, Here
  <2>2. Present' = Present
    BY <1>3 DEF Present
  <2>3. check' \in [Reqs -> Check \cup {None}] /\ unchecked' \subseteq Ends
        /\ waived' \subseteq Pairs
        /\ link' \in [Pairs -> {None, "proposed", "linked"}]
    BY <1>2, <1>3, <1>5 DEF LinksTypeOK
  <2>4. \A p \in Pairs : link'[p] # None => Alive(p)'
    BY <1>5, <2>1
  <2> QED BY <1>2, <1>3, <2>2, <2>3, <2>4 DEF LinksTypeOK
<1>7. ASSUME NEW p \in Pairs, Owed(p)' PROVE Owed(p) /\ p \notin check[r].found
  BY <1>3, <1>5, <1>7 DEF Owed, Alive, Here
<1>8. \A e, p : Looked(r, e, p) <=> e \in check[r].fresh
  BY <1>1 DEF Looked
<1>9. \A q \in Reqs : \A e, p : Looked(q, e, p)' => q # r /\ Looked(q, e, p)
  BY <1>4 DEF Looked
<1>10. ASSUME NEW p \in Pairs, Owed(p)'
       PROVE  /\ p[1] \in unchecked' \/ p[2] \in unchecked'
              /\ \A q \in Reqs :
                    /\ Looked(q, p[1], p)' =>
                           p \in check'[q].found \/ p[2] \in unchecked'
                    /\ Looked(q, p[2], p)' =>
                           p \in check'[q].found \/ p[1] \in unchecked'
                    /\ \A s \in Reqs : Looked(q, p[1], p)' /\ Looked(s, p[2], p)' =>
                           p \in check'[q].found \cup check'[s].found
  <2>1. Owed(p) /\ p \notin check[r].found
    BY <1>7, <1>10
  <2>2. p[1] \in unchecked \/ p[2] \in unchecked
    BY <2>1 DEF LinksInductive, NothingOverlooked
  <2>3. \A q \in Reqs :
            /\ Looked(q, p[1], p) => p \in check[q].found \/ p[2] \in unchecked
            /\ Looked(q, p[2], p) => p \in check[q].found \/ p[1] \in unchecked
            /\ \A s \in Reqs : Looked(q, p[1], p) /\ Looked(s, p[2], p) =>
                   p \in check[q].found \cup check[s].found
    BY <2>1 DEF LinksInductive, SeenFromEitherEnd
  <2>4. p[1] \in unchecked' \/ p[2] \in unchecked'
    BY <1>3, <1>8, <2>1, <2>2, <2>3
  <2>5. ASSUME NEW q \in Reqs
        PROVE  /\ Looked(q, p[1], p)' =>
                      p \in check'[q].found \/ p[2] \in unchecked'
               /\ Looked(q, p[2], p)' =>
                      p \in check'[q].found \/ p[1] \in unchecked'
    BY <1>3, <1>4, <1>8, <1>9, <2>1, <2>3
  <2>6. ASSUME NEW q \in Reqs, NEW s \in Reqs,
               Looked(q, p[1], p)', Looked(s, p[2], p)'
        PROVE  p \in check'[q].found \cup check'[s].found
    BY <1>4, <1>9, <2>3, <2>6
  <2> QED BY <2>4, <2>5, <2>6
<1>11. NothingOverlooked' /\ SeenFromEitherEnd'
  BY <1>10 DEF NothingOverlooked, SeenFromEitherEnd
<1>12. ASSUME NEW q \in Reqs PROVE InStep(q)'
  BY <1>2, <1>3, <1>4 DEF InStep
<1> QED BY <1>6, <1>11, <1>12 DEF LinksInductive

\* Checks that are told to forget what they have read stay checks.
LEMMA UnreadIsCheck ==
    ASSUME NEW S, NEW checks \in [Reqs -> Check \cup {None}]
    PROVE  Unread(S, checks) \in [Reqs -> Check \cup {None}]
BY DEF Unread, Check

\* What such a check forgets.
LEMMA UnreadType ==
    ASSUME NEW S, NEW checks \in [Reqs -> Check \cup {None}], NEW q \in Reqs
    PROVE  /\ checks[q] = None => Unread(S, checks)[q] = None
           /\ checks[q] # None =>
                  LET c == Unread(S, checks)[q] IN
                  /\ c.step = checks[q].step /\ c.about = checks[q].about
                  /\ c.seen = checks[q].seen /\ c.found = checks[q].found
                  /\ c.fresh = checks[q].fresh \ S
BY DEF Unread, Check

\* Forgetting a proposal takes its item back among those to check.
LEMMA ForgetKeeps ==
    ASSUME LinksInductive, NEW r \in Reqs, Forget(r)
    PROVE  LinksInductive'
<1> USE DEF tableVars
<1> DEFINE S == check[r].about
           checks == [check EXCEPT ![r].step = "items"]
<1>1. check[r] # None /\ check[r].step = "forget"
  BY DEF Forget, At
<1>2. check[r] \in Check /\ LinksTypeOK /\ \A q \in Reqs : InStep(q)
  BY <1>1, UnderWay DEF LinksInductive
<1>3. /\ link' = [p \in Pairs |-> IF p \in Forgettable(S) THEN None ELSE link[p]]
      /\ unchecked' = unchecked \cup (S \cap Present)
      /\ check' = Unread(S, checks)
      /\ UNCHANGED <<tableVars, trips, waived, clicks>>
  BY DEF Forget
<1>4. S \subseteq Items
  BY <1>1, <1>2 DEF InStep
<1>5. /\ checks \in [Reqs -> Check \cup {None}]
      /\ checks[r].step = "items" /\ checks[r].about = S
      /\ checks[r].fresh = check[r].fresh
      /\ \A q \in Reqs : q # r => checks[q] = check[q]
  BY <1>2 DEF LinksTypeOK, Check
<1> HIDE DEF S, checks
<1>6. check' \in [Reqs -> Check \cup {None}]
  BY <1>3, <1>5, UnreadIsCheck
<1>7. ASSUME NEW q \in Reqs, check'[q] # None
      PROVE  /\ checks[q] # None
             /\ check'[q].step = checks[q].step /\ check'[q].about = checks[q].about
             /\ check'[q].seen = checks[q].seen /\ check'[q].found = checks[q].found
             /\ check'[q].fresh = checks[q].fresh \ S
  BY <1>3, <1>5, <1>7, UnreadType
<1>8. LinksTypeOK'
  <2>1. \A p \in Pairs : Alive(p)' <=> Alive(p)
    BY <1>3 DEF Alive, Here
  <2>2. Present' = Present
    BY <1>3 DEF Present
  <2>3. unchecked' \subseteq Ends
    BY <1>2, <1>3, <1>4 DEF LinksTypeOK, Ends
  <2>4. link' \in [Pairs -> {None, "proposed", "linked"}]
        /\ \A p \in Pairs : link'[p] # None => Alive(p)'
    BY <1>2, <1>3, <2>1 DEF LinksTypeOK
  <2> QED BY <1>2, <1>3, <1>6, <2>2, <2>3, <2>4 DEF LinksTypeOK
<1>9. ASSUME NEW p \in Pairs, Owed(p)'
      PROVE  \/ \E e \in {p[1], p[2]} :
                    /\ e \in unchecked'
                    /\ \A q \in Reqs : check'[q] # None => e \notin check'[q].fresh
             \/ /\ Owed(p)
                /\ \A e \in {p[1], p[2]} : e \in unchecked => e \in unchecked'
                /\ \A e \in {p[1], p[2]}, q \in Reqs : Looked(q, e, p)' =>
                       \/ p \in check'[q].found
                       \/ /\ Looked(q, e, p)
                          /\ p \in check[q].found => p \in check'[q].found
  <2>1. CASE link[p] = None
    <3>1. Owed(p)
      BY <1>3, <1>9, <2>1 DEF Owed, Alive, Here
    <3>2. ASSUME NEW e \in {p[1], p[2]}, NEW q \in Reqs, Looked(q, e, p)'
          PROVE  Looked(q, e, p) /\ check'[q].found = check[q].found
      <4>1. q # r
        BY <1>5, <1>7, <3>2 DEF Looked
      <4> QED BY <1>5, <1>7, <3>2, <4>1 DEF Looked
    <3> QED BY <1>3, <3>1, <3>2
  <2>2. CASE link[p] # None
    <3>1. p \in PairsOf(S)
      BY <1>3, <1>9, <2>2 DEF Owed, Forgettable
    <3>2. p[2] \in S
      BY <1>4, <3>1, PairEnds, TripsAreNoItems DEF PairsOf
    <3>3. p[2] \in Present
      BY <1>3, <1>4, <1>9, <3>2, TripsAreNoItems DEF Owed, Alive, Here, Present
    <3>4. p[2] \in unchecked'
          /\ \A q \in Reqs : check'[q] # None => p[2] \notin check'[q].fresh
      BY <1>3, <1>7, <3>2, <3>3
    <3> QED BY <3>4
  <2> QED BY <2>1, <2>2
<1>10. NothingOverlooked' /\ SeenFromEitherEnd'
  BY <1>9, StaysSeen DEF LinksInductive
<1>11. ASSUME NEW q \in Reqs PROVE InStep(q)'
  <2>1. CASE q = r
    <3>1. check'[r] # None =>
              /\ check'[r].step = "items" /\ check'[r].about = S
              /\ check'[r].fresh \subseteq check[r].fresh
      BY <1>5, <1>7
    <3>2. \A t \in check[r].fresh \cap Trips : trips[t] # "away"
      BY <1>1, <1>2 DEF InStep
    <3> QED BY <1>3, <1>4, <2>1, <3>1, <3>2, TripsAreNoItems DEF InStep
  <2>2. CASE q # r
    BY <1>2, <1>3, <1>5, <1>7, <2>2 DEF InStep
  <2> QED BY <2>1, <2>2
<1> QED BY <1>8, <1>10, <1>11 DEF LinksInductive

-----------------------------------------------------------------------------
(* What enters, changes and goes.                                          *)

\* A trip that enters is unchecked, and no check has read it.
LEMMA EnterKeeps ==
    ASSUME LinksInductive, NEW r \in Reqs, NEW t \in Trips, Enter(r, t)
    PROVE  LinksInductive'
<1> USE DEF tableVars
<1> DEFINE v == NewCheck("trips", {t})
<1>1. LinksTypeOK /\ \A q \in Reqs : InStep(q)
  BY DEF LinksInductive
<1>2. /\ trips[t] = "away" /\ trips' = [trips EXCEPT ![t] = "in"]
      /\ unchecked' = unchecked \cup {t} /\ check' = [check EXCEPT ![r] = v]
      /\ UNCHANGED <<tableVars, link, waived, clicks>>
  BY DEF Enter, Starts
<1>3. v \in Check /\ v.step = "trips" /\ v.about = {t} /\ v.fresh = {}
  BY NewCheckType DEF Ends
<1> HIDE DEF v
<1>4. check'[r] = v /\ \A q \in Reqs : q # r => check'[q] = check[q]
  BY <1>1, <1>2 DEF LinksTypeOK
<1>5. /\ trips' \in [Trips -> {"away", "in", "deleted"}] /\ trips'[t] = "in"
      /\ \A s \in Trips : s # t => trips'[s] = trips[s]
  BY <1>1, <1>2 DEF LinksTypeOK
<1>6. \A p \in Pairs : Alive(p) => Alive(p)'
  BY <1>2, <1>5, PairEnds DEF Alive, Here
<1>7. LinksTypeOK'
  <2>1. Present' = Present
    BY <1>2 DEF Present
  <2>2. unchecked' \subseteq Ends /\ check' \in [Reqs -> Check \cup {None}]
    BY <1>1, <1>2, <1>3 DEF LinksTypeOK, Ends
  <2> QED BY <1>1, <1>2, <1>5, <1>6, <2>1, <2>2 DEF LinksTypeOK
<1>8. \A q \in Reqs : check'[q] # None => t \notin check'[q].fresh
  <2>1. \A q \in Reqs : check[q] # None => t \notin check[q].fresh
    BY <1>1, <1>2 DEF InStep
  <2> QED BY <1>3, <1>4, <2>1
<1>9. ASSUME NEW p \in Pairs, Owed(p)', t \notin {p[1], p[2]} PROVE Owed(p)
  BY <1>2, <1>5, <1>9, PairEnds DEF Owed, Alive, Here
<1>10. \A q \in Reqs : \A e, p : Looked(q, e, p)' =>
           Looked(q, e, p) /\ check'[q].found = check[q].found
  BY <1>3, <1>4 DEF Looked
<1>11. ASSUME NEW p \in Pairs, Owed(p)'
       PROVE  \/ \E e \in {p[1], p[2]} :
                     /\ e \in unchecked'
                     /\ \A q \in Reqs : check'[q] # None => e \notin check'[q].fresh
              \/ /\ Owed(p)
                 /\ \A e \in {p[1], p[2]} : e \in unchecked => e \in unchecked'
                 /\ \A e \in {p[1], p[2]}, q \in Reqs : Looked(q, e, p)' =>
                        \/ p \in check'[q].found
                        \/ /\ Looked(q, e, p)
                           /\ p \in check[q].found => p \in check'[q].found
  <2>1. CASE t \in {p[1], p[2]}
    BY <1>2, <1>8, <2>1
  <2>2. CASE t \notin {p[1], p[2]}
    BY <1>2, <1>9, <1>10, <1>11, <2>2
  <2> QED BY <2>1, <2>2
<1>12. NothingOverlooked' /\ SeenFromEitherEnd'
  BY <1>11, StaysSeen DEF LinksInductive
<1>13. ASSUME NEW q \in Reqs PROVE InStep(q)'
  <2>1. CASE q = r
    BY <1>3, <1>4, <1>5, <2>1 DEF InStep
  <2>2. CASE q # r
    BY <1>1, <1>2, <1>4, <1>5, <2>2 DEF InStep
  <2> QED BY <2>1, <2>2
<1> QED BY <1>7, <1>12, <1>13 DEF LinksInductive

\* Ends that go take their links with them.
LEMMA LossKeeps ==
    ASSUME LinksInductive, Cascade, Forgotten, UNCHANGED <<check, clicks>>,
           items' \in [Items -> Lines \cup {None}], UNCHANGED lastItem,
           \A i \in Items : items'[i] # None => items'[i] = items[i],
           trips' \in [Trips -> {"away", "in", "deleted"}],
           \A t \in Trips : /\ trips[t] # "away" => trips'[t] # "away"
                            /\ trips'[t] = "in" => trips[t] = "in"
    PROVE  LinksInductive'
<1>1. LinksTypeOK /\ \A q \in Reqs : InStep(q)
  BY DEF LinksInductive
<1>2. \A p \in Pairs : Alive(p)' => Alive(p)
  BY PairEnds DEF Alive, Here
<1>3. LinksTypeOK'
  <2>1. Present' \subseteq Present
    BY DEF Present
  <2>2. link' \in [Pairs -> {None, "proposed", "linked"}]
        /\ \A p \in Pairs : link'[p] # None => Alive(p)'
    BY <1>1 DEF Cascade, LinksTypeOK
  <2>3. unchecked' \subseteq Ends /\ waived' \subseteq Pairs
    BY <1>1 DEF Forgotten, LinksTypeOK
  <2> QED BY <1>1, <2>1, <2>2, <2>3 DEF LinksTypeOK
<1>4. ASSUME NEW p \in Pairs, Owed(p)'
      PROVE  /\ Owed(p)
             /\ \A e \in {p[1], p[2]} : e \in unchecked => e \in unchecked'
  <2>1. Alive(p)' /\ Alive(p) /\ link'[p] = None /\ p \notin waived'
        /\ Follows(p[1], IF p[2] \in Trips THEN p[2] ELSE items'[p[2]])
    BY <1>2, <1>4 DEF Owed
  <2>2. link[p] = None /\ p \notin waived
    BY <2>1 DEF Cascade, Forgotten
  <2>3. p[2] \notin Trips => items'[p[2]] = items[p[2]]
    BY <2>1, PairEnds DEF Alive, Here
  <2>4. \A e \in {p[1], p[2]} : e \in unchecked => e \in unchecked'
    BY <2>1 DEF Alive, Forgotten
  <2> QED BY <2>1, <2>2, <2>3, <2>4 DEF Owed
<1>5. \A q \in Reqs : \A e, p : Looked(q, e, p)' => Looked(q, e, p)
  BY DEF Looked
<1>6. NothingOverlooked' /\ SeenFromEitherEnd'
  BY <1>4, <1>5, StaysSeen DEF LinksInductive
<1>7. ASSUME NEW q \in Reqs PROVE InStep(q)'
  <2>1. check[q] # None => check[q].about \subseteq Ends
    BY <1>1 DEF LinksTypeOK, Check
  <2>2. check[q] # None => check[q].fresh \subseteq Ends
    BY <1>1 DEF LinksTypeOK, Check
  <2>3. check[q] # None => DOMAIN check[q].seen \subseteq Items
    BY <1>1 DEF LinksTypeOK, Check
  <2> QED BY <1>1, <2>1, <2>2, <2>3 DEF InStep
<1> QED BY <1>3, <1>6, <1>7 DEF LinksInductive

\* A trip that is deleted.
LEMMA DeleteTripKeeps ==
    ASSUME LinksInductive, NEW t \in Trips, DeleteTrip(t)
    PROVE  LinksInductive'
BY LossKeeps DEF DeleteTrip, LinksInductive, LinksTypeOK, tableVars

\* Items that are deleted.
LEMMA DeleteItemsKeeps ==
    ASSUME LinksInductive, DeleteItems
    PROVE  LinksInductive'
BY LossKeeps DEF DeleteItems, Removal, LinksInductive, LinksTypeOK

\* An item put in or replaced is unchecked, and what checks have read of it
\* counts no more; others keep their lines or go.
LEMMA ChangeKeeps ==
    ASSUME LinksInductive, NEW i \in Items, NEW l \in Lines,
           NEW gone \in SUBSET Present, Entry(i, l, gone),
           NEW checks \in [Reqs -> Check \cup {None}],
           \A q \in Reqs : \/ checks[q] = check[q]
                           \/ /\ checks[q].step \in {"ids", "forget"}
                              /\ checks[q].about = {i} /\ checks[q].fresh = {},
           Changes({i}, checks), Cascade, UNCHANGED <<trips, clicks>>
    PROVE  LinksInductive'
<1>1. LinksTypeOK /\ \A q \in Reqs : InStep(q)
  BY DEF LinksInductive
<1>2. /\ items' \in [Items -> Lines \cup {None}]
      /\ lastItem' \in [Kinds -> Nat]
      /\ \A j \in Present' : j[2] <= lastItem'[j[1]]
      /\ \A j \in Items : j # i => items'[j] \in {items[j], None}
  BY <1>1, EntryTypes
<1>3. /\ unchecked' = {e \in unchecked : Here(e)'} \cup {i}
      /\ waived' = {p \in waived \ PairsOf({i}) : Alive(p)'}
      /\ check' = Unread({i}, checks)
  BY DEF Changes
<1>4. check' \in [Reqs -> Check \cup {None}]
  BY <1>3, UnreadIsCheck
<1>5. ASSUME NEW q \in Reqs, check'[q] # None
      PROVE  /\ checks[q] # None
             /\ check'[q].step = checks[q].step /\ check'[q].about = checks[q].about
             /\ check'[q].seen = checks[q].seen /\ check'[q].found = checks[q].found
             /\ check'[q].fresh = checks[q].fresh \ {i}
  BY <1>3, <1>5, UnreadType
<1>6. LinksTypeOK'
  <2>1. link' \in [Pairs -> {None, "proposed", "linked"}]
        /\ \A p \in Pairs : link'[p] # None => Alive(p)'
    BY <1>1 DEF Cascade, LinksTypeOK
  <2>2. unchecked' \subseteq Ends /\ waived' \subseteq Pairs
    BY <1>1, <1>3 DEF LinksTypeOK, Ends
  <2> QED BY <1>1, <1>2, <1>4, <2>1, <2>2 DEF LinksTypeOK
<1>7. ASSUME NEW q \in Reqs, NEW e, NEW p, Looked(q, e, p)'
      PROVE  Looked(q, e, p) /\ check'[q].found = check[q].found
  BY <1>5, <1>7 DEF Looked
<1>8. ASSUME NEW p \in Pairs, Owed(p)'
      PROVE  \/ \E e \in {p[1], p[2]} :
                    /\ e \in unchecked'
                    /\ \A q \in Reqs : check'[q] # None => e \notin check'[q].fresh
             \/ /\ Owed(p)
                /\ \A e \in {p[1], p[2]} : e \in unchecked => e \in unchecked'
                /\ \A e \in {p[1], p[2]}, q \in Reqs : Looked(q, e, p)' =>
                       \/ p \in check'[q].found
                       \/ /\ Looked(q, e, p)
                          /\ p \in check[q].found => p \in check'[q].found
  <2>1. CASE p[2] = i
    <3>1. i \in unchecked'
          /\ \A q \in Reqs : check'[q] # None => i \notin check'[q].fresh
      BY <1>3, <1>5
    <3> QED BY <2>1, <3>1
  <2>2. CASE p[2] # i
    <3>1. Alive(p)' /\ link'[p] = None /\ p \notin waived'
          /\ Follows(p[1], IF p[2] \in Trips THEN p[2] ELSE items'[p[2]])
      BY <1>8 DEF Owed
    <3>2. p[1] # i /\ p \notin PairsOf({i})
      BY <2>2, PairEnds, TripsAreNoItems DEF PairsOf
    <3>3. link[p] = None /\ p \notin waived
      BY <1>3, <3>1, <3>2 DEF Cascade
    <3>4. p[2] \notin Trips => items'[p[2]] = items[p[2]]
      BY <1>2, <2>2, <3>1, PairEnds DEF Alive, Here
    <3>5. Alive(p)
      BY <3>1, <3>4, PairEnds DEF Alive, Here
    <3>6. \A e \in {p[1], p[2]} : e \in unchecked => e \in unchecked'
      BY <1>3, <3>1 DEF Alive
    <3>7. Owed(p)
      BY <3>1, <3>3, <3>4, <3>5 DEF Owed
    <3> QED BY <1>7, <3>6, <3>7
  <2> QED BY <2>1, <2>2
<1>9. NothingOverlooked' /\ SeenFromEitherEnd'
  BY <1>8, StaysSeen DEF LinksInductive
<1>10. ASSUME NEW q \in Reqs PROVE InStep(q)'
  <2> SUFFICES ASSUME check'[q] # None PROVE InStep(q)'
    BY DEF InStep
  <2>1. CASE checks[q] # check[q]
    BY <1>5, <2>1, TripsAreNoItems DEF InStep
  <2>2. CASE checks[q] = check[q]
    <3>1. DOMAIN check[q].seen \subseteq Items
      BY <1>1, <1>5, <2>2 DEF LinksTypeOK, Check
    <3>2. InStep(q) /\ check[q] # None
      BY <1>1, <1>5, <2>2
    <3> QED BY <1>2, <1>5, <2>2, <3>1, <3>2 DEF InStep
  <2> QED BY <2>1, <2>2
<1> QED BY <1>6, <1>9, <1>10 DEF LinksInductive

\* A confirmed import, or a collection made from a file.
LEMMA ImportKeeps ==
    ASSUME LinksInductive, NEW r \in Reqs, Import(r)
    PROVE  LinksInductive'
<1>1. PICK i \in Items, l \in Lines, gone \in SUBSET Present,
           step \in {"ids", "forget"} :
          /\ Entry(i, l, gone)
          /\ UNCHANGED <<trips, clicks>>
          /\ Changes({i}, [check EXCEPT ![r] = NewCheck(step, {i})])
  BY DEF Import
<1> DEFINE v == NewCheck(step, {i})
           checks == [check EXCEPT ![r] = v]
<1>2. check \in [Reqs -> Check \cup {None}]
  BY DEF LinksInductive, LinksTypeOK
<1>3. v \in Check /\ v.step = step /\ v.about = {i} /\ v.fresh = {}
  BY NewCheckType DEF Ends
<1>4. Changes({i}, checks)
  BY <1>1
<1> HIDE DEF v
<1>5. /\ checks \in [Reqs -> Check \cup {None}]
      /\ \A q \in Reqs : \/ checks[q] = check[q]
                         \/ /\ checks[q].step \in {"ids", "forget"}
                            /\ checks[q].about = {i} /\ checks[q].fresh = {}
  BY <1>2, <1>3
<1> HIDE DEF checks
<1> QED BY <1>1, <1>4, <1>5, ChangeKeeps DEF Import

\* A waypoint moved by hand goes nowhere.
LEMMA MoveWaypointKeeps ==
    ASSUME LinksInductive, MoveWaypoint
    PROVE  LinksInductive'
<1>1. PICK i \in Present, l \in Lines :
          /\ Entry(i, l, {})
          /\ UNCHANGED <<trips, link, clicks>>
          /\ Changes({i}, check)
  BY DEF MoveWaypoint
<1>2. LinksTypeOK /\ i \in Items
  BY DEF LinksInductive, Present
<1>3. \A p \in Pairs : Alive(p) => Alive(p)'
  <2>1. \A j \in Items : items[j] # None => items'[j] # None
    BY <1>1, <1>2, ItemAssumption DEF Entry
  <2> QED BY <1>1, <2>1, PairEnds DEF Alive, Here
<1>4. Cascade
  BY <1>1, <1>2, <1>3 DEF Cascade, LinksTypeOK
<1> QED BY <1>1, <1>2, <1>4, ChangeKeeps DEF LinksTypeOK
-----------------------------------------------------------------------------
(* The owner.                                                              *)

\* The owner's clicks make links, or waive what they take away.
LEMMA OwnerKeeps ==
    ASSUME LinksInductive, UNCHANGED <<tableVars, trips, check, unchecked>>,
           link' \in [Pairs -> {None, "proposed", "linked"}],
           \A p \in Pairs : /\ link'[p] # None => Alive(p)
                            /\ link'[p] = None => link[p] = None \/ p \in waived',
           waived \subseteq waived', waived' \subseteq Pairs,
           clicks' \in 0 .. MaxClicks
    PROVE  LinksInductive'
<1> USE DEF tableVars
<1>1. LinksTypeOK /\ \A q \in Reqs : InStep(q)
  BY DEF LinksInductive
<1>2. \A p \in Pairs : Alive(p)' <=> Alive(p)
  BY DEF Alive, Here
<1>3. Present' = Present
  BY DEF Present
<1>4. LinksTypeOK'
  BY <1>1, <1>2, <1>3 DEF LinksTypeOK
<1>5. \A p \in Pairs : Owed(p)' => Owed(p)
  BY <1>2 DEF Owed
<1>6. \A q \in Reqs : \A e, p : Looked(q, e, p)' => Looked(q, e, p)
  BY DEF Looked
<1>7. NothingOverlooked' /\ SeenFromEitherEnd'
  BY <1>5, <1>6, StaysSeen DEF LinksInductive
<1>8. \A q \in Reqs : InStep(q)'
  BY <1>1 DEF InStep
<1> QED BY <1>4, <1>7, <1>8 DEF LinksInductive

\* A click is counted.
LEMMA ClickType == ASSUME LinksTypeOK, Click PROVE clicks' \in 0 .. MaxClicks
BY ClicksAssumption DEF LinksTypeOK, Click

\* Trips and tracks linked by hand.
LEMMA LinkSelectionKeeps ==
    ASSUME LinksInductive, LinkSelection
    PROVE  LinksInductive'
<1>1. PICK T \in SUBSET {t \in Trips : trips[t] = "in"},
           K \in SUBSET {i \in Items : i[1] = "track" /\ items[i] # None} :
          link' = [p \in Pairs |->
                      IF p \in Selected(T, K) THEN "linked" ELSE link[p]]
  BY DEF LinkSelection
<1>2. LinksTypeOK /\ clicks' \in 0 .. MaxClicks
      /\ UNCHANGED <<tableVars, trips, check, unchecked, waived>>
  BY ClickType DEF LinkSelection, LinksInductive
<1>3. ASSUME NEW p \in Pairs, p \in Selected(T, K) PROVE Alive(p)
  <2>1. p[1] \in T /\ p[2] \in T \cup K
    BY <1>3 DEF Selected
  <2> QED BY <2>1, TripsAreNoItems DEF Alive, Here
<1>4. /\ link' \in [Pairs -> {None, "proposed", "linked"}]
      /\ \A p \in Pairs : /\ link'[p] # None => Alive(p)
                          /\ link'[p] = None => link[p] = None
  BY <1>1, <1>2, <1>3, LinkAssumption DEF LinksTypeOK
<1> QED BY <1>2, <1>4, OwnerKeeps DEF LinksTypeOK

\* Proposals that become links, or are waived.
LEMMA SettleKeeps ==
    ASSUME LinksInductive, Confirm \/ Dismiss
    PROVE  LinksInductive'
<1>1. PICK S \in SUBSET Proposals :
          \/ /\ link' = [p \in Pairs |-> IF p \in S THEN "linked" ELSE link[p]]
             /\ waived' = waived
          \/ /\ link' = [p \in Pairs |-> IF p \in S THEN None ELSE link[p]]
             /\ waived' = waived \cup S
  <2>1. CASE Confirm
    BY <2>1 DEF Confirm
  <2>2. CASE Dismiss
    BY <2>2 DEF Dismiss
  <2> QED BY <2>1, <2>2
<1>2. LinksTypeOK /\ clicks' \in 0 .. MaxClicks
      /\ UNCHANGED <<tableVars, trips, check, unchecked>>
  BY ClickType DEF Confirm, Dismiss, LinksInductive
<1>3. S \subseteq Pairs /\ \A p \in S : Alive(p)
  BY <1>2, LinkAssumption DEF Proposals, LinksTypeOK
<1>4. /\ link' \in [Pairs -> {None, "proposed", "linked"}]
      /\ \A p \in Pairs :
             /\ link'[p] # None => Alive(p)
             /\ link'[p] = None => link[p] = None \/ p \in waived'
      /\ waived \subseteq waived' /\ waived' \subseteq Pairs
  <2>1. CASE /\ link' = [p \in Pairs |-> IF p \in S THEN "linked" ELSE link[p]]
             /\ waived' = waived
    BY <1>2, <1>3, <2>1, LinkAssumption DEF LinksTypeOK
  <2>2. CASE /\ link' = [p \in Pairs |-> IF p \in S THEN None ELSE link[p]]
             /\ waived' = waived \cup S
    BY <1>2, <1>3, <2>2 DEF LinksTypeOK
  <2> QED BY <1>1, <2>1, <2>2
<1> QED BY <1>2, <1>4, OwnerKeeps

\* A link taken away.
LEMMA UnlinkKeeps ==
    ASSUME LinksInductive, NEW p \in Pairs, Unlink(p)
    PROVE  LinksInductive'
<1>1. LinksTypeOK /\ clicks' \in 0 .. MaxClicks
      /\ UNCHANGED <<tableVars, trips, check, unchecked>>
      /\ link' = [link EXCEPT ![p] = None] /\ waived' = waived \cup {p}
  BY ClickType DEF Unlink, LinksInductive
<1>2. /\ link' \in [Pairs -> {None, "proposed", "linked"}]
      /\ \A q \in Pairs :
             /\ link'[q] # None => Alive(q)
             /\ link'[q] = None => link[q] = None \/ q \in waived'
      /\ waived \subseteq waived' /\ waived' \subseteq Pairs
  BY <1>1 DEF LinksTypeOK
<1> QED BY <1>1, <1>2, OwnerKeeps

-----------------------------------------------------------------------------
(* The theorems.                                                           *)

\* Nothing is there at first.
LEMMA InitLinks == Init => LinksInductive
<1> SUFFICES ASSUME Init PROVE LinksInductive
  OBVIOUS
<1>1. Present = {}
  BY DEF Init, TableInit, Present
<1>2. \A p \in Pairs : ~Alive(p)
  BY <1>1, PairEnds DEF Init, Alive, Here, Present
<1>3. LinksTypeOK
  BY <1>1, ClicksAssumption DEF Init, TableInit, LinksTypeOK
<1>4. NothingOverlooked /\ SeenFromEitherEnd
  BY <1>2 DEF NothingOverlooked, SeenFromEitherEnd, Owed
<1>5. \A r \in Reqs : InStep(r)
  BY DEF Init, InStep
<1> QED BY <1>3, <1>4, <1>5 DEF LinksInductive

\* Every step keeps the invariant.
LEMMA NextLinks == LinksInductive /\ [Next]_vars => LinksInductive'
<1> SUFFICES ASSUME LinksInductive, [Next]_vars PROVE LinksInductive'
  OBVIOUS
<1>1. CASE DeleteItems \/ MoveWaypoint \/ LinkSelection \/ Confirm \/ Dismiss
  BY <1>1, DeleteItemsKeeps, MoveWaypointKeeps, LinkSelectionKeeps, SettleKeeps
<1>2. CASE (\E p \in Pairs : Unlink(p)) \/ (\E t \in Trips : DeleteTrip(t))
  BY <1>2, UnlinkKeeps, DeleteTripKeeps
<1>3. ASSUME NEW r \in Reqs,
             \/ \E t \in Trips : Enter(r, t)
             \/ Import(r) \/ AskCheck(r)
             \/ ReadIds(r) \/ Forget(r) \/ ReadItems(r) \/ LookAtTrips(r)
             \/ LookAtPlans(r) \/ LookAtItems(r) \/ Propose(r) \/ Fail(r)
      PROVE  LinksInductive'
  BY <1>3, EnterKeeps, ImportKeeps, AskCheckKeeps, ReadIdsKeeps, ForgetKeeps,
     ReadItemsKeeps, LookAtTripsKeeps, LookAtPlansKeeps, LookAtItemsKeeps,
     ProposeKeeps, FailKeeps
<1>4. CASE UNCHANGED vars
  BY <1>4, OwnerKeeps DEF vars, LinksInductive, LinksTypeOK, tableVars
<1> QED BY <1>1, <1>2, <1>3, <1>4 DEF Next

\* What the other theorems rest on: the last of two checks to look from the
\* ends of a pair sees the other end.
THEOREM LinksStaySound == Spec => []LinksInductive
BY InitLinks, NextLinks, PTL DEF Spec

\* However many requests enter, replace, move and delete things side by side,
\* and wherever their checks fail, a pair of checked ends of which one follows
\* the other is linked, proposed or waived.
THEOREM NoPairIsOverlooked == Spec => []NothingOverlooked
<1>1. LinksInductive => NothingOverlooked
  BY DEF LinksInductive
<1> QED BY <1>1, LinksStaySound, PTL

\* No step but the owner's own takes a link of theirs from two ends there are.
THEOREM OwnersLinksStay == Spec => LinksKept
<1>1. ASSUME LinksInductive, [Next]_vars
      PROVE  [\A p \in Pairs : link[p] = "linked" /\ link'[p] # "linked" =>
                  ~Alive(p)' \/ Unlink(p)]_vars
  <2> SUFFICES ASSUME Next, NEW p \in Pairs, link[p] = "linked", Alive(p)',
                      ~Unlink(p)
               PROVE  link'[p] = "linked"
    BY <1>1
  <2>1. LinksTypeOK
    BY <1>1 DEF LinksInductive
  <2>2. CASE Cascade
    BY <2>2 DEF Cascade
  <2>3. CASE UNCHANGED link
    BY <2>3
  <2>4. CASE LinkSelection \/ Confirm \/ Dismiss
    BY <2>4, LinkAssumption DEF LinkSelection, Confirm, Dismiss, Proposals
  <2>5. ASSUME NEW q \in Pairs, Unlink(q) PROVE link'[p] = "linked"
    BY <2>1, <2>5 DEF Unlink, LinksTypeOK
  <2>6. ASSUME NEW r \in Reqs, Propose(r) \/ Forget(r) PROVE link'[p] = "linked"
    BY <2>6, LinkAssumption DEF Propose, Proposed, Forget, Forgettable
  <2> QED BY <2>2, <2>3, <2>4, <2>5, <2>6
          DEF Next, DeleteItems, MoveWaypoint, DeleteTrip, Enter, Import,
              AskCheck, ReadIds, ReadItems, LookAtTrips, LookAtPlans,
              LookAtItems, Fail
<1> QED BY <1>1, LinksStaySound, PTL DEF Spec, LinksKept
=============================================================================
