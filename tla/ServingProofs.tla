--------------------------- MODULE ServingProofs ---------------------------
(***************************************************************************)
(* Proofs about what an import passes through, StagedImport and Serving,   *)
(* for any number of requests, files, records and kills: what is imported  *)
(* is what was shown, and the flush at the end keeps the access log whole; *)
(* the two invariants, StagedInductive and LogInductive, do not need each  *)
(* other.  And about what is worked out of an imported track, Figures, for *)
(* any track, profile, trip and plan: photos are placed by the clock, no   *)
(* rise is overlooked, and a trip is judged by what is near it, whichever  *)
(* way it went; all go by induction on the points.                         *)
(***************************************************************************)
EXTENDS Serving, Figures, TLAPS, SequenceTheorems, FiniteSetTheorems, WellFoundedInduction

-----------------------------------------------------------------------------
(* The staged import.                                                      *)

\* None is no row and no request.
LEMMA NoneIsNothing == None \notin Row /\ None \notin InFlight /\ None \notin Requests
BY StagedAssumption

\* At the start nothing is parked, imported or asked.
LEMMA InitStaged == StagedInit => StagedInductive
<1> SUFFICES ASSUME StagedInit PROVE StagedInductive
  OBVIOUS
<1>1. StagedTypes
  BY DEF StagedInit, StagedTypes
<1>2. Rows = {} /\ \A r \in Requests : req[r] = None
  BY DEF StagedInit, Rows
<1>3. TakenStays
  BY <1>2, NoneIsNothing DEF StagedInit, TakenStays, At
<1>4. IdsNameOneFile
  BY <1>2 DEF StagedInit, IdsNameOneFile, At
<1>5. OnePlace
  BY <1>2 DEF StagedInit, OnePlace, At, Uploading, Parked, Imported
<1>6. ImportsWhatWasShown
  BY DEF StagedInit, ImportsWhatWasShown
<1> QED BY <1>1, <1>3, <1>4, <1>5, <1>6 DEF StagedInductive

\* A step of one request that parks and imports nothing: it may take rows away
\* while nobody holds the write lock.
LEMMA Steps ==
    ASSUME StagedInductive, NEW r \in Requests, NEW n \in InFlight \cup {None},
           req' = [req EXCEPT ![r] = n],
           UNCHANGED <<lastId, trips, fresh, now>>,
           staging' \in [Ids -> Row \cup {None}],
           \A i \in Ids : staging'[i] \in {staging[i], None},
           writer' \in Requests \cup {None},
           \A q \in Requests \ {r} : writer' = q <=> writer = q,
           n # None /\ n.at = "taken" <=> writer' = r,
           n # None /\ n.at = "taken" => n.id \in Rows,
           staging' = staging \/ (LockFree /\ writer' = None),
           n # None => n.at # "parked",
           n # None /\ n.at \in {"begin", "taken"} => <<n.id, n.file>> \in handles,
           n # None /\ n.at \in {"sweep", "park"} =>
               Uploading(r) /\ n.file = req[r].file,
           \/ handles' = handles
           \/ At(r, "parked") /\ handles' = handles \cup {<<req[r].id, req[r].file>>}
    PROVE  StagedInductive'
<1>1. StagedTypes /\ TakenStays /\ IdsNameOneFile /\ OnePlace /\ ImportsWhatWasShown
  BY DEF StagedInductive
<1>2. ASSUME NEW q \in Requests, q # r PROVE req'[q] = req[q]
  BY <1>1, <1>2 DEF StagedTypes
<1>3. req'[r] = n
  BY <1>1 DEF StagedTypes
<1>4. Rows' \subseteq Rows /\ \A i \in Rows' : staging'[i] = staging[i]
  BY DEF Rows
<1>5. StagedTypes'
  <2>1. req' \in [Requests -> InFlight \cup {None}]
    BY <1>1 DEF StagedTypes
  <2>2. handles' \subseteq Nat \X Files
    BY <1>1 DEF StagedTypes, At, InFlight
  <2> QED BY <1>1, <2>1, <2>2 DEF StagedTypes
<1>6. TakenStays'
  <2>1. ASSUME NEW q \in Requests PROVE At(q, "taken")' <=> writer' = q
    BY <1>1, <1>2, <1>3 DEF TakenStays, At
  <2>2. ASSUME NEW q \in Requests, At(q, "taken")' PROVE req'[q].id \in Rows'
    <3>1. writer' = q /\ q # None
      BY <2>1, <2>2, NoneIsNothing
    <3>2. Rows' = Rows
      BY <3>1 DEF Rows
    <3> QED BY <1>1, <1>2, <1>3, <2>2, <3>2 DEF TakenStays, At
  <2> QED BY <2>1, <2>2 DEF TakenStays
<1>7. \A id, f : Names(id, f) => Names(id, f)'
  BY <1>4 DEF Names
<1>8. IdsNameOneFile'
  <2>1. \A i \in Rows' : i <= lastId'
    BY <1>1, <1>4 DEF IdsNameOneFile
  <2>2. ASSUME NEW h \in handles' PROVE Names(h[1], h[2])'
    BY <1>1, <1>7 DEF IdsNameOneFile
  <2>3. ASSUME NEW q \in Requests
        PROVE  /\ At(q, "parked")' => Names(req[q].id, req[q].file)'
               /\ At(q, "begin")' \/ At(q, "taken")' =>
                      <<req'[q].id, req'[q].file>> \in handles'
    <3>1. CASE q = r
      BY <1>3, <3>1 DEF At
    <3>2. CASE q # r
      <4>1. At(q, "parked")' => Names(req[q].id, req[q].file)
        BY <1>1, <1>2, <3>2 DEF IdsNameOneFile, At
      <4>2. req'[q] = req[q]
        BY <1>2, <3>2
      <4>3. At(q, "parked")' => Names(req[q].id, req[q].file)'
        BY <1>4, <4>1, <4>2 DEF Names
      <4>4. At(q, "begin")' \/ At(q, "taken")' => <<req[q].id, req[q].file>> \in handles
        BY <1>1, <1>2, <3>2 DEF IdsNameOneFile, At
      <4> QED BY <4>2, <4>3, <4>4
    <3> QED BY <3>1, <3>2
  <2> QED BY <2>1, <2>2, <2>3 DEF IdsNameOneFile
<1>9. OnePlace'
  <2>1. \A f : Parked(f)' => Parked(f)
    BY <1>4 DEF Parked
  <2>2. \A f : Imported(f)' <=> Imported(f)
    BY DEF Imported
  <2>3. \A q \in Requests : Uploading(q)' => Uploading(q) /\ req'[q].file = req[q].file
    BY <1>2, <1>3 DEF Uploading, At
  <2>4. \A f \in fresh' : ~Parked(f)' /\ ~Imported(f)'
    BY <1>1, <2>1, <2>2 DEF OnePlace
  <2>5. ASSUME NEW q \in Requests, Uploading(q)'
        PROVE  /\ req'[q].file \notin fresh'
               /\ ~Parked(req[q].file)' /\ ~Imported(req[q].file)'
               /\ \A p \in Requests :
                     Uploading(p)' /\ req'[p].file = req'[q].file => p = q
    <3>1. PICK f : f = req[q].file /\ f = req'[q].file
      BY <2>3, <2>5
    <3>2. f \notin fresh /\ ~Parked(f) /\ ~Imported(f)
      BY <1>1, <2>3, <2>5, <3>1 DEF OnePlace
    <3>3. \A p \in Requests : Uploading(p)' /\ req'[p].file = f => p = q
      BY <1>1, <2>3, <2>5, <3>1 DEF OnePlace
    <3>4. ~Parked(f)' /\ ~Imported(f)'
      BY <2>1, <2>2, <3>2
    <3> QED BY <3>1, <3>2, <3>3, <3>4 DEF Parked, Imported
  <2>6. \A i, j \in Rows' : staging'[i].file = staging'[j].file => i = j
    BY <1>1, <1>4 DEF OnePlace
  <2>7. \A i \in Rows' : ~Imported(staging[i].file)'
    BY <1>1, <1>4, <2>2 DEF OnePlace, Imported
  <2>8. \A i \in Rows' : ~Imported(staging[i].file)' => staging'[i] = staging[i]
    BY <1>4
  <2> QED BY <2>4, <2>5, <2>6, <2>7, <2>8 DEF OnePlace
<1>10. ImportsWhatWasShown'
  BY <1>1 DEF ImportsWhatWasShown
<1> QED BY <1>5, <1>6, <1>8, <1>9, <1>10 DEF StagedInductive

\* A step that changes no row: a request's next step n, with its lock.
LEMMA OneRequest ==
    ASSUME StagedInductive, NEW r \in Requests, NEW n \in InFlight \cup {None},
           Becomes(r, n),
           UNCHANGED <<tables, fresh, now, handles>>,
           \/ writer' = writer /\ writer # r
           \/ writer' = None /\ writer \in {r, None}
           \/ writer' = r /\ writer = None,
           n # None /\ n.at = "taken" <=> writer' = r,
           n # None /\ n.at = "taken" => n.id \in Rows,
           n # None => n.at # "parked",
           n # None /\ n.at \in {"begin", "taken"} => <<n.id, n.file>> \in handles,
           n # None => n.at \notin {"sweep", "park"}
    PROVE  StagedInductive'
<1>1. req' = [req EXCEPT ![r] = n] /\ UNCHANGED <<staging, lastId, trips, fresh, now, handles>>
  BY DEF Becomes, tables
<1>2. staging' \in [Ids -> Row \cup {None}] /\ \A i \in Ids : staging'[i] \in {staging[i], None}
  BY <1>1 DEF StagedInductive, StagedTypes
<1>3. writer' \in Requests \cup {None}
  BY DEF StagedInductive, StagedTypes
<1>4. \A q \in Requests \ {r} : writer' = q <=> writer = q
  BY NoneIsNothing
<1> HIDE DEF Becomes, tables
<1> QED BY <1>1, <1>2, <1>3, <1>4, Steps

LEMMA SweepKeeps ==
    ASSUME StagedInductive, NEW r \in Requests, SweepStaged(r)
    PROVE  StagedInductive'
<1> DEFINE n == [req[r] EXCEPT !.at = "park"]
<1>1. req[r] \in InFlight /\ req[r].at = "sweep" /\ writer = None
  BY DEF SweepStaged, At, LockFree, StagedInductive, StagedTypes
<1>2. n \in InFlight /\ n # None /\ n.at = "park" /\ n.file = req[r].file
  BY <1>1, NoneIsNothing DEF InFlight
<1>3. staging' \in [Ids -> Row \cup {None}] /\ \A i \in Ids : staging'[i] \in {staging[i], None}
  BY DEF SweepStaged, StagedInductive, StagedTypes
<1>4. Uploading(r)
  BY DEF SweepStaged, Uploading
<1>5. /\ req' = [req EXCEPT ![r] = n] /\ UNCHANGED <<lastId, trips, fresh, now, writer, handles>>
  BY DEF SweepStaged, Becomes
<1>6. writer' # r /\ LockFree /\ writer' = None
  BY <1>1, <1>5, NoneIsNothing DEF LockFree
<1> HIDE DEF n
<1> QED BY <1>2, <1>3, <1>4, <1>5, <1>6, Steps

LEMMA AnswerParkedKeeps ==
    ASSUME StagedInductive, NEW r \in Requests, AnswerParked(r)
    PROVE  StagedInductive'
<1> DEFINE n == [req[r] EXCEPT !.at = "done"]
<1>1. req[r] \in InFlight /\ At(r, "parked") /\ writer # r
  BY DEF AnswerParked, At, StagedInductive, StagedTypes, TakenStays
<1>2. n \in InFlight /\ n # None /\ n.at = "done"
  BY <1>1, NoneIsNothing DEF InFlight
<1>3. staging' = staging /\ staging' \in [Ids -> Row \cup {None}]
      /\ \A i \in Ids : staging'[i] \in {staging[i], None}
  BY DEF AnswerParked, tables, StagedInductive, StagedTypes
<1>4. /\ req' = [req EXCEPT ![r] = n] /\ UNCHANGED <<lastId, trips, fresh, now, writer>>
      /\ handles' = handles \cup {<<req[r].id, req[r].file>>}
  BY DEF AnswerParked, Becomes, tables
<1>5. writer' \in Requests \cup {None} /\ writer' # r
  BY <1>1, <1>4 DEF StagedInductive, StagedTypes
<1> HIDE DEF n
<1> QED BY <1>1, <1>2, <1>3, <1>4, <1>5, Steps

LEMMA AskKeeps ==
    ASSUME StagedInductive, NEW r \in Requests, NEW h \in handles, AskConfirm(r, h)
    PROVE  StagedInductive'
<1> DEFINE n == [at |-> "begin", file |-> h[2], time |-> now, id |-> h[1]]
<1>1. h \in Nat \X Files /\ now \in Nat
  BY DEF StagedInductive, StagedTypes
<1>2. n \in InFlight /\ n.at = "begin" /\ <<n.id, n.file>> = h
  BY <1>1 DEF InFlight
<1>3. writer # r
  BY DEF AskConfirm, At, StagedInductive, TakenStays
<1>4. Becomes(r, n) /\ UNCHANGED <<tables, fresh, now, writer, handles>>
  BY DEF AskConfirm
<1> HIDE DEF n
<1> QED BY <1>2, <1>3, <1>4, OneRequest, NoneIsNothing

LEMMA BeginKeeps ==
    ASSUME StagedInductive, NEW r \in Requests, BeginConfirm(r)
    PROVE  StagedInductive'
<1>1. req[r] \in InFlight /\ At(r, "begin") /\ writer = None
  BY DEF BeginConfirm, At, LockFree, StagedInductive, StagedTypes
<1>2. <<req[r].id, req[r].file>> \in handles
  BY <1>1 DEF StagedInductive, IdsNameOneFile
<1>3. CASE req[r].id \in Rows
  <2> DEFINE n == [req[r] EXCEPT !.at = "taken"]
  <2>1. n \in InFlight /\ n # None /\ n.at = "taken" /\ n.id = req[r].id /\ n.file = req[r].file
    BY <1>1, NoneIsNothing DEF InFlight
  <2>2. Becomes(r, n) /\ writer' = r /\ UNCHANGED <<tables, fresh, now, handles>>
    BY <1>3 DEF BeginConfirm
  <2> HIDE DEF n
  <2> QED BY <1>1, <1>2, <1>3, <2>1, <2>2, OneRequest
<1>4. CASE req[r].id \notin Rows
  <2> DEFINE n == [req[r] EXCEPT !.at = "done"]
  <2>1. n \in InFlight /\ n # None /\ n.at = "done"
    BY <1>1, NoneIsNothing DEF InFlight
  <2>2. Becomes(r, n) /\ UNCHANGED <<writer, tables, fresh, now, handles>>
    BY <1>4 DEF BeginConfirm
  <2>3. writer # r /\ writer' # r
    BY <1>1, <2>2, NoneIsNothing
  <2> HIDE DEF n
  <2> QED BY <2>1, <2>2, <2>3, OneRequest
<1> QED BY <1>3, <1>4

LEMMA CheckKeeps ==
    ASSUME StagedInductive, NEW r \in Requests, CheckLinks(r)
    PROVE  StagedInductive'
<1> DEFINE n == [req[r] EXCEPT !.at = "done"]
<1>1. req[r] \in InFlight /\ writer = None /\ writer # r
  BY NoneIsNothing DEF CheckLinks, At, LockFree, StagedInductive, StagedTypes
<1>2. n \in InFlight /\ n # None /\ n.at = "done"
  BY <1>1, NoneIsNothing DEF InFlight
<1>3. Becomes(r, n) /\ UNCHANGED <<tables, fresh, now, writer, handles>>
  BY DEF CheckLinks
<1> HIDE DEF n
<1> QED BY <1>1, <1>2, <1>3, OneRequest

LEMMA CancelKeeps ==
    ASSUME StagedInductive, NEW r \in Requests, NEW h \in handles, CancelParked(r, h)
    PROVE  StagedInductive'
<1> DEFINE n == [at |-> "done", file |-> h[2], time |-> now, id |-> h[1]]
<1>1. h \in Nat \X Files /\ now \in Nat
  BY DEF StagedInductive, StagedTypes
<1>2. n \in InFlight /\ n # None /\ n.at = "done"
  BY <1>1, NoneIsNothing DEF InFlight
<1>3. staging' \in [Ids -> Row \cup {None}] /\ \A i \in Ids : staging'[i] \in {staging[i], None}
  BY DEF CancelParked, StagedInductive, StagedTypes
<1>4. /\ req' = [req EXCEPT ![r] = n] /\ UNCHANGED <<lastId, trips, fresh, now, writer, handles>>
      /\ LockFree /\ writer' = None
  BY DEF CancelParked, Becomes, LockFree
<1>5. writer' # r /\ writer' \in Requests \cup {None}
  BY <1>4, NoneIsNothing
<1> HIDE DEF n
<1> QED BY <1>2, <1>3, <1>4, <1>5, Steps

LEMMA RefuseKeeps ==
    ASSUME StagedInductive, NEW r \in Requests, Refuse(r)
    PROVE  StagedInductive'
<1> DEFINE n == [req[r] EXCEPT !.at = "done"]
<1>1. req[r] \in InFlight
  BY DEF Refuse, StagedInductive, StagedTypes
<1>2. n \in InFlight /\ n # None /\ n.at = "done"
  BY <1>1, NoneIsNothing DEF InFlight
<1>3. Becomes(r, n) /\ UNCHANGED <<tables, fresh, now, handles>>
  BY DEF Refuse
<1>4. /\ writer' # r
      /\ (writer' = writer /\ writer # r) \/ (writer' = None /\ writer \in {r, None})
  BY NoneIsNothing DEF Refuse
<1> HIDE DEF n
<1> QED BY <1>2, <1>3, <1>4, OneRequest

LEMMA DropKeeps ==
    ASSUME StagedInductive, NEW r \in Requests, Drop(r)
    PROVE  StagedInductive'
<1>1. Becomes(r, None) /\ UNCHANGED <<tables, fresh, now, handles>>
  BY DEF Drop
<1>2. /\ writer' # r
      /\ (writer' = writer /\ writer # r) \/ (writer' = None /\ writer \in {r, None})
  BY NoneIsNothing DEF Drop
<1> QED BY <1>1, <1>2, OneRequest

LEMMA AnswerKeeps ==
    ASSUME StagedInductive, NEW r \in Requests, Answer(r)
    PROVE  StagedInductive'
<1>1. Becomes(r, None) /\ UNCHANGED <<tables, fresh, now, writer, handles>>
  BY DEF Answer
<1>2. writer # r
  BY NoneIsNothing DEF Answer, At, StagedInductive, StagedTypes, TakenStays
<1> QED BY <1>1, <1>2, OneRequest

\* The requests are let go of, all together, or left alone; time may pass.
LEMMA LetGo ==
    ASSUME StagedInductive, UNCHANGED <<tables, fresh, handles>>, now' \in Nat,
           \/ UNCHANGED <<req, writer>>
           \/ req' = [r \in Requests |-> None] /\ writer' = None
    PROVE  StagedInductive'
<1>1. StagedTypes /\ TakenStays /\ IdsNameOneFile /\ OnePlace /\ ImportsWhatWasShown
  BY DEF StagedInductive
<1>2. UNCHANGED <<staging, lastId, trips, fresh, handles>>
  BY DEF tables
<1>3. StagedTypes'
  <2>1. req' \in [Requests -> InFlight \cup {None}] /\ writer' \in Requests \cup {None}
    BY <1>1 DEF StagedTypes
  <2> QED BY <1>1, <1>2, <2>1 DEF StagedTypes
<1>4. \A r \in Requests : \A step : At(r, step)' => At(r, step) /\ req'[r] = req[r]
  BY DEF At
<1>5. TakenStays'
  <2>1. CASE UNCHANGED <<req, writer>>
    BY <1>1, <1>2, <2>1 DEF TakenStays, At, Rows
  <2>2. CASE req' = [r \in Requests |-> None] /\ writer' = None
    BY <2>2, NoneIsNothing DEF TakenStays, At
  <2> QED BY <2>1, <2>2
<1>6. IdsNameOneFile'
  <2>1. \A i \in Rows' : i <= lastId'
    BY <1>1, <1>2 DEF IdsNameOneFile, Rows
  <2>2. \A h \in handles' : Names(h[1], h[2])'
    BY <1>1, <1>2 DEF IdsNameOneFile, Names, Rows
  <2>3. ASSUME NEW r \in Requests
        PROVE  /\ At(r, "parked")' => Names(req[r].id, req[r].file)'
               /\ At(r, "begin")' \/ At(r, "taken")' =>
                      <<req'[r].id, req'[r].file>> \in handles'
    BY <1>1, <1>2, <1>4 DEF IdsNameOneFile, Names, Rows
  <2> QED BY <2>1, <2>2, <2>3 DEF IdsNameOneFile
<1>7. OnePlace'
  <2>1. \A f : (Parked(f)' <=> Parked(f)) /\ (Imported(f)' <=> Imported(f))
    BY <1>2 DEF Parked, Imported, Rows
  <2>2. \A f \in fresh' : ~Parked(f)' /\ ~Imported(f)'
    BY <1>1, <1>2, <2>1 DEF OnePlace
  <2>3. ASSUME NEW r \in Requests, Uploading(r)'
        PROVE  /\ req'[r].file \notin fresh'
               /\ ~Parked(req[r].file)' /\ ~Imported(req[r].file)'
               /\ \A p \in Requests :
                     Uploading(p)' /\ req'[p].file = req'[r].file => p = r
    <3>1. \A p \in Requests : Uploading(p)' => Uploading(p) /\ req'[p] = req[p]
      BY <1>4 DEF Uploading
    <3>2. req' = req
      BY <2>3, NoneIsNothing DEF Uploading, At
    <3> QED BY <1>1, <1>2, <2>3, <3>1, <3>2 DEF OnePlace, Parked, Imported, Rows
  <2>4. /\ \A i, j \in Rows' : staging'[i].file = staging'[j].file => i = j
        /\ \A i \in Rows' : ~Imported(staging[i].file)'
    BY <1>1, <1>2 DEF OnePlace, Rows, Imported
  <2> QED BY <2>2, <2>3, <2>4 DEF OnePlace
<1>8. ImportsWhatWasShown'
  BY <1>1, <1>2 DEF ImportsWhatWasShown
<1> QED BY <1>3, <1>5, <1>6, <1>7, <1>8 DEF StagedInductive

\* A file that is uploaded was in no other place.
LEMMA UploadKeeps ==
    ASSUME StagedInductive, NEW r \in Requests, NEW f \in Files, Upload(r, f)
    PROVE  StagedInductive'
<1> DEFINE n == [at |-> "sweep", file |-> f, time |-> now, id |-> 0]
<1>1. StagedTypes /\ TakenStays /\ IdsNameOneFile /\ OnePlace /\ ImportsWhatWasShown
  BY DEF StagedInductive
<1>2. /\ f \in fresh /\ fresh' = fresh \ {f} /\ req[r] = None
      /\ UNCHANGED <<staging, lastId, trips, now, writer, handles>>
  BY DEF Upload, tables
<1>3. n \in InFlight /\ n # None /\ n.at = "sweep" /\ n.file = f
  BY <1>1, NoneIsNothing DEF InFlight, StagedTypes
<1>4. req' = [req EXCEPT ![r] = n]
  BY DEF Upload, Becomes
<1> HIDE DEF n
<1>5. ASSUME NEW q \in Requests, q # r PROVE req'[q] = req[q]
  BY <1>1, <1>4, <1>5 DEF StagedTypes
<1>6. req'[r] = n
  BY <1>1, <1>4 DEF StagedTypes
<1>7. \A q \in Requests, step \in {"parked", "begin", "taken"} :
          (At(q, step)' <=> At(q, step)) /\ (At(q, step)' => req'[q] = req[q])
  BY <1>2, <1>3, <1>5, <1>6 DEF At
<1>8. StagedTypes'
  <2>1. req' \in [Requests -> InFlight \cup {None}]
    BY <1>1, <1>3, <1>4 DEF StagedTypes
  <2> QED BY <1>1, <1>2, <2>1 DEF StagedTypes
<1>9. TakenStays'
  BY <1>1, <1>2, <1>7 DEF TakenStays, Rows
<1>10. IdsNameOneFile'
  <2>1. (\A i \in Rows' : i <= lastId') /\ \A h \in handles' : Names(h[1], h[2])'
    BY <1>1, <1>2 DEF IdsNameOneFile, Names, Rows
  <2>2. ASSUME NEW q \in Requests
        PROVE  /\ At(q, "parked")' => Names(req[q].id, req[q].file)'
               /\ At(q, "begin")' \/ At(q, "taken")' =>
                      <<req'[q].id, req'[q].file>> \in handles'
    BY <1>1, <1>2, <1>7 DEF IdsNameOneFile, Names, Rows
  <2> QED BY <2>1, <2>2 DEF IdsNameOneFile
<1>11. OnePlace'
  <2>1. \A g : (Parked(g)' <=> Parked(g)) /\ (Imported(g)' <=> Imported(g))
    BY <1>2 DEF Parked, Imported, Rows
  <2>2. \A g \in fresh' : ~Parked(g)' /\ ~Imported(g)'
    BY <1>1, <1>2, <2>1 DEF OnePlace
  <2>3. \A q \in Requests \ {r} : (Uploading(q)' <=> Uploading(q)) /\ req'[q] = req[q]
    BY <1>5 DEF Uploading, At
  <2>4. \A q \in Requests : Uploading(q) => req[q].file # f
    BY <1>1, <1>2 DEF OnePlace
  <2>5. ASSUME NEW q \in Requests, Uploading(q)'
        PROVE  /\ req'[q].file \notin fresh'
               /\ ~Parked(req[q].file)' /\ ~Imported(req[q].file)'
               /\ \A p \in Requests :
                     Uploading(p)' /\ req'[p].file = req'[q].file => p = q
    <3>1. CASE q = r
      <4>1. req'[q].file = f
        BY <1>3, <1>6, <3>1
      <4>2. ~Parked(f)' /\ ~Imported(f)'
        BY <1>1, <1>2, <2>1 DEF OnePlace
      <4>3. \A p \in Requests : Uploading(p)' /\ req'[p].file = f => p = q
        BY <2>3, <2>4, <3>1
      <4> QED BY <1>2, <4>1, <4>2, <4>3 DEF Parked, Imported
    <3>2. CASE q # r
      <4>1. Uploading(q) /\ req'[q] = req[q] /\ req[q].file # f
        BY <2>3, <2>4, <2>5, <3>2
      <4>2. /\ req[q].file \notin fresh /\ ~Parked(req[q].file) /\ ~Imported(req[q].file)
            /\ \A p \in Requests : Uploading(p) /\ req[p].file = req[q].file => p = q
        BY <1>1, <4>1 DEF OnePlace
      <4>3. \A p \in Requests : Uploading(p)' /\ req'[p].file = req[q].file => p = q
        BY <1>3, <1>6, <2>3, <4>1, <4>2
      <4>4. PICK g : g = req[q].file
        OBVIOUS
      <4>5. ~Parked(g)' /\ ~Imported(g)'
        BY <2>1, <4>2, <4>4
      <4> QED BY <1>2, <4>1, <4>2, <4>3, <4>4, <4>5 DEF Parked, Imported
    <3> QED BY <3>1, <3>2
  <2>6. /\ \A i, j \in Rows' : staging'[i].file = staging'[j].file => i = j
        /\ \A i \in Rows' : ~Imported(staging[i].file)'
    BY <1>1, <1>2 DEF OnePlace, Rows, Imported
  <2> QED BY <2>2, <2>5, <2>6 DEF OnePlace
<1>12. ImportsWhatWasShown'
  BY <1>1, <1>2 DEF ImportsWhatWasShown
<1> QED BY <1>8, <1>9, <1>10, <1>11, <1>12 DEF StagedInductive

\* The id a row is parked under was never given out, so no handle names it,
\* and the file was nowhere but in this request.
LEMMA ParkKeeps ==
    ASSUME StagedInductive, NEW r \in Requests, Park(r)
    PROVE  StagedInductive'
<1> DEFINE n == [req[r] EXCEPT !.at = "parked", !.id = NextId]
           row == [file |-> req[r].file, at |-> req[r].time]
<1>1. StagedTypes /\ TakenStays /\ IdsNameOneFile /\ OnePlace /\ ImportsWhatWasShown
  BY DEF StagedInductive
<1>2. /\ staging' = [staging EXCEPT ![NextId] = row] /\ lastId' = NextId
      /\ req' = [req EXCEPT ![r] = n] /\ writer = None
      /\ UNCHANGED <<trips, fresh, now, writer, handles>>
  BY DEF Park, Becomes, NextId, LockFree
<1>3. req[r] \in InFlight /\ Uploading(r) /\ At(r, "park") /\ lastId \in Nat /\ NextId = lastId + 1
  BY <1>1 DEF Park, At, StagedTypes, Uploading, NextId
<1>4. PICK f \in Files : f = req[r].file
  BY <1>3 DEF InFlight
<1>5. n \in InFlight /\ n # None /\ n.at = "parked" /\ n.id = NextId /\ n.file = f
  <2>1. NextId \in Nat
    BY <1>3
  <2>2. ASSUME NEW q \in InFlight, NEW id \in Nat
        PROVE  /\ [q EXCEPT !.at = "parked", !.id = id] \in InFlight
               /\ [q EXCEPT !.at = "parked", !.id = id].at = "parked"
               /\ [q EXCEPT !.at = "parked", !.id = id].id = id
               /\ [q EXCEPT !.at = "parked", !.id = id].file = q.file
    BY DEF InFlight
  <2>3. req[r] \in InFlight
    BY <1>3
  <2>4. n \in InFlight /\ n.at = "parked" /\ n.id = NextId /\ n.file = req[r].file
    BY <2>1, <2>2, <2>3, Zenon
  <2> HIDE DEF n
  <2> QED BY <1>4, <2>4, NoneIsNothing
<1>6. row \in Row /\ row # None /\ row.file = f
  BY <1>3, <1>4, NoneIsNothing DEF InFlight, Row
<1> HIDE DEF n, row
<1>7. /\ f \notin fresh /\ ~Parked(f) /\ ~Imported(f)
      /\ \A q \in Requests : Uploading(q) /\ req[q].file = f => q = r
  BY <1>1, <1>3, <1>4 DEF OnePlace
<1>8. ASSUME NEW q \in Requests, q # r PROVE req'[q] = req[q]
  BY <1>1, <1>2, <1>8 DEF StagedTypes
<1>9. req'[r] = n
  BY <1>1, <1>2 DEF StagedTypes
<1>10. \A i \in Rows : i # NextId /\ i <= lastId /\ i \in Nat
  BY <1>1, <1>3 DEF IdsNameOneFile, Rows, Ids
<1>11. staging' \in [Ids -> Row \cup {None}]
  BY <1>1, <1>2, <1>6 DEF StagedTypes
<1>12. /\ Rows \subseteq Rows' /\ \A i \in Rows : staging'[i] = staging[i]
       /\ \A i \in Rows' : i \in Rows \/ (i = NextId /\ staging'[i] = row)
  BY <1>1, <1>2, <1>6, <1>10 DEF Rows, StagedTypes
<1>13. StagedTypes'
  <2>1. req' \in [Requests -> InFlight \cup {None}]
    BY <1>1, <1>2, <1>5 DEF StagedTypes
  <2>2. lastId' \in Nat
    BY <1>2, <1>3
  <2> QED BY <1>1, <1>2, <1>11, <2>1, <2>2 DEF StagedTypes
<1>14. TakenStays'
  <2>1. \A q \in Requests : writer' # q /\ ~At(q, "taken")
    BY <1>1, <1>2, NoneIsNothing DEF TakenStays
  <2>2. \A q \in Requests : ~At(q, "taken")'
    BY <1>5, <1>8, <1>9, <2>1 DEF At
  <2> QED BY <2>1, <2>2 DEF TakenStays
<1>15. ASSUME NEW id \in Nat, NEW g, Names(id, g) PROVE Names(id, g)'
  <2>1. id <= lastId /\ id # NextId
    BY <1>3, <1>15 DEF Names
  <2>2. id <= lastId'
    BY <1>2, <1>3, <2>1
  <2>3. id \in Rows' => id \in Rows /\ staging'[id] = staging[id]
    BY <1>12, <2>1
  <2> QED BY <1>15, <2>2, <2>3 DEF Names
<1>16. IdsNameOneFile'
  <2>1. ASSUME NEW i \in Rows' PROVE i <= lastId'
    BY <1>2, <1>3, <1>10, <1>12
  <2>2. ASSUME NEW h \in handles' PROVE Names(h[1], h[2])'
    <3>1. h \in handles /\ h \in Nat \X Files
      BY <1>1, <1>2 DEF StagedTypes
    <3>2. PICK id \in Nat, g \in Files : h = <<id, g>>
      BY <3>1
    <3>3. Names(id, g)
      BY <1>1, <3>1, <3>2 DEF IdsNameOneFile
    <3>4. Names(id, g)'
      BY <1>15, <3>3
    <3> QED BY <3>2, <3>4 DEF Names
  <2>3. ASSUME NEW q \in Requests
        PROVE  /\ At(q, "parked")' => Names(req[q].id, req[q].file)'
               /\ At(q, "begin")' \/ At(q, "taken")' =>
                      <<req'[q].id, req'[q].file>> \in handles'
    <3>1. CASE q = r
      <4>1. req'[q].at = "parked" /\ req'[q].id = NextId /\ req'[q].file = f
        BY <1>5, <1>9, <3>1
      <4>2. NextId <= lastId' /\ (NextId \in Rows' => staging'[NextId].file = f)
        BY <1>2, <1>3, <1>6, <1>10, <1>12
      <4>3. Names(req[q].id, req[q].file)'
        BY <4>1, <4>2 DEF Names
      <4> QED BY <4>1, <4>3 DEF At
    <3>2. CASE q # r
      <4>1. req'[q] = req[q]
        BY <1>8, <3>2
      <4>2. At(q, "parked")' => Names(req[q].id, req[q].file)'
        <5>1. ASSUME At(q, "parked")' PROVE Names(req[q].id, req[q].file)'
          <6>1. At(q, "parked") /\ req[q] \in InFlight
            BY <1>1, <4>1, <5>1 DEF At, StagedTypes
          <6>2. PICK id, g : id \in Nat /\ id = req[q].id /\ g = req[q].file
            BY <6>1 DEF InFlight
          <6>3. Names(id, g)
            BY <1>1, <6>1, <6>2 DEF IdsNameOneFile
          <6>4. Names(id, g)'
            BY <1>15, <6>2, <6>3
          <6> QED BY <4>1, <6>2, <6>4 DEF Names
        <5> QED BY <5>1
      <4>3. At(q, "begin")' \/ At(q, "taken")' => <<req[q].id, req[q].file>> \in handles
        BY <1>1, <4>1 DEF IdsNameOneFile, At
      <4> QED BY <1>2, <4>1, <4>2, <4>3
    <3> QED BY <3>1, <3>2
  <2> QED BY <2>1, <2>2, <2>3 DEF IdsNameOneFile
<1>17. OnePlace'
  <2>1. \A g : (Parked(g)' => Parked(g) \/ g = f) /\ (Imported(g)' <=> Imported(g))
    BY <1>2, <1>6, <1>12 DEF Parked, Imported
  <2>2. \A g \in fresh' : ~Parked(g)' /\ ~Imported(g)'
    BY <1>1, <1>2, <1>7, <2>1 DEF OnePlace
  <2>3. \A q \in Requests : Uploading(q)' => q # r /\ Uploading(q) /\ req'[q] = req[q]
    BY <1>5, <1>8, <1>9 DEF Uploading, At
  <2>4. ASSUME NEW q \in Requests, Uploading(q)'
        PROVE  /\ req'[q].file \notin fresh'
               /\ ~Parked(req[q].file)' /\ ~Imported(req[q].file)'
               /\ \A p \in Requests :
                     Uploading(p)' /\ req'[p].file = req'[q].file => p = q
    <3>1. Uploading(q) /\ req'[q] = req[q] /\ q # r
      BY <2>3, <2>4
    <3>2. PICK g : g = req[q].file
      OBVIOUS
    <3>3. g # f /\ g \notin fresh /\ ~Parked(g) /\ ~Imported(g)
      BY <1>1, <1>7, <3>1, <3>2 DEF OnePlace
    <3>4. ~Parked(g)' /\ ~Imported(g)'
      BY <2>1, <3>3
    <3>5. \A p \in Requests : Uploading(p)' /\ req'[p].file = g => p = q
      BY <1>1, <2>3, <3>1, <3>2 DEF OnePlace
    <3> QED BY <1>2, <3>1, <3>2, <3>3, <3>4, <3>5 DEF Parked, Imported
  <2>5. \A i \in Rows : staging[i].file # f
    BY <1>7 DEF Parked
  <2>6. \A i, j \in Rows' : staging'[i].file = staging'[j].file => i = j
    BY <1>1, <1>6, <1>12, <2>5 DEF OnePlace
  <2>7. \A i \in Rows' : ~Imported(staging[i].file)'
    <3>1. ASSUME NEW i \in Rows' PROVE ~Imported(staging'[i].file)
      BY <1>1, <1>6, <1>7, <1>12, <3>1 DEF OnePlace
    <3> QED BY <1>2, <3>1 DEF Imported
  <2> QED BY <2>2, <2>4, <2>6, <2>7 DEF OnePlace
<1>18. ImportsWhatWasShown'
  BY <1>1, <1>2 DEF ImportsWhatWasShown
<1> QED BY <1>13, <1>14, <1>16, <1>17, <1>18 DEF StagedInductive

\* The row of a confirmation is there until it commits, and it is the row its
\* screen showed; its file is a trip from then on.
LEMMA CommitKeeps ==
    ASSUME StagedInductive, NEW r \in Requests, CommitConfirm(r)
    PROVE  StagedInductive'
<1> DEFINE n == [req[r] EXCEPT !.at = "check"]
<1>1. StagedTypes /\ TakenStays /\ IdsNameOneFile /\ OnePlace /\ ImportsWhatWasShown
  BY DEF StagedInductive
<1>2. At(r, "taken") /\ req[r] \in InFlight /\ writer = r
  BY <1>1 DEF CommitConfirm, At, StagedTypes, TakenStays
<1>3. PICK k \in Rows, f \in Files : k = req[r].id /\ f = req[r].file
  BY <1>1, <1>2 DEF TakenStays, InFlight
<1>4. Names(k, f)
  <2>1. <<k, f>> \in handles
    BY <1>1, <1>2, <1>3 DEF IdsNameOneFile
  <2> QED BY <1>1, <2>1 DEF IdsNameOneFile
<1>5. k \in Ids /\ staging[k] # None /\ staging[k].file = f
  BY <1>4 DEF Names, Rows
<1>6. /\ trips' = Append(trips, <<f, f>>)
      /\ staging' = [staging EXCEPT ![k] = None]
      /\ req' = [req EXCEPT ![r] = n] /\ writer' = None
      /\ UNCHANGED <<lastId, fresh, now, handles>>
  BY <1>3, <1>5 DEF CommitConfirm, Becomes
<1>7. n \in InFlight /\ n # None /\ n.at = "check"
  BY <1>2, NoneIsNothing DEF InFlight
<1> HIDE DEF n
<1>8. ASSUME NEW q \in Requests, q # r PROVE req'[q] = req[q]
  BY <1>1, <1>6, <1>8 DEF StagedTypes
<1>9. req'[r] = n
  BY <1>1, <1>6 DEF StagedTypes
<1>10. Rows' = Rows \ {k} /\ \A i \in Rows' : staging'[i] = staging[i]
  BY <1>1, <1>5, <1>6 DEF Rows, StagedTypes
<1>11. /\ trips \in Seq(Files \X Files) /\ Len(trips) \in Nat /\ Len(trips') = Len(trips) + 1
       /\ \A i \in 1 .. Len(trips) : trips'[i] = trips[i]
       /\ trips'[Len(trips) + 1] = <<f, f>>
  BY <1>1, <1>6 DEF StagedTypes
<1>12. \A g : Imported(g)' <=> Imported(g) \/ g = f
  <2>1. ASSUME NEW g, Imported(g)' PROVE Imported(g) \/ g = f
    <3>1. PICK i \in 1 .. Len(trips') : trips'[i][2] = g
      BY <2>1 DEF Imported
    <3>2. CASE i = Len(trips) + 1
      BY <1>11, <3>1, <3>2
    <3>3. CASE i \in 1 .. Len(trips)
      BY <1>11, <3>1, <3>3 DEF Imported
    <3> QED BY <1>11, <3>1, <3>2, <3>3
  <2>2. ASSUME NEW g, Imported(g) PROVE Imported(g)'
    <3>1. PICK i \in 1 .. Len(trips) : trips[i][2] = g
      BY <2>2 DEF Imported
    <3>2. i \in 1 .. Len(trips') /\ trips'[i][2] = g
      BY <1>11, <3>1
    <3> QED BY <3>2 DEF Imported
  <2>3. Imported(f)'
    <3>1. Len(trips) + 1 \in 1 .. Len(trips') /\ trips'[Len(trips) + 1][2] = f
      BY <1>11
    <3> QED BY <3>1 DEF Imported
  <2> QED BY <2>1, <2>2, <2>3
<1>13. StagedTypes'
  <2>1. req' \in [Requests -> InFlight \cup {None}]
    BY <1>1, <1>6, <1>7 DEF StagedTypes
  <2>2. trips' \in Seq(Files \X Files)
    BY <1>1, <1>6 DEF StagedTypes
  <2>3. staging' \in [Ids -> Row \cup {None}]
    BY <1>1, <1>6 DEF StagedTypes
  <2> QED BY <1>1, <1>6, <2>1, <2>2, <2>3 DEF StagedTypes
<1>14. TakenStays'
  <2>1. \A q \in Requests : writer' # q
    BY <1>6, NoneIsNothing
  <2>2. \A q \in Requests : ~At(q, "taken")'
    BY <1>1, <1>2, <1>7, <1>8, <1>9 DEF TakenStays, At
  <2> QED BY <2>1, <2>2 DEF TakenStays
<1>15. \A id, g : Names(id, g) => Names(id, g)'
  BY <1>6, <1>10 DEF Names
<1>16. IdsNameOneFile'
  <2>1. \A i \in Rows' : i <= lastId'
    BY <1>1, <1>6, <1>10 DEF IdsNameOneFile
  <2>2. \A h \in handles' : Names(h[1], h[2])'
    BY <1>1, <1>6, <1>15 DEF IdsNameOneFile
  <2>3. ASSUME NEW q \in Requests
        PROVE  /\ At(q, "parked")' => Names(req[q].id, req[q].file)'
               /\ At(q, "begin")' \/ At(q, "taken")' =>
                      <<req'[q].id, req'[q].file>> \in handles'
    <3>1. CASE q = r
      BY <1>7, <1>9, <3>1 DEF At
    <3>2. CASE q # r
      <4>1. req'[q] = req[q]
        BY <1>8, <3>2
      <4>2. At(q, "parked")' => Names(req[q].id, req[q].file)
        BY <1>1, <4>1 DEF IdsNameOneFile, At
      <4>3. At(q, "begin")' \/ At(q, "taken")' => <<req[q].id, req[q].file>> \in handles
        BY <1>1, <4>1 DEF IdsNameOneFile, At
      <4> QED BY <1>6, <1>10, <4>1, <4>2, <4>3 DEF Names
    <3> QED BY <3>1, <3>2
  <2> QED BY <2>1, <2>2, <2>3 DEF IdsNameOneFile
<1>17. Parked(f) /\ ~Imported(f)
  BY <1>1, <1>3, <1>5 DEF Parked, OnePlace
<1>18. OnePlace'
  <2>1. \A g : Parked(g)' => Parked(g) /\ g # f
    BY <1>1, <1>3, <1>5, <1>10 DEF Parked, OnePlace
  <2>2. \A g \in fresh' : ~Parked(g)' /\ ~Imported(g)'
    BY <1>1, <1>6, <1>12, <1>17, <2>1 DEF OnePlace
  <2>3. \A q \in Requests : Uploading(q)' => Uploading(q) /\ req'[q] = req[q]
    BY <1>7, <1>8, <1>9 DEF Uploading, At
  <2>4. ASSUME NEW q \in Requests, Uploading(q)'
        PROVE  /\ req'[q].file \notin fresh'
               /\ ~Parked(req[q].file)' /\ ~Imported(req[q].file)'
               /\ \A p \in Requests :
                     Uploading(p)' /\ req'[p].file = req'[q].file => p = q
    <3>1. Uploading(q) /\ req'[q] = req[q]
      BY <2>3, <2>4
    <3>2. PICK g : g = req[q].file
      OBVIOUS
    <3>3. g # f /\ g \notin fresh /\ ~Parked(g) /\ ~Imported(g)
      BY <1>1, <1>17, <3>1, <3>2 DEF OnePlace
    <3>4. ~Parked(g)' /\ ~Imported(g)'
      BY <1>12, <2>1, <3>3
    <3>5. \A p \in Requests : Uploading(p)' /\ req'[p].file = g => p = q
      BY <1>1, <2>3, <3>1, <3>2 DEF OnePlace
    <3> QED BY <1>6, <3>1, <3>2, <3>3, <3>4, <3>5 DEF Parked, Imported
  <2>5. \A i, j \in Rows' : staging'[i].file = staging'[j].file => i = j
    BY <1>1, <1>10 DEF OnePlace
  <2>6. ASSUME NEW i \in Rows' PROVE ~Imported(staging[i].file)'
    <3>1. staging'[i] = staging[i] /\ staging[i].file # f /\ ~Imported(staging[i].file)
      BY <1>1, <1>3, <1>5, <1>10, <2>6 DEF OnePlace
    <3>2. PICK g : g = staging[i].file /\ g = staging'[i].file
      BY <3>1
    <3>3. ~Imported(g)'
      BY <1>12, <3>1, <3>2
    <3> QED BY <3>2, <3>3 DEF Imported
  <2> QED BY <2>2, <2>4, <2>5, <2>6 DEF OnePlace
<1>19. ImportsWhatWasShown'
  <2>1. \A i \in 1 .. Len(trips) : trips[i][2] # f
    BY <1>17 DEF Imported
  <2>2. \A i \in 1 .. Len(trips') : i = Len(trips) + 1 \/ i \in 1 .. Len(trips)
    BY <1>11
  <2>3. \A i \in 1 .. Len(trips') : trips'[i][1] = trips'[i][2]
    BY <1>1, <1>11, <2>2 DEF ImportsWhatWasShown
  <2>4. \A i, j \in 1 .. Len(trips') : trips'[i][2] = trips'[j][2] => i = j
    BY <1>1, <1>11, <2>1, <2>2 DEF ImportsWhatWasShown
  <2> QED BY <2>3, <2>4 DEF ImportsWhatWasShown
<1> QED BY <1>13, <1>14, <1>16, <1>18, <1>19 DEF StagedInductive

LEMMA StagedStep ==
    ASSUME StagedInductive, [Next]_vars
    PROVE  StagedInductive'
<1>1. StagedTypes
  BY DEF StagedInductive
<1>2. UNCHANGED staged => StagedInductive'
  BY <1>1, LetGo DEF staged, tables, StagedTypes
<1>3. ASSUME NEW r \in Requests, Request(r) PROVE StagedInductive'
  <2>1. CASE Arrive(r)
    BY <2>1, UploadKeeps, AskKeeps, CancelKeeps DEF Arrive
  <2>2. CASE RequestStep(r)
    BY <2>2, SweepKeeps, ParkKeeps, AnswerParkedKeeps, BeginKeeps, CommitKeeps, CheckKeeps,
       RefuseKeeps DEF RequestStep
  <2> QED BY <1>3, <2>1, <2>2, DropKeeps DEF Request
<1>4. PassTime => StagedInductive'
  BY <1>1, LetGo DEF PassTime, Tick, StagedTypes
<1>5. WriterStep => UNCHANGED staged
  BY DEF WriterStep, Take, Empty, Store, AnswerFlush, EndTask, Writer
<1>6. Signal \/ MainStep \/ GiveUp \/ LastFails => UNCHANGED staged
  BY DEF Signal, MainStep, GiveUp, LastFails, SendFlush, ClosePool, OpenLast, CloseLast, LookForWal, Main
<1>7. \A c \in Conns : ConnStep(c) => UNCHANGED staged
  BY DEF ConnStep, LookAround, Closed
<1>8. Kill => StagedInductive'
  BY <1>1, LetGo DEF Kill, StagedTypes
<1>9. UNCHANGED vars => UNCHANGED staged
  BY DEF vars
<1> QED BY <1>2, <1>3, <1>4, <1>5, <1>6, <1>7, <1>8, <1>9, AnswerKeeps DEF Next

\* A file that was uploaded becomes one trip at most, the one its screen
\* showed, through sweeps, cancels, confirmations from several tabs, dropped
\* and failed requests and kills.
THEOREM ImportedAsShown == Spec => []ImportsWhatWasShown
<1>1. Init => StagedInductive
  BY InitStaged DEF Init
<1>2. StagedInductive /\ [Next]_vars => StagedInductive'
  BY StagedStep
<1>3. StagedInductive => ImportsWhatWasShown
  BY DEF StagedInductive
<1> QED BY <1>1, <1>2, <1>3, PTL DEF Spec

-----------------------------------------------------------------------------
(* The access log.                                                         *)

\* What a sequence's range becomes.
LEMMA RangeOfAppend ==
    ASSUME NEW s \in Seq(Nat), NEW n \in Nat
    PROVE  ToSet(Append(s, n)) = ToSet(s) \cup {n}
<1>1. /\ DOMAIN Append(s, n) = 1 .. Len(s) + 1 /\ DOMAIN s = 1 .. Len(s) /\ Len(s) \in Nat
      /\ \A i \in 1 .. Len(s) : Append(s, n)[i] = s[i]
      /\ Append(s, n)[Len(s) + 1] = n
  OBVIOUS
<1> QED BY <1>1 DEF ToSet

LEMMA RangeOfTail ==
    ASSUME NEW s \in Seq(Nat), s # <<>>
    PROVE  ToSet(s) = ToSet(Tail(s)) \cup {Head(s)}
<1>1. /\ DOMAIN s = 1 .. Len(s) /\ Len(s) \in Nat /\ Len(s) > 0
      /\ DOMAIN Tail(s) = 1 .. (Len(s) - 1)
      /\ \A i \in 1 .. (Len(s) - 1) : Tail(s)[i] = s[i + 1]
      /\ Head(s) = s[1]
  OBVIOUS
<1>2. ASSUME NEW i \in 1 .. Len(s) PROVE s[i] \in ToSet(Tail(s)) \cup {Head(s)}
  <2>1. CASE i = 1
    BY <1>1, <2>1
  <2>2. CASE i # 1
    <3>1. i - 1 \in 1 .. (Len(s) - 1) /\ Tail(s)[i - 1] = s[i]
      BY <1>1, <2>2
    <3> QED BY <1>1, <3>1 DEF ToSet
  <2> QED BY <2>1, <2>2
<1>3. ASSUME NEW i \in 1 .. (Len(s) - 1) PROVE Tail(s)[i] \in ToSet(s)
  <2>1. i + 1 \in 1 .. Len(s)
    BY <1>1
  <2> QED BY <1>1, <2>1 DEF ToSet
<1>4. Head(s) \in ToSet(s)
  BY <1>1 DEF ToSet
<1>5. ToSet(s) = {s[i] : i \in 1 .. Len(s)}
  BY <1>1 DEF ToSet
<1>6. ToSet(Tail(s)) = {Tail(s)[i] : i \in 1 .. (Len(s) - 1)}
  BY <1>1 DEF ToSet
<1> QED BY <1>2, <1>3, <1>4, <1>5, <1>6

LEMMA RangeOfConcat ==
    ASSUME NEW s \in Seq(Nat), NEW t \in Seq(Nat)
    PROVE  ToSet(s \o t) = ToSet(s) \cup ToSet(t)
<1>1. /\ DOMAIN (s \o t) = 1 .. Len(s) + Len(t) /\ DOMAIN s = 1 .. Len(s)
      /\ DOMAIN t = 1 .. Len(t) /\ Len(s) \in Nat /\ Len(t) \in Nat
      /\ \A i \in 1 .. Len(s) : (s \o t)[i] = s[i]
      /\ \A i \in 1 .. Len(t) : (s \o t)[Len(s) + i] = t[i]
  OBVIOUS
<1>2. ASSUME NEW i \in 1 .. Len(s) + Len(t) PROVE (s \o t)[i] \in ToSet(s) \cup ToSet(t)
  <2>1. CASE i <= Len(s)
    BY <1>1, <2>1 DEF ToSet
  <2>2. CASE i > Len(s)
    <3>1. i - Len(s) \in 1 .. Len(t) /\ (s \o t)[Len(s) + (i - Len(s))] = t[i - Len(s)]
      BY <1>1, <2>2
    <3> QED BY <1>1, <3>1 DEF ToSet
  <2> QED BY <1>1, <2>1, <2>2
<1>3. ASSUME NEW i \in 1 .. Len(s) PROVE s[i] \in ToSet(s \o t)
  BY <1>1 DEF ToSet
<1>4. ASSUME NEW i \in 1 .. Len(t) PROVE t[i] \in ToSet(s \o t)
  <2>1. Len(s) + i \in 1 .. Len(s) + Len(t) /\ (s \o t)[Len(s) + i] = t[i]
    BY <1>1
  <2> QED BY <1>1, <2>1 DEF ToSet
<1>5. ToSet(s) = {s[i] : i \in 1 .. Len(s)} /\ ToSet(t) = {t[i] : i \in 1 .. Len(t)}
  BY <1>1 DEF ToSet
<1>6. ToSet(s \o t) = {(s \o t)[i] : i \in 1 .. Len(s) + Len(t)}
  BY <1>1 DEF ToSet
<1> QED BY <1>2, <1>3, <1>4, <1>5, <1>6

LEMMA RangeOfNone == ToSet(<<>>) = {}
BY DEF ToSet

\* What keeps the records in order.
LEMMA AppendAscends ==
    ASSUME NEW s \in Seq(Nat), NEW n \in Nat, Ascends(s),
           \A i \in 1 .. Len(s) : n = Flush \/ s[i] = Flush \/ s[i] < n
    PROVE  Ascends(Append(s, n))
<1>1. /\ Len(Append(s, n)) = Len(s) + 1 /\ Len(s) \in Nat
      /\ \A i \in 1 .. Len(s) : Append(s, n)[i] = s[i]
      /\ Append(s, n)[Len(s) + 1] = n
  OBVIOUS
<1>2. \A i \in 1 .. Len(s) + 1 : i \in 1 .. Len(s) \/ i = Len(s) + 1
  BY <1>1
<1>3. ASSUME NEW i \in 1 .. Len(s) + 1, NEW j \in 1 .. Len(s) + 1, i < j,
             Append(s, n)[i] # Flush, Append(s, n)[j] # Flush
      PROVE  Append(s, n)[i] < Append(s, n)[j]
  <2>1. i \in 1 .. Len(s)
    BY <1>1, <1>3
  <2> QED BY <1>1, <1>2, <1>3, <2>1 DEF Ascends
<1> QED BY <1>1, <1>3 DEF Ascends

LEMMA PrecedesAppend ==
    ASSUME NEW s \in Seq(Nat), NEW t \in Seq(Nat), NEW n \in Nat, Precedes(s, t),
           \A i \in 1 .. Len(s) : n = Flush \/ s[i] < n
    PROVE  Precedes(s, Append(t, n))
<1>1. /\ Len(Append(t, n)) = Len(t) + 1 /\ Len(t) \in Nat
      /\ \A i \in 1 .. Len(t) : Append(t, n)[i] = t[i]
      /\ Append(t, n)[Len(t) + 1] = n
      /\ \A i \in 1 .. Len(t) + 1 : i \in 1 .. Len(t) \/ i = Len(t) + 1
  OBVIOUS
<1> QED BY <1>1 DEF Precedes

LEMMA AppendPrecedes ==
    ASSUME NEW s \in Seq(Nat), NEW t \in Seq(Nat), NEW n \in Nat, Precedes(s, t),
           \A j \in 1 .. Len(t) : t[j] = Flush \/ n < t[j]
    PROVE  Precedes(Append(s, n), t)
<1>1. /\ Len(Append(s, n)) = Len(s) + 1 /\ Len(s) \in Nat
      /\ \A i \in 1 .. Len(s) : Append(s, n)[i] = s[i]
      /\ Append(s, n)[Len(s) + 1] = n
      /\ \A i \in 1 .. Len(s) + 1 : i \in 1 .. Len(s) \/ i = Len(s) + 1
  OBVIOUS
<1> QED BY <1>1 DEF Precedes

LEMMA TailKeepsOrder ==
    ASSUME NEW s \in Seq(Nat), s # <<>>
    PROVE  /\ Tail(s) \in Seq(Nat) /\ Head(s) \in Nat
           /\ Ascends(s) => Ascends(Tail(s))
           /\ \A t : Precedes(t, s) => Precedes(t, Tail(s))
           /\ \A t : Precedes(t, s) /\ Head(s) # Flush => \A i \in 1 .. Len(t) : t[i] < Head(s)
           /\ Ascends(s) /\ Head(s) # Flush =>
                 \A j \in 1 .. Len(Tail(s)) : Tail(s)[j] = Flush \/ Head(s) < Tail(s)[j]
<1>1. /\ Tail(s) \in Seq(Nat) /\ Head(s) \in Nat /\ Head(s) = s[1]
      /\ Len(s) \in Nat /\ Len(s) > 0 /\ Len(Tail(s)) = Len(s) - 1
      /\ \A i \in 1 .. (Len(s) - 1) : Tail(s)[i] = s[i + 1]
      /\ \A i \in 1 .. (Len(s) - 1) : i + 1 \in 1 .. Len(s) /\ 1 < i + 1
      /\ 1 \in 1 .. Len(s)
  OBVIOUS
<1>2. Ascends(s) => Ascends(Tail(s))
  BY <1>1 DEF Ascends
<1>3. \A t : Precedes(t, s) => Precedes(t, Tail(s))
  BY <1>1 DEF Precedes
<1>4. \A t : Precedes(t, s) /\ Head(s) # Flush => \A i \in 1 .. Len(t) : t[i] < Head(s)
  BY <1>1 DEF Precedes
<1>5. Ascends(s) /\ Head(s) # Flush =>
          \A j \in 1 .. Len(Tail(s)) : Tail(s)[j] = Flush \/ Head(s) < Tail(s)[j]
  BY <1>1 DEF Ascends
<1> QED BY <1>1, <1>2, <1>3, <1>4, <1>5

LEMMA ConcatKeepsOrder ==
    ASSUME NEW s \in Seq(Nat), NEW t \in Seq(Nat), NEW u \in Seq(Nat),
           Ascends(s), Ascends(t), Precedes(s, t), Precedes(s, u), Precedes(t, u)
    PROVE  Ascends(s \o t) /\ Precedes(s \o t, u)
<1>1. /\ Len(s \o t) = Len(s) + Len(t) /\ Len(s) \in Nat /\ Len(t) \in Nat
      /\ \A i \in 1 .. Len(s) : (s \o t)[i] = s[i]
  OBVIOUS
<1>2. ASSUME NEW i \in 1 .. Len(s) + Len(t), i \notin 1 .. Len(s)
      PROVE  i - Len(s) \in 1 .. Len(t) /\ (s \o t)[i] = t[i - Len(s)]
  BY <1>1, <1>2
<1>3. ASSUME NEW i \in 1 .. Len(s) + Len(t), NEW j \in 1 .. Len(s) + Len(t), i < j,
             (s \o t)[i] # Flush, (s \o t)[j] # Flush
      PROVE  (s \o t)[i] < (s \o t)[j]
  <2>1. CASE i \in 1 .. Len(s) /\ j \in 1 .. Len(s)
    BY <1>1, <1>3, <2>1 DEF Ascends
  <2>2. CASE i \in 1 .. Len(s) /\ j \notin 1 .. Len(s)
    BY <1>1, <1>2, <1>3, <2>2 DEF Precedes
  <2>3. CASE i \notin 1 .. Len(s)
    <3>1. j \notin 1 .. Len(s)
      BY <1>1, <1>3, <2>3
    <3>2. i - Len(s) < j - Len(s)
      BY <1>1, <1>3
    <3> QED BY <1>2, <1>3, <2>3, <3>1, <3>2 DEF Ascends
  <2> QED BY <2>1, <2>2, <2>3
<1>4. ASSUME NEW i \in 1 .. Len(s) + Len(t), NEW j \in 1 .. Len(u), u[j] # Flush
      PROVE  (s \o t)[i] < u[j]
  <2>1. CASE i \in 1 .. Len(s)
    BY <1>1, <1>4, <2>1 DEF Precedes
  <2>2. CASE i \notin 1 .. Len(s)
    BY <1>2, <1>4, <2>2 DEF Precedes
  <2> QED BY <2>1, <2>2
<1> QED BY <1>1, <1>3, <1>4 DEF Ascends, Precedes

LEMMA NoneInOrder ==
    Ascends(<<>>) /\ \A s : Precedes(s, <<>>) /\ Precedes(<<>>, s)
BY DEF Ascends, Precedes

LEMMA InitLog == Init => LogInductive
<1> SUFFICES ASSUME Init PROVE LogInductive
  OBVIOUS
<1>1. /\ phase = "up" /\ queue = <<>> /\ batch = <<>> /\ log = <<>> /\ asked = FALSE
      /\ task = "recv" /\ last = "none" /\ answered = 0 /\ lost = {}
  BY DEF Init
<1>2. ServingTypes
  <2>1. /\ queue \in Seq(Nat) /\ batch \in Seq(Numbers) /\ log \in Seq(Numbers)
        /\ lost \subseteq 1 .. answered
    BY <1>1
  <2> QED BY <1>1, <2>1 DEF ServingTypes
<1>3. InOrder
  BY <1>1, NoneInOrder DEF InOrder
<1>4. Accounted
  BY <1>1, RangeOfNone DEF Accounted
<1>5. FlushIsLast
  BY <1>1, RangeOfNone DEF FlushIsLast
<1> QED BY <1>2, <1>3, <1>4, <1>5 DEF LogInductive

\* A step that moves no record.
LEMMA NothingMoved ==
    ASSUME LogInductive, UNCHANGED <<queue, batch, log, answered, lost>>
    PROVE  InOrder' /\ Accounted'
<1>1. InOrder /\ Accounted
  BY DEF LogInductive
<1>2. InOrder'
  BY <1>1 DEF InOrder, Ascends, Precedes
<1>3. Accounted'
  BY <1>1 DEF Accounted
<1> QED BY <1>2, <1>3

\* Requests begin and end only while the process is up or drains.
LEMMA RequestsServed ==
    ASSUME LogInductive, NEW r \in Requests,
           req[r] # None \/ phase = "up",
           UNCHANGED <<memory, last, log, answered, lost>>
    PROVE  LogInductive'
<1>1. ServingTypes /\ FlushIsLast
  BY DEF LogInductive
<1>2. UNCHANGED <<phase, queue, batch, asked, task>>
  BY DEF memory
<1>3. phase \in {"up", "draining"}
  BY <1>1 DEF FlushIsLast, Busy
<1>4. ServingTypes'
  BY <1>1, <1>2 DEF ServingTypes
<1>5. FlushIsLast'
  BY <1>1, <1>2, <1>3 DEF FlushIsLast
<1> QED BY <1>2, <1>4, <1>5, NothingMoved DEF LogInductive

\* A request's record is the last of those on their way.
LEMMA Recorded ==
    ASSUME LogInductive, NEW r \in Requests, Answer(r)
    PROVE  LogInductive'
<1>1. ServingTypes /\ InOrder /\ Accounted /\ FlushIsLast
  BY DEF LogInductive
<1>2. /\ answered' = answered + 1
      /\ UNCHANGED <<phase, batch, asked, task, log, last>>
      /\ \/ queue' = Append(queue, answered + 1) /\ lost' = lost
         \/ queue' = queue /\ lost' = lost \cup {answered + 1}
  BY DEF Answer, file
<1>3. phase \in {"up", "draining"}
  BY <1>1 DEF Answer, At, FlushIsLast, Busy
<1>4. /\ queue \in Seq(Nat) /\ batch \in Seq(Nat) /\ log \in Seq(Nat)
      /\ answered \in Nat /\ answered + 1 \in Numbers /\ answered + 1 \in Nat
      /\ lost \subseteq 1 .. answered
  BY <1>1 DEF ServingTypes, Numbers, Flush
<1>5. ToSet(Append(queue, answered + 1)) = ToSet(queue) \cup {answered + 1}
  BY <1>4, RangeOfAppend
<1>6. 1 .. (answered + 1) = 1 .. answered \cup {answered + 1}
  BY <1>4
<1>7. ServingTypes'
  <2>1. queue' \in Seq(Nat)
    <3>1. Append(queue, answered + 1) \in Seq(Nat)
      BY <1>4
    <3> QED BY <1>2, <1>4, <3>1
  <2>2. lost' \subseteq 1 .. answered'
    BY <1>2, <1>4, <1>6
  <2>3. answered' \in Nat
    BY <1>2, <1>4
  <2> QED BY <1>1, <1>2, <2>1, <2>2, <2>3 DEF ServingTypes
<1>8. Accounted'
  BY <1>1, <1>2, <1>4, <1>5, <1>6 DEF Accounted, Numbers
<1>9. /\ \A i \in 1 .. Len(log) : log[i] < answered + 1
      /\ \A i \in 1 .. Len(batch) : batch[i] < answered + 1
      /\ \A i \in 1 .. Len(queue) : queue[i] < answered + 1
  <2>1. (\A n \in ToSet(log) : n \in 1 .. answered) /\ (\A n \in ToSet(batch) : n \in 1 .. answered)
        /\ \A n \in ToSet(queue) : n = Flush \/ n \in 1 .. answered
    BY <1>1 DEF Accounted
  <2>2. /\ \A i \in 1 .. Len(log) : log[i] \in ToSet(log)
        /\ \A i \in 1 .. Len(batch) : batch[i] \in ToSet(batch)
        /\ \A i \in 1 .. Len(queue) : queue[i] \in ToSet(queue)
    BY <1>4 DEF ToSet
  <2>3. \A n : n = Flush \/ n \in 1 .. answered => n < answered + 1
    BY <1>4 DEF Flush
  <2> QED BY <2>1, <2>2, <2>3
<1>10. InOrder'
  <2>1. CASE queue' = queue
    BY <1>1, <1>2, <2>1 DEF InOrder, Ascends, Precedes
  <2>2. CASE queue' = Append(queue, answered + 1)
    <3>1. Ascends(Append(queue, answered + 1))
      BY <1>1, <1>4, <1>9, AppendAscends DEF InOrder
    <3>2. Precedes(log, Append(queue, answered + 1))
      BY <1>1, <1>4, <1>9, PrecedesAppend DEF InOrder
    <3>3. Precedes(batch, Append(queue, answered + 1))
      BY <1>1, <1>4, <1>9, PrecedesAppend DEF InOrder
    <3> QED BY <1>1, <1>2, <2>2, <3>1, <3>2, <3>3 DEF InOrder, Ascends, Precedes
  <2> QED BY <1>2, <2>1, <2>2
<1>11. FlushIsLast'
  <2>1. Flush \notin ToSet(queue')
    BY <1>1, <1>2, <1>3, <1>4, <1>5 DEF FlushIsLast, Numbers
  <2> QED BY <1>1, <1>2, <1>3, <2>1 DEF FlushIsLast, ToSet
<1> QED BY <1>7, <1>8, <1>10, <1>11 DEF LogInductive

\* The writer takes the first message; once it is the flush, it was the last.
LEMMA Taken ==
    ASSUME LogInductive, Take
    PROVE  LogInductive'
<1>1. ServingTypes /\ InOrder /\ Accounted /\ FlushIsLast
  BY DEF LogInductive
<1>2. /\ queue # <<>> /\ queue' = Tail(queue) /\ task \in {"recv", "fill"}
      /\ task' \in {"fill", "store"}
      /\ UNCHANGED <<req, phase, last, log, answered, lost>>
      /\ IF Head(queue) = Flush
         THEN asked' = TRUE /\ batch' = batch
         ELSE batch' = Append(batch, Head(queue)) /\ asked' = asked
  BY DEF Take, Writer, staged
<1>3. queue \in Seq(Nat) /\ batch \in Seq(Nat) /\ log \in Seq(Nat)
  BY <1>1 DEF ServingTypes, Numbers
<1>4. PICK n \in Nat : n = Head(queue)
  BY <1>2, <1>3
<1>5. ToSet(queue) = ToSet(Tail(queue)) \cup {n}
  BY <1>2, <1>3, <1>4, RangeOfTail
<1>6. /\ Tail(queue) \in Seq(Nat) /\ Ascends(Tail(queue))
      /\ Precedes(log, Tail(queue)) /\ Precedes(batch, Tail(queue))
      /\ n # Flush => (\A i \in 1 .. Len(log) : log[i] < n)
      /\ n # Flush => (\A i \in 1 .. Len(batch) : batch[i] < n)
      /\ n # Flush => \A j \in 1 .. Len(Tail(queue)) : Tail(queue)[j] = Flush \/ n < Tail(queue)[j]
  BY <1>1, <1>2, <1>3, <1>4, TailKeepsOrder DEF InOrder
<1>7. n # Flush =>
        /\ Append(batch, n) \in Seq(Numbers)
        /\ ToSet(Append(batch, n)) = ToSet(batch) \cup {n}
        /\ Ascends(Append(batch, n)) /\ Precedes(log, Append(batch, n))
        /\ Precedes(Append(batch, n), Tail(queue))
  <2> SUFFICES ASSUME n # Flush
               PROVE  /\ Append(batch, n) \in Seq(Numbers)
                      /\ ToSet(Append(batch, n)) = ToSet(batch) \cup {n}
                      /\ Ascends(Append(batch, n)) /\ Precedes(log, Append(batch, n))
                      /\ Precedes(Append(batch, n), Tail(queue))
    OBVIOUS
  <2>1. Append(batch, n) \in Seq(Numbers)
    BY <1>1 DEF ServingTypes, Numbers
  <2>2. Ascends(Append(batch, n))
    BY <1>1, <1>3, <1>6, AppendAscends DEF InOrder
  <2>3. Precedes(log, Append(batch, n))
    BY <1>1, <1>3, <1>6, PrecedesAppend DEF InOrder
  <2>4. Precedes(Append(batch, n), Tail(queue))
    BY <1>3, <1>6, AppendPrecedes
  <2> QED BY <1>3, <2>1, <2>2, <2>3, <2>4, RangeOfAppend
<1>8. ServingTypes'
  <2>1. batch' \in Seq(Numbers) /\ asked' \in BOOLEAN /\ queue' \in Seq(Nat)
    BY <1>1, <1>2, <1>4, <1>6, <1>7 DEF ServingTypes
  <2> QED BY <1>1, <1>2, <2>1 DEF ServingTypes
<1>9. InOrder'
  <2>1. CASE n = Flush
    <3>1. queue' = Tail(queue) /\ batch' = batch /\ log' = log
      BY <1>2, <1>4, <2>1
    <3> QED BY <1>1, <1>6, <3>1 DEF InOrder, Ascends, Precedes
  <2>2. CASE n # Flush
    <3>1. queue' = Tail(queue) /\ batch' = Append(batch, n) /\ log' = log
      BY <1>2, <1>4, <2>2
    <3> QED BY <1>1, <1>6, <1>7, <2>2, <3>1 DEF InOrder, Ascends, Precedes
  <2> QED BY <2>1, <2>2
<1>10. Accounted'
  <2>1. CASE n = Flush
    <3>1. queue' = Tail(queue) /\ batch' = batch /\ log' = log /\ lost' = lost /\ answered' = answered
      BY <1>2, <1>4, <2>1
    <3> QED BY <1>1, <1>5, <2>1, <3>1 DEF Accounted
  <2>2. CASE n # Flush
    <3>1. /\ queue' = Tail(queue) /\ batch' = Append(batch, n) /\ log' = log
          /\ lost' = lost /\ answered' = answered
      BY <1>2, <1>4, <2>2
    <3> QED BY <1>1, <1>5, <1>7, <2>2, <3>1 DEF Accounted
  <2> QED BY <2>1, <2>2
<1>11. FlushIsLast'
  <2>1. phase \in {"up", "draining", "flushing"}
    BY <1>1, <1>2 DEF FlushIsLast, ServingTypes
  <2>2. phase' = phase /\ last' = last /\ Busy' = Busy
    BY <1>2 DEF Busy
  <2>3. CASE phase \in {"up", "draining"}
    <3>1. Flush \notin ToSet(queue) /\ ~asked
      BY <1>1, <2>3 DEF FlushIsLast
    <3>2. n # Flush /\ Flush \notin ToSet(Tail(queue))
      BY <1>5, <3>1
    <3>3. ~asked' /\ Flush \notin ToSet(queue')
      BY <1>2, <1>4, <3>1, <3>2
    <3> QED BY <1>1, <1>2, <2>2, <2>3, <3>3 DEF FlushIsLast, ToSet
  <2>4. CASE phase = "flushing"
    <3>1. ~asked /\ \A i \in 1 .. Len(queue) : queue[i] = Flush <=> i = Len(queue)
      BY <1>1, <1>2, <2>4 DEF FlushIsLast
    <3>2. /\ Len(queue) \in Nat /\ Len(queue) > 0 /\ n = queue[1]
          /\ Len(Tail(queue)) = Len(queue) - 1
          /\ \A i \in 1 .. (Len(queue) - 1) : Tail(queue)[i] = queue[i + 1]
      BY <1>2, <1>3, <1>4
    <3>3. CASE n = Flush
      <4>1. Len(queue) = 1
        <5>1. 1 \in 1 .. Len(queue)
          BY <3>2
        <5> QED BY <3>1, <3>2, <3>3, <5>1
      <4>2. Tail(queue) = <<>> /\ asked'
        BY <1>2, <1>4, <1>6, <3>2, <3>3, <4>1, EmptySeq
      <4> QED BY <1>1, <1>2, <2>2, <2>4, <4>2 DEF FlushIsLast
    <3>4. CASE n # Flush
      <4>1. Len(queue) # 1
        BY <3>1, <3>2, <3>4
      <4>2. Tail(queue) # <<>> /\ ~asked'
        <5>1. PICK t \in Seq(Nat) : t = Tail(queue) /\ Len(t) = Len(queue) - 1
          BY <1>6, <3>2
        <5>2. t # <<>>
          <6>1. PICK k \in Nat : k = Len(queue)
            BY <3>2
          <6>2. Len(t) = k - 1 /\ k # 1
            BY <4>1, <5>1, <6>1
          <6>3. Len(t) # 0
            BY <6>1, <6>2
          <6> QED BY <6>3
        <5>3. ~asked'
          BY <1>2, <1>4, <3>1, <3>4
        <5> QED BY <5>1, <5>2, <5>3
      <4>3. \A i \in 1 .. Len(Tail(queue)) : Tail(queue)[i] = Flush <=> i = Len(Tail(queue))
        BY <3>1, <3>2
      <4> QED BY <1>1, <1>2, <2>2, <2>4, <4>2, <4>3 DEF FlushIsLast
    <3> QED BY <3>3, <3>4
  <2> QED BY <2>1, <2>3, <2>4
<1> QED BY <1>8, <1>9, <1>10, <1>11 DEF LogInductive

\* The batch becomes rows, or is lost; the writer's order is the table's.
LEMMA Stored ==
    ASSUME LogInductive, Store
    PROVE  LogInductive'
<1>1. ServingTypes /\ InOrder /\ Accounted /\ FlushIsLast
  BY DEF LogInductive
<1>2. /\ task = "store" /\ task' = "answer" /\ batch' = <<>>
      /\ UNCHANGED <<req, phase, last, queue, asked, answered>>
      /\ \/ log' = log \o batch /\ lost' = lost
         \/ lost' = lost \cup ToSet(batch) /\ log' = log
  BY DEF Store, Writer, staged
<1>3. queue \in Seq(Nat) /\ batch \in Seq(Nat) /\ log \in Seq(Nat)
  BY <1>1 DEF ServingTypes, Numbers
<1>4. ToSet(batch) \subseteq 1 .. answered
  BY <1>1 DEF Accounted
<1>5. log \o batch \in Seq(Numbers)
  BY <1>1 DEF ServingTypes
<1>6. Ascends(log \o batch) /\ Precedes(log \o batch, queue)
  BY <1>1, <1>3, ConcatKeepsOrder DEF InOrder
<1>7. ToSet(log \o batch) = ToSet(log) \cup ToSet(batch)
  BY <1>3, RangeOfConcat
<1>8. ServingTypes'
  <2>1. batch' \in Seq(Numbers)
    BY <1>2
  <2>2. log' \in Seq(Numbers)
    BY <1>1, <1>2, <1>5 DEF ServingTypes
  <2>3. lost' \subseteq 1 .. answered'
    BY <1>1, <1>2, <1>4 DEF ServingTypes
  <2> QED BY <1>1, <1>2, <2>1, <2>2, <2>3 DEF ServingTypes
<1>9. InOrder'
  <2>1. CASE log' = log \o batch
    BY <1>1, <1>2, <1>6, <2>1, NoneInOrder DEF InOrder, Ascends, Precedes
  <2>2. CASE log' = log
    BY <1>1, <1>2, <2>2, NoneInOrder DEF InOrder, Ascends, Precedes
  <2> QED BY <1>2, <2>1, <2>2
<1>10. Accounted'
  <2>1. ToSet(batch') = {}
    BY <1>2, RangeOfNone
  <2>2. CASE log' = log \o batch /\ lost' = lost
    BY <1>1, <1>2, <1>7, <2>1, <2>2 DEF Accounted
  <2>3. CASE lost' = lost \cup ToSet(batch) /\ log' = log
    BY <1>1, <1>2, <2>1, <2>3 DEF Accounted
  <2> QED BY <1>2, <2>2, <2>3
<1>11. FlushIsLast'
  BY <1>1, <1>2 DEF FlushIsLast, Busy
<1> QED BY <1>8, <1>9, <1>10, <1>11 DEF LogInductive

\* The writer's other steps; the flush is answered when the batch is stored.
LEMMA WriterKeeps ==
    ASSUME LogInductive, Empty \/ AnswerFlush \/ EndTask
    PROVE  LogInductive'
<1>1. ServingTypes /\ FlushIsLast
  BY DEF LogInductive
<1>2. UNCHANGED <<queue, batch, log, answered, lost>>
  BY DEF Empty, AnswerFlush, EndTask, Writer, file, counters
<1>3. UNCHANGED <<req, last>>
  BY DEF Empty, AnswerFlush, EndTask, Writer, file, staged
<1>4. CASE Empty
  <2>1. task = "fill" /\ task' = "store" /\ UNCHANGED <<phase, asked>>
    BY <1>4 DEF Empty, Writer
  <2>2. ServingTypes'
    BY <1>1, <1>2, <2>1 DEF ServingTypes
  <2>3. FlushIsLast'
    BY <1>1, <1>2, <1>3, <2>1 DEF FlushIsLast, Busy
  <2> QED BY <1>2, <2>2, <2>3, NothingMoved DEF LogInductive
<1>5. CASE AnswerFlush
  <2>1. /\ task = "answer" /\ task' = "recv" /\ asked' = FALSE
        /\ phase' = IF asked THEN "flushed" ELSE phase
    BY <1>5 DEF AnswerFlush
  <2>2. batch = <<>> /\ (asked => phase = "flushing")
    BY <1>1, <2>1 DEF FlushIsLast, ServingTypes
  <2>3. ServingTypes'
    BY <1>1, <1>2, <2>1 DEF ServingTypes
  <2>4. FlushIsLast'
    <3>1. CASE asked
      BY <1>1, <1>2, <1>3, <2>1, <2>2, <3>1 DEF FlushIsLast, Busy
    <3>2. CASE ~asked
      BY <1>1, <1>2, <1>3, <2>1, <2>2, <3>2 DEF FlushIsLast, Busy
    <3> QED BY <3>1, <3>2
  <2> QED BY <1>2, <2>3, <2>4, NothingMoved DEF LogInductive
<1>6. CASE EndTask
  <2>1. task = "recv" /\ task' = "ended" /\ UNCHANGED <<phase, asked>>
    BY <1>6 DEF EndTask
  <2>2. ServingTypes'
    BY <1>1, <1>2, <2>1 DEF ServingTypes
  <2>3. FlushIsLast'
    BY <1>1, <1>2, <1>3, <2>1 DEF FlushIsLast, Busy
  <2> QED BY <1>2, <2>2, <2>3, NothingMoved DEF LogInductive
<1> QED BY <1>4, <1>5, <1>6

\* The flush follows every record, since no request is left.
LEMMA FlushSent ==
    ASSUME LogInductive, SendFlush
    PROVE  LogInductive'
<1>1. ServingTypes /\ InOrder /\ Accounted /\ FlushIsLast
  BY DEF LogInductive
<1>2. /\ phase = "draining" /\ phase' = "flushing" /\ Busy = {}
      /\ queue' = Append(queue, Flush)
      /\ UNCHANGED <<req, batch, asked, task, last, log, answered, lost>>
  BY DEF SendFlush, Drained, Main, staged
<1>3. queue \in Seq(Nat) /\ batch \in Seq(Nat) /\ log \in Seq(Nat) /\ Flush \in Nat
  BY <1>1 DEF ServingTypes, Numbers, Flush
<1>4. ToSet(Append(queue, Flush)) = ToSet(queue) \cup {Flush}
  BY <1>3, RangeOfAppend
<1>5. ServingTypes'
  <2>1. queue' \in Seq(Nat)
    BY <1>2, <1>3
  <2> QED BY <1>1, <1>2, <2>1 DEF ServingTypes
<1>6. Accounted'
  BY <1>1, <1>2, <1>4 DEF Accounted
<1>7. InOrder'
  <2>1. Ascends(Append(queue, Flush))
    BY <1>1, <1>3, AppendAscends DEF InOrder
  <2>2. Precedes(log, Append(queue, Flush))
    BY <1>1, <1>3, PrecedesAppend DEF InOrder
  <2>3. Precedes(batch, Append(queue, Flush))
    BY <1>1, <1>3, PrecedesAppend DEF InOrder
  <2> QED BY <1>1, <1>2, <2>1, <2>2, <2>3 DEF InOrder, Ascends, Precedes
<1>8. FlushIsLast'
  <2>1. Flush \notin ToSet(queue) /\ ~asked
    BY <1>1, <1>2 DEF FlushIsLast
  <2>2. /\ Len(Append(queue, Flush)) = Len(queue) + 1 /\ Len(queue) \in Nat
        /\ \A i \in 1 .. Len(queue) : Append(queue, Flush)[i] = queue[i] /\ queue[i] \in ToSet(queue)
        /\ Append(queue, Flush)[Len(queue) + 1] = Flush
        /\ \A i \in 1 .. Len(queue) + 1 : i \in 1 .. Len(queue) \/ i = Len(queue) + 1
    BY <1>3 DEF ToSet
  <2>3. \A i \in 1 .. Len(queue') : queue'[i] = Flush <=> i = Len(queue')
    BY <1>2, <2>1, <2>2
  <2>4. queue' # <<>>
    BY <1>2, <1>3
  <2> QED BY <1>1, <1>2, <2>1, <2>3, <2>4 DEF FlushIsLast, Busy
<1> QED BY <1>5, <1>6, <1>7, <1>8 DEF LogInductive

\* main's other steps move no record, and stop nothing that has not flushed.
LEMMA MainKeeps ==
    ASSUME LogInductive,
           Signal \/ ClosePool \/ OpenLast \/ CloseLast \/ LookForWal \/ GiveUp \/ LastFails
    PROVE  LogInductive'
<1>1. ServingTypes /\ FlushIsLast
  BY DEF LogInductive
<1>2. UNCHANGED <<req, queue, batch, asked, task, log, answered, lost>>
  BY DEF Signal, ClosePool, OpenLast, CloseLast, LookForWal, GiveUp, LastFails, Main, staged
<1>3. \/ phase = "up" /\ phase' = "draining" /\ last' = last
      \/ phase = "flushed" /\ phase' = "closing" /\ last' = last
      \/ phase = "closing" /\ phase' = "closing"
      \/ phase = "closing" /\ phase' = "stopped" /\ last' = "none"
  BY <1>1 DEF Signal, ClosePool, OpenLast, CloseLast, LookForWal, GiveUp, LastFails, FlushIsLast
<1>4. ServingTypes'
  BY <1>1, <1>2, <1>3 DEF ServingTypes
<1>5. FlushIsLast'
  BY <1>1, <1>2, <1>3 DEF FlushIsLast, Busy
<1> QED BY <1>2, <1>4, <1>5, NothingMoved DEF LogInductive

\* A kill loses what is on its way.
LEMMA KillLoses ==
    ASSUME LogInductive, Kill
    PROVE  LogInductive'
<1>1. ServingTypes /\ InOrder /\ Accounted /\ FlushIsLast
  BY DEF LogInductive
<1>2. /\ phase' = "up" /\ queue' = <<>> /\ batch' = <<>> /\ asked' = FALSE /\ task' = "recv"
      /\ lost' = lost \cup (1 .. answered \ ToSet(log))
      /\ last' = "none" /\ UNCHANGED <<log, answered>>
  BY DEF Kill
<1>3. ServingTypes'
  <2>1. queue' \in Seq(Nat) /\ batch' \in Seq(Numbers)
    BY <1>2
  <2>2. lost' \subseteq 1 .. answered'
    BY <1>1, <1>2 DEF ServingTypes
  <2> QED BY <1>1, <1>2, <2>1, <2>2 DEF ServingTypes
<1>4. ToSet(queue') = {} /\ ToSet(batch') = {}
  BY <1>2, RangeOfNone
<1>5. Accounted'
  BY <1>1, <1>2, <1>4 DEF Accounted
<1>6. InOrder'
  BY <1>1, <1>2, NoneInOrder DEF InOrder, Ascends, Precedes
<1>7. FlushIsLast'
  BY <1>2, <1>4 DEF FlushIsLast, ToSet
<1> QED BY <1>3, <1>5, <1>6, <1>7 DEF LogInductive

LEMMA LogStep ==
    ASSUME LogInductive, [Next]_vars
    PROVE  LogInductive'
<1>1. ASSUME NEW r \in Requests, Request(r) PROVE LogInductive'
  <2>1. UNCHANGED <<memory, last, log, answered, lost>>
    BY <1>1 DEF Request, file, counters
  <2>2. req[r] # None \/ phase = "up"
    BY <1>1 DEF Request, RequestStep, SweepStaged, Park, AnswerParked, BeginConfirm, CommitConfirm,
       CheckLinks, Refuse, Drop, At
  <2> QED BY <2>1, <2>2, RequestsServed
<1>2. ASSUME UNCHANGED <<req, memory, last, log, answered, lost>> PROVE LogInductive'
  <2>1. ServingTypes /\ FlushIsLast
    BY DEF LogInductive
  <2>2. UNCHANGED <<phase, queue, batch, asked, task>>
    BY <1>2 DEF memory
  <2>3. ServingTypes'
    BY <1>2, <2>1, <2>2 DEF ServingTypes
  <2>4. FlushIsLast'
    BY <1>2, <2>1, <2>2 DEF FlushIsLast, Busy
  <2> QED BY <1>2, <2>2, <2>3, <2>4, NothingMoved DEF LogInductive
<1>3. PassTime => UNCHANGED <<req, memory, last, log, answered, lost>>
  BY DEF PassTime, Tick, file, counters
<1>4. \A c \in Conns : ConnStep(c) => UNCHANGED <<req, memory, last, log, answered, lost>>
  BY DEF ConnStep, LookAround, Closed, staged, counters
<1>5. UNCHANGED vars => UNCHANGED <<req, memory, last, log, answered, lost>>
  BY DEF vars, staged, file, counters
<1>6. WriterStep => LogInductive'
  BY Taken, Stored, WriterKeeps DEF WriterStep
<1>7. Signal \/ MainStep \/ GiveUp \/ LastFails => LogInductive'
  BY FlushSent, MainKeeps DEF MainStep
<1> QED BY <1>1, <1>2, <1>3, <1>4, <1>5, <1>6, <1>7, Recorded, KillLoses DEF Next

\* Once the log is flushed each record is a row or was lost to a full queue, a
\* failed batch or a kill, and the rows stand in the order of the answers.
THEOREM FlushIsWhole == Spec => []FlushKeepsAll
<1>1. LogInductive => FlushKeepsAll
  <2> SUFFICES ASSUME LogInductive PROVE FlushKeepsAll
    OBVIOUS
  <2>1. ServingTypes /\ InOrder /\ Accounted /\ FlushIsLast
    BY DEF LogInductive
  <2>2. ASSUME phase \in {"flushed", "closing", "stopped"}
        PROVE  1 .. answered = lost \cup ToSet(log)
    <3>1. ToSet(queue) = {} /\ ToSet(batch) = {}
      BY <2>1, <2>2, RangeOfNone DEF FlushIsLast
    <3> QED BY <2>1, <3>1 DEF Accounted
  <2>3. \A i \in 1 .. Len(log) : log[i] # Flush
    BY <2>1 DEF ServingTypes, Numbers
  <2>4. \A i, j \in 1 .. Len(log) : i < j => log[i] < log[j]
    BY <2>1, <2>3 DEF InOrder, Ascends
  <2> QED BY <2>2, <2>4 DEF FlushKeepsAll
<1> QED BY <1>1, InitLog, LogStep, PTL DEF Spec

-----------------------------------------------------------------------------
(* Figures: numbers and sequences.                                         *)

\* A set of numbers that holds 0 and each one's successor holds all.
LEMMA Induction ==
    ASSUME NEW S, 0 \in S, \A n \in Nat : n \in S => n + 1 \in S
    PROVE  Nat \subseteq S
<1> SUFFICES ASSUME Nat \ S # {} PROVE FALSE
  OBVIOUS
<1>1. PICK n \in Nat \ S : \A m \in Nat \ S : ~ (<<m, n>> \in OpToRel(<, Nat))
  BY NatLessThanWellFounded, WFMin
<1>2. \A m \in Nat \ S : n <= m
  <2> TAKE m \in Nat \ S
  <2>1. ~ (m < n)
    BY <1>1 DEF OpToRel
  <2> QED BY <2>1
<1>3. n # 0 /\ n - 1 \in Nat
  OBVIOUS
<1>4. n - 1 \in S
  BY <1>2, <1>3
<1> QED BY <1>3, <1>4

\* Some numbers have a least.
LEMMA LeastOf ==
    ASSUME NEW S \in SUBSET Nat, S # {}
    PROVE  \E m \in S : \A x \in S : m <= x
<1>1. PICK m \in S : \A x \in S : ~ (<<x, m>> \in OpToRel(<, Nat))
  BY NatLessThanWellFounded, WFMin
<1>2. \A x \in S : m <= x
  <2> TAKE x \in S
  <2>1. ~ (x < m)
    BY <1>1 DEF OpToRel
  <2> QED BY <2>1
<1> QED BY <1>2

\* Some numbers up to a bound have a greatest.
LEMMA GreatestOf ==
    ASSUME NEW n \in Nat, NEW S \in SUBSET (1 .. n), S # {}
    PROVE  \E m \in S : \A x \in S : x <= m
<1> DEFINE D == {n - x : x \in S}
<1>1. D \in SUBSET Nat /\ D # {}
  <2>1. \A x \in S : n - x \in Nat
    OBVIOUS
  <2>2. PICK x \in S : TRUE
    OBVIOUS
  <2>3. n - x \in D
    BY <2>2
  <2> QED BY <2>1, <2>3
<1>2. PICK d \in D : \A y \in D : d <= y
  <2> HIDE DEF D
  <2> QED BY <1>1, LeastOf
<1>3. PICK m \in S : d = n - m
  OBVIOUS
<1>4. ASSUME NEW x \in S PROVE x <= m
  <2>1. n - x \in D
    OBVIOUS
  <2>2. n - m <= n - x
    BY <1>2, <1>3, <2>1
  <2>3. x \in 1 .. n /\ m \in 1 .. n
    OBVIOUS
  <2> QED BY <2>2, <2>3
<1> QED BY <1>4

\* A sequence's elements are of its set.
LEMMA MemberOf ==
    ASSUME NEW S, NEW s \in Seq(S), NEW i \in DOMAIN s
    PROVE  s[i] \in S
OBVIOUS

\* A point that has a time, and points in the order of their times.
TimedPoint == [time : Int, offset : Int \cup {Unknown}]
InTimeOrder(points) ==
    /\ points \in Seq(TimedPoint)
    /\ \A i, j \in 1 .. Len(points) : i < j => points[i].time <= points[j].time

\* The earliest is the one no other is before.
LEMMA EarliestIs ==
    ASSUME NEW S \in SUBSET Int, NEW m \in S, \A x \in S : m <= x
    PROVE  Earliest(S) = m
<1>1. \A x \in S : (\A u \in S : x <= u) => x = m
  OBVIOUS
<1>2. (CHOOSE t \in S : \A u \in S : t <= u) = m
  BY <1>1
<1> QED BY <1>2 DEF Earliest

-----------------------------------------------------------------------------
(* Photo placement: the points in the order of their times.                *)

\* timed_points sorts: the nth point is the one that n - 1 come before, and no
\* two points have as many before them.
LEMMA TimedInOrder ==
    ASSUME NEW line \in Seq([time : Int \cup {Unknown}, offset : Int \cup {Unknown}])
    PROVE  InTimeOrder(TimedPoints(line))
<1> DEFINE T == {i \in DOMAIN line : line[i].time # Unknown}
           Before(i, j) == line[i].time < line[j].time \/ (line[i].time = line[j].time /\ i < j)
           Below(i) == {j \in T : Before(j, i)}
           n == Cardinality(T)
           Nth(k) == CHOOSE i \in T : Cardinality(Below(i)) = k - 1
<1>1. ASSUME NEW i \in T PROVE line[i].time \in Int /\ i \in Nat /\ line[i] \in TimedPoint
  <2>1. i \in DOMAIN line /\ i \in Nat /\ line[i].time # Unknown
    OBVIOUS
  <2>0. line[i] \in [time : Int \cup {Unknown}, offset : Int \cup {Unknown}]
    BY <2>1, MemberOf
  <2>2. PICK p \in [time : Int \cup {Unknown}, offset : Int \cup {Unknown}] : p = line[i]
    BY <2>0
  <2>3. p = [time |-> p.time, offset |-> p.offset] /\ p.time \in Int
    BY <2>1, <2>2
  <2> QED BY <2>1, <2>2, <2>3 DEF TimedPoint
<1>2. IsFiniteSet(T) /\ n \in Nat
  <2>1. IsFiniteSet(1 .. Len(line)) /\ T \in SUBSET (1 .. Len(line))
    BY FS_Interval
  <2> HIDE DEF T
  <2> QED BY <2>1, FS_Subset, FS_CardinalityType
<1>3. ASSUME NEW i \in T
      PROVE  /\ IsFiniteSet(Below(i)) /\ Cardinality(Below(i)) \in 0 .. n - 1
  <2>1. Below(i) \in SUBSET (T \ {i})
    BY <1>1
  <2>2. IsFiniteSet(T \ {i}) /\ Cardinality(T \ {i}) = n - 1
    <3> HIDE DEF T
    <3> QED BY <1>2, FS_RemoveElement
  <2> HIDE DEF Below, T
  <2>3. IsFiniteSet(Below(i)) /\ Cardinality(Below(i)) <= n - 1
    BY <2>1, <2>2, FS_Subset
  <2>4. Cardinality(Below(i)) \in Nat
    BY <2>3, FS_CardinalityType
  <2> QED BY <1>2, <2>3, <2>4
<1>4. ASSUME NEW i \in T, NEW j \in T, Before(i, j)
      PROVE  Cardinality(Below(i)) < Cardinality(Below(j))
  <2>1. Below(i) \cup {i} \in SUBSET Below(j)
    BY <1>1, <1>4
  <2>2. i \notin Below(i)
    BY <1>1
  <2> HIDE DEF Below, T, Before
  <2>3. Cardinality(Below(i) \cup {i}) = Cardinality(Below(i)) + 1
    BY <1>3, <2>2, FS_AddElement
  <2>4. Cardinality(Below(i) \cup {i}) <= Cardinality(Below(j))
    BY <1>3, <2>1, FS_Subset
  <2> QED BY <1>2, <1>3, <2>3, <2>4
<1>5. ASSUME NEW k \in 1 .. n PROVE Nth(k) \in T /\ Cardinality(Below(Nth(k))) = k - 1
  <2> DEFINE f == [i \in T |-> Cardinality(Below(i))]
  <2>1. f \in [T -> 0 .. n - 1]
    <3> HIDE DEF T, Below
    <3> QED BY <1>3
  <2>2. ASSUME NEW i \in T, NEW j \in T, f[i] = f[j] PROVE i = j
    <3>1. i = j \/ Before(i, j) \/ Before(j, i)
      BY <1>1
    <3> HIDE DEF T, Below, Before
    <3> QED BY <1>2, <1>3, <1>4, <2>2, <3>1
  <2>3. f \in Injection(T, 0 .. n - 1)
    <3> HIDE DEF T, f, n
    <3> QED BY <2>1, <2>2 DEF Injection, IsInjective
  <2>4. IsFiniteSet(0 .. n - 1) /\ Cardinality(0 .. n - 1) = n
    <3> HIDE DEF n
    <3> QED BY <1>2, FS_Interval
  <2>5. f \in Surjection(T, 0 .. n - 1)
    <3> HIDE DEF T, f
    <3> QED BY <2>3, <2>4, FS_Injection
  <2>6. PICK i \in T : f[i] = k - 1
    <3>1. k - 1 \in 0 .. n - 1
      BY <1>2
    <3> HIDE DEF T, f, n
    <3> QED BY <2>5, <3>1 DEF Surjection
  <2> HIDE DEF T, Below, n
  <2>7. Cardinality(Below(i)) = k - 1
    BY <2>6
  <2> QED BY <2>7
<1>6. TimedPoints(line) = [k \in 1 .. n |-> line[Nth(k)]]
  BY DEF TimedPoints
<1>7. ASSUME NEW k \in 1 .. n, NEW l \in 1 .. n, k < l
      PROVE  line[Nth(k)].time <= line[Nth(l)].time
  <2>1. Nth(k) \in T /\ Nth(l) \in T
    BY <1>5
  <2>2. PICK i \in T, j \in T : i = Nth(k) /\ j = Nth(l)
    BY <2>1
  <2>3. ~ (Cardinality(Below(j)) < Cardinality(Below(i)))
    <3> HIDE DEF T, Below, Nth, n
    <3> QED BY <1>2, <1>5, <1>7, <2>2
  <2>4. ~Before(j, i)
    <3> HIDE DEF T, Below, Nth, n, Before
    <3> QED BY <1>4, <2>3
  <2>5. line[i].time <= line[j].time
    BY <1>1, <2>4
  <2> QED BY <2>2, <2>5
<1>8. \A k \in 1 .. n : line[Nth(k)] \in TimedPoint
  <2> HIDE DEF T, Nth, n
  <2> QED BY <1>1, <1>5
<1> HIDE DEF T, Nth, n, Below
<1>9. TimedPoints(line) \in Seq(TimedPoint) /\ Len(TimedPoints(line)) = n
  BY <1>2, <1>6, <1>8
<1> QED BY <1>6, <1>7, <1>9 DEF InTimeOrder

-----------------------------------------------------------------------------
(* Photo placement: the offset in force at each point.                     *)

\* f carries the offsets of the first n points on, as InForce does.
ForceOf(points, f, n) ==
    f = [i \in 1 .. n |-> IF points[i].offset # Unknown THEN points[i].offset
                          ELSE IF i = 1 THEN 0 ELSE f[i - 1]]

\* However many points there are, their offsets can be carried on: point by
\* point.  So the function that InForce defines by recursion exists.
LEMMA ForceExists ==
    ASSUME NEW points, NEW n \in Nat
    PROVE  \E f : ForceOf(points, f, n)
<1> DEFINE S == {m \in Nat : \E f : ForceOf(points, f, m)}
<1>1. 0 \in S
  <2> DEFINE f == [i \in 1 .. 0 |-> 0]
  <2>1. ForceOf(points, f, 0)
    BY DEF ForceOf
  <2> QED BY <2>1
<1>2. ASSUME NEW m \in Nat, m \in S PROVE m + 1 \in S
  <2>1. PICK g : ForceOf(points, g, m)
    BY <1>2
  <2> DEFINE f == [i \in 1 .. m + 1 |->
                      IF points[i].offset # Unknown THEN points[i].offset
                      ELSE IF i = 1 THEN 0 ELSE g[i - 1]]
  <2>2. \A i \in 1 .. m : g[i] = f[i]
    BY <2>1 DEF ForceOf
  <2>3. ASSUME NEW i \in 1 .. m + 1, i # 1 PROVE g[i - 1] = f[i - 1]
    <3>1. i - 1 \in 1 .. m
      BY <2>3
    <3> QED BY <2>2, <3>1
  <2>4. ForceOf(points, f, m + 1)
    BY <2>3, Zenon DEF ForceOf
  <2> QED BY <2>4
<1>3. Nat \subseteq S
  <2> HIDE DEF S
  <2> QED BY <1>1, <1>2, Induction
<1> QED BY <1>3

\* An unknown offset keeps the one in force, and is UTC at the start.
LEMMA Forces ==
    ASSUME NEW points, InTimeOrder(points), NEW i \in 1 .. Len(points)
    PROVE  InForce(points)[i] = IF points[i].offset # Unknown THEN points[i].offset
                                ELSE IF i = 1 THEN 0 ELSE InForce(points)[i - 1]
<1> DEFINE P(f) == f = [k \in DOMAIN points |->
                           IF points[k].offset # Unknown THEN points[k].offset
                           ELSE IF k = 1 THEN 0 ELSE f[k - 1]]
<1>1. DOMAIN points = 1 .. Len(points) /\ Len(points) \in Nat
  BY DEF InTimeOrder
<1>2. InForce(points) = CHOOSE f : P(f)
  BY DEF InForce
<1>3. \E f : P(f)
  <2>1. PICK f : ForceOf(points, f, Len(points))
    BY <1>1, ForceExists, Zenon
  <2>2. P(f)
    BY <1>1, <2>1, Zenon DEF ForceOf
  <2> QED BY <2>2
<1>4. P(InForce(points))
  <2> HIDE DEF P
  <2> QED BY <1>2, <1>3, Zenon
<1>5. i \in DOMAIN points
  BY <1>1
<1> QED BY <1>4, <1>5, Zenon

\* The offset in force is that of the last known one.
LEMMA ForceIsLastKnown ==
    ASSUME NEW points, InTimeOrder(points), NEW n \in 1 .. Len(points)
    PROVE  /\ InForce(points)[n] \in Int
           /\ \/ /\ InForce(points)[n] = 0
                 /\ \A j \in 1 .. n : points[j].offset = Unknown
              \/ \E c \in 1 .. n :
                    /\ points[c].offset # Unknown /\ InForce(points)[n] = points[c].offset
                    /\ \A j \in c + 1 .. n : points[j].offset = Unknown
<1> DEFINE LastKnown(m) ==
             /\ InForce(points)[m] \in Int
             /\ \/ /\ InForce(points)[m] = 0
                   /\ \A j \in 1 .. m : points[j].offset = Unknown
                \/ \E c \in 1 .. m :
                      /\ points[c].offset # Unknown /\ InForce(points)[m] = points[c].offset
                      /\ \A j \in c + 1 .. m : points[j].offset = Unknown
           S == {m \in Nat : m + 1 <= Len(points) => LastKnown(m + 1)}
<1>1. Len(points) \in Nat /\ \A i \in 1 .. Len(points) : points[i].offset \in Int \cup {Unknown}
  <2>1. Len(points) \in Nat /\ \A i \in 1 .. Len(points) : points[i] \in TimedPoint
    BY DEF InTimeOrder
  <2> QED BY <2>1 DEF TimedPoint
<1>2. ASSUME NEW m \in 1 .. Len(points), points[m].offset # Unknown PROVE LastKnown(m)
  <2>1. InForce(points)[m] = points[m].offset
    BY <1>2, Forces
  <2>2. \A j \in m + 1 .. m : points[j].offset = Unknown
    OBVIOUS
  <2>3. \E c \in 1 .. m :
           /\ points[c].offset # Unknown /\ InForce(points)[m] = points[c].offset
           /\ \A j \in c + 1 .. m : points[j].offset = Unknown
    <3>1. m \in 1 .. m
      BY <1>2
    <3> QED BY <1>2, <2>1, <2>2, <3>1
  <2>4. points[m].offset \in Int
    BY <1>1, <1>2
  <2> QED BY <2>1, <2>3, <2>4
<1>3. ASSUME NEW m \in 1 .. Len(points), points[m].offset = Unknown, m = 1 PROVE LastKnown(m)
  <2>1. InForce(points)[m] = 0
    BY <1>3, Forces
  <2> QED BY <1>3, <2>1
<1>4. ASSUME NEW m \in 1 .. Len(points), m + 1 \in 1 .. Len(points), LastKnown(m),
             points[m + 1].offset = Unknown
      PROVE  LastKnown(m + 1)
  <2>1. m + 1 # 1 /\ (m + 1) - 1 = m
    OBVIOUS
  <2>2. InForce(points)[m + 1] = InForce(points)[m]
    BY <1>4, <2>1, Forces
  <2>3. CASE \A j \in 1 .. m : points[j].offset = Unknown
    <3>1. \A j \in 1 .. m + 1 : points[j].offset = Unknown
      BY <1>4, <2>3
    <3>2. InForce(points)[m] = 0
      BY <1>4, <2>3
    <3> QED BY <2>2, <3>1, <3>2
  <2>4. CASE \E c \in 1 .. m :
                /\ points[c].offset # Unknown /\ InForce(points)[m] = points[c].offset
                /\ \A j \in c + 1 .. m : points[j].offset = Unknown
    <3>1. PICK c \in 1 .. m :
                /\ points[c].offset # Unknown /\ InForce(points)[m] = points[c].offset
                /\ \A j \in c + 1 .. m : points[j].offset = Unknown
      BY <2>4
    <3>2. \A j \in c + 1 .. m + 1 : points[j].offset = Unknown
      BY <1>4, <3>1
    <3>3. c \in 1 .. m + 1
      BY <3>1
    <3> QED BY <1>4, <2>2, <3>1, <3>2, <3>3
  <2> QED BY <1>4, <2>3, <2>4
<1>5. 0 \in S
  <2> SUFFICES ASSUME 1 <= Len(points) PROVE LastKnown(1)
    OBVIOUS
  <2>1. 1 \in 1 .. Len(points)
    BY <1>1
  <2> HIDE DEF LastKnown
  <2> QED BY <1>2, <1>3, <2>1
<1>6. ASSUME NEW m \in Nat, m \in S PROVE m + 1 \in S
  <2> SUFFICES ASSUME (m + 1) + 1 <= Len(points) PROVE LastKnown((m + 1) + 1)
    OBVIOUS
  <2>1. m + 1 \in 1 .. Len(points) /\ (m + 1) + 1 \in 1 .. Len(points)
    BY <1>1
  <2> HIDE DEF LastKnown
  <2>2. LastKnown(m + 1)
    BY <1>6, <2>1
  <2> QED BY <1>2, <1>4, <2>1, <2>2
<1>7. Nat \subseteq S
  <2> HIDE DEF S
  <2> QED BY <1>5, <1>6, Induction
<1>8. n - 1 \in Nat /\ (n - 1) + 1 = n /\ n <= Len(points)
  BY <1>1
<1>9. LastKnown(n)
  <2>1. n - 1 \in S
    <3> HIDE DEF S
    <3> QED BY <1>7, <1>8
  <2> HIDE DEF LastKnown
  <2> QED BY <1>8, <2>1
<1> QED BY <1>9

-----------------------------------------------------------------------------
(* Photo placement: the stretches of one offset.                           *)

\* What is known of a track's points.
LEMMA PointNumbers ==
    ASSUME NEW points, InTimeOrder(points)
    PROVE  /\ Len(points) \in Nat /\ DOMAIN points = 1 .. Len(points)
           /\ \A i \in 1 .. Len(points) : /\ points[i].time \in Int
                                          /\ points[i].offset \in Int \cup {Unknown}
           /\ \A i, j \in 1 .. Len(points) : i <= j => points[i].time <= points[j].time
<1>1. /\ Len(points) \in Nat /\ DOMAIN points = 1 .. Len(points)
      /\ \A i \in 1 .. Len(points) : points[i] \in TimedPoint
  BY DEF InTimeOrder
<1>2. \A i \in 1 .. Len(points) : points[i].time \in Int /\ points[i].offset \in Int \cup {Unknown}
  BY <1>1 DEF TimedPoint
<1>3. ASSUME NEW i \in 1 .. Len(points), NEW j \in 1 .. Len(points), i <= j
      PROVE  points[i].time <= points[j].time
  <2>1. CASE i = j
    BY <1>2, <2>1
  <2>2. CASE i < j
    BY <2>2 DEF InTimeOrder
  <2> QED BY <1>3, <2>1, <2>2
<1> QED BY <1>1, <1>2, <1>3

\* The earliest is in the set, and no other is before it.
LEMMA EarliestOf ==
    ASSUME NEW S \in SUBSET Nat, S # {}
    PROVE  Earliest(S) \in S /\ \A x \in S : Earliest(S) <= x
<1>1. PICK m \in S : \A x \in S : m <= x
  BY LeastOf
<1>2. S \in SUBSET Int
  OBVIOUS
<1>3. Earliest(S) = m
  BY <1>1, <1>2, EarliestIs
<1> QED BY <1>1, <1>3

\* Each point has the offset its stretch started with.
LEMMA StretchStart ==
    ASSUME NEW points, InTimeOrder(points), NEW n \in 1 .. Len(points)
    PROVE  \E s \in OffsetTransitions(points) :
              /\ s <= n /\ InForce(points)[s] = InForce(points)[n]
              /\ \A j \in OffsetTransitions(points) : j <= s \/ n < j
<1> DEFINE F == InForce(points)
           X == OffsetTransitions(points)
           OneStart(m) == \E s \in X : s <= m /\ F[s] = F[m] /\ \A j \in X : j <= s \/ m < j
           S == {m \in Nat : m + 1 <= Len(points) => OneStart(m + 1)}
<1>1. /\ Len(points) \in Nat
      /\ X = {i \in 1 .. Len(points) : i = 1 \/ F[i] # F[i - 1]}
  BY PointNumbers DEF OffsetTransitions
<1>2. ASSUME NEW m \in 1 .. Len(points), m \in X PROVE OneStart(m)
  <2>1. \A j \in X : j <= m \/ m < j
    BY <1>1
  <2>2. m <= m
    OBVIOUS
  <2> HIDE DEF X, F
  <2> QED BY <1>2, <2>1, <2>2
<1>3. 0 \in S
  <2> SUFFICES ASSUME 1 <= Len(points) PROVE OneStart(1)
    OBVIOUS
  <2>1. 1 \in 1 .. Len(points) /\ 1 \in X
    BY <1>1
  <2> HIDE DEF OneStart
  <2> QED BY <1>2, <2>1
<1>4. ASSUME NEW m \in Nat, m \in S PROVE m + 1 \in S
  <2> SUFFICES ASSUME (m + 1) + 1 <= Len(points) PROVE OneStart((m + 1) + 1)
    OBVIOUS
  <2>1. m + 1 \in 1 .. Len(points) /\ (m + 1) + 1 \in 1 .. Len(points)
    BY <1>1
  <2>2. CASE (m + 1) + 1 \in X
    BY <1>2, <2>1, <2>2
  <2>3. CASE (m + 1) + 1 \notin X
    <3>1. F[(m + 1) + 1] = F[m + 1]
      <4>1. ((m + 1) + 1) - 1 = m + 1
        OBVIOUS
      <4>2. F[(m + 1) + 1] = F[((m + 1) + 1) - 1]
        <5> HIDE DEF F
        <5> QED BY <1>1, <2>1, <2>3
      <4> QED BY <4>1, <4>2
    <3>2. OneStart(m + 1)
      BY <1>4, <2>1
    <3>3. PICK s \in X : s <= m + 1 /\ F[s] = F[m + 1] /\ \A j \in X : j <= s \/ m + 1 < j
      BY <3>2
    <3>4. \A j \in X : j \in Nat
      BY <1>1
    <3> HIDE DEF X, F
    <3>5. \A j \in X : j <= s \/ (m + 1) + 1 < j
      <4> TAKE j \in X
      <4>1. j <= s \/ m + 1 < j
        BY <3>3
      <4>2. j # (m + 1) + 1 /\ j \in Nat
        BY <2>3, <3>4
      <4> QED BY <4>1, <4>2
    <3>6. s <= (m + 1) + 1
      BY <3>3, <3>4
    <3> QED BY <3>1, <3>3, <3>5, <3>6
  <2> QED BY <2>2, <2>3
<1>5. Nat \subseteq S
  <2> HIDE DEF S
  <2> QED BY <1>3, <1>4, Induction
<1>6. n - 1 \in Nat /\ (n - 1) + 1 = n /\ n <= Len(points)
  BY <1>1
<1>7. n - 1 \in S
  <2> HIDE DEF S
  <2> QED BY <1>5, <1>6
<1>8. OneStart(n)
  <2> HIDE DEF OneStart
  <2> QED BY <1>6, <1>7
<1> QED BY <1>8

\* The points passed at an instant are the first so many.
LEMMA PassedBy ==
    ASSUME NEW points, InTimeOrder(points), points # <<>>, NEW t \in points[1].time .. points[Len(points)].time
    PROVE  \E m \in 1 .. Len(points) :
              /\ \A i \in 1 .. Len(points) : points[i].time <= t <=> i <= m
              /\ Passed(points, t) = m
<1> DEFINE P == {i \in 1 .. Len(points) : points[i].time <= t}
<1>1. /\ Len(points) \in Nat /\ DOMAIN points = 1 .. Len(points)
      /\ \A i \in 1 .. Len(points) : points[i].time \in Int
      /\ \A i, j \in 1 .. Len(points) : i <= j => points[i].time <= points[j].time
  BY PointNumbers
<1>2. 1 \in 1 .. Len(points)
  <2>1. Len(points) # 0
    BY DEF InTimeOrder
  <2> QED BY <1>1, <2>1
<1>3. t \in Int /\ 1 \in P
  BY <1>1, <1>2
<1>4. PICK m \in P : \A x \in P : x <= m
  <2>1. P \in SUBSET (1 .. Len(points)) /\ P # {}
    BY <1>3
  <2> HIDE DEF P
  <2> QED BY <1>1, <2>1, GreatestOf
<1>5. ASSUME NEW i \in 1 .. Len(points) PROVE points[i].time <= t <=> i <= m
  <2>1. m \in 1 .. Len(points) /\ points[m].time <= t
    BY <1>4
  <2>2. i <= m => points[i].time <= t
    BY <1>1, <1>3, <2>1
  <2>3. points[i].time <= t => i <= m
    BY <1>4
  <2> QED BY <2>2, <2>3
<1>6. P = 1 .. m
  <2>1. \A i \in P : i \in 1 .. m
    BY <1>4, <1>5
  <2>2. \A i \in 1 .. m : i \in P
    BY <1>4, <1>5, <1>1
  <2> QED BY <2>1, <2>2
<1>7. m \in 1 .. Len(points)
  BY <1>4
<1>8. Cardinality(1 .. m) = m
  BY <1>7, FS_Interval
<1>9. Passed(points, t) = m
  BY <1>1, <1>6, <1>8 DEF Passed
<1> HIDE DEF P
<1> QED BY <1>5, <1>7, <1>9

\* The offset in force at an instant is that of the last point passed.
LEMMA OffsetOfLast ==
    ASSUME NEW points, InTimeOrder(points), NEW t, NEW m \in 1 .. Len(points),
           \A i \in 1 .. Len(points) : points[i].time <= t <=> i <= m
    PROVE  OffsetThen(points, t) = InForce(points)[m] /\ OffsetThen(points, t) \in Int
<1> DEFINE known == {i \in DOMAIN points : points[i].time <= t /\ points[i].offset # Unknown}
<1>1. Len(points) \in Nat /\ DOMAIN points = 1 .. Len(points)
  BY PointNumbers
<1>2. known = {i \in 1 .. m : points[i].offset # Unknown}
  <2>1. \A i \in known : i \in 1 .. m /\ points[i].offset # Unknown
    BY <1>1
  <2>2. \A i \in 1 .. m : points[i].offset # Unknown => i \in known
    BY <1>1
  <2> QED BY <2>1, <2>2
<1>3. OffsetThen(points, t) =
        IF known = {} THEN 0 ELSE points[CHOOSE i \in known : \A j \in known : j <= i].offset
  BY DEF OffsetThen
<1>4. InForce(points)[m] \in Int
  BY ForceIsLastKnown
<1>5. CASE InForce(points)[m] = 0 /\ \A j \in 1 .. m : points[j].offset = Unknown
  <2>1. known = {}
    BY <1>2, <1>5
  <2> QED BY <1>3, <1>5, <2>1
<1>6. CASE \E c \in 1 .. m :
              /\ points[c].offset # Unknown /\ InForce(points)[m] = points[c].offset
              /\ \A j \in c + 1 .. m : points[j].offset = Unknown
  <2>1. PICK c \in 1 .. m :
              /\ points[c].offset # Unknown /\ InForce(points)[m] = points[c].offset
              /\ \A j \in c + 1 .. m : points[j].offset = Unknown
    BY <1>6
  <2>2. c \in known
    BY <1>2, <2>1
  <2>3. ASSUME NEW j \in known PROVE j <= c
    <3>1. j \in 1 .. m /\ points[j].offset # Unknown
      BY <1>2
    <3> QED BY <2>1, <3>1
  <2>4. ASSUME NEW i \in known, \A j \in known : j <= i PROVE i = c
    <3>1. c <= i /\ i <= c
      BY <2>2, <2>3, <2>4
    <3>2. i \in Nat
      BY <1>2
    <3> QED BY <3>1, <3>2
  <2>5. (CHOOSE i \in known : \A j \in known : j <= i) = c
    <3> HIDE DEF known
    <3> QED BY <2>2, <2>3, <2>4, Zenon
  <2>6. known # {}
    BY <2>2
  <2> HIDE DEF known
  <2> QED BY <1>3, <1>4, <2>1, <2>5, <2>6
<1> QED BY <1>5, <1>6, ForceIsLastKnown

-----------------------------------------------------------------------------
(* Photo placement: the clock that is read.                                *)

\* The instant t falls in the stretch that starts at point i.
NextStart(points, i) == Earliest({j \in OffsetTransitions(points) : i < j})
Spans(points, i, t) ==
    /\ i \in OffsetTransitions(points) /\ t \in Int
    /\ t >= points[i].time
    /\ IF NextStart(points, i) = Unknown THEN t <= points[Len(points)].time
       ELSE t < points[NextStart(points, i)].time

\* The next stretch starts at the first of the later starts, if there are any.
LEMMA NextStretch ==
    ASSUME NEW points, InTimeOrder(points), NEW i \in OffsetTransitions(points)
    PROVE  /\ i \in 1 .. Len(points)
           /\ \A j \in OffsetTransitions(points) : i < j =>
                /\ NextStart(points, i) # Unknown /\ NextStart(points, i) <= j
           /\ NextStart(points, i) # Unknown =>
                NextStart(points, i) \in OffsetTransitions(points) /\ i < NextStart(points, i)
<1> DEFINE later == {j \in OffsetTransitions(points) : i < j}
<1>1. OffsetTransitions(points) \in SUBSET (1 .. Len(points)) /\ Len(points) \in Nat
  BY PointNumbers DEF OffsetTransitions
<1>2. later \in SUBSET Nat
  BY <1>1
<1>3. CASE later = {}
  <2>1. NextStart(points, i) = Unknown
    BY <1>3 DEF NextStart, Earliest
  <2>2. \A j \in OffsetTransitions(points) : ~ (i < j)
    BY <1>3
  <2> QED BY <1>1, <2>1, <2>2
<1>4. CASE later # {}
  <2>1. Earliest(later) \in later /\ \A j \in later : Earliest(later) <= j
    <3> HIDE DEF later
    <3> QED BY <1>2, <1>4, EarliestOf
  <2>2. NextStart(points, i) = Earliest(later)
    BY DEF NextStart
  <2>3. NextStart(points, i) # Unknown
    <3>1. Earliest(later) \in Int
      BY <1>2, <2>1
    <3> QED BY <2>2, <3>1, FiguresAssumption
  <2>4. NextStart(points, i) \in OffsetTransitions(points) /\ i < NextStart(points, i)
    BY <2>1, <2>2
  <2>5. ASSUME NEW j \in OffsetTransitions(points), i < j PROVE NextStart(points, i) <= j
    <3>1. j \in later
      BY <2>5
    <3> QED BY <2>1, <2>2, <3>1
  <2> QED BY <1>1, <2>3, <2>4, <2>5
<1> QED BY <1>3, <1>4

\* The stretches come one after the other.
LEMMA SpansInOrder ==
    ASSUME NEW points, InTimeOrder(points), NEW i, NEW j, NEW t, NEW u,
           Spans(points, i, t), Spans(points, j, u), i < j
    PROVE  t < u
<1>1. i \in OffsetTransitions(points) /\ j \in OffsetTransitions(points) /\ t \in Int /\ u \in Int
  BY DEF Spans
<1>2. /\ i \in 1 .. Len(points) /\ j \in 1 .. Len(points)
      /\ NextStart(points, i) # Unknown /\ NextStart(points, i) <= j
      /\ NextStart(points, i) \in OffsetTransitions(points)
  BY <1>1, NextStretch
<1>3. PICK n \in 1 .. Len(points) : n = NextStart(points, i)
  BY <1>2, NextStretch
<1>4. t < points[n].time /\ n <= j /\ points[j].time <= u
  BY <1>2, <1>3 DEF Spans
<1>5. points[n].time <= points[j].time /\ points[n].time \in Int /\ points[j].time \in Int
  BY <1>2, <1>3, <1>4, PointNumbers
<1> QED BY <1>1, <1>4, <1>5

\* An instant on the track falls in one whose offset is the one then in force.
LEMMA SpanOf ==
    ASSUME NEW points, InTimeOrder(points), points # <<>>, NEW t \in points[1].time .. points[Len(points)].time
    PROVE  /\ OffsetThen(points, t) \in Int
           /\ \E i \in OffsetTransitions(points) :
                 Spans(points, i, t) /\ InForce(points)[i] = OffsetThen(points, t)
<1>1. PICK m \in 1 .. Len(points) : \A i \in 1 .. Len(points) : points[i].time <= t <=> i <= m
  BY PassedBy
<1>2. OffsetThen(points, t) = InForce(points)[m] /\ OffsetThen(points, t) \in Int
  BY <1>1, OffsetOfLast
<1>3. PICK s \in OffsetTransitions(points) :
          /\ s <= m /\ InForce(points)[s] = InForce(points)[m]
          /\ \A j \in OffsetTransitions(points) : j <= s \/ m < j
  BY StretchStart
<1>4. s \in 1 .. Len(points) /\ points[s].time <= t
  <2>1. s \in 1 .. Len(points)
    BY NextStretch
  <2> QED BY <1>1, <1>3, <2>1
<1>5. t \in Int /\ t <= points[Len(points)].time
  <2>1. Len(points) \in Nat /\ Len(points) # 0
    BY DEF InTimeOrder
  <2>2. 1 \in 1 .. Len(points) /\ Len(points) \in 1 .. Len(points)
    BY <2>1
  <2>3. points[1].time \in Int /\ points[Len(points)].time \in Int
    BY <2>2, PointNumbers
  <2> QED BY <2>3
<1>6. CASE NextStart(points, s) = Unknown
  BY <1>2, <1>3, <1>4, <1>5, <1>6, PointNumbers DEF Spans
<1>7. CASE NextStart(points, s) # Unknown
  <2>1. PICK n \in OffsetTransitions(points) : n = NextStart(points, s)
    BY <1>7, NextStretch
  <2>2. n \in 1 .. Len(points) /\ s < n
    BY <1>7, <2>1, NextStretch
  <2>3. m < n
    BY <1>3, <1>4, <2>1, <2>2
  <2>4. ~ (points[n].time <= t)
    BY <1>1, <2>2, <2>3
  <2>5. points[n].time \in Int /\ points[s].time \in Int
    BY <1>4, <2>2, PointNumbers
  <2>6. t < points[n].time /\ t >= points[s].time
    BY <1>4, <1>5, <2>4, <2>5
  <2> QED BY <1>2, <1>3, <1>5, <1>7, <2>1, <2>6 DEF Spans
<1> QED BY <1>2, <1>6, <1>7

\* And the other way round.
LEMMA OffsetInSpan ==
    ASSUME NEW points, InTimeOrder(points), points # <<>>, NEW i, NEW t, Spans(points, i, t)
    PROVE  /\ t \in points[1].time .. points[Len(points)].time
           /\ OffsetThen(points, t) = InForce(points)[i]
<1>1. i \in OffsetTransitions(points) /\ i \in 1 .. Len(points) /\ t \in Int
  BY NextStretch DEF Spans
<1>2. /\ Len(points) \in Nat /\ 1 \in 1 .. Len(points) /\ Len(points) \in 1 .. Len(points)
  <2>1. Len(points) \in Nat /\ Len(points) # 0
    BY DEF InTimeOrder
  <2> QED BY <2>1
<1>3. points[1].time \in Int /\ points[i].time \in Int /\ points[Len(points)].time \in Int
  BY <1>1, <1>2, PointNumbers
<1>4. points[1].time <= t
  <2>1. points[1].time <= points[i].time
    BY <1>1, <1>2, PointNumbers
  <2> QED BY <1>1, <1>3, <2>1 DEF Spans
<1>5. t <= points[Len(points)].time
  <2>1. CASE NextStart(points, i) = Unknown
    BY <2>1 DEF Spans
  <2>2. CASE NextStart(points, i) # Unknown
    <3>1. PICK n \in 1 .. Len(points) : n = NextStart(points, i)
      BY <1>1, <2>2, NextStretch
    <3>2. n <= Len(points)
      BY <1>2
    <3>3. points[n].time <= points[Len(points)].time /\ points[n].time \in Int
      BY <1>2, <3>2, PointNumbers
    <3>4. t < points[n].time
      BY <2>2, <3>1 DEF Spans
    <3> QED BY <1>1, <1>3, <3>3, <3>4
  <2> QED BY <2>1, <2>2
<1>6. t \in points[1].time .. points[Len(points)].time
  BY <1>1, <1>3, <1>4, <1>5
<1>7. PICK s \in OffsetTransitions(points) :
          Spans(points, s, t) /\ InForce(points)[s] = OffsetThen(points, t)
  BY <1>6, SpanOf
<1>8. s = i
  <2>1. s \in Nat /\ i \in Nat
    BY <1>1, NextStretch
  <2>2. ~ (s < i) /\ ~ (i < s)
    <3>1. ~ (t < t)
      BY <1>1
    <3> QED BY <1>7, <3>1, SpansInOrder
  <2> QED BY <2>1, <2>2
<1> QED BY <1>6, <1>7, <1>8

\* clock_read reads the first instant the clock showed this.
LEMMA ReadsFirst ==
    ASSUME NEW points, InTimeOrder(points), points # <<>>,
           NEW t \in points[1].time .. points[Len(points)].time,
           NEW clock, clock = t + OffsetThen(points, t)
    PROVE  LET read == ClockRead(points, clock)
               during == points[1].time .. points[Len(points)].time
           IN /\ read \in during
              /\ read = Earliest({u \in during : u + OffsetThen(points, u) = clock})
<1> DEFINE X == OffsetTransitions(points)
           F == InForce(points)
           during == points[1].time .. points[Len(points)].time
           Reading(i) == Spans(points, i, clock - F[i])
           R == {i \in X : Reading(i)}
           first == Earliest(R)
           c == clock - F[first]
           U == {u \in during : u + OffsetThen(points, u) = clock}
<1>1. /\ X \in SUBSET (1 .. Len(points)) /\ Len(points) \in Nat
      /\ during \in SUBSET Int
  <2>1. Len(points) \in Nat /\ Len(points) # 0
    BY DEF InTimeOrder
  <2>2. 1 \in 1 .. Len(points) /\ Len(points) \in 1 .. Len(points)
    BY <2>1
  <2>3. points[1].time \in Int /\ points[Len(points)].time \in Int
    BY <2>2, PointNumbers
  <2> QED BY <2>1, <2>3 DEF OffsetTransitions, InTimeOrder
<1>2. clock \in Int
  BY <1>1, SpanOf
<1>3. ASSUME NEW i \in X PROVE F[i] \in Int /\ clock - F[i] \in Int
  <2>1. F[i] \in Int
    BY <1>1, <1>3, ForceIsLastKnown
  <2> HIDE DEF F
  <2> QED BY <1>2, <2>1
<1>4. ASSUME NEW u \in U PROVE \E i \in R : clock - F[i] = u
  <2>1. u \in during /\ u + OffsetThen(points, u) = clock
    OBVIOUS
  <2>2. PICK i \in X : Spans(points, i, u) /\ F[i] = OffsetThen(points, u)
    BY <2>1, SpanOf
  <2>3. u \in Int
    BY <1>1, <2>1
  <2>4. clock - F[i] = u
    <3>1. F[i] \in Int
      BY <1>3
    <3> HIDE DEF F
    <3> QED BY <2>1, <2>2, <2>3, <3>1
  <2> HIDE DEF X, F
  <2> QED BY <2>2, <2>4
<1>5. t \in U
  OBVIOUS
<1>6. first \in R /\ \A i \in R : first <= i
  <2>1. R \in SUBSET Nat /\ R # {}
    BY <1>1, <1>4, <1>5
  <2> HIDE DEF R
  <2> QED BY <2>1, EarliestOf
<1>7. c \in U
  <2>1. first \in X /\ Spans(points, first, c)
    BY <1>6
  <2>2. c \in during /\ OffsetThen(points, c) = F[first]
    <3> HIDE DEF c, first, X
    <3> QED BY <2>1, OffsetInSpan
  <2>3. F[first] \in Int
    BY <1>3, <2>1
  <2>4. c + OffsetThen(points, c) = clock
    <3>1. PICK f \in Int : f = F[first]
      BY <2>3
    <3>2. c = clock - f /\ OffsetThen(points, c) = f
      BY <2>2, <3>1
    <3> HIDE DEF c, first, F
    <3> QED BY <1>2, <3>2
  <2> QED BY <2>2, <2>4
<1>8. ASSUME NEW u \in U PROVE c <= u
  <2>1. PICK i \in R : clock - F[i] = u
    BY <1>4
  <2>2. Spans(points, i, u) /\ Spans(points, first, c) /\ first <= i
    BY <1>6, <2>1
  <2>3. first \in Nat /\ i \in Nat
    BY <1>1, <1>6
  <2>4. c \in Int /\ u \in Int
    BY <2>2 DEF Spans
  <2>5. CASE first = i
    BY <2>1, <2>4, <2>5
  <2>6. CASE first < i
    <3>1. c < u
      <4> HIDE DEF c, first, R, F, U
      <4> QED BY <2>2, <2>6, SpansInOrder
    <3> HIDE DEF c, first, U
    <3> QED BY <2>4, <3>1
  <2> HIDE DEF c, first, R, F
  <2> QED BY <2>2, <2>3, <2>5, <2>6
<1>9. Earliest(U) = c
  <2>1. U \in SUBSET Int
    BY <1>1
  <2> HIDE DEF U, c
  <2> QED BY <1>7, <1>8, <2>1, EarliestIs
<1>10. ClockRead(points, clock) = c
  <2> DEFINE Within(i) ==
               /\ clock - F[i] >= points[i].time
               /\ IF Earliest({j \in X : i < j}) = Unknown
                  THEN clock - F[i] <= points[Len(points)].time
                  ELSE clock - F[i] < points[Earliest({j \in X : i < j})].time
  <2>1. ClockRead(points, clock) =
          IF Earliest({i \in X : Within(i)}) = Unknown THEN Unknown
          ELSE clock - F[Earliest({i \in X : Within(i)})]
    BY DEF ClockRead
  <2>2. \A i \in X : Within(i) <=> Reading(i)
    BY <1>3 DEF Spans, NextStart
  <2>3. {i \in X : Within(i)} = R
    <3> HIDE DEF X, Within, Reading
    <3> QED BY <2>2
  <2>4. first # Unknown
    <3>1. first \in Int
      BY <1>1, <1>6
    <3> QED BY <3>1, FiguresAssumption
  <2> HIDE DEF Within, R, X, F
  <2> QED BY <2>1, <2>3, <2>4
<1> QED BY <1>7, <1>9, <1>10

-----------------------------------------------------------------------------
(* Climbs: the walk along the profile, and what ends a climb.              *)

\* Where the walk starts: at the first point, with nothing found.
AtFirst == [low |-> 1, high |-> 1, found |-> {}]

\* A walk of the first n points.
WalkOf(h, w, n) ==
    w = [k \in 1 .. n |-> IF k = 1 THEN AtFirst ELSE Onward(h, w[k - 1], k)]

\* However many points there are, there is a walk: point by point.
LEMMA WalkExists ==
    ASSUME NEW h, NEW n \in Nat
    PROVE  \E w : WalkOf(h, w, n)
<1> DEFINE S == {m \in Nat : \E w : WalkOf(h, w, m)}
<1>1. 0 \in S
  <2> DEFINE w == [k \in 1 .. 0 |-> IF k = 1 THEN AtFirst ELSE Onward(h, AtFirst, k)]
  <2>1. WalkOf(h, w, 0)
    BY DEF WalkOf
  <2> QED BY <2>1
<1>2. ASSUME NEW m \in Nat, m \in S PROVE m + 1 \in S
  <2>1. PICK v : WalkOf(h, v, m)
    BY <1>2
  <2> DEFINE w == [k \in 1 .. m + 1 |->
                      IF k = 1 THEN AtFirst ELSE Onward(h, v[k - 1], k)]
  <2>2. \A k \in 1 .. m : v[k] = w[k]
    BY <2>1 DEF WalkOf
  <2>3. ASSUME NEW k \in 1 .. m + 1, k # 1 PROVE v[k - 1] = w[k - 1]
    <3>1. k - 1 \in 1 .. m
      BY <2>3
    <3> QED BY <2>2, <3>1
  <2>4. WalkOf(h, w, m + 1)
    <3> HIDE DEF AtFirst
    <3> QED BY <2>3, Zenon DEF WalkOf
  <2> QED BY <2>4
<1>3. Nat \subseteq S
  <2> HIDE DEF S
  <2> QED BY <1>1, <1>2, Induction
<1> QED BY <1>3

\* The walk starts at the first point and goes on from point to point.
LEMMA Walks ==
    ASSUME NEW h \in Seq(Int)
    PROVE  /\ h # <<>> => Walk(h)[1] = AtFirst
           /\ \A k \in 2 .. Len(h) : Walk(h)[k] = Onward(h, Walk(h)[k - 1], k)
<1> DEFINE P(w) == w = [k \in DOMAIN h |->
                           IF k = 1 THEN AtFirst ELSE Onward(h, w[k - 1], k)]
<1>0. DOMAIN h = 1 .. Len(h)
  OBVIOUS
<1>1. Walk(h) = CHOOSE w : P(w)
  BY DEF Walk, AtFirst
<1>2. \E w : P(w)
  <2>0. Len(h) \in Nat
    OBVIOUS
  <2>1. PICK w : WalkOf(h, w, Len(h))
    BY <2>0, WalkExists, Zenon
  <2>2. P(w)
    BY <1>0, <2>1, Zenon DEF WalkOf
  <2> QED BY <2>2
<1>3. P(Walk(h))
  <2> HIDE DEF P
  <2> QED BY <1>1, <1>2, Zenon
<1>4. ASSUME NEW k \in 1 .. Len(h)
      PROVE  Walk(h)[k] = IF k = 1 THEN AtFirst ELSE Onward(h, Walk(h)[k - 1], k)
  <2> HIDE DEF AtFirst
  <2>1. k \in DOMAIN h
    BY <1>0
  <2> QED BY <1>3, <2>1, Zenon
<1>5. h # <<>> => 1 \in 1 .. Len(h)
  OBVIOUS
<1> HIDE DEF AtFirst
<1> QED BY <1>4, <1>5

\* What the rule of a dip is made of.
LEMMA RuleNumbers ==
    /\ Rule.maxDip \in Nat /\ Rule.maxDipShare \in 0 .. 100
    /\ Rule.maxDip \in Int /\ Rule.maxDip >= 0
BY FiguresAssumption 

\* No fall, no end.
LEMMA NoFall ==
    ASSUME NEW f \in Int, NEW g \in Int, f <= 0
    PROVE  ~Ends(f, g)
BY RuleNumbers DEF Ends

\* A lesser fall ends no climb that a fall does not end.
LEMMA LessFall ==
    ASSUME NEW f \in Int, NEW g \in Int, NEW e \in Int, e <= f, ~Ends(f, g)
    PROVE  ~Ends(e, g)
<1>1. PICK share \in 0 .. 100 : share = Rule.maxDipShare
  BY RuleNumbers
<1>2. share * g \in Int
  OBVIOUS
<1> QED BY <1>1, <1>2, RuleNumbers DEF Ends

\* A share of a height is no more than the height.
LEMMA ShareAtMost ==
    ASSUME NEW share \in 0 .. 100, NEW d \in Nat
    PROVE  share * d \in Int /\ share * d >= 0 /\ share * d <= 100 * d
OBVIOUS

\* From a lower top of the same climb, the fall ends it no sooner: the fall is
\* less by what the gain is, and only a share of the gain counts.
LEMMA LowerTop ==
    ASSUME NEW f \in Int, NEW g \in Int, NEW d \in Nat, ~Ends(f, g)
    PROVE  ~Ends(f - d, g - d)
<1>1. PICK share \in 0 .. 100 : share = Rule.maxDipShare
  BY RuleNumbers
<1>2. CASE f <= Rule.maxDip
  BY <1>2, RuleNumbers DEF Ends
<1>3. CASE 100 * f <= share * g
  <2>1. share * g \in Int /\ share * d <= 100 * d /\ share * d \in Int
    BY ShareAtMost
  <2>2. share * (g - d) = share * g - share * d
    OBVIOUS
  <2>3. 100 * (f - d) <= share * (g - d)
    BY <1>3, <2>1, <2>2
  <2>4. ~ (100 * (f - d) > share * (g - d))
    BY <2>3, <2>1, <2>2
  <2> QED BY <1>1, <2>4 DEF Ends
<1>4. ~ (f > Rule.maxDip) \/ ~ (100 * f > share * g)
  BY <1>1 DEF Ends
<1>5. share * g \in Int
  OBVIOUS
<1> QED BY <1>2, <1>3, <1>4, <1>5, RuleNumbers

\* A fall deeper than the gain, or after a gain that is itself no more than a
\* dip, ends the climb unless it is a dip.
LEMMA FarFromEnd ==
    ASSUME NEW f \in Int, NEW g \in Nat, g < f \/ g <= Rule.maxDip, ~Ends(f, g)
    PROVE  f <= Rule.maxDip
<1>1. PICK share \in 0 .. 100 : share = Rule.maxDipShare
  BY RuleNumbers
<1>2. share * g \in Int /\ share * g <= 100 * g
  BY ShareAtMost
<1> QED BY <1>1, <1>2, RuleNumbers DEF Ends

-----------------------------------------------------------------------------
(* Climbs: no rise is overlooked up to a point.                            *)

\* From low to k, nothing is below the low point or above the high one, and no
\* fall would end the climb.
Climbing(h, low, high, k) ==
    /\ \A j \in low .. k : h[low] <= h[j] /\ h[j] <= h[high]
    /\ \A j \in low .. k : \A l \in low .. j : ~Ends(h[l] - h[j], h[l] - h[low])

\* A rise from i may be under way at k.
NoFallFrom(h, i, k) ==
    /\ \A m \in i .. k : h[i] <= h[m]
    /\ \A l, m \in i .. k : l < m => h[l] - h[m] <= Rule.maxDip

\* Rises, of the heights h.
RiseIn(h, i, j) ==
    /\ i < j /\ h[j] - h[i] > Rule.maxDip
    /\ \A m \in i .. j : h[i] <= h[m] /\ h[m] <= h[j]
    /\ \A l, m \in i .. j : l < m => h[l] - h[m] <= Rule.maxDip

\* What NoRiseOverlooked asks of a stretch for a rise from i to j.
Holds(h, low, high, i, j) ==
    \/ low <= j /\ i <= high /\ h[high] - h[low] >= h[j] - h[i]
    \/ high < i /\ ~Ends(h[j] - h[i], h[high] - h[low])

\* The stretches found lie before low, apart, each a climb.
FoundApart(h, found, low) ==
    /\ \A s \in found : /\ s[1] \in Nat \ {0} /\ s[2] \in Nat /\ s[1] <= s[2] /\ s[2] < low
                        /\ Climbing(h, s[1], s[2], s[2])
    /\ \A r, s \in found : r # s => r[2] < s[1] \/ s[2] < r[1]

\* What holds of the walk at point k: the climb under way is one, a rise that
\* began before it and may be under way is no lower than it began (so the climb
\* will gain as much), and no rise up to k is overlooked.
NoneOverlooked(h, found, low, high, k) ==
    /\ low \in 1 .. k /\ high \in low .. k
    /\ Climbing(h, low, high, k)
    /\ FoundApart(h, found, low)
    /\ \A i \in 1 .. low - 1 : NoFallFrom(h, i, k) => h[low] <= h[i]
    /\ \A i, j \in 1 .. k : RiseIn(h, i, j) =>
          \/ \E s \in found : Holds(h, s[1], s[2], i, j)
          \/ Holds(h, low, high, i, j)

\* A rise under way at a point was under way at the one before.
LEMMA NoFallBefore ==
    ASSUME NEW h, NEW i \in Nat, NEW k \in Nat, NoFallFrom(h, i, k + 1)
    PROVE  NoFallFrom(h, i, k)
<1>1. \A m \in i .. k : m \in i .. k + 1
  OBVIOUS
<1> QED BY <1>1 DEF NoFallFrom

\* A rise is under way until it ends.
LEMMA NoFallInRise ==
    ASSUME NEW h, NEW i, NEW j, RiseIn(h, i, j)
    PROVE  NoFallFrom(h, i, j)
BY DEF RiseIn, NoFallFrom

\* A higher point moves the top on, and holds every rise that ends there.
LEMMA TopMovesOn ==
    ASSUME NEW k \in Nat, NEW h, \A i \in 1 .. k + 1 : h[i] \in Int,
           NEW found, NEW low, NEW high, NoneOverlooked(h, found, low, high, k),
           h[k + 1] > h[high]
    PROVE  NoneOverlooked(h, found, low, k + 1, k + 1)
<1>1. /\ low \in 1 .. k /\ high \in low .. k /\ \A i \in 1 .. k + 1 : h[i] \in Int
      /\ low \in Int /\ high \in Int
  BY DEF NoneOverlooked
<1>2. Climbing(h, low, k + 1, k + 1)
  <2>1. \A j \in low .. k : h[low] <= h[j] /\ h[j] <= h[high]
    BY DEF NoneOverlooked, Climbing
  <2>2. \A j \in low .. k + 1 : h[low] <= h[j] /\ h[j] <= h[k + 1]
    BY <1>1, <2>1
  <2>3. ASSUME NEW j \in low .. k + 1, NEW l \in low .. j PROVE ~Ends(h[l] - h[j], h[l] - h[low])
    <3>1. CASE j = k + 1
      <4>1. h[l] - h[j] \in Int /\ h[l] - h[low] \in Int /\ h[l] - h[j] <= 0
        BY <1>1, <2>2, <3>1
      <4> QED BY <4>1, NoFall
    <3>2. CASE j # k + 1
      BY <1>1, <3>2 DEF NoneOverlooked, Climbing
    <3> QED BY <3>1, <3>2
  <2> QED BY <2>2, <2>3 DEF Climbing
<1>3. ASSUME NEW i \in 1 .. low - 1, NoFallFrom(h, i, k + 1) PROVE h[low] <= h[i]
  BY <1>3, NoFallBefore DEF NoneOverlooked
<1>4. ASSUME NEW i \in 1 .. k + 1, NEW j \in 1 .. k + 1, RiseIn(h, i, j)
      PROVE  \/ \E s \in found : Holds(h, s[1], s[2], i, j)
             \/ Holds(h, low, k + 1, i, j)
  <2>1. CASE j = k + 1
    <3>1. h[low] <= h[i]
      <4>1. CASE i < low
        <5>1. i \in 1 .. low - 1
          BY <1>1, <4>1
        <5> QED BY <1>3, <1>4, <2>1, <5>1, NoFallInRise
      <4>2. CASE i >= low
        BY <1>1, <1>2, <4>2 DEF Climbing
      <4> QED BY <1>1, <4>1, <4>2
    <3> QED BY <1>1, <2>1, <3>1 DEF Holds
  <2>2. CASE j # k + 1
    <3>1. i \in 1 .. k /\ j \in 1 .. k /\ i < j
      BY <1>4, <2>2 DEF RiseIn
    <3>2. CASE Holds(h, low, high, i, j)
      <4>1. h[high] - h[low] >= h[j] - h[i] => h[k + 1] - h[low] >= h[j] - h[i]
        BY <1>1, <3>1
      <4>2. CASE high < i
        <5>1. h[low] <= h[i] /\ h[j] <= h[k + 1]
          BY <1>1, <1>2, <3>1, <4>2 DEF Climbing
        <5> QED BY <1>1, <3>1, <4>2, <5>1 DEF Holds
      <4>3. CASE ~(high < i)
        BY <1>1, <3>1, <3>2, <4>1, <4>3 DEF Holds
      <4> QED BY <4>2, <4>3
    <3> QED BY <1>4, <3>1, <3>2 DEF NoneOverlooked
  <2> QED BY <2>1, <2>2
<1>5. low \in 1 .. k + 1 /\ k + 1 \in low .. k + 1 /\ FoundApart(h, found, low)
  BY <1>1 DEF NoneOverlooked
<1> QED BY <1>2, <1>3, <1>4, <1>5 DEF NoneOverlooked

\* Where the walk starts, and starts anew.
LEMMA StartsAnew ==
    ASSUME NEW k \in Nat, NEW h, h[k] \in Int
    PROVE  Climbing(h, k, k, k)
<1>1. \A j \in k .. k : j = k
  OBVIOUS
<1>2. \A j \in k .. k : \A l \in k .. j : l = k /\ j = k
  OBVIOUS
<1>3. h[k] - h[k] \in Int /\ h[k] - h[k] <= 0 /\ h[k] <= h[k]
  OBVIOUS
<1>4. ~Ends(h[k] - h[k], h[k] - h[k])
  BY <1>3, NoFall
<1> QED BY <1>1, <1>2, <1>3, <1>4 DEF Climbing

\* A fall that ends the climb ends every rise under way.
LEMMA ClimbEnds ==
    ASSUME NEW k \in Nat, NEW h, \A i \in 1 .. k + 1 : h[i] \in Int,
           NEW found, NEW low, NEW high, NoneOverlooked(h, found, low, high, k),
           ~(h[k + 1] > h[high]),
           Ends(h[high] - h[k + 1], h[high] - h[low])
    PROVE  NoneOverlooked(h, found \cup {<<low, high>>}, k + 1, k + 1, k + 1)
<1>1. /\ low \in 1 .. k /\ high \in low .. k /\ \A i \in 1 .. k + 1 : h[i] \in Int
      /\ low \in Int /\ high \in Int
  BY DEF NoneOverlooked
<1>2. h[high] - h[k + 1] > Rule.maxDip
  BY DEF Ends
<1>3. ASSUME NEW i \in 1 .. k, NoFallFrom(h, i, k + 1) PROVE FALSE
  <2>1. CASE i <= high
    BY <1>1, <1>2, <1>3, <2>1, RuleNumbers DEF NoFallFrom
  <2>2. CASE ~(i <= high)
    <3>1. ~Ends(h[high] - h[i], h[high] - h[low])
      BY <1>1, <2>2 DEF NoneOverlooked, Climbing
    <3>2. h[high] - h[k + 1] <= h[high] - h[i]
      BY <1>1, <1>3 DEF NoFallFrom
    <3>3. /\ h[high] - h[i] \in Int /\ h[high] - h[low] \in Int /\ h[high] - h[k + 1] \in Int
      BY <1>1
    <3> QED BY <3>1, <3>2, <3>3, LessFall
  <2> QED BY <2>1, <2>2
<1>4. ASSUME NEW i \in 1 .. k + 1, NEW j \in 1 .. k + 1, RiseIn(h, i, j)
      PROVE  \E s \in found \cup {<<low, high>>} : Holds(h, s[1], s[2], i, j)
  <2>1. i \in 1 .. k /\ (j = k + 1 => FALSE)
    <3>1. i < j
      BY <1>4 DEF RiseIn
    <3> QED BY <1>3, <1>4, <3>1, NoFallInRise
  <2>2. j \in 1 .. k
    BY <2>1
  <2>3. \/ \E s \in found : Holds(h, s[1], s[2], i, j)
        \/ Holds(h, low, high, i, j)
    BY <1>4, <2>1, <2>2 DEF NoneOverlooked
  <2>4. <<low, high>>[1] = low /\ <<low, high>>[2] = high
    OBVIOUS
  <2> QED BY <2>3, <2>4
<1>5. FoundApart(h, found \cup {<<low, high>>}, k + 1)
  <2>1. ASSUME NEW s \in found
        PROVE  /\ s[1] \in Nat \ {0} /\ s[2] \in Nat /\ s[1] <= s[2] /\ s[2] < low
               /\ Climbing(h, s[1], s[2], s[2])
    BY DEF NoneOverlooked, FoundApart
  <2>2. Climbing(h, low, high, high)
    <3>1. \A j \in low .. high : j \in low .. k
      BY <1>1
    <3> QED BY <3>1 DEF NoneOverlooked, Climbing
  <2>3. \A r, s \in found : r # s => r[2] < s[1] \/ s[2] < r[1]
    BY DEF NoneOverlooked, FoundApart
  <2>4. <<low, high>>[1] = low /\ <<low, high>>[2] = high
    OBVIOUS
  <2>5. ASSUME NEW s \in found \cup {<<low, high>>}
        PROVE  /\ s[1] \in Nat \ {0} /\ s[2] \in Nat /\ s[1] <= s[2] /\ s[2] < k + 1
               /\ Climbing(h, s[1], s[2], s[2])
    <3>1. CASE s \in found
      BY <1>1, <2>1, <3>1
    <3>2. CASE s = <<low, high>>
      BY <1>1, <2>2, <2>4, <3>2
    <3> QED BY <3>1, <3>2
  <2>6. ASSUME NEW r \in found \cup {<<low, high>>}, NEW s \in found \cup {<<low, high>>}, r # s
        PROVE  r[2] < s[1] \/ s[2] < r[1]
    BY <1>1, <2>1, <2>3, <2>4, <2>6
  <2> QED BY <2>5, <2>6 DEF FoundApart
<1>6. Climbing(h, k + 1, k + 1, k + 1)
  BY <1>1, StartsAnew
<1>7. k + 1 \in 1 .. k + 1 /\ k + 1 \in k + 1 .. k + 1
  OBVIOUS
<1>8. \A i \in 1 .. (k + 1) - 1 : NoFallFrom(h, i, k + 1) => h[k + 1] <= h[i]
  BY <1>3
<1> QED BY <1>4, <1>5, <1>6, <1>7, <1>8 DEF NoneOverlooked

\* A point at which no climb worth the name is lost, since the fall there is
\* deeper than the gain or there is no gain, moves the low point on.
LEMMA LowMovesOn ==
    ASSUME NEW k \in Nat, NEW h, \A i \in 1 .. k + 1 : h[i] \in Int,
           NEW found, NEW low, NEW high, NoneOverlooked(h, found, low, high, k),
           ~(h[k + 1] > h[high]),
           ~Ends(h[high] - h[k + 1], h[high] - h[low]),
           high = low \/ h[k + 1] < h[low]
    PROVE  NoneOverlooked(h, found, k + 1, k + 1, k + 1)
<1>1. /\ low \in 1 .. k /\ high \in low .. k /\ \A i \in 1 .. k + 1 : h[i] \in Int
      /\ low \in Int /\ high \in Int
  BY DEF NoneOverlooked
<1>2. h[k + 1] <= h[low]
  BY <1>1
<1>3. \A j \in low .. k : h[low] <= h[j]
  BY <1>1 DEF NoneOverlooked, Climbing
<1>4. ASSUME NEW i \in 1 .. k, NoFallFrom(h, i, k + 1) PROVE h[k + 1] <= h[i]
  <2>1. CASE i < low
    <3>1. i \in 1 .. low - 1 /\ NoFallFrom(h, i, k)
      BY <1>1, <1>4, <2>1, NoFallBefore
    <3>2. h[low] <= h[i]
      BY <3>1 DEF NoneOverlooked
    <3> QED BY <1>1, <1>2, <3>2
  <2>2. CASE ~(i < low)
    BY <1>1, <1>2, <1>3, <2>2
  <2> QED BY <2>1, <2>2
<1>5. ASSUME NEW i \in 1 .. k + 1, NEW j \in 1 .. k + 1, RiseIn(h, i, j)
      PROVE  \E s \in found : Holds(h, s[1], s[2], i, j)
  <2>1. i < j /\ h[j] - h[i] > Rule.maxDip
    BY <1>5 DEF RiseIn
  <2>2. i \in 1 .. k /\ j # k + 1
    <3>1. i \in 1 .. k
      BY <2>1
    <3>2. ASSUME j = k + 1 PROVE FALSE
      <4>1. h[k + 1] <= h[i]
        BY <1>4, <1>5, <3>1, <3>2, NoFallInRise
      <4> QED BY <1>1, <2>1, <3>1, <3>2, <4>1, RuleNumbers
    <3> QED BY <3>1, <3>2
  <2>3. j \in 1 .. k
    BY <2>2
  <2>4. ASSUME Holds(h, low, high, i, j) PROVE FALSE
    <3>1. PICK f \in Int : f = h[j] - h[i]
      BY <1>1
    <3>2. PICK g \in Nat : g = h[high] - h[low]
      BY <1>1, <1>3
    <3>3. g <= Rule.maxDip
      <4>1. CASE high = low
        BY <1>1, <3>2, <4>1, RuleNumbers
      <4>2. CASE h[k + 1] < h[low]
        <5>1. h[high] - h[k + 1] \in Int /\ h[high] - h[k + 1] > g
          BY <1>1, <3>2, <4>2
        <5>2. h[high] - h[k + 1] <= Rule.maxDip
          BY <3>2, <5>1, FarFromEnd
        <5> QED BY <5>1, <5>2, RuleNumbers
      <4> QED BY <4>1, <4>2
    <3>4. f > Rule.maxDip
      BY <2>1, <3>1
    <3>5. ~Ends(f, g)
      BY <2>4, <3>1, <3>2, <3>3, <3>4, RuleNumbers DEF Holds
    <3> QED BY <3>3, <3>4, <3>5, FarFromEnd, RuleNumbers
  <2> QED BY <1>5, <2>2, <2>3, <2>4 DEF NoneOverlooked
<1>6. Climbing(h, k + 1, k + 1, k + 1)
  BY <1>1, StartsAnew
<1>7. k + 1 \in 1 .. k + 1 /\ k + 1 \in k + 1 .. k + 1
  OBVIOUS
<1>8. \A i \in 1 .. (k + 1) - 1 : NoFallFrom(h, i, k + 1) => h[k + 1] <= h[i]
  BY <1>4
<1>9. FoundApart(h, found, k + 1)
  <2>1. \A s \in found : s[2] < k + 1
    BY <1>1 DEF NoneOverlooked, FoundApart
  <2> QED BY <2>1 DEF NoneOverlooked, FoundApart
<1> QED BY <1>5, <1>6, <1>7, <1>8, <1>9 DEF NoneOverlooked

\* A dip is part of the climb: a rise that ends in it gains less than the climb
\* or than would end it.
LEMMA ClimbGoesOn ==
    ASSUME NEW k \in Nat, NEW h, \A i \in 1 .. k + 1 : h[i] \in Int,
           NEW found, NEW low, NEW high, NoneOverlooked(h, found, low, high, k),
           ~(h[k + 1] > h[high]),
           ~Ends(h[high] - h[k + 1], h[high] - h[low]),
           ~(h[k + 1] < h[low])
    PROVE  NoneOverlooked(h, found, low, high, k + 1)
<1>1. /\ low \in 1 .. k /\ high \in low .. k /\ \A i \in 1 .. k + 1 : h[i] \in Int
      /\ low \in Int /\ high \in Int
  BY DEF NoneOverlooked
<1>2. \A j \in low .. k + 1 : h[low] <= h[j] /\ h[j] <= h[high]
  <2>1. \A j \in low .. k : h[low] <= h[j] /\ h[j] <= h[high]
    BY DEF NoneOverlooked, Climbing
  <2> QED BY <1>1, <2>1
<1>3. ASSUME NEW j \in low .. k + 1, NEW l \in low .. j PROVE ~Ends(h[l] - h[j], h[l] - h[low])
  <2>1. CASE j = k + 1
    <3>1. PICK f \in Int : f = h[high] - h[k + 1]
      BY <1>1
    <3>2. PICK g \in Int : g = h[high] - h[low]
      BY <1>1
    <3>3. l \in low .. k + 1
      BY <1>1
    <3>4. PICK d \in Nat : d = h[high] - h[l]
      BY <1>1, <1>2, <3>3
    <3>5. ~Ends(f - d, g - d)
      BY <3>1, <3>2, LowerTop
    <3>6. h[l] - h[j] = f - d /\ h[l] - h[low] = g - d
      BY <1>1, <2>1, <3>1, <3>2, <3>3, <3>4
    <3> QED BY <3>5, <3>6
  <2>2. CASE j # k + 1
    BY <1>1, <2>2 DEF NoneOverlooked, Climbing
  <2> QED BY <2>1, <2>2
<1>4. ASSUME NEW i \in 1 .. low - 1, NoFallFrom(h, i, k + 1) PROVE h[low] <= h[i]
  BY <1>4, NoFallBefore DEF NoneOverlooked
<1>5. ASSUME NEW i \in 1 .. k + 1, NEW j \in 1 .. k + 1, RiseIn(h, i, j)
      PROVE  \/ \E s \in found : Holds(h, s[1], s[2], i, j)
             \/ Holds(h, low, high, i, j)
  <2>1. i < j
    BY <1>5 DEF RiseIn
  <2>2. CASE j = k + 1
    <3>1. h[low] <= h[i] /\ h[j] <= h[high]
      <4>1. CASE i < low
        <5>1. i \in 1 .. low - 1
          BY <1>1, <4>1
        <5> QED BY <1>2, <1>4, <1>5, <2>2, <5>1, <1>1, NoFallInRise
      <4>2. CASE i >= low
        BY <1>1, <1>2, <2>2, <4>2
      <4> QED BY <1>1, <4>1, <4>2
    <3>2. CASE i <= high
      BY <1>1, <2>2, <3>1, <3>2 DEF Holds
    <3>3. CASE ~(i <= high)
      <4>1. ~Ends(h[high] - h[i], h[high] - h[low])
        BY <1>1, <2>1, <2>2, <3>3 DEF NoneOverlooked, Climbing
      <4>2. /\ h[high] - h[i] \in Int /\ h[high] - h[low] \in Int /\ h[j] - h[i] \in Int
            /\ h[j] - h[i] <= h[high] - h[i]
        BY <1>1, <3>1
      <4>3. ~Ends(h[j] - h[i], h[high] - h[low])
        BY <4>1, <4>2, LessFall
      <4> QED BY <1>1, <3>3, <4>3 DEF Holds
    <3> QED BY <3>2, <3>3
  <2>3. CASE j # k + 1
    BY <1>5, <2>1, <2>3 DEF NoneOverlooked
  <2> QED BY <2>2, <2>3
<1>6. low \in 1 .. k + 1 /\ high \in low .. k + 1 /\ FoundApart(h, found, low)
  BY <1>1 DEF NoneOverlooked
<1>7. Climbing(h, low, high, k + 1)
  BY <1>2, <1>3 DEF Climbing
<1> QED BY <1>4, <1>5, <1>6, <1>7 DEF NoneOverlooked

\* The walk's state at k overlooks no rise.
WalkOverlooksNone(h, w, k) ==
    /\ w = [low |-> w.low, high |-> w.high, found |-> w.found]
    /\ NoneOverlooked(h, w.found, w.low, w.high, k)

\* The same, of a record spelt out.
LEMMA RecordOverlooksNone ==
    ASSUME NEW h, NEW found, NEW low, NEW high, NEW k, NoneOverlooked(h, found, low, high, k)
    PROVE  WalkOverlooksNone(h, [low |-> low, high |-> high, found |-> found], k)
BY DEF WalkOverlooksNone

\* The next point leaves none overlooked.
LEMMA OnwardOverlooksNone ==
    ASSUME NEW k \in Nat, NEW h, \A i \in 1 .. k + 1 : h[i] \in Int,
           NEW w, WalkOverlooksNone(h, w, k)
    PROVE  WalkOverlooksNone(h, Onward(h, w, k + 1), k + 1)
<1> DEFINE v == Onward(h, w, k + 1)
<1>1. PICK low, high, found : w = [low |-> low, high |-> high, found |-> found]
  BY DEF WalkOverlooksNone
<1>2. w.low = low /\ w.high = high /\ w.found = found
  BY <1>1
<1>3. NoneOverlooked(h, found, low, high, k)
  BY <1>2 DEF WalkOverlooksNone
<1>4. CASE h[k + 1] > h[high]
  <2>1. v = [low |-> low, high |-> k + 1, found |-> found]
    BY <1>1, <1>2, <1>4 DEF Onward
  <2>2. NoneOverlooked(h, found, low, k + 1, k + 1)
    BY <1>3, <1>4, TopMovesOn
  <2>3. WalkOverlooksNone(h, [low |-> low, high |-> k + 1, found |-> found], k + 1)
    BY <2>2, RecordOverlooksNone, Zenon
  <2> QED BY <2>1, <2>3, Zenon
<1>5. CASE ~(h[k + 1] > h[high]) /\ Ends(h[high] - h[k + 1], h[high] - h[low])
  <2>1. v = [low |-> k + 1, high |-> k + 1, found |-> found \cup {<<low, high>>}]
    BY <1>1, <1>2, <1>5 DEF Onward
  <2>2. NoneOverlooked(h, found \cup {<<low, high>>}, k + 1, k + 1, k + 1)
    BY <1>3, <1>5, ClimbEnds
  <2>3. WalkOverlooksNone(h, [low |-> k + 1, high |-> k + 1, found |-> found \cup {<<low, high>>}], k + 1)
    BY <2>2, RecordOverlooksNone, Zenon
  <2> QED BY <2>1, <2>3, Zenon
<1>6. CASE /\ ~(h[k + 1] > h[high]) /\ ~Ends(h[high] - h[k + 1], h[high] - h[low])
           /\ high = low \/ h[k + 1] < h[low]
  <2>1. v = [low |-> k + 1, high |-> k + 1, found |-> found]
    BY <1>1, <1>2, <1>6 DEF Onward, StartsLower
  <2>2. NoneOverlooked(h, found, k + 1, k + 1, k + 1)
    BY <1>3, <1>6, LowMovesOn
  <2>3. WalkOverlooksNone(h, [low |-> k + 1, high |-> k + 1, found |-> found], k + 1)
    BY <2>2, RecordOverlooksNone, Zenon
  <2> QED BY <2>1, <2>3, Zenon
<1>7. CASE /\ ~(h[k + 1] > h[high]) /\ ~Ends(h[high] - h[k + 1], h[high] - h[low])
           /\ ~(high = low \/ h[k + 1] < h[low])
  <2>1. v = w
    BY <1>1, <1>2, <1>7 DEF Onward, StartsLower
  <2>2. NoneOverlooked(h, found, low, high, k + 1)
    BY <1>3, <1>7, ClimbGoesOn
  <2> QED BY <1>1, <1>2, <2>1, <2>2 DEF WalkOverlooksNone
<1> QED BY <1>4, <1>5, <1>6, <1>7

\* So the walk overlooks none at its end, by induction on the points.
LEMMA NeverOverlooks ==
    ASSUME NEW h \in Seq(Int), h # <<>>
    PROVE  WalkOverlooksNone(h, Walk(h)[Len(h)], Len(h))
<1> DEFINE S == {n \in Nat : n + 1 <= Len(h) => WalkOverlooksNone(h, Walk(h)[n + 1], n + 1)}
<1>1. Len(h) \in Nat \ {0} /\ \A i \in 1 .. Len(h) : h[i] \in Int
  OBVIOUS
<1>2. 0 \in S
  <2>1. Climbing(h, 1, 1, 1)
    BY <1>1, StartsAnew
  <2>2. \A i, j \in 1 .. 1 : ~RiseIn(h, i, j)
    BY DEF RiseIn
  <2>3. NoneOverlooked(h, {}, 1, 1, 1)
    BY <2>1, <2>2 DEF NoneOverlooked, FoundApart
  <2>4. WalkOverlooksNone(h, AtFirst, 1)
    BY <2>3 DEF WalkOverlooksNone, AtFirst
  <2>5. WalkOverlooksNone(h, Walk(h)[1], 1)
    BY <2>4, Walks
  <2> QED BY <2>5
<1>3. ASSUME NEW n \in Nat, n \in S PROVE n + 1 \in S
  <2> SUFFICES ASSUME n + 2 <= Len(h) PROVE WalkOverlooksNone(h, Walk(h)[n + 2], n + 2)
    OBVIOUS
  <2>1. PICK k \in Nat : k = n + 1
    OBVIOUS
  <2>2. WalkOverlooksNone(h, Walk(h)[k], k)
    BY <1>1, <1>3, <2>1
  <2>3. \A i \in 1 .. k + 1 : h[i] \in Int
    BY <1>1, <2>1
  <2>4. Walk(h)[k + 1] = Onward(h, Walk(h)[k], k + 1)
    <3>1. k + 1 \in 2 .. Len(h) /\ (k + 1) - 1 = k
      BY <1>1, <2>1
    <3>2. Walk(h)[k + 1] = Onward(h, Walk(h)[(k + 1) - 1], k + 1)
      BY <3>1, Walks
    <3> QED BY <3>1, <3>2
  <2>5. WalkOverlooksNone(h, Walk(h)[k + 1], k + 1)
    BY <2>2, <2>3, <2>4, OnwardOverlooksNone
  <2>6. k + 1 = n + 2
    BY <2>1
  <2> QED BY <2>5, <2>6
<1>4. Nat \subseteq S
  <2> HIDE DEF S
  <2> QED BY <1>2, <1>3, Induction
<1>5. Len(h) - 1 \in Nat /\ (Len(h) - 1) + 1 = Len(h)
  BY <1>1
<1>6. Len(h) - 1 \in S
  BY <1>4, <1>5
<1> QED BY <1>1, <1>5, <1>6

\* The stretches of a walk that overlooked none.
LEMMA StretchesKeepAll ==
    ASSUME heights \in Seq(Int)
    PROVE  NoRiseOverlooked
<1> DEFINE stretches == Stretches(heights)
<1>1. DOMAIN heights = 1 .. Len(heights) /\ Len(heights) \in Nat
  OBVIOUS
<1>2. CASE heights = <<>>
  <2>1. stretches = {}
    BY <1>2 DEF Stretches
  <2>2. DOMAIN heights = {}
    BY <1>2
  <2> HIDE DEF stretches
  <2> QED BY <2>1, <2>2 DEF stretches, NoRiseOverlooked
<1>3. CASE heights # <<>>
  <2>1. WalkOverlooksNone(heights, Walk(heights)[Len(heights)], Len(heights))
    BY <1>3, NeverOverlooks
  <2>2. PICK low, high, found : Walk(heights)[Len(heights)] = [low |-> low, high |-> high, found |-> found]
    BY <2>1 DEF WalkOverlooksNone
  <2>3. NoneOverlooked(heights, found, low, high, Len(heights))
    BY <2>1, <2>2 DEF WalkOverlooksNone
  <2>4. stretches = found \cup {<<low, high>>}
    BY <1>3, <2>2 DEF Stretches
  <2>5. <<low, high>>[1] = low /\ <<low, high>>[2] = high
    OBVIOUS
  <2>6. low \in 1 .. Len(heights) /\ high \in low .. Len(heights)
    BY <2>3 DEF NoneOverlooked
  <2>7. ASSUME NEW s \in found
        PROVE  /\ s[1] \in Nat \ {0} /\ s[2] \in Nat /\ s[1] <= s[2] /\ s[2] < low
               /\ Climbing(heights, s[1], s[2], s[2])
    BY <2>3 DEF NoneOverlooked, FoundApart
  <2>8. Climbing(heights, low, high, high)
    <3>1. \A k \in low .. high : k \in low .. Len(heights)
      BY <1>1, <2>6
    <3> QED BY <2>3, <3>1 DEF NoneOverlooked, Climbing
  <2>9. \A s \in stretches : Climbing(heights, s[1], s[2], s[2])
    BY <2>4, <2>5, <2>7, <2>8
  <2>10. ASSUME NEW r \in stretches, NEW s \in stretches, r # s
         PROVE  r[2] < s[1] \/ s[2] < r[1]
    <3>1. \A x, y \in found : x # y => x[2] < y[1] \/ y[2] < x[1]
      BY <2>3 DEF NoneOverlooked, FoundApart
    <3> HIDE DEF stretches
    <3> QED BY <2>4, <2>5, <2>7, <2>10, <3>1
  <2>11. ASSUME NEW i \in DOMAIN heights, NEW j \in DOMAIN heights, Rises(i, j)
         PROVE  \E s \in stretches : Holds(heights, s[1], s[2], i, j)
    <3>1. RiseIn(heights, i, j)
      BY <2>11 DEF Rises, RiseIn
    <3>2. \/ \E s \in found : Holds(heights, s[1], s[2], i, j)
          \/ Holds(heights, low, high, i, j)
      BY <1>1, <2>3, <3>1 DEF NoneOverlooked
    <3> HIDE DEF stretches
    <3> QED BY <2>4, <2>5, <3>2
  <2>12. \A i, j \in DOMAIN heights : Rises(i, j) => \E s \in stretches :
           \/ s[1] <= j /\ i <= s[2] /\ heights[s[2]] - heights[s[1]] >= heights[j] - heights[i]
           \/ s[2] < i /\ ~Ends(heights[j] - heights[i], heights[s[2]] - heights[s[1]])
    <3> HIDE DEF stretches
    <3> QED BY <2>11 DEF Holds
  <2> HIDE DEF stretches
  <2>13. \A s \in stretches : \A k \in s[1] .. s[2] :
              /\ heights[s[1]] <= heights[k] /\ heights[k] <= heights[s[2]]
              /\ \A l \in s[1] .. k : ~Ends(heights[l] - heights[k], heights[l] - heights[s[1]])
    BY <2>9 DEF Climbing
  <2> QED BY <2>10, <2>12, <2>13 DEF NoRiseOverlooked, stretches
<1> QED BY <1>2, <1>3

\* What a photo taken on a track in time order is placed by.
LEMMA PlacedByClock ==
    ASSUME NEW points, InTimeOrder(points), Len(points) > 1, NEW photo, NEW zone,
           NEW at \in points[1].time .. points[Len(points)].time,
           photo.gps = FALSE, CaptureInstant(photo, points, zone) = at
    PROVE  LET placed == ResolvePlacement(photo, points, zone)
           IN /\ placed.source = "interpolated"
              /\ points[placed.between[1]].time <= at
              /\ at <= points[placed.between[2]].time
<1>1. /\ Len(points) \in Nat /\ points # <<>>
      /\ \A i \in 1 .. Len(points) : points[i].time \in Int
  BY PointNumbers DEF InTimeOrder
<1>2. at \in Int /\ points[1].time <= at /\ at <= points[Len(points)].time
  <2>1. 1 \in 1 .. Len(points) /\ Len(points) \in 1 .. Len(points)
    BY <1>1
  <2>2. points[1].time \in Int /\ points[Len(points)].time \in Int
    BY <1>1, <2>1
  <2> QED BY <2>2
<1>3. OnTrack(points, at) /\ at # Unknown
  <2>1. Len(points) >= 2
    BY <1>1
  <2> QED BY <1>2, <2>1, FiguresAssumption DEF OnTrack
<1>4. ResolvePlacement(photo, points, zone) = [source |-> "interpolated", between |-> Interpolate(points, at)]
  BY <1>3 DEF ResolvePlacement
<1>5. PICK m \in 1 .. Len(points) :
          /\ \A i \in 1 .. Len(points) : points[i].time <= at <=> i <= m
          /\ Passed(points, at) = m
  <2>1. at \in points[1].time .. points[Len(points)].time
    OBVIOUS
  <2> QED BY <1>1, <2>1, PassedBy, Zenon
<1>6. CASE m = Len(points)
  <2>1. Interpolate(points, at) = <<m, m>>
    BY <1>5, <1>6 DEF Interpolate
  <2>2. points[m].time <= at /\ at <= points[m].time
    BY <1>2, <1>5, <1>6
  <2> QED BY <1>4, <2>1, <2>2
<1>7. CASE m # Len(points)
  <2>1. Interpolate(points, at) = <<m, m + 1>>
    BY <1>5, <1>7 DEF Interpolate
  <2>2. m + 1 \in 1 .. Len(points) /\ ~ (m + 1 <= m) /\ m <= m
    BY <1>1, <1>7
  <2>3. points[m].time <= at
    BY <1>5, <2>2
  <2>4. ~ (points[m + 1].time <= at)
    BY <1>5, <2>2
  <2>5. at <= points[m + 1].time
    BY <1>1, <1>2, <2>2, <2>4
  <2> QED BY <1>4, <2>1, <2>3, <2>5
<1> QED BY <1>6, <1>7

\* Of a track in time order, clocks are read as they were set.
LEMMA ClockIsRead ==
    ASSUME NEW points, InTimeOrder(points), points # <<>>,
           NEW t \in points[1].time .. points[Len(points)].time, NEW zone
    PROVE  PlacedRight(points, t, zone)
<1> DEFINE during == points[1].time .. points[Len(points)].time
           clock == t + OffsetThen(points, t)
           photo == [clock |-> clock, embedded |-> Unknown, gps |-> FALSE]
           exact == [photo EXCEPT !.embedded = OffsetThen(points, t)]
           corrupt == [photo EXCEPT !.embedded = WidestOffset + 1]
           at == Earliest({u \in during : u + OffsetThen(points, u) = clock})
<1>1. ClockRead(points, clock) \in during /\ ClockRead(points, clock) = at
  BY ReadsFirst
<1>2. during \in SUBSET Int
  <2>1. Len(points) \in Nat /\ Len(points) # 0
    BY DEF InTimeOrder
  <2>2. 1 \in 1 .. Len(points) /\ Len(points) \in 1 .. Len(points)
    BY <2>1
  <2>3. points[1].time \in Int /\ points[Len(points)].time \in Int
    BY <2>2, PointNumbers
  <2> QED BY <2>3
<1>3. at \in during /\ at # Unknown
  <2>1. at \in Int
    BY <1>1, <1>2
  <2> QED BY <1>1, <2>1, FiguresAssumption
<1>4. CaptureInstant(photo, points, zone) = at
  <2>1. photo.embedded = Unknown /\ photo.clock = clock
    OBVIOUS
  <2> HIDE DEF photo, at, clock
  <2> QED BY <1>1, <1>3, <2>1 DEF CaptureInstant
<1>5. ASSUME exact.embedded \in -WidestOffset .. WidestOffset
      PROVE  CaptureInstant(exact, points, zone) = t
  <2>1. exact.embedded = OffsetThen(points, t) /\ exact.clock = clock
    OBVIOUS
  <2>2. OffsetThen(points, t) \in Int /\ t \in Int
    BY <1>2, SpanOf
  <2>3. OffsetThen(points, t) # Unknown
    BY <2>2, FiguresAssumption
  <2>4. clock - OffsetThen(points, t) = t
    BY <2>2
  <2> HIDE DEF exact, clock
  <2> QED BY <1>5, <2>1, <2>3, <2>4 DEF CaptureInstant
<1>8. CaptureInstant(corrupt, points, zone) = at
  <2>1. corrupt.embedded = WidestOffset + 1 /\ corrupt.clock = clock
    OBVIOUS
  <2>2. ~ (corrupt.embedded \in -WidestOffset .. WidestOffset)
    BY <2>1, FiguresAssumption
  <2> HIDE DEF corrupt, at, clock
  <2> QED BY <1>1, <1>3, <2>1, <2>2 DEF CaptureInstant
<1>6. ASSUME Len(points) > 1
      PROVE  /\ ResolvePlacement(photo, points, zone).source = "interpolated"
             /\ points[ResolvePlacement(photo, points, zone).between[1]].time <= at
             /\ at <= points[ResolvePlacement(photo, points, zone).between[2]].time
  <2>1. photo.gps = FALSE
    OBVIOUS
  <2> HIDE DEF photo, at
  <2> QED BY <1>3, <1>4, <1>6, <2>1, PlacedByClock
<1>7. Last(points) = points[Len(points)]
  BY DEF Last
<1> QED BY <1>4, <1>5, <1>6, <1>7, <1>8, Zenon DEF PlacedRight

-----------------------------------------------------------------------------
(* The grid: numbers.                                                      *)

\* A common factor may be left out.
LEMMA TimesLess ==
    ASSUME NEW m \in Int, NEW n \in Int, NEW k \in Nat \ {0}, m * k < n * k
    PROVE  m < n
<1> SUFFICES ASSUME n <= m PROVE FALSE
  OBVIOUS
<1>1. PICK e \in Nat : m = n + e
  OBVIOUS
<1>2. e * k >= 0
  OBVIOUS
<1>3. m * k = n * k + e * k
  BY <1>1
<1>4. n * k \in Int /\ e * k \in Int /\ m * k \in Int
  OBVIOUS
<1> QED BY <1>2, <1>3, <1>4

\* A common factor may be put in.
LEMMA TimesAtMost ==
    ASSUME NEW m \in Int, NEW n \in Int, NEW k \in Nat, m <= n
    PROVE  m * k <= n * k
<1>1. PICK e \in Nat : n = m + e
  OBVIOUS
<1>2. e * k >= 0
  OBVIOUS
<1>3. n * k = m * k + e * k
  BY <1>1
<1>4. n * k \in Int /\ e * k \in Int /\ m * k \in Int
  OBVIOUS
<1> QED BY <1>2, <1>3, <1>4

\* Rounded down, below zero too.
LEMMA Divides ==
    ASSUME NEW x \in Int, NEW m \in Nat \ {0}
    PROVE  /\ x \div m \in Int /\ (x \div m) * m <= x /\ x < (x \div m + 1) * m
OBVIOUS

\* A number in a column, L times as far along.
LEMMA Scaled ==
    ASSUME NEW g \in Int, NEW b \in Int, NEW cell \in Nat \ {0}, NEW L \in Nat \ {0},
           g * cell <= b, b < (g + 1) * cell
    PROVE  g * (cell * L) <= L * b /\ L * b < (g + 1) * (cell * L)
<1>1. (g * cell) * L <= b * L
  BY TimesAtMost
<1>2. PICK e \in Nat \ {0} : (g + 1) * cell = b + e
  <2>1. (g + 1) * cell - b \in Nat \ {0} /\ (g + 1) * cell = b + ((g + 1) * cell - b)
    OBVIOUS
  <2> QED BY <2>1
<1>3. ((g + 1) * cell) * L = b * L + e * L
  BY <1>2
<1>4. e * L > 0 /\ e * L \in Int /\ b * L \in Int
  OBVIOUS
<1>5. b * L < ((g + 1) * cell) * L
  BY <1>3, <1>4
<1>6. (g * cell) * L = g * (cell * L) /\ ((g + 1) * cell) * L = (g + 1) * (cell * L) /\ b * L = L * b
  OBVIOUS
<1> QED BY <1>1, <1>5, <1>6

\* No square is less than its root's.
LEMMA SquareWithin ==
    ASSUME NEW m \in Int, NEW n \in Nat, m * m <= n * n
    PROVE  -n <= m /\ m <= n
<1>1. CASE m > n
  <2>1. PICK e \in Nat \ {0} : m = n + e
    BY <1>1
  <2>2. m * m = n * n + (2 * (n * e) + e * e)
    BY <2>1
  <2>3. n * e >= 0 /\ e * e > 0 /\ n * e \in Int /\ e * e \in Int /\ n * n \in Int
    OBVIOUS
  <2> QED BY <2>2, <2>3
<1>2. CASE -m > n
  <2>1. PICK e \in Nat \ {0} : m = -(n + e)
    <3>1. -m - n \in Nat \ {0} /\ m = -(n + (-m - n))
      BY <1>2
    <3> QED BY <3>1
  <2>2. m * m = n * n + (2 * (n * e) + e * e)
    BY <2>1
  <2>3. n * e >= 0 /\ e * e > 0 /\ n * e \in Int /\ e * e \in Int /\ n * n \in Int
    OBVIOUS
  <2> QED BY <2>2, <2>3
<1> QED BY <1>1, <1>2

-----------------------------------------------------------------------------
\* A point s parts of L along a segment is in column k of cells.
InColumn(a, d, cell, L, s, k) ==
    k * (cell * L) <= L * a + s * d /\ L * a + s * d < (k + 1) * (cell * L)

\* How far it is to the boundary a walk at column x comes to next.
NextAt(a, d, cell, x) == ((x + (IF d > 0 THEN 1 ELSE 0)) * cell - a) * Towards(d)

\* Columns to go.
ToGo(d, k, x) == Towards(d) * (k - x)

\* Which way a number goes, and how far.
LEMMA Direction ==
    ASSUME NEW d \in Int
    PROVE  /\ Towards(d) \in Int /\ Size(d) \in Nat
           /\ d > 0 => Towards(d) = 1 /\ Size(d) = d
           /\ d < 0 => Towards(d) = -1 /\ Size(d) = -d
           /\ d = 0 => Towards(d) = 0 /\ Size(d) = 0
BY DEF Towards, Size

\* From where the segment starts to where it ends, columns only go its way.
OnTheWay(d, f, k, l) == ToGo(d, k, f) >= 0 /\ ToGo(d, l, k) >= 0 /\ (d = 0 => k = f)

\* A point of a segment lies in a column between those of its ends.
LEMMA BetweenEnds ==
    ASSUME NEW a \in Int, NEW d \in Int, NEW cell \in Nat \ {0}, NEW L \in Nat \ {0},
           NEW s \in 0 .. L, NEW k \in Int, InColumn(a, d, cell, L, s, k)
    PROVE  OnTheWay(d, a \div cell, k, (a + d) \div cell)
<1> DEFINE f == a \div cell
           l == (a + d) \div cell
           M == cell * L
           X == L * a + s * d
<1>1. /\ f \in Int /\ f * cell <= a /\ a < (f + 1) * cell
      /\ l \in Int /\ l * cell <= a + d /\ a + d < (l + 1) * cell
  BY Divides
<1>2. /\ f * M <= L * a /\ L * a < (f + 1) * M
      /\ l * M <= L * (a + d) /\ L * (a + d) < (l + 1) * M
  <2> HIDE DEF f, l
  <2>1. a + d \in Int
    OBVIOUS
  <2> QED BY <1>1, <2>1, Scaled
<1>3. M \in Nat \ {0} /\ X \in Int /\ k * M <= X /\ X < (k + 1) * M
  BY DEF InColumn
<1>4. L * (a + d) = L * a + L * d /\ L * a \in Int /\ L * d \in Int /\ s * d \in Int
  OBVIOUS
<1> HIDE DEF f, l, M
<1>5. CASE d > 0
  <2>1. 0 <= s * d /\ s * d <= L * d
    BY <1>5, TimesAtMost
  <2>2. f * M < (k + 1) * M /\ k * M < (l + 1) * M
    BY <1>1, <1>2, <1>3, <1>4, <2>1
  <2>3. f < k + 1 /\ k < l + 1
    BY <1>1, <1>3, <2>2, TimesLess
  <2> QED BY <1>1, <1>5, <2>3, Direction DEF OnTheWay, ToGo, f, l
<1>6. CASE d < 0
  <2>1. s * d <= 0 /\ L * d <= s * d
    <3>1. -d \in Nat
      BY <1>6
    <3>2. s * (-d) <= L * (-d) /\ 0 <= s * (-d)
      BY <3>1, TimesAtMost
    <3>3. s * (-d) = -(s * d) /\ L * (-d) = -(L * d)
      OBVIOUS
    <3> QED BY <1>4, <3>2, <3>3
  <2>2. k * M < (f + 1) * M /\ l * M < (k + 1) * M
    BY <1>1, <1>2, <1>3, <1>4, <2>1
  <2>3. k < f + 1 /\ l < k + 1
    BY <1>1, <1>3, <2>2, TimesLess
  <2> QED BY <1>1, <1>6, <2>3, Direction DEF OnTheWay, ToGo, f, l
<1>7. CASE d = 0
  <2>1. s * d = 0 /\ X = L * a
    BY <1>7
  <2>2. f * M < (k + 1) * M /\ k * M < (f + 1) * M
    BY <1>1, <1>2, <1>3, <1>4, <2>1
  <2>3. f < k + 1 /\ k < f + 1
    BY <1>1, <1>3, <2>2, TimesLess
  <2>4. k = f
    BY <1>1, <2>3
  <2>5. Towards(d) = 0
    BY <1>7, Direction
  <2>6. l \in Int /\ f \in Int
    BY <1>1
  <2> QED BY <2>4, <2>5, <2>6 DEF OnTheWay, ToGo, f, l
<1> QED BY <1>5, <1>6, <1>7

\* Short of the point's column, the next boundary comes before the point.
LEMMA BoundaryBefore ==
    ASSUME NEW a \in Int, NEW d \in Int, NEW cell \in Nat \ {0}, NEW L \in Nat \ {0},
           NEW s \in 0 .. L, NEW k \in Int, InColumn(a, d, cell, L, s, k),
           NEW x \in Int, ToGo(d, k, x) > 0
    PROVE  /\ NextAt(a, d, cell, x) * L <= s * Size(d)
           /\ NextAt(a, d, cell, x) * L = s * Size(d) => k = x + Towards(d)
<1> DEFINE M == cell * L
           X == L * a + s * d
<1>1. M \in Nat \ {0} /\ X \in Int /\ k * M <= X /\ X < (k + 1) * M
  BY DEF InColumn
<1>2. L * a \in Int /\ s * d \in Int /\ x * cell \in Int
  OBVIOUS
<1>3. CASE d > 0
  <2>1. Towards(d) = 1 /\ Size(d) = d /\ k >= x + 1
    BY <1>3, Direction DEF ToGo
  <2>2. NextAt(a, d, cell, x) = (x + 1) * cell - a
    BY <1>3, <2>1 DEF NextAt
  <2>3. ((x + 1) * cell - a) * L = (x + 1) * M - L * a
    OBVIOUS
  <2>4. (x + 1) * M <= k * M /\ (x + 1) * M \in Int /\ k * M \in Int
    BY <1>1, <2>1, TimesAtMost
  <2>5. ASSUME (x + 1) * M - L * a = s * d PROVE k = x + 1
    <3>1. (x + 1) * M = X
      BY <1>1, <1>2, <2>4, <2>5
    <3>2. k * M < (x + 2) * M
      <4>1. (x + 2) * M = (x + 1) * M + M /\ (x + 2) * M \in Int
        BY <1>1
      <4> HIDE DEF M, X
      <4> QED BY <1>1, <2>4, <3>1, <4>1
    <3>3. k < x + 2
      <4> HIDE DEF M, X
      <4> QED BY <1>1, <3>2, TimesLess
    <3> QED BY <2>1, <3>3
  <2>6. (x + 1) * M - L * a <= s * d
    <3>1. (x + 1) * M <= X
      BY <1>1, <2>4
    <3> QED BY <1>2, <2>4, <3>1
  <2> HIDE DEF M, X
  <2> QED BY <2>1, <2>2, <2>3, <2>5, <2>6
<1>4. CASE d < 0
  <2>1. Towards(d) = -1 /\ Size(d) = -d /\ k + 1 <= x
    BY <1>4, Direction DEF ToGo
  <2>2. NextAt(a, d, cell, x) = a - x * cell
    BY <1>2, <1>4, <2>1 DEF NextAt
  <2>3. (a - x * cell) * L = L * a - x * M
    OBVIOUS
  <2>4. (k + 1) * M <= x * M /\ (k + 1) * M \in Int /\ x * M \in Int
    BY <1>1, <2>1, TimesAtMost
  <2>5. X < x * M
    BY <1>1, <2>4
  <2>6. s * (-d) = -(s * d)
    OBVIOUS
  <2>7. L * a - x * M < s * (-d)
    BY <1>2, <2>4, <2>5, <2>6
  <2>8. s * (-d) \in Int /\ L * a - x * M \in Int
    BY <1>2, <2>4, <2>6
  <2> HIDE DEF M, X
  <2> QED BY <2>1, <2>2, <2>3, <2>7, <2>8
<1>5. CASE d = 0
  <2>1. Towards(d) = 0
    BY <1>5, Direction
  <2> QED BY <2>1 DEF ToGo
<1> QED BY <1>3, <1>4, <1>5

\* In the point's column, it comes at the point or after it.
LEMMA BoundaryAfter ==
    ASSUME NEW a \in Int, NEW d \in Int, NEW cell \in Nat \ {0}, NEW L \in Nat \ {0},
           NEW s \in 0 .. L, NEW k \in Int, InColumn(a, d, cell, L, s, k), d # 0
    PROVE  NextAt(a, d, cell, k) * L >= s * Size(d)
<1> DEFINE M == cell * L
           X == L * a + s * d
<1>1. M \in Nat \ {0} /\ X \in Int /\ k * M <= X /\ X < (k + 1) * M
  BY DEF InColumn
<1>2. L * a \in Int /\ s * d \in Int /\ k * cell \in Int /\ k * M \in Int /\ (k + 1) * M \in Int
  OBVIOUS
<1>3. CASE d > 0
  <2>1. NextAt(a, d, cell, k) = (k + 1) * cell - a
    BY <1>3, Direction DEF NextAt
  <2>2. ((k + 1) * cell - a) * L = (k + 1) * M - L * a
    OBVIOUS
  <2>3. (k + 1) * M - L * a >= s * d
    BY <1>1, <1>2
  <2> HIDE DEF M, X
  <2> QED BY <1>3, <2>1, <2>2, <2>3, Direction
<1>4. CASE d < 0
  <2>1. NextAt(a, d, cell, k) = a - k * cell
    BY <1>2, <1>4, Direction DEF NextAt
  <2>2. (a - k * cell) * L = L * a - k * M
    OBVIOUS
  <2>3. s * (-d) = -(s * d)
    OBVIOUS
  <2>4. L * a - k * M >= s * (-d)
    BY <1>1, <1>2, <2>3
  <2> HIDE DEF M, X
  <2> QED BY <1>4, <2>1, <2>2, <2>4, Direction
<1> QED BY <1>3, <1>4

\* Of two boundaries, one before and one after the same point.
LEMMA ComesFirst ==
    ASSUME NEW m \in Int, NEW n \in Int, NEW L \in Nat \ {0}, NEW s \in Nat,
           NEW e \in Nat, NEW f \in Nat, m * L <= s * e, n * L >= s * f
    PROVE  /\ m * f <= n * e
           /\ f # 0 /\ m * f = n * e => m * L = s * e
<1>1. (m * L) * f <= (s * e) * f /\ (s * f) * e <= (n * L) * e
  <2>1. m * L \in Int /\ s * e \in Int /\ s * f \in Int /\ n * L \in Int
    OBVIOUS
  <2> QED BY <2>1, TimesAtMost
<1>2. /\ (m * L) * f = (m * f) * L /\ (s * e) * f = (s * f) * e /\ (n * L) * e = (n * e) * L
  OBVIOUS
<1>3. m * f \in Int /\ n * e \in Int /\ (m * f) * L \in Int /\ (n * e) * L \in Int /\ (s * e) * f \in Int
  OBVIOUS
<1>4. (m * f) * L <= (n * e) * L
  BY <1>1, <1>2, <1>3
<1>5. m * f <= n * e
  <2> SUFFICES ASSUME n * e < m * f PROVE FALSE
    BY <1>3
  <2>1. PICK u \in Int : u = m * f
    BY <1>3
  <2>2. PICK v \in Int : v = n * e
    BY <1>3
  <2>3. PICK w \in Nat \ {0} : u = v + w
    <3>1. u - v \in Nat \ {0} /\ u = v + (u - v)
      BY <2>1, <2>2
    <3> QED BY <3>1
  <2>4. u * L = v * L + w * L
    BY <2>3
  <2>5. w * L > 0 /\ w * L \in Int /\ v * L \in Int
    OBVIOUS
  <2>6. u * L <= v * L
    BY <1>4, <2>1, <2>2
  <2> QED BY <2>4, <2>5, <2>6
<1>6. ASSUME f # 0, m * f = n * e PROVE m * L = s * e
  <2>1. (m * L) * f = (s * e) * f
    <3>1. (m * f) * L = (n * e) * L
      BY <1>6
    <3> QED BY <1>1, <1>2, <1>3, <3>1
  <2>2. PICK u \in Int : u = m * L
    OBVIOUS
  <2>3. PICK v \in Int : v = s * e
    OBVIOUS
  <2>4. ~ (u < v) /\ ~ (v < u)
    <3>1. u * f = v * f
      BY <2>1, <2>2, <2>3
    <3>2. ASSUME NEW g \in Int, NEW h \in Int, g < h PROVE g * f < h * f
      <4>1. PICK w \in Nat \ {0} : h = g + w
        <5>1. h - g \in Nat \ {0} /\ h = g + (h - g)
          BY <3>2
        <5> QED BY <5>1
      <4>2. h * f = g * f + w * f
        BY <4>1
      <4>3. w * f > 0 /\ w * f \in Int /\ g * f \in Int
        BY <1>6
      <4> QED BY <4>2, <4>3
    <3>3. ~ (u * f < v * f) /\ ~ (v * f < u * f)
      <4>1. u * f \in Int
        OBVIOUS
      <4> QED BY <3>1, <4>1
    <3> QED BY <3>2, <3>3
  <2> QED BY <2>2, <2>3, <2>4
<1> QED BY <1>5, <1>6

-----------------------------------------------------------------------------
\* Steps from one member of a set to another can be taken one after another.
Stepwise(n, init, step, w) ==
    w[0] = init /\ \A k \in 1 .. n : w[k] = step[k][w[k - 1]]

\* One after another, for as many steps as there are.
LEMMA Recursion ==
    ASSUME NEW D, NEW n \in Nat, NEW init \in D, NEW step \in [1 .. n -> [D -> D]]
    PROVE  \E w \in [0 .. n -> D] : Stepwise(n, init, step, w)
<1> DEFINE Run(w, m) == w \in [0 .. m -> D] /\ w[0] = init
                          /\ \A k \in 1 .. m : w[k] = step[k][w[k - 1]]
           S == {m \in Nat : m <= n => \E w : Run(w, m)}
<1>1. 0 \in S
  <2>1. Run([k \in 0 .. 0 |-> init], 0)
    OBVIOUS
  <2> QED BY <2>1
<1>2. ASSUME NEW m \in Nat, m \in S PROVE m + 1 \in S
  <2> SUFFICES ASSUME m + 1 <= n PROVE \E w : Run(w, m + 1)
    OBVIOUS
  <2>1. PICK v : Run(v, m)
    BY <1>2
  <2> DEFINE more == step[m + 1][v[m]]
             w == [k \in 0 .. m + 1 |-> IF k = m + 1 THEN more ELSE v[k]]
  <2>2. m \in 0 .. m /\ m + 1 \in 1 .. n
    OBVIOUS
  <2>3. more \in D
    BY <2>1, <2>2
  <2>4. w \in [0 .. m + 1 -> D]
    <3>1. ASSUME NEW k \in 0 .. m + 1, k # m + 1 PROVE v[k] \in D
      <4>1. k \in 0 .. m
        BY <3>1
      <4> QED BY <2>1, <4>1
    <3> HIDE DEF more
    <3> QED BY <2>3, <3>1
  <2>5. \A k \in 0 .. m : w[k] = v[k]
    OBVIOUS
  <2>6. w[m + 1] = more
    OBVIOUS
  <2>7. w[0] = init
    <3>1. 0 \in 0 .. m
      OBVIOUS
    <3> QED BY <2>1, <2>5, <3>1
  <2>8. ASSUME NEW k \in 1 .. m + 1 PROVE w[k] = step[k][w[k - 1]]
    <3> HIDE DEF w
    <3>1. k - 1 \in 0 .. m
      OBVIOUS
    <3>2. w[k - 1] = v[k - 1]
      BY <2>5, <3>1
    <3>3. CASE k = m + 1
      <4>1. k - 1 = m
        BY <3>3
      <4> QED BY <2>6, <3>2, <3>3, <4>1
    <3>4. CASE k # m + 1
      <4>1. k \in 1 .. m /\ k \in 0 .. m
        BY <3>4
      <4> QED BY <2>1, <2>5, <3>2, <4>1
    <3> QED BY <3>3, <3>4
  <2> HIDE DEF w
  <2> QED BY <2>4, <2>7, <2>8
<1>3. n \in S
  <2>1. Nat \subseteq S
    <3> HIDE DEF S
    <3> QED BY <1>1, <1>2, Induction
  <2> QED BY <2>1
<1> QED BY <1>3 DEF Stepwise

-----------------------------------------------------------------------------
\* Where points and cells are, and what a walk knows.
Position == Int \X Int
GridState == [at : Position, filed : SUBSET Position, next : Position]

\* Where it starts, and which way it goes.
AtSegmentStart(a, d, cell) ==
    [at |-> CellOf(a, cell), filed |-> {CellOf(a, cell)},
     next |-> <<FirstBoundary(a[1], d[1], cell), FirstBoundary(a[2], d[2], cell)>>]
WayOf(a, b) == <<b[1] - a[1], b[2] - a[2]>>

\* A cell is a position.
LEMMA CellIs ==
    ASSUME NEW p \in Position, NEW cell \in Nat \ {0}
    PROVE  /\ CellOf(p, cell) \in Position
           /\ CellOf(p, cell)[1] = p[1] \div cell /\ CellOf(p, cell)[2] = p[2] \div cell
           /\ p[1] \div cell \in Int /\ p[2] \div cell \in Int
<1>1. p[1] \in Int /\ p[2] \in Int
  BY DEF Position
<1>2. p[1] \div cell \in Int /\ p[2] \div cell \in Int
  BY <1>1, Divides
<1> QED BY <1>2 DEF Position, CellOf

\* There are finitely many boundaries between two cells.
LEMMA HowManyBoundaries ==
    ASSUME NEW a \in Position, NEW b \in Position, NEW cell \in Nat \ {0}
    PROVE  Boundaries(a, b, cell) \in Nat
<1>1. /\ CellOf(a, cell)[1] \in Int /\ CellOf(a, cell)[2] \in Int
      /\ CellOf(b, cell)[1] \in Int /\ CellOf(b, cell)[2] \in Int
  BY CellIs
<1>2. /\ CellOf(b, cell)[1] - CellOf(a, cell)[1] \in Int
      /\ CellOf(b, cell)[2] - CellOf(a, cell)[2] \in Int
  BY <1>1
<1>3. /\ Size(CellOf(b, cell)[1] - CellOf(a, cell)[1]) \in Nat
      /\ Size(CellOf(b, cell)[2] - CellOf(a, cell)[2]) \in Nat
  BY <1>2, Direction
<1> QED BY <1>3 DEF Boundaries

\* A boundary further it is still a walk.
LEMMA AcrossStays ==
    ASSUME NEW d \in Position, NEW cell \in Nat \ {0}, NEW w \in GridState
    PROVE  Across(d, cell, w) \in GridState
<1> DEFINE x == w.next[1] * Size(d[2])
           y == w.next[2] * Size(d[1])
           aside == <<w.at[1] + Towards(d[1]), w.at[2]>>
           ahead == <<w.at[1], w.at[2] + Towards(d[2])>>
           beside == IF d[1] # 0 /\ d[2] # 0 /\ x = y THEN {aside, ahead} ELSE {}
<1>1. /\ d[1] \in Int /\ d[2] \in Int /\ w.at[1] \in Int /\ w.at[2] \in Int
      /\ w.next[1] \in Int /\ w.next[2] \in Int /\ w.filed \subseteq Position
  BY DEF Position, GridState
<1>2. aside \in Position /\ ahead \in Position
  BY <1>1, Direction DEF Position
<1>3. <<w.next[1] + cell, w.next[2]>> \in Position /\ <<w.next[1], w.next[2] + cell>> \in Position
  BY <1>1 DEF Position
<1>4. beside \subseteq Position
  BY <1>2
<1>5. Across(d, cell, w) =
        IF d[2] = 0 \/ (d[1] # 0 /\ x < y)
        THEN [at |-> aside, filed |-> w.filed \cup beside \cup {aside},
              next |-> <<w.next[1] + cell, w.next[2]>>]
        ELSE [at |-> ahead, filed |-> w.filed \cup beside \cup {ahead},
              next |-> <<w.next[1], w.next[2] + cell>>]
  BY DEF Across
<1> HIDE DEF x, y, aside, ahead, beside
<1> QED BY <1>1, <1>2, <1>3, <1>4, <1>5 DEF GridState

\* The walk across a segment, boundary by boundary.
LEMMA GridWalks ==
    ASSUME NEW a \in Position, NEW b \in Position, NEW cell \in Nat \ {0}
    PROVE  LET n == Boundaries(a, b, cell)
               W == GridWalk(a, b, cell)
               d == WayOf(a, b)
           IN /\ W \in [0 .. n -> GridState] /\ W[0] = AtSegmentStart(a, d, cell)
              /\ \A k \in 1 .. n : W[k] = Across(d, cell, W[k - 1])
<1> DEFINE n == Boundaries(a, b, cell)
           W == GridWalk(a, b, cell)
           d == WayOf(a, b)
           init == AtSegmentStart(a, d, cell)
           step == [k \in 1 .. n |-> [w \in GridState |-> Across(d, cell, w)]]
           P(w) == w = [k \in 0 .. n |-> IF k = 0 THEN init ELSE Across(d, cell, w[k - 1])]
<1>1. n \in Nat
  BY HowManyBoundaries
<1>2. d \in Position
  BY DEF Position, WayOf
<1>3. init \in GridState
  <2>1. /\ a[1] \in Int /\ a[2] \in Int /\ d[1] \in Int /\ d[2] \in Int
        /\ a[1] \div cell \in Int /\ a[2] \div cell \in Int
    BY <1>2, CellIs DEF Position
  <2> HIDE DEF d
  <2>2. FirstBoundary(a[1], d[1], cell) \in Int /\ FirstBoundary(a[2], d[2], cell) \in Int
    <3>1. ASSUME NEW e \in Int, NEW g \in Int, g \div cell \in Int PROVE FirstBoundary(g, e, cell) \in Int
      <4>1. Towards(e) \in Int
        BY Direction
      <4>2. g \div cell + (IF e > 0 THEN 1 ELSE 0) \in Int
        BY <3>1
      <4>3. (g \div cell + (IF e > 0 THEN 1 ELSE 0)) * cell - g \in Int
        BY <4>2
      <4> QED BY <4>1, <4>3 DEF FirstBoundary
    <3> QED BY <2>1, <3>1
  <2> QED BY <2>2, CellIs DEF AtSegmentStart, GridState, Position
<1>4. step \in [1 .. n -> [GridState -> GridState]]
  <2> HIDE DEF n, d
  <2> QED BY <1>2, AcrossStays
<1>5. W = CHOOSE w : P(w)
  BY DEF GridWalk, WayOf, AtSegmentStart, Boundaries
<1>6. PICK v \in [0 .. n -> GridState] : v[0] = init /\ \A k \in 1 .. n : v[k] = step[k][v[k - 1]]
  <2> HIDE DEF n, init, step
  <2>1. \E v \in [0 .. n -> GridState] : Stepwise(n, init, step, v)
    BY <1>1, <1>3, <1>4, Recursion
  <2> QED BY <2>1, Zenon DEF Stepwise
<1>7. ASSUME NEW k \in 0 .. n, k # 0 PROVE k \in 1 .. n /\ k - 1 \in 0 .. n
  <2> HIDE DEF n
  <2> QED BY <1>1, <1>7
<1>8. ASSUME NEW k \in 1 .. n PROVE step[k][v[k - 1]] = Across(d, cell, v[k - 1])
  <2>1. v[k - 1] \in GridState
    <3> HIDE DEF n, d
    <3>1. k - 1 \in 0 .. n
      BY <1>1
    <3> QED BY <1>6, <3>1
  <2> HIDE DEF n, d
  <2> QED BY <2>1
<1>9. P(v)
  <2> HIDE DEF n, d, init, step
  <2>1. \A k \in 0 .. n : v[k] = IF k = 0 THEN init ELSE Across(d, cell, v[k - 1])
    BY <1>6, <1>7, <1>8
  <2> QED BY <1>6, <2>1
<1>10. P(W)
  <2> HIDE DEF P, W
  <2> QED BY <1>5, <1>9, Zenon
<1> HIDE DEF n, W, d, init
<1>11. \A k \in 0 .. n : W[k] = IF k = 0 THEN init ELSE Across(d, cell, W[k - 1])
  BY <1>10
<1>12. W[0] = init /\ \A k \in 1 .. n : W[k] = Across(d, cell, W[k - 1])
  <2>1. 0 \in 0 .. n /\ \A k \in 1 .. n : k \in 0 .. n /\ k # 0
    BY <1>1
  <2> QED BY <1>11, <2>1
<1>13. \A k \in 0 .. n : W[k] \in GridState
  <2> DEFINE S == {m \in Nat : m <= n => W[m] \in GridState}
  <2>1. 0 \in S
    BY <1>3, <1>12
  <2>2. ASSUME NEW m \in Nat, m \in S PROVE m + 1 \in S
    <3>1. CASE m + 1 <= n
      <4>1. m + 1 \in 1 .. n /\ (m + 1) - 1 = m /\ m <= n
        BY <1>1, <3>1
      <4>2. W[m + 1] = Across(d, cell, W[m])
        BY <1>12, <4>1
      <4> QED BY <1>2, <2>2, <4>1, <4>2, AcrossStays
    <3> QED BY <1>1, <3>1
  <2>3. Nat \subseteq S
    <3> HIDE DEF S
    <3> QED BY <2>1, <2>2, Induction
  <2> QED BY <1>1, <2>3
<1>14. W \in [0 .. n -> GridState]
  BY <1>10, <1>13
<1> QED BY <1>12, <1>14 DEF n, W, d, init

-----------------------------------------------------------------------------
\* The walk knows the next boundary on each axis it moves along.
Looks(a, d, cell, w) ==
    /\ w \in GridState /\ w.at \in w.filed
    /\ w.next[1] = NextAt(a[1], d[1], cell, w.at[1])
    /\ w.next[2] = NextAt(a[2], d[2], cell, w.at[2])

\* The cell K is filed or still to come, `left` boundaries ahead at most.
Heads(d, K, w, left) ==
    \/ K \in w.filed
    \/ /\ ToGo(d[1], K[1], w.at[1]) >= 0 /\ ToGo(d[2], K[2], w.at[2]) >= 0
       /\ d[1] = 0 => K[1] = w.at[1]
       /\ d[2] = 0 => K[2] = w.at[2]
       /\ ToGo(d[1], K[1], w.at[1]) + ToGo(d[2], K[2], w.at[2]) <= left

\* A boundary further, the next is a cell further.
LEMMA NextMovesOn ==
    ASSUME NEW a \in Int, NEW d \in Int, NEW cell \in Nat \ {0}, NEW x \in Int, d # 0
    PROVE  NextAt(a, d, cell, x + Towards(d)) = NextAt(a, d, cell, x) + cell
<1>1. CASE d > 0
  <2>1. Towards(d) = 1
    BY <1>1, Direction
  <2>2. (x + 1 + 1) * cell = (x + 1) * cell + cell
    OBVIOUS
  <2>3. (x + 1 + 1) * cell \in Int /\ (x + 1) * cell \in Int
    OBVIOUS
  <2> QED BY <1>1, <2>1, <2>2, <2>3 DEF NextAt
<1>2. CASE d < 0
  <2>1. Towards(d) = -1
    BY <1>2, Direction
  <2>2. (x - 1) * cell = x * cell - cell
    OBVIOUS
  <2>3. (x - 1) * cell \in Int /\ x * cell \in Int
    OBVIOUS
  <2>4. NextAt(a, d, cell, x) = a - x * cell
    BY <1>2, <2>1, <2>3 DEF NextAt
  <2>5. NextAt(a, d, cell, x - 1) = a - (x - 1) * cell
    BY <1>2, <2>1, <2>3 DEF NextAt
  <2>6. x + Towards(d) = x - 1
    BY <2>1
  <2> QED BY <2>2, <2>3, <2>4, <2>5, <2>6
<1> QED BY <1>1, <1>2

\* Boundaries lie at whole numbers.
LEMMA NextIsWhole ==
    ASSUME NEW a \in Int, NEW d \in Int, NEW cell \in Nat \ {0}, NEW x \in Int
    PROVE  NextAt(a, d, cell, x) \in Int
<1>1. Towards(d) \in Int /\ x + (IF d > 0 THEN 1 ELSE 0) \in Int
  BY Direction
<1>2. (x + (IF d > 0 THEN 1 ELSE 0)) * cell - a \in Int
  BY <1>1
<1> QED BY <1>1, <1>2 DEF NextAt

\* Across a boundary on the first axis, and on the second.
Aside(d, w) == <<w.at[1] + Towards(d[1]), w.at[2]>>
Onto(d, w) == <<w.at[1], w.at[2] + Towards(d[2])>>
\* Which of the two comes first, and whether they meet in a corner.
FirstGap(d, w) == w.next[1] * Size(d[2])
SecondGap(d, w) == w.next[2] * Size(d[1])
GoesAside(d, w) == d[2] = 0 \/ (d[1] # 0 /\ FirstGap(d, w) < SecondGap(d, w))
Corner(d, w) == d[1] # 0 /\ d[2] # 0 /\ FirstGap(d, w) = SecondGap(d, w)

\* The next cell of a walk, its next boundaries and what it files.
LEMMA AcrossIs ==
    ASSUME NEW d \in Position, NEW cell \in Nat \ {0}, NEW w \in GridState
    PROVE  /\ GoesAside(d, w) =>
                /\ Across(d, cell, w).at = Aside(d, w)
                /\ Across(d, cell, w).next[1] = w.next[1] + cell
                /\ Across(d, cell, w).next[2] = w.next[2]
           /\ ~GoesAside(d, w) =>
                /\ Across(d, cell, w).at = Onto(d, w)
                /\ Across(d, cell, w).next[1] = w.next[1]
                /\ Across(d, cell, w).next[2] = w.next[2] + cell
           /\ w.filed \subseteq Across(d, cell, w).filed
           /\ Across(d, cell, w).at \in Across(d, cell, w).filed
           /\ Corner(d, w) => Aside(d, w) \in Across(d, cell, w).filed
<1> DEFINE beside == IF Corner(d, w) THEN {Aside(d, w), Onto(d, w)} ELSE {}
<1>1. Across(d, cell, w) =
        IF GoesAside(d, w)
        THEN [at |-> Aside(d, w), filed |-> w.filed \cup beside \cup {Aside(d, w)},
              next |-> <<w.next[1] + cell, w.next[2]>>]
        ELSE [at |-> Onto(d, w), filed |-> w.filed \cup beside \cup {Onto(d, w)},
              next |-> <<w.next[1], w.next[2] + cell>>]
  BY DEF Across, GoesAside, Corner, Aside, Onto, FirstGap, SecondGap
<1>2. Corner(d, w) => Aside(d, w) \in beside
  OBVIOUS
<1> HIDE DEF beside
<1> QED BY <1>1, <1>2

\* A boundary further, the walk still knows the next ones.
LEMMA KeepsLooking ==
    ASSUME NEW a \in Position, NEW d \in Position, NEW cell \in Nat \ {0}, NEW w,
           Looks(a, d, cell, w), d[1] # 0 \/ d[2] # 0
    PROVE  Looks(a, d, cell, Across(d, cell, w))
<1> DEFINE v == Across(d, cell, w)
<1>1. /\ a[1] \in Int /\ a[2] \in Int /\ d[1] \in Int /\ d[2] \in Int
      /\ w \in GridState /\ w.at[1] \in Int /\ w.at[2] \in Int
  BY DEF Position, Looks, GridState
<1>2. v \in GridState
  BY <1>1, AcrossStays
<1>3. v.at \in v.filed
  BY <1>1, AcrossIs
<1>4. CASE GoesAside(d, w)
  <2>1. d[1] # 0
    BY <1>4 DEF GoesAside
  <2>2. /\ v.at = Aside(d, w) /\ v.next[1] = w.next[1] + cell /\ v.next[2] = w.next[2]
    BY <1>1, <1>4, AcrossIs
  <2>3. v.at[1] = w.at[1] + Towards(d[1]) /\ v.at[2] = w.at[2]
    BY <2>2 DEF Aside
  <2>4. NextAt(a[1], d[1], cell, w.at[1] + Towards(d[1])) = NextAt(a[1], d[1], cell, w.at[1]) + cell
    BY <1>1, <2>1, NextMovesOn
  <2>5. v.next[1] = NextAt(a[1], d[1], cell, v.at[1])
    <3>1. w.next[1] = NextAt(a[1], d[1], cell, w.at[1])
      BY DEF Looks
    <3> HIDE DEF v
    <3> QED BY <2>2, <2>3, <2>4, <3>1
  <2>6. v.next[2] = NextAt(a[2], d[2], cell, v.at[2])
    <3>1. w.next[2] = NextAt(a[2], d[2], cell, w.at[2])
      BY DEF Looks
    <3> HIDE DEF v
    <3> QED BY <2>2, <2>3, <3>1
  <2> HIDE DEF v
  <2>7. Looks(a, d, cell, v)
    BY <1>2, <1>3, <2>5, <2>6 DEF Looks
  <2> QED BY <2>7 DEF v
<1>5. CASE ~GoesAside(d, w)
  <2>1. d[2] # 0
    BY <1>5 DEF GoesAside
  <2>2. /\ v.at = Onto(d, w) /\ v.next[1] = w.next[1] /\ v.next[2] = w.next[2] + cell
    BY <1>1, <1>5, AcrossIs
  <2>3. v.at[1] = w.at[1] /\ v.at[2] = w.at[2] + Towards(d[2])
    BY <2>2 DEF Onto
  <2>4. NextAt(a[2], d[2], cell, w.at[2] + Towards(d[2])) = NextAt(a[2], d[2], cell, w.at[2]) + cell
    BY <1>1, <2>1, NextMovesOn
  <2>5. v.next[1] = NextAt(a[1], d[1], cell, v.at[1])
    <3>1. w.next[1] = NextAt(a[1], d[1], cell, w.at[1])
      BY DEF Looks
    <3> HIDE DEF v
    <3> QED BY <2>2, <2>3, <3>1
  <2>6. v.next[2] = NextAt(a[2], d[2], cell, v.at[2])
    <3>1. w.next[2] = NextAt(a[2], d[2], cell, w.at[2])
      BY DEF Looks
    <3> HIDE DEF v
    <3> QED BY <2>2, <2>3, <2>4, <3>1
  <2> HIDE DEF v
  <2>7. Looks(a, d, cell, v)
    BY <1>2, <1>3, <2>5, <2>6 DEF Looks
  <2> QED BY <2>7 DEF v
<1> QED BY <1>4, <1>5

\* Columns are whole.
LEMMA ColumnsToGo ==
    ASSUME NEW d \in Int, NEW k \in Int, NEW x \in Int
    PROVE  ToGo(d, k, x) \in Int
<1>1. Towards(d) \in Int
  BY Direction
<1> QED BY <1>1 DEF ToGo

\* No column to go is the column itself.
LEMMA InItsColumn ==
    ASSUME NEW d \in Int, NEW k \in Int, NEW x \in Int, d = 0 => k = x, ToGo(d, k, x) = 0
    PROVE  k = x
<1>1. CASE d > 0
  BY <1>1, Direction DEF ToGo
<1>2. CASE d < 0
  BY <1>2, Direction DEF ToGo
<1> QED BY <1>1, <1>2

\* A column further is one less to go.
LEMMA OneNearer ==
    ASSUME NEW d \in Int, NEW k \in Int, NEW x \in Int, NEW y, y = x + Towards(d), d # 0
    PROVE  ToGo(d, k, y) = ToGo(d, k, x) - 1
<1>1. CASE d > 0
  BY <1>1, Direction DEF ToGo
<1>2. CASE d < 0
  <2>1. Towards(d) = -1
    BY <1>2, Direction
  <2>2. ToGo(d, k, x) = x - k /\ ToGo(d, k, x - 1) = x - 1 - k
    BY <2>1 DEF ToGo
  <2>3. y = x - 1
    BY <2>1
  <2> QED BY <2>2, <2>3
<1> QED BY <1>1, <1>2

\* m parts of e come sooner than n parts of f.
Sooner(m, e, n, f) == m * f < n * e

\* The next column; and a boundary m parts of d along, at or before a point
\* s parts of L along, or at or after it.
NextAfter(d, k, x) == k = x + Towards(d)
AtOrBefore(m, d, L, s) == m * L <= s * Size(d)
AtOrAfter(m, d, L, s) == m * L >= s * Size(d)

\* Short of a point's column, the next boundary comes no later than the point;
LEMMA ShortOfIt ==
    ASSUME NEW a \in Int, NEW d \in Int, NEW cell \in Nat \ {0}, NEW L \in Nat \ {0},
           NEW s \in 0 .. L, NEW k \in Int, InColumn(a, d, cell, L, s, k),
           NEW x \in Int, ToGo(d, k, x) > 0, NEW m \in Int, m = NextAt(a, d, cell, x)
    PROVE  AtOrBefore(m, d, L, s)
BY BoundaryBefore DEF AtOrBefore

\* when it comes no sooner either, the column is the next;
LEMMA OneShortOfIt ==
    ASSUME NEW a \in Int, NEW d \in Int, NEW cell \in Nat \ {0}, NEW L \in Nat \ {0},
           NEW s \in 0 .. L, NEW k \in Int, InColumn(a, d, cell, L, s, k),
           NEW x \in Int, ToGo(d, k, x) > 0, NEW m \in Int, m = NextAt(a, d, cell, x),
           AtOrAfter(m, d, L, s)
    PROVE  NextAfter(d, k, x)
<1>1. m * L \in Int /\ s * Size(d) \in Int
  BY Direction
<1> QED BY <1>1, BoundaryBefore DEF AtOrAfter, NextAfter

\* in the column, the boundary comes no sooner than the point.
LEMMA InIt ==
    ASSUME NEW a \in Int, NEW d \in Int, NEW cell \in Nat \ {0}, NEW L \in Nat \ {0},
           NEW s \in 0 .. L, NEW k \in Int, InColumn(a, d, cell, L, s, k), d # 0,
           NEW m, m = NextAt(a, d, cell, k)
    PROVE  AtOrAfter(m, d, L, s)
BY BoundaryAfter DEF AtOrAfter

\* Of a boundary no later than a point and one no sooner, which comes first.
LEMMA ComesInOrder ==
    ASSUME NEW m \in Int, NEW d \in Int, NEW n \in Int, NEW f \in Int, f # 0,
           NEW L \in Nat \ {0}, NEW s \in 0 .. L, AtOrBefore(m, d, L, s), AtOrAfter(n, f, L, s)
    PROVE  m * Size(f) <= n * Size(d) /\ (m * Size(f) = n * Size(d) => m * L = s * Size(d))
<1>1. Size(d) \in Nat /\ Size(f) \in Nat /\ Size(f) # 0
  BY Direction
<1>2. PICK g \in Nat : g = Size(d)
  BY <1>1
<1>3. PICK h \in Nat : h = Size(f)
  BY <1>1
<1>4. s \in Nat
  OBVIOUS
<1>5. m * L <= s * g /\ n * L >= s * h
  BY <1>2, <1>3 DEF AtOrBefore, AtOrAfter
<1>6. m * h <= n * g /\ (h # 0 /\ m * h = n * g => m * L = s * g)
  BY <1>4, <1>5, ComesFirst
<1> QED BY <1>1, <1>2, <1>3, <1>6

\* A boundary short of a point comes no later than one past it,
LEMMA NoSooner ==
    ASSUME NEW m \in Int, NEW d \in Int, NEW n \in Int, NEW f \in Int, f # 0,
           NEW L \in Nat \ {0}, NEW s \in 0 .. L, AtOrBefore(m, d, L, s), AtOrAfter(n, f, L, s)
    PROVE  ~Sooner(n, Size(f), m, Size(d))
<1>1. Size(d) \in Nat /\ Size(f) \in Nat
  BY Direction
<1>2. m * Size(f) \in Int /\ n * Size(d) \in Int
  BY <1>1
<1> QED BY <1>2, ComesInOrder DEF Sooner

\* or at the same time, at the point itself.
LEMMA TogetherAtIt ==
    ASSUME NEW m \in Int, NEW d \in Int, NEW n \in Int, NEW f \in Int, f # 0,
           NEW L \in Nat \ {0}, NEW s \in 0 .. L, AtOrBefore(m, d, L, s), AtOrAfter(n, f, L, s),
           ~Sooner(m, Size(d), n, Size(f))
    PROVE  AtOrAfter(m, d, L, s)
<1>1. Size(d) \in Nat /\ Size(f) \in Nat
  BY Direction
<1>2. m * Size(f) \in Int /\ n * Size(d) \in Int /\ m * L \in Int /\ s * Size(d) \in Int
  BY <1>1
<1>3. m * Size(f) <= n * Size(d) /\ ~ (m * Size(f) < n * Size(d))
  BY ComesInOrder DEF Sooner
<1>4. m * Size(f) = n * Size(d)
  BY <1>2, <1>3
<1>5. m * L = s * Size(d)
  BY <1>4, ComesInOrder
<1> QED BY <1>2, <1>5 DEF AtOrAfter

\* The walk passes no cell that a point of the segment lies in.
LEMMA KeepsHeading ==
    ASSUME NEW a \in Position, NEW d \in Position, NEW cell \in Nat \ {0}, NEW w,
           Looks(a, d, cell, w), d[1] # 0 \/ d[2] # 0,
           NEW L \in Nat \ {0}, NEW s \in 0 .. L, NEW K \in Position,
           InColumn(a[1], d[1], cell, L, s, K[1]), InColumn(a[2], d[2], cell, L, s, K[2]),
           NEW left \in Int, Heads(d, K, w, left)
    PROVE  Heads(d, K, Across(d, cell, w), left - 1)
<1> DEFINE v == Across(d, cell, w)
<1>1. /\ a[1] \in Int /\ a[2] \in Int /\ d[1] \in Int /\ d[2] \in Int
      /\ w \in GridState /\ w.at[1] \in Int /\ w.at[2] \in Int
      /\ K[1] \in Int /\ K[2] \in Int
  BY DEF Position, Looks, GridState
<1>2. w.filed \subseteq v.filed
  BY <1>1, AcrossIs
<1>3. /\ w.next[1] = NextAt(a[1], d[1], cell, w.at[1])
      /\ w.next[2] = NextAt(a[2], d[2], cell, w.at[2])
      /\ w.next[1] \in Int /\ w.next[2] \in Int
      /\ w.at \in w.filed
  <2>1. w.next[1] \in Int /\ w.next[2] \in Int
    BY <1>1 DEF GridState, Position
  <2> QED BY <2>1 DEF Looks
<1>4. /\ Size(d[1]) \in Nat /\ Size(d[2]) \in Nat
      /\ d[1] # 0 => Size(d[1]) # 0
      /\ d[2] # 0 => Size(d[2]) # 0
  BY <1>1, Direction
<1> HIDE DEF v
<1> SUFFICES ASSUME K \notin v.filed PROVE Heads(d, K, v, left - 1)
  BY DEF Heads, v
<1>5. K \notin w.filed
  BY <1>2
<1> DEFINE p == ToGo(d[1], K[1], w.at[1])
           q == ToGo(d[2], K[2], w.at[2])
<1>6. /\ p >= 0 /\ q >= 0 /\ p + q <= left
      /\ d[1] = 0 => K[1] = w.at[1]
      /\ d[2] = 0 => K[2] = w.at[2]
  BY <1>5 DEF Heads
<1>7. p \in Int /\ q \in Int
  BY <1>1, ColumnsToGo
<1>8. p = 0 => K[1] = w.at[1]
  BY <1>1, <1>6, InItsColumn
<1>9. q = 0 => K[2] = w.at[2]
  BY <1>1, <1>6, InItsColumn
<1>10. K[1] # w.at[1] \/ K[2] # w.at[2]
  <2>1. K # w.at
    BY <1>3, <1>5
  <2> QED BY <1>1, <2>1 DEF Position, GridState
<1>11. CASE GoesAside(d, w)
  <2>1. d[1] # 0
    BY <1>11 DEF GoesAside
  <2>2. v.at = Aside(d, w)
    BY <1>1, <1>11, AcrossIs DEF v
  <2>3. v.at[1] = w.at[1] + Towards(d[1]) /\ v.at[2] = w.at[2]
    BY <2>2 DEF Aside
  <2>4. ASSUME p = 0 PROVE FALSE
    <3>1. K[1] = w.at[1] /\ K[2] # w.at[2]
      BY <1>8, <1>10, <2>4
    <3>2. d[2] # 0 /\ q > 0
      BY <1>6, <1>7, <1>9, <3>1
    <3>3. w.next[1] = NextAt(a[1], d[1], cell, K[1])
      BY <1>3, <3>1
    <3> HIDE DEF p
    <3>5. ToGo(d[2], K[2], w.at[2]) > 0
      BY <3>2
    <3> HIDE DEF q
    <3>6. /\ a[2] \in Int /\ d[2] \in Int /\ K[2] \in Int /\ w.at[2] \in Int
           /\ w.next[2] \in Int /\ w.next[2] = NextAt(a[2], d[2], cell, w.at[2])
           /\ InColumn(a[2], d[2], cell, L, s, K[2])
      BY <1>1, <1>3
    <3>4. ~Sooner(w.next[1], Size(d[1]), w.next[2], Size(d[2]))
      <4>1. AtOrBefore(w.next[2], d[2], L, s)
        BY <3>5, <3>6, ShortOfIt
      <4>2. AtOrAfter(w.next[1], d[1], L, s)
        BY <1>1, <2>1, <3>2, <3>3, InIt
      <4> QED BY <1>1, <1>3, <2>1, <3>2, <4>1, <4>2, NoSooner, Zenon
    <3> QED BY <1>11, <3>2, <3>4 DEF GoesAside, FirstGap, SecondGap, Sooner
  <2>5. ToGo(d[1], K[1], v.at[1]) = p - 1
    BY <1>1, <2>1, <2>3, OneNearer
  <2>6. ToGo(d[2], K[2], v.at[2]) = q
    BY <2>3
  <2> HIDE DEF p, q
  <2> QED BY <1>6, <1>7, <2>1, <2>3, <2>4, <2>5, <2>6 DEF Heads
<1>12. CASE ~GoesAside(d, w)
  <2>1. d[2] # 0
    BY <1>12 DEF GoesAside
  <2>2. v.at = Onto(d, w)
    BY <1>1, <1>12, AcrossIs DEF v
  <2>3. v.at[1] = w.at[1] /\ v.at[2] = w.at[2] + Towards(d[2])
    BY <2>2 DEF Onto
  <2>4. ASSUME q = 0 PROVE FALSE
    <3>1. K[2] = w.at[2] /\ K[1] # w.at[1]
      BY <1>9, <1>10, <2>4
    <3>2. d[1] # 0 /\ p > 0
      BY <1>6, <1>7, <1>8, <3>1
    <3>3. w.next[2] = NextAt(a[2], d[2], cell, K[2])
      BY <1>3, <3>1
    <3>10. ToGo(d[1], K[1], w.at[1]) > 0
      BY <3>2
    <3> HIDE DEF p, q
    <3>4. /\ ~Sooner(w.next[2], Size(d[2]), w.next[1], Size(d[1]))
          /\ ~Sooner(w.next[1], Size(d[1]), w.next[2], Size(d[2])) => K[1] = w.at[1] + Towards(d[1])
      <4>1. AtOrBefore(w.next[1], d[1], L, s)
        BY <1>1, <1>3, <3>10, ShortOfIt, Zenon
      <4>2. AtOrAfter(w.next[2], d[2], L, s)
        BY <1>1, <2>1, <3>2, <3>3, InIt
      <4>3. ~Sooner(w.next[2], Size(d[2]), w.next[1], Size(d[1]))
        BY <1>1, <1>3, <2>1, <3>2, <4>1, <4>2, NoSooner, Zenon
      <4>4. ASSUME ~Sooner(w.next[1], Size(d[1]), w.next[2], Size(d[2]))
            PROVE  K[1] = w.at[1] + Towards(d[1])
        <5>1. AtOrAfter(w.next[1], d[1], L, s)
          BY <1>1, <1>3, <2>1, <3>2, <4>1, <4>2, <4>4, TogetherAtIt, Zenon
        <5>2. NextAfter(d[1], K[1], w.at[1])
          BY <1>1, <1>3, <3>10, <5>1, OneShortOfIt, Zenon
        <5> QED BY <5>2 DEF NextAfter
      <4> QED BY <4>3, <4>4
    <3>5. ~Sooner(w.next[1], Size(d[1]), w.next[2], Size(d[2]))
      BY <1>12, <3>2 DEF GoesAside, FirstGap, SecondGap, Sooner
    <3>6. w.next[1] * Size(d[2]) \in Int /\ w.next[2] * Size(d[1]) \in Int
      BY <1>3, <1>4
    <3>7. Corner(d, w)
      BY <2>1, <3>2, <3>4, <3>5, <3>6 DEF Corner, FirstGap, SecondGap, Sooner
    <3>8. K = Aside(d, w)
      <4>1. K = <<K[1], K[2]>>
        BY DEF Position
      <4> QED BY <3>1, <3>4, <3>5, <4>1 DEF Aside
    <3>9. K \in v.filed
      BY <1>1, <3>7, <3>8, AcrossIs DEF v
    <3> QED BY <3>9
  <2>5. ToGo(d[2], K[2], v.at[2]) = q - 1
    BY <1>1, <2>1, <2>3, OneNearer
  <2>6. ToGo(d[1], K[1], v.at[1]) = p
    BY <2>3
  <2> HIDE DEF p, q
  <2> QED BY <1>6, <1>7, <2>1, <2>3, <2>4, <2>5, <2>6 DEF Heads
<1> QED BY <1>11, <1>12

\* A walk starts in the segment's first cell, knowing its first boundaries.
LEMMA StartsLooking ==
    ASSUME NEW a \in Position, NEW b \in Position, NEW cell \in Nat \ {0}
    PROVE  Looks(a, WayOf(a, b), cell, GridWalk(a, b, cell)[0])
<1> DEFINE d == WayOf(a, b)
           w == GridWalk(a, b, cell)[0]
<1>1. w = AtSegmentStart(a, d, cell)
  BY GridWalks
<1>2. w \in GridState
  <2>1. Boundaries(a, b, cell) \in Nat
    BY HowManyBoundaries
  <2>2. 0 \in 0 .. Boundaries(a, b, cell)
    BY <2>1
  <2> QED BY <2>2, GridWalks
<1>3. w.at = CellOf(a, cell) /\ w.filed = {CellOf(a, cell)}
      /\ w.next[1] = FirstBoundary(a[1], d[1], cell) /\ w.next[2] = FirstBoundary(a[2], d[2], cell)
  <2> HIDE DEF w, d
  <2> QED BY <1>1 DEF AtSegmentStart
<1>4. FirstBoundary(a[1], d[1], cell) = NextAt(a[1], d[1], cell, a[1] \div cell)
      /\ FirstBoundary(a[2], d[2], cell) = NextAt(a[2], d[2], cell, a[2] \div cell)
  <2> HIDE DEF d
  <2> QED BY DEF FirstBoundary, NextAt
<1>5. w.at[1] = a[1] \div cell /\ w.at[2] = a[2] \div cell
  <2> HIDE DEF w
  <2> QED BY <1>3, CellIs
<1>6. w.at \in w.filed
  <2> HIDE DEF w
  <2> QED BY <1>3
<1>7. Looks(a, d, cell, w)
  <2> HIDE DEF w, d
  <2> QED BY <1>2, <1>3, <1>4, <1>5, <1>6 DEF Looks
<1> QED BY <1>7

\* The columns to go from a segment's start to a point of it are no more than
\* the boundaries to its end.
LEMMA ColumnsBetween ==
    ASSUME NEW d \in Int, NEW k \in Int, NEW f \in Int, NEW l \in Int, ToGo(d, l, k) >= 0
    PROVE  ToGo(d, k, f) <= Size(l - f)
<1>1. Size(l - f) \in Nat /\ Size(l - f) >= l - f /\ Size(l - f) >= f - l
  BY DEF Size
<1>2. CASE d > 0
  <2>1. Towards(d) = 1
    BY <1>2, Direction
  <2> QED BY <1>1, <2>1 DEF ToGo
<1>3. CASE d < 0
  <2>1. Towards(d) = -1
    BY <1>3, Direction
  <2>2. ToGo(d, l, k) = k - l /\ ToGo(d, k, f) = f - k
    BY <2>1 DEF ToGo
  <2> QED BY <1>1, <2>2
<1>4. CASE d = 0
  <2>1. Towards(d) = 0
    BY <1>4, Direction
  <2>2. ToGo(d, k, f) = 0
    BY <2>1 DEF ToGo
  <2> QED BY <1>1, <2>2
<1> QED BY <1>2, <1>3, <1>4

\* The columns of a segment, of its start and its end, by name.
LEMMA ColumnOnTheWay ==
    ASSUME NEW a \in Int, NEW d \in Int, NEW cell \in Nat \ {0}, NEW L \in Nat \ {0},
           NEW s \in 0 .. L, NEW k \in Int, InColumn(a, d, cell, L, s, k),
           NEW f \in Int, f = a \div cell, NEW l \in Int, l = (a + d) \div cell
    PROVE  OnTheWay(d, f, k, l)
BY BetweenEnds

\* At its start all the cells that a point of the segment lies in are ahead.
LEMMA StartsHeading ==
    ASSUME NEW a \in Position, NEW b \in Position, NEW cell \in Nat \ {0},
           NEW L \in Nat \ {0}, NEW s \in 0 .. L, NEW K \in Position,
           InColumn(a[1], b[1] - a[1], cell, L, s, K[1]), InColumn(a[2], b[2] - a[2], cell, L, s, K[2])
    PROVE  Heads(WayOf(a, b), K, GridWalk(a, b, cell)[0], Boundaries(a, b, cell))
<1> DEFINE d == WayOf(a, b)
           w == GridWalk(a, b, cell)[0]
           f == CellOf(a, cell)
           l == CellOf(b, cell)
<1>1. w = AtSegmentStart(a, d, cell)
  BY GridWalks
<1>2. w.at = f
  BY <1>1 DEF AtSegmentStart
<1>3. /\ a[1] \in Int /\ a[2] \in Int /\ b[1] \in Int /\ b[2] \in Int /\ K[1] \in Int /\ K[2] \in Int
  BY DEF Position
<1>4. /\ f[1] = a[1] \div cell /\ f[2] = a[2] \div cell /\ f[1] \in Int /\ f[2] \in Int
      /\ l[1] = b[1] \div cell /\ l[2] = b[2] \div cell /\ l[1] \in Int /\ l[2] \in Int
  BY CellIs
<1>5. d[1] = b[1] - a[1] /\ d[2] = b[2] - a[2] /\ d[1] \in Int /\ d[2] \in Int
  BY <1>3 DEF WayOf
<1>6. a[1] + d[1] = b[1] /\ a[2] + d[2] = b[2]
  BY <1>3, <1>5
<1> HIDE DEF d, w, f, l
<1>7. ASSUME NEW i \in {1, 2}
      PROVE  /\ ToGo(d[i], K[i], f[i]) >= 0 /\ (d[i] = 0 => K[i] = f[i])
             /\ ToGo(d[i], K[i], f[i]) <= Size(l[i] - f[i])
  <2>1. /\ a[i] \in Int /\ d[i] \in Int /\ K[i] \in Int /\ f[i] \in Int /\ l[i] \in Int
        /\ InColumn(a[i], d[i], cell, L, s, K[i])
        /\ a[i] \div cell = f[i] /\ (a[i] + d[i]) \div cell = l[i]
    BY <1>3, <1>4, <1>5, <1>6
  <2>2. OnTheWay(d[i], f[i], K[i], l[i])
    BY <2>1, ColumnOnTheWay
  <2>3. /\ ToGo(d[i], l[i], K[i]) >= 0 /\ ToGo(d[i], K[i], f[i]) >= 0
        /\ d[i] = 0 => K[i] = f[i]
    BY <2>2 DEF OnTheWay
  <2>4. ToGo(d[i], K[i], f[i]) <= Size(l[i] - f[i])
    BY <2>1, <2>3, ColumnsBetween
  <2> QED BY <2>3, <2>4
<1>8. Boundaries(a, b, cell) = Size(l[1] - f[1]) + Size(l[2] - f[2])
  BY DEF Boundaries, f, l
<1>9. Size(l[1] - f[1]) \in Nat /\ Size(l[2] - f[2]) \in Nat
  BY <1>4, Direction
<1>10. ToGo(d[1], K[1], f[1]) \in Int /\ ToGo(d[2], K[2], f[2]) \in Int
  BY <1>3, <1>4, <1>5, ColumnsToGo
<1>11. Heads(d, K, w, Boundaries(a, b, cell))
  BY <1>2, <1>7, <1>8, <1>9, <1>10 DEF Heads
<1> QED BY <1>11 DEF d, w

\* Every cell that a point of a segment lies in is one of the segment's.
LEMMA FilesWhereItGoes ==
    ASSUME NEW a \in Position, NEW b \in Position, NEW cell \in Nat \ {0},
           NEW L \in Nat \ {0}, NEW s \in 0 .. L, NEW K \in Position,
           InColumn(a[1], b[1] - a[1], cell, L, s, K[1]), InColumn(a[2], b[2] - a[2], cell, L, s, K[2])
    PROVE  K \in SegmentCells(a, b, cell)
<1> DEFINE n == Boundaries(a, b, cell)
           W == GridWalk(a, b, cell)
           d == WayOf(a, b)
           S == {k \in Nat : k <= n => Looks(a, d, cell, W[k]) /\ Heads(d, K, W[k], n - k)}
<1>1. n \in Nat
  BY HowManyBoundaries
<1>2. /\ a[1] \in Int /\ a[2] \in Int /\ b[1] \in Int /\ b[2] \in Int
      /\ d \in Position /\ d[1] = b[1] - a[1] /\ d[2] = b[2] - a[2]
  BY DEF Position, WayOf
<1>3. \A k \in 1 .. n : W[k] = Across(d, cell, W[k - 1])
  BY GridWalks
<1>4. Looks(a, d, cell, W[0]) /\ Heads(d, K, W[0], n)
  BY StartsLooking, StartsHeading
<1>5. n # 0 => d[1] # 0 \/ d[2] # 0
  <2> SUFFICES ASSUME d[1] = 0, d[2] = 0 PROVE n = 0
    OBVIOUS
  <2>1. b[1] = a[1] /\ b[2] = a[2]
    <3> HIDE DEF d
    <3> QED BY <1>2
  <2>2. CellOf(b, cell) = CellOf(a, cell)
    BY <2>1 DEF CellOf
  <2>3. CellOf(a, cell)[1] \in Int /\ CellOf(a, cell)[2] \in Int
    BY CellIs
  <2>4. Size(CellOf(a, cell)[1] - CellOf(a, cell)[1]) = 0 /\ Size(CellOf(a, cell)[2] - CellOf(a, cell)[2]) = 0
    BY <2>3 DEF Size
  <2> QED BY <2>2, <2>4 DEF Boundaries
<1>6. InColumn(a[1], d[1], cell, L, s, K[1]) /\ InColumn(a[2], d[2], cell, L, s, K[2])
  <2> HIDE DEF d
  <2> QED BY <1>2
<1>7. SegmentCells(a, b, cell) = W[n].filed \cup {CellOf(b, cell)}
  BY DEF SegmentCells
<1> HIDE DEF n, W, d
<1>8. 0 \in S
  BY <1>1, <1>4
<1>9. ASSUME NEW k \in Nat, k \in S PROVE k + 1 \in S
  <2> SUFFICES ASSUME k + 1 <= n PROVE Looks(a, d, cell, W[k + 1]) /\ Heads(d, K, W[k + 1], n - (k + 1))
    OBVIOUS
  <2>1. k + 1 \in 1 .. n /\ (k + 1) - 1 = k /\ n # 0 /\ k <= n
    BY <1>1
  <2>2. W[k + 1] = Across(d, cell, W[k])
    BY <1>3, <2>1
  <2>3. Looks(a, d, cell, W[k]) /\ Heads(d, K, W[k], n - k)
    BY <1>9, <2>1
  <2>4. d[1] # 0 \/ d[2] # 0
    BY <1>5, <2>1
  <2>5. Looks(a, d, cell, W[k + 1])
    BY <1>2, <2>2, <2>3, <2>4, KeepsLooking
  <2>6. n - k \in Int /\ n - (k + 1) = (n - k) - 1
    BY <1>1
  <2>7. Heads(d, K, W[k + 1], (n - k) - 1)
    BY <1>2, <1>6, <2>2, <2>3, <2>4, <2>6, KeepsHeading
  <2> QED BY <2>5, <2>6, <2>7
<1>10. n \in S
  <2>1. Nat \subseteq S
    <3> HIDE DEF S
    <3> QED BY <1>8, <1>9, Induction
  <2> QED BY <1>1, <2>1
<1>11. Looks(a, d, cell, W[n]) /\ Heads(d, K, W[n], 0)
  <2>1. n - n = 0 /\ n <= n
    BY <1>1
  <2> QED BY <1>10, <2>1
<1>12. K \in W[n].filed
  <2> SUFFICES ASSUME K \notin W[n].filed PROVE FALSE
    OBVIOUS
  <2> DEFINE at == W[n].at
  <2>1. at \in Position /\ at \in W[n].filed
    BY <1>11 DEF Looks, GridState
  <2>2. /\ ToGo(d[1], K[1], at[1]) >= 0 /\ ToGo(d[2], K[2], at[2]) >= 0
        /\ d[1] = 0 => K[1] = at[1]
        /\ d[2] = 0 => K[2] = at[2]
        /\ ToGo(d[1], K[1], at[1]) + ToGo(d[2], K[2], at[2]) <= 0
    BY <1>11 DEF Heads
  <2> HIDE DEF at
  <2>3. /\ at[1] \in Int /\ at[2] \in Int /\ K[1] \in Int /\ K[2] \in Int
        /\ d[1] \in Int /\ d[2] \in Int
    BY <1>2, <2>1 DEF Position
  <2>4. ToGo(d[1], K[1], at[1]) \in Int /\ ToGo(d[2], K[2], at[2]) \in Int
    BY <2>3, ColumnsToGo
  <2>5. ToGo(d[1], K[1], at[1]) = 0 /\ ToGo(d[2], K[2], at[2]) = 0
    BY <2>2, <2>4
  <2>6. K[1] = at[1] /\ K[2] = at[2]
    BY <2>2, <2>3, <2>5, InItsColumn
  <2>7. K = at
    BY <2>1, <2>6 DEF Position
  <2> QED BY <2>1, <2>7
<1> QED BY <1>7, <1>12

-----------------------------------------------------------------------------
\* p is no further than a cell from the position X parts of L.
Within(p, X, cell, L) == -(cell * L) <= L * p - X /\ L * p - X <= cell * L

\* A point within a cell's size of another is in its column or one beside it.
LEMMA NearColumn ==
    ASSUME NEW a \in Int, NEW d \in Int, NEW cell \in Nat \ {0}, NEW L \in Nat \ {0},
           NEW s \in 0 .. L, NEW k \in Int, InColumn(a, d, cell, L, s, k),
           NEW p \in Int, Within(p, L * a + s * d, cell, L)
    PROVE  k \in p \div cell - 1 .. p \div cell + 1
<1> DEFINE q == p \div cell
           M == cell * L
           X == L * a + s * d
           Y == L * p
<1>1. q \in Int /\ q * cell <= p /\ p < (q + 1) * cell
  BY Divides
<1>2. q * M <= Y /\ Y < (q + 1) * M
  <2> HIDE DEF q
  <2> QED BY <1>1, Scaled
<1>3. M \in Nat \ {0} /\ X \in Int /\ Y \in Int /\ k * M <= X /\ X < (k + 1) * M
  BY DEF InColumn
<1>4. -M <= Y - X /\ Y - X <= M
  BY DEF Within
<1> HIDE DEF q, M, X, Y
<1>5. /\ (q + 1) * M \in Int /\ (q + 2) * M = (q + 1) * M + M /\ (q + 2) * M \in Int
      /\ (k + 1) * M \in Int /\ (k + 2) * M = (k + 1) * M + M /\ (k + 2) * M \in Int
      /\ k * M \in Int /\ q * M \in Int
  BY <1>1, <1>3
<1>6. k * M < (q + 2) * M /\ q * M < (k + 2) * M
  BY <1>2, <1>3, <1>4, <1>5
<1>7. k < q + 2 /\ q < k + 2
  <2>1. q + 2 \in Int /\ k + 2 \in Int
    BY <1>1
  <2> QED BY <1>1, <1>3, <1>6, <2>1, TimesLess
<1>8. k \in q - 1 .. q + 1
  BY <1>1, <1>7
<1> QED BY <1>8 DEF q

\* On a line that runs past a point at most a tolerance away: how far the
\* point and the nearest one on the line are apart on each axis.
LEMMA FootOfPerpendicular ==
    ASSUME NEW g \in Int, NEW h \in Int, NEW x \in Int, NEW y \in Int, NEW cell \in Nat \ {0},
           NEW L \in Nat \ {0}, L = g * g + h * h,
           (x * h - y * g) * (x * h - y * g) <= (cell * cell) * L
    PROVE  /\ -(cell * L) <= L * x - (x * g + y * h) * g /\ L * x - (x * g + y * h) * g <= cell * L
           /\ -(cell * L) <= L * y - (x * g + y * h) * h /\ L * y - (x * g + y * h) * h <= cell * L
<1> DEFINE c == x * h - y * g
           M == cell * L
<1>1. L * x - (x * g + y * h) * g = h * c /\ L * y - (x * g + y * h) * h = -(g * c)
  OBVIOUS
<1>2. c \in Int /\ g * g >= 0 /\ h * h >= 0 /\ g * g \in Int /\ h * h \in Int /\ c * c \in Int
      /\ c * c >= 0 /\ M \in Nat
  OBVIOUS
<1>3. g * g <= L /\ h * h <= L /\ g * g \in Nat /\ h * h \in Nat /\ c * c \in Nat
  BY <1>2
<1>4. c * c <= (cell * cell) * L
  OBVIOUS
<1> HIDE DEF c
<1>5. ASSUME NEW e \in Int, e * e \in Nat, e * e <= L
      PROVE  -M <= e * c /\ e * c <= M
  <2> DEFINE r == (cell * cell) * L
  <2>1. r \in Int
    OBVIOUS
  <2>2. (e * e) * (c * c) <= L * (c * c)
    BY <1>3, <1>5, TimesAtMost
  <2>3. (c * c) * L <= r * L
    BY <1>2, <1>4, <2>1, TimesAtMost
  <2>4. /\ (e * e) * (c * c) = (e * c) * (e * c) /\ (c * c) * L = L * (c * c)
        /\ r * L = M * M
    BY <1>2
  <2>5. (e * c) * (e * c) \in Int /\ L * (c * c) \in Int /\ M * M \in Int
    BY <1>2
  <2>6. (e * c) * (e * c) <= M * M
    BY <2>2, <2>3, <2>4, <2>5
  <2>7. e * c \in Int
    BY <1>2
  <2> HIDE DEF M
  <2> QED BY <1>2, <2>6, <2>7, SquareWithin
<1>6. -M <= h * c /\ h * c <= M /\ -M <= g * c /\ g * c <= M
  <2> HIDE DEF M
  <2> QED BY <1>3, <1>5
<1>7. g * c \in Int /\ h * c \in Int
  BY <1>2
<1> HIDE DEF M
<1>8. -M <= -(g * c) /\ -(g * c) <= M
  BY <1>2, <1>6, <1>7
<1> QED BY <1>1, <1>6, <1>8 DEF M

\* A sum of squares no more than a tolerance's: neither is further than it.
LEMMA NearPoint ==
    ASSUME NEW x \in Int, NEW y \in Int, NEW cell \in Nat, x * x + y * y <= cell * cell
    PROVE  -cell <= x /\ x <= cell /\ -cell <= y /\ y <= cell
<1>1. x * x >= 0 /\ y * y >= 0 /\ x * x \in Int /\ y * y \in Int /\ cell * cell \in Int
  OBVIOUS
<1>2. x * x <= cell * cell /\ y * y <= cell * cell
  BY <1>1
<1> QED BY <1>2, SquareWithin

\* A point is near none but a segment that passes through its cell or one
\* beside it.
LEMMA NearCell ==
    ASSUME NEW p \in Position, NEW a \in Position, NEW b \in Position, NEW cell \in Nat \ {0},
           NearSegment(p, a, b, cell)
    PROVE  \E K \in SegmentCells(a, b, cell) : /\ K \in Position
                                               /\ K[1] \in p[1] \div cell - 1 .. p[1] \div cell + 1
                                               /\ K[2] \in p[2] \div cell - 1 .. p[2] \div cell + 1
<1> DEFINE g == b[1] - a[1]
           h == b[2] - a[2]
           x == p[1] - a[1]
           y == p[2] - a[2]
           v1 == p[1] - b[1]
           v2 == p[2] - b[2]
           length == g * g + h * h
           along == x * g + y * h
           across == x * h - y * g
           reach == cell * cell
<1>1. /\ a[1] \in Int /\ a[2] \in Int /\ b[1] \in Int /\ b[2] \in Int /\ p[1] \in Int /\ p[2] \in Int
      /\ g \in Int /\ h \in Int /\ x \in Int /\ y \in Int /\ v1 \in Int /\ v2 \in Int
  BY DEF Position
<1>2. length \in Nat /\ along \in Int
  <2> HIDE DEF g, h, x, y
  <2>1. g * g \in Nat /\ h * h \in Nat /\ x * g \in Int /\ y * h \in Int
    BY <1>1
  <2> QED BY <2>1
<1>3. IF length = 0 \/ along <= 0 THEN x * x + y * y <= reach
      ELSE IF along >= length THEN v1 * v1 + v2 * v2 <= reach
      ELSE across * across <= reach * length
  BY DEF NearSegment
<1> SUFFICES \E L \in Nat \ {0}, s \in Int : s \in 0 .. L /\ Within(p[1], L * a[1] + s * g, cell, L)
                                                  /\ Within(p[2], L * a[2] + s * h, cell, L)
  <2>1. PICK L \in Nat \ {0}, s \in Int : s \in 0 .. L /\ Within(p[1], L * a[1] + s * g, cell, L)
                                                  /\ Within(p[2], L * a[2] + s * h, cell, L)
    OBVIOUS
  <2> HIDE DEF g, h
  <2> DEFINE k == (L * a[1] + s * g) \div (cell * L)
             l == (L * a[2] + s * h) \div (cell * L)
  <2>2. cell * L \in Nat \ {0} /\ L * a[1] + s * g \in Int /\ L * a[2] + s * h \in Int
    BY <1>1
  <2>3. k \in Int /\ l \in Int /\ InColumn(a[1], g, cell, L, s, k) /\ InColumn(a[2], h, cell, L, s, l)
    BY <2>2, Divides DEF InColumn
  <2> HIDE DEF k, l
  <2>4. k \in p[1] \div cell - 1 .. p[1] \div cell + 1
    BY <1>1, <2>1, <2>3, NearColumn
  <2>5. l \in p[2] \div cell - 1 .. p[2] \div cell + 1
    BY <1>1, <2>1, <2>3, NearColumn
  <2>6. <<k, l>> \in Position /\ <<k, l>>[1] = k /\ <<k, l>>[2] = l
    BY <2>3 DEF Position
  <2>7. <<k, l>> \in SegmentCells(a, b, cell)
    <3> DEFINE K == <<k, l>>
    <3>1. K \in Position /\ InColumn(a[1], b[1] - a[1], cell, L, s, K[1]) /\ InColumn(a[2], b[2] - a[2], cell, L, s, K[2])
      BY <2>3, <2>6 DEF g, h
    <3> HIDE DEF K
    <3>2. K \in SegmentCells(a, b, cell)
      BY <2>1, <3>1, FilesWhereItGoes
    <3> QED BY <3>2 DEF K
  <2> QED BY <2>4, <2>5, <2>6, <2>7
<1> HIDE DEF length, along, across
<1>4. CASE length = 0 \/ along <= 0
  <2>1. x * x + y * y <= cell * cell
    BY <1>3, <1>4
  <2>2. -cell <= x /\ x <= cell /\ -cell <= y /\ y <= cell
    <3> HIDE DEF x, y
    <3> QED BY <1>1, <2>1, NearPoint
  <2>3. Within(p[1], 1 * a[1] + 0 * g, cell, 1) /\ Within(p[2], 1 * a[2] + 0 * h, cell, 1)
    <3>1. 1 * a[1] + 0 * g = a[1] /\ 1 * a[2] + 0 * h = a[2] /\ cell * 1 = cell /\ 1 * p[1] = p[1] /\ 1 * p[2] = p[2]
      BY <1>1
    <3> QED BY <2>2, <3>1 DEF Within
  <2>4. 1 \in Nat \ {0} /\ 0 \in 0 .. 1 /\ 0 \in Int
    OBVIOUS
  <2> QED BY <2>3, <2>4
<1>5. CASE ~ (length = 0 \/ along <= 0) /\ along >= length
  <2>1. v1 * v1 + v2 * v2 <= cell * cell
    BY <1>3, <1>5
  <2>2. -cell <= v1 /\ v1 <= cell /\ -cell <= v2 /\ v2 <= cell
    <3> HIDE DEF v1, v2
    <3> QED BY <1>1, <2>1, NearPoint
  <2>3. Within(p[1], 1 * a[1] + 1 * g, cell, 1) /\ Within(p[2], 1 * a[2] + 1 * h, cell, 1)
    <3>1. 1 * a[1] + 1 * g = b[1] /\ 1 * a[2] + 1 * h = b[2] /\ cell * 1 = cell /\ 1 * p[1] = p[1] /\ 1 * p[2] = p[2]
      BY <1>1
    <3> QED BY <2>2, <3>1 DEF Within
  <2>4. 1 \in Nat \ {0} /\ 1 \in 0 .. 1 /\ 1 \in Int
    OBVIOUS
  <2> QED BY <2>3, <2>4
<1>6. CASE ~ (length = 0 \/ along <= 0) /\ along < length
  <2>1. length \in Nat \ {0} /\ along \in 0 .. length /\ along \in Int
    BY <1>2, <1>6
  <2>2. across * across <= (cell * cell) * length
    <3>1. ~ (along >= length)
      BY <1>2, <1>6
    <3> QED BY <1>3, <1>6, <3>1
  <2>3. /\ -(cell * length) <= length * x - along * g /\ length * x - along * g <= cell * length
        /\ -(cell * length) <= length * y - along * h /\ length * y - along * h <= cell * length
    <3> HIDE DEF g, h, x, y
    <3>1. length = g * g + h * h /\ (x * h - y * g) * (x * h - y * g) <= (cell * cell) * length
      BY <2>2 DEF length, across
    <3>2. /\ -(cell * length) <= length * x - (x * g + y * h) * g /\ length * x - (x * g + y * h) * g <= cell * length
          /\ -(cell * length) <= length * y - (x * g + y * h) * h /\ length * y - (x * g + y * h) * h <= cell * length
      BY <1>1, <2>1, <3>1, FootOfPerpendicular
    <3> QED BY <3>2 DEF along
  <2>4. Within(p[1], length * a[1] + along * g, cell, length) /\ Within(p[2], length * a[2] + along * h, cell, length)
    <3>1. length * p[1] - (length * a[1] + along * g) = length * (p[1] - a[1]) - along * g
      <4> HIDE DEF g
      <4> QED BY <1>1, <2>1
    <3>2. length * p[2] - (length * a[2] + along * h) = length * (p[2] - a[2]) - along * h
      <4> HIDE DEF h
      <4> QED BY <1>1, <2>1
    <3>3. x = p[1] - a[1] /\ y = p[2] - a[2]
      OBVIOUS
    <3> HIDE DEF g, h, x, y
    <3> QED BY <2>3, <3>1, <3>2, <3>3 DEF Within
  <2> QED BY <2>1, <2>4
<1> QED BY <1>2, <1>4, <1>5, <1>6

\* Looking at the cells around a point misses no segment of a line near it.
THEOREM GridMissesNothing ==
    ASSUME NEW line \in Seq(Position), line # <<>>, NEW tolerance \in Nat \ {0}, NEW p \in Position
    PROVE  Reaches(line, tolerance, p) = LiesNear(line, tolerance, p)
<1>1. ASSUME NEW s \in Segments(line) PROVE s[1] \in Position /\ s[2] \in Position
  <2>1. Len(line) \in Nat \ {0} /\ \A i \in 1 .. Len(line) : line[i] \in Position
    OBVIOUS
  <2>2. CASE Len(line) = 1
    <3>1. s = <<line[1], line[1]>> /\ 1 \in 1 .. Len(line)
      BY <2>2 DEF Segments
    <3> QED BY <2>1, <3>1
  <2>3. CASE Len(line) # 1
    <3>1. PICK i \in 1 .. Len(line) - 1 : s = <<line[i], line[i + 1]>>
      BY <2>3 DEF Segments
    <3>2. i \in 1 .. Len(line) /\ i + 1 \in 1 .. Len(line)
      BY <2>1
    <3> QED BY <2>1, <3>1, <3>2
  <2> QED BY <2>2, <2>3
<1> DEFINE here == CellOf(p, tolerance)
           around == (here[1] - 1 .. here[1] + 1) \X (here[2] - 1 .. here[2] + 1)
           Filed(s) == SegmentCells(s[1], s[2], tolerance) \cap around # {}
<1>2. ASSUME NEW s \in Segments(line), NearSegment(p, s[1], s[2], tolerance) PROVE Filed(s)
  <2>1. PICK K \in SegmentCells(s[1], s[2], tolerance) :
          /\ K \in Position
          /\ K[1] \in p[1] \div tolerance - 1 .. p[1] \div tolerance + 1
          /\ K[2] \in p[2] \div tolerance - 1 .. p[2] \div tolerance + 1
    BY <1>1, <1>2, NearCell
  <2>2. here[1] = p[1] \div tolerance /\ here[2] = p[2] \div tolerance
    BY CellIs
  <2> HIDE DEF here
  <2>3. K = <<K[1], K[2]>>
    BY <2>1 DEF Position
  <2>4. K[1] \in here[1] - 1 .. here[1] + 1 /\ K[2] \in here[2] - 1 .. here[2] + 1
    BY <2>1, <2>2
  <2>5. K \in around
    BY <2>3, <2>4
  <2> QED BY <2>5
<1>3. Reaches(line, tolerance, p) <=> \E s \in Segments(line) : Filed(s) /\ NearSegment(p, s[1], s[2], tolerance)
  BY DEF Reaches
<1> HIDE DEF Filed
<1>4. Reaches(line, tolerance, p) <=> LiesNear(line, tolerance, p)
  BY <1>2, <1>3 DEF LiesNear
<1>5. Reaches(line, tolerance, p) \in BOOLEAN /\ LiesNear(line, tolerance, p) \in BOOLEAN
  BY DEF Reaches, LiesNear
<1> QED BY <1>4, <1>5

-----------------------------------------------------------------------------
(* A line's pieces.                                                        *)

\* A piece has a middle.
LEMMA PieceIs ==
    /\ Piece \in Nat \ {0} /\ Piece \div 2 \in Nat
    /\ Piece = 2 * (Piece \div 2)
BY FiguresAssumption

\* A crossing is a position.
LEMMA CrossingIs ==
    ASSUME NEW p \in Crossings
    PROVE  p \in Position /\ p[1] \in Int /\ p[2] \in Int /\ p[1] % Piece = 0 /\ p[2] % Piece = 0
BY DEF Crossings, Position

\* Crossings lie whole pieces apart.
LEMMA WholePieces ==
    ASSUME NEW x \in Int, NEW y \in Int, NEW m \in Nat \ {0}, x % m = 0, y % m = 0
    PROVE  \E n \in Int : y - x = n * m
<1>1. x = m * (x \div m) /\ y = m * (y \div m) /\ x \div m \in Int /\ y \div m \in Int
  OBVIOUS
<1> DEFINE n == y \div m - x \div m
<1>2. n \in Int
  BY <1>1
<1>3. n * m = m * (y \div m) - m * (x \div m)
  BY <1>1
<1>4. y - x = n * m
  BY <1>1, <1>3
<1> QED BY <1>2, <1>4

\* How far some pieces go, and which way.
LEMMA SizeOfPieces ==
    ASSUME NEW n \in Int, NEW m \in Nat \ {0}
    PROVE  /\ Size(n * m) = Size(n) * m /\ Size(n) \in Nat
           /\ n * m = 0 <=> n = 0
           /\ n * m = Towards(n * m) * (Size(n) * m)
           /\ Size(-n * m) = Size(n * m) /\ Towards(-(n * m)) = -Towards(n * m)
<1>1. CASE n > 0
  <2>1. n * m > 0 /\ n * m \in Int
    BY <1>1
  <2>2. Size(n) = n /\ Size(n * m) = n * m /\ Towards(n * m) = 1 /\ Size(-(n * m)) = n * m /\ Towards(-(n * m)) = -1
    BY <1>1, <2>1 DEF Size, Towards
  <2>3. (-n) * m = -(n * m)
    OBVIOUS
  <2> QED BY <1>1, <2>1, <2>2, <2>3
<1>2. CASE n < 0
  <2>1. n * m < 0 /\ n * m \in Int
    <3>1. (-n) * m > 0
      BY <1>2
    <3>2. (-n) * m = -(n * m)
      OBVIOUS
    <3> QED BY <3>1, <3>2
  <2>2. Size(n) = -n /\ Size(n * m) = -(n * m) /\ Towards(n * m) = -1 /\ Size(-(n * m)) = -(n * m) /\ Towards(-(n * m)) = 1
    BY <1>2, <2>1 DEF Size, Towards
  <2>3. (-n) * m = -(n * m)
    OBVIOUS
  <2> QED BY <1>2, <2>1, <2>2, <2>3
<1>3. CASE n = 0
  <2>1. n * m = 0 /\ Size(n) = 0 /\ Size(0) = 0 /\ Towards(0) = 0
    BY <1>3 DEF Size, Towards
  <2> QED BY <1>3, <2>1
<1> QED BY <1>1, <1>2, <1>3

-----------------------------------------------------------------------------
\* Where the middle of the i-th piece is on an axis.
MiddleAt(x, d, i) == x + Towards(d) * (Piece * i - Piece \div 2)

\* From the other end it is the middle of the i-th piece from there.
LEMMA MiddleFromEnd ==
    ASSUME NEW x \in Int, NEW d \in Int, NEW n \in Nat, NEW i \in 1 .. n,
           d = Towards(d) * (n * Piece), Towards(-d) = -Towards(d)
    PROVE  MiddleAt(x + d, -d, i) = MiddleAt(x, d, n - i + 1)
<1>1. PICK h \in Nat : h = Piece \div 2
  BY PieceIs
<1>2. Piece = 2 * h
  BY <1>1, PieceIs
<1>3. PICK t \in Int : t = Towards(d)
  BY Direction
<1>4. MiddleAt(x, d, n - i + 1) = x + t * ((2 * h) * (n - i + 1) - h)
  BY <1>1, <1>2, <1>3 DEF MiddleAt
<1>5. MiddleAt(x + d, -d, i) = x + d + (-t) * ((2 * h) * i - h)
  BY <1>1, <1>2, <1>3 DEF MiddleAt
<1>6. d = t * (n * (2 * h))
  BY <1>2, <1>3
<1>7. t * ((2 * h) * (n - i + 1) - h) = t * (n * (2 * h)) + (-t) * ((2 * h) * i - h)
  OBVIOUS
<1>8. /\ t * ((2 * h) * (n - i + 1) - h) \in Int /\ (-t) * ((2 * h) * i - h) \in Int
      /\ t * (n * (2 * h)) \in Int
  OBVIOUS
<1> QED BY <1>4, <1>5, <1>6, <1>7, <1>8

\* What is measured.
PieceSet == [middle : Position, length : Int]

\* A segment along an axis.
AlongAxis(a, b) == a[1] = b[1] \/ a[2] = b[2]

\* How many pieces, and where: the same from either end.
LEMMA PiecesBetween ==
    ASSUME NEW a \in Crossings, NEW b \in Crossings, AlongAxis(a, b)
    PROVE  \E n \in Nat : /\ Between(a, b) \div Piece = n /\ Between(b, a) \div Piece = n
                          /\ b[1] - a[1] = Towards(b[1] - a[1]) * (n * Piece)
                          /\ b[2] - a[2] = Towards(b[2] - a[2]) * (n * Piece)
<1>1. /\ a[1] \in Int /\ a[2] \in Int /\ b[1] \in Int /\ b[2] \in Int
      /\ a[1] % Piece = 0 /\ a[2] % Piece = 0 /\ b[1] % Piece = 0 /\ b[2] % Piece = 0
  BY CrossingIs
<1>2. PICK m \in Nat \ {0} : m = Piece
  BY PieceIs
<1>3. PICK k \in Int : b[1] - a[1] = k * m
  BY <1>1, <1>2, WholePieces
<1>4. PICK l \in Int : b[2] - a[2] = l * m
  BY <1>1, <1>2, WholePieces
<1>5. a[1] - b[1] = -(k * m) /\ a[2] - b[2] = -(l * m)
  BY <1>1, <1>3, <1>4
<1>6. Size(0) = 0 /\ Towards(0) = 0
  BY DEF Size, Towards
<1>7. ASSUME NEW j \in Int
      PROVE  /\ Size(j * m) = Size(j) * m /\ Size(-(j * m)) = Size(j) * m /\ Size(j) \in Nat
             /\ j * m = Towards(j * m) * (Size(j) * m)
             /\ (Size(j) * m) \div m = Size(j)
  <2>1. Size(j * m) = Size(j) * m /\ Size(j) \in Nat /\ j * m = Towards(j * m) * (Size(j) * m)
        /\ Size(-j * m) = Size(j * m)
    BY SizeOfPieces
  <2>2. -j * m = -(j * m)
    OBVIOUS
  <2>3. PICK i \in Nat : i = Size(j)
    BY <2>1
  <2>4. (i * m) \div m = i
    OBVIOUS
  <2> QED BY <2>1, <2>2, <2>3, <2>4
<1>8. ASSUME NEW i \in Int, NEW j \in Int, i = 0 \/ j = 0
      PROVE  \E n \in Nat : /\ (Size(i * m) + Size(j * m)) \div m = n
                            /\ (Size(-(i * m)) + Size(-(j * m))) \div m = n
                            /\ i * m = Towards(i * m) * (n * m)
                            /\ j * m = Towards(j * m) * (n * m)
  <2>1. CASE i = 0
    <3>1. i * m = 0 /\ -(i * m) = 0
      BY <2>1
    <3>2. PICK n \in Nat : n = Size(j)
      BY <1>7
    <3>3. Towards(0) * (n * m) = 0
      BY <1>6
    <3>4. n * m \in Int /\ 0 + n * m = n * m
      OBVIOUS
    <3> QED BY <1>6, <1>7, <3>1, <3>2, <3>3, <3>4
  <2>2. CASE j = 0
    <3>1. j * m = 0 /\ -(j * m) = 0
      BY <2>2
    <3>2. PICK n \in Nat : n = Size(i)
      BY <1>7
    <3>3. Towards(0) * (n * m) = 0
      BY <1>6
    <3>4. n * m \in Int /\ n * m + 0 = n * m
      OBVIOUS
    <3> QED BY <1>6, <1>7, <3>1, <3>2, <3>3, <3>4
  <2> QED BY <1>8, <2>1, <2>2
<1>9. k = 0 \/ l = 0
  <2>1. k * m = 0 \/ l * m = 0
    BY <1>1, <1>3, <1>4 DEF AlongAxis
  <2> QED BY <2>1, SizeOfPieces
<1>10. PICK n \in Nat : /\ (Size(k * m) + Size(l * m)) \div m = n
                        /\ (Size(-(k * m)) + Size(-(l * m))) \div m = n
                        /\ k * m = Towards(k * m) * (n * m)
                        /\ l * m = Towards(l * m) * (n * m)
  BY <1>8, <1>9
<1>11. Between(a, b) = Size(k * m) + Size(l * m) /\ Between(b, a) = Size(-(k * m)) + Size(-(l * m))
  BY <1>3, <1>4, <1>5 DEF Between
<1>12. Between(a, b) \div Piece = n /\ Between(b, a) \div Piece = n
  BY <1>2, <1>10, <1>11, Zenon
<1>13. b[1] - a[1] = Towards(b[1] - a[1]) * (n * Piece) /\ b[2] - a[2] = Towards(b[2] - a[2]) * (n * Piece)
  BY <1>2, <1>3, <1>4, <1>10, Zenon
<1> QED BY <1>12, <1>13

-----------------------------------------------------------------------------
(* Sequences read backwards.                                               *)

\* Backwards, each is where it was from the other end.
LEMMA Reversed ==
    ASSUME NEW S, NEW s \in Seq(S)
    PROVE  /\ Reverse(s) \in Seq(S) /\ Len(Reverse(s)) = Len(s)
           /\ \A i \in 1 .. Len(s) : Reverse(s)[i] = s[Len(s) - i + 1] /\ Len(s) - i + 1 \in 1 .. Len(s)
<1>1. Len(s) \in Nat /\ \A i \in 1 .. Len(s) : s[i] \in S
  OBVIOUS
<1>2. \A i \in 1 .. Len(s) : Len(s) - i + 1 \in 1 .. Len(s)
  BY <1>1
<1>3. Reverse(s) = [i \in 1 .. Len(s) |-> s[(Len(s) - i) + 1]]
  BY DEF Reverse
<1> QED BY <1>1, <1>2, <1>3

\* Backwards twice is forwards.
LEMMA ReversedTwice ==
    ASSUME NEW S, NEW s \in Seq(S)
    PROVE  Reverse(Reverse(s)) = s
<1> DEFINE r == Reverse(s)
<1>1. r \in Seq(S) /\ Len(r) = Len(s) /\ \A i \in 1 .. Len(s) : r[i] = s[Len(s) - i + 1] /\ Len(s) - i + 1 \in 1 .. Len(s)
  BY Reversed
<1> HIDE DEF r
<1>2. Reverse(r) \in Seq(S) /\ Len(Reverse(r)) = Len(r) /\ \A i \in 1 .. Len(r) : Reverse(r)[i] = r[Len(r) - i + 1]
  BY <1>1, Reversed
<1>3. ASSUME NEW i \in 1 .. Len(s) PROVE Reverse(r)[i] = s[i]
  <2>1. Len(s) - i + 1 \in 1 .. Len(s) /\ Len(s) - (Len(s) - i + 1) + 1 = i
    OBVIOUS
  <2> QED BY <1>1, <1>2, <2>1
<1>4. Reverse(r) = s
  BY <1>1, <1>2, <1>3, SeqEqual
<1> QED BY <1>4 DEF r

\* Backwards, the second comes first.
LEMMA ReversedConcat ==
    ASSUME NEW S, NEW s \in Seq(S), NEW t \in Seq(S)
    PROVE  Reverse(s \o t) = Reverse(t) \o Reverse(s)
<1> DEFINE u == s \o t
           v == Reverse(t)
           w == Reverse(s)
<1>1. u \in Seq(S) /\ Len(u) = Len(s) + Len(t)
      /\ \A i \in 1 .. Len(s) + Len(t) : u[i] = IF i <= Len(s) THEN s[i] ELSE t[i - Len(s)]
  BY ConcatProperties
<1>2. v \in Seq(S) /\ Len(v) = Len(t) /\ \A i \in 1 .. Len(t) : v[i] = t[Len(t) - i + 1]
  BY Reversed
<1>3. w \in Seq(S) /\ Len(w) = Len(s) /\ \A i \in 1 .. Len(s) : w[i] = s[Len(s) - i + 1]
  BY Reversed
<1> HIDE DEF u, v, w
<1>4. Reverse(u) \in Seq(S) /\ Len(Reverse(u)) = Len(u) /\ \A i \in 1 .. Len(u) : Reverse(u)[i] = u[Len(u) - i + 1]
  BY <1>1, Reversed
<1>5. v \o w \in Seq(S) /\ Len(v \o w) = Len(v) + Len(w)
      /\ \A i \in 1 .. Len(v) + Len(w) : (v \o w)[i] = IF i <= Len(v) THEN v[i] ELSE w[i - Len(v)]
  <2>1. v \in Seq(S) /\ w \in Seq(S)
    BY <1>2, <1>3
  <2> QED BY <2>1, ConcatProperties, Zenon
<1>6. Len(s) \in Nat /\ Len(t) \in Nat
  OBVIOUS
<1>7. ASSUME NEW i \in 1 .. Len(s) + Len(t) PROVE Reverse(u)[i] = (v \o w)[i]
  <2> DEFINE j == Len(s) + Len(t) - i + 1
  <2>1. j \in 1 .. Len(s) + Len(t) /\ Reverse(u)[i] = u[j]
    BY <1>1, <1>4, <1>6
  <2>2. CASE i <= Len(t)
    <3>1. ~ (j <= Len(s)) /\ j - Len(s) = Len(t) - i + 1 /\ i \in 1 .. Len(t)
      BY <1>6, <2>2
    <3>2. u[j] = t[Len(t) - i + 1]
      BY <1>1, <2>1, <3>1
    <3>3. (v \o w)[i] = t[Len(t) - i + 1]
      <4>1. i \in 1 .. Len(v) + Len(w) /\ i <= Len(v)
        BY <1>2, <1>3, <1>6, <2>2
      <4> QED BY <1>2, <1>5, <3>1, <4>1
    <3> QED BY <2>1, <3>2, <3>3
  <2>3. CASE ~ (i <= Len(t))
    <3>1. j <= Len(s) /\ i - Len(t) \in 1 .. Len(s) /\ Len(s) - (i - Len(t)) + 1 = j
      BY <1>6, <2>3
    <3>2. u[j] = s[j]
      BY <1>1, <2>1, <3>1
    <3>3. (v \o w)[i] = s[j]
      <4>1. i \in 1 .. Len(v) + Len(w) /\ ~ (i <= Len(v))
        BY <1>2, <1>3, <1>6, <2>3
      <4>2. (v \o w)[i] = w[i - Len(t)]
        BY <1>2, <1>5, <4>1
      <4> QED BY <1>3, <3>1, <4>2
    <3> QED BY <2>1, <3>2, <3>3
  <2> QED BY <2>2, <2>3
<1>8. Reverse(u) = v \o w
  BY <1>1, <1>2, <1>3, <1>4, <1>5, <1>6, <1>7, SeqEqual
<1> QED BY <1>8 DEF u, v, w

\* The pieces of a segment from its other end.
LEMMA PiecesReversed ==
    ASSUME NEW a \in Crossings, NEW b \in Crossings, AlongAxis(a, b)
    PROVE  Pieces(a, b) \in Seq(PieceSet) /\ Pieces(b, a) = Reverse(Pieces(a, b))
<1>1. a \in Position /\ b \in Position /\ a[1] \in Int /\ a[2] \in Int /\ b[1] \in Int /\ b[2] \in Int
  BY CrossingIs
<1>2. CASE a = b
  <2> DEFINE e == [middle |-> a, length |-> 0]
  <2>1. e \in PieceSet
    BY <1>1 DEF PieceSet
  <2>2. Pieces(a, b) = <<e>> /\ Pieces(b, a) = <<e>>
    BY <1>2 DEF Pieces
  <2> HIDE DEF e
  <2> DEFINE q == <<e>>
  <2>3. q \in Seq(PieceSet) /\ Len(q) = 1 /\ q[1] = e
    BY <2>1
  <2>4. Pieces(a, b) = q /\ Pieces(b, a) = q
    BY <2>2
  <2> HIDE DEF q
  <2>5. /\ Reverse(q) \in Seq(PieceSet) /\ Len(Reverse(q)) = Len(q)
        /\ \A i \in 1 .. Len(q) : Reverse(q)[i] = q[Len(q) - i + 1] /\ Len(q) - i + 1 \in 1 .. Len(q)
    BY <2>3, Reversed
  <2>6. \A i \in 1 .. 1 : Reverse(q)[i] = q[i]
    BY <2>3, <2>5
  <2>7. Reverse(q) = q
    BY <2>3, <2>5, <2>6, SeqEqual
  <2> QED BY <2>3, <2>4, <2>7
<1>3. CASE a # b
  <2> DEFINE g == b[1] - a[1]
             h == b[2] - a[2]
             Middle(i) == <<MiddleAt(a[1], g, i), MiddleAt(a[2], h, i)>>
             Back(i) == <<MiddleAt(b[1], -g, i), MiddleAt(b[2], -h, i)>>
  <2>1. PICK n \in Nat : /\ Between(a, b) \div Piece = n /\ Between(b, a) \div Piece = n
                         /\ g = Towards(g) * (n * Piece) /\ h = Towards(h) * (n * Piece)
    BY PiecesBetween
  <2>2. g \in Int /\ h \in Int /\ a[1] - b[1] = -g /\ a[2] - b[2] = -h
        /\ a[1] + g = b[1] /\ a[2] + h = b[2]
    BY <1>1
  <2>3. Pieces(a, b) = [i \in 1 .. n |-> [middle |-> Middle(i), length |-> Piece]]
    BY <1>3, <2>1 DEF Pieces, MiddleAt
  <2>4. Pieces(b, a) = [i \in 1 .. n |-> [middle |-> Back(i), length |-> Piece]]
    <3>1. b # a
      BY <1>3
    <3> HIDE DEF g, h
    <3>2. Pieces(b, a) = [i \in 1 .. n |-> [middle |-> <<b[1] + Towards(-g) * (Piece * i - Piece \div 2),
                                                      b[2] + Towards(-h) * (Piece * i - Piece \div 2)>>,
                                            length |-> Piece]]
      BY <2>1, <2>2, <3>1 DEF Pieces
    <3> QED BY <3>2 DEF MiddleAt
  <2> HIDE DEF g, h
  <2>5. ASSUME NEW x \in Int, NEW d \in Int, NEW i \in Int PROVE MiddleAt(x, d, i) \in Int
    <3>1. PICK t \in Int : t = Towards(d)
      BY Direction
    <3>2. PICK m \in Nat : m = Piece
      BY PieceIs
    <3>3. PICK k \in Nat : k = Piece \div 2
      BY PieceIs
    <3>4. x + t * (m * i - k) \in Int
      OBVIOUS
    <3> QED BY <3>1, <3>2, <3>3, <3>4 DEF MiddleAt
  <2>6. ASSUME NEW i \in Int PROVE [middle |-> Middle(i), length |-> Piece] \in PieceSet
    <3>1. MiddleAt(a[1], g, i) \in Int /\ MiddleAt(a[2], h, i) \in Int
      BY <1>1, <2>2, <2>5
    <3>2. Middle(i) \in Position
      BY <3>1 DEF Position
    <3> HIDE DEF Middle
    <3> QED BY <3>2, PieceIs DEF PieceSet
  <2>7. Pieces(a, b) \in Seq(PieceSet) /\ Len(Pieces(a, b)) = n
        /\ \A i \in 1 .. n : Pieces(a, b)[i] = [middle |-> Middle(i), length |-> Piece]
    <3> HIDE DEF Middle
    <3> QED BY <2>3, <2>6
  <2>8. ASSUME NEW i \in 1 .. n PROVE Back(i) = Middle(n - i + 1)
    <3>1. Towards(-g) = -Towards(g) /\ Towards(-h) = -Towards(h)
      BY <2>2 DEF Towards
    <3>2. MiddleAt(a[1] + g, -g, i) = MiddleAt(a[1], g, n - i + 1)
      BY <1>1, <2>1, <2>2, <3>1, MiddleFromEnd
    <3>3. MiddleAt(a[2] + h, -h, i) = MiddleAt(a[2], h, n - i + 1)
      BY <1>1, <2>1, <2>2, <3>1, MiddleFromEnd
    <3> QED BY <2>2, <3>2, <3>3
  <2> HIDE DEF Middle, Back
  <2>9. Reverse(Pieces(a, b)) \in Seq(PieceSet) /\ Len(Reverse(Pieces(a, b))) = n
        /\ \A i \in 1 .. n : Reverse(Pieces(a, b))[i] = Pieces(a, b)[n - i + 1] /\ n - i + 1 \in 1 .. n
    BY <2>7, Reversed
  <2>10. \A i \in 1 .. n : Reverse(Pieces(a, b))[i] = [middle |-> Back(i), length |-> Piece]
    BY <2>7, <2>8, <2>9
  <2>11. Pieces(b, a) \in Seq(PieceSet) /\ Len(Pieces(b, a)) = n
        /\ \A i \in 1 .. n : Pieces(b, a)[i] = [middle |-> Back(i), length |-> Piece]
    <3>1. ASSUME NEW i \in 1 .. n PROVE [middle |-> Back(i), length |-> Piece] \in PieceSet
      <4>1. n - i + 1 \in Int
        OBVIOUS
      <4> QED BY <2>6, <2>8, <4>1
    <3> QED BY <2>4, <3>1
  <2>12. Pieces(b, a) = Reverse(Pieces(a, b))
    BY <2>9, <2>10, <2>11, SeqEqual
  <2> QED BY <2>7, <2>12
<1> QED BY <1>2, <1>3

-----------------------------------------------------------------------------
(* A line's pieces.                                                        *)

\* The same from the first on.
StepwiseFrom(n, init, step, w) ==
    (n >= 1 => w[1] = init) /\ \A k \in 2 .. n : w[k] = step[k][w[k - 1]]

\* The same, counted from one.
LEMMA RecursionFromOne ==
    ASSUME NEW D, NEW n \in Nat, NEW init \in D, NEW step \in [2 .. n -> [D -> D]]
    PROVE  \E w \in [1 .. n -> D] : StepwiseFrom(n, init, step, w)
<1>1. CASE n = 0
  <2> DEFINE w == [k \in 1 .. n |-> init]
  <2>1. w \in [1 .. n -> D]
    OBVIOUS
  <2>2. StepwiseFrom(n, init, step, w)
    BY <1>1 DEF StepwiseFrom
  <2> HIDE DEF w
  <2> QED BY <2>1, <2>2
<1>2. CASE n # 0
  <2> DEFINE m == n - 1
             next == [k \in 1 .. m |-> step[k + 1]]
  <2>1. m \in Nat
    BY <1>2
  <2>2. next \in [1 .. m -> [D -> D]]
    <3>1. ASSUME NEW k \in 1 .. m PROVE step[k + 1] \in [D -> D]
      <4>1. k + 1 \in 2 .. n
        BY <3>1
      <4> QED BY <4>1
    <3> QED BY <3>1
  <2>3. \A k \in 1 .. m : next[k] = step[k + 1]
    OBVIOUS
  <2> HIDE DEF next
  <2>4. PICK v \in [0 .. m -> D] : Stepwise(m, init, next, v)
    <3> HIDE DEF m
    <3> QED BY <2>1, <2>2, Recursion
  <2>5. v[0] = init /\ \A k \in 1 .. m : v[k] = next[k][v[k - 1]]
    <3> HIDE DEF m
    <3> QED BY <2>4 DEF Stepwise
  <2> DEFINE w == [k \in 1 .. n |-> v[k - 1]]
  <2>6. w \in [1 .. n -> D]
    <3>1. ASSUME NEW k \in 1 .. n PROVE v[k - 1] \in D
      <4>1. k - 1 \in 0 .. m
        BY <3>1
      <4> QED BY <2>4, <4>1
    <3> QED BY <3>1
  <2>7. \A k \in 1 .. n : w[k] = v[k - 1]
    OBVIOUS
  <2> HIDE DEF w
  <2>8. w[1] = init
    <3>1. 1 \in 1 .. n
      BY <1>2
    <3> QED BY <2>5, <2>7, <3>1
  <2>9. ASSUME NEW k \in 2 .. n PROVE w[k] = step[k][w[k - 1]]
    <3>1. k \in 1 .. n /\ k - 1 \in 1 .. n /\ k - 1 \in 1 .. m /\ (k - 1) + 1 = k
      BY <1>2
    <3>2. w[k] = v[k - 1] /\ w[k - 1] = v[(k - 1) - 1]
      BY <2>7, <3>1
    <3>3. v[k - 1] = next[k - 1][v[(k - 1) - 1]] /\ next[k - 1] = step[k]
      BY <2>3, <2>5, <3>1
    <3> QED BY <3>2, <3>3
  <2> QED BY <2>6, <2>8, <2>9 DEF StepwiseFrom
<1> QED BY <1>1, <1>2

\* The lines that are matched.
Lines == {line \in Seq(Crossings) : line # <<>> /\ AlongAxes(line)}

\* A line's points, each along an axis from the one before it.
LEMMA LineIs ==
    ASSUME NEW line \in Lines
    PROVE  /\ line \in Seq(Crossings) /\ line # <<>> /\ Len(line) \in Nat \ {0}
           /\ DOMAIN line = 1 .. Len(line)
           /\ \A k \in 1 .. Len(line) : line[k] \in Crossings
           /\ \A k \in 2 .. Len(line) : /\ k - 1 \in 1 .. Len(line) /\ k \in 1 .. Len(line)
                                        /\ AlongAxis(line[k - 1], line[k])
<1>1. line \in Seq(Crossings) /\ line # <<>>
  BY DEF Lines
<1>2. Len(line) \in Nat \ {0} /\ DOMAIN line = 1 .. Len(line)
  BY <1>1
<1>3. \A k \in 1 .. Len(line) : line[k] \in Crossings
  BY <1>1
<1>4. ASSUME NEW k \in 2 .. Len(line)
      PROVE  k - 1 \in 1 .. Len(line) /\ k \in 1 .. Len(line) /\ AlongAxis(line[k - 1], line[k])
  <2>1. line[k][1] = line[k - 1][1] \/ line[k][2] = line[k - 1][2]
    BY DEF Lines, AlongAxes
  <2>2. k - 1 \in 1 .. Len(line) /\ k \in 1 .. Len(line)
    BY <1>2
  <2> QED BY <2>1, <2>2 DEF AlongAxis
<1> QED BY <1>1, <1>2, <1>3, <1>4

\* The pieces up to a point are those up to the one before it, and those
\* between the two.
LEMMA PiecesUpTo ==
    ASSUME NEW line \in Lines
    PROVE  /\ \A k \in 1 .. Len(line) : PiecesOf(line)[k] \in Seq(PieceSet)
           /\ PiecesOf(line)[1] = <<>>
           /\ \A k \in 2 .. Len(line) :
                PiecesOf(line)[k] = PiecesOf(line)[k - 1] \o Pieces(line[k - 1], line[k])
<1> DEFINE n == Len(line)
           P(w) == w = [i \in DOMAIN line |->
                           IF i = 1 THEN <<>> ELSE w[i - 1] \o Pieces(line[i - 1], line[i])]
           F == PiecesOf(line)
           D == Seq(PieceSet)
           step == [k \in 2 .. n |-> [s \in D |-> s \o Pieces(line[k - 1], line[k])]]
<1>1. n \in Nat \ {0} /\ DOMAIN line = 1 .. n
  BY LineIs
<1>2. F = CHOOSE w : P(w)
  BY DEF PiecesOf
<1> HIDE DEF F
<1>3. ASSUME NEW k \in 2 .. n PROVE Pieces(line[k - 1], line[k]) \in D
  <2>1. line[k - 1] \in Crossings /\ line[k] \in Crossings /\ AlongAxis(line[k - 1], line[k])
    BY LineIs
  <2> QED BY <2>1, PiecesReversed
<1>4. ASSUME NEW s \in D, NEW k \in 2 .. n PROVE s \o Pieces(line[k - 1], line[k]) \in D
  <2>1. Pieces(line[k - 1], line[k]) \in D
    BY <1>3
  <2> QED BY <2>1, ConcatProperties
<1>5. step \in [2 .. n -> [D -> D]] /\ <<>> \in D
  <2>1. <<>> \in D
    OBVIOUS
  <2> HIDE DEF D, n
  <2> QED BY <1>4, <2>1
<1>6. PICK v \in [1 .. n -> D] : StepwiseFrom(n, <<>>, step, v)
  <2> HIDE DEF D, n, step
  <2> QED BY <1>1, <1>5, RecursionFromOne
<1>7. v[1] = <<>> /\ \A k \in 2 .. n : v[k] = v[k - 1] \o Pieces(line[k - 1], line[k])
  <2>1. v[1] = <<>> /\ \A k \in 2 .. n : v[k] = step[k][v[k - 1]]
    <3> HIDE DEF D, n, step
    <3> QED BY <1>1, <1>6 DEF StepwiseFrom
  <2>2. ASSUME NEW k \in 2 .. n PROVE step[k][v[k - 1]] = v[k - 1] \o Pieces(line[k - 1], line[k])
    <3>1. k - 1 \in 1 .. n
      BY <1>1
    <3>2. v[k - 1] \in D
      <4> HIDE DEF D, n
      <4> QED BY <1>6, <3>1
    <3> HIDE DEF D, n
    <3> QED BY <3>2
  <2> HIDE DEF step
  <2> QED BY <2>1, <2>2
<1>8. P(v)
  <2> HIDE DEF D, step, n
  <2>1. ASSUME NEW k \in 1 .. n, k # 1 PROVE k \in 2 .. n
    BY <1>1, <2>1
  <2>2. \A k \in 1 .. n : v[k] = IF k = 1 THEN <<>> ELSE v[k - 1] \o Pieces(line[k - 1], line[k])
    BY <1>7, <2>1
  <2>3. v = [k \in 1 .. n |-> v[k]]
    BY <1>6
  <2> QED BY <1>1, <2>2, <2>3
<1>9. P(F)
  <2> HIDE DEF P
  <2> QED BY <1>2, <1>8, Zenon
<1> HIDE DEF n, step
<1>10. \A k \in 1 .. n : F[k] = IF k = 1 THEN <<>> ELSE F[k - 1] \o Pieces(line[k - 1], line[k])
  BY <1>1, <1>9
<1> HIDE DEF P
<1>11. F[1] = <<>> /\ \A k \in 2 .. n : F[k] = F[k - 1] \o Pieces(line[k - 1], line[k])
  <2>1. 1 \in 1 .. n /\ \A k \in 2 .. n : k \in 1 .. n /\ k # 1
    BY <1>1
  <2> QED BY <1>10, <2>1
<1>12. \A k \in 1 .. n : F[k] \in D
  <2> DEFINE S == {m \in Nat : m + 1 <= n => F[m + 1] \in D}
  <2>1. 0 \in S
    <3>1. 0 + 1 = 1 /\ F[1] \in D
      BY <1>5, <1>11
    <3> HIDE DEF D
    <3> QED BY <3>1
  <2>2. ASSUME NEW m \in Nat, m \in S PROVE m + 1 \in S
    <3> SUFFICES ASSUME (m + 1) + 1 <= n PROVE F[(m + 1) + 1] \in D
      OBVIOUS
    <3>1. (m + 1) + 1 \in 2 .. n /\ ((m + 1) + 1) - 1 = m + 1 /\ m + 1 <= n
      BY <1>1
    <3>2. F[m + 1] \in D
      BY <2>2, <3>1
    <3> HIDE DEF D
    <3>3. F[(m + 1) + 1] = F[m + 1] \o Pieces(line[((m + 1) + 1) - 1], line[(m + 1) + 1])
      BY <1>11, <3>1
    <3> QED BY <1>4, <3>1, <3>2, <3>3
  <2>3. Nat \subseteq S
    <3> HIDE DEF S
    <3> QED BY <2>1, <2>2, Induction
  <2>4. ASSUME NEW k \in 1 .. n PROVE F[k] \in D
    <3>1. k - 1 \in S /\ (k - 1) + 1 = k /\ k <= n
      <4> HIDE DEF S
      <4> QED BY <1>1, <2>3
    <3> HIDE DEF D
    <3> QED BY <3>1
  <2> QED BY <2>4
<1> QED BY <1>11, <1>12 DEF F, n

\* A line from its other end is a line.
LEMMA LineReversed ==
    ASSUME NEW line \in Lines
    PROVE  /\ Reverse(line) \in Lines /\ Len(Reverse(line)) = Len(line)
           /\ \A k \in 1 .. Len(line) : /\ Reverse(line)[k] = line[Len(line) - k + 1]
                                        /\ Len(line) - k + 1 \in 1 .. Len(line)
<1> DEFINE n == Len(line)
           r == Reverse(line)
<1>1. /\ line \in Seq(Crossings) /\ n \in Nat \ {0}
      /\ \A k \in 2 .. n : AlongAxis(line[k - 1], line[k])
  BY LineIs
<1>2. /\ r \in Seq(Crossings) /\ Len(r) = n
      /\ \A k \in 1 .. n : r[k] = line[n - k + 1] /\ n - k + 1 \in 1 .. n
  BY <1>1, Reversed
<1> HIDE DEF r, n
<1>3. AlongAxes(r)
  <2> SUFFICES ASSUME NEW k \in 2 .. n PROVE r[k][1] = r[k - 1][1] \/ r[k][2] = r[k - 1][2]
    BY <1>2 DEF AlongAxes
  <2> DEFINE m == n - k + 2
  <2>1. /\ k \in 1 .. n /\ k - 1 \in 1 .. n /\ m \in 2 .. n
        /\ m - 1 = n - k + 1 /\ m = n - (k - 1) + 1
    BY <1>1
  <2>2. r[k] = line[m - 1] /\ r[k - 1] = line[m]
    BY <1>2, <2>1
  <2>3. AlongAxis(line[m - 1], line[m])
    BY <1>1, <2>1
  <2> HIDE DEF m
  <2> QED BY <2>2, <2>3 DEF AlongAxis
<1>4. r # <<>>
  <2>1. Len(r) # 0
    BY <1>1, <1>2
  <2> QED BY <2>1
<1>5. r \in Lines
  BY <1>2, <1>3, <1>4 DEF Lines
<1> QED BY <1>2, <1>5 DEF r, n

\* A line's pieces from its other end.
LEMMA PiecesFromEnd ==
    ASSUME NEW line \in Lines
    PROVE  PiecesOf(Reverse(line))[Len(line)] = Reverse(PiecesOf(line)[Len(line)])
<1> DEFINE n == Len(line)
           r == Reverse(line)
           U == PiecesOf(line)
           V == PiecesOf(r)
           D == Seq(PieceSet)
           SoFar(m) == m + 1 <= n => U[n] = U[n - m] \o Reverse(V[m + 1])
           S == {m \in Nat : SoFar(m)}
<1>1. /\ n \in Nat \ {0}
      /\ \A k \in 1 .. n : line[k] \in Crossings
      /\ \A k \in 2 .. n : AlongAxis(line[k - 1], line[k])
  BY LineIs
<1>2. r \in Lines /\ Len(r) = n /\ \A k \in 1 .. n : r[k] = line[n - k + 1] /\ n - k + 1 \in 1 .. n
  BY LineReversed
<1>3. /\ \A k \in 1 .. n : U[k] \in D
      /\ U[1] = <<>>
      /\ \A k \in 2 .. n : U[k] = U[k - 1] \o Pieces(line[k - 1], line[k])
  BY PiecesUpTo
<1> HIDE DEF r
<1>4. /\ \A k \in 1 .. Len(r) : V[k] \in D
      /\ V[1] = <<>>
      /\ \A k \in 2 .. Len(r) : V[k] = V[k - 1] \o Pieces(r[k - 1], r[k])
  BY <1>2, PiecesUpTo
<1> HIDE DEF n, U, V
<1>5. Reverse(<<>>) = <<>>
  <2>1. <<>> \in D /\ Len(<<>>) = 0
    OBVIOUS
  <2>2. Reverse(<<>>) \in D /\ Len(Reverse(<<>>)) = 0
    <3> DEFINE e == <<>>
    <3>1. e \in Seq(PieceSet)
      OBVIOUS
    <3> HIDE DEF e
    <3>2. Reverse(e) \in Seq(PieceSet) /\ Len(Reverse(e)) = Len(e)
      BY <3>1, Reversed
    <3> QED BY <2>1, <3>2 DEF e
  <2> QED BY <2>2
<1>6. 0 \in S
  <2>1. n \in 1 .. n /\ n - 0 = n /\ 0 + 1 = 1
    BY <1>1
  <2>2. U[n] \o <<>> = U[n]
    <3>1. U[n] \in Seq(PieceSet)
      BY <1>3, <2>1
    <3> QED BY <3>1, ConcatEmptySeq
  <2> QED BY <1>4, <1>5, <2>1, <2>2
<1>7. ASSUME NEW m \in Nat, m \in S PROVE m + 1 \in S
  <2> SUFFICES SoFar(m + 1)
    <3> HIDE DEF SoFar
    <3> QED OBVIOUS
  <2> SUFFICES ASSUME (m + 1) + 1 <= n PROVE U[n] = U[n - (m + 1)] \o Reverse(V[(m + 1) + 1])
    OBVIOUS
  <2> DEFINE k == n - m
             l == m + 1
             one == Pieces(line[k - 1], line[k])
  <2>1. /\ k \in 2 .. n /\ k \in 1 .. n /\ k - 1 \in 1 .. n /\ l \in 1 .. n /\ l + 1 \in 1 .. n /\ l + 1 \in 2 .. n
        /\ n - (m + 1) = k - 1 /\ n - l + 1 = k /\ n - (l + 1) + 1 = k - 1 /\ (l + 1) - 1 = l /\ m + 1 <= n
    BY <1>1
  <2>2. U[n] = U[k] \o Reverse(V[l])
    BY <1>7, <2>1
  <2>3. U[k] = U[k - 1] \o one
    BY <1>3, <2>1
  <2>4. r[l] = line[k] /\ r[l + 1] = line[k - 1]
    <3>1. r[l] = line[n - l + 1] /\ r[l + 1] = line[n - (l + 1) + 1]
      <4> HIDE DEF l, k
      <4> QED BY <1>2, <2>1
    <3> QED BY <2>1, <3>1
  <2>5. V[l + 1] = V[l] \o Pieces(line[k], line[k - 1])
    <3>1. V[l + 1] = V[(l + 1) - 1] \o Pieces(r[(l + 1) - 1], r[l + 1])
      BY <1>2, <1>4, <2>1
    <3> QED BY <2>1, <2>4, <3>1
  <2>6. one \in D /\ Pieces(line[k], line[k - 1]) = Reverse(one)
    <3>1. line[k - 1] \in Crossings /\ line[k] \in Crossings /\ AlongAxis(line[k - 1], line[k])
      BY <1>1, <2>1
    <3> QED BY <3>1, PiecesReversed
  <2>7. V[l] \in D /\ Reverse(one) \in D /\ U[k - 1] \in D
    <3>1. Reverse(one) \in D
      <4> HIDE DEF one
      <4> QED BY <2>6, Reversed
    <3>2. V[l] \in D
      BY <1>2, <1>4, <2>1
    <3>3. U[k - 1] \in D
      BY <1>3, <2>1
    <3> QED BY <3>1, <3>2, <3>3
  <2> HIDE DEF one, k, l
  <2>8. Reverse(V[l] \o Reverse(one)) = Reverse(Reverse(one)) \o Reverse(V[l])
    BY <2>7, ReversedConcat
  <2>9. Reverse(Reverse(one)) = one
    BY <2>6, ReversedTwice
  <2>10. Reverse(V[l]) \in D
    BY <2>7, Reversed
  <2>11. U[k - 1] \o (one \o Reverse(V[l])) = (U[k - 1] \o one) \o Reverse(V[l])
    <3>1. \A x, y, z \in D : (x \o y) \o z = x \o (y \o z)
      BY ConcatAssociative
    <3> HIDE DEF D
    <3> QED BY <2>6, <2>7, <2>10, <3>1
  <2>12. U[n] = U[k - 1] \o Reverse(V[l + 1])
    BY <2>2, <2>3, <2>5, <2>6, <2>8, <2>9, <2>11
  <2> QED BY <2>1, <2>12 DEF l
<1>8. n - 1 \in S
  <2>1. Nat \subseteq S
    <3> HIDE DEF S, D
    <3> QED BY <1>6, <1>7, Induction
  <2>2. n - 1 \in Nat
    BY <1>1
  <2> QED BY <2>1, <2>2
<1>9. U[n] = Reverse(V[n])
  <2>1. (n - 1) + 1 = n /\ n <= n /\ n - (n - 1) = 1 /\ n \in 1 .. n
    BY <1>1
  <2>2. U[n] = U[1] \o Reverse(V[n])
    BY <1>8, <2>1
  <2>3. V[n] \in D
    BY <1>2, <1>4, <2>1
  <2>4. Reverse(V[n]) \in D
    BY <2>3, Reversed
  <2>5. <<>> \o Reverse(V[n]) = Reverse(V[n])
    BY <2>4, ConcatEmptySeq
  <2> QED BY <1>3, <2>2, <2>5
<1>10. V[n] = Reverse(U[n])
  <2>1. V[n] \in D
    <3>1. n \in 1 .. n
      BY <1>1
    <3> QED BY <1>2, <1>4, <3>1
  <2> QED BY <1>9, <2>1, ReversedTwice
<1> QED BY <1>10 DEF U, V, n, r

-----------------------------------------------------------------------------
(* How much of a line is covered.                                          *)

\* What is known on the way, and at first.
RunState == [covered : Int, length : Int, stretch : Int]
NotBegun == [covered |-> 0, length |-> 0, stretch |-> 0]
\* What counts of a stretch.
Counted(x) == IF x >= Rules.minStretch THEN x ELSE 0

\* What counts of a stretch is whole.
LEMMA CountedIsWhole ==
    ASSUME NEW x \in Int
    PROVE  Counted(x) \in Int /\ Counted(x + 0) = Counted(x) /\ Counted(0 + x) = Counted(x)
<1>1. x + 0 = x /\ 0 + x = x
  OBVIOUS
<1> QED BY <1>1 DEF Counted

\* A closed stretch is counted if it is long enough.
LEMMA StretchClosed ==
    ASSUME NEW run \in RunState
    PROVE  CloseStretch(run) = [covered |-> run.covered + Counted(run.stretch),
                                length |-> run.length, stretch |-> 0]
<1>1. /\ run.covered \in Int /\ run.length \in Int /\ run.stretch \in Int
      /\ run = [covered |-> run.covered, length |-> run.length, stretch |-> run.stretch]
  BY DEF RunState
<1>2. CloseStretch(run) =
        [run EXCEPT !.covered = IF run.stretch >= Rules.minStretch
                                THEN run.covered + run.stretch ELSE run.covered,
                    !.stretch = 0]
  BY DEF CloseStretch
<1>3. run.covered + Counted(run.stretch) =
        IF run.stretch >= Rules.minStretch THEN run.covered + run.stretch ELSE run.covered
  <2>1. run.covered + 0 = run.covered
    BY <1>1
  <2> QED BY <2>1 DEF Counted
<1>4. CloseStretch(run) = [run EXCEPT !.covered = run.covered + Counted(run.stretch), !.stretch = 0]
  BY <1>2, <1>3, Zenon
<1> DEFINE c == run.covered + Counted(run.stretch)
<1>5. CloseStretch(run) = [run EXCEPT !.covered = c, !.stretch = 0]
  BY <1>4
<1> HIDE DEF c
<1>6. CloseStretch(run) = [covered |-> c, length |-> run.length, stretch |-> 0]
  BY <1>1, <1>5
<1> QED BY <1>6 DEF c

\* A piece near the other line goes on with the stretch, and another closes it.
LEMMA Measured ==
    ASSUME NEW run \in RunState, NEW piece \in PieceSet, NEW isNear \in BOOLEAN
    PROVE  Measure(run, piece, isNear) =
             IF isNear
             THEN [covered |-> run.covered, length |-> run.length + piece.length,
                   stretch |-> run.stretch + piece.length]
             ELSE [covered |-> run.covered + Counted(run.stretch),
                   length |-> run.length + piece.length, stretch |-> 0]
<1> DEFINE on == [run EXCEPT !.length = @ + piece.length]
<1>1. /\ run.covered \in Int /\ run.length \in Int /\ run.stretch \in Int /\ piece.length \in Int
      /\ run = [covered |-> run.covered, length |-> run.length, stretch |-> run.stretch]
  BY DEF RunState, PieceSet
<1>2. on = [covered |-> run.covered, length |-> run.length + piece.length, stretch |-> run.stretch]
  BY <1>1
<1>3. on \in RunState
  BY <1>1, <1>2 DEF RunState
<1>4. Measure(run, piece, isNear) = IF isNear THEN [on EXCEPT !.stretch = @ + piece.length] ELSE CloseStretch(on)
  BY DEF Measure
<1> HIDE DEF on
<1>5. CASE isNear
  <2>1. [on EXCEPT !.stretch = @ + piece.length] =
          [covered |-> run.covered, length |-> run.length + piece.length, stretch |-> run.stretch + piece.length]
    BY <1>2
  <2> QED BY <1>4, <1>5, <2>1
<1>6. CASE ~isNear
  <2>1. CloseStretch(on) = [covered |-> on.covered + Counted(on.stretch), length |-> on.length, stretch |-> 0]
    BY <1>3, StretchClosed
  <2>2. on.covered = run.covered /\ on.stretch = run.stretch /\ on.length = run.length + piece.length
    BY <1>2
  <2> QED BY <1>4, <1>6, <2>1, <2>2
<1> QED BY <1>5, <1>6

\* A piece further it is still a run.
LEMMA MeasuredStays ==
    ASSUME NEW run \in RunState, NEW piece \in PieceSet, NEW isNear \in BOOLEAN
    PROVE  Measure(run, piece, isNear) \in RunState
<1>1. /\ run.covered \in Int /\ run.length \in Int /\ run.stretch \in Int /\ piece.length \in Int
  BY DEF RunState, PieceSet
<1>2. Counted(run.stretch) \in Int
  BY <1>1, CountedIsWhole
<1> QED BY <1>1, <1>2, Measured DEF RunState

\* What two runs that come from both ends of a line cover between them.
Balance(f, b) == f.covered + b.covered + Counted(f.stretch + b.stretch)

\* The next piece may be the one's or the other's.
LEMMA Balanced ==
    ASSUME NEW f \in RunState, NEW b \in RunState, NEW piece \in PieceSet, NEW isNear \in BOOLEAN
    PROVE  /\ Balance(Measure(f, piece, isNear), b) = Balance(f, Measure(b, piece, isNear))
           /\ Measure(f, piece, isNear).length + b.length = f.length + Measure(b, piece, isNear).length
<1> DEFINE ff == Measure(f, piece, isNear)
           bb == Measure(b, piece, isNear)
<1>1. /\ f.covered \in Int /\ f.length \in Int /\ f.stretch \in Int
      /\ b.covered \in Int /\ b.length \in Int /\ b.stretch \in Int /\ piece.length \in Int
  BY DEF RunState, PieceSet
<1>2. CASE isNear
  <2>1. /\ ff.covered = f.covered /\ ff.length = f.length + piece.length /\ ff.stretch = f.stretch + piece.length
        /\ bb.covered = b.covered /\ bb.length = b.length + piece.length /\ bb.stretch = b.stretch + piece.length
    <3>1. ff = [covered |-> f.covered, length |-> f.length + piece.length, stretch |-> f.stretch + piece.length]
      BY <1>2, Measured
    <3>2. bb = [covered |-> b.covered, length |-> b.length + piece.length, stretch |-> b.stretch + piece.length]
      BY <1>2, Measured
    <3> HIDE DEF ff, bb
    <3> QED BY <3>1, <3>2
  <2> HIDE DEF ff, bb
  <2>2. ff.stretch + b.stretch = f.stretch + bb.stretch
    BY <1>1, <2>1
  <2>3. Balance(ff, b) = Balance(f, bb)
    BY <2>1, <2>2 DEF Balance
  <2>4. ff.length + b.length = f.length + bb.length
    BY <1>1, <2>1
  <2> QED BY <2>3, <2>4 DEF ff, bb
<1>3. CASE ~isNear
  <2>1. /\ ff.covered = f.covered + Counted(f.stretch) /\ ff.length = f.length + piece.length /\ ff.stretch = 0
        /\ bb.covered = b.covered + Counted(b.stretch) /\ bb.length = b.length + piece.length /\ bb.stretch = 0
    <3>1. ff = [covered |-> f.covered + Counted(f.stretch), length |-> f.length + piece.length, stretch |-> 0]
      BY <1>3, Measured
    <3>2. bb = [covered |-> b.covered + Counted(b.stretch), length |-> b.length + piece.length, stretch |-> 0]
      BY <1>3, Measured
    <3> HIDE DEF ff, bb
    <3> QED BY <3>1, <3>2
  <2> HIDE DEF ff, bb
  <2>2. /\ Counted(f.stretch) \in Int /\ Counted(f.stretch + 0) = Counted(f.stretch)
        /\ Counted(b.stretch) \in Int /\ Counted(0 + b.stretch) = Counted(b.stretch)
    BY <1>1, CountedIsWhole
  <2>3. /\ Balance(ff, b) = f.covered + Counted(f.stretch) + b.covered + Counted(b.stretch)
        /\ Balance(f, bb) = f.covered + (b.covered + Counted(b.stretch)) + Counted(f.stretch)
    BY <2>1, <2>2 DEF Balance
  <2>4. Balance(ff, b) = Balance(f, bb)
    BY <1>1, <2>2, <2>3
  <2>5. ff.length + b.length = f.length + bb.length
    BY <1>1, <2>1
  <2> QED BY <2>4, <2>5 DEF ff, bb
<1> QED BY <1>2, <1>3

\* A run goes on piece by piece.
LEMMA RunsOn ==
    ASSUME NEW ps \in Seq(PieceSet), NEW near, NEW tolerance
    PROVE  LET R == RunAlong(ps, near, tolerance)
               n == Len(ps)
           IN /\ R[0] = NotBegun
              /\ \A k \in 1 .. n : R[k] = Measure(R[k - 1], ps[k], Reaches(near, tolerance, ps[k].middle))
              /\ \A k \in 0 .. n : R[k] \in RunState
<1> DEFINE R == RunAlong(ps, near, tolerance)
           n == Len(ps)
           Further(run, k) == Measure(run, ps[k], Reaches(near, tolerance, ps[k].middle))
           P(w) == w = [k \in 0 .. n |-> IF k = 0 THEN NotBegun ELSE Further(w[k - 1], k)]
           step == [k \in 1 .. n |-> [w \in RunState |-> Further(w, k)]]
<1>1. n \in Nat /\ \A k \in 1 .. n : ps[k] \in PieceSet
  OBVIOUS
<1>2. ASSUME NEW w \in RunState, NEW k \in 1 .. n PROVE Further(w, k) \in RunState
  <2>1. Reaches(near, tolerance, ps[k].middle) \in BOOLEAN
    BY DEF Reaches
  <2>2. ps[k] \in PieceSet
    BY <1>1
  <2> HIDE DEF n
  <2> QED BY <2>1, <2>2, MeasuredStays
<1>3. R = CHOOSE w : P(w)
  BY DEF RunAlong, NotBegun
<1> HIDE DEF R, n, Further
<1>4. NotBegun \in RunState
  BY DEF NotBegun, RunState
<1>5. step \in [1 .. n -> [RunState -> RunState]]
  BY <1>2
<1>6. PICK v \in [0 .. n -> RunState] : Stepwise(n, NotBegun, step, v)
  <2> HIDE DEF step
  <2> QED BY <1>1, <1>4, <1>5, Recursion
<1>7. v[0] = NotBegun /\ \A k \in 1 .. n : v[k] = step[k][v[k - 1]]
  <2> HIDE DEF step
  <2> QED BY <1>6 DEF Stepwise
<1>8. ASSUME NEW k \in 1 .. n PROVE step[k][v[k - 1]] = Further(v[k - 1], k)
  <2>1. k - 1 \in 0 .. n
    BY <1>1
  <2>2. v[k - 1] \in RunState
    BY <1>6, <2>1
  <2> QED BY <2>2
<1>9. P(v)
  <2> HIDE DEF step
  <2>1. ASSUME NEW k \in 0 .. n, k # 0 PROVE k \in 1 .. n
    BY <1>1, <2>1
  <2>2. \A k \in 0 .. n : v[k] = IF k = 0 THEN NotBegun ELSE Further(v[k - 1], k)
    BY <1>7, <1>8, <2>1
  <2>3. v = [k \in 0 .. n |-> v[k]]
    BY <1>6
  <2> QED BY <2>2, <2>3
<1>10. P(R)
  <2> HIDE DEF P
  <2> QED BY <1>3, <1>9, Zenon
<1> HIDE DEF step
<1>11. \A k \in 0 .. n : R[k] = IF k = 0 THEN NotBegun ELSE Further(R[k - 1], k)
  BY <1>10
<1> HIDE DEF P
<1>12. R[0] = NotBegun /\ \A k \in 1 .. n : R[k] = Further(R[k - 1], k)
  <2>1. 0 \in 0 .. n /\ \A k \in 1 .. n : k \in 0 .. n /\ k # 0
    BY <1>1
  <2> QED BY <1>11, <2>1
<1>13. \A k \in 0 .. n : R[k] \in RunState
  <2> DEFINE S == {m \in Nat : m <= n => R[m] \in RunState}
  <2>1. 0 \in S
    BY <1>4, <1>12
  <2>2. ASSUME NEW m \in Nat, m \in S PROVE m + 1 \in S
    <3> SUFFICES ASSUME m + 1 <= n PROVE R[m + 1] \in RunState
      OBVIOUS
    <3>1. m + 1 \in 1 .. n /\ (m + 1) - 1 = m /\ m <= n
      BY <1>1
    <3>2. R[m + 1] = Further(R[m], m + 1) /\ R[m] \in RunState
      BY <1>12, <2>2, <3>1
    <3> QED BY <1>2, <3>1, <3>2
  <2>3. Nat \subseteq S
    <3> HIDE DEF S
    <3> QED BY <2>1, <2>2, Induction
  <2> QED BY <1>1, <2>3
<1> QED BY <1>12, <1>13 DEF R, n, Further

\* From either end, the same.
LEMMA EitherWay ==
    ASSUME NEW ps \in Seq(PieceSet), NEW near, NEW tolerance
    PROVE  LastStretch(RunAlong(Reverse(ps), near, tolerance)[Len(ps)])
             = LastStretch(RunAlong(ps, near, tolerance)[Len(ps)])
<1> DEFINE n == Len(ps)
           qs == Reverse(ps)
           F == RunAlong(ps, near, tolerance)
           B == RunAlong(qs, near, tolerance)
           Is(piece) == Reaches(near, tolerance, piece.middle)
           SoFar(k) == k <= n => /\ Balance(F[k], B[n - k]) = Balance(F[0], B[n])
                                 /\ F[k].length + B[n - k].length = F[0].length + B[n].length
           S == {k \in Nat : SoFar(k)}
<1>1. n \in Nat /\ \A k \in 1 .. n : ps[k] \in PieceSet
  OBVIOUS
<1>2. qs \in Seq(PieceSet) /\ Len(qs) = n /\ \A k \in 1 .. n : qs[k] = ps[n - k + 1] /\ n - k + 1 \in 1 .. n
  BY Reversed
<1>3. /\ F[0] = NotBegun
      /\ \A k \in 1 .. n : F[k] = Measure(F[k - 1], ps[k], Is(ps[k]))
      /\ \A k \in 0 .. n : F[k] \in RunState
  BY RunsOn
<1> HIDE DEF qs
<1>4. /\ B[0] = NotBegun
      /\ \A k \in 1 .. Len(qs) : B[k] = Measure(B[k - 1], qs[k], Is(qs[k]))
      /\ \A k \in 0 .. Len(qs) : B[k] \in RunState
  BY <1>2, RunsOn
<1>5. \A piece : Is(piece) \in BOOLEAN
  BY DEF Reaches
<1> HIDE DEF n, F, B, Is
<1>6. 0 \in S
  <2>1. n - 0 = n
    BY <1>1
  <2> QED BY <2>1
<1>7. ASSUME NEW k \in Nat, k \in S PROVE k + 1 \in S
  <2> SUFFICES SoFar(k + 1)
    <3> HIDE DEF SoFar
    <3> QED OBVIOUS
  <2> SUFFICES ASSUME k + 1 <= n
               PROVE  /\ Balance(F[k + 1], B[n - (k + 1)]) = Balance(F[0], B[n])
                      /\ F[k + 1].length + B[n - (k + 1)].length = F[0].length + B[n].length
    OBVIOUS
  <2> DEFINE j == n - k
             piece == ps[k + 1]
  <2>1. /\ k + 1 \in 1 .. n /\ (k + 1) - 1 = k /\ k \in 0 .. n /\ k <= n
        /\ j \in 1 .. n /\ j - 1 \in 0 .. n /\ n - (k + 1) = j - 1 /\ n - j + 1 = k + 1
    BY <1>1
  <2>2. F[k + 1] = Measure(F[k], piece, Is(piece)) /\ F[k] \in RunState /\ piece \in PieceSet
    BY <1>1, <1>3, <2>1
  <2>3. qs[j] = piece
    BY <1>2, <2>1
  <2>4. B[j] = Measure(B[j - 1], piece, Is(piece)) /\ B[j - 1] \in RunState
    <3> HIDE DEF j, piece
    <3> QED BY <1>2, <1>4, <2>1, <2>3
  <2>5. Balance(F[k], B[j]) = Balance(F[0], B[n]) /\ F[k].length + B[j].length = F[0].length + B[n].length
    BY <1>7, <2>1
  <2> HIDE DEF j, piece
  <2>6. /\ Balance(F[k + 1], B[j - 1]) = Balance(F[k], B[j])
        /\ F[k + 1].length + B[j - 1].length = F[k].length + B[j].length
    BY <1>5, <2>2, <2>4, Balanced
  <2> QED BY <2>1, <2>5, <2>6
<1>8. n \in S
  <2>1. Nat \subseteq S
    <3> HIDE DEF S
    <3> QED BY <1>6, <1>7, Induction
  <2> QED BY <1>1, <2>1
<1>9. /\ Balance(F[n], B[0]) = Balance(F[0], B[n])
      /\ F[n].length + B[0].length = F[0].length + B[n].length
  <2>1. n - n = 0 /\ n <= n
    BY <1>1
  <2> QED BY <1>8, <2>1
<1>10. F[n] \in RunState /\ B[n] \in RunState
  <2>1. n \in 0 .. n
    BY <1>1
  <2> QED BY <1>2, <1>3, <1>4, <2>1
<1>11. /\ F[n].covered \in Int /\ F[n].length \in Int /\ F[n].stretch \in Int
       /\ B[n].covered \in Int /\ B[n].length \in Int /\ B[n].stretch \in Int
  BY <1>10 DEF RunState
<1>12. /\ F[0].covered = 0 /\ F[0].length = 0 /\ F[0].stretch = 0
       /\ B[0].covered = 0 /\ B[0].length = 0 /\ B[0].stretch = 0
  BY <1>3, <1>4 DEF NotBegun
<1>13. /\ Counted(F[n].stretch + 0) = Counted(F[n].stretch) /\ Counted(F[n].stretch) \in Int
       /\ Counted(0 + B[n].stretch) = Counted(B[n].stretch) /\ Counted(B[n].stretch) \in Int
  BY <1>11, CountedIsWhole
<1>14. /\ Balance(F[n], B[0]) = F[n].covered + 0 + Counted(F[n].stretch)
       /\ Balance(F[0], B[n]) = 0 + B[n].covered + Counted(B[n].stretch)
  BY <1>12, <1>13 DEF Balance
<1>15. F[n].covered + Counted(F[n].stretch) = B[n].covered + Counted(B[n].stretch) /\ F[n].length = B[n].length
  <2>1. F[n].covered + 0 + Counted(F[n].stretch) = 0 + B[n].covered + Counted(B[n].stretch)
    BY <1>9, <1>14
  <2>2. F[n].length + 0 = 0 + B[n].length
    BY <1>9, <1>12
  <2>3. F[n].covered + Counted(F[n].stretch) = B[n].covered + Counted(B[n].stretch)
    BY <1>11, <1>13, <2>1
  <2>4. F[n].length = B[n].length
    BY <1>11, <2>2
  <2> QED BY <2>3, <2>4
<1>16. /\ LastStretch(F[n]) = [covered |-> F[n].covered + Counted(F[n].stretch), length |-> F[n].length, stretch |-> 0]
       /\ LastStretch(B[n]) = [covered |-> B[n].covered + Counted(B[n].stretch), length |-> B[n].length, stretch |-> 0]
  BY <1>10, StretchClosed DEF LastStretch
<1>17. LastStretch(B[n]) = LastStretch(F[n])
  BY <1>15, <1>16
<1> QED BY <1>17 DEF F, B, n, qs

\* Two lines near the same positions: the same runs near them.
LEMMA NearAlike ==
    ASSUME NEW ps \in Seq(PieceSet), NEW near, NEW other, NEW tolerance,
           \A q \in Position : Reaches(other, tolerance, q) = Reaches(near, tolerance, q)
    PROVE  RunAlong(ps, other, tolerance)[Len(ps)] = RunAlong(ps, near, tolerance)[Len(ps)]
<1> DEFINE n == Len(ps)
           F == RunAlong(ps, near, tolerance)
           G == RunAlong(ps, other, tolerance)
           S == {k \in Nat : k <= n => G[k] = F[k]}
<1>1. n \in Nat /\ \A k \in 1 .. n : ps[k] \in PieceSet
  OBVIOUS
<1>2. F[0] = NotBegun /\ \A k \in 1 .. n : F[k] = Measure(F[k - 1], ps[k], Reaches(near, tolerance, ps[k].middle))
  BY RunsOn
<1>3. G[0] = NotBegun /\ \A k \in 1 .. n : G[k] = Measure(G[k - 1], ps[k], Reaches(other, tolerance, ps[k].middle))
  BY RunsOn
<1>4. \A k \in 1 .. n : ps[k].middle \in Position
  BY <1>1 DEF PieceSet
<1>5. \A k \in 1 .. n : Reaches(other, tolerance, ps[k].middle) = Reaches(near, tolerance, ps[k].middle)
  BY <1>4
<1> HIDE DEF n, F, G
<1>6. 0 \in S
  BY <1>2, <1>3
<1>7. ASSUME NEW k \in Nat, k \in S PROVE k + 1 \in S
  <2> SUFFICES ASSUME k + 1 <= n PROVE G[k + 1] = F[k + 1]
    OBVIOUS
  <2>1. k + 1 \in 1 .. n /\ (k + 1) - 1 = k /\ k <= n
    BY <1>1
  <2>2. G[k] = F[k]
    BY <1>7, <2>1
  <2> QED BY <1>2, <1>3, <1>5, <2>1, <2>2
<1>8. n \in S
  <2>1. Nat \subseteq S
    <3> HIDE DEF S
    <3> QED BY <1>6, <1>7, Induction
  <2> QED BY <1>1, <2>1
<1>9. G[n] = F[n]
  BY <1>1, <1>8
<1> QED BY <1>9 DEF n, F, G

-----------------------------------------------------------------------------
(* The same line from its other end is near the same positions.            *)

\* The nearest point of a segment is the same from its other end.
LEMMA SegmentFromEnd ==
    ASSUME NEW p \in Position, NEW a \in Position, NEW b \in Position, NEW tolerance \in Nat,
           NearSegment(p, a, b, tolerance)
    PROVE  NearSegment(p, b, a, tolerance)
<1> DEFINE g == b[1] - a[1]
           h == b[2] - a[2]
           u1 == p[1] - a[1]
           u2 == p[2] - a[2]
           v1 == p[1] - b[1]
           v2 == p[2] - b[2]
           length == g * g + h * h
           along == u1 * g + u2 * h
           across == u1 * h - u2 * g
           reach == tolerance * tolerance
           g2 == a[1] - b[1]
           h2 == a[2] - b[2]
           length2 == g2 * g2 + h2 * h2
           along2 == v1 * g2 + v2 * h2
           across2 == v1 * h2 - v2 * g2
<1>1. /\ a[1] \in Int /\ a[2] \in Int /\ b[1] \in Int /\ b[2] \in Int /\ p[1] \in Int /\ p[2] \in Int
  BY DEF Position
<1>2. /\ g \in Int /\ h \in Int /\ u1 \in Int /\ u2 \in Int
      /\ g2 = -g /\ h2 = -h /\ v1 = u1 - g /\ v2 = u2 - h
  BY <1>1
<1>3. IF length = 0 \/ along <= 0 THEN u1 * u1 + u2 * u2 <= reach
      ELSE IF along >= length THEN v1 * v1 + v2 * v2 <= reach
      ELSE across * across <= reach * length
  BY DEF NearSegment
<1>4. NearSegment(p, b, a, tolerance) <=>
      IF length2 = 0 \/ along2 <= 0 THEN v1 * v1 + v2 * v2 <= reach
      ELSE IF along2 >= length2 THEN u1 * u1 + u2 * u2 <= reach
      ELSE across2 * across2 <= reach * length2
  BY DEF NearSegment
<1>5. length2 = length /\ along2 = length - along /\ across2 = -across
      /\ length \in Nat /\ along \in Int /\ across \in Int
  <2> HIDE DEF g, h, u1, u2, v1, v2, g2, h2
  <2>1. (-g) * (-g) = g * g /\ (-h) * (-h) = h * h
    BY <1>2
  <2>2. (u1 - g) * (-g) = g * g - u1 * g /\ (u2 - h) * (-h) = h * h - u2 * h
    BY <1>2
  <2>3. (u1 - g) * (-h) = g * h - u1 * h /\ (u2 - h) * (-g) = g * h - u2 * g
    BY <1>2
  <2>4. /\ g * g \in Nat /\ h * h \in Nat /\ u1 * g \in Int /\ u2 * h \in Int
        /\ g * h \in Int /\ u1 * h \in Int /\ u2 * g \in Int
    BY <1>2
  <2> QED BY <1>2, <2>1, <2>2, <2>3, <2>4
<1>6. across2 * across2 = across * across
  <2> HIDE DEF across, across2
  <2>1. (-across) * (-across) = across * across
    BY <1>5
  <2> QED BY <1>5, <2>1
<1>7. length = 0 => v1 = u1 /\ v2 = u2
  <2> SUFFICES ASSUME length = 0 PROVE g = 0 /\ h = 0
    <3> HIDE DEF g, h, u1, u2, v1, v2
    <3> QED BY <1>2
  <2> HIDE DEF g, h
  <2>1. \A e \in Int : e # 0 => e * e > 0
    OBVIOUS
  <2>2. \A e \in Int : e * e >= 0 /\ e * e \in Int
    OBVIOUS
  <2> QED BY <1>2, <2>1, <2>2
<1> HIDE DEF length, along, across, length2, along2, across2, u1, u2, v1, v2, reach, g, h, g2, h2
<1>8. CASE length = 0
  BY <1>3, <1>4, <1>5, <1>7, <1>8
<1>9. CASE length # 0 /\ along <= 0
  <2>1. ~ (along2 <= 0) /\ along2 >= length2 /\ length2 # 0
    BY <1>5, <1>9
  <2> QED BY <1>3, <1>4, <1>9, <2>1
<1>10. CASE length # 0 /\ ~ (along <= 0) /\ along >= length
  <2>1. along2 <= 0
    BY <1>5, <1>10
  <2> QED BY <1>3, <1>4, <1>10, <2>1
<1>11. CASE length # 0 /\ ~ (along <= 0) /\ ~ (along >= length)
  <2>1. ~ (along2 <= 0) /\ ~ (along2 >= length2) /\ length2 # 0
    BY <1>5, <1>11
  <2>2. across * across <= reach * length
    BY <1>3, <1>11
  <2> QED BY <1>4, <1>5, <1>6, <2>1, <2>2
<1> QED BY <1>8, <1>9, <1>10, <1>11

\* What lies near a line lies near it from its other end,
LEMMA LiesNearFromEnd ==
    ASSUME NEW line \in Seq(Position), line # <<>>, NEW tolerance \in Nat, NEW p \in Position,
           LiesNear(line, tolerance, p)
    PROVE  LiesNear(Reverse(line), tolerance, p)
<1> DEFINE n == Len(line)
           r == Reverse(line)
<1>1. n \in Nat \ {0} /\ \A i \in 1 .. n : line[i] \in Position
  OBVIOUS
<1>2. r \in Seq(Position) /\ Len(r) = n /\ \A k \in 1 .. n : r[k] = line[n - k + 1] /\ n - k + 1 \in 1 .. n
  BY Reversed
<1>3. PICK s \in Segments(line) : NearSegment(p, s[1], s[2], tolerance)
  BY DEF LiesNear
<1> HIDE DEF r
<1>4. CASE n = 1
  <2>1. s = <<line[1], line[1]>>
    BY <1>3, <1>4 DEF Segments
  <2>2. r[1] = line[1]
    <3>1. 1 \in 1 .. n /\ n - 1 + 1 = 1
      BY <1>4
    <3> QED BY <1>2, <3>1
  <2>3. s \in Segments(r)
    BY <1>2, <1>4, <2>1, <2>2 DEF Segments
  <2> QED BY <1>3, <2>3 DEF LiesNear, r
<1>5. CASE n # 1
  <2>1. PICK i \in 1 .. n - 1 : s = <<line[i], line[i + 1]>>
    BY <1>3, <1>5 DEF Segments
  <2> DEFINE j == n - i
             t == <<line[i + 1], line[i]>>
  <2>2. i \in 1 .. n /\ i + 1 \in 1 .. n /\ j \in 1 .. n - 1 /\ j \in 1 .. n /\ j + 1 \in 1 .. n
        /\ n - j + 1 = i + 1 /\ n - (j + 1) + 1 = i
    BY <1>1
  <2>3. r[j] = line[i + 1] /\ r[j + 1] = line[i]
    <3>1. r[j] = line[n - j + 1] /\ r[j + 1] = line[n - (j + 1) + 1]
      <4> HIDE DEF j, n
      <4> QED BY <1>2, <2>2
    <3> QED BY <2>2, <3>1
  <2>4. t \in Segments(r)
    <3> HIDE DEF j
    <3> QED BY <1>2, <1>5, <2>2, <2>3 DEF Segments
  <2>5. NearSegment(p, t[1], t[2], tolerance)
    <3>1. s[1] = line[i] /\ s[2] = line[i + 1] /\ t[1] = line[i + 1] /\ t[2] = line[i]
      BY <2>1
    <3>2. NearSegment(p, line[i], line[i + 1], tolerance)
      BY <1>3, <3>1
    <3>3. line[i] \in Position /\ line[i + 1] \in Position
      BY <1>1, <2>2
    <3>4. NearSegment(p, line[i + 1], line[i], tolerance)
      BY <3>2, <3>3, SegmentFromEnd
    <3> QED BY <3>1, <3>4
  <2> QED BY <2>4, <2>5 DEF LiesNear, r
<1> QED BY <1>4, <1>5

\* and is found there.
LEMMA ReachesFromEnd ==
    ASSUME NEW line \in Seq(Position), line # <<>>, NEW tolerance \in Nat \ {0}, NEW p \in Position
    PROVE  Reaches(Reverse(line), tolerance, p) = Reaches(line, tolerance, p)
<1> DEFINE r == Reverse(line)
<1>1. r \in Seq(Position) /\ Len(r) = Len(line) /\ Reverse(r) = line
  BY Reversed, ReversedTwice
<1> HIDE DEF r
<1>2. r # <<>>
  <2>1. Len(r) # 0
    BY <1>1
  <2> QED BY <2>1
<1>3. Reaches(line, tolerance, p) = LiesNear(line, tolerance, p) /\ Reaches(r, tolerance, p) = LiesNear(r, tolerance, p)
  BY <1>1, <1>2, GridMissesNothing
<1>4. LiesNear(line, tolerance, p) => LiesNear(r, tolerance, p)
  BY LiesNearFromEnd DEF r
<1>5. LiesNear(r, tolerance, p) => LiesNear(line, tolerance, p)
  BY <1>1, <1>2, LiesNearFromEnd
<1>6. LiesNear(r, tolerance, p) \in BOOLEAN /\ LiesNear(line, tolerance, p) \in BOOLEAN
  BY DEF LiesNear
<1>7. Reaches(r, tolerance, p) = Reaches(line, tolerance, p)
  BY <1>3, <1>4, <1>5, <1>6
<1> QED BY <1>7 DEF r

-----------------------------------------------------------------------------
(* A trip and a plan judged from either end.                               *)

\* A line is covered as far from its other end;
LEMMA AlongFromEnd ==
    ASSUME NEW line \in Lines, NEW near, NEW tolerance
    PROVE  Along(Reverse(line), near, tolerance) = Along(line, near, tolerance)
<1> DEFINE ps == PiecesOf(line)[Len(line)]
           r == Reverse(line)
           qs == PiecesOf(r)[Len(r)]
<1>1. Len(r) = Len(line)
  BY LineReversed
<1>2. qs = Reverse(ps)
  <2>1. PiecesOf(r)[Len(line)] = Reverse(ps)
    BY PiecesFromEnd
  <2> QED BY <1>1, <2>1
<1>3. ps \in Seq(PieceSet)
  <2>1. Len(line) \in 1 .. Len(line)
    <3>1. Len(line) \in Nat \ {0}
      BY LineIs
    <3> QED BY <3>1
  <2> QED BY <2>1, PiecesUpTo
<1>4. /\ Along(line, near, tolerance) = LastStretch(RunAlong(ps, near, tolerance)[Len(ps)])
      /\ Along(r, near, tolerance) = LastStretch(RunAlong(qs, near, tolerance)[Len(qs)])
  BY DEF Along
<1> HIDE DEF ps, qs, r
<1>5. Len(qs) = Len(ps)
  BY <1>2, <1>3, Reversed
<1>6. LastStretch(RunAlong(qs, near, tolerance)[Len(ps)]) = LastStretch(RunAlong(ps, near, tolerance)[Len(ps)])
  BY <1>2, <1>3, EitherWay
<1>7. Along(r, near, tolerance) = Along(line, near, tolerance)
  BY <1>4, <1>5, <1>6
<1> QED BY <1>7 DEF r

\* A line is one of positions.
LEMMA LinePositions ==
    ASSUME NEW line \in Lines
    PROVE  line \in Seq(Position) /\ line # <<>>
<1>1. line \in Seq(Crossings) /\ line # <<>>
  BY LineIs
<1>2. Crossings \subseteq Position
  BY CrossingIs
<1> QED BY <1>1, <1>2, SeqMonotonic

\* and as far whichever way the other line goes.
LEMMA AlongReversed ==
    ASSUME NEW line \in Lines, NEW near \in Lines, NEW tolerance \in Nat \ {0}
    PROVE  Along(line, Reverse(near), tolerance) = Along(line, near, tolerance)
<1> DEFINE ps == PiecesOf(line)[Len(line)]
           r == Reverse(near)
<1>1. \A q \in Position : Reaches(r, tolerance, q) = Reaches(near, tolerance, q)
  BY LinePositions, ReachesFromEnd
<1>2. ps \in Seq(PieceSet)
  <2>1. Len(line) \in 1 .. Len(line)
    <3>1. Len(line) \in Nat \ {0}
      BY LineIs
    <3> QED BY <3>1
  <2> QED BY <2>1, PiecesUpTo
<1>3. /\ Along(line, near, tolerance) = LastStretch(RunAlong(ps, near, tolerance)[Len(ps)])
      /\ Along(line, r, tolerance) = LastStretch(RunAlong(ps, r, tolerance)[Len(ps)])
  BY DEF Along
<1> HIDE DEF ps, r
<1>4. RunAlong(ps, r, tolerance)[Len(ps)] = RunAlong(ps, near, tolerance)[Len(ps)]
  BY <1>1, <1>2, NearAlike
<1>5. Along(line, r, tolerance) = Along(line, near, tolerance)
  BY <1>3, <1>4
<1> QED BY <1>5 DEF r

\* It is as far back.
LEMMA BetweenIs ==
    ASSUME NEW a \in Crossings, NEW b \in Crossings
    PROVE  Between(a, b) \in Int /\ Between(b, a) = Between(a, b)
<1>1. a[1] \in Int /\ a[2] \in Int /\ b[1] \in Int /\ b[2] \in Int
  BY CrossingIs
<1>2. ASSUME NEW x \in Int, NEW y \in Int
      PROVE  Size(x - y) \in Int /\ Size(x - y) = Size(y - x)
  BY DEF Size
<1> QED BY <1>1, <1>2 DEF Between

\* How far along each point is, from the one before it.
LEMMA WalkedOn ==
    ASSUME NEW line \in Lines
    PROVE  /\ Walked(line)[1] = 0
           /\ \A k \in 2 .. Len(line) :
                Walked(line)[k] = Walked(line)[k - 1] + Between(line[k - 1], line[k])
           /\ \A k \in 1 .. Len(line) : Walked(line)[k] \in Int
<1> DEFINE n == Len(line)
           P(w) == w = [k \in DOMAIN line |->
                           IF k = 1 THEN 0 ELSE w[k - 1] + Between(line[k - 1], line[k])]
           F == Walked(line)
           step == [k \in 2 .. n |-> [x \in Int |-> x + Between(line[k - 1], line[k])]]
<1>1. n \in Nat \ {0} /\ DOMAIN line = 1 .. n
  BY LineIs
<1>2. F = CHOOSE w : P(w)
  BY DEF Walked
<1>3. ASSUME NEW x \in Int, NEW k \in 2 .. n PROVE x + Between(line[k - 1], line[k]) \in Int
  <2>1. line[k - 1] \in Crossings /\ line[k] \in Crossings
    BY LineIs
  <2>2. Between(line[k - 1], line[k]) \in Int
    BY <2>1, BetweenIs
  <2> QED BY <2>2
<1> HIDE DEF F, n
<1>4. step \in [2 .. n -> [Int -> Int]]
  BY <1>3
<1>5. PICK v \in [1 .. n -> Int] : StepwiseFrom(n, 0, step, v)
  <2> HIDE DEF step
  <2>1. 0 \in Int
    OBVIOUS
  <2> QED BY <1>1, <1>4, <2>1, RecursionFromOne
<1>6. v[1] = 0 /\ \A k \in 2 .. n : v[k] = step[k][v[k - 1]]
  <2> HIDE DEF step
  <2> QED BY <1>1, <1>5 DEF StepwiseFrom
<1>7. ASSUME NEW k \in 2 .. n PROVE step[k][v[k - 1]] = v[k - 1] + Between(line[k - 1], line[k])
  <2>1. k - 1 \in 1 .. n
    BY <1>1
  <2>2. v[k - 1] \in Int
    BY <1>5, <2>1
  <2> QED BY <2>2
<1>8. P(v)
  <2> HIDE DEF step
  <2>1. ASSUME NEW k \in 1 .. n, k # 1 PROVE k \in 2 .. n
    BY <1>1, <2>1
  <2>2. \A k \in 1 .. n : v[k] = IF k = 1 THEN 0 ELSE v[k - 1] + Between(line[k - 1], line[k])
    BY <1>6, <1>7, <2>1
  <2>3. v = [k \in 1 .. n |-> v[k]]
    BY <1>5
  <2> QED BY <1>1, <2>2, <2>3
<1>9. P(F)
  <2> HIDE DEF P
  <2> QED BY <1>2, <1>8, Zenon
<1> HIDE DEF step
<1>10. \A k \in 1 .. n : F[k] = IF k = 1 THEN 0 ELSE F[k - 1] + Between(line[k - 1], line[k])
  BY <1>1, <1>9
<1> HIDE DEF P
<1>11. F[1] = 0 /\ \A k \in 2 .. n : F[k] = F[k - 1] + Between(line[k - 1], line[k])
  <2>1. 1 \in 1 .. n /\ \A k \in 2 .. n : k \in 1 .. n /\ k # 1
    BY <1>1
  <2> QED BY <1>10, <2>1
<1>12. \A k \in 1 .. n : F[k] \in Int
  <2> DEFINE S == {m \in Nat : m + 1 <= n => F[m + 1] \in Int}
  <2>1. 0 \in S
    <3>1. 0 + 1 = 1 /\ F[1] \in Int
      BY <1>11
    <3> QED BY <3>1
  <2>2. ASSUME NEW m \in Nat, m \in S PROVE m + 1 \in S
    <3> SUFFICES ASSUME (m + 1) + 1 <= n PROVE F[(m + 1) + 1] \in Int
      OBVIOUS
    <3>1. (m + 1) + 1 \in 2 .. n /\ ((m + 1) + 1) - 1 = m + 1 /\ m + 1 <= n
      BY <1>1
    <3>2. F[m + 1] \in Int
      BY <2>2, <3>1
    <3>3. F[(m + 1) + 1] = F[m + 1] + Between(line[((m + 1) + 1) - 1], line[(m + 1) + 1])
      BY <1>11, <3>1
    <3> QED BY <1>3, <3>1, <3>2, <3>3
  <2>3. Nat \subseteq S
    <3> HIDE DEF S
    <3> QED BY <2>1, <2>2, Induction
  <2>4. ASSUME NEW k \in 1 .. n PROVE F[k] \in Int
    <3>1. k - 1 \in S /\ (k - 1) + 1 = k /\ k <= n
      <4> HIDE DEF S
      <4> QED BY <1>1, <2>3
    <3> QED BY <3>1
  <2> QED BY <2>4
<1> QED BY <1>11, <1>12 DEF F, n

\* From the other end: what is left.
LEMMA WalkedFromEnd ==
    ASSUME NEW line \in Lines, NEW i \in 1 .. Len(line)
    PROVE  Walked(Reverse(line))[i] = Walked(line)[Len(line)] - Walked(line)[Len(line) - i + 1]
<1> DEFINE n == Len(line)
           r == Reverse(line)
           U == Walked(line)
           V == Walked(r)
           SoFar(m) == m + 1 <= n => V[m + 1] = U[n] - U[n - m]
           S == {m \in Nat : SoFar(m)}
<1>1. n \in Nat \ {0} /\ \A k \in 1 .. n : line[k] \in Crossings
  BY LineIs
<1>2. r \in Lines /\ Len(r) = n /\ \A k \in 1 .. n : r[k] = line[n - k + 1] /\ n - k + 1 \in 1 .. n
  BY LineReversed
<1>3. /\ \A k \in 2 .. n : U[k] = U[k - 1] + Between(line[k - 1], line[k])
      /\ \A k \in 1 .. n : U[k] \in Int
  BY WalkedOn
<1> HIDE DEF r
<1>4. V[1] = 0 /\ \A k \in 2 .. n : V[k] = V[k - 1] + Between(r[k - 1], r[k])
  BY <1>2, WalkedOn
<1> HIDE DEF n, U, V
<1>5. 0 \in S
  <2>1. 0 + 1 = 1 /\ n - 0 = n /\ n \in 1 .. n
    BY <1>1
  <2>2. U[n] \in Int
    BY <1>3, <2>1
  <2> QED BY <1>4, <2>1, <2>2
<1>6. ASSUME NEW m \in Nat, m \in S PROVE m + 1 \in S
  <2> SUFFICES SoFar(m + 1)
    <3> HIDE DEF SoFar
    <3> QED OBVIOUS
  <2> SUFFICES ASSUME (m + 1) + 1 <= n PROVE V[(m + 1) + 1] = U[n] - U[n - (m + 1)]
    OBVIOUS
  <2> DEFINE k == n - m
             l == m + 1
  <2>1. /\ k \in 2 .. n /\ k \in 1 .. n /\ k - 1 \in 1 .. n /\ l \in 1 .. n /\ l + 1 \in 1 .. n /\ l + 1 \in 2 .. n
        /\ n - (m + 1) = k - 1 /\ n - l + 1 = k /\ n - (l + 1) + 1 = k - 1 /\ (l + 1) - 1 = l /\ m + 1 <= n
        /\ n \in 1 .. n
    BY <1>1
  <2>2. V[l] = U[n] - U[k]
    BY <1>6, <2>1
  <2>3. U[k] = U[k - 1] + Between(line[k - 1], line[k])
    BY <1>3, <2>1
  <2>4. r[l] = line[k] /\ r[l + 1] = line[k - 1]
    <3>1. r[l] = line[n - l + 1] /\ r[l + 1] = line[n - (l + 1) + 1]
      <4> HIDE DEF l, k
      <4> QED BY <1>2, <2>1
    <3> QED BY <2>1, <3>1
  <2>5. V[l + 1] = V[l] + Between(line[k], line[k - 1])
    <3>1. V[l + 1] = V[(l + 1) - 1] + Between(r[(l + 1) - 1], r[l + 1])
      BY <1>4, <2>1
    <3> QED BY <2>1, <2>4, <3>1
  <2>6. Between(line[k - 1], line[k]) \in Int /\ Between(line[k], line[k - 1]) = Between(line[k - 1], line[k])
    <3>1. line[k - 1] \in Crossings /\ line[k] \in Crossings
      BY <1>1, <2>1
    <3> QED BY <3>1, BetweenIs
  <2>7. U[k] \in Int /\ U[k - 1] \in Int /\ U[n] \in Int
    BY <1>3, <2>1
  <2> HIDE DEF k, l
  <2>8. V[l + 1] = U[n] - U[k - 1]
    BY <2>2, <2>3, <2>5, <2>6, <2>7
  <2> QED BY <2>1, <2>8 DEF l
<1>7. i - 1 \in S
  <2>1. Nat \subseteq S
    <3> HIDE DEF S
    <3> QED BY <1>5, <1>6, Induction
  <2>2. i - 1 \in Nat
    BY <1>1 DEF n
  <2> QED BY <2>1, <2>2
<1>8. V[i] = U[n] - U[n - i + 1]
  <2>1. (i - 1) + 1 = i /\ i <= n /\ n - (i - 1) = n - i + 1
    BY <1>1 DEF n
  <2> QED BY <1>7, <2>1
<1> QED BY <1>8 DEF U, V, n, r

\* The points of a plan, counted from its other end.
Mirrored(n, points) == {i \in 1 .. n : n - i + 1 \in points}

\* As many, and counted back again the same.
LEMMA MirroredTwice ==
    ASSUME NEW n \in Nat, NEW points \in SUBSET (1 .. n)
    PROVE  /\ Mirrored(n, points) \in SUBSET (1 .. n) /\ Mirrored(n, Mirrored(n, points)) = points
           /\ Cardinality(Mirrored(n, points)) = Cardinality(points)
<1> DEFINE m == Mirrored(n, points)
           f == [i \in m |-> n - i + 1]
<1>1. m \subseteq 1 .. n /\ \A i \in 1 .. n : n - i + 1 \in 1 .. n /\ n - (n - i + 1) + 1 = i
  BY DEF Mirrored
<1>2. Mirrored(n, m) = points
  <2>1. \A i \in 1 .. n : n - i + 1 \in m <=> i \in points
    BY <1>1 DEF Mirrored
  <2> HIDE DEF m
  <2> QED BY <2>1 DEF Mirrored
<1>3. IsFiniteSet(m)
  <2>1. IsFiniteSet(1 .. n)
    BY FS_Interval
  <2> HIDE DEF m
  <2> QED BY <1>1, <2>1, FS_Subset
<1>4. ExistsBijection(m, points)
  <2>1. \A i \in m : n - i + 1 \in points
    BY DEF Mirrored
  <2>2. ASSUME NEW p \in points PROVE n - p + 1 \in m /\ n - (n - p + 1) + 1 = p
    BY <1>1, <2>2 DEF Mirrored
  <2> HIDE DEF m
  <2>3. f \in [m -> points]
    BY <2>1
  <2>4. \A i, j \in m : f[i] = f[j] => i = j
    BY <1>1
  <2>5. \A p \in points : \E i \in m : f[i] = p
    <3> TAKE p \in points
    <3>1. n - p + 1 \in m /\ f[n - p + 1] = p
      BY <2>2
    <3> QED BY <3>1
  <2> HIDE DEF f
  <2>6. IsInjective(f)
    BY <2>3, <2>4 DEF IsInjective
  <2>7. f \in Bijection(m, points)
    BY <2>3, <2>5, <2>6 DEF Bijection, Injection, Surjection
  <2> QED BY <2>7 DEF ExistsBijection
<1>5. Cardinality(points) = Cardinality(m)
  <2> HIDE DEF m
  <2> QED BY <1>3, <1>4, FS_Bijection
<1> QED BY <1>1, <1>2, <1>5

\* A run of reached points is one from the other end,
LEMMA LongRunFromEnd ==
    ASSUME NEW line \in Lines, NEW points \in SUBSET (1 .. Len(line)), LongRun(line, points)
    PROVE  LongRun(Reverse(line), Mirrored(Len(line), points))
<1> DEFINE n == Len(line)
           r == Reverse(line)
           U == Walked(line)
           V == Walked(r)
<1>1. n \in Nat \ {0} /\ Len(r) = n
  BY LineIs, LineReversed
<1>2. \A k \in 1 .. n : V[k] = U[n] - U[n - k + 1] /\ U[k] \in Int
  BY WalkedFromEnd, WalkedOn
<1>3. PICK i, j \in 1 .. n : /\ i <= j /\ i .. j \subseteq points
                             /\ j - i + 1 >= Rules.minPointRun /\ U[j] - U[i] >= Rules.minCovered
  BY DEF LongRun
<1> DEFINE k == n - j + 1
           l == n - i + 1
<1> HIDE DEF n, U, V, r
<1>4. /\ k \in 1 .. n /\ l \in 1 .. n /\ k <= l /\ l - k + 1 = j - i + 1
      /\ n - k + 1 = j /\ n - l + 1 = i /\ n \in 1 .. n
  BY <1>1, <1>3
<1>5. k .. l \subseteq Mirrored(n, points)
  <2> SUFFICES ASSUME NEW x \in k .. l PROVE x \in 1 .. n /\ n - x + 1 \in points
    BY DEF Mirrored
  <2>1. x \in 1 .. n /\ n - x + 1 \in i .. j
    BY <1>1, <1>3
  <2> QED BY <1>3, <2>1
<1>6. V[l] - V[k] = U[j] - U[i]
  <2>1. V[l] = U[n] - U[i] /\ V[k] = U[n] - U[j]
    <3> HIDE DEF k, l
    <3> QED BY <1>2, <1>4
  <2>2. U[n] \in Int /\ U[i] \in Int /\ U[j] \in Int
    BY <1>2, <1>3, <1>4
  <2> QED BY <2>1, <2>2
<1> HIDE DEF k, l
<1>7. l - k + 1 >= Rules.minPointRun /\ V[l] - V[k] >= Rules.minCovered
  BY <1>3, <1>4, <1>6
<1>8. LongRun(r, Mirrored(n, points))
  BY <1>1, <1>4, <1>5, <1>7 DEF LongRun, V
<1> QED BY <1>8 DEF n, r

-----------------------------------------------------------------------------
(* Judged from either end.                                                 *)

\* The same run of reached points, from whichever end they are counted.
LEMMA LongRunEitherWay ==
    ASSUME NEW line \in Lines, NEW points \in SUBSET (1 .. Len(line))
    PROVE  LongRun(Reverse(line), Mirrored(Len(line), points)) = LongRun(line, points)
<1> DEFINE r == Reverse(line)
           n == Len(line)
           back == Mirrored(n, points)
<1>1. r \in Lines /\ Len(r) = n /\ Reverse(r) = line
  <2>1. line \in Seq(Crossings)
    BY LineIs
  <2> QED BY <2>1, LineReversed, ReversedTwice
<1>2. back \in SUBSET (1 .. n) /\ Mirrored(n, back) = points
  <2>1. n \in Nat
    BY LineIs
  <2> QED BY <2>1, MirroredTwice
<1>3. LongRun(line, points) => LongRun(r, back)
  BY LongRunFromEnd
<1> HIDE DEF r, n, back
<1>4. LongRun(r, back) => LongRun(line, points)
  <2>1. LongRun(r, back) => LongRun(Reverse(r), Mirrored(Len(r), back))
    <3>1. back \in SUBSET (1 .. Len(r))
      BY <1>1, <1>2
    <3> QED BY <1>1, <3>1, LongRunFromEnd
  <2> QED BY <1>1, <1>2, <2>1
<1>5. LongRun(r, back) \in BOOLEAN /\ LongRun(line, points) \in BOOLEAN
  BY DEF LongRun
<1>6. LongRun(r, back) = LongRun(line, points)
  BY <1>3, <1>4, <1>5
<1> QED BY <1>6 DEF r, n, back

\* The points of a plan that a trip reached.
ReachedOf(line, near) == {i \in DOMAIN line : Reaches(near, Rules.pointTolerance, line[i])}

\* What is judged by: the two lines' runs, the trip's within the band, and the
\* points reached.
Judged(planRun, tripRun, bandRun, n, count, long) ==
    LET byLine == \/ ShareOf(planRun, Rules.planCovered)
                  \/ ShareOf(tripRun, Rules.tripOnPlan) /\ planRun.covered >= Rules.minCovered
                  \/ planRun.covered >= Rules.minShared
        mostReached == /\ count >= Rules.minPointRun
                       /\ 100 * count >= Rules.pointsReached * n
        inBand == long /\ ShareOf(bandRun, Rules.tripOnPlan)
    IN IF byLine \/ mostReached \/ inBand
       THEN [judged |-> IF byLine THEN "line" ELSE "points",
             planCovered |-> planRun, tripOnPlan |-> tripRun, pointsReached |-> count]
       ELSE [judged |-> "none"]

\* What a trip is judged by.
LEMMA FollowedIs ==
    ASSUME NEW t, NEW p
    PROVE  Followed(t, p) =
             IF Len(p) = 0 \/ Len(t) < 2 THEN [judged |-> "none"]
             ELSE Judged(Along(p, t, Rules.lineTolerance), Along(t, p, Rules.lineTolerance),
                         Along(t, p, Rules.band), Len(p), Cardinality(ReachedOf(p, t)),
                         LongRun(p, ReachedOf(p, t)))
BY Zenon DEF Followed, Judged, ReachedOf

\* Tolerances are a metre at least.
LEMMA Tolerances ==
    /\ Rules.lineTolerance \in Nat \ {0} /\ Rules.pointTolerance \in Nat \ {0}
    /\ Rules.band \in Nat \ {0}
BY FiguresAssumption

\* The direction of the trip does not matter.
LEMMA TripEitherWay ==
    ASSUME NEW t \in Lines, NEW p \in Lines
    PROVE  Followed(Reverse(t), p) = Followed(t, p)
<1> DEFINE r == Reverse(t)
<1>1. r \in Lines /\ Len(r) = Len(t)
  BY LineReversed
<1>2. /\ Along(p, r, Rules.lineTolerance) = Along(p, t, Rules.lineTolerance)
      /\ Along(r, p, Rules.lineTolerance) = Along(t, p, Rules.lineTolerance)
      /\ Along(r, p, Rules.band) = Along(t, p, Rules.band)
  BY AlongFromEnd, AlongReversed, Tolerances
<1>3. ASSUME NEW i \in DOMAIN p
      PROVE  Reaches(r, Rules.pointTolerance, p[i]) = Reaches(t, Rules.pointTolerance, p[i])
  <2>1. p[i] \in Position
    BY LineIs, CrossingIs
  <2> QED BY <2>1, LinePositions, ReachesFromEnd, Tolerances
<1> HIDE DEF r
<1>4. ReachedOf(p, r) = ReachedOf(p, t)
  BY <1>3 DEF ReachedOf
<1>5. Followed(r, p) = Followed(t, p)
  BY <1>1, <1>2, <1>4, FollowedIs
<1> QED BY <1>5 DEF r

\* Nor does the direction of the plan.
LEMMA PlanEitherWay ==
    ASSUME NEW t \in Lines, NEW p \in Lines
    PROVE  Followed(t, Reverse(p)) = Followed(t, p)
<1> DEFINE r == Reverse(p)
           n == Len(p)
           points == ReachedOf(p, t)
<1>1. r \in Lines /\ Len(r) = n /\ \A k \in 1 .. n : r[k] = p[n - k + 1] /\ n - k + 1 \in 1 .. n
  BY LineReversed
<1>2. /\ Along(r, t, Rules.lineTolerance) = Along(p, t, Rules.lineTolerance)
      /\ Along(t, r, Rules.lineTolerance) = Along(t, p, Rules.lineTolerance)
      /\ Along(t, r, Rules.band) = Along(t, p, Rules.band)
  BY AlongFromEnd, AlongReversed, Tolerances
<1>3. n \in Nat /\ DOMAIN p = 1 .. n /\ points \in SUBSET (1 .. n)
  BY LineIs DEF ReachedOf
<1>4. LongRun(r, Mirrored(n, points)) = LongRun(p, points)
  BY <1>3, LongRunEitherWay
<1> HIDE DEF r, n
<1>5. ReachedOf(r, t) = Mirrored(n, points)
  <2>1. DOMAIN r = 1 .. n
    BY <1>1, LineIs
  <2>2. \A i \in 1 .. n : Reaches(t, Rules.pointTolerance, r[i]) <=> n - i + 1 \in points
    BY <1>1, <1>3 DEF ReachedOf
  <2> HIDE DEF points
  <2> QED BY <2>1, <2>2 DEF ReachedOf, Mirrored
<1> HIDE DEF points
<1>6. Cardinality(Mirrored(n, points)) = Cardinality(points)
  BY <1>3, MirroredTwice
<1>7. Followed(t, r) = Followed(t, p)
  <2>1. Cardinality(ReachedOf(r, t)) = Cardinality(points) /\ LongRun(r, ReachedOf(r, t)) = LongRun(p, points)
    BY <1>4, <1>5, <1>6
  <2> QED BY <1>1, <1>2, <2>1, FollowedIs DEF points, n
<1> QED BY <1>7 DEF r

\* No line, or a trip of one point, follows nothing from either end.
LEMMA NothingEitherWay ==
    ASSUME NEW t \in Seq(Crossings), NEW p \in Seq(Crossings), Len(p) = 0 \/ Len(t) < 2
    PROVE  Followed(Reverse(t), p) = Followed(t, p) /\ Followed(t, Reverse(p)) = Followed(t, p)
<1>1. Len(Reverse(t)) = Len(t) /\ Len(Reverse(p)) = Len(p)
  BY Reversed
<1> QED BY <1>1, FollowedIs

-----------------------------------------------------------------------------
(* Figures: what is drawn and recorded, and the theorems.                  *)

\* What is drawn and recorded.
FiguresTypes ==
    /\ part \in {"segment", "trip", "track", "profile"}
    /\ segment \in Seq(Starts \cup Corners) /\ Len(segment) <= 2
    /\ trip \in Seq(Places) /\ Len(trip) <= MaxTrip
    /\ plan \in Plans \cup {<<>>}
    /\ track \in Seq([time : Times \cup {Unknown}, offset : Offsets \cup {Unknown}]) /\ Len(track) <= MaxTrack
    /\ heights \in Seq(Elevations) /\ Len(heights) <= MaxProfile

\* A sequence below its bound can take one more.
LEMMA OneMore ==
    ASSUME NEW S, NEW s \in Seq(S), NEW x \in S, NEW n \in Nat, Len(s) < n
    PROVE  Append(s, x) \in Seq(S) /\ Len(Append(s, x)) <= n
OBVIOUS

\* The inputs are what is drawn and recorded, a point at a time, up to the
\* bounds.
THEOREM FiguresAreTyped == FiguresSpec => []FiguresTypes
<1>1. FiguresInit => FiguresTypes
  <2> SUFFICES ASSUME FiguresInit PROVE FiguresTypes
    OBVIOUS
  <2>1. \A S : <<>> \in Seq(S) /\ Len(<<>>) = 0
    OBVIOUS
  <2>2. 0 <= MaxTrip /\ 0 <= MaxTrack /\ 0 <= MaxProfile
    BY FiguresAssumption
  <2> QED BY <2>1, <2>2 DEF FiguresInit, FiguresTypes
<1>2. FiguresTypes /\ [FiguresNext]_figures => FiguresTypes'
  <2> SUFFICES ASSUME FiguresTypes, [FiguresNext]_figures PROVE FiguresTypes'
    OBVIOUS
  <2>1. CASE DrawSegment
    <3>1. PICK p \in Starts \cup Corners : segment' = Append(segment, p)
      BY <2>1 DEF DrawSegment
    <3>2. segment' \in Seq(Starts \cup Corners) /\ Len(segment') <= 2
      BY <2>1, <3>1, OneMore DEF DrawSegment, FiguresTypes
    <3> QED BY <2>1, <3>2 DEF DrawSegment, FiguresTypes
  <2>2. CASE RecordTrip
    <3>1. PICK p \in Places : trip' = Append(trip, p)
      BY <2>2 DEF RecordTrip
    <3>2. trip' \in Seq(Places) /\ Len(trip') <= MaxTrip
      BY <2>2, <3>1, OneMore, FiguresAssumption DEF RecordTrip, FiguresTypes
    <3> QED BY <2>2, <3>2 DEF RecordTrip, FiguresTypes
  <2>3. CASE RecordPoint
    <3> DEFINE Given == [time : Times \cup {Unknown}, offset : Offsets \cup {Unknown}]
    <3>1. PICK p \in Given : track' = Append(track, p)
      BY <2>3 DEF RecordPoint
    <3>2. track \in Seq(Given) /\ Len(track) < MaxTrack /\ MaxTrack \in Nat
      BY <2>3, FiguresAssumption DEF RecordPoint, FiguresTypes
    <3>3. track' \in Seq(Given) /\ Len(track') <= MaxTrack
      <4> HIDE DEF Given
      <4> QED BY <3>1, <3>2, OneMore
    <3> QED BY <2>3, <3>3 DEF RecordPoint, FiguresTypes
  <2>4. CASE RecordElevation
    <3>1. PICK h \in Elevations : heights' = Append(heights, h)
      BY <2>4 DEF RecordElevation
    <3>2. heights' \in Seq(Elevations) /\ Len(heights') <= MaxProfile
      BY <2>4, <3>1, OneMore, FiguresAssumption DEF RecordElevation, FiguresTypes
    <3> QED BY <2>4, <3>2 DEF RecordElevation, FiguresTypes
  <2>5. CASE UNCHANGED figures
    BY <2>5 DEF figures, FiguresTypes
  <2> QED BY <2>1, <2>2, <2>3, <2>4, <2>5 DEF FiguresNext
<1> QED BY <1>1, <1>2, PTL DEF FiguresSpec

\* A sequence over a set is one over a wider set.
LEMMA WiderSeq ==
    ASSUME NEW S, NEW T, S \subseteq T, NEW s \in Seq(S)
    PROVE  s \in Seq(T)
<1>1. \A i \in 1 .. Len(s) : s[i] \in T
  BY MemberOf
<1> QED BY <1>1

\* Whatever a profile's elevations: a climb leaves its lowest point for its
\* highest without a fall that would end it, climbs lie apart, and every rise
\* is part of one that gains as much, or small beside the dip a climb before
\* it bears.
THEOREM NoRiseIsOverlooked == FiguresSpec => []NoRiseOverlooked
<1>1. FiguresTypes => NoRiseOverlooked
  <2> SUFFICES ASSUME FiguresTypes PROVE NoRiseOverlooked
    OBVIOUS
  <2>1. heights \in Seq(Int)
    BY WiderSeq, FiguresAssumption DEF FiguresTypes
  <2> QED BY <2>1, StretchesKeepAll
<1> QED BY <1>1, FiguresAreTyped, PTL

\* Whatever a track's times and offsets: a photo taken on it is placed at the
\* first instant at which a clock set by where the track was showed what the
\* photo's shows, and where the track was then; with its offset written in,
\* at the instant it was taken.
THEOREM ClocksAreRead == FiguresSpec => []ReadsTheClock
<1>1. FiguresTypes => ReadsTheClock
  <2> SUFFICES ASSUME FiguresTypes, TimedPoints(track) # <<>> PROVE ReadsTheClock
    BY DEF ReadsTheClock
  <2>1. track \in Seq([time : Int \cup {Unknown}, offset : Int \cup {Unknown}])
    <3> DEFINE Given == [time : Times \cup {Unknown}, offset : Offsets \cup {Unknown}]
               Whole == [time : Int \cup {Unknown}, offset : Int \cup {Unknown}]
    <3>1. Given \subseteq Whole
      BY FiguresAssumption
    <3>2. track \in Seq(Given)
      BY DEF FiguresTypes
    <3> HIDE DEF Given, Whole
    <3>3. track \in Seq(Whole)
      BY <3>1, <3>2, WiderSeq
    <3> QED BY <3>3 DEF Whole
  <2>2. PICK points : points = TimedPoints(track)
    OBVIOUS
  <2>3. InTimeOrder(points) /\ points # <<>>
    BY <2>1, <2>2, TimedInOrder
  <2>4. Last(points) = points[Len(points)]
    BY DEF Last
  <2>5. ASSUME NEW t \in points[1].time .. Last(points).time, NEW zone \in Zones
        PROVE  PlacedRight(points, t, zone)
    BY <2>3, <2>4, ClockIsRead
  <2> QED BY <2>2, <2>5, Zenon DEF ReadsTheClock
<1> QED BY <1>1, FiguresAreTyped, PTL

\* A trip goes on along an axis from its last point.
TripsAlongAxes == FiguresTypes /\ AlongAxes(trip)

\* Every trip that is recorded runs along the axes.
THEOREM TripsRunAlongAxes == FiguresSpec => []TripsAlongAxes
<1>1. FiguresInit => AlongAxes(trip)
  BY DEF FiguresInit, AlongAxes
<1>2. TripsAlongAxes /\ [FiguresNext]_figures => AlongAxes(trip)'
  <2> SUFFICES ASSUME FiguresTypes, AlongAxes(trip), [FiguresNext]_figures
               PROVE  AlongAxes(trip')
    BY DEF TripsAlongAxes, AlongAxes
  <2>1. CASE RecordTrip
    <3>1. PICK p \in Places : /\ trip # <<>> => p[1] = Last(trip)[1] \/ p[2] = Last(trip)[2]
                              /\ trip' = Append(trip, p)
      BY <2>1 DEF RecordTrip
    <3> DEFINE n == Len(trip)
               next == trip'
    <3>2. trip \in Seq(Places) /\ n \in Nat
      BY DEF FiguresTypes
    <3>3. /\ Len(next) = n + 1 /\ next[n + 1] = p
          /\ \A k \in 1 .. n : next[k] = trip[k]
      BY <3>1, <3>2
    <3>4. n # 0 => Last(trip) = trip[n] /\ trip # <<>>
      BY <3>2 DEF Last
    <3> SUFFICES ASSUME NEW k \in 2 .. n + 1
                 PROVE  next[k][1] = next[k - 1][1] \/ next[k][2] = next[k - 1][2]
      BY <3>3 DEF AlongAxes
    <3>5. CASE k = n + 1
      <4>1. k - 1 = n /\ n \in 1 .. n /\ n # 0
        BY <3>2, <3>5
      <4>2. next[k] = p /\ next[k - 1] = trip[n] /\ Last(trip) = trip[n] /\ trip # <<>>
        BY <3>3, <3>4, <3>5, <4>1
      <4> QED BY <3>1, <4>2
    <3>6. CASE k # n + 1
      <4>1. k \in 2 .. n /\ k \in 1 .. n /\ k - 1 \in 1 .. n
        BY <3>2, <3>6
      <4>2. next[k] = trip[k] /\ next[k - 1] = trip[k - 1]
        BY <3>3, <4>1
      <4>3. trip[k][1] = trip[k - 1][1] \/ trip[k][2] = trip[k - 1][2]
        BY <4>1 DEF AlongAxes
      <4> QED BY <4>2, <4>3
    <3> QED BY <3>5, <3>6
  <2>2. CASE trip' = trip
    BY <2>2
  <2>3. RecordTrip \/ trip' = trip
    BY DEF FiguresNext, DrawSegment, RecordPoint, RecordElevation, figures
  <2> QED BY <2>1, <2>2, <2>3
<1> QED BY <1>1, <1>2, FiguresAreTyped, PTL DEF FiguresSpec, TripsAlongAxes

\* Whatever the trip, the plan and the tolerances: looking at the cells around a
\* point misses no segment near it (line_grid.rs), and a trip is judged the same
\* whichever way it and its plan went (link_match.rs): two runs from both ends
\* of a line cover the same between them.
THEOREM NearnessIsJudged == FiguresSpec => []JudgesWhatIsNear
<1>1. TripsAlongAxes => JudgesWhatIsNear
  <2> SUFFICES ASSUME TripsAlongAxes PROVE JudgesWhatIsNear
    OBVIOUS
  <2>1. ASSUME segment # <<>>, NEW p \in Looked, NEW g \in Grids
        PROVE  Reaches(segment, g, p) = LiesNear(segment, g, p)
    <3>1. Starts \cup Corners \subseteq Position /\ p \in Position /\ g \in Nat \ {0}
      BY FiguresAssumption DEF Position
    <3>2. segment \in Seq(Position)
      <4>1. segment \in Seq(Starts \cup Corners)
        BY DEF TripsAlongAxes, FiguresTypes
      <4> HIDE DEF Position
      <4> QED BY <3>1, <4>1, WiderSeq
    <3> QED BY <2>1, <3>1, <3>2, GridMissesNothing
  <2>2. ASSUME trip # <<>>
        PROVE  Followed(Reverse(trip), plan) = Followed(trip, plan) /\ Followed(trip, Reverse(plan)) = Followed(trip, plan)
    <3>1. trip \in Seq(Crossings)
      <4>1. trip \in Seq(Places) /\ Places \subseteq Crossings
        BY FiguresAssumption DEF TripsAlongAxes, FiguresTypes
      <4> QED BY <4>1, WiderSeq
    <3>2. plan \in Seq(Crossings) /\ AlongAxes(plan)
      <4>1. CASE plan \in Plans
        BY <4>1, FiguresAssumption
      <4>2. CASE plan = <<>>
        BY <4>2 DEF AlongAxes
      <4> QED BY <4>1, <4>2 DEF TripsAlongAxes, FiguresTypes
    <3>3. CASE Len(plan) = 0 \/ Len(trip) < 2
      BY <3>1, <3>2, <3>3, NothingEitherWay
    <3>4. CASE ~ (Len(plan) = 0 \/ Len(trip) < 2)
      <4>1. trip \in Lines
        BY <2>2, <3>1 DEF Lines, TripsAlongAxes
      <4>2. plan \in Lines
        <5>1. plan # <<>>
          BY <3>2, <3>4
        <5> QED BY <3>2, <5>1 DEF Lines
      <4> QED BY <4>1, <4>2, TripEitherWay, PlanEitherWay
    <3> QED BY <3>3, <3>4
  <2> QED BY <2>1, <2>2 DEF JudgesWhatIsNear
<1> QED BY <1>1, TripsRunAlongAxes, PTL
=============================================================================
