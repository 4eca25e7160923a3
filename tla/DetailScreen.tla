----------------------------- MODULE DetailScreen -----------------------------
(***************************************************************************)
(* The trip screen of the single-page application (US-42): what it reads   *)
(* of the trip shown, adding photos (US-2), editing (US-15) and deleting   *)
(* (US-9).  The router shows the next trip through the same scope, and the *)
(* reads and the requests under way answer late, or never.                 *)
(***************************************************************************)
EXTENDS Screens, SequencesExt

CONSTANTS
    Trips,
    Files,        \* photos the owner may pick
    Jobs,         \* handlers under way at a time
    Fields,       \* what the form edits
    MaxValue,     \* bound: values of a field
    MaxStored     \* bound: photos of a trip

ASSUME DetailAssumption ==
    /\ None \notin Trips \cup Files /\ None \notin {"ok", "refused", "lost"}
    /\ IsFiniteSet(Files) /\ MaxValue \in Nat /\ MaxStored \in Nat

VARIABLES
    at,        \* the trip of the route
    trip,      \* trip_resource: [read, asked, answer]
    photos,    \* photo_list
    cached,    \* the photos read last, and for which trip
    controls,  \* the actions' signals
    job,       \* the handler in each slot
    fields,    \* the archive: each trip's fields
    stored,    \* its photos, in the order they arrived
    gone,      \* trips deleted
    untold     \* trips changed by what this screen was not told of

detail == <<at, trip, photos, cached, controls, job, fields, stored, gone, untold, events>>
archived == <<fields, stored, gone>>

Idle == [adding |-> FALSE, chosen |-> <<>>, editing |-> None, arming |-> FALSE, deleting |-> FALSE]
\* The trip's own read is what the actions are shown under.
Mounted == trip.read # None /\ trip.read.of = at /\ ~trip.read.gone

Working == {j \in Jobs : job[j] # None /\ ~job[j].gone}
Dropped(js) == [j \in Jobs |->
    IF j \notin js \/ job[j] = None THEN job[j]
    ELSE IF job[j].do = "read" \/ job[j].answer # None THEN None
    ELSE [job[j] EXCEPT !.gone = TRUE]]
Doing(what) == {j \in Working : job[j].do \in what}
\* The trips an owner's handlers were at work for when they were dropped.
Forgot(js) == {job[j].of : j \in {j \in js : job[j] # None /\ job[j].do # "read"}}

Begin(do, of, what) ==
    [do |-> do, of |-> of, what |-> what, sent |-> 0, answer |-> None, gone |-> FALSE,
     shown |-> IF do = "edit" THEN trip.read.fields ELSE None]

----------------------------------------------------------------------------
\* The route and the reads.

\* Everything under "Loading" is unmounted, what it was waiting for with it.
Navigate(to) ==
    /\ to # at /\ Event
    /\ at' = to
    /\ trip' = Again(trip) /\ photos' = Again(photos)
    /\ controls' = Idle
    /\ job' = Dropped(Working)
    /\ untold' = untold \cup Forgot(Working)
    /\ UNCHANGED <<cached, archived>>

ReadTrip ==
    /\ trip.asked
    /\ trip' = [trip EXCEPT !.asked = FALSE,
                            !.answer = [of |-> at, gone |-> at \in gone, fields |-> fields[at]]]
    /\ UNCHANGED <<at, photos, cached, controls, job, archived, untold, events>>

\* A trip that is gone takes the actions off the screen.
ShowTrip ==
    /\ trip.answer # None
    /\ trip' = [trip EXCEPT !.read = trip.answer, !.answer = None]
    /\ controls' = IF trip.answer.gone THEN Idle
                   ELSE IF trip.answer # trip.read /\ controls.editing # None
                   THEN [controls EXCEPT !.editing = trip.answer.fields] ELSE controls
    /\ job' = IF trip.answer.gone THEN Dropped(Working) ELSE job
    /\ untold' = IF trip.answer.gone THEN untold \cup Forgot(Working) ELSE untold
    /\ UNCHANGED <<at, photos, cached, archived, events>>

ReadPhotos ==
    /\ photos.asked
    /\ photos' = [photos EXCEPT !.asked = FALSE,
                    !.answer = [of |-> at, ok |-> at \notin gone, photos |-> stored[at]]]
    /\ UNCHANGED <<at, trip, cached, controls, job, archived, untold, events>>

\* use_effect: what was read is cached with its trip; a failure is not.
ShowPhotos ==
    /\ photos.answer # None
    /\ photos' = [photos EXCEPT !.read = photos.answer, !.answer = None]
    /\ cached' = IF photos.answer.ok THEN photos.answer ELSE cached
    /\ UNCHANGED <<at, trip, controls, job, archived, untold, events>>

\* What the gallery and the map show, None while nothing was read.
Gallery == IF cached # None /\ cached.of = at THEN cached ELSE None

----------------------------------------------------------------------------
\* AddPhotos

ToggleAdding ==
    /\ Mounted /\ Event
    /\ controls' = [controls EXCEPT !.adding = ~@, !.chosen = <<>>]
    /\ job' = Dropped(Doing({"read", "upload"}))
    /\ untold' = untold \cup Forgot(Doing({"read", "upload"}))
    /\ UNCHANGED <<at, trip, photos, cached, archived>>

\* What was staged goes at once; the bytes come when they are read.  A file
\* carries when it was picked: one picked again is another upload.
PickFiles(j, files) ==
    /\ Mounted /\ controls.adding /\ job[j] = None /\ Event
    /\ controls' = [controls EXCEPT !.chosen = <<>>]
    /\ job' = [job EXCEPT ![j] = Begin("read", at, [k \in DOMAIN files |-> <<files[k], events>>])]
    /\ UNCHANGED <<at, trip, photos, cached, archived, untold>>

FilesRead(j) ==
    /\ j \in Doing({"read"})
    /\ \E read \in {job[j].what, controls.chosen} :
         controls' = [controls EXCEPT !.chosen = read]
    /\ job' = [job EXCEPT ![j] = None]
    /\ UNCHANGED <<at, trip, photos, cached, archived, untold, events>>

\* Nothing keeps the button from a second press while the first is under way.
Upload(j) ==
    /\ Mounted /\ controls.adding /\ controls.chosen # <<>>
    /\ job[j] = None /\ Event
    /\ job' = [job EXCEPT ![j] = Begin("upload", at, controls.chosen)]
    /\ UNCHANGED <<at, trip, photos, cached, controls, archived, untold>>

Replied(j, how) == job[j].answer = how

\* upload_in_batches, a photo to a batch.
NextFile(j) ==
    /\ j \in Doing({"upload"}) /\ Replied(j, "ok")
    /\ job[j].sent + 1 < Len(job[j].what)
    /\ job' = [job EXCEPT ![j].sent = @ + 1, ![j].answer = None]
    /\ UNCHANGED <<at, trip, photos, cached, controls, archived, untold, events>>

Uploaded(j) ==
    /\ j \in Doing({"upload"}) /\ Replied(j, "ok")
    /\ job[j].sent + 1 = Len(job[j].what)
    /\ controls' = [controls EXCEPT !.chosen = <<>>]
    /\ job' = [job EXCEPT ![j] = None]
    /\ photos' = Again(photos)
    /\ UNCHANGED <<at, trip, cached, archived, untold, events>>

\* Mutant: what did arrive is not read.
NotRead(sent) == photos
AfterPart(sent) == IF sent > 0 THEN Again(photos) ELSE photos

\* drain(..uploaded): of a shorter choice, picked meanwhile, it panics, and
\* the handler goes no further.
UploadStopped(j) ==
    /\ j \in Doing({"upload"}) /\ job[j].answer \in {"refused", "lost"}
    /\ job[j].sent <= Len(controls.chosen)
    /\ controls' = [controls EXCEPT !.chosen = SubSeq(@, job[j].sent + 1, Len(@))]
    /\ job' = [job EXCEPT ![j] = None]
    /\ photos' = AfterPart(job[j].sent)
    /\ UNCHANGED <<at, trip, cached, archived, untold, events>>

----------------------------------------------------------------------------
\* EditTrip and EditTripForm

OpenEdit ==
    /\ Mounted /\ controls.editing = None /\ Event
    /\ controls' = [controls EXCEPT !.editing = trip.read.fields]
    /\ UNCHANGED <<at, trip, photos, cached, job, archived, untold>>

Alter(f, v) ==
    /\ controls.editing # None /\ controls.editing[f] # v /\ Event
    /\ controls' = [controls EXCEPT !.editing[f] = v]
    /\ UNCHANGED <<at, trip, photos, cached, job, archived, untold>>

\* Mutant: every field is sent.
Everything(form) == form
\* changes: the fields that differ from the trip as it was read.
Changes(form) == [f \in {f \in Fields : form[f] # trip.read.fields[f]} |-> form[f]]

Save(j) ==
    /\ controls.editing # None /\ Event
    /\ IF Changes(controls.editing) = <<>>
       THEN /\ controls' = [controls EXCEPT !.editing = None]
            /\ job' = Dropped(Doing({"edit"})) /\ untold' = untold \cup Forgot(Doing({"edit"}))
       ELSE /\ job[j] = None
            /\ job' = [job EXCEPT ![j] = Begin("edit", at, Changes(controls.editing))]
            /\ UNCHANGED <<controls, untold>>
    /\ UNCHANGED <<at, trip, photos, cached, archived>>

CloseEdit ==
    /\ controls.editing # None /\ Event
    /\ controls' = [controls EXCEPT !.editing = None]
    /\ job' = Dropped(Doing({"edit"}))
    /\ untold' = untold \cup Forgot(Doing({"edit"}))
    /\ UNCHANGED <<at, trip, photos, cached, archived>>

\* The form closes, another save of it with it.
Saved(j) ==
    /\ j \in Doing({"edit"}) /\ job[j].answer # None
    /\ IF Replied(j, "ok")
       THEN /\ controls' = [controls EXCEPT !.editing = None]
            /\ job' = [Dropped(Doing({"edit"})) EXCEPT ![j] = None]
            /\ untold' = untold \cup Forgot(Doing({"edit"}) \ {j})
            /\ trip' = Again(trip)
       ELSE job' = [job EXCEPT ![j] = None] /\ UNCHANGED <<controls, untold, trip>>
    /\ UNCHANGED <<at, photos, cached, archived, events>>

----------------------------------------------------------------------------
\* DeleteTrip

Arm(armed) ==
    /\ Mounted /\ controls.arming # armed /\ Event
    /\ controls' = [controls EXCEPT !.arming = armed]
    /\ UNCHANGED <<at, trip, photos, cached, job, archived, untold>>

ConfirmDelete(j) ==
    /\ Mounted /\ controls.arming /\ ~controls.deleting /\ job[j] = None /\ Event
    /\ controls' = [controls EXCEPT !.deleting = TRUE]
    /\ job' = [job EXCEPT ![j] = Begin("delete", at, <<>>)]
    /\ UNCHANGED <<at, trip, photos, cached, archived, untold>>

NotDeleted(j) ==
    /\ j \in Doing({"delete"}) /\ job[j].answer \in {"refused", "lost"}
    /\ controls' = [controls EXCEPT !.arming = FALSE, !.deleting = FALSE]
    /\ job' = [job EXCEPT ![j] = None]
    /\ UNCHANGED <<at, trip, photos, cached, archived, untold, events>>

\* The screen is left.
Away ==
    /\ at' = at /\ trip' = Opening /\ photos' = Opening /\ cached' = None
    /\ controls' = Idle /\ job' = Dropped(Working)
    /\ untold' = untold \cup Forgot(Working)
    /\ UNCHANGED <<archived, events>>

Deleted(j) ==
    /\ j \in Doing({"delete"}) /\ Replied(j, "ok")
    /\ Away

----------------------------------------------------------------------------
\* The archive, and whoever else changes the trip: a sync run, another tab.

AtArchive(j, do) == job[j] # None /\ job[j].do = do /\ job[j].answer = None
Reply(j, how) ==
    job' = [job EXCEPT ![j] = IF job[j].gone THEN None ELSE [job[j] EXCEPT !.answer = how]]

StorePhoto(j) ==
    /\ AtArchive(j, "upload") /\ job[j].of \notin gone
    /\ Len(stored[job[j].of]) < MaxStored
    /\ stored' = [stored EXCEPT ![job[j].of] = Append(@, job[j].what[job[j].sent + 1])]
    /\ Reply(j, "ok")
    /\ UNCHANGED <<at, trip, photos, cached, controls, fields, gone, untold, events>>

StoreEdit(j) ==
    /\ AtArchive(j, "edit") /\ job[j].of \notin gone
    /\ fields' = [fields EXCEPT ![job[j].of] =
            [f \in Fields |-> IF f \in DOMAIN job[j].what THEN job[j].what[f] ELSE @[f]]]
    /\ Reply(j, "ok")
    /\ UNCHANGED <<at, trip, photos, cached, controls, stored, gone, untold, events>>

DeleteRow(j) ==
    /\ AtArchive(j, "delete") /\ job[j].of \notin gone
    /\ gone' = gone \cup {job[j].of}
    /\ Reply(j, "ok")
    /\ UNCHANGED <<at, trip, photos, cached, controls, fields, stored, untold, events>>

\* 409 beside a sync run, 404 of a trip deleted, or worse.
RefuseJob(j) ==
    /\ job[j] # None /\ job[j].do # "read" /\ job[j].answer = None
    /\ Reply(j, "refused")
    /\ UNCHANGED <<at, trip, photos, cached, controls, archived, untold, events>>

\* The answer is lost, or the request.
LoseJob(j) ==
    /\ job[j] # None /\ job[j].do # "read" /\ ~job[j].gone /\ job[j].answer # "lost"
    /\ Reply(j, "lost")
    /\ untold' = untold \cup {job[j].of}
    /\ UNCHANGED <<at, trip, photos, cached, controls, archived, events>>

Elsewhere(t, f, v) ==
    /\ t \notin gone /\ fields[t][f] # v /\ Event
    /\ fields' = [fields EXCEPT ![t][f] = v]
    /\ UNCHANGED <<at, trip, photos, cached, controls, job, stored, gone, untold>>

----------------------------------------------------------------------------
DetailInit ==
    /\ at \in Trips /\ trip = Opening /\ photos = Opening /\ cached = None
    /\ controls = Idle
    /\ job = [j \in Jobs |-> None]
    /\ fields = [t \in Trips |-> [f \in Fields |-> 0]]
    /\ stored = [t \in Trips |-> <<>>]
    /\ gone = {} /\ untold = {} /\ events = 0

\* Files as an owner picks them: each once, in some order.
Picks == {s \in SeqOf(Files, Cardinality(Files)) : s # <<>> /\ IsInjective(s)}

DetailClick ==
    \/ \E to \in Trips : Navigate(to)
    \/ ReadTrip \/ ShowTrip \/ ReadPhotos \/ ShowPhotos
    \/ ToggleAdding
    \/ \E j \in Jobs, files \in Picks : PickFiles(j, files)
    \/ OpenEdit \/ CloseEdit
    \/ \E f \in Fields, v \in 0 .. MaxValue : Alter(f, v)
    \/ \E armed \in BOOLEAN : Arm(armed)
    \/ \E j \in Jobs :
         \/ FilesRead(j) \/ Upload(j) \/ NextFile(j) \/ Uploaded(j) \/ UploadStopped(j)
         \/ Save(j) \/ Saved(j) \/ ConfirmDelete(j) \/ NotDeleted(j)

DetailArchive ==
    \/ \E j \in Jobs : StorePhoto(j) \/ StoreEdit(j) \/ DeleteRow(j) \/ RefuseJob(j) \/ LoseJob(j)
    \/ \E t \in Trips, f \in Fields, v \in 0 .. MaxValue : Elsewhere(t, f, v)

DetailNext == DetailClick \/ DetailArchive \/ Away \/ \E j \in Jobs : Deleted(j)

DetailSpec == DetailInit /\ [][DetailNext]_detail

----------------------------------------------------------------------------
\* Properties.

\* The gallery shows the trip's own photos, never the one's it came from;
\* and all of them once the read and the uploads are answered, the part of
\* one that stopped included ("what is on screen stays there until there is
\* something newer").
GalleryIsCurrent ==
    Gallery # None =>
        /\ IsPrefix(Gallery.photos, stored[at])
        /\ (~photos.asked /\ photos.answer = None /\ Doing({"upload"}) = {} /\ at \notin untold \cup gone) =>
              Gallery.photos = stored[at]

\* An edit changes no field the owner left as the screen showed it, whatever
\* a sync run or another tab made of it meanwhile (US-15, "every field the
\* owner actually altered, and nothing else").
SavesOnlyAltered ==
    [][\A j \in Jobs : AtArchive(j, "edit") /\ fields' # fields /\ job'[j] # job[j] =>
          \A f \in Fields : fields'[job[j].of][f] # fields[job[j].of][f] =>
              fields'[job[j].of][f] # job[j].shown[f]]_detail

\* "What did arrive must not go up twice" (photos.rs), but for a lost answer.
UploadedOnce ==
    \A t \in Trips \ untold : IsInjective(stored[t])

----------------------------------------------------------------------------
(* Strengthening for the proofs.                                           *)

Photo == Files \X Nat
Form == [Fields -> 0 .. MaxValue]
Altered == UNION {[S -> 0 .. MaxValue] : S \in SUBSET Fields}
TripRead == [of : Trips, gone : BOOLEAN, fields : Form]
PhotoList == [of : Trips, ok : BOOLEAN, photos : Seq(Photo)]
Work(does, whats) ==
    [do : does, of : Trips, what : whats, sent : Nat,
     answer : {None, "ok", "refused", "lost"}, gone : BOOLEAN, shown : Form \cup {None}]
Handler == Work({"read", "upload", "delete"}, Seq(Photo)) \cup Work({"edit"}, Altered)

ASSUME DetailApart == None \notin Form \cup TripRead \cup PhotoList \cup Handler

DetailTypes ==
    /\ at \in Trips /\ trip \in Reading(TripRead) /\ photos \in Reading(PhotoList)
    /\ cached \in PhotoList \cup {None}
    /\ controls \in [adding : BOOLEAN, chosen : Seq(Photo), editing : Form \cup {None},
                     arming : BOOLEAN, deleting : BOOLEAN]
    /\ job \in [Jobs -> Handler \cup {None}]
    /\ fields \in [Trips -> Form] /\ stored \in [Trips -> Seq(Photo)]
    /\ gone \subseteq Trips /\ untold \subseteq Trips /\ events \in Nat

\* A handler works for the trip shown, or was given up for one that changed
\* unheard; an upload has a photo to send, an edit only what differs.
AtWork(h) == h # None =>
    /\ h.do \in {"read", "upload"} => h.sent < Len(h.what)
    /\ h.do = "edit" => \A f \in DOMAIN h.what : h.what[f] # h.shown[f]
    /\ IF h.gone THEN h.of \in untold ELSE h.of = at
    /\ h.answer = "lost" => h.of \in untold
AllAtWork == \A j \in Jobs : AtWork(job[j])

\* The form edits what was read.
EditsRead == controls.editing # None => trip.read # None
\* An answer is of the trip shown, or of none there is; photos only arrive.
PhotosFit ==
    /\ photos.answer # None =>
          /\ photos.answer.of = at /\ (photos.answer.ok \/ at \in gone)
          /\ IsPrefix(photos.answer.photos, stored[at])
    /\ cached # None => IsPrefix(cached.photos, stored[cached.of])

\* An upload of which something arrived: its end has the photos read.
Owes(j) == j \in Doing({"upload"}) /\ (job[j].sent > 0 \/ job[j].answer = "ok")
GalleryFollows == at \notin untold \cup gone =>
    \/ photos.asked \/ \E j \in Jobs : Owes(j)
    \/ photos.answer # None /\ photos.answer.photos = stored[at]
    \/ photos.answer = None /\ (Gallery # None => Gallery.photos = stored[at])

DetailInductive ==
    DetailTypes /\ AllAtWork /\ EditsRead /\ PhotosFit /\ GalleryFollows
=============================================================================
