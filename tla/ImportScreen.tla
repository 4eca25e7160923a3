---------------------------- MODULE ImportScreen ----------------------------
(***************************************************************************)
(* The import screen of the single-page application (US-43, US-86): its    *)
(* signals, the async handlers that go on while the owner clicks, and the  *)
(* archive they ask (StagedImport, seen from here as one step per          *)
(* request).  An answer may be lost after the archive acted, a parked file *)
(* swept under the form, and the owner may leave at any time.              *)
(***************************************************************************)
EXTENDS Screens

CONSTANTS
    Tasks,        \* handlers under way at a time
    MaxChoices,   \* bound: times a file is chosen
    MaxParked,    \* bound: uploads parked
    MaxMade,      \* bound: trips and collections made
    MaxPicks,     \* bound: times photos are picked on one form
    Batches       \* requests a selection of photos takes

ASSUME ImportAssumption ==
    /\ None \notin Nat \cup Tasks /\ MaxChoices \in Nat /\ MaxParked \in Nat
    /\ MaxMade \in Nat /\ MaxPicks \in Nat /\ Batches \in Nat

ChosenFiles == 1 .. MaxChoices
Parked == 1 .. MaxParked

VARIABLES
    screen,   \* the signals of ImportTrip
    form,     \* the photos' of ConfirmImportStep
    task,     \* the handler in each slot
    rows,     \* import_staging: the choice parked under each id, else None
    lastId,   \* its sqlite_sequence
    made,     \* the trips and collections made: [of, photos]
    chosen,   \* files chosen so far
    unheard   \* choices that lost an answer, or were walked away from

importing == <<screen, form, task, rows, lastId, made, chosen, unheard>>
archive == <<rows, lastId, made>>

Blank == [staged |-> None, gpx |-> None, collection |-> None, reading |-> FALSE,
          submitting |-> FALSE, uploading |-> FALSE, partial |-> None]
NoPhotos == [picked |-> 0, read |-> None, reading |-> FALSE]

ImportInit ==
    /\ screen = Blank /\ form = NoPhotos
    /\ task = [t \in Tasks |-> None]
    /\ rows = [i \in Parked |-> None] /\ lastId = 0
    /\ made = <<>> /\ chosen = 0 /\ unheard = {} /\ events = 0

\* The step shown, in the order the screen asks.
Step ==
    IF screen.collection # None THEN "collection"
    ELSE IF screen.uploading THEN "progress"
    ELSE IF screen.partial # None THEN "partial"
    ELSE IF screen.staged = None THEN "choose"
    ELSE "confirm"

At(t, do, at) ==
    task[t] # None /\ task[t].do = do /\ task[t].at = at /\ ~task[t].gone

\* A handler's next state; the form is fresh whenever its step was away,
\* and what was reading photos for it is dropped with it.
Goes(t, next) ==
    task' = [k \in Tasks |->
        IF k = t THEN next
        ELSE IF task[k] # None /\ task[k].do = "pick" /\ Step' # "confirm" THEN None
        ELSE task[k]]

Shows(next) ==
    /\ screen' = next
    /\ form' = IF Step' = "confirm" THEN form ELSE NoPhotos

Asks(t, at, id) == [task[t] EXCEPT !.at = at, !.id = id, !.answer = None]
Start(do, at, of, id) ==
    [do |-> do, at |-> at, of |-> of, id |-> id, photos |-> None, sent |-> 0,
     answer |-> None, gone |-> FALSE]

\* The choices a handler is about, by the bytes it holds and the row it names.
About(t) ==
    IF task[t] = None \/ task[t].do = "pick" THEN {}
    ELSE ({task[t].of} \cup IF task[t].at \in {"confirm", "reconfirm", "cancel"}
                            THEN {rows[task[t].id]} ELSE {}) \ {None}

Answered(t, how) == task[t].answer # None /\ task[t].answer.how = how
Failed(t) == task[t].answer # None /\ task[t].answer.how # "ok"

----------------------------------------------------------------------------
\* choose: the picker is disabled while a file is read.

Choose(t, do) ==
    /\ Step = "choose" /\ ~screen.reading
    /\ task[t] = None /\ chosen < MaxChoices
    /\ chosen' = chosen + 1
    /\ Shows([screen EXCEPT !.reading = TRUE])
    /\ Goes(t, Start(do, IF do = "stage" THEN "stage" ELSE "preview", chosen + 1, 0))
    /\ UNCHANGED <<archive, unheard>>

ChooseTrip(t) == Choose(t, "stage")
ChooseCollection(t) == Choose(t, "preview")

ShowParked(t) ==
    /\ At(t, "stage", "stage") /\ task[t].answer # None
    /\ Shows(IF Answered(t, "ok")
             THEN [screen EXCEPT !.staged = task[t].answer.id, !.gpx = task[t].of,
                                 !.reading = FALSE]
             ELSE [screen EXCEPT !.gpx = None, !.reading = FALSE])
    /\ Goes(t, None)
    /\ UNCHANGED <<archive, chosen, unheard>>

ShowPreview(t) ==
    /\ At(t, "preview", "preview") /\ task[t].answer # None
    /\ Shows([screen EXCEPT !.reading = FALSE,
                            !.collection = IF Answered(t, "ok") THEN task[t].of ELSE @])
    /\ Goes(t, None)
    /\ UNCHANGED <<archive, chosen, unheard>>

----------------------------------------------------------------------------
\* ConfirmImportStep: the photos of the trip to be, read where they were
\* picked.  The input stays enabled while an earlier pick is read.

PickPhotos(t) ==
    /\ Step = "confirm" /\ task[t] = None /\ form.picked < MaxPicks
    /\ form' = [picked |-> form.picked + 1, read |-> None, reading |-> TRUE]
    /\ task' = [task EXCEPT ![t] = Start("pick", "pick", form.picked + 1, 0)]
    /\ UNCHANGED <<screen, archive, chosen, unheard>>

PhotosRead(t) ==
    /\ At(t, "pick", "pick")
    /\ \E read \in {task[t].of, form.read} :
         form' = [form EXCEPT !.read = read, !.reading = FALSE]
    /\ task' = [task EXCEPT ![t] = None]
    /\ UNCHANGED <<screen, archive, chosen, unheard>>

----------------------------------------------------------------------------
\* confirm, with confirm_or_restage and restage_and_confirm.

\* Mutant: a second confirmation starts beside the first.
Eager == TRUE
Free == ~screen.submitting

Confirm(t) ==
    /\ Step = "confirm" /\ Free /\ ~form.reading
    /\ task[t] = None
    /\ Shows([screen EXCEPT !.submitting = TRUE])
    /\ Goes(t, [Start("confirm", "confirm", screen.gpx, screen.staged)
                EXCEPT !.photos = form.read])
    /\ UNCHANGED <<archive, chosen, unheard>>

ConfirmCollection(t) ==
    /\ Step = "collection" /\ Free
    /\ task[t] = None
    /\ Shows([screen EXCEPT !.submitting = TRUE])
    /\ Goes(t, Start("create", "create", screen.collection, 0))
    /\ UNCHANGED <<archive, chosen, unheard>>

\* 404, and the bytes are still here: they are parked again.
Restage(t) ==
    /\ At(t, "confirm", "confirm") /\ Answered(t, "not_found")
    /\ task[t].of # None
    /\ UNCHANGED <<screen, form, archive, chosen, unheard>>
    /\ Goes(t, Asks(t, "restage", 0))

Reconfirm(t) ==
    /\ At(t, "confirm", "restage") /\ Answered(t, "ok")
    /\ UNCHANGED <<screen, form, archive, chosen, unheard>>
    /\ Goes(t, Asks(t, "reconfirm", task[t].answer.id))

\* Mutant: a refused retry leaves the handle the screen came in with.
StaleHandle(t) == screen.staged
\* The parse to hold when no trip was made.
ParkedAfter(t) ==
    IF task[t].at = "restage" \/ (task[t].at = "confirm" /\ Answered(t, "not_found"))
    THEN None ELSE task[t].id

NotImported(t) ==
    /\ \E at \in {"confirm", "restage", "reconfirm"} : At(t, "confirm", at)
    /\ Failed(t)
    /\ task[t].at = "confirm" => ~(Answered(t, "not_found") /\ task[t].of # None)
    /\ Shows([screen EXCEPT !.staged = ParkedAfter(t), !.submitting = FALSE])
    /\ Goes(t, None)
    /\ UNCHANGED <<archive, chosen, unheard>>

\* Imported: the photos follow, a batch at a time.
UploadPhotos(t) ==
    /\ At(t, "confirm", "confirm") \/ At(t, "confirm", "reconfirm")
    /\ Answered(t, "ok")
    /\ task[t].photos # None
    /\ Shows([screen EXCEPT !.staged = None, !.uploading = TRUE])
    /\ Goes(t, Asks(t, "photos", task[t].answer.id))
    /\ UNCHANGED <<archive, chosen, unheard>>

NextBatch(t) ==
    /\ At(t, "confirm", "photos") /\ Answered(t, "ok")
    /\ task[t].sent + 1 < Batches
    /\ UNCHANGED <<screen, form, archive, chosen, unheard>>
    /\ Goes(t, [Asks(t, "photos", task[t].id) EXCEPT !.sent = @ + 1])

ShowPartial(t) ==
    /\ At(t, "confirm", "photos") /\ Failed(t)
    /\ Shows([screen EXCEPT !.uploading = FALSE, !.submitting = FALSE,
                            !.partial = [trip |-> task[t].id, uploaded |-> task[t].sent]])
    /\ Goes(t, None)
    /\ UNCHANGED <<archive, chosen, unheard>>

CollectionRefused(t) ==
    /\ At(t, "create", "create") /\ Failed(t)
    /\ Shows([screen EXCEPT !.submitting = FALSE])
    /\ Goes(t, None)
    /\ UNCHANGED <<archive, chosen, unheard>>

\* The screen is left: its handlers are dropped, the archive may still be
\* at work for them, and what was parked waits for the sweeper.
Left ==
    /\ screen' = Blank /\ form' = NoPhotos
    /\ task' = [t \in Tasks |->
          IF task[t] = None \/ task[t].do = "pick" \/ task[t].answer # None THEN None
          ELSE [task[t] EXCEPT !.gone = TRUE]]
    /\ UNCHANGED <<archive, chosen>>

\* What is given up with it, but for the handler that opens the next page.
Pending(t) ==
    (UNION {About(k) : k \in Tasks \ {t}})
    \cup (IF screen.staged = None THEN {} ELSE {rows[screen.staged], screen.gpx} \ {None})

\* navigator().push, once everything asked for was done.
Opens(t) ==
    /\ \/ /\ At(t, "confirm", "confirm") \/ At(t, "confirm", "reconfirm")
          /\ task[t].photos = None
       \/ At(t, "confirm", "photos") /\ task[t].sent + 1 = Batches
       \/ At(t, "create", "create")
    /\ Answered(t, "ok")
    /\ Left
    /\ unheard' = unheard \cup Pending(t)

Leave ==
    /\ screen # Blank \/ \E t \in Tasks : task[t] # None
    /\ Left
    /\ unheard' = unheard \cup Pending(None)

----------------------------------------------------------------------------
\* start_over: enabled while nothing is submitted.

\* The parse is taken from the screen before it is cancelled.
StartOver(t) ==
    /\ Step \in {"confirm", "collection"} /\ ~screen.submitting
    /\ screen.staged # None /\ task[t] = None
    /\ Shows([screen EXCEPT !.staged = None])
    /\ Goes(t, Start("cancel", "cancel", screen.gpx, screen.staged))
    /\ UNCHANGED <<archive, chosen, unheard>>

DropCollection ==
    /\ Step = "collection" /\ ~screen.submitting /\ screen.staged = None
    /\ Shows([screen EXCEPT !.gpx = None, !.collection = None])
    /\ UNCHANGED <<task, archive, chosen, unheard>>

\* Whatever the archive answered, and whatever was chosen meanwhile.
StartedOver(t) ==
    /\ At(t, "cancel", "cancel") /\ task[t].answer # None
    /\ Shows([screen EXCEPT !.gpx = None, !.collection = None])
    /\ Goes(t, None)
    /\ UNCHANGED <<archive, chosen, unheard>>

----------------------------------------------------------------------------
\* The archive's side, one step per request.

Asked(t, ats) == task[t] # None /\ task[t].at \in ats /\ task[t].answer = None

Replies(t, how, id) ==
    task' = [task EXCEPT ![t] =
        IF task[t].gone THEN None ELSE [task[t] EXCEPT !.answer = [how |-> how, id |-> id]]]

Park(t) ==
    /\ Asked(t, {"stage", "restage"}) /\ lastId < MaxParked
    /\ lastId' = lastId + 1
    /\ rows' = [rows EXCEPT ![lastId'] = task[t].of]
    /\ Replies(t, "ok", lastId')
    /\ UNCHANGED <<screen, form, made, chosen, unheard>>

MakeTrip(t) ==
    /\ Asked(t, {"confirm", "reconfirm"}) /\ Len(made) < MaxMade
    /\ LET id == task[t].id
       IN IF rows[id] = None
          THEN Replies(t, "not_found", 0) /\ UNCHANGED <<rows, made>>
          ELSE /\ made' = Append(made, [of |-> rows[id], photos |-> 0])
               /\ rows' = [rows EXCEPT ![id] = None]
               /\ Replies(t, "ok", Len(made'))
    /\ UNCHANGED <<screen, form, lastId, chosen, unheard>>

MakeCollection(t) ==
    /\ Asked(t, {"create"}) /\ Len(made) < MaxMade
    /\ made' = Append(made, [of |-> task[t].of, photos |-> 0])
    /\ Replies(t, "ok", Len(made'))
    /\ UNCHANGED <<screen, form, rows, lastId, chosen, unheard>>

Preview(t) ==
    /\ Asked(t, {"preview"})
    /\ Replies(t, "ok", 0)
    /\ UNCHANGED <<screen, form, archive, chosen, unheard>>

AddPhotos(t) ==
    /\ Asked(t, {"photos"})
    /\ made' = [made EXCEPT ![task[t].id].photos = @ + 1]
    /\ Replies(t, "ok", task[t].id)
    /\ UNCHANGED <<screen, form, rows, lastId, chosen, unheard>>

CancelRow(t) ==
    /\ Asked(t, {"cancel"})
    /\ rows' = [rows EXCEPT ![task[t].id] = None]
    /\ Replies(t, "ok", 0)
    /\ UNCHANGED <<screen, form, lastId, made, chosen, unheard>>

\* A file or field the archive will not take, or a failure: nothing is
\* changed, and only a cancelled row is told to nobody.
Refuse(t) ==
    /\ task[t] # None /\ task[t].do # "pick" /\ task[t].answer = None
    /\ Replies(t, "refused", 0)
    /\ unheard' = IF task[t].do = "cancel" THEN unheard \cup About(t) ELSE unheard
    /\ UNCHANGED <<screen, form, archive, chosen>>

\* The connection breaks, before the archive acted or after.
Lose(t) ==
    /\ task[t] # None /\ task[t].do # "pick" /\ ~task[t].gone
    /\ ~Answered(t, "lost")
    /\ unheard' = unheard \cup About(t)
    /\ Replies(t, "lost", 0)
    /\ UNCHANGED <<screen, form, archive, chosen>>

\* A request whose sender is gone may never be acted on.
Vanish(t) ==
    /\ task[t] # None /\ task[t].gone
    /\ task' = [task EXCEPT ![t] = None]
    /\ UNCHANGED <<screen, form, archive, chosen, unheard>>

\* sweep_staged, with anyone's next upload.
Sweep ==
    /\ \E i \in Parked : rows[i] # None /\ rows' = [rows EXCEPT ![i] = None]
    /\ UNCHANGED <<screen, form, task, lastId, made, chosen, unheard>>

ImportClick == Event /\
    \/ \E t \in Tasks :
         \/ ChooseTrip(t) \/ ChooseCollection(t) \/ PickPhotos(t)
         \/ Confirm(t) \/ ConfirmCollection(t) \/ StartOver(t)
    \/ DropCollection

ImportHandler == UNCHANGED events /\
    \E t \in Tasks :
         \/ ShowParked(t) \/ ShowPreview(t) \/ PhotosRead(t)
         \/ Restage(t) \/ Reconfirm(t) \/ NotImported(t)
         \/ UploadPhotos(t) \/ NextBatch(t) \/ ShowPartial(t)
         \/ CollectionRefused(t) \/ StartedOver(t)

ImportArchive == UNCHANGED events /\
    \/ \E t \in Tasks :
         \/ Park(t) \/ MakeTrip(t) \/ MakeCollection(t) \/ Preview(t)
         \/ AddPhotos(t) \/ CancelRow(t) \/ Refuse(t) \/ Lose(t) \/ Vanish(t)
    \/ Sweep

ImportNext ==
    \/ ImportClick \/ ImportHandler \/ ImportArchive
    \/ UNCHANGED events /\ (Leave \/ \E t \in Tasks : Opens(t))

ImportSpec == ImportInit /\ [][ImportNext]_<<importing, events>>

----------------------------------------------------------------------------
\* Properties.

\* A chosen file becomes one trip or collection at most, however often it is
\* confirmed, parked again and refused, unless an answer about it was lost
\* ("re-imported as a second trip", import.rs).
ImportedOnce ==
    \A c \in ChosenFiles \ unheard :
        Cardinality({k \in DOMAIN made : made[k].of = c}) <= 1

\* Once nothing is under way, the archive holds no parse but the one on the
\* screen: none is left behind by a file refused, retried or chosen anew.
NothingLeftParked ==
    (\A t \in Tasks : task[t] = None \/ task[t].do = "pick") =>
        \A i \in Parked : rows[i] # None => i = screen.staged \/ rows[i] \in unheard

\* The file waiting on the confirm step can be parked again: its bytes are
\* still in hand (import.rs: "kept after staging").
KeepsBytes == screen.staged # None => screen.gpx # None

----------------------------------------------------------------------------
(* Strengthening for the proofs.                                           *)

Errand == [
    do     : {"stage", "preview", "pick", "confirm", "create", "cancel"},
    at     : {"stage", "preview", "pick", "confirm", "restage", "reconfirm", "photos",
              "create", "cancel"},
    of     : Nat \cup {None},
    id     : Nat,
    photos : Nat \cup {None},
    sent   : Nat,
    answer : [how : {"ok", "refused", "not_found", "lost"}, id : Nat] \cup {None},
    gone   : BOOLEAN]

ASSUME ImportApart ==
    None \notin Errand \cup [how : {"ok", "refused", "not_found", "lost"}, id : Nat]

Known == 1 .. chosen
Ids == 1 .. lastId

ImportTypes ==
    /\ screen \in [staged : Nat \cup {None}, gpx : Nat \cup {None}, collection : Nat \cup {None},
                   reading : BOOLEAN, submitting : BOOLEAN, uploading : BOOLEAN,
                   partial : [trip : Nat, uploaded : Nat] \cup {None}]
    /\ form \in [picked : Nat, read : Nat \cup {None}, reading : BOOLEAN]
    /\ task \in [Tasks -> Errand \cup {None}]
    /\ chosen \in 0 .. MaxChoices /\ lastId \in 0 .. MaxParked
    /\ rows \in [Parked -> Known \cup {None}] /\ \A i \in Parked \ Ids : rows[i] = None
    /\ made \in Seq([of : Nat, photos : Nat]) /\ \A k \in DOMAIN made : made[k].of \in Known
    /\ screen.staged \in Ids \cup {None}
    /\ {screen.gpx, screen.collection} \subseteq Known \cup {None}
    /\ unheard \subseteq Known

Asking(t) == task[t] # None /\ ~task[t].gone
ReadsFile(t) == Asking(t) /\ task[t].do \in {"stage", "preview"}
Submits(t) == Asking(t) /\ task[t].do \in {"confirm", "create"}
Confirming(t) == Asking(t) /\ task[t].do = "confirm" /\ task[t].at # "photos"

\* The row a handler parked, or asks about.
Holds(t, i) == Asking(t) /\
    \/ task[t].at \in {"stage", "restage"} /\ Answered(t, "ok") /\ task[t].answer.id = i
    \/ task[t].at \in {"confirm", "reconfirm", "cancel"} /\ task[t].id = i

\* What a handler is about, by where it is.
HandlerFits(t) == task[t] # None =>
    /\ \/ task[t].at = task[t].do
       \/ task[t].do = "confirm" /\ task[t].at \in {"restage", "reconfirm", "photos"}
    /\ task[t].do \in {"stage", "preview", "create"} => task[t].of \in Known
    /\ task[t].do \in {"confirm", "cancel"} => task[t].of \in Known \cup {None}
    /\ task[t].at \in {"confirm", "reconfirm", "cancel"} => task[t].id \in Ids
    /\ task[t].at \in {"restage", "reconfirm"} => task[t].of # None
    /\ task[t].at \in {"stage", "restage"} /\ Answered(t, "ok") => task[t].answer.id \in Ids
    /\ task[t].gone => task[t].answer = None /\ About(t) \subseteq unheard

\* One file is read at a time, and one submitted, for which the screen waits.
OneAtATime ==
    /\ \A t \in Tasks : ReadsFile(t) => screen.reading
    /\ \A t \in Tasks : Submits(t) => screen.submitting
    /\ \A t, k \in Tasks : ReadsFile(t) /\ ReadsFile(k) => t = k
    /\ \A t, k \in Tasks : Submits(t) /\ Submits(k) => t = k
    /\ \A t, k \in Tasks : ReadsFile(t) /\ Submits(k) => task[t].of # task[k].of
    /\ screen.reading => screen.staged = None /\ screen.collection = None

\* The rows in hand are those of the file at hand, if they are still there.
RowsFit ==
    /\ screen.staged # None /\ screen.gpx # None => rows[screen.staged] \in {None, screen.gpx}
    /\ \A t \in Tasks, i \in Parked :
           Holds(t, i) /\ task[t].of # None => rows[i] \in {None, task[t].of}
    /\ \A t \in Tasks : Asking(t) /\ task[t].at \in {"confirm", "reconfirm"} =>
           (Answered(t, "ok") \/ Answered(t, "not_found") => rows[task[t].id] = None)
    /\ \A t \in Tasks : Asking(t) /\ task[t].at = "cancel" /\ task[t].answer # None =>
           rows[task[t].id] \in unheard \cup {None}
    /\ \A t \in Tasks : Confirming(t) =>
           /\ screen.staged # None /\ screen.gpx \in {None, task[t].of}
           /\ IF task[t].at = "confirm" THEN task[t].id = screen.staged
              ELSE rows[screen.staged] = None

\* A parsed file is on the screen, or in the hands of a handler.
RowsWatched ==
    \A i \in Parked : rows[i] # None =>
        rows[i] \in unheard \/ i = screen.staged \/ \E t \in Tasks : Holds(t, i)

Becomes(c) == \E k \in DOMAIN made : made[k].of = c
\* A handler may yet make a trip or a collection of its file.
Bears(t) == Asking(t) /\ task[t].do \notin {"pick", "cancel"} /\ task[t].at # "photos"
Done(t) == Answered(t, "ok") /\ task[t].at \in {"confirm", "reconfirm", "create"}

\* A file whose answers were all heard is in one place: with a handler, in a
\* row, on the screen, or a trip or a collection.
InOnePlace(c) ==
    /\ \A j, k \in DOMAIN made : made[j].of = c /\ made[k].of = c => j = k
    /\ \A i, j \in Parked : rows[i] = c /\ rows[j] = c => i = j
    /\ Becomes(c) => \A i \in Parked : rows[i] # c
    /\ \A t \in Tasks : Bears(t) /\ task[t].of = c /\ ~Done(t) =>
           ~Becomes(c) /\ \A i \in Parked : rows[i] = c => Holds(t, i)
    /\ screen.staged # None /\ screen.gpx = c =>
           /\ \/ \E t \in Tasks : Confirming(t)
              \/ ~Becomes(c) /\ \A i \in Parked : rows[i] = c => i = screen.staged
           /\ screen.collection # c
           /\ \A t \in Tasks : Asking(t) /\ task[t].do = "create" => task[t].of # c
    /\ screen.collection = c =>
           /\ \/ \E t \in Tasks : Asking(t) /\ task[t].do = "create" /\ Done(t) /\ task[t].of = c
              \/ ~Becomes(c)
           /\ \A i \in Parked : rows[i] # c
           /\ \A t \in Tasks : Asking(t) /\ task[t].do = "confirm" => task[t].of # c

ImportInductive ==
    /\ ImportTypes /\ \A t \in Tasks : HandlerFits(t)
    /\ OneAtATime /\ RowsFit /\ RowsWatched
    /\ \A c \in Known \ unheard : InOnePlace(c)
=============================================================================
