---------------------------- MODULE StagedImport ----------------------------
(***************************************************************************)
(* The two-phase GPX import (US-12): a file is parsed and parked in        *)
(* import_staging, and its id handed to the screen; confirming it takes    *)
(* the row and inserts the trip in one write transaction.  Two tabs may    *)
(* confirm one id, a stale tab may confirm an id long swept, and a request *)
(* may fail or be dropped at any await.                                    *)
(***************************************************************************)
EXTENDS Naturals, Sequences, FiniteSets

CONSTANTS
    Requests,   \* requests in flight at a time
    Files,      \* uploads, each parked once at most
    MaxTime,    \* bound on the clock
    TTL,        \* STAGED_IMPORT_TTL, in ticks
    None

Ids == 1 .. Cardinality(Files)

Row == [file : Files, at : Nat]

\* A request under way: the step it has reached, the file its screen shows.
InFlight ==
    [at : {"sweep", "park", "parked", "begin", "taken", "check", "done"},
     file : Files, time : Nat, id : Nat]

ASSUME StagedAssumption ==
    /\ IsFiniteSet(Files) /\ None \notin Files \cup Requests \cup Row \cup InFlight
    /\ MaxTime \in Nat /\ TTL \in Nat

VARIABLES
    staging,  \* import_staging: the rows, as [file, at], else None
    lastId,   \* its sqlite_sequence
    trips,    \* the trips made: <<file the screen showed, file imported>>
    fresh,    \* the files not uploaded yet
    now,      \* the clock
    req,      \* the request in each slot, else None
    writer,   \* the transaction holding the write lock
    handles   \* what the screens hold: <<id, file>> of every answered upload

tables == <<staging, lastId, trips>>
staged == <<staging, lastId, trips, fresh, now, req, writer, handles>>

StagedInit ==
    /\ staging = [i \in Ids |-> None] /\ lastId = 0
    /\ trips = <<>> /\ fresh = Files
    /\ now = 0
    /\ req = [r \in Requests |-> None]
    /\ writer = None
    /\ handles = {}

At(r, step) == req[r] # None /\ req[r].at = step

Becomes(r, next) == req' = [req EXCEPT ![r] = next]

LockFree == writer = None

Rows == {i \in Ids : staging[i] # None}

Tick ==
    /\ now < MaxTime
    /\ now' = now + 1
    /\ UNCHANGED <<tables, fresh, req, writer, handles>>

----------------------------------------------------------------------------
\* handle_stage_import

\* The file is parsed, and the clock read.
Upload(r, f) ==
    /\ req[r] = None
    /\ f \in fresh /\ fresh' = fresh \ {f}
    /\ Becomes(r, [at |-> "sweep", file |-> f, time |-> now, id |-> 0])
    /\ UNCHANGED <<tables, now, writer, handles>>

SweepStaged(r) ==
    /\ At(r, "sweep") /\ LockFree
    /\ staging' = [i \in Ids |-> IF i \in Rows /\ staging[i].at + TTL < req[r].time
                                 THEN None ELSE staging[i]]
    /\ Becomes(r, [req[r] EXCEPT !.at = "park"])
    /\ UNCHANGED <<lastId, trips, fresh, now, writer, handles>>

\* Mutant: without AUTOINCREMENT the highest id there is, plus one (0014).
HighestPlusOne == 1 + Cardinality({i \in Ids : \E j \in Rows : i <= j})
NextId == lastId + 1

\* Insert, after the suggestions were looked up.
Park(r) ==
    /\ At(r, "park") /\ LockFree
    /\ staging' = [staging EXCEPT ![NextId] = [file |-> req[r].file, at |-> req[r].time]]
    /\ lastId' = lastId + 1
    /\ Becomes(r, [req[r] EXCEPT !.at = "parked", !.id = NextId])
    /\ UNCHANGED <<trips, fresh, now, writer, handles>>

AnswerParked(r) ==
    /\ At(r, "parked")
    /\ handles' = handles \cup {<<req[r].id, req[r].file>>}
    /\ Becomes(r, [req[r] EXCEPT !.at = "done"])
    /\ UNCHANGED <<tables, fresh, now, writer>>

----------------------------------------------------------------------------
\* handle_confirm_import and handle_cancel_staged_import, with a handle.

AskConfirm(r, h) ==
    /\ req[r] = None /\ h \in handles
    /\ Becomes(r, [at |-> "begin", file |-> h[2], time |-> now, id |-> h[1]])
    /\ UNCHANGED <<tables, fresh, now, writer, handles>>

\* BEGIN IMMEDIATE, and the row read: 404 for none.
BeginConfirm(r) ==
    /\ At(r, "begin") /\ LockFree
    /\ IF req[r].id \in Rows
       THEN writer' = r /\ Becomes(r, [req[r] EXCEPT !.at = "taken"])
       ELSE Becomes(r, [req[r] EXCEPT !.at = "done"]) /\ UNCHANGED writer
    /\ UNCHANGED <<tables, fresh, now, handles>>

\* The row's deletion and the trip's insertion become visible together.
CommitConfirm(r) ==
    /\ At(r, "taken")
    /\ LET row == staging[req[r].id]
           got == IF row = None THEN req[r].file ELSE row.file
       IN trips' = Append(trips, <<req[r].file, got>>)
    /\ staging' = [staging EXCEPT ![req[r].id] = None]
    /\ writer' = None
    /\ Becomes(r, [req[r] EXCEPT !.at = "check"])
    /\ UNCHANGED <<lastId, fresh, now, handles>>

\* after_trip_entered (of Links): its failure fails nothing.
CheckLinks(r) ==
    /\ At(r, "check") /\ LockFree
    /\ Becomes(r, [req[r] EXCEPT !.at = "done"])
    /\ UNCHANGED <<tables, fresh, now, writer, handles>>

CancelParked(r, h) ==
    /\ req[r] = None /\ h \in handles /\ LockFree
    /\ staging' = [staging EXCEPT ![h[1]] = None]
    /\ Becomes(r, [at |-> "done", file |-> h[2], time |-> now, id |-> h[1]])
    /\ UNCHANGED <<lastId, trips, fresh, now, writer, handles>>

\* An unknown activity or kind, a failed statement, a busy timeout: the
\* transaction is rolled back, and the request answered.
Refuse(r) ==
    /\ req[r] # None /\ req[r].at \notin {"parked", "done"}
    /\ writer' = IF writer = r THEN None ELSE writer
    /\ Becomes(r, [req[r] EXCEPT !.at = "done"])
    /\ UNCHANGED <<tables, fresh, now, handles>>

\* The client is gone: the request is dropped where it stands.
Drop(r) ==
    /\ req[r] # None /\ ~At(r, "done")
    /\ writer' = IF writer = r THEN None ELSE writer
    /\ Becomes(r, None)
    /\ UNCHANGED <<tables, fresh, now, handles>>

\* The steps of a request under way, to its answer.
RequestStep(r) ==
    \/ SweepStaged(r) \/ Park(r) \/ AnswerParked(r)
    \/ BeginConfirm(r) \/ CommitConfirm(r) \/ CheckLinks(r) \/ Refuse(r)

Arrive(r) ==
    \/ \E f \in Files : Upload(r, f)
    \/ \E h \in handles : AskConfirm(r, h) \/ CancelParked(r, h)

----------------------------------------------------------------------------
\* Properties.

\* A file becomes one trip at most, however often and from wherever it is
\* confirmed, and a confirmation imports the file its screen showed, even
\* when its id was swept and others were parked since (migration 0017: "a
\* staging id, once spent, never names another parse").
ImportsWhatWasShown ==
    /\ \A i \in 1 .. Len(trips) : trips[i][1] = trips[i][2]
    /\ \A i, j \in 1 .. Len(trips) : trips[i][2] = trips[j][2] => i = j

----------------------------------------------------------------------------
\* Strengthenings that make it inductive (ServingProofs).

StagedTypes ==
    /\ staging \in [Ids -> Row \cup {None}] /\ lastId \in Nat
    /\ trips \in Seq(Files \X Files)
    /\ fresh \subseteq Files
    /\ now \in Nat
    /\ req \in [Requests -> InFlight \cup {None}]
    /\ writer \in Requests \cup {None}
    /\ handles \subseteq Nat \X Files

\* The confirmation that has taken a row holds the write lock, so the row stays.
TakenStays ==
    /\ \A r \in Requests : At(r, "taken") <=> writer = r
    /\ \A r \in Requests : At(r, "taken") => req[r].id \in Rows

\* An id handed out names the file it was handed out for, or nothing.
Names(id, file) == id <= lastId /\ (id \in Rows => staging[id].file = file)

IdsNameOneFile ==
    /\ \A i \in Rows : i <= lastId
    /\ \A h \in handles : Names(h[1], h[2])
    /\ \A r \in Requests :
          /\ At(r, "parked") => Names(req[r].id, req[r].file)
          /\ At(r, "begin") \/ At(r, "taken") => <<req[r].id, req[r].file>> \in handles

\* The files that are being uploaded, parked, or trips.
Uploading(r) == At(r, "sweep") \/ At(r, "park")
Parked(f) == \E i \in Rows : staging[i].file = f
Imported(f) == \E k \in 1 .. Len(trips) : trips[k][2] = f

\* A file is in one place: not uploaded yet, or in one request that uploads it,
\* or in one row, or one trip, or gone.
OnePlace ==
    /\ \A f \in fresh : ~Parked(f) /\ ~Imported(f)
    /\ \A r \in Requests : Uploading(r) =>
          LET f == req[r].file IN
          /\ f \notin fresh /\ ~Parked(f) /\ ~Imported(f)
          /\ \A q \in Requests : Uploading(q) /\ req[q].file = f => q = r
    /\ \A i, j \in Rows : staging[i].file = staging[j].file => i = j
    /\ \A i \in Rows : ~Imported(staging[i].file)

StagedInductive ==
    StagedTypes /\ TakenStays /\ IdsNameOneFile /\ OnePlace /\ ImportsWhatWasShown
=============================================================================
