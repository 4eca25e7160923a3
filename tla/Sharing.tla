------------------------------ MODULE Sharing ------------------------------
(***************************************************************************)
(* Trips, collections and their tags, and the shares that name them.  A    *)
(* share is checked, then stored; stopped by a check and a delete; and     *)
(* read by its recipient in steps, while the owner goes on.                *)
(***************************************************************************)
EXTENDS Clock, FiniteSets

CONSTANTS
    Trips, Tags, Colls, Tracks,  \* row ids, each handed out once
    Recorded,   \* the trips of that kind
    Present,    \* the trips, collections and tags there at the start
    Names,      \* tag names
    Shares,     \* share ids
    Owners,     \* the owner's requests that stop a share
    Creators,   \* those that create one
    Clients,    \* requests under a share's link
    Horizon,    \* bound on the expiries
    MaxWork,    \* bound on the owner's single-statement requests
    Never       \* the expiry of a share without one

Things == Trips \cup Tags \cup Colls \cup Tracks

ASSUME SharingAssumption ==
    /\ \A K, L \in {Trips, Tags, Colls, Tracks} : K # L => K \cap L = {}
    /\ Recorded \subseteq Trips
    /\ Present \subseteq Trips \cup Colls \cup Tags
    /\ Never \notin 0 .. Horizon
    /\ Horizon \in Nat /\ MaxWork \in Nat

VARIABLES
    alive,   \* the rows
    used,    \* ids handed out
    name,    \* tag.name
    holds,   \* trip_tag, collection_tag, collection_track_tag, and a track's collection
    share,   \* share and the four tables of what it names, else None
    shared,  \* share ids handed out
    req,     \* the owner's creation or stop under way, else None
    visit,   \* a recipient's request under way, else None
    work,    \* counter of MaxWork
    \* history
    lost     \* what a request covered that was deleted before it was read

tables == <<alive, used, name, holds>>
sharing == <<tables, share, shared, req, visit, work, lost>>

SharingInit ==
    /\ alive = Present /\ used = Present
    /\ holds \in SUBSET ((Present \cap Tags) \X (Present \ Tags))
    /\ name \in [Tags -> Names \cup {None}]
    /\ \A g \in Tags : name[g] = None <=> g \notin Present
    /\ \A g, h \in Present \cap Tags : name[g] = name[h] => g = h
    /\ share = [s \in Shares |-> None] /\ shared = {}
    /\ req = [r \in Owners \cup Creators |-> None]
    /\ visit = [c \in Clients |-> None]
    /\ work = 0
    /\ lost = [c \in Clients |-> {}]

----------------------------------------------------------------------------
\* What a share is and reaches.

\* expiry_at and still_open: never, or a moment to come.
Expiries == {Never} \cup (now + 1) .. Horizon

\* share_reach: the trips it names, and the recorded ones under its tags.
\* share_track_reach: the tracks it names, and those of its collections.
Reach(s) ==
    LET names == share[s].names
    IN (names \cap (Trips \cup Tracks \cup Colls))
       \cup {t \in Recorded : \E g \in names \cap Tags : <<g, t>> \in holds}
       \cup {k \in Tracks : \E c \in names \cap Colls : <<c, k>> \in holds}

\* Mutant: a share names something while it reaches something.
ReachesSomething(s) == Reach(s) # {}
NamesSomething(s) == share[s].names # {}

Opens(s) ==
    /\ share[s] # None
    /\ NamesSomething(s)
    /\ share[s].until \in Expiries

----------------------------------------------------------------------------
\* The owner's requests of one transaction.

Work ==
    /\ work < MaxWork
    /\ work' = work + 1
    /\ UNCHANGED <<now, req, visit>>

Adds == Work /\ UNCHANGED lost

\* Mutant: an id may return (no AUTOINCREMENT).
Dead(x) == x \notin alive
Unused(x) == x \notin used

New(x) ==
    /\ Unused(x)
    /\ alive' = alive \cup {x}
    /\ used' = used \cup {x}

Enter(x) ==
    /\ Adds
    /\ x \in Trips \cup Colls
    /\ New(x)
    /\ UNCHANGED <<name, holds, share, shared>>

EnterTrack(k, c) ==
    /\ Adds
    /\ c \in alive \cap Colls
    /\ New(k)
    /\ holds' = holds \cup {<<c, k>>}
    /\ UNCHANGED <<name, share, shared>>

Named(n) == {g \in alive \cap Tags : name[g] = n}

CreateTag(g, n) ==
    /\ Adds
    /\ Named(n) = {}
    /\ New(g)
    /\ name' = [name EXCEPT ![g] = n]
    /\ UNCHANGED <<holds, share, shared>>

\* Everything must be there; the tag is made on demand.
Put(X, n, g) ==
    /\ Adds
    /\ X # {} /\ X \subseteq alive
    /\ IF Named(n) = {}
       THEN New(g) /\ name' = [name EXCEPT ![g] = n]
       ELSE g \in Named(n) /\ UNCHANGED <<alive, used, name>>
    /\ holds' = holds \cup ({g} \X X)
    /\ UNCHANGED <<share, shared>>

AddTag(x, n, g) == Put({x}, n, g)

\* Of one kind, all or nothing (for one of the names it is given).
BulkAddTags(X, n, g) == Put(X, n, g)

RemoveTag(g, x) ==
    /\ Adds
    /\ g \in Tags /\ <<g, x>> \in holds
    /\ holds' = holds \ {<<g, x>>}
    /\ UNCHANGED <<alive, used, name, share, shared>>

Available(g, n) == Named(n) \subseteq {g}

RenameTag(g, n) ==
    /\ Adds
    /\ g \in alive /\ name[g] # n /\ Available(g, n)
    /\ name' = [name EXCEPT ![g] = n]
    /\ UNCHANGED <<alive, used, holds, share, shared>>

\* The step a recipient's request has taken.
Step(c, at) == visit[c] # None /\ visit[c].at = at

\* The rows in gone go, and the foreign keys' cascades take every row that
\* names one.
Cascade(gone) ==
    /\ alive' = alive \ gone
    /\ holds' = {h \in holds : h[1] \notin gone /\ h[2] \notin gone}
    /\ name' = [g \in Tags |-> IF g \in gone THEN None ELSE name[g]]
    /\ lost' = [c \in Clients |-> IF Step(c, "covered") THEN lost[c] \cup (visit[c].shown \cap gone)
                                  ELSE lost[c]]
    /\ UNCHANGED used

Narrowed(gone) ==
    [s \in Shares |-> IF share[s] = None THEN None
                      ELSE [share[s] EXCEPT !.names = @ \ gone]]

Delete(x) ==
    /\ Work
    /\ x \in alive \ Tags
    /\ LET gone == {x} \cup {k \in Tracks : x \in Colls /\ <<x, k>> \in holds}
       IN Cascade(gone) /\ share' = Narrowed(gone)
    /\ UNCHANGED shared

\* A share that names no other tag goes with it.
DeleteTag(g) ==
    /\ Work
    /\ g \in alive
    /\ Cascade({g})
    /\ share' = [s \in Shares |->
                   IF share[s] # None /\ share[s].names = {g} THEN None
                   ELSE Narrowed({g})[s]]
    /\ UNCHANGED shared

----------------------------------------------------------------------------
\* Creating and stopping a share.

OwnerStep(r, next) ==
    /\ req' = [req EXCEPT ![r] = next]
    /\ UNCHANGED <<tables, now, visit, work, lost>>

\* handle_create_share: one kind of thing, tags by name.  (Shares bounds
\* the shares: nothing is asked that could not be stored.)
AskShare(r, want) ==
    /\ req[r] = None /\ shared # Shares
    /\ want # {}
    /\ OwnerStep(r, [do |-> "find", want |-> want, ids |-> {}])
    /\ UNCHANGED <<share, shared>>

\* trips_exist, find_tag_ids, ...: one statement for each, 404 for any that
\* is missing.
Find(r, w) ==
    /\ req[r] # None /\ req[r].do = "find" /\ w \in req[r].want
    /\ LET found == IF w \in Names THEN Named(w) ELSE {w} \cap alive
       IN OwnerStep(r, IF found = {} THEN None
                       ELSE [req[r] EXCEPT !.want = @ \ {w}, !.ids = @ \cup found])
    /\ UNCHANGED <<share, shared>>

\* insert_share: a row that is gone meanwhile fails a foreign key.  (The
\* expiry is a month away at least: no time passes from its choice.)
Store(r, s, until) ==
    /\ req[r] # None /\ req[r].do = "find" /\ req[r].want = {}
    /\ s \notin shared
    /\ OwnerStep(r, None)
    /\ IF req[r].ids \subseteq alive
       THEN /\ share' = [share EXCEPT ![s] = [names |-> req[r].ids, until |-> until]]
            /\ shared' = shared \cup {s}
       ELSE UNCHANGED <<share, shared>>

AskStop(r, s) ==
    /\ req[r] = None
    /\ Opens(s)
    /\ OwnerStep(r, [do |-> "delete", share |-> s])
    /\ UNCHANGED <<share, shared>>

\* Nothing to delete is answered 404; either way it is gone.
Stop(r) ==
    /\ req[r] # None /\ req[r].do = "delete"
    /\ OwnerStep(r, None)
    /\ share' = [share EXCEPT ![req[r].share] = None]
    /\ UNCHANGED shared

----------------------------------------------------------------------------
\* The recipient.

VisitStep(c, next) ==
    /\ visit' = [visit EXCEPT ![c] = next]
    /\ lost' = IF next = None THEN [lost EXCEPT ![c] = {}] ELSE lost
    /\ UNCHANGED <<tables, share, shared, now, req, work>>

\* The gate: a link that opens nothing gets 404.
LetIn(c, s) ==
    /\ visit[c] = None
    /\ Opens(s)
    /\ VisitStep(c, [share |-> s, at |-> "in", tags |-> {}, shown |-> {}, summed |-> {}])

\* What the share reaches now; none once its row is gone.
Reached(c) == IF share[visit[c].share] = None THEN {} ELSE Reach(visit[c].share)

\* covered, covered_track, covered_collection: else 404.
Cover(c, x) ==
    /\ Step(c, "in")
    /\ x \in Reached(c)
    /\ VisitStep(c, [visit[c] EXCEPT !.at = "covered", !.shown = {x}])

\* get_trip, get_collection, ... by the id that was covered.
Show(c) ==
    /\ Step(c, "covered")
    /\ VisitStep(c, [visit[c] EXCEPT !.at = "done", !.shown = @ \cap alive])

\* overview: first the names of the share's tags ...
ReadTagNames(c) ==
    /\ Step(c, "in")
    /\ LET s == visit[c].share
       IN VisitStep(c, [visit[c] EXCEPT !.at = "tags", !.tags =
            IF share[s] = None THEN {} ELSE {name[g] : g \in share[s].names \cap Tags}])

\* ... then the recorded trips under tags of these names ...
ReadSummary(c) ==
    /\ Step(c, "tags")
    /\ VisitStep(c, [visit[c] EXCEPT !.at = "lists", !.tags = {}, !.summed =
         {t \in Recorded : \E g \in Tags : name[g] \in visit[c].tags /\ <<g, t>> \in holds}])

\* ... then the lists of what is reached (a statement each; no property
\* relates two of them).
ReadLists(c) ==
    /\ Step(c, "lists")
    /\ VisitStep(c, [visit[c] EXCEPT !.at = "done", !.shown = Reached(c)])

Leave(c) ==
    /\ visit[c] # None
    /\ VisitStep(c, None)

----------------------------------------------------------------------------

Owner ==
    \/ \E x \in Trips \cup Colls : Enter(x)
    \/ \E k \in Tracks, c \in Colls : EnterTrack(k, c)
    \/ \E g \in Tags, n \in Names : CreateTag(g, n) \/ RenameTag(g, n)
    \/ \E x \in Things \ Tags, n \in Names, g \in Tags : AddTag(x, n, g)
    \/ \E X \in (SUBSET Trips) \cup (SUBSET Colls), n \in Names, g \in Tags : BulkAddTags(X, n, g)
    \/ \E g \in Tags, x \in Things : RemoveTag(g, x)
    \/ \E x \in Things : Delete(x)
    \/ \E g \in Tags : DeleteTag(g)
    \/ \E r \in Creators, K \in {Trips, Names, Colls, Tracks} :
         \E want \in SUBSET K : AskShare(r, want)
    \/ \E r \in Creators, w \in Things \cup Names : Find(r, w)
    \/ \E r \in Creators, s \in Shares, until \in Expiries : Store(r, s, until)
    \/ \E r \in Owners, s \in Shares : AskStop(r, s)
    \/ \E r \in Owners : Stop(r)

Recipient ==
    \/ \E c \in Clients, s \in Shares : LetIn(c, s)
    \/ \E c \in Clients, x \in Things : Cover(c, x)
    \/ \E c \in Clients : Show(c) \/ ReadTagNames(c) \/ ReadSummary(c) \/ ReadLists(c) \/ Leave(c)

SharingNext == Owner \/ Recipient

----------------------------------------------------------------------------
\* Properties.

\* A link that opens nothing - stopped, expired, or left naming nothing -
\* never opens anything again, whatever is tagged, renamed or deleted
\* afterwards.
NeverReopens == [][\A s \in shared : ~Opens(s) => ~Opens(s)']_<<now, sharing>>

\* What was covered and deleted before it was read is not shown, whatever
\* was entered meanwhile: no row takes its id.
ShowsWhatWasCovered ==
    \A c \in Clients : Step(c, "done") => visit[c].shown \cap lost[c] = {}

\* "Every trip a share reaches: the one place that answers this, so every
\* check the recipient's routes make agrees" (migrations/0020): while the
\* share stands, the summary of its tags too shows only what it reaches.
SummaryOfReach ==
    [][\A c \in Clients :
         Step(c, "tags") /\ Step(c, "lists")' /\ share[visit[c].share] # None
         => visit'[c].summed \subseteq Reached(c)]_<<now, sharing>>

----------------------------------------------------------------------------
\* Strengthenings that make ShowsWhatWasCovered inductive (TimedProofs).

Share == [names : SUBSET Things, until : {Never} \cup 0 .. Horizon]
Reading ==
    [share : Shares, at : {"in", "covered", "done", "tags", "lists"},
     tags : SUBSET (Names \cup {None}), shown : SUBSET Things, summed : SUBSET Recorded]

SharingTypes ==
    /\ now \in Nat
    /\ alive \subseteq used /\ used \subseteq Things
    /\ name \in [Tags -> Names \cup {None}]
    /\ holds \subseteq used \X used
    /\ share \in [Shares -> Share \cup {None}] /\ shared \subseteq Shares
    /\ visit \in [Clients -> Reading \cup {None}]
    /\ lost \in [Clients -> SUBSET Things]

NamesUsed == \A s \in Shares : share[s] # None => share[s].names \subseteq used

\* Only what was covered is ever lost, and it does not come back.
LostForGood ==
    \A c \in Clients :
        /\ lost[c] \subseteq used \ alive
        /\ visit[c] = None \/ Step(c, "in") \/ Step(c, "tags") \/ Step(c, "lists") => lost[c] = {}
        /\ Step(c, "covered") => visit[c].shown \subseteq used

SharingInductive == SharingTypes /\ NamesUsed /\ LostForGood /\ ShowsWhatWasCovered
=============================================================================
