-------------------------------- MODULE Links --------------------------------
(***************************************************************************)
(* Links from what the owner did to what they planned (US-99), and the     *)
(* links the archive proposes (US-103, ADR-0030).  Whatever enters is      *)
(* checked within the request that brought it, after its transaction       *)
(* committed: the check reads what it was asked about, then what lies near *)
(* it, and proposes in a third transaction, all of it or nothing.          *)
(* Meanwhile other requests enter, replace, move and delete both ends, and *)
(* the owner links, confirms, dismisses and unlinks.                       *)
(*                                                                         *)
(* A check reads the things it judges in several queries; here in one.     *)
(* Every pair is judged from one row of them, so pair by pair nothing is   *)
(* lost.                                                                   *)
(***************************************************************************)
EXTENDS ItemTable, FiniteSets

CONSTANTS
    Reqs,      \* concurrent requests
    Recorded,  \* recorded trips there will ever be
    Planned,   \* planned trips
    FollowSet, \* which trip follows which planned trip or line
    MaxClicks  \* bound on what the owner links, settles and unlinks

Trips == Recorded \cup Planned
Ends == Trips \cup Items
\* The three link tables: a trip, and what it is linked to.
Pairs == (Recorded \X Planned) \cup (Trips \X Items)

ASSUME TripsAssumption ==
    /\ Recorded \cap Planned = {}
    /\ Trips \cap (Items \cup Lines \cup {None}) = {}
ASSUME ClicksAssumption == MaxClicks \in Nat
ASSUME LinkAssumption == None \notin {"proposed", "linked"}

\* A check: where it is, what it was asked about, the lines it has read and
\* the pairs it has found.  fresh is history: the ends it read as they still
\* are, and whose proposals stand.
Check ==
    [step : {"ids", "own", "forget", "items", "near", "trips", "tracks", "propose"},
     about : SUBSET Ends,
     seen : UNION {[S -> Lines] : S \in SUBSET Items},
     found : SUBSET Pairs,
     fresh : SUBSET Ends]

VARIABLES
    trips,      \* where each trip is: "away", "in" the archive or "deleted"
    link,       \* per pair: None, "proposed" or "linked"
    check,      \* per request: the check under way, else None
    unchecked,  \* history: ends no check has judged as they now are, or
                \* whose proposals were forgotten since
    waived,     \* history: pairs the owner dismissed or unlinked since
    clicks      \* how often the owner acted on links, for the bound

vars == <<items, lastItem, trips, link, check, unchecked, waived, clicks>>

Init ==
    /\ TableInit
    /\ trips = [t \in Trips |-> "away"]
    /\ link = [p \in Pairs |-> None]
    /\ check = [r \in Reqs |-> None]
    /\ unchecked = {}
    /\ waived = {}
    /\ clicks = 0

Here(e) == IF e \in Trips THEN trips[e] = "in" ELSE items[e] # None
Alive(p) == Here(p[1]) /\ Here(p[2])
Idle(r) == check[r] = None
PairsOf(S) == {p \in Pairs : p[1] \in S \/ p[2] \in S}
\* Coverage along the line or by points, or a waypoint passed.
Follows(t, line) == <<t, line>> \in FollowSet

\* Deleting an end deletes its links (ON DELETE CASCADE).
Cascade == link' = [p \in Pairs |-> IF Alive(p)' THEN link[p] ELSE None]

\* History keeps nothing of an end that went.
Forgotten ==
    /\ unchecked' = {e \in unchecked : Here(e)'}
    /\ waived' = {p \in waived : Alive(p)'}

NewCheck(step, S) ==
    [step |-> step, about |-> S, seen |-> [i \in {} |-> None], found |-> {},
     fresh |-> {}]
Starts(r, step, S) == check' = [check EXCEPT ![r] = NewCheck(step, S)]

\* What the checks under way have read of these items counts no more.
Unread(S, checks) == [q \in Reqs |->
    IF checks[q] = None THEN None
    ELSE [checks[q] EXCEPT !.fresh = @ \ S]]

\* Items that changed are as if never checked.
Changes(S, checks) ==
    /\ unchecked' = {e \in unchecked : Here(e)'} \cup S
    /\ waived' = {p \in waived \ PairsOf(S) : Alive(p)'}
    /\ check' = Unread(S, checks)

-----------------------------------------------------------------------------
(* What enters, changes and goes.                                          *)

\* A trip imported or synced: its transaction commits, and its check begins.
Enter(r, t) ==
    /\ Idle(r)
    /\ trips[t] = "away"
    /\ trips' = [trips EXCEPT ![t] = "in"]
    /\ unchecked' = unchecked \cup {t}
    /\ Starts(r, "trips", {t})
    /\ UNCHANGED <<tableVars, link, waived, clicks>>

DeleteTrip(t) ==
    /\ trips[t] = "in"
    /\ trips' = [trips EXCEPT ![t] = "deleted"]
    /\ UNCHANGED <<tableVars, check, clicks>>
    /\ Cascade
    /\ Forgotten

\* A collection made from a file, whose items are then read back by its id,
\* or a confirmed import, which knows the item it put in and takes out those
\* the owner dropped.
Import(r) ==
    /\ Idle(r)
    /\ \E i \in Items, l \in Lines, gone \in SUBSET Present,
          step \in {"ids", "forget"} :
          /\ step = "ids" => i \notin Present /\ gone = {}
          /\ Entry(i, l, gone)
          /\ UNCHANGED <<trips, clicks>>
          /\ Changes({i}, [check EXCEPT ![r] = NewCheck(step, {i})])
    /\ Cascade

\* A waypoint can be moved by hand, which asks for no check.
MoveWaypoint ==
    /\ \E i \in {i \in Present : i[1] = "waypoint"}, l \in Lines :
          /\ l # items[i]
          /\ Entry(i, l, {})
          /\ UNCHANGED <<trips, link, clicks>>
          /\ Changes({i}, check)

\* Items deleted one by one or with their collection.
DeleteItems ==
    /\ \E gone \in SUBSET Present : Removal(gone)
    /\ UNCHANGED <<trips, check, clicks>>
    /\ Cascade
    /\ Forgotten

-----------------------------------------------------------------------------
(* A check, one transaction or read a step.                                *)

At(r, step) == check[r] # None /\ check[r].step = step

\* The owner asks for it from a trip's or a collection's page.
AskCheck(r) ==
    /\ Idle(r)
    /\ \/ \E t \in Trips : trips[t] = "in" /\ Starts(r, "trips", {t})
       \/ \E S \in SUBSET Items : Starts(r, "own", S)
    /\ UNCHANGED <<tableVars, trips, link, unchecked, waived, clicks>>

\* The items of a collection, just made or asked about, read by its id.  Which
\* items a collection holds does not matter here: any set of them may be one.
ReadIds(r) ==
    /\ At(r, "ids") \/ At(r, "own")
    /\ check' = [check EXCEPT
           ![r].step = IF At(r, "ids") THEN "forget" ELSE "items",
           ![r].about = @ \cap Present]
    /\ UNCHANGED <<tableVars, trips, link, unchecked, waived, clicks>>

\* Mutant: a confirmed link is forgotten like a proposal.
ForgetsAll(S) == {p \in PairsOf(S) : link[p] # None}
\* What a check of these items forgets: their proposals, not their links.
Forgettable(S) == {p \in PairsOf(S) : link[p] = "proposed"}

\* Another check may have read these items, and proposed for them, before.
Forget(r) ==
    /\ At(r, "forget")
    /\ LET gone == Forgettable(check[r].about) IN
       /\ link' = [p \in Pairs |-> IF p \in gone THEN None ELSE link[p]]
       /\ unchecked' = unchecked \cup (check[r].about \cap Present)
    /\ check' = Unread(check[r].about, [check EXCEPT ![r].step = "items"])
    /\ UNCHANGED <<tableVars, trips, waived, clicks>>

\* The items asked about, with the lines they have now.
ReadItems(r) ==
    /\ At(r, "items")
    /\ LET S == check[r].about \cap Present IN
       check' = [check EXCEPT ![r].step = "near",
                     ![r].seen = [i \in S |-> items[i]], ![r].fresh = S]
    /\ UNCHANGED <<tableVars, trips, link, unchecked, waived, clicks>>

\* Mutant: a trip is found by others only once its own check is done.
KnownFollowers(seen) ==
    {p \in Trips \X DOMAIN seen : /\ trips[p[1]] = "in"
                                  /\ p[1] \notin unchecked
                                  /\ Follows(p[1], seen[p[2]])}
\* The trips near them, each judged against the lines read before.
Followers(seen) ==
    {p \in Trips \X DOMAIN seen : trips[p[1]] = "in" /\ Follows(p[1], seen[p[2]])}

LookAtTrips(r) ==
    /\ At(r, "near")
    /\ check' = [check EXCEPT ![r].step = "propose",
                     ![r].found = Followers(check[r].seen)]
    /\ UNCHANGED <<tableVars, trips, link, unchecked, waived, clicks>>

\* A trip against the trips of the other kind ...
Partners(t) ==
    {p \in Recorded \X Planned :
        t \in {p[1], p[2]} /\ Alive(p) /\ Follows(p[1], p[2])}

LookAtPlans(r) ==
    /\ At(r, "trips")
    /\ check' = [check EXCEPT ![r].step = "tracks", ![r].fresh = check[r].about,
                     ![r].found = UNION {Partners(t) : t \in check[r].about}]
    /\ UNCHANGED <<tableVars, trips, link, unchecked, waived, clicks>>

\* ... and then against every collection's tracks and waypoints.
Passed(t) == {p \in {t} \X Items : items[p[2]] # None /\ Follows(t, items[p[2]])}

LookAtItems(r) ==
    /\ At(r, "tracks")
    /\ check' = [check EXCEPT ![r].step = "propose",
                     ![r].found = @ \cup UNION {Passed(t) : t \in check[r].about}]
    /\ UNCHANGED <<tableVars, trips, link, unchecked, waived, clicks>>

\* A pair already linked or proposed stays as it is (INSERT OR IGNORE).
Proposed(p) == IF link[p] = None THEN "proposed" ELSE link[p]

Propose(r) ==
    /\ At(r, "propose")
    /\ \A p \in check[r].found : Alive(p)
    /\ link' = [p \in Pairs |->
           IF p \in check[r].found THEN Proposed(p) ELSE link[p]]
    /\ unchecked' = unchecked \ check[r].fresh
    /\ waived' = waived \ check[r].found
    /\ check' = [check EXCEPT ![r] = None]
    /\ UNCHANGED <<tableVars, trips, clicks>>

\* An end that went meanwhile fails the whole transaction on its foreign
\* key; so does any other error, and the request may be gone by then.  What
\* entered stays (after_trip_entered, after_items_entered).
Fail(r) ==
    /\ check[r] # None
    /\ check' = [check EXCEPT ![r] = None]
    /\ UNCHANGED <<tableVars, trips, link, unchecked, waived, clicks>>

-----------------------------------------------------------------------------
(* The owner's links.                                                      *)

\* Every pair a selection of trips and tracks holds that can be linked.
Selected(T, K) ==
    ((T \cap Recorded) \X (T \cap Planned)) \cup (T \X K)

Click == clicks < MaxClicks /\ clicks' = clicks + 1

LinkSelection ==
    /\ Click
    /\ \E T \in SUBSET {t \in Trips : trips[t] = "in"},
          K \in SUBSET {i \in Items : i[1] = "track" /\ items[i] # None} :
          /\ Selected(T, K) # {}
          /\ link' = [p \in Pairs |->
                 IF p \in Selected(T, K) THEN "linked" ELSE link[p]]
    /\ UNCHANGED <<tableVars, trips, check, unchecked, waived>>

Proposals == {p \in Pairs : link[p] = "proposed"}

\* A selection is confirmed or dismissed only if all of it is proposed.
Confirm ==
    /\ Click
    /\ \E S \in SUBSET Proposals :
          /\ S # {}
          /\ link' = [p \in Pairs |-> IF p \in S THEN "linked" ELSE link[p]]
    /\ UNCHANGED <<tableVars, trips, check, unchecked, waived>>

Dismiss ==
    /\ Click
    /\ \E S \in SUBSET Proposals :
          /\ S # {}
          /\ link' = [p \in Pairs |-> IF p \in S THEN None ELSE link[p]]
          /\ waived' = waived \cup S
    /\ UNCHANGED <<tableVars, trips, check, unchecked>>

Unlink(p) ==
    /\ Click
    /\ link[p] # None
    /\ link' = [link EXCEPT ![p] = None]
    /\ waived' = waived \cup {p}
    /\ UNCHANGED <<tableVars, trips, check, unchecked>>

-----------------------------------------------------------------------------
Next ==
    \/ DeleteItems \/ MoveWaypoint
    \/ LinkSelection \/ Confirm \/ Dismiss
    \/ \E p \in Pairs : Unlink(p)
    \/ \E t \in Trips : DeleteTrip(t)
    \/ \E r \in Reqs :
          \/ \E t \in Trips : Enter(r, t)
          \/ Import(r) \/ AskCheck(r)
          \/ ReadIds(r) \/ Forget(r) \/ ReadItems(r) \/ LookAtTrips(r)
          \/ LookAtPlans(r) \/ LookAtItems(r) \/ Propose(r) \/ Fail(r)

Spec == Init /\ [][Next]_vars

-----------------------------------------------------------------------------
LinksTypeOK ==
    /\ items \in [Items -> Lines \cup {None}]
    /\ lastItem \in [Kinds -> Nat]
    /\ \A i \in Present : i[2] <= lastItem[i[1]]
    /\ trips \in [Trips -> {"away", "in", "deleted"}]
    /\ link \in [Pairs -> {None, "proposed", "linked"}]
    /\ \A p \in Pairs : link[p] # None => Alive(p)
    /\ check \in [Reqs -> Check \cup {None}]
    /\ unchecked \subseteq Ends
    /\ waived \subseteq Pairs
    /\ clicks \in 0 .. MaxClicks

\* What the owner linked or confirmed stays a link until they unlink it or
\* delete an end: no re-import, move, check or dismissal that raced it takes
\* it away (ADR-0030; forget_proposals_of, propose).
LinksKept ==
    [][\A p \in Pairs : link[p] = "linked" /\ link'[p] # "linked" =>
           ~Alive(p)' \/ Unlink(p)]_vars

\* The two ends are there, one follows the other as they now are, and the
\* pair is neither linked nor proposed, nor did the owner waive it.
Owed(p) ==
    /\ Alive(p)
    /\ Follows(p[1], IF p[2] \in Trips THEN p[2] ELSE items[p[2]])
    /\ link[p] = None /\ p \notin waived

\* Two ends of which one follows the other are linked, proposed, or were
\* waived by the owner, once each has been checked as it is: however the
\* checks of things entering side by side interleave, one of them sees the
\* other (US-103; the check runs after the commit).
NothingOverlooked ==
    \A p \in Pairs : Owed(p) => p[1] \in unchecked \/ p[2] \in unchecked

-----------------------------------------------------------------------------
(* Strengthenings that make NothingOverlooked inductive (LinksProofs).     *)

\* The check r has read the end e, and the table p is of beside it.
Looked(r, e, p) ==
    /\ check[r] # None
    /\ e \in check[r].fresh
    /\ \/ check[r].step = "propose"
       \/ check[r].step = "tracks" /\ p[2] \in Trips

\* A pair that is owed, and that a check which has looked will not propose,
\* has an end that is still to be checked; and of two checks that have looked
\* from either end, one found it.
SeenFromEitherEnd ==
    \A p \in Pairs : Owed(p) => \A r \in Reqs :
        /\ Looked(r, p[1], p) => p \in check[r].found \/ p[2] \in unchecked
        /\ Looked(r, p[2], p) => p \in check[r].found \/ p[1] \in unchecked
        /\ \A q \in Reqs : Looked(r, p[1], p) /\ Looked(q, p[2], p) =>
               p \in check[r].found \cup check[q].found

\* What a check is about, and what it holds in between, by its step.
InStep(r) == check[r] # None =>
    /\ check[r].step \in {"trips", "tracks"} =>
           /\ check[r].about \cup check[r].fresh \subseteq Trips
           /\ check[r].fresh \subseteq check[r].about
    /\ check[r].step \in {"ids", "own", "forget", "items"} =>
           check[r].about \subseteq Items
    /\ check[r].step = "near" =>
           /\ check[r].fresh \subseteq DOMAIN check[r].seen
           /\ \A i \in check[r].fresh :
                  items[i] # None => items[i] = check[r].seen[i]
    /\ \A t \in (check[r].about \cup check[r].fresh) \cap Trips : trips[t] # "away"

LinksInductive ==
    /\ LinksTypeOK /\ NothingOverlooked /\ SeenFromEitherEnd
    /\ \A r \in Reqs : InStep(r)
=============================================================================
