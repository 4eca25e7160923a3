---------------------------- MODULE TourListing -----------------------------
(***************************************************************************)
(* How the sync asks Komoot (ADR-0021): every authenticated request of the *)
(* process takes a slot of one throttle (US-23), and a listing is asked    *)
(* for page by page while tours come and go at Komoot.  What is selected   *)
(* is then imported tour by tour.  (KomootSync takes a listing as one      *)
(* read; this is what stands behind it.)                                   *)
(***************************************************************************)
EXTENDS Clock, Sequences, FiniteSets, FiniteSetsExt

CONSTANTS
    Listers,    \* requests and tools that list, and import from the listing
    Others,     \* other requests to Komoot of the same process
    KomootIds,  \* tours
    PageSize,   \* PAGE_SIZE
    MinGap,     \* MIN_REQUEST_INTERVAL
    Backoffs,   \* Retry-After values, DEFAULT_RATE_LIMIT_BACKOFF among them
    MaxSlot     \* bound on the slots reserved

ASSUME ListingAssumption ==
    /\ PageSize \in Nat \ {0} /\ MinGap \in Nat /\ Backoffs \subseteq Nat /\ MaxSlot \in Nat

Callers == Listers \cup Others

VARIABLES
    account,  \* Komoot's list, the newest first
    nextAllowed,     \* Throttle::next_allowed
    slot,     \* when each caller's call may go out, else None
    listing,  \* each lister: [do, page, all, selected, already, attempted]
    linked,   \* the tours of trip_komoot_link
    \* history
    told,     \* until when Komoot asked to be left alone
    stayed    \* each lister: tours there from its first page on, if none left

asking == <<account, nextAllowed, slot, listing, linked, told, stayed>>

Resting == [do |-> "nothing", page |-> 0, all |-> <<>>, selected |-> <<>>,
            already |-> {}, attempted |-> {}]

ListingInit ==
    /\ account = <<>>
    /\ nextAllowed = 0
    /\ slot = [c \in Callers |-> None]
    /\ listing = [c \in Listers |-> Resting]
    /\ linked = {}
    /\ told = 0
    /\ stayed = [c \in Listers |-> {}]

Listed(tours) == {tours[i] : i \in 1 .. Len(tours)}

-----------------------------------------------------------------------------
(* The throttle.                                                           *)

\* wait_and_advance: the slots are chained.
Taken == Max({now, nextAllowed}) + MinGap

\* wait_before_request: the slot is taken under the mutex, and slept for
\* outside it.
Reserve(c) ==
    /\ slot[c] = None
    /\ Taken <= MaxSlot    \* bound
    /\ slot' = [slot EXCEPT ![c] = Max({now, nextAllowed})]
    /\ nextAllowed' = Taken

\* The sleep is over, and the request has gone out and been answered; a
\* Retry-After counts from the answer.
Sent(c) == slot[c] # None /\ slot[c] <= now
Served(c) ==
    /\ Sent(c)
    /\ slot' = [slot EXCEPT ![c] = None]

\* Mutant: the last Retry-After counts, however short.
Shortened(backoff) == now + backoff
\* backoff_after_response never shortens a longer one.
Extended(backoff) == Max({nextAllowed, now + backoff})

\* 429: the call fails, and what asks from now on waits.
Refused(c, backoff) ==
    /\ Served(c)
    /\ now + backoff <= MaxSlot    \* bound
    /\ nextAllowed' = Extended(backoff)
    /\ told' = Max({told, now + backoff})

Other(c) ==
    /\ \/ Reserve(c) /\ UNCHANGED told
       \/ Served(c) /\ UNCHANGED <<nextAllowed, told>>
       \/ \E backoff \in Backoffs : Refused(c, backoff)
    /\ UNCHANGED <<account, listing, linked, stayed>>

-----------------------------------------------------------------------------
(* Komoot's side.                                                          *)

Record(t) ==
    /\ t \notin Listed(account)
    /\ account' = <<t>> \o account
    /\ UNCHANGED <<nextAllowed, slot, listing, linked, told, stayed>>

\* A tour that leaves moves the ones behind it forward: one of them may be
\* on no page that is read.
Remove(t) ==
    /\ \E i \in 1 .. Len(account) :
          /\ account[i] = t
          /\ account' = SubSeq(account, 1, i - 1) \o SubSeq(account, i + 1, Len(account))
    /\ stayed' = [c \in Listers |-> {}]
    /\ UNCHANGED <<nextAllowed, slot, listing, linked, told>>

-----------------------------------------------------------------------------
(* Listing and importing.                                                  *)

Does(c, do) == listing[c].do = do
Turns(c, state) == listing' = [listing EXCEPT ![c] = state]

Start(c) ==
    /\ Does(c, "nothing")
    /\ Reserve(c)
    /\ Turns(c, [Resting EXCEPT !.do = "list"])
    /\ UNCHANGED <<account, linked, told, stayed>>

Page(c) ==
    LET from == listing[c].page * PageSize
    IN SubSeq(account, from + 1, IF from + PageSize < Len(account) THEN from + PageSize ELSE Len(account))

\* Mutant: a page of the full size may be the last one.
FullIsLast(batch) == Len(batch) <= PageSize
\* A short page, or an empty one, is the last.
IsLast(batch) == Len(batch) < PageSize

\* list_all_tours_of_kind.
ReadPage(c) ==
    /\ Does(c, "list")
    /\ Served(c)
    /\ LET batch == Page(c)
           all == listing[c].all \o batch
       IN Turns(c, [listing[c] EXCEPT !.all = all, !.page = @ + 1,
                                      !.do = IF IsLast(batch) THEN "listed" ELSE "turn"])
    /\ stayed' = [stayed EXCEPT ![c] = IF listing[c].page = 0 THEN Listed(account) ELSE @]
    /\ UNCHANGED <<account, nextAllowed, linked, told>>

TurnPage(c) ==
    /\ Does(c, "turn")
    /\ Reserve(c)
    /\ Turns(c, [listing[c] EXCEPT !.do = "list"])
    /\ UNCHANGED <<account, linked, told, stayed>>

\* The run, or the listing, fails with its first failed call.
Fail(c) ==
    /\ Does(c, "list")
    /\ \/ \E backoff \in Backoffs : Refused(c, backoff)
       \/ Served(c) /\ UNCHANGED <<nextAllowed, told>>
    /\ Turns(c, Resting)
    /\ UNCHANGED <<account, linked, stayed>>

\* backfill: what is not linked, as often as it was listed, up to a limit.
SelectAll(c) ==
    /\ Does(c, "listed")
    /\ LET open == SelectSeq(listing[c].all, LAMBDA t : t \notin linked)
       IN \E limit \in 0 .. Len(open) :
            Turns(c, [listing[c] EXCEPT !.do = "import", !.already = linked,
                                        !.selected = SubSeq(open, 1, limit)])
    /\ UNCHANGED <<account, nextAllowed, slot, linked, told, stayed>>

\* sync_selected_tours: the owner's selection, of an older listing.
SelectSome(c) ==
    /\ Does(c, "listed")
    /\ \E t, u \in KomootIds :
         Turns(c, [listing[c] EXCEPT !.do = "import", !.already = linked,
                                     !.selected = <<t, u>>])
    /\ UNCHANGED <<account, nextAllowed, slot, linked, told, stayed>>

\* A repeat is not attempted again.
Unattempted(c, t) == t \notin listing[c].attempted

\* import_selected_tours: the next of the selection.  by_id gave its tour
\* away when it was attempted, and not being listed ends the run; so does
\* failing to import it, as one linked meanwhile does (UNIQUE).  (Fetching a
\* tour asks Komoot as Others do.)
ImportNext(c) ==
    LET run == listing[c]
        t == Head(run.selected)
        then == [run EXCEPT !.selected = Tail(@), !.attempted = @ \cup {t}]
    IN
    /\ Does(c, "import")
    /\ run.selected # <<>>
    /\ IF ~Unattempted(c, t) \/ t \in run.already
       THEN Turns(c, then) /\ UNCHANGED linked
       ELSE IF t \in Listed(run.all) \ run.attempted
       THEN \/ t \notin linked /\ Turns(c, then) /\ linked' = linked \cup {t}
            \/ Turns(c, Resting) /\ UNCHANGED linked
       ELSE Turns(c, [run EXCEPT !.do = "halted", !.selected = <<t>>]) /\ UNCHANGED linked
    /\ UNCHANGED <<account, nextAllowed, slot, told, stayed>>

End(c) ==
    /\ Does(c, "halted") \/ (Does(c, "import") /\ listing[c].selected = <<>>)
    /\ Turns(c, Resting)
    /\ UNCHANGED <<account, nextAllowed, slot, linked, told, stayed>>

ListingNext ==
    /\ \/ \E c \in Others : Other(c)
       \/ \E t \in KomootIds : Record(t) \/ Remove(t)
       \/ \E c \in Listers :
            \/ Start(c) \/ ReadPage(c) \/ TurnPage(c) \/ Fail(c)
            \/ SelectAll(c) \/ SelectSome(c) \/ ImportNext(c) \/ End(c)
    /\ UNCHANGED now

-----------------------------------------------------------------------------
(* Properties.                                                             *)

\* Requests of one process that wait or have gone out were given slots
\* MinGap apart, and one that asks after a 429 is given none before the
\* longest wait Komoot has asked for, whoever asks meanwhile (rate_limit.rs;
\* one that had its slot keeps it).
Throttled ==
    [][\A c \in Callers : slot[c] = None /\ slot'[c] # None
         => /\ slot'[c] >= told
            /\ \A d \in Callers \ {c} : slot[d] # None => slot'[c] >= slot[d] + MinGap]_<<now, asking>>

\* A listing during which no tour left Komoot holds every tour there when it
\* began, however many were added meanwhile and moved the pages on
\* (list_all_tours_of_kind; a listing that misses tours imports too little).
ListsWhatStayed ==
    \A c \in Listers : Does(c, "listed") => stayed[c] \subseteq Listed(listing[c].all)

-----------------------------------------------------------------------------
(* Strengthenings that make them inductive (TimedProofs).                  *)

Shaped(run) ==
    /\ run = [do |-> run.do, page |-> run.page, all |-> run.all, selected |-> run.selected,
              already |-> run.already, attempted |-> run.attempted]
    /\ run.page \in Nat /\ run.all \in Seq(KomootIds)

ListingTypes ==
    /\ now \in Nat /\ nextAllowed \in Nat /\ told \in Nat
    /\ account \in Seq(KomootIds)
    /\ slot \in [Callers -> Nat \cup {None}]
    /\ DOMAIN listing = Listers /\ \A c \in Listers : Shaped(listing[c])
    /\ DOMAIN stayed = Listers

\* The next slot is behind every slot given, and behind what Komoot asked for.
Chained ==
    /\ told <= nextAllowed
    /\ \A c \in Callers : slot[c] # None => slot[c] + MinGap <= nextAllowed

\* A tour that stayed was read, or is behind the pages that were.
Behind(t, c) ==
    \E i \in 1 .. Len(account) : i > listing[c].page * PageSize /\ account[i] = t
NoneSlipsBy ==
    \A c \in Listers : (Does(c, "list") \/ Does(c, "turn")) /\ listing[c].page > 0 =>
        \A t \in stayed[c] : t \in Listed(listing[c].all) \/ Behind(t, c)

ListingInductive == ListingTypes /\ Chained /\ NoneSlipsBy /\ ListsWhatStayed
=============================================================================
