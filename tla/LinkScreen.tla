------------------------------ MODULE LinkScreen ------------------------------
(***************************************************************************)
(* What the single-page application shows of links and proposals (US-99,   *)
(* US-103): the "Linked" section of the pages of trips, tracks and         *)
(* waypoints with the map beside it, the Proposed links page, the check    *)
(* the owner starts, and the menu's count.  Each reads on its own and is   *)
(* told by one counter that proposals may have changed.                    *)
(***************************************************************************)
EXTENDS Screens

CONSTANTS
    TripPages, ItemPages,  \* the pages: of trips, and of tracks and waypoints
    Linkable,              \* the pairs of ends a link may join
    Presses,               \* requests under way at a time
    MaxClicks              \* bound: the owner's clicks, and changes elsewhere

Pages == TripPages \cup ItemPages
\* What a page's links are listed as, and a request.
LinkLists == UNION {[S -> {"proposed", "linked"}] : S \in SUBSET Pages}
Request ==
    [do : {"unlink", "confirm", "dismiss", "check"},
     pairs : SUBSET SUBSET (Pages \cup {"proposed"}),
     heard : BOOLEAN, answer : {None, "ok", "refused", "lost"}]

ASSUME LinkScreenAssumption ==
    /\ TripPages \cap ItemPages = {} /\ "proposed" \notin Pages
    /\ IsFiniteSet(Linkable) /\ MaxClicks \in Nat
    /\ \A p \in Linkable : p \subseteq Pages /\ p \cap TripPages # {} /\ Cardinality(p) = 2
    /\ None \notin {"proposed", "linked", "ok", "refused", "lost"} \cup Nat
    /\ None \notin Pages \cup Request
    /\ \A S \in (SUBSET Pages) \cup (SUBSET Linkable) \cup LinkLists : S # None

VARIABLES
    joined,    \* the archive: what holds of each pair, None without a link
    here,      \* the page shown, or "proposed"
    towards,   \* the other end of the proposal the owner came from
    header,    \* whose page its own read was last answered for
    links,     \* LinkedTo's resource; its value: each other end's state
    shown,     \* the other ends ticked
    ticked,    \* whether `towards` was ticked
    drawing,   \* what the running read for the map is of
    overlays,  \* what the map draws
    listed,    \* the Proposed links page's resource
    selected,  \* the pairs selected on it
    counted,   \* the menu's resource
    press,     \* the request in each slot
    missed,    \* reads that failed, or no one told of a change
    unread     \* what the map's last read failed on

place == <<here, towards, header>>
section == <<links, shown, ticked, drawing>>
linking == <<joined, place, section, overlays, listed, selected, counted, press, missed, unread, events>>

Click == events < MaxClicks /\ events' = events + 1

Listable == here = header
Reads == {"links", "listed", "count"}
Proposed == {p \in Linkable : joined[p] = "proposed"}
\* list_links: the other ends of a page's links.
LinksOf(e) ==
    [o \in {o \in Pages : {e, o} \in Linkable /\ joined[{e, o}] # None} |-> joined[{e, o}]]

LinkRows == IF links.read = None THEN <<>> ELSE links.read
\* What the read for the map is started anew with, cancelling the last.
Ticked(rows, ticks) == DOMAIN rows \cap ticks
Settleable == {o \in DOMAIN LinkRows : LinkRows[o] = "proposed"}

----------------------------------------------------------------------------
\* Pages.

\* A component under "Loading" is unmounted, what it was waiting for with it.
LeftBehind == [j \in Presses |->
    IF press[j] = None \/ press[j].answer # None THEN None ELSE [press[j] EXCEPT !.heard = FALSE]]
\* A change already made, of which no one is told any more.
Unheard ==
    IF \E j \in Presses : press[j] # None /\ press[j].heard /\ press[j].answer = "ok"
    THEN Reads ELSE {}

\* LinkedTo as it is mounted; the first read for its map is of nothing.
Section(to, read) ==
    /\ header' = read
    /\ links' = IF to = read THEN Opening ELSE Closed
    /\ shown' = {} /\ ticked' = FALSE
    /\ drawing' = IF to = read THEN {} ELSE None

\* AppShell: the count is read on every change of screen.
NewScreen == counted' = Again(counted) /\ missed' = missed \cup Unheard /\ press' = LeftBehind

\* Between pages of one kind the router keeps the scope, and with it what the
\* map draws, unless the page was opened from a proposal.
OpenPage(to) ==
    /\ to # here /\ Click /\ NewScreen
    /\ here' = to /\ towards' = None
    /\ LET kept == towards = None /\ (\/ {here, to} \subseteq TripPages \/ {here, to} \subseteq ItemPages)
       IN /\ Section(to, IF kept THEN header ELSE None)
          /\ overlays' = IF kept THEN overlays ELSE {}
    /\ listed' = Closed /\ selected' = {}
    /\ UNCHANGED <<joined, unread>>

\* Entry: a proposal leads to its trip's page, the other end to be ticked.
Follow(p, to) ==
    /\ here = "proposed" /\ listed.read # None /\ p \in listed.read
    /\ to \in p \cap TripPages /\ Click /\ NewScreen
    /\ here' = to /\ towards' = CHOOSE o \in p \ {to} : TRUE
    /\ Section(to, None) /\ overlays' = {}
    /\ listed' = Closed /\ selected' = {}
    /\ UNCHANGED <<joined, unread>>

OpenProposed ==
    /\ here # "proposed" /\ Click /\ NewScreen
    /\ here' = "proposed" /\ towards' = None
    /\ Section(here', None) /\ overlays' = {}
    /\ listed' = Opening /\ selected' = {}
    /\ UNCHANGED <<joined, unread>>

\* The page's own read is answered, and what is under it mounted.
ShowPage ==
    /\ here # "proposed" /\ ~Listable
    /\ Section(here, here)
    /\ UNCHANGED <<joined, here, towards, overlays, listed, selected, counted, press, missed, unread, events>>

----------------------------------------------------------------------------
\* LinkedTo and use_shown.

ReadLinks ==
    /\ links.asked
    /\ \E rows \in {LinksOf(here), <<>>} :  \* a failed read lists nothing
         /\ links' = [links EXCEPT !.asked = FALSE, !.answer = rows]
         /\ missed' = IF rows = LinksOf(here) THEN missed \ {"links"} ELSE missed \cup {"links"}
    /\ UNCHANGED <<joined, place, shown, ticked, drawing, overlays, listed, selected, counted, press, unread, events>>

\* Mutant: the map is read anew only for what is ticked.
ReadAfter(rows, ticks) == drawing
DrawnAfter(rows, ticks) == Ticked(rows, ticks)

\* `towards` is ticked once, as soon as it is listed.
ShowLinks ==
    /\ links.answer # None
    /\ links' = [links EXCEPT !.read = links.answer, !.answer = None]
    /\ LET found == ~ticked /\ towards # None /\ towards \in DOMAIN links.answer
       IN /\ ticked' = (ticked \/ found)
          /\ shown' = IF found THEN shown \cup {towards} ELSE shown
    /\ drawing' = DrawnAfter(links.answer, shown')
    /\ UNCHANGED <<joined, place, overlays, listed, selected, counted, press, missed, unread, events>>

Tick(o) ==
    /\ Listable /\ o \in DOMAIN LinkRows /\ Click
    /\ shown' = IF o \in shown THEN shown \ {o} ELSE shown \cup {o}
    /\ drawing' = Ticked(LinkRows, shown')
    /\ UNCHANGED <<joined, place, links, ticked, overlays, listed, selected, counted, press, missed, unread>>

\* overlays_of: one that cannot be read costs its own line.
Draw ==
    /\ drawing # None
    /\ \E failed \in SUBSET drawing :
         overlays' = drawing \ failed /\ unread' = failed
    /\ drawing' = None
    /\ UNCHANGED <<joined, place, links, shown, ticked, listed, selected, counted, press, missed, events>>

----------------------------------------------------------------------------
\* What the owner asks for.

Ask(j, do, pairs) ==
    /\ press[j] = None
    /\ press' = [press EXCEPT ![j] = [do |-> do, pairs |-> pairs, heard |-> TRUE, answer |-> None]]

\* A row's × and ✓; ticked proposals are confirmed or dismissed together.
RemoveRow(j, o) ==
    /\ Listable /\ o \in DOMAIN LinkRows /\ Click
    /\ Ask(j, "unlink", {{here, o}})
    /\ UNCHANGED <<joined, place, section, overlays, listed, selected, counted, missed, unread>>

SettleRows(j, do, others) ==
    /\ Listable /\ others # {} /\ Click
    /\ others \in {{o} : o \in Settleable} \cup {Settleable \cap shown}
    /\ do = "dismiss" => others = Settleable \cap shown
    /\ Ask(j, do, {{here, o} : o \in others})
    /\ UNCHANGED <<joined, place, section, overlays, listed, selected, counted, missed, unread>>

UnderWay(what) == \E j \in Presses : press[j] # None /\ press[j].heard /\ press[j].do \in what

LookForLinks(j) ==
    /\ here \in TripPages /\ Listable /\ ~UnderWay({"check"}) /\ Click
    /\ Ask(j, "check", {p \in Linkable : here \in p})
    /\ UNCHANGED <<joined, place, section, overlays, listed, selected, counted, missed, unread>>

\* The Proposed links page.
ReadListed ==
    /\ listed.asked
    /\ \/ /\ listed' = [listed EXCEPT !.asked = FALSE, !.answer = Proposed]
          /\ missed' = missed \ {"listed"}
       \/ /\ listed' = [listed EXCEPT !.asked = FALSE, !.read = {}]  \* its error is shown
          /\ missed' = missed \cup {"listed"}
    /\ UNCHANGED <<joined, place, section, overlays, selected, counted, press, unread, events>>

ShowListed ==
    /\ listed.answer # None
    /\ listed' = [listed EXCEPT !.read = listed.answer, !.answer = None]
    /\ UNCHANGED <<joined, place, section, overlays, selected, counted, press, missed, unread, events>>

SelectPairs(pairs) ==
    /\ listed.read # None /\ Click
    /\ pairs \in {{p} : p \in listed.read} \cup {listed.read}
    /\ selected' = IF pairs \subseteq selected THEN selected \ pairs ELSE selected \cup pairs
    /\ UNCHANGED <<joined, place, section, overlays, listed, counted, press, missed, unread>>

SettleSelected(j, do) ==
    /\ here = "proposed" /\ listed.read \notin {None, {}} /\ Click
    /\ selected # {} /\ ~UnderWay({"confirm", "dismiss"})
    /\ Ask(j, do, selected)
    /\ UNCHANGED <<joined, place, section, overlays, listed, selected, counted, missed, unread>>

----------------------------------------------------------------------------
\* Answers.

\* ProposalsChanged::bump.
Bump ==
    /\ counted' = Again(counted)
    /\ links' = IF Listable THEN Again(links) ELSE links
    /\ listed' = IF here = "proposed" THEN Again(listed) ELSE listed

\* Mutant: only what was settled is told of.
BumpIfDone(j) == IF press[j].answer = "ok" THEN Bump ELSE UNCHANGED <<counted, links, listed>>
\* A removal that failed tells no one; anything else does, however it ended.
BumpAfter(j) ==
    IF press[j].do = "unlink" /\ press[j].answer # "ok"
    THEN UNCHANGED <<counted, links, listed>> ELSE Bump

HearBack(j) ==
    /\ press[j] # None /\ press[j].heard /\ press[j].answer # None
    /\ BumpAfter(j)
    /\ selected' = IF here = "proposed" THEN {} ELSE selected
    /\ press' = [press EXCEPT ![j] = None]
    /\ UNCHANGED <<joined, place, shown, ticked, drawing, overlays, missed, unread, events>>

ReadCount ==
    /\ counted.asked
    /\ \/ /\ counted' = [counted EXCEPT !.asked = FALSE, !.answer = Cardinality(Proposed)]
          /\ missed' = missed \ {"count"}
       \/ /\ counted' = [counted EXCEPT !.asked = FALSE, !.read = None]  \* no count is shown
          /\ missed' = missed \cup {"count"}
    /\ UNCHANGED <<joined, place, section, overlays, listed, selected, press, unread, events>>

ShowCount ==
    /\ counted.answer # None
    /\ counted' = [counted EXCEPT !.read = counted.answer, !.answer = None]
    /\ UNCHANGED <<joined, place, section, overlays, listed, selected, press, missed, unread, events>>

----------------------------------------------------------------------------
\* The archive, and whoever else changes what is linked.

Answers(j, how) ==
    press' = [press EXCEPT ![j] = IF press[j].heard THEN [press[j] EXCEPT !.answer = how] ELSE None]
ToldOf(j) == missed' = IF press[j].heard THEN missed ELSE missed \cup Reads

\* Confirming and dismissing are all or none; a link not there cannot be
\* removed; a check proposes what it finds.
Carry(j) ==
    /\ press[j] # None /\ press[j].answer = None
    /\ LET of == press[j].pairs IN
       CASE press[j].do = "unlink" ->
              /\ \A p \in of : joined[p] # None
              /\ joined' = [p \in Linkable |-> IF p \in of THEN None ELSE joined[p]]
         [] press[j].do \in {"confirm", "dismiss"} ->
              /\ of \subseteq Proposed
              /\ joined' = [p \in Linkable |-> IF p \notin of THEN joined[p]
                                            ELSE IF press[j].do = "confirm" THEN "linked" ELSE None]
         [] press[j].do = "check" ->
              \E found \in SUBSET {p \in of : joined[p] = None} :
                joined' = [p \in Linkable |-> IF p \in found THEN "proposed" ELSE joined[p]]
    /\ Answers(j, "ok") /\ ToldOf(j)
    /\ UNCHANGED <<place, section, overlays, listed, selected, counted, unread, events>>

TurnDown(j) ==
    /\ press[j] # None /\ press[j].answer = None
    /\ Answers(j, "refused")
    /\ UNCHANGED <<joined, place, section, overlays, listed, selected, counted, missed, unread, events>>

\* The answer is lost, or the request: of a removal that was made no one is
\* told then, while a settling has everything read again.
CutOff(j) ==
    /\ press[j] # None /\ press[j].heard /\ press[j].answer # "lost"
    /\ missed' = IF press[j].answer = "ok" /\ press[j].do = "unlink"
               THEN missed \cup Reads ELSE missed
    /\ Answers(j, "lost")
    /\ UNCHANGED <<joined, place, section, overlays, listed, selected, counted, unread, events>>

\* Another tab, or the check of what has just entered the archive.
JoinedElsewhere(p, to) ==
    /\ joined[p] # to /\ Click
    /\ joined' = [joined EXCEPT ![p] = to] /\ missed' = Reads
    /\ UNCHANGED <<place, section, overlays, listed, selected, counted, press, unread>>

----------------------------------------------------------------------------
LinkScreenInit ==
    /\ joined \in [Linkable -> {"proposed", "linked"}]
    /\ here = "proposed" /\ towards = None /\ header = None
    /\ links = Closed /\ shown = {} /\ ticked = FALSE /\ drawing = None /\ overlays = {}
    /\ listed = Opening /\ selected = {} /\ counted = Opening
    /\ press = [j \in Presses |-> None]
    /\ missed = {} /\ unread = {}

LinkScreenNext ==
    \/ \E to \in Pages : OpenPage(to)
    \/ \E p \in Linkable : \E to \in p : Follow(p, to)
    \/ OpenProposed \/ ShowPage
    \/ ReadLinks \/ ShowLinks \/ Draw
    \/ \E o \in Pages : Tick(o)
    \/ ReadListed \/ ShowListed \/ ReadCount \/ ShowCount
    \/ \E pairs \in SUBSET Linkable : SelectPairs(pairs)
    \/ \E j \in Presses :
         \/ \E o \in Pages : RemoveRow(j, o)
         \/ \E do \in {"confirm", "dismiss"} :
              \/ \E others \in SUBSET Pages : SettleRows(j, do, others)
              \/ SettleSelected(j, do)
         \/ LookForLinks(j)
         \/ HearBack(j) \/ Carry(j) \/ TurnDown(j) \/ CutOff(j)
    \/ \E p \in Linkable, to \in {None, "proposed"} : JoinedElsewhere(p, to)

----------------------------------------------------------------------------
\* Properties.

NoneUnderWay == \A j \in Presses : press[j] = None \/ ~press[j].heard

\* Once all is read, the map draws the page's own links, those that are
\* ticked: "an item whose link is removed leaves the map too" (shown.rs), and
\* what another page of the same scope drew is gone.
MapFollowsLinks ==
    (Listable /\ Settled(links) /\ drawing = None /\ NoneUnderWay) =>
        /\ overlays \cup unread = Ticked(LinkRows, shown)
        /\ "links" \notin missed => LinkRows = LinksOf(here)

\* "So the navigation's count is read again": once the reads are answered,
\* the count and the list are what the archive proposes, but for changes
\* neither this screen made nor was told of.
ProposalsAreCurrent ==
    NoneUnderWay =>
        /\ (Settled(counted) /\ "count" \notin missed) => counted.read = Cardinality(Proposed)
        /\ (here = "proposed" /\ Settled(listed) /\ "listed" \notin missed) => listed.read = Proposed

----------------------------------------------------------------------------
(* Strengthening for the proofs.                                           *)

LinkScreenTypes ==
    /\ joined \in [Linkable -> {None, "proposed", "linked"}]
    /\ here \in Pages \cup {"proposed"} /\ {towards, header} \subseteq Pages \cup {None}
    /\ links \in Reading(LinkLists) /\ listed \in Reading(SUBSET Linkable)
    /\ counted \in Reading(Nat)
    /\ shown \subseteq Pages /\ ticked \in BOOLEAN /\ drawing \in (SUBSET Pages) \cup {None}
    /\ overlays \subseteq Pages /\ unread \subseteq Pages
    /\ selected \subseteq Linkable /\ press \in [Presses -> Request \cup {None}]
    /\ missed \subseteq Reads

\* An answer that will have everything read again.
TellsOf(j) ==
    /\ press[j] # None /\ press[j].heard /\ press[j].answer # None
    /\ press[j].do = "unlink" => press[j].answer = "ok"
Due == \E j \in Presses : TellsOf(j)

\* A read is current, or about to be made anew, or was told of no change.
UpToDate(what, resource, value) ==
    Due \/ what \in missed \/ resource.asked \/ Latest(resource) = value

CountCurrent == UpToDate("count", counted, Cardinality(Proposed))
ListCurrent == here = "proposed" => UpToDate("listed", listed, Proposed)
LinksCurrent == Listable => UpToDate("links", links, LinksOf(here))
\* The map is, or will be, drawn from what is ticked.
DrawsTicked ==
    Listable => (IF drawing = None THEN overlays \cup unread ELSE drawing) = Ticked(LinkRows, shown)

LinkScreenInductive ==
    LinkScreenTypes /\ CountCurrent /\ ListCurrent /\ LinksCurrent /\ DrawsTicked
=============================================================================
