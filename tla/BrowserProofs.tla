---------------------------- MODULE BrowserProofs ----------------------------
(***************************************************************************)
(* Proofs about the screens in Browser, for any pages, trips, items and    *)
(* handlers.                                                               *)
(***************************************************************************)
EXTENDS Browser, TLAPS, FiniteSetTheorems, SequenceTheorems

-----------------------------------------------------------------------------
(* The links' screens.                                                     *)

\* None stands for nothing these screens read or send.
LEMMA NoneApart ==
    /\ None \notin Pages /\ None \notin Request /\ None # "proposed" /\ None # "linked"
    /\ None # "ok" /\ None # "refused" /\ None # "lost" /\ None \notin Nat
    /\ \A S \in SUBSET Pages : S # None
    /\ \A S \in SUBSET Linkable : S # None
    /\ \A S \in LinkLists : S # None
BY LinkScreenAssumption

\* What the archive answers with has its type.
LEMMA AnswersTyped ==
    ASSUME joined \in [Linkable -> {None, "proposed", "linked"}]
    PROVE  /\ Proposed \in SUBSET Linkable /\ Cardinality(Proposed) \in Nat
           /\ \A e : LinksOf(e) \in LinkLists
           /\ <<>> \in LinkLists
<1>1. Proposed \subseteq Linkable
  BY DEF Proposed
<1>2. IsFiniteSet(Linkable)
  BY LinkScreenAssumption
<1>3. Cardinality(Proposed) \in Nat
  BY <1>1, <1>2, FS_Subset, FS_CardinalityType
<1>4. ASSUME NEW e PROVE LinksOf(e) \in LinkLists
  <2> DEFINE S == {o \in Pages : {e, o} \in Linkable /\ joined[{e, o}] # None}
  <2>1. \A o \in S : joined[{e, o}] \in {"proposed", "linked"}
    OBVIOUS
  <2>2. [o \in S |-> joined[{e, o}]] \in [S -> {"proposed", "linked"}]
    BY <2>1
  <2>3. S \in SUBSET Pages
    OBVIOUS
  <2>4. LinksOf(e) = [o \in S |-> joined[{e, o}]]
    BY DEF LinksOf
  <2> QED BY <2>2, <2>3, <2>4 DEF LinkLists
<1>5. <<>> \in LinkLists
  <2>1. <<>> \in Seq({"proposed", "linked"}) /\ Len(<<>>) = 0
    OBVIOUS
  <2>2. DOMAIN <<>> = {}
    BY <2>1
  <2>3. <<>> \in [{} -> {"proposed", "linked"}]
    BY <2>1
  <2>4. {} \in SUBSET Pages
    OBVIOUS
  <2> QED BY <2>3, <2>4 DEF LinkLists
<1> QED BY <1>1, <1>3, <1>4, <1>5

\* What the section lists, and draws, are ends.
LEMMA RowsTyped ==
    ASSUME LinkScreenTypes
    PROVE  /\ LinkRows \in LinkLists /\ DOMAIN LinkRows \subseteq Pages
           /\ Ticked(LinkRows, shown) \in SUBSET Pages
           /\ Settleable \in SUBSET Pages
<1>1. links.read \in LinkLists \cup {None}
  BY DEF LinkScreenTypes, Reading
<1>2. <<>> \in LinkLists
  BY AnswersTyped DEF LinkScreenTypes
<1>3. LinkRows \in LinkLists
  BY <1>1, <1>2 DEF LinkRows
<1>4. DOMAIN LinkRows \subseteq Pages
  BY <1>3 DEF LinkLists
<1> QED BY <1>3, <1>4 DEF Ticked, Settleable

\* A page that is mounted reads its links, or waits for its own read.
LEMMA SectionTyped ==
    ASSUME NEW to \in Pages \cup {"proposed"}, NEW read \in Pages \cup {None}, Section(to, read)
    PROVE  /\ header' \in Pages \cup {None} /\ links' \in Reading(LinkLists)
           /\ shown' \subseteq Pages /\ ticked' \in BOOLEAN
           /\ drawing' \in (SUBSET Pages) \cup {None}
BY DEF Section, Reading, Closed, Opening

LEMMA ScreenTyped ==
    ASSUME LinkScreenTypes, NewScreen
    PROVE  /\ counted' \in Reading(Nat) /\ missed' \subseteq Reads
           /\ press' \in [Presses -> Request \cup {None}]
<1>1. counted' \in Reading(Nat)
  BY DEF LinkScreenTypes, NewScreen, Again, Reading
<1>2. missed' \subseteq Reads
  BY DEF LinkScreenTypes, NewScreen, Unheard
<1>3. \A j \in Presses : press[j] # None => [press[j] EXCEPT !.heard = FALSE] \in Request
  <2> TAKE j \in Presses
  <2> HAVE press[j] # None
  <2>1. PICK p \in Request : press[j] = p
    BY DEF LinkScreenTypes
  <2>2. [p EXCEPT !.heard = FALSE] \in Request
    BY <2>1 DEF Request
  <2> QED BY <2>1, <2>2
<1>4. press' \in [Presses -> Request \cup {None}]
  BY <1>3 DEF NewScreen, LeftBehind, LinkScreenTypes
<1> QED BY <1>1, <1>2, <1>4

\* With a new screen the count is asked for; no one is told twice.
LEMMA ScreenCounts ==
    ASSUME LinkScreenTypes, NewScreen
    PROVE  CountCurrent'
BY DEF LinkScreenTypes, NewScreen, CountCurrent, UpToDate, Again, Reading

\* A section as it is mounted reads its links and draws nothing.
LEMMA SectionStarts ==
    ASSUME NEW to \in Pages \cup {"proposed"}, NEW read \in Pages \cup {None}, Section(to, read), here' = to
    PROVE  LinksCurrent' /\ DrawsTicked'
<1>1. CASE to = read
  <2>1. /\ links' = [read |-> None, asked |-> TRUE, answer |-> None] /\ drawing' = {} /\ shown' = {}
    BY <1>1 DEF Section, Opening, Closed
  <2>2. LinksCurrent'
    BY <2>1 DEF LinksCurrent, UpToDate
  <2>3. DrawsTicked'
    BY <2>1, NoneApart DEF DrawsTicked, Ticked
  <2> QED BY <2>2, <2>3
<1>2. CASE to # read
  BY <1>2 DEF Section, Listable, LinksCurrent, DrawsTicked
<1> QED BY <1>1, <1>2

\* What holds of reads and drawings depends on nothing else.
LEMMA StillCurrent ==
    ASSUME UNCHANGED <<joined, here, missed>>, Due => Due'
    PROVE  /\ CountCurrent /\ counted' = counted => CountCurrent'
           /\ ListCurrent /\ listed' = listed => ListCurrent'
           /\ LinksCurrent /\ links' = links /\ header' = header => LinksCurrent'
BY DEF CountCurrent, ListCurrent, LinksCurrent, UpToDate, Listable, Proposed, LinksOf

LEMMA StillDrawn ==
    ASSUME DrawsTicked, UNCHANGED <<place, links, shown, drawing, overlays, unread>>
    PROVE  DrawsTicked'
BY DEF DrawsTicked, place, Listable, LinkRows, Ticked

\* A click that only asks.
LEMMA AskKeeps ==
    ASSUME LinkScreenInductive, NEW j \in Presses,
           NEW do \in {"unlink", "confirm", "dismiss", "check"},
           NEW pairs \in SUBSET SUBSET (Pages \cup {"proposed"}), Ask(j, do, pairs),
           UNCHANGED <<joined, place, section, overlays, listed, selected, counted, missed, unread>>
    PROVE  LinkScreenInductive'
<1>1. /\ UNCHANGED <<joined, here, towards, header, links, shown, ticked, drawing, overlays>>
      /\ UNCHANGED <<listed, selected, counted, missed, unread>>
  BY DEF place, section
<1> DEFINE asked == [do |-> do, pairs |-> pairs, heard |-> TRUE, answer |-> None]
<1>2. asked \in Request /\ press' = [press EXCEPT ![j] = asked] /\ press[j] = None
  BY DEF Request, Ask
<1>3. LinkScreenTypes'
  BY <1>1, <1>2 DEF LinkScreenInductive, LinkScreenTypes
<1>4. Due => Due'
  <2>1. ASSUME NEW i \in Presses, TellsOf(i) PROVE TellsOf(i)'
    <3>1. i # j
      BY <1>2, <2>1 DEF TellsOf
    <3> QED BY <1>2, <2>1, <3>1 DEF TellsOf, LinkScreenInductive, LinkScreenTypes
  <2> QED BY <2>1 DEF Due
<1> QED BY <1>1, <1>3, <1>4, StillCurrent, StillDrawn DEF LinkScreenInductive, place

LEMMA AsksKeep ==
    ASSUME LinkScreenInductive, NEW j \in Presses,
           \/ \E o \in Pages : RemoveRow(j, o)
           \/ \E do \in {"confirm", "dismiss"} :
                \/ \E others \in SUBSET Pages : SettleRows(j, do, others)
                \/ SettleSelected(j, do)
           \/ LookForLinks(j)
    PROVE  LinkScreenInductive'
<1>1. here \in Pages \cup {"proposed"}
  BY DEF LinkScreenInductive, LinkScreenTypes
<1>2. CASE \E o \in Pages : RemoveRow(j, o)
  BY <1>1, <1>2, AskKeeps DEF RemoveRow
<1>3. ASSUME NEW do \in {"confirm", "dismiss"}, NEW others \in SUBSET Pages, SettleRows(j, do, others)
      PROVE  LinkScreenInductive'
  <2>1. {{here, o} : o \in others} \in SUBSET SUBSET (Pages \cup {"proposed"})
    BY <1>1
  <2> QED BY <1>3, <2>1, AskKeeps DEF SettleRows
<1>4. ASSUME NEW do \in {"confirm", "dismiss"}, SettleSelected(j, do)
      PROVE  LinkScreenInductive'
  <2>1. selected \in SUBSET SUBSET (Pages \cup {"proposed"})
    BY LinkScreenAssumption DEF LinkScreenInductive, LinkScreenTypes
  <2> QED BY <1>4, <2>1, AskKeeps DEF SettleSelected
<1>5. CASE LookForLinks(j)
  <2>1. {p \in Linkable : here \in p} \in SUBSET SUBSET (Pages \cup {"proposed"})
    BY LinkScreenAssumption
  <2> QED BY <1>5, <2>1, AskKeeps DEF LookForLinks
<1> QED BY <1>2, <1>3, <1>4, <1>5

LEMMA PagesKeep ==
    ASSUME LinkScreenInductive,
           \/ \E to \in Pages : OpenPage(to)
           \/ \E p \in Linkable : \E to \in p : Follow(p, to)
           \/ OpenProposed
    PROVE  LinkScreenInductive'
<1>1. LinkScreenTypes
  BY DEF LinkScreenInductive
<1>2. Closed \in Reading(SUBSET Linkable) /\ Opening \in Reading(SUBSET Linkable)
  BY DEF Closed, Opening, Reading
<1>3. ASSUME NEW to \in Pages, OpenPage(to) PROVE LinkScreenInductive'
  <2>1. PICK read \in Pages \cup {None} : Section(to, read)
    BY <1>1, <1>3 DEF OpenPage, LinkScreenTypes
  <2>2. here' = to /\ NewScreen
    BY <1>3 DEF OpenPage
  <2>3. LinkScreenTypes'
    BY <1>1, <1>2, <1>3, <2>1, <2>2, SectionTyped, ScreenTyped DEF OpenPage, LinkScreenTypes
  <2>4. ListCurrent'
    BY <2>2, LinkScreenAssumption DEF ListCurrent
  <2> QED BY <1>1, <2>1, <2>2, <2>3, <2>4, ScreenCounts, SectionStarts DEF LinkScreenInductive
<1>4. ASSUME NEW p \in Linkable, NEW to \in p, Follow(p, to) PROVE LinkScreenInductive'
  <2>1. to \in Pages /\ p \subseteq Pages /\ Cardinality(p) = 2
    BY LinkScreenAssumption
  <2>2. towards' \in Pages
    <3>1. p # {to}
      BY <2>1, FS_Singleton
    <3>2. \E o \in p \ {to} : TRUE
      BY <3>1
    <3> QED BY <1>4, <2>1, <3>2 DEF Follow
  <2>3. here' = to /\ NewScreen /\ Section(to, None)
    BY <1>4 DEF Follow
  <2>4. LinkScreenTypes'
    BY <1>1, <1>2, <1>4, <2>1, <2>2, <2>3, SectionTyped, ScreenTyped DEF Follow, LinkScreenTypes
  <2>5. ListCurrent'
    BY <2>1, <2>3, LinkScreenAssumption DEF ListCurrent
  <2> QED BY <1>1, <2>1, <2>3, <2>4, <2>5, ScreenCounts, SectionStarts DEF LinkScreenInductive
<1>5. CASE OpenProposed
  <2>1. here' = "proposed" /\ NewScreen /\ Section("proposed", None)
    BY <1>5 DEF OpenProposed
  <2>2. LinkScreenTypes'
    BY <1>1, <1>2, <1>5, <2>1, SectionTyped, ScreenTyped DEF OpenProposed, LinkScreenTypes
  <2>3. ListCurrent'
    BY <1>5 DEF OpenProposed, ListCurrent, UpToDate, Opening, Closed
  <2> QED BY <1>1, <2>1, <2>2, <2>3, ScreenCounts, SectionStarts DEF LinkScreenInductive
<1> QED BY <1>3, <1>4, <1>5

LEMMA ShowPageKeeps ==
    ASSUME LinkScreenInductive, ShowPage
    PROVE  LinkScreenInductive'
<1>1. /\ here \in Pages /\ Section(here, here) /\ here' = here
      /\ UNCHANGED <<joined, towards, overlays, listed, selected, counted, press, missed, unread>>
  BY DEF LinkScreenInductive, LinkScreenTypes, ShowPage
<1>2. LinkScreenTypes'
  BY <1>1, SectionTyped DEF LinkScreenInductive, LinkScreenTypes
<1>3. Due => Due'
  BY <1>1 DEF Due, TellsOf
<1> QED BY <1>1, <1>2, <1>3, StillCurrent, SectionStarts DEF LinkScreenInductive

-----------------------------------------------------------------------------
(* Reads and what is shown of them.                                        *)

LEMMA ReadsKeep ==
    ASSUME LinkScreenInductive, ReadLinks \/ ReadListed \/ ReadCount
    PROVE  LinkScreenInductive'
<1>1. /\ Proposed \in SUBSET Linkable /\ Cardinality(Proposed) \in Nat
      /\ LinksOf(here) \in LinkLists /\ <<>> \in LinkLists
  BY AnswersTyped DEF LinkScreenInductive, LinkScreenTypes
<1>2. CASE ReadLinks
  <2>1. PICK found \in {LinksOf(here), <<>>} :
          /\ links' = [links EXCEPT !.asked = FALSE, !.answer = found]
          /\ missed' = IF found = LinksOf(here) THEN missed \ {"links"} ELSE missed \cup {"links"}
    BY <1>2 DEF ReadLinks
  <2>2. /\ UNCHANGED <<joined, here, towards, header, shown, ticked, drawing, overlays>>
        /\ UNCHANGED <<listed, selected, counted, press, unread>>
    BY <1>2 DEF ReadLinks, place
  <2>3. found \in LinkLists /\ found # None /\ links'.answer = found /\ links'.read = links.read
    BY <1>1, <2>1, NoneApart DEF LinkScreenInductive, LinkScreenTypes, Reading
  <2>4. LinkScreenTypes'
    BY <2>1, <2>2, <2>3 DEF LinkScreenInductive, LinkScreenTypes, Reading, Reads
  <2>5. Due <=> Due'
    BY <2>2 DEF Due, TellsOf
  <2>6. CountCurrent' /\ ListCurrent'
    BY <2>1, <2>2, <2>5 DEF LinkScreenInductive, CountCurrent, ListCurrent, UpToDate, Proposed
  <2>7. LinksCurrent'
    BY <2>1, <2>2, <2>3 DEF LinksCurrent, UpToDate, Latest, LinksOf
  <2>8. DrawsTicked'
    BY <2>2, <2>3 DEF LinkScreenInductive, DrawsTicked, Listable, LinkRows, Ticked
  <2> QED BY <2>4, <2>6, <2>7, <2>8 DEF LinkScreenInductive
<1>3. CASE ReadListed
  <2>1. /\ UNCHANGED <<joined, here, towards, header, links, shown, ticked, drawing, overlays>>
        /\ UNCHANGED <<selected, counted, press, unread>>
        /\ missed \ {"listed"} \subseteq missed' /\ missed' \subseteq missed \cup {"listed"}
    BY <1>3 DEF ReadListed, place, section
  <2>2. \/ /\ listed' = [listed EXCEPT !.asked = FALSE, !.answer = Proposed]
           /\ listed'.answer = Proposed /\ Proposed # None
        \/ listed' = [listed EXCEPT !.asked = FALSE, !.read = {}] /\ "listed" \in missed'
    BY <1>1, <1>3, NoneApart DEF ReadListed, LinkScreenInductive, LinkScreenTypes, Reading
  <2>3. LinkScreenTypes'
    <3>1. listed' \in Reading(SUBSET Linkable) /\ missed' \in SUBSET Reads
      BY <1>1, <2>1, <2>2 DEF LinkScreenInductive, LinkScreenTypes, Reading, Reads
    <3> QED BY <2>1, <3>1 DEF LinkScreenInductive, LinkScreenTypes
  <2>4. Due <=> Due'
    BY <2>1 DEF Due, TellsOf
  <2>5. CountCurrent' /\ LinksCurrent'
    BY <2>1, <2>4 DEF LinkScreenInductive, CountCurrent, LinksCurrent, UpToDate, Proposed, LinksOf, Listable
  <2>6. ListCurrent'
    BY <2>1, <2>2 DEF ListCurrent, UpToDate, Latest, Proposed
  <2>7. DrawsTicked'
    BY <2>1, StillDrawn DEF LinkScreenInductive, place
  <2> QED BY <2>3, <2>5, <2>6, <2>7 DEF LinkScreenInductive
<1>4. CASE ReadCount
  <2>1. /\ UNCHANGED <<joined, here, towards, header, links, shown, ticked, drawing, overlays>>
        /\ UNCHANGED <<selected, listed, press, unread>>
        /\ missed \ {"count"} \subseteq missed' /\ missed' \subseteq missed \cup {"count"}
    BY <1>4 DEF ReadCount, place, section
  <2>2. \/ /\ counted' = [counted EXCEPT !.asked = FALSE, !.answer = Cardinality(Proposed)]
           /\ counted'.answer = Cardinality(Proposed) /\ Cardinality(Proposed) # None
        \/ counted' = [counted EXCEPT !.asked = FALSE, !.read = None] /\ "count" \in missed'
    BY <1>1, <1>4, NoneApart DEF ReadCount, LinkScreenInductive, LinkScreenTypes, Reading
  <2>3. LinkScreenTypes'
    <3>1. counted' \in Reading(Nat) /\ missed' \in SUBSET Reads
      BY <1>1, <2>1, <2>2 DEF LinkScreenInductive, LinkScreenTypes, Reading, Reads
    <3> QED BY <2>1, <3>1 DEF LinkScreenInductive, LinkScreenTypes
  <2>4. Due <=> Due'
    BY <2>1 DEF Due, TellsOf
  <2>5. ListCurrent' /\ LinksCurrent'
    BY <2>1, <2>4 DEF LinkScreenInductive, ListCurrent, LinksCurrent, UpToDate, Proposed, LinksOf, Listable
  <2>6. CountCurrent'
    BY <2>1, <2>2 DEF CountCurrent, UpToDate, Latest, Proposed
  <2>7. DrawsTicked'
    BY <2>1, StillDrawn DEF LinkScreenInductive, place
  <2> QED BY <2>3, <2>5, <2>6, <2>7 DEF LinkScreenInductive
<1> QED BY <1>2, <1>3, <1>4

LEMMA ShowsKeep ==
    ASSUME LinkScreenInductive,
           \/ ShowListed \/ ShowCount
           \/ \E pairs \in SUBSET Linkable : SelectPairs(pairs)
    PROVE  LinkScreenInductive'
<1>1. /\ UNCHANGED <<joined, here, towards, header, links, shown, ticked, drawing, overlays>>
      /\ UNCHANGED <<press, unread, missed>>
  BY DEF ShowListed, ShowCount, SelectPairs, place, section
<1>2. Due => Due'
  BY <1>1 DEF Due, TellsOf
<1>3. LinksCurrent' /\ DrawsTicked'
  BY <1>1, <1>2, StillCurrent, StillDrawn DEF LinkScreenInductive, place
<1>4. CASE ShowListed
  <2>1. /\ listed.answer # None /\ listed' = [listed EXCEPT !.read = listed.answer, !.answer = None]
        /\ UNCHANGED <<selected, counted>>
    BY <1>4 DEF ShowListed
  <2>2. /\ LinkScreenTypes' /\ listed'.read = listed.answer /\ listed'.answer = None
        /\ listed'.asked = listed.asked
    BY <1>1, <2>1 DEF LinkScreenInductive, LinkScreenTypes, Reading
  <2>3. ListCurrent'
    BY <1>1, <1>2, <2>1, <2>2 DEF LinkScreenInductive, ListCurrent, UpToDate, Latest, Proposed
  <2> QED BY <1>1, <1>2, <1>3, <2>1, <2>2, <2>3, StillCurrent DEF LinkScreenInductive
<1>5. CASE ShowCount
  <2>1. /\ counted.answer # None
        /\ counted' = [counted EXCEPT !.read = counted.answer, !.answer = None]
        /\ UNCHANGED <<selected, listed>>
    BY <1>5 DEF ShowCount
  <2>2. /\ LinkScreenTypes' /\ counted'.read = counted.answer /\ counted'.answer = None
        /\ counted'.asked = counted.asked
    BY <1>1, <2>1 DEF LinkScreenInductive, LinkScreenTypes, Reading
  <2>3. CountCurrent'
    BY <1>1, <1>2, <2>1, <2>2 DEF LinkScreenInductive, CountCurrent, UpToDate, Latest, Proposed
  <2> QED BY <1>1, <1>2, <1>3, <2>1, <2>2, <2>3, StillCurrent DEF LinkScreenInductive
<1>6. ASSUME NEW pairs \in SUBSET Linkable, SelectPairs(pairs) PROVE LinkScreenInductive'
  <2>1. selected' \subseteq Linkable /\ UNCHANGED <<listed, counted>>
    BY <1>6 DEF SelectPairs, LinkScreenInductive, LinkScreenTypes
  <2>2. LinkScreenTypes'
    BY <1>1, <2>1 DEF LinkScreenInductive, LinkScreenTypes
  <2> QED BY <1>1, <1>2, <1>3, <2>1, <2>2, StillCurrent DEF LinkScreenInductive
<1> QED BY <1>4, <1>5, <1>6

LEMMA ShowLinksKeeps ==
    ASSUME LinkScreenInductive, ShowLinks
    PROVE  LinkScreenInductive'
<1>1. /\ UNCHANGED <<joined, here, towards, header, overlays, listed, selected, counted>>
      /\ UNCHANGED <<press, missed, unread>> /\ links.answer # None
      /\ links' = [links EXCEPT !.read = links.answer, !.answer = None]
      /\ drawing' = Ticked(links.answer, shown')
  BY DEF ShowLinks, place, DrawnAfter
<1>2. PICK found \in LinkLists : links.answer = found
  BY <1>1 DEF LinkScreenInductive, LinkScreenTypes, Reading
<1>3. DOMAIN links.answer \subseteq Pages
  BY <1>2 DEF LinkLists
<1>4. shown' \subseteq Pages /\ ticked' \in BOOLEAN
  BY <1>3 DEF ShowLinks, LinkScreenInductive, LinkScreenTypes
<1>5. drawing' \in SUBSET Pages /\ drawing' # None
  BY <1>1, <1>3, NoneApart DEF Ticked
<1>6. /\ LinkScreenTypes' /\ links'.read = links.answer /\ links'.answer = None
      /\ links'.asked = links.asked
  BY <1>1, <1>2, <1>4, <1>5 DEF LinkScreenInductive, LinkScreenTypes, Reading
<1>7. Due => Due'
  BY <1>1 DEF Due, TellsOf
<1>8. LinksCurrent'
  BY <1>1, <1>6, <1>7 DEF LinkScreenInductive, LinksCurrent, UpToDate, Latest, LinksOf, Listable
<1>9. DrawsTicked'
  BY <1>1, <1>5, <1>6 DEF DrawsTicked, LinkRows, Ticked
<1> QED BY <1>1, <1>6, <1>7, <1>8, <1>9, StillCurrent DEF LinkScreenInductive

LEMMA TicksKeep ==
    ASSUME LinkScreenInductive, Draw \/ \E o \in Pages : Tick(o)
    PROVE  LinkScreenInductive'
<1>1. /\ UNCHANGED <<joined, here, towards, header, links, ticked, listed, selected, counted>>
      /\ UNCHANGED <<press, missed>>
  BY DEF Draw, Tick, place
<1>2. Due => Due'
  BY <1>1 DEF Due, TellsOf
<1>3. CountCurrent' /\ ListCurrent' /\ LinksCurrent'
  BY <1>1, <1>2, StillCurrent DEF LinkScreenInductive
<1>4. CASE Draw
  <2>1. PICK failed \in SUBSET drawing : overlays' = drawing \ failed /\ unread' = failed
    BY <1>4 DEF Draw
  <2>2. drawing # None /\ drawing' = None /\ shown' = shown /\ drawing \subseteq Pages
    BY <1>4 DEF Draw, LinkScreenInductive, LinkScreenTypes
  <2>3. LinkScreenTypes'
    BY <1>1, <2>1, <2>2 DEF LinkScreenInductive, LinkScreenTypes
  <2>4. (overlays \cup unread)' = drawing
    BY <2>1
  <2>5. DrawsTicked'
    BY <1>1, <2>2, <2>4 DEF LinkScreenInductive, DrawsTicked, Listable, LinkRows, Ticked
  <2> QED BY <1>3, <2>3, <2>5 DEF LinkScreenInductive
<1>5. ASSUME NEW o \in Pages, Tick(o) PROVE LinkScreenInductive'
  <2>1. /\ shown' \subseteq Pages /\ drawing' = Ticked(LinkRows, shown')
        /\ UNCHANGED <<overlays, unread>>
    BY <1>5 DEF Tick, LinkScreenInductive, LinkScreenTypes
  <2>2. DOMAIN LinkRows \subseteq Pages
    BY RowsTyped DEF LinkScreenInductive
  <2>3. drawing' \in SUBSET Pages /\ drawing' # None
    BY <2>1, <2>2, NoneApart DEF Ticked
  <2>4. LinkScreenTypes'
    BY <1>1, <2>1, <2>3 DEF LinkScreenInductive, LinkScreenTypes
  <2>5. DrawsTicked'
    BY <1>1, <2>1, <2>3 DEF DrawsTicked, LinkRows, Ticked
  <2> QED BY <1>3, <2>4, <2>5 DEF LinkScreenInductive
<1> QED BY <1>4, <1>5

-----------------------------------------------------------------------------
(* Answers, and what the archive makes of requests.                        *)

\* An answer heard: what it tells of is asked for again.
LEMMA HearBackKeeps ==
    ASSUME LinkScreenInductive, NEW j \in Presses, HearBack(j)
    PROVE  LinkScreenInductive'
<1>1. /\ UNCHANGED <<joined, here, towards, header, shown, ticked, drawing, overlays>>
      /\ UNCHANGED <<missed, unread>> /\ press' = [press EXCEPT ![j] = None]
      /\ press[j] # None /\ press[j].heard /\ press[j].answer # None
      /\ BumpAfter(j)
  BY DEF HearBack, place
<1>2. selected' \subseteq Linkable
  BY DEF HearBack, LinkScreenInductive, LinkScreenTypes
<1>3. CASE press[j].do = "unlink" /\ press[j].answer # "ok"
  <2>1. UNCHANGED <<counted, links, listed>>
    BY <1>1, <1>3 DEF BumpAfter
  <2>2. LinkScreenTypes'
    BY <1>1, <1>2, <2>1 DEF LinkScreenInductive, LinkScreenTypes
  <2>3. Due => Due'
    <3>1. ASSUME NEW i \in Presses, TellsOf(i) PROVE TellsOf(i)'
      <4>1. i # j
        BY <1>3, <3>1 DEF TellsOf
      <4> QED BY <1>1, <3>1, <4>1 DEF TellsOf, LinkScreenInductive, LinkScreenTypes
    <3> QED BY <3>1 DEF Due
  <2> QED BY <1>1, <2>1, <2>2, <2>3, StillCurrent, StillDrawn DEF LinkScreenInductive, place
<1>4. CASE ~(press[j].do = "unlink" /\ press[j].answer # "ok")
  <2>1. /\ counted' = Again(counted)
        /\ links' = IF Listable THEN Again(links) ELSE links
        /\ listed' = IF here = "proposed" THEN Again(listed) ELSE listed
    BY <1>1, <1>4 DEF BumpAfter, Bump
  <2>2. /\ counted' \in Reading(Nat) /\ counted'.asked
        /\ links' \in Reading(LinkLists) /\ links'.read = links.read
        /\ Listable => links'.asked
        /\ listed' \in Reading(SUBSET Linkable) /\ (here = "proposed" => listed'.asked)
    BY <2>1 DEF LinkScreenInductive, LinkScreenTypes, Again, Reading
  <2>3. LinkScreenTypes'
    BY <1>1, <1>2, <2>2 DEF LinkScreenInductive, LinkScreenTypes
  <2>4. CountCurrent' /\ ListCurrent' /\ LinksCurrent'
    BY <1>1, <2>2 DEF CountCurrent, ListCurrent, LinksCurrent, UpToDate, Listable
  <2>5. DrawsTicked'
    BY <1>1, <2>2 DEF LinkScreenInductive, DrawsTicked, Listable, LinkRows, Ticked
  <2> QED BY <2>3, <2>4, <2>5 DEF LinkScreenInductive
<1> QED BY <1>3, <1>4

\* What an answer makes of the request it is to.
LEMMA AnswerTyped ==
    ASSUME LinkScreenTypes, NEW j \in Presses, press[j] # None,
           NEW how \in {"ok", "refused", "lost"}, Answers(j, how)
    PROVE  /\ press' \in [Presses -> Request \cup {None}]
           /\ \A i \in Presses : i # j => press'[i] = press[i]
           /\ press[j].heard => /\ press'[j] # None /\ press'[j].heard
                                /\ press'[j].answer = how /\ press'[j].do = press[j].do
           /\ ~press[j].heard => press'[j] = None
<1>1. PICK p \in Request : press[j] = p
  BY DEF LinkScreenTypes
<1> DEFINE q == [p EXCEPT !.answer = how]
<1>2. q \in Request /\ q # None /\ q.heard = p.heard /\ q.answer = how /\ q.do = p.do
  BY NoneApart DEF Request
<1>3. press' = [press EXCEPT ![j] = IF p.heard THEN q ELSE None]
  BY <1>1 DEF Answers
<1> HIDE DEF q
<1> QED BY <1>1, <1>2, <1>3 DEF LinkScreenTypes

LEMMA CarryKeeps ==
    ASSUME LinkScreenInductive, NEW j \in Presses, Carry(j)
    PROVE  LinkScreenInductive'
<1>1. /\ UNCHANGED <<here, towards, header, links, shown, ticked, drawing, overlays>>
      /\ UNCHANGED <<listed, selected, counted, unread>>
      /\ press[j] # None /\ press[j].answer = None /\ Answers(j, "ok") /\ ToldOf(j)
  BY DEF Carry, place, section
<1>2. joined' \in [Linkable -> {None, "proposed", "linked"}]
  <2>1. /\ joined \in [Linkable -> {None, "proposed", "linked"}]
        /\ press[j].do \in {"unlink", "confirm", "dismiss", "check"}
    BY <1>1 DEF LinkScreenInductive, LinkScreenTypes, Request
  <2>2. CASE press[j].do = "unlink"
    BY <2>1, <2>2 DEF Carry
  <2>3. CASE press[j].do \in {"confirm", "dismiss"}
    BY <2>1, <2>3 DEF Carry
  <2>4. CASE press[j].do = "check"
    BY <2>1, <2>4 DEF Carry
  <2> QED BY <2>1, <2>2, <2>3, <2>4
<1>3. /\ press' \in [Presses -> Request \cup {None}]
      /\ press[j].heard => /\ press'[j] # None /\ press'[j].heard
                           /\ press'[j].answer = "ok"
  BY <1>1, AnswerTyped DEF LinkScreenInductive
<1>4. missed' \subseteq Reads /\ (press[j].heard \/ missed' = Reads)
  BY <1>1 DEF ToldOf, LinkScreenInductive, LinkScreenTypes
<1>5. LinkScreenTypes'
  BY <1>1, <1>2, <1>3, <1>4 DEF LinkScreenInductive, LinkScreenTypes
<1>6. Due' \/ missed' = Reads
  BY <1>3, <1>4, NoneApart DEF Due, TellsOf
<1>7. CountCurrent' /\ ListCurrent' /\ LinksCurrent'
  BY <1>6 DEF CountCurrent, ListCurrent, LinksCurrent, UpToDate, Reads
<1>8. DrawsTicked'
  BY <1>1, StillDrawn DEF LinkScreenInductive, place
<1> QED BY <1>5, <1>7, <1>8 DEF LinkScreenInductive

LEMMA FailuresKeep ==
    ASSUME LinkScreenInductive, NEW j \in Presses, TurnDown(j) \/ CutOff(j)
    PROVE  LinkScreenInductive'
<1>1. /\ UNCHANGED <<joined, here, towards, header, links, shown, ticked, drawing, overlays>>
      /\ UNCHANGED <<listed, selected, counted, unread>> /\ press[j] # None
  BY DEF TurnDown, CutOff, place, section
<1>2. PICK how \in {"refused", "lost"} : Answers(j, how)
  BY DEF TurnDown, CutOff
<1>3. /\ press' \in [Presses -> Request \cup {None}]
      /\ \A i \in Presses : i # j => press'[i] = press[i]
      /\ press[j].heard => /\ press'[j] # None /\ press'[j].heard
                           /\ press'[j].answer = how /\ press'[j].do = press[j].do
  BY <1>1, <1>2, AnswerTyped DEF LinkScreenInductive
<1>4. missed' = missed \/ missed' = Reads
  BY DEF TurnDown, CutOff, LinkScreenInductive, LinkScreenTypes
<1>5. LinkScreenTypes'
  BY <1>1, <1>3, <1>4 DEF LinkScreenInductive, LinkScreenTypes
<1>6. TellsOf(j) => TellsOf(j)' \/ missed' = Reads
  <2> SUFFICES ASSUME TellsOf(j) PROVE TellsOf(j)' \/ missed' = Reads
    OBVIOUS
  <2>1. press[j].heard /\ press[j].answer # None /\ CutOff(j)
    BY DEF TellsOf, TurnDown
  <2>2. CASE press[j].answer = "ok" /\ press[j].do = "unlink"
    BY <2>1, <2>2 DEF CutOff, LinkScreenInductive, LinkScreenTypes
  <2>3. CASE ~(press[j].answer = "ok" /\ press[j].do = "unlink")
    BY <1>3, <2>1, <2>3, NoneApart DEF TellsOf
  <2> QED BY <2>2, <2>3
<1>7. Due => Due' \/ missed' = Reads
  <2>1. ASSUME NEW i \in Presses, TellsOf(i), i # j PROVE TellsOf(i)'
    BY <1>3, <2>1 DEF TellsOf
  <2> QED BY <1>6, <2>1 DEF Due
<1>8. CASE missed' = Reads
  <2>1. CountCurrent' /\ ListCurrent' /\ LinksCurrent'
    BY <1>8 DEF CountCurrent, ListCurrent, LinksCurrent, UpToDate, Reads
  <2> QED BY <1>1, <1>5, <2>1, StillDrawn DEF LinkScreenInductive, place
<1>9. CASE missed' = missed /\ (Due => Due')
  BY <1>1, <1>5, <1>9, StillCurrent, StillDrawn DEF LinkScreenInductive, place
<1> QED BY <1>4, <1>7, <1>8, <1>9

LEMMA ElsewhereKeeps ==
    ASSUME LinkScreenInductive, NEW p \in Linkable, NEW to \in {None, "proposed"}, JoinedElsewhere(p, to)
    PROVE  LinkScreenInductive'
<1>1. /\ UNCHANGED <<here, towards, header, links, shown, ticked, drawing, overlays>>
      /\ UNCHANGED <<listed, selected, counted, unread, press>> /\ missed' = Reads
      /\ joined' = [joined EXCEPT ![p] = to]
  BY DEF JoinedElsewhere, place, section
<1>2. LinkScreenTypes'
  BY <1>1 DEF LinkScreenInductive, LinkScreenTypes
<1>3. CountCurrent' /\ ListCurrent' /\ LinksCurrent'
  BY <1>1 DEF CountCurrent, ListCurrent, LinksCurrent, UpToDate, Reads
<1> QED BY <1>1, <1>2, <1>3, StillDrawn DEF LinkScreenInductive, place

LEMMA LinkScreenStarts == LinkScreenInit => LinkScreenInductive
<1> SUFFICES ASSUME LinkScreenInit PROVE LinkScreenInductive
  OBVIOUS
<1>1. LinkScreenTypes
  BY DEF LinkScreenInit, LinkScreenTypes, Reading, Closed, Opening, Reads
<1>2. CountCurrent /\ ListCurrent
  BY DEF LinkScreenInit, CountCurrent, ListCurrent, UpToDate, Closed, Opening
<1>3. ~Listable
  BY NoneApart DEF LinkScreenInit, Listable
<1> QED BY <1>1, <1>2, <1>3 DEF LinkScreenInductive, LinksCurrent, DrawsTicked

LEMMA LinkScreenStays ==
    LinkScreenInductive /\ [BrowserNext]_vars => LinkScreenInductive'
<1> SUFFICES ASSUME LinkScreenInductive, [BrowserNext]_vars PROVE LinkScreenInductive'
  OBVIOUS
<1>1. CASE UNCHANGED linkage
  <2>1. /\ UNCHANGED <<joined, here, towards, header, links, shown, ticked, drawing, overlays>>
        /\ UNCHANGED <<listed, selected, counted, press, missed, unread>>
    BY <1>1 DEF linkage, place, section
  <2>2. LinkScreenTypes'
    BY <2>1 DEF LinkScreenInductive, LinkScreenTypes
  <2>3. Due => Due'
    BY <2>1 DEF Due, TellsOf
  <2> QED BY <2>1, <2>2, <2>3, StillCurrent, StillDrawn DEF LinkScreenInductive, place
<1>2. CASE LinkScreenNext
  BY <1>2, PagesKeep, ShowPageKeeps, ReadsKeep, ShowLinksKeeps, TicksKeep, ShowsKeep, AsksKeep,
     HearBackKeeps, CarryKeeps, FailuresKeep, ElsewhereKeeps DEF LinkScreenNext
<1> QED BY <1>1, <1>2 DEF BrowserNext, vars

\* What the screens show of links and proposals is right, or a read of it is
\* on its way, or the change was made where no one told of it.
THEOREM LinkScreensStaySound == BrowserSpec => []LinkScreenInductive
<1>1. BrowserInit => LinkScreenInductive
  BY LinkScreenStarts DEF BrowserInit
<1> QED BY <1>1, LinkScreenStays, PTL DEF BrowserSpec

\* shown.rs and linked.rs: the map draws the ticked links of the page shown,
\* through any pages, ticks, checks, settlings, failures and lost answers.
THEOREM MapKeepsUp == BrowserSpec => []MapFollowsLinks
<1>1. LinkScreenInductive => MapFollowsLinks
  <2> SUFFICES ASSUME LinkScreenInductive, Listable, Settled(links), drawing = None, NoneUnderWay
               PROVE  /\ overlays \cup unread = Ticked(LinkRows, shown)
                      /\ "links" \notin missed => LinkRows = LinksOf(here)
    BY DEF MapFollowsLinks
  <2>1. ~Due
    BY DEF Due, TellsOf, NoneUnderWay
  <2>2. LinksOf(here) # None
    BY AnswersTyped, NoneApart DEF LinkScreenInductive, LinkScreenTypes
  <2>3. "links" \notin missed => links.read = LinksOf(here)
    BY <2>1 DEF LinkScreenInductive, LinksCurrent, UpToDate, Settled, Latest
  <2> QED BY <2>2, <2>3 DEF LinkScreenInductive, DrawsTicked, LinkRows
<1> QED BY <1>1, LinkScreensStaySound, PTL

\* proposals.rs: the menu's count and the list of proposals are the archive's
\* once their reads are answered, whatever was settled, checked or lost.
THEOREM ProposalsKeepUp == BrowserSpec => []ProposalsAreCurrent
<1>1. LinkScreenInductive => ProposalsAreCurrent
  <2> SUFFICES ASSUME LinkScreenInductive, NoneUnderWay
               PROVE  /\ (Settled(counted) /\ "count" \notin missed) =>
                            counted.read = Cardinality(Proposed)
                      /\ (here = "proposed" /\ Settled(listed) /\ "listed" \notin missed) =>
                            listed.read = Proposed
    BY DEF ProposalsAreCurrent
  <2>1. ~Due
    BY DEF Due, TellsOf, NoneUnderWay
  <2> QED BY <2>1 DEF LinkScreenInductive, CountCurrent, ListCurrent, UpToDate, Settled, Latest
<1> QED BY <1>1, LinkScreensStaySound, PTL

-----------------------------------------------------------------------------
(* The trip screen.                                                        *)

LEMMA PrefixSelf ==
    ASSUME NEW X, NEW s \in Seq(X)
    PROVE  IsPrefix(s, s)
BY DEF IsPrefix

LEMMA PrefixGrows ==
    ASSUME NEW X, NEW s \in Seq(X), NEW t \in Seq(X), NEW x \in X, IsPrefix(s, t)
    PROVE  IsPrefix(s, Append(t, x))
<1>1. Len(s) <= Len(t) /\ Len(Append(t, x)) = Len(t) + 1 /\ Len(s) \in Nat /\ Len(t) \in Nat
  BY DEF IsPrefix
<1>2. SubSeq(Append(t, x), 1, Len(s)) = SubSeq(t, 1, Len(s))
  <2>1. Append(t, x) \in Seq(X)
    OBVIOUS
  <2>2. \A i \in 1 .. Len(s) : Append(t, x)[i] = t[i]
    BY <1>1
  <2> QED BY <1>1, <2>1, <2>2, SubSeqProperties
<1> QED BY <1>1, <1>2 DEF IsPrefix

\* Handlers keep their type as they go.
LEMMA HandlersTyped ==
    ASSUME NEW h \in Handler
    PROVE  /\ h # None /\ h.of \in Trips /\ h.sent \in Nat /\ h.gone \in BOOLEAN
           /\ h.do \in {"read", "upload", "edit", "delete"}
           /\ h.answer \in {None, "ok", "refused", "lost"}
           /\ IF h.do = "edit" THEN h.what \in Altered ELSE h.what \in Seq(Photo)
           /\ \A how \in {None, "ok", "refused", "lost"} :
                 /\ [h EXCEPT !.answer = how] \in Handler
                 /\ \A n \in Nat : [h EXCEPT !.sent = n, !.answer = how] \in Handler
           /\ [h EXCEPT !.gone = TRUE] \in Handler
<1>1. h # None
  BY DetailApart
<1>2. CASE h \in Work({"read", "upload", "delete"}, Seq(Photo))
  BY <1>1, <1>2 DEF Work, Handler
<1>3. CASE h \in Work({"edit"}, Altered)
  BY <1>1, <1>3 DEF Work, Handler
<1> QED BY <1>2, <1>3 DEF Handler

\* What a new handler is.
LEMMA BeginsTyped ==
    ASSUME DetailTypes, NEW do \in {"read", "upload", "edit", "delete"}, NEW what,
           IF do = "edit" THEN what \in Altered /\ trip.read # None ELSE what \in Seq(Photo)
    PROVE  Begin(do, at, what) \in Handler
<1>1. at \in Trips /\ trip.read # None => trip.read.fields \in Form
  BY DEF DetailTypes, Reading, TripRead
<1>2. CASE do = "edit"
  BY <1>1, <1>2 DEF Begin, Handler, Work, DetailTypes
<1>3. CASE do # "edit"
  BY <1>1, <1>3 DEF Begin, Handler, Work, DetailTypes
<1> QED BY <1>2, <1>3

LEMMA JobsTyped ==
    ASSUME DetailTypes, NEW j \in Jobs, job[j] # None
    PROVE  job[j] \in Handler
BY DEF DetailTypes

\* A handler begins, goes on or ends.
LEMMA PutWork ==
    ASSUME DetailTypes, AllAtWork, NEW j \in Jobs, NEW h \in Handler \cup {None},
           job' = [job EXCEPT ![j] = h], at' = at, untold \subseteq untold', AtWork(h)'
    PROVE  /\ job' \in [Jobs -> Handler \cup {None}] /\ AllAtWork'
           /\ job'[j] = h /\ \A i \in Jobs : i # j => job'[i] = job[i]
<1>1. /\ job' \in [Jobs -> Handler \cup {None}]
      /\ job'[j] = h /\ \A i \in Jobs : i # j => job'[i] = job[i]
  BY DEF DetailTypes
<1>2. ASSUME NEW i \in Jobs PROVE AtWork(job[i])'
  <2>1. CASE i = j
    BY <1>1, <2>1 DEF AtWork
  <2>2. CASE i # j
    BY <1>1, <2>2 DEF AllAtWork, AtWork
  <2> QED BY <2>1, <2>2
<1> QED BY <1>1, <1>2 DEF AllAtWork

\* Handlers dropped: those asking go on unheard, for a trip noted.
LEMMA DropsWork ==
    ASSUME DetailTypes, AllAtWork, NEW js \in SUBSET Working, job' = Dropped(js),
           untold' = untold \cup Forgot(js)
    PROVE  /\ job' \in [Jobs -> Handler \cup {None}] /\ untold' \subseteq Trips
           /\ \A j \in Jobs \ js : job'[j] = job[j]
           /\ \A j \in js : job'[j] = None \/ job'[j].gone
           /\ \A j \in js : job[j].do # "read" => at \in untold'
           /\ at' = at => AllAtWork'
           /\ (js = Working) => AllAtWork'
<1>1. \A j \in js : j \in Jobs /\ job[j] # None /\ ~job[j].gone /\ job[j] \in Handler
  BY JobsTyped DEF Working
<1>2. \A j \in js : job[j].of = at
  BY <1>1 DEF AllAtWork, AtWork
<1>3. \A j \in js : job[j].do # "read" => at \in untold'
  BY <1>1, <1>2 DEF Forgot
<1>4. untold' \subseteq Trips
  <2>1. \A j \in js : job[j].of \in Trips
    BY <1>1, HandlersTyped
  <2> QED BY <2>1 DEF Forgot, DetailTypes
<1>5. /\ \A j \in Jobs \ js : job'[j] = job[j]
      /\ \A j \in js : job'[j] = IF job[j].do = "read" \/ job[j].answer # None THEN None
                                ELSE [job[j] EXCEPT !.gone = TRUE]
  BY <1>1 DEF Dropped
<1>6. \A j \in Jobs : job'[j] \in Handler \cup {None}
  <2>1. ASSUME NEW j \in Jobs \ js PROVE job'[j] \in Handler \cup {None}
    BY <1>5, <2>1 DEF DetailTypes
  <2>2. ASSUME NEW j \in js PROVE job'[j] \in Handler \cup {None}
    <3>1. PICK h \in Handler : job[j] = h
      BY <1>1, <2>2
    <3>2. [h EXCEPT !.gone = TRUE] \in Handler
      BY HandlersTyped
    <3> QED BY <1>5, <2>2, <3>1, <3>2
  <2> QED BY <2>1, <2>2
<1>7. job' \in [Jobs -> Handler \cup {None}]
  BY <1>6 DEF Dropped
<1>8. ASSUME NEW j \in js PROVE AtWork(job[j])' /\ (job'[j] = None \/ job'[j].gone)
  <2>1. PICK h \in Handler : job[j] = h
    BY <1>1, <1>8
  <2>2. CASE h.do = "read" \/ h.answer # None
    BY <1>5, <1>8, <2>1, <2>2 DEF AtWork
  <2>3. CASE ~(h.do = "read" \/ h.answer # None)
    <3>1. job'[j] = [h EXCEPT !.gone = TRUE]
      BY <1>5, <1>8, <2>1, <2>3
    <3>2. /\ job'[j].gone /\ job'[j].of = h.of /\ job'[j].do = h.do /\ job'[j].what = h.what
          /\ job'[j].sent = h.sent /\ job'[j].shown = h.shown /\ job'[j].answer = None
      BY <2>3, <3>1 DEF Handler, Work
    <3>3. h.of \in untold'
      BY <1>2, <1>3, <1>8, <2>1, <2>3
    <3>4. AtWork(h)
      BY <1>1, <1>8, <2>1 DEF AllAtWork
    <3> QED BY <1>1, <1>8, <2>1, <3>2, <3>3, <3>4, DetailAssumption DEF AtWork
  <2> QED BY <2>2, <2>3
<1>9. at' = at => AllAtWork'
  <2>1. ASSUME NEW j \in Jobs \ js, at' = at PROVE AtWork(job[j])'
    BY <1>5, <2>1 DEF AllAtWork, AtWork
  <2> QED BY <1>8, <2>1 DEF AllAtWork
<1>10. js = Working => AllAtWork'
  <2>1. ASSUME NEW j \in Jobs \ js, js = Working PROVE AtWork(job[j])'
    BY <1>5, <2>1 DEF AllAtWork, AtWork, Working
  <2> QED BY <1>8, <2>1 DEF AllAtWork
<1> QED BY <1>3, <1>4, <1>5, <1>7, <1>8, <1>9, <1>10

\* The gallery while the photos, and what is read of them, stay.
LEMMA GalleryStays ==
    ASSUME DetailInductive, UNCHANGED <<at, photos, cached, stored, gone>>, untold \subseteq untold',
           (\A j \in Jobs : Owes(j) => Owes(j)') \/ at \in untold'
    PROVE  PhotosFit' /\ GalleryFollows'
<1>1. PhotosFit'
  BY DEF DetailInductive, PhotosFit
<1>2. GalleryFollows'
  BY DEF DetailInductive, GalleryFollows, Gallery
<1> QED BY <1>1, <1>2

LEMMA SameJobs ==
    ASSUME DetailInductive, UNCHANGED <<at, photos, cached, job, stored, gone, untold>>
    PROVE  AllAtWork' /\ PhotosFit' /\ GalleryFollows'
<1>1. AllAtWork'
  BY DEF DetailInductive, AllAtWork, AtWork
<1>2. \A j \in Jobs : Owes(j) => Owes(j)'
  BY DEF Owes, Doing, Working
<1> QED BY <1>1, <1>2, GalleryStays

\* Handlers dropped while the trip shown stays: what an upload of them stored
\* is noted as untold.
LEMMA DropsKeep ==
    ASSUME DetailInductive, NEW js \in SUBSET Working, job' = Dropped(js),
           untold' = untold \cup Forgot(js), UNCHANGED <<at, photos, cached, stored, gone>>
    PROVE  /\ job' \in [Jobs -> Handler \cup {None}] /\ untold' \subseteq Trips
           /\ AllAtWork' /\ PhotosFit' /\ GalleryFollows'
<1>1. /\ job' \in [Jobs -> Handler \cup {None}] /\ untold' \subseteq Trips
      /\ \A j \in Jobs \ js : job'[j] = job[j]
      /\ \A j \in js : job[j].do # "read" => at \in untold'
      /\ AllAtWork'
  BY DropsWork DEF DetailInductive
<1>2. (\A j \in Jobs : Owes(j) => Owes(j)') \/ at \in untold'
  <2> SUFFICES ASSUME at \notin untold', NEW j \in Jobs, Owes(j) PROVE Owes(j)'
    OBVIOUS
  <2>1. j \notin js
    BY <1>1 DEF Owes, Doing
  <2> QED BY <1>1, <2>1 DEF Owes, Doing, Working
<1> QED BY <1>1, <1>2, GalleryStays

\* What a click leaves of the counts, and the controls it starts from.
LEMMA ControlsTyped ==
    ASSUME DetailTypes
    PROVE  /\ controls.chosen \in Seq(Photo) /\ controls.editing \in Form \cup {None}
           /\ Idle \in [adding : BOOLEAN, chosen : Seq(Photo), editing : Form \cup {None},
                        arming : BOOLEAN, deleting : BOOLEAN]
           /\ trip.read # None => trip.read \in TripRead
           /\ trip.answer # None => trip.answer \in TripRead
           /\ photos.answer # None => photos.answer \in PhotoList
BY DEF DetailTypes, Idle, Reading

LEMMA NavigateKeeps ==
    ASSUME DetailInductive, NEW to \in Trips, Navigate(to)
    PROVE  DetailInductive'
<1>1. /\ job' \in [Jobs -> Handler \cup {None}] /\ untold' \subseteq Trips /\ AllAtWork'
  BY DropsWork DEF DetailInductive, Navigate
<1>2. photos'.asked /\ photos'.answer = None /\ photos' \in Reading(PhotoList) /\ trip' \in Reading(TripRead)
  BY DEF Navigate, DetailInductive, DetailTypes, Again, Reading
<1>3. DetailTypes'
  BY <1>1, <1>2, ControlsTyped DEF Navigate, DetailInductive, DetailTypes, archived, Event
<1>4. EditsRead'
  BY DEF Navigate, EditsRead, Idle
<1>5. PhotosFit' /\ GalleryFollows'
  BY <1>2 DEF Navigate, DetailInductive, PhotosFit, GalleryFollows, archived
<1> QED BY <1>1, <1>3, <1>4, <1>5 DEF DetailInductive

LEMMA AwayKeeps ==
    ASSUME DetailInductive, Away
    PROVE  DetailInductive' /\ Working' = {}
<1>1. /\ job' \in [Jobs -> Handler \cup {None}] /\ untold' \subseteq Trips /\ AllAtWork'
      /\ \A j \in Jobs \ Working : job'[j] = job[j]
      /\ \A j \in Working : job'[j] = None \/ job'[j].gone
  BY DropsWork DEF DetailInductive, Away
<1>2. /\ photos'.asked /\ photos'.answer = None /\ cached' = None
      /\ photos' \in Reading(PhotoList) /\ trip' \in Reading(TripRead)
  BY DEF Away, Opening, Closed, Reading
<1>3. DetailTypes'
  BY <1>1, <1>2, ControlsTyped DEF Away, DetailInductive, DetailTypes, archived
<1>4. EditsRead'
  BY DEF Away, EditsRead, Idle
<1>5. PhotosFit' /\ GalleryFollows'
  BY <1>2 DEF PhotosFit, GalleryFollows
<1>6. Working' = {}
  BY <1>1 DEF Working
<1> QED BY <1>1, <1>3, <1>4, <1>5, <1>6 DEF DetailInductive

-----------------------------------------------------------------------------
(* What the trip screen reads.                                             *)

LEMMA ReadTripKeeps ==
    ASSUME DetailInductive, ReadTrip
    PROVE  DetailInductive'
<1>1. UNCHANGED <<at, photos, cached, controls, job, fields, stored, gone, untold, events>>
  BY DEF ReadTrip, archived
<1>2. [of |-> at, gone |-> at \in gone, fields |-> fields[at]] \in TripRead
  BY DEF DetailInductive, DetailTypes, TripRead
<1>3. trip' \in Reading(TripRead) /\ trip'.read = trip.read
  BY <1>2 DEF ReadTrip, DetailInductive, DetailTypes, Reading
<1>4. DetailTypes' /\ EditsRead'
  BY <1>1, <1>3 DEF DetailInductive, DetailTypes, EditsRead
<1> QED BY <1>1, <1>4, SameJobs DEF DetailInductive

LEMMA ShowTripKeeps ==
    ASSUME DetailInductive, ShowTrip
    PROVE  DetailInductive'
<1>1. /\ UNCHANGED <<at, photos, cached, fields, stored, gone, events>> /\ trip.answer # None
      /\ trip' = [trip EXCEPT !.read = trip.answer, !.answer = None]
  BY DEF ShowTrip, archived
<1>2. trip.answer \in TripRead /\ trip.answer.fields \in Form
  BY <1>1, ControlsTyped DEF DetailInductive, TripRead
<1>3. trip' \in Reading(TripRead) /\ trip'.read # None
  BY <1>1 DEF DetailInductive, DetailTypes, Reading
<1>4. CASE trip.answer.gone
  <2>1. controls' = Idle /\ job' = Dropped(Working) /\ untold' = untold \cup Forgot(Working)
    BY <1>4 DEF ShowTrip
  <2>2. /\ job' \in [Jobs -> Handler \cup {None}] /\ untold' \subseteq Trips
        /\ AllAtWork' /\ PhotosFit' /\ GalleryFollows'
    BY <1>1, <2>1, DropsKeep
  <2>3. DetailTypes' /\ EditsRead'
    BY <1>1, <1>3, <2>1, <2>2, ControlsTyped DEF DetailInductive, DetailTypes, EditsRead
  <2> QED BY <2>2, <2>3 DEF DetailInductive
<1>5. CASE ~trip.answer.gone
  <2>1. UNCHANGED <<job, untold>>
    BY <1>5 DEF ShowTrip
  <2>2. controls' = controls \/ controls' = [controls EXCEPT !.editing = trip.answer.fields]
    BY <1>5 DEF ShowTrip
  <2>3. DetailTypes' /\ EditsRead'
    BY <1>1, <1>2, <1>3, <2>1, <2>2 DEF DetailInductive, DetailTypes, EditsRead
  <2> QED BY <1>1, <2>1, <2>3, SameJobs DEF DetailInductive
<1> QED BY <1>4, <1>5

LEMMA ReadPhotosKeeps ==
    ASSUME DetailInductive, ReadPhotos
    PROVE  DetailInductive'
<1>1. UNCHANGED <<at, trip, cached, controls, job, fields, stored, gone, untold, events>>
  BY DEF ReadPhotos, archived
<1> DEFINE found == [of |-> at, ok |-> at \notin gone, photos |-> stored[at]]
<1>2. found \in PhotoList /\ found # None /\ stored[at] \in Seq(Photo)
  <2>1. at \in Trips /\ stored[at] \in Seq(Photo)
    BY DEF DetailInductive, DetailTypes
  <2>2. found \in PhotoList
    BY <2>1 DEF PhotoList
  <2> HIDE DEF found
  <2> QED BY <2>1, <2>2, DetailApart
<1>3. photos' \in Reading(PhotoList) /\ photos'.answer = found
  BY <1>2 DEF ReadPhotos, DetailInductive, DetailTypes, Reading
<1>4. DetailTypes' /\ EditsRead' /\ AllAtWork'
  BY <1>1, <1>3 DEF DetailInductive, DetailTypes, EditsRead, AllAtWork, AtWork
<1>5. PhotosFit'
  <2>1. IsPrefix(stored[at], stored[at])
    BY <1>2, PrefixSelf
  <2>2. found.of = at /\ (found.ok \/ at \in gone) /\ found.photos = stored[at]
    OBVIOUS
  <2> HIDE DEF found
  <2> QED BY <1>1, <1>3, <2>1, <2>2 DEF DetailInductive, PhotosFit
<1>6. GalleryFollows'
  BY <1>1, <1>2, <1>3 DEF GalleryFollows
<1> QED BY <1>4, <1>5, <1>6 DEF DetailInductive

LEMMA ShowPhotosKeeps ==
    ASSUME DetailInductive, ShowPhotos
    PROVE  DetailInductive'
<1>1. /\ UNCHANGED <<at, trip, controls, job, fields, stored, gone, untold, events>>
      /\ photos.answer # None /\ cached' = IF photos.answer.ok THEN photos.answer ELSE cached
      /\ photos' = [photos EXCEPT !.read = photos.answer, !.answer = None]
  BY DEF ShowPhotos, archived
<1>2. photos.answer \in PhotoList
  BY <1>1, ControlsTyped DEF DetailInductive
<1>3. photos' \in Reading(PhotoList) /\ photos'.answer = None /\ photos'.asked = photos.asked
  BY <1>1 DEF DetailInductive, DetailTypes, Reading
<1>4. DetailTypes' /\ EditsRead' /\ AllAtWork'
  BY <1>1, <1>2, <1>3 DEF DetailInductive, DetailTypes, EditsRead, AllAtWork, AtWork
<1>5. PhotosFit'
  BY <1>1, <1>3 DEF DetailInductive, PhotosFit
<1>6. GalleryFollows'
  <2> SUFFICES ASSUME at \notin untold \cup gone PROVE GalleryFollows'
    BY <1>1 DEF GalleryFollows
  <2>1. photos.answer.of = at /\ cached' = photos.answer
    BY <1>1 DEF DetailInductive, PhotosFit
  <2>2. (\E j \in Jobs : Owes(j)) => (\E j \in Jobs : Owes(j)')
    BY <1>1 DEF Owes, Doing, Working
  <2>3. Gallery' = photos.answer
    BY <1>1, <2>1 DEF Gallery
  <2>4. photos.asked \/ (\E j \in Jobs : Owes(j)) \/ photos.answer.photos = stored[at]
    BY <1>1 DEF DetailInductive, GalleryFollows
  <2> QED BY <1>1, <1>3, <2>2, <2>3, <2>4 DEF GalleryFollows
<1> QED BY <1>4, <1>5, <1>6 DEF DetailInductive

-----------------------------------------------------------------------------
(* What the owner does on the trip screen, and its handlers.               *)

LEMMA MoveKeeps ==
    ASSUME DetailInductive, NEW j \in Jobs, NEW h \in Handler \cup {None},
           job' = [job EXCEPT ![j] = h], UNCHANGED <<at, photos, cached, stored, gone>>,
           untold \subseteq untold', AtWork(h)', Owes(j) => Owes(j)' \/ at \in untold'
    PROVE  job' \in [Jobs -> Handler \cup {None}] /\ AllAtWork' /\ PhotosFit' /\ GalleryFollows'
<1>1. /\ job' \in [Jobs -> Handler \cup {None}] /\ AllAtWork'
      /\ job'[j] = h /\ \A i \in Jobs : i # j => job'[i] = job[i]
  BY PutWork DEF DetailInductive
<1>2. (\A i \in Jobs : Owes(i) => Owes(i)') \/ at \in untold'
  <2> SUFFICES ASSUME at \notin untold', NEW i \in Jobs, Owes(i) PROVE Owes(i)'
    OBVIOUS
  <2>1. CASE i = j
    BY <2>1
  <2>2. CASE i # j
    BY <1>1, <2>2 DEF Owes, Doing, Working
  <2> QED BY <2>1, <2>2
<1> QED BY <1>1, <1>2, GalleryStays

\* A handler begins in a free slot.
LEMMA BeginKeeps ==
    ASSUME DetailInductive, NEW j \in Jobs, NEW do \in {"read", "upload", "edit", "delete"}, NEW what,
           job[j] = None, job' = [job EXCEPT ![j] = Begin(do, at, what)],
           IF do = "edit" THEN /\ what \in Altered /\ trip.read # None
                               /\ \A f \in DOMAIN what : what[f] # trip.read.fields[f]
           ELSE what \in Seq(Photo) /\ (do # "delete" => Len(what) > 0),
           UNCHANGED <<at, photos, cached, stored, gone, untold>>
    PROVE  job' \in [Jobs -> Handler \cup {None}] /\ AllAtWork' /\ PhotosFit' /\ GalleryFollows'
<1>1. Begin(do, at, what) \in Handler
  BY BeginsTyped DEF DetailInductive
<1>2. PICK h \in Handler : h = Begin(do, at, what)
  BY <1>1
<1>3. /\ h.do = do /\ h.of = at /\ h.what = what /\ h.sent = 0 /\ h.answer = None /\ h.gone = FALSE
      /\ do = "edit" => h.shown = trip.read.fields
  BY <1>2 DEF Begin
<1>4. AtWork(h)'
  BY <1>3, DetailAssumption DEF AtWork
<1>5. ~Owes(j)
  BY DEF Owes, Doing, Working
<1> QED BY <1>2, <1>4, <1>5, MoveKeeps

LEMMA PicksTyped ==
    ASSUME NEW files \in Picks, events \in Nat
    PROVE  LET what == [k \in DOMAIN files |-> <<files[k], events>>]
           IN  what \in Seq(Photo) /\ Len(what) > 0
<1>1. Cardinality(Files) \in Nat
  BY DetailAssumption, FS_CardinalityType
<1>2. PICK m \in 0 .. Cardinality(Files) : files \in [1 .. m -> Files]
  BY DEF Picks, SeqOf
<1>3. m \in Nat
  BY <1>1, <1>2
<1>4. files \in Seq(Files) /\ Len(files) = m /\ DOMAIN files = 1 .. m
  BY <1>2, <1>3
<1>5. m # 0
  BY <1>4 DEF Picks
<1> DEFINE what == [k \in DOMAIN files |-> <<files[k], events>>]
<1>6. what \in [1 .. m -> Photo]
  BY <1>2, <1>4 DEF Photo
<1>7. what \in Seq(Photo) /\ Len(what) = m
  BY <1>3, <1>6
<1> QED BY <1>3, <1>5, <1>7

LEMMA ChangesTyped ==
    ASSUME NEW typed \in Form
    PROVE  /\ Changes(typed) \in Altered
           /\ \A f \in DOMAIN Changes(typed) : Changes(typed)[f] # trip.read.fields[f]
<1> DEFINE S == {f \in Fields : typed[f] # trip.read.fields[f]}
<1>1. Changes(typed) = [f \in S |-> typed[f]] /\ S \in SUBSET Fields
  BY DEF Changes
<1>2. [f \in S |-> typed[f]] \in [S -> 0 .. MaxValue]
  BY DEF Form
<1>3. \A f \in S : typed[f] # trip.read.fields[f]
  OBVIOUS
<1> HIDE DEF S
<1> QED BY <1>1, <1>2, <1>3 DEF Altered

\* Clicks that only set signals.
LEMMA SignalsKeep ==
    ASSUME DetailInductive,
           \/ OpenEdit
           \/ \E f \in Fields, v \in 0 .. MaxValue : Alter(f, v)
           \/ \E armed \in BOOLEAN : Arm(armed)
    PROVE  DetailInductive'
<1>1. /\ UNCHANGED <<at, trip, photos, cached, job, fields, stored, gone, untold>>
      /\ events' = events + 1
  BY DEF OpenEdit, Alter, Arm, archived, Event
<1>2. controls' \in [adding : BOOLEAN, chosen : Seq(Photo), editing : Form \cup {None},
                     arming : BOOLEAN, deleting : BOOLEAN] /\ EditsRead'
  <2>1. CASE OpenEdit
    <3>1. trip.read # None /\ trip.read \in TripRead /\ trip.read.fields \in Form
      BY <2>1, ControlsTyped DEF OpenEdit, Mounted, DetailInductive, TripRead
    <3> QED BY <1>1, <2>1, <3>1 DEF OpenEdit, DetailInductive, DetailTypes, EditsRead
  <2>2. ASSUME NEW f \in Fields, NEW v \in 0 .. MaxValue, Alter(f, v)
        PROVE  controls' \in [adding : BOOLEAN, chosen : Seq(Photo), editing : Form \cup {None},
                              arming : BOOLEAN, deleting : BOOLEAN] /\ EditsRead'
    <3>1. PICK c \in [adding : BOOLEAN, chosen : Seq(Photo), editing : Form \cup {None},
                      arming : BOOLEAN, deleting : BOOLEAN] : controls = c
      BY DEF DetailInductive, DetailTypes
    <3>2. c.editing \in Form
      BY <2>2, <3>1 DEF Alter
    <3>3. [c.editing EXCEPT ![f] = v] \in Form
      BY <3>2 DEF Form
    <3>4. controls' = [c EXCEPT !.editing = [c.editing EXCEPT ![f] = v]]
      BY <2>2, <3>1 DEF Alter
    <3>5. trip.read # None
      BY <2>2 DEF Alter, DetailInductive, EditsRead
    <3> QED BY <1>1, <3>3, <3>4, <3>5 DEF EditsRead
  <2>3. ASSUME NEW armed \in BOOLEAN, Arm(armed)
        PROVE  controls' \in [adding : BOOLEAN, chosen : Seq(Photo), editing : Form \cup {None},
                              arming : BOOLEAN, deleting : BOOLEAN] /\ EditsRead'
    BY <1>1, <2>3 DEF Arm, DetailInductive, DetailTypes, EditsRead
  <2> QED BY <2>1, <2>2, <2>3
<1>3. DetailTypes'
  BY <1>1, <1>2 DEF DetailInductive, DetailTypes
<1> QED BY <1>1, <1>2, <1>3, SameJobs DEF DetailInductive

\* Clicks that close what a handler works for.
LEMMA ClosingKeeps ==
    ASSUME DetailInductive, ToggleAdding \/ CloseEdit
    PROVE  DetailInductive'
<1>1. PICK js \in SUBSET Working : job' = Dropped(js) /\ untold' = untold \cup Forgot(js)
  <2>1. \A what : Doing(what) \subseteq Working
    BY DEF Doing
  <2>2. CASE ToggleAdding
    BY <2>1, <2>2 DEF ToggleAdding
  <2>3. CASE CloseEdit
    BY <2>1, <2>3 DEF CloseEdit
  <2> QED BY <2>2, <2>3
<1>2. /\ UNCHANGED <<at, trip, photos, cached, fields, stored, gone>> /\ events' = events + 1
  BY DEF ToggleAdding, CloseEdit, archived, Event
<1>3. /\ job' \in [Jobs -> Handler \cup {None}] /\ untold' \subseteq Trips
      /\ AllAtWork' /\ PhotosFit' /\ GalleryFollows'
  BY <1>1, <1>2, DropsKeep
<1>4. <<>> \in Seq(Photo)
  OBVIOUS
<1>5. controls' \in [adding : BOOLEAN, chosen : Seq(Photo), editing : Form \cup {None},
                     arming : BOOLEAN, deleting : BOOLEAN]
  BY <1>4 DEF ToggleAdding, CloseEdit, DetailInductive, DetailTypes
<1>6. EditsRead'
  BY <1>2 DEF ToggleAdding, CloseEdit, DetailInductive, DetailTypes, EditsRead
<1>7. DetailTypes'
  BY <1>2, <1>3, <1>5 DEF DetailInductive, DetailTypes
<1> QED BY <1>3, <1>6, <1>7 DEF DetailInductive

LEMMA BeginningsKeep ==
    ASSUME DetailInductive, NEW j \in Jobs,
           (\E files \in Picks : PickFiles(j, files)) \/ Upload(j) \/ ConfirmDelete(j)
    PROVE  DetailInductive'
<1>1. /\ UNCHANGED <<at, trip, photos, cached, fields, stored, gone, untold>>
      /\ events' = events + 1 /\ job[j] = None
  BY DEF PickFiles, Upload, ConfirmDelete, archived, Event
<1>2. <<>> \in Seq(Photo)
  OBVIOUS
<1>3. PICK do \in {"read", "upload", "delete"} : \E w \in Seq(Photo) :
        /\ job' = [job EXCEPT ![j] = Begin(do, at, w)] /\ (do # "delete" => Len(w) > 0)
  <2>1. ASSUME NEW files \in Picks, PickFiles(j, files)
        PROVE  \E do \in {"read", "upload", "delete"} : \E w \in Seq(Photo) :
                 job' = [job EXCEPT ![j] = Begin(do, at, w)] /\ (do # "delete" => Len(w) > 0)
    <3> DEFINE w == [k \in DOMAIN files |-> <<files[k], events>>]
    <3>1. w \in Seq(Photo) /\ Len(w) > 0
      BY PicksTyped DEF DetailInductive, DetailTypes
    <3>2. job' = [job EXCEPT ![j] = Begin("read", at, w)]
      BY <2>1 DEF PickFiles
    <3> HIDE DEF w
    <3> QED BY <3>1, <3>2
  <2>2. CASE Upload(j)
    <3>1. controls.chosen \in Seq(Photo) /\ controls.chosen # <<>>
      BY <2>2, ControlsTyped DEF DetailInductive, Upload
    <3>2. Len(controls.chosen) > 0
      BY <3>1, EmptySeq
    <3> QED BY <2>2, <3>1, <3>2 DEF Upload
  <2>3. CASE ConfirmDelete(j)
    BY <1>2, <2>3 DEF ConfirmDelete
  <2> QED BY <2>1, <2>2, <2>3
<1>4. PICK w \in Seq(Photo) :
        job' = [job EXCEPT ![j] = Begin(do, at, w)] /\ (do # "delete" => Len(w) > 0)
  BY <1>3
<1>5. job' \in [Jobs -> Handler \cup {None}] /\ AllAtWork' /\ PhotosFit' /\ GalleryFollows'
  BY <1>1, <1>4, BeginKeeps
<1>6. controls' \in [adding : BOOLEAN, chosen : Seq(Photo), editing : Form \cup {None},
                     arming : BOOLEAN, deleting : BOOLEAN]
      /\ controls'.editing = controls.editing
  BY <1>2 DEF PickFiles, Upload, ConfirmDelete, DetailInductive, DetailTypes
<1>7. DetailTypes' /\ EditsRead'
  BY <1>1, <1>5, <1>6 DEF DetailInductive, DetailTypes, EditsRead
<1> QED BY <1>5, <1>7 DEF DetailInductive

LEMMA SaveKeeps ==
    ASSUME DetailInductive, NEW j \in Jobs, Save(j)
    PROVE  DetailInductive'
<1>1. /\ UNCHANGED <<at, trip, photos, cached, fields, stored, gone>>
      /\ events' = events + 1 /\ controls.editing # None
  BY DEF Save, archived, Event
<1>2. CASE Changes(controls.editing) = <<>>
  <2>1. /\ controls' = [controls EXCEPT !.editing = None]
        /\ job' = Dropped(Doing({"edit"})) /\ untold' = untold \cup Forgot(Doing({"edit"}))
        /\ Doing({"edit"}) \subseteq Working
    BY <1>2 DEF Save, Doing
  <2>2. /\ job' \in [Jobs -> Handler \cup {None}] /\ untold' \subseteq Trips
        /\ AllAtWork' /\ PhotosFit' /\ GalleryFollows'
    BY <1>1, <2>1, DropsKeep
  <2>3. controls' \in [adding : BOOLEAN, chosen : Seq(Photo), editing : Form \cup {None},
                       arming : BOOLEAN, deleting : BOOLEAN] /\ controls'.editing = None
    BY <2>1 DEF DetailInductive, DetailTypes
  <2>4. EditsRead'
    BY <2>3 DEF EditsRead
  <2>5. DetailTypes'
    BY <1>1, <2>2, <2>3 DEF DetailInductive, DetailTypes
  <2> QED BY <2>2, <2>4, <2>5 DEF DetailInductive
<1>3. CASE Changes(controls.editing) # <<>>
  <2>1. /\ job[j] = None /\ job' = [job EXCEPT ![j] = Begin("edit", at, Changes(controls.editing))]
        /\ UNCHANGED <<controls, untold>>
    BY <1>3 DEF Save
  <2>2. controls.editing \in Form /\ trip.read # None
    BY <1>1, ControlsTyped DEF DetailInductive, EditsRead
  <2>3. PICK what \in Altered :
          what = Changes(controls.editing) /\ \A f \in DOMAIN what : what[f] # trip.read.fields[f]
    BY <2>2, ChangesTyped
  <2>4. job' \in [Jobs -> Handler \cup {None}] /\ AllAtWork' /\ PhotosFit' /\ GalleryFollows'
    BY <1>1, <2>1, <2>2, <2>3, BeginKeeps
  <2>5. DetailTypes' /\ EditsRead'
    BY <1>1, <2>1, <2>4 DEF DetailInductive, DetailTypes, EditsRead
  <2> QED BY <2>4, <2>5 DEF DetailInductive
<1> QED BY <1>2, <1>3

\* A handler that ends without having stored a photo.
LEMMA EndingsKeep ==
    ASSUME DetailInductive, NEW j \in Jobs,
           FilesRead(j) \/ NotDeleted(j) \/ (Saved(j) /\ ~Replied(j, "ok"))
    PROVE  DetailInductive'
<1>1. /\ UNCHANGED <<at, trip, photos, cached, fields, stored, gone, untold, events>>
      /\ j \in Working /\ job[j].do # "upload" /\ job' = [job EXCEPT ![j] = None]
  BY DEF FilesRead, NotDeleted, Saved, Doing, archived
<1>2. job[j] \in Handler
  BY <1>1, JobsTyped DEF Working, DetailInductive
<1>3. ~Owes(j) /\ AtWork(None)'
  BY <1>1 DEF Owes, Doing, AtWork
<1>4. job' \in [Jobs -> Handler \cup {None}] /\ AllAtWork' /\ PhotosFit' /\ GalleryFollows'
  BY <1>1, <1>3, MoveKeeps
<1>5. controls' \in [adding : BOOLEAN, chosen : Seq(Photo), editing : Form \cup {None},
                     arming : BOOLEAN, deleting : BOOLEAN]
      /\ controls'.editing = controls.editing
  <2>1. CASE FilesRead(j)
    <3>1. job[j].what \in Seq(Photo) /\ controls.chosen \in Seq(Photo)
      BY <1>2, <2>1, HandlersTyped, ControlsTyped DEF FilesRead, Doing, DetailInductive
    <3> QED BY <2>1, <3>1 DEF FilesRead, DetailInductive, DetailTypes
  <2>2. CASE NotDeleted(j) \/ (Saved(j) /\ ~Replied(j, "ok"))
    BY <2>2 DEF NotDeleted, Saved, DetailInductive, DetailTypes
  <2> QED BY <2>1, <2>2
<1>6. DetailTypes' /\ EditsRead'
  BY <1>1, <1>4, <1>5 DEF DetailInductive, DetailTypes, EditsRead
<1> QED BY <1>4, <1>6 DEF DetailInductive

\* An edit is stored: the form closes, other saves of it with it.
LEMMA SavedKeeps ==
    ASSUME DetailInductive, NEW j \in Jobs, Saved(j), Replied(j, "ok")
    PROVE  DetailInductive'
<1> DEFINE js == Doing({"edit"})
<1>1. /\ UNCHANGED <<at, photos, cached, fields, stored, gone, events>>
      /\ controls' = [controls EXCEPT !.editing = None] /\ trip' = Again(trip)
      /\ job' = [Dropped(js) EXCEPT ![j] = None] /\ untold' = untold \cup Forgot(js \ {j})
      /\ j \in js /\ job[j].answer = "ok" /\ js \subseteq Working
  BY DEF Saved, archived, Doing, Replied
<1>2. Dropped(js \ {j}) \in [Jobs -> Handler \cup {None}]
  <2>1. ASSUME NEW i \in Jobs PROVE Dropped(js \ {j})[i] \in Handler \cup {None}
    <3>1. CASE job[i] = None
      BY <3>1 DEF Dropped
    <3>2. CASE job[i] # None
      <4>1. PICK h \in Handler : job[i] = h
        BY <3>2, JobsTyped DEF DetailInductive
      <4>2. [h EXCEPT !.gone = TRUE] \in Handler
        BY HandlersTyped
      <4> QED BY <4>1, <4>2 DEF Dropped
    <3> QED BY <3>1, <3>2
  <2> QED BY <2>1 DEF Dropped
<1>3. \A i \in Jobs : job'[i] = IF i = j THEN None ELSE Dropped(js \ {j})[i]
  BY <1>1 DEF Dropped
<1>4. job' \in [Jobs -> Handler \cup {None}]
  BY <1>1, <1>2, <1>3 DEF Dropped
<1>5. \A i \in js : /\ job[i] \in Handler /\ ~job[i].gone /\ job[i].of = at /\ job[i].do = "edit"
                    /\ i \in Jobs
  BY <1>1, JobsTyped DEF Working, Doing, DetailInductive, AllAtWork, AtWork
<1>6. untold' \subseteq Trips /\ (js \ {j} # {} => at \in untold')
  <2>1. \A i \in js : job[i].of \in Trips /\ job[i].of = at /\ job[i] # None /\ job[i].do # "read"
    BY <1>5, HandlersTyped
  <2>2. Forgot(js \ {j}) = {job[i].of : i \in js \ {j}}
    BY <2>1 DEF Forgot
  <2> HIDE DEF js
  <2> QED BY <1>1, <2>1, <2>2 DEF DetailInductive, DetailTypes
<1>7. AllAtWork'
  <2>1. ASSUME NEW i \in Jobs PROVE AtWork(job[i])'
    <3>1. CASE i = j
      BY <1>3, <3>1 DEF AtWork
    <3>2. CASE i # j /\ i \notin js
      <4>1. job'[i] = job[i]
        BY <1>3, <3>2 DEF Dropped
      <4> QED BY <1>1, <4>1 DEF DetailInductive, AllAtWork, AtWork
    <3>3. CASE i # j /\ i \in js
      <4>1. PICK h \in Handler : job[i] = h
        BY <1>5, <3>3
      <4>2. job'[i] = IF h.answer # None THEN None ELSE [h EXCEPT !.gone = TRUE]
        BY <1>3, <1>5, <3>3, <4>1, HandlersTyped DEF Dropped
      <4>3. CASE h.answer # None
        BY <4>2, <4>3 DEF AtWork
      <4>4. CASE h.answer = None
        <5>1. /\ job'[i].gone /\ job'[i].of = at /\ job'[i].do = "edit" /\ job'[i].what = h.what
              /\ job'[i].shown = h.shown /\ job'[i].answer = None
          BY <1>5, <3>3, <4>1, <4>2, <4>4 DEF Handler, Work
        <5>2. AtWork(h) /\ h # None /\ h.do = "edit"
          BY <1>5, <3>3, <4>1, HandlersTyped DEF DetailInductive, AllAtWork
        <5> QED BY <1>6, <3>3, <5>1, <5>2, DetailAssumption DEF AtWork
      <4> QED BY <4>3, <4>4
    <3> QED BY <3>1, <3>2, <3>3
  <2> QED BY <2>1 DEF AllAtWork
<1>8. PhotosFit' /\ GalleryFollows'
  <2>1. \A i \in Jobs : Owes(i) => Owes(i)'
    <3> SUFFICES ASSUME NEW i \in Jobs, Owes(i) PROVE Owes(i)'
      OBVIOUS
    <3>1. i \notin js
      BY DEF Owes, Doing
    <3>2. job'[i] = job[i]
      BY <1>1, <1>3, <3>1 DEF Dropped
    <3> QED BY <3>2 DEF Owes, Doing, Working
  <2> QED BY <1>1, <2>1, GalleryStays
<1>9. trip' \in Reading(TripRead) /\ controls'.editing = None
      /\ controls' \in [adding : BOOLEAN, chosen : Seq(Photo), editing : Form \cup {None},
                        arming : BOOLEAN, deleting : BOOLEAN]
  BY <1>1 DEF DetailInductive, DetailTypes, Again, Reading
<1>10. DetailTypes' /\ EditsRead'
  BY <1>1, <1>4, <1>6, <1>9 DEF DetailInductive, DetailTypes, EditsRead
<1> QED BY <1>7, <1>8, <1>10 DEF DetailInductive

LEMMA NextFileKeeps ==
    ASSUME DetailInductive, NEW j \in Jobs, NextFile(j)
    PROVE  DetailInductive'
<1>1. /\ UNCHANGED <<at, trip, photos, cached, controls, fields, stored, gone, untold, events>>
      /\ j \in Working /\ job[j].do = "upload" /\ job[j].sent + 1 < Len(job[j].what)
  BY DEF NextFile, Doing, archived
<1>2. PICK h \in Handler : job[j] = h
  BY <1>1, JobsTyped DEF Working, DetailInductive
<1> DEFINE next == [h EXCEPT !.sent = h.sent + 1, !.answer = None]
<1>3. job' = [job EXCEPT ![j] = next]
  BY <1>2 DEF NextFile, DetailInductive, DetailTypes
<1>4. h.sent \in Nat /\ h.sent + 1 \in Nat /\ h.gone = FALSE
  <2>1. h.sent \in Nat /\ h.gone \in BOOLEAN
    BY HandlersTyped
  <2> QED BY <1>1, <1>2, <2>1 DEF Working
<1>5. /\ next.do = h.do /\ next.of = h.of /\ next.what = h.what /\ next.sent = h.sent + 1
      /\ next.answer = None /\ next.gone = h.gone
  BY DEF Handler, Work
<1>6. next \in Handler
  <2>1. \A n \in Nat : [h EXCEPT !.sent = n, !.answer = None] \in Handler
    BY HandlersTyped
  <2> QED BY <1>4, <2>1
<1> HIDE DEF next
<1>7. next # None
  BY <1>6, HandlersTyped
<1>8. AtWork(next)'
  <2>1. AtWork(h) /\ h # None
    BY <1>1, <1>2, HandlersTyped DEF DetailInductive, AllAtWork
  <2> QED BY <1>1, <1>2, <1>4, <1>5, <2>1, DetailAssumption DEF AtWork
<1>9. Owes(j)'
  <2>1. job'[j] = next
    BY <1>3 DEF DetailInductive, DetailTypes
  <2> QED BY <1>1, <1>2, <1>4, <1>5, <1>7, <2>1 DEF Owes, Doing, Working
<1>10. job' \in [Jobs -> Handler \cup {None}] /\ AllAtWork' /\ PhotosFit' /\ GalleryFollows'
  BY <1>1, <1>3, <1>6, <1>8, <1>9, MoveKeeps
<1>11. DetailTypes' /\ EditsRead'
  BY <1>1, <1>10 DEF DetailInductive, DetailTypes, EditsRead
<1> QED BY <1>10, <1>11 DEF DetailInductive

\* An upload that ends has the photos read if any arrived.
LEMMA UploadsEnd ==
    ASSUME DetailInductive, NEW j \in Jobs, Uploaded(j) \/ UploadStopped(j)
    PROVE  DetailInductive'
<1>1. /\ UNCHANGED <<at, trip, cached, fields, stored, gone, untold, events>>
      /\ j \in Working /\ job[j].do = "upload" /\ job' = [job EXCEPT ![j] = None]
  BY DEF Uploaded, UploadStopped, Doing, archived
<1>2. PICK h \in Handler : job[j] = h
  BY <1>1, JobsTyped DEF Working, DetailInductive
<1>3. /\ job' \in [Jobs -> Handler \cup {None}] /\ AllAtWork'
      /\ \A i \in Jobs : i # j => job'[i] = job[i]
  <2>1. AtWork(None)'
    BY DEF AtWork
  <2> QED BY <1>1, <2>1, PutWork DEF DetailInductive
<1>4. controls' \in [adding : BOOLEAN, chosen : Seq(Photo), editing : Form \cup {None},
                     arming : BOOLEAN, deleting : BOOLEAN]
      /\ controls'.editing = controls.editing
  <2>1. controls.chosen \in Seq(Photo) /\ <<>> \in Seq(Photo)
    BY ControlsTyped DEF DetailInductive
  <2>2. CASE Uploaded(j)
    BY <2>1, <2>2 DEF Uploaded, DetailInductive, DetailTypes
  <2>3. CASE UploadStopped(j)
    <3>1. SubSeq(controls.chosen, h.sent + 1, Len(controls.chosen)) \in Seq(Photo)
      <4>1. h.sent \in Nat /\ Len(controls.chosen) \in Nat
        <5>1. h.sent \in Nat
          BY HandlersTyped
        <5> QED BY <2>1, <5>1
      <4>2. \A i \in h.sent + 1 .. Len(controls.chosen) : controls.chosen[i] \in Photo
        BY <2>1, <4>1
      <4> QED BY <2>1, <4>1, <4>2, SubSeqProperties
    <3> QED BY <1>2, <2>3, <3>1 DEF UploadStopped, DetailInductive, DetailTypes
  <2> QED BY <2>2, <2>3
<1>5. photos' = Again(photos) \/ (photos' = photos /\ h.sent = 0 /\ h.answer \in {"refused", "lost"})
  <2>1. h.sent \in Nat
    BY HandlersTyped
  <2> QED BY <1>2, <2>1 DEF Uploaded, UploadStopped, AfterPart
<1>6. PhotosFit' /\ GalleryFollows'
  <2>1. CASE photos' = Again(photos)
    <3>1. photos'.asked /\ photos'.answer = None
      BY <2>1 DEF DetailInductive, DetailTypes, Again, Reading
    <3> QED BY <1>1, <3>1 DEF DetailInductive, PhotosFit, GalleryFollows
  <2>2. CASE photos' = photos /\ h.sent = 0 /\ h.answer \in {"refused", "lost"}
    <3>1. ~Owes(j)
      BY <1>2, <2>2 DEF Owes
    <3>2. \A i \in Jobs : Owes(i) => Owes(i)'
      BY <1>3, <3>1 DEF Owes, Doing, Working
    <3> QED BY <1>1, <2>2, <3>2, GalleryStays
  <2> QED BY <1>5, <2>1, <2>2
<1>7. photos' \in Reading(PhotoList)
  BY <1>5 DEF DetailInductive, DetailTypes, Again, Reading
<1>8. DetailTypes' /\ EditsRead'
  BY <1>1, <1>3, <1>4, <1>7 DEF DetailInductive, DetailTypes, EditsRead
<1> QED BY <1>3, <1>6, <1>8 DEF DetailInductive

-----------------------------------------------------------------------------
(* The archive's side of the trip screen.                                  *)

\* What an answer makes of the handler it is to.
LEMMA ReplyMoves ==
    ASSUME DetailInductive, NEW j \in Jobs, NEW h \in Handler, job[j] = h,
           NEW how \in {"ok", "refused", "lost"}, Reply(j, how), at' = at,
           untold \subseteq untold', how = "lost" => h.of \in untold'
    PROVE  /\ job' \in [Jobs -> Handler \cup {None}] /\ AllAtWork'
           /\ \A i \in Jobs : i # j => job'[i] = job[i]
           /\ ~h.gone => /\ h.of = at /\ job'[j] # None /\ ~job'[j].gone
                         /\ job'[j].do = h.do /\ job'[j].sent = h.sent /\ job'[j].answer = how
           /\ h.gone => h.of \in untold
<1> DEFINE q == [h EXCEPT !.answer = how]
<1>1. q \in Handler /\ q # None
  BY HandlersTyped
<1>2. /\ q.do = h.do /\ q.of = h.of /\ q.what = h.what /\ q.sent = h.sent /\ q.answer = how
      /\ q.gone = h.gone /\ q.shown = h.shown
  BY DEF Handler, Work
<1>3. AtWork(h) /\ h # None
  BY HandlersTyped DEF DetailInductive, AllAtWork
<1>4. job' = [job EXCEPT ![j] = IF h.gone THEN None ELSE q]
  BY DEF Reply
<1> HIDE DEF q
<1>5. AtWork(IF h.gone THEN None ELSE q)'
  BY <1>1, <1>2, <1>3 DEF AtWork
<1>6. /\ job' \in [Jobs -> Handler \cup {None}] /\ AllAtWork'
      /\ job'[j] = (IF h.gone THEN None ELSE q) /\ \A i \in Jobs : i # j => job'[i] = job[i]
  BY <1>1, <1>4, <1>5, PutWork DEF DetailInductive
<1> QED BY <1>1, <1>2, <1>3, <1>6 DEF AtWork

LEMMA StorePhotoKeeps ==
    ASSUME DetailInductive, NEW j \in Jobs, StorePhoto(j)
    PROVE  DetailInductive'
<1>1. /\ UNCHANGED <<at, trip, photos, cached, controls, fields, gone, untold, events>>
      /\ job[j] # None /\ job[j].do = "upload" /\ Reply(j, "ok")
      /\ stored' = [stored EXCEPT ![job[j].of] = Append(@, job[j].what[job[j].sent + 1])]
  BY DEF StorePhoto, AtArchive
<1>2. PICK h \in Handler : job[j] = h
  BY <1>1, JobsTyped DEF DetailInductive
<1>3. /\ job' \in [Jobs -> Handler \cup {None}] /\ AllAtWork'
      /\ ~h.gone => /\ h.of = at /\ job'[j] # None /\ ~job'[j].gone
                    /\ job'[j].do = h.do /\ job'[j].answer = "ok"
      /\ h.gone => h.of \in untold
  BY <1>1, <1>2, ReplyMoves
<1>4. PICK x \in Photo : h.what[h.sent + 1] = x
  <2>1. h.what \in Seq(Photo) /\ h.sent \in Nat /\ h.sent < Len(h.what)
    BY <1>1, <1>2, HandlersTyped DEF DetailInductive, AllAtWork, AtWork
  <2> QED BY <2>1
<1>5. h.of \in Trips /\ stored' = [stored EXCEPT ![h.of] = Append(stored[h.of], x)]
  BY <1>1, <1>2, <1>4, HandlersTyped
<1>6. /\ stored' \in [Trips -> Seq(Photo)]
      /\ \A t \in Trips : stored'[t] = IF t = h.of THEN Append(stored[t], x) ELSE stored[t]
  BY <1>5 DEF DetailInductive, DetailTypes
<1>7. ASSUME NEW s \in Seq(Photo), NEW t \in Trips, IsPrefix(s, stored[t])
      PROVE  IsPrefix(s, stored'[t])
  <2>1. stored[t] \in Seq(Photo)
    BY DEF DetailInductive, DetailTypes
  <2>2. IsPrefix(s, Append(stored[t], x))
    BY <1>7, <2>1, PrefixGrows
  <2> QED BY <1>6, <1>7, <2>2
<1>8. PhotosFit'
  <2>1. photos.answer # None => photos.answer.photos \in Seq(Photo)
    BY ControlsTyped DEF DetailInductive, PhotoList
  <2>2. cached # None => cached.photos \in Seq(Photo) /\ cached.of \in Trips
    BY DEF DetailInductive, DetailTypes, PhotoList
  <2>3. at \in Trips
    BY DEF DetailInductive, DetailTypes
  <2> QED BY <1>1, <1>7, <2>1, <2>2, <2>3 DEF DetailInductive, PhotosFit
<1>9. GalleryFollows'
  <2>1. CASE ~h.gone
    BY <1>1, <1>2, <1>3, <2>1 DEF GalleryFollows, Owes, Doing, Working
  <2>2. CASE h.gone
    <3> SUFFICES ASSUME at \notin untold \cup gone PROVE GalleryFollows'
      BY <1>1 DEF GalleryFollows
    <3>1. stored'[at] = stored[at]
      BY <1>3, <1>6, <2>2 DEF DetailInductive, DetailTypes
    <3>2. \A i \in Jobs : i # j => job'[i] = job[i]
      BY <1>1, <1>2, ReplyMoves
    <3>3. ~Owes(j)
      BY <1>2, <2>2 DEF Owes, Doing, Working
    <3>4. (\E i \in Jobs : Owes(i)) => (\E i \in Jobs : Owes(i)')
      BY <3>2, <3>3 DEF Owes, Doing, Working
    <3> QED BY <1>1, <3>1, <3>4 DEF DetailInductive, GalleryFollows, Gallery
  <2> QED BY <2>1, <2>2
<1>10. DetailTypes' /\ EditsRead'
  BY <1>1, <1>3, <1>6 DEF DetailInductive, DetailTypes, EditsRead
<1> QED BY <1>3, <1>8, <1>9, <1>10 DEF DetailInductive

\* Answers that change no photo.
LEMMA RepliesKeep ==
    ASSUME DetailInductive, NEW j \in Jobs,
           StoreEdit(j) \/ DeleteRow(j) \/ RefuseJob(j) \/ LoseJob(j)
    PROVE  DetailInductive'
<1>1. /\ UNCHANGED <<at, trip, photos, cached, controls, stored, events>> /\ job[j] # None
  BY DEF StoreEdit, DeleteRow, RefuseJob, LoseJob, AtArchive, archived
<1>2. PICK h \in Handler : job[j] = h
  BY <1>1, JobsTyped DEF DetailInductive
<1>3. h.of \in Trips
  BY HandlersTyped
<1>4. PICK how \in {"ok", "refused", "lost"} :
        /\ Reply(j, how) /\ untold \subseteq untold' /\ untold' \subseteq Trips
        /\ how = "lost" => h.of \in untold'
  BY <1>2, <1>3 DEF StoreEdit, DeleteRow, RefuseJob, LoseJob, DetailInductive, DetailTypes
<1>5. /\ job' \in [Jobs -> Handler \cup {None}] /\ AllAtWork'
      /\ \A i \in Jobs : i # j => job'[i] = job[i]
      /\ ~h.gone => /\ h.of = at /\ job'[j] # None /\ ~job'[j].gone
                    /\ job'[j].do = h.do /\ job'[j].sent = h.sent /\ job'[j].answer = how
  BY <1>1, <1>2, <1>4, ReplyMoves
<1>6. fields' \in [Trips -> Form]
  <2>1. CASE StoreEdit(j)
    <3>1. h.what \in Altered
      BY <1>2, <2>1, HandlersTyped DEF StoreEdit, AtArchive
    <3>2. PICK S \in SUBSET Fields : h.what \in [S -> 0 .. MaxValue]
      BY <3>1 DEF Altered
    <3>3. fields' = [fields EXCEPT ![h.of] =
                       [f \in Fields |-> IF f \in DOMAIN h.what THEN h.what[f] ELSE fields[h.of][f]]]
      BY <1>2, <1>3, <2>1 DEF StoreEdit
    <3>4. [f \in Fields |-> IF f \in DOMAIN h.what THEN h.what[f] ELSE fields[h.of][f]] \in Form
      BY <1>3, <3>2 DEF Form, DetailInductive, DetailTypes
    <3> QED BY <3>3, <3>4 DEF DetailInductive, DetailTypes
  <2>2. CASE DeleteRow(j) \/ RefuseJob(j) \/ LoseJob(j)
    BY <2>2 DEF DeleteRow, RefuseJob, LoseJob, archived, DetailInductive, DetailTypes
  <2> QED BY <2>1, <2>2
<1>7. gone \subseteq gone' /\ gone' \subseteq Trips
  BY <1>2, <1>3 DEF StoreEdit, DeleteRow, RefuseJob, LoseJob, archived, DetailInductive, DetailTypes
<1>8. (\A i \in Jobs : Owes(i) => Owes(i)') \/ at \in untold'
  <2>1. \A i \in Jobs : i # j /\ Owes(i) => Owes(i)'
    BY <1>5 DEF Owes, Doing, Working
  <2>2. Owes(j) => Owes(j)' \/ at \in untold'
    <3> SUFFICES ASSUME Owes(j), at \notin untold' PROVE Owes(j)'
      OBVIOUS
    <3>1. h.do = "upload" /\ ~h.gone /\ (h.sent > 0 \/ h.answer = "ok") /\ h.of = at
      BY <1>2, <1>5 DEF Owes, Doing, Working
    <3>2. ~LoseJob(j)
      BY <1>2, <3>1 DEF LoseJob
    <3>3. h.answer = None
      BY <1>2, <3>2 DEF StoreEdit, DeleteRow, RefuseJob, AtArchive
    <3>4. h.sent > 0
      BY <3>1, <3>3, DetailAssumption
    <3> QED BY <1>5, <3>1, <3>4 DEF Owes, Doing, Working
  <2> QED BY <2>1, <2>2
<1>9. PhotosFit'
  BY <1>1, <1>7 DEF DetailInductive, PhotosFit
<1>10. GalleryFollows'
  <2> SUFFICES ASSUME at \notin untold' \cup gone' PROVE GalleryFollows'
    BY <1>1 DEF GalleryFollows
  <2>1. at \notin untold \cup gone /\ \A i \in Jobs : Owes(i) => Owes(i)'
    BY <1>4, <1>7, <1>8
  <2> QED BY <1>1, <2>1 DEF DetailInductive, GalleryFollows, Gallery
<1>11. DetailTypes' /\ EditsRead'
  BY <1>1, <1>4, <1>5, <1>6, <1>7 DEF DetailInductive, DetailTypes, EditsRead
<1> QED BY <1>5, <1>9, <1>10, <1>11 DEF DetailInductive

LEMMA ElsewhereEdited ==
    ASSUME DetailInductive, NEW t \in Trips, NEW f \in Fields, NEW v \in 0 .. MaxValue,
           Elsewhere(t, f, v)
    PROVE  DetailInductive'
<1>1. /\ UNCHANGED <<at, trip, photos, cached, controls, job, stored, gone, untold>>
      /\ events' = events + 1 /\ fields' = [fields EXCEPT ![t] = [fields[t] EXCEPT ![f] = v]]
  BY DEF Elsewhere, Event, DetailInductive, DetailTypes
<1>2. [fields[t] EXCEPT ![f] = v] \in Form
  BY DEF DetailInductive, DetailTypes, Form
<1>3. DetailTypes' /\ EditsRead'
  BY <1>1, <1>2 DEF DetailInductive, DetailTypes, EditsRead
<1> QED BY <1>1, <1>3, SameJobs DEF DetailInductive

-----------------------------------------------------------------------------
(* The trip screen among the others.                                       *)

\* The clicks counted, on whichever screen.
LEMMA EventsCounted ==
    ASSUME events \in Nat,
           LinkScreenNext \/ ListNext \/ ImportNext
    PROVE  events' \in Nat
<1>1. CASE LinkScreenNext
  <2>1. CASE \/ \E to \in Pages : OpenPage(to)
             \/ \E p \in Linkable : \E to \in p : Follow(p, to)
             \/ OpenProposed \/ ShowPage
    BY <2>1 DEF OpenPage, Follow, OpenProposed, ShowPage, Click, Event
  <2>2. CASE \/ ReadLinks \/ ShowLinks \/ Draw \/ \E o \in Pages : Tick(o)
             \/ ReadListed \/ ShowListed \/ ReadCount \/ ShowCount
             \/ \E pairs \in SUBSET Linkable : SelectPairs(pairs)
    BY <2>2 DEF ReadLinks, ShowLinks, Draw, Tick, ReadListed, ShowListed, ReadCount, ShowCount,
       SelectPairs, Click, Event
  <2>3. ASSUME NEW j \in Presses,
               \/ \E o \in Pages : RemoveRow(j, o)
               \/ \E do \in {"confirm", "dismiss"} :
                    \/ \E others \in SUBSET Pages : SettleRows(j, do, others)
                    \/ SettleSelected(j, do)
               \/ LookForLinks(j)
        PROVE  events' \in Nat
    <3>1. Click
      BY <2>3, Zenon DEF RemoveRow, SettleRows, SettleSelected, LookForLinks
    <3> QED BY <3>1 DEF Click
  <2>4. ASSUME NEW j \in Presses, HearBack(j) \/ Carry(j) \/ TurnDown(j) \/ CutOff(j)
        PROVE  events' \in Nat
    BY <2>4 DEF HearBack, Carry, TurnDown, CutOff
  <2>5. ASSUME NEW p \in Linkable, NEW to \in {None, "proposed"}, JoinedElsewhere(p, to)
        PROVE  events' \in Nat
    BY <2>5 DEF JoinedElsewhere, Click, Event
  <2> QED BY <1>1, <2>1, <2>2, <2>3, <2>4, <2>5 DEF LinkScreenNext
<1>2. CASE ListNext
  <2>1. \A f : Filter(f) => events' \in Nat
    BY DEF Filter, Move
  <2>2. CASE \/ \E k \in Kinds : Toggle(k)
             \/ FilterMarked \/ FilterTagged \/ Clear
             \/ \E v \in Views, fitted \in BOOLEAN : Settle(v, fitted)
             \/ \E on \in BOOLEAN : FilterToMap(on)
    BY <2>1, <2>2 DEF Toggle, FilterMarked, FilterTagged, Clear, Settle, FilterToMap
  <2>3. CASE ReadTrips \/ ReadCollections \/ ListTrips \/ ListCollections
    BY <2>3 DEF ReadTrips, ReadCollections, ListTrips, ListCollections
  <2>4. CASE \/ \E to \in 0 .. Len(Order) : Turn(to)
             \/ \E i \in Items : PickOne(i)
             \/ PickAll \/ \E action \in Actions : Open(action)
    <3>1. Move
      BY <2>4, Zenon DEF Turn, PickOne, PickAll, Open
    <3> QED BY <3>1 DEF Move
  <2>5. CASE Send
    BY <2>5 DEF Send, Move
  <2>6. ASSUME NEW s \in sent, Applied(s) \/ Apply(s) \/ NotApplied(s) \/ LoseAnswer(s)
        PROVE  events' = events
    BY <2>6, Zenon DEF Applied, Apply, NotApplied, LoseAnswer
  <2> QED BY <1>2, <2>2, <2>3, <2>4, <2>5, <2>6 DEF ListNext, ListClick, ListArchive
<1>3. CASE ImportNext
  BY <1>3 DEF ImportNext, ImportClick, ImportHandler, ImportArchive, Event
<1> QED BY <1>1, <1>2, <1>3

\* What the other screens do leaves this one's state.
LEMMA DetailLeft ==
    ASSUME DetailInductive, UNCHANGED detailing, events' \in Nat
    PROVE  DetailInductive'
<1>1. UNCHANGED <<at, trip, photos, cached, controls, job, fields, stored, gone, untold>>
  BY DEF detailing
<1>2. DetailTypes' /\ EditsRead'
  BY <1>1 DEF DetailInductive, DetailTypes, EditsRead
<1> QED BY <1>1, <1>2, SameJobs DEF DetailInductive

LEMMA DetailClicked ==
    ASSUME DetailInductive, DetailClick
    PROVE  DetailInductive'
<1>1. ASSUME NEW j \in Jobs,
             \/ FilesRead(j) \/ Upload(j) \/ NextFile(j) \/ Uploaded(j) \/ UploadStopped(j)
             \/ Save(j) \/ Saved(j) \/ ConfirmDelete(j) \/ NotDeleted(j)
      PROVE  DetailInductive'
  BY <1>1, BeginningsKeep, NextFileKeeps, UploadsEnd, SaveKeeps, EndingsKeep, SavedKeeps
<1>2. ASSUME NEW j \in Jobs, NEW files \in Picks, PickFiles(j, files) PROVE DetailInductive'
  BY <1>2, BeginningsKeep
<1> QED
  BY <1>1, <1>2, NavigateKeeps, ReadTripKeeps, ShowTripKeeps, ReadPhotosKeeps, ShowPhotosKeeps,
     ClosingKeeps, SignalsKeep DEF DetailClick

LEMMA ArchiveKeeps ==
    ASSUME DetailInductive, DetailArchive
    PROVE  DetailInductive'
BY StorePhotoKeeps, RepliesKeep, ElsewhereEdited DEF DetailArchive

\* A trip screen opened afresh.
LEMMA OpenTripKeeps ==
    ASSUME DetailInductive, TripsAway, OpenTrip
    PROVE  DetailInductive'
<1>1. /\ UNCHANGED <<trip, photos, cached, controls, job, fields, stored, gone, untold>>
      /\ at' \in Trips /\ events' = events + 1
      /\ photos = Opening /\ cached = None /\ Working = {}
  BY DEF OpenTrip, TripsAway, Event
<1>2. DetailTypes' /\ EditsRead'
  BY <1>1 DEF DetailInductive, DetailTypes, EditsRead
<1>3. AllAtWork'
  BY <1>1 DEF DetailInductive, AllAtWork, AtWork, Working
<1>4. photos'.asked /\ photos'.answer = None /\ cached' = None
  BY <1>1 DEF Opening, Closed
<1>5. PhotosFit' /\ GalleryFollows'
  BY <1>4 DEF PhotosFit, GalleryFollows
<1> QED BY <1>2, <1>3, <1>5 DEF DetailInductive

\* The archive's steps leave an abandoned screen abandoned.
LEMMA NothingResumes ==
    ASSUME DetailTypes, Working = {}, DetailArchive
    PROVE  Working' = {} /\ UNCHANGED <<trip, photos, cached, controls>>
<1>1. UNCHANGED <<trip, photos, cached, controls>>
  BY DEF DetailArchive, StorePhoto, StoreEdit, DeleteRow, RefuseJob, LoseJob, Elsewhere
<1>2. ASSUME NEW j \in Jobs, StorePhoto(j) \/ StoreEdit(j) \/ DeleteRow(j) \/ RefuseJob(j) \/ LoseJob(j)
      PROVE  Working' = {}
  <2>1. job[j] # None /\ \E how : Reply(j, how)
    BY <1>2 DEF StorePhoto, StoreEdit, DeleteRow, RefuseJob, LoseJob, AtArchive
  <2>2. job[j].gone
    BY <2>1 DEF Working
  <2>3. job' = [job EXCEPT ![j] = None]
    BY <2>1, <2>2 DEF Reply
  <2> QED BY <2>3 DEF Working, DetailTypes
<1>3. job' = job => Working' = {}
  BY DEF Working
<1> QED BY <1>1, <1>2, <1>3 DEF DetailArchive, Elsewhere

LEMMA DetailStarts ==
    BrowserInit => DetailInductive /\ TripsAway
<1> SUFFICES ASSUME DetailInit PROVE DetailInductive /\ TripsAway
  BY DEF BrowserInit
<1>1. DetailTypes
  <2>1. fields \in [Trips -> Form] /\ stored \in [Trips -> Seq(Photo)]
    BY DetailAssumption DEF DetailInit, Form
  <2> QED BY <2>1 DEF DetailInit, DetailTypes, Reading, Opening, Closed, Idle
<1>2. Working = {} /\ AllAtWork
  BY DEF DetailInit, Working, AllAtWork, AtWork
<1>3. EditsRead /\ PhotosFit /\ GalleryFollows
  BY DEF DetailInit, Idle, EditsRead, PhotosFit, GalleryFollows, Opening, Closed
<1> QED BY <1>1, <1>2, <1>3 DEF DetailInductive, TripsAway, DetailInit

LEMMA DetailStays ==
    DetailInductive /\ TripsAway /\ [BrowserNext]_vars => (DetailInductive /\ TripsAway)'
<1> SUFFICES ASSUME DetailInductive, TripsAway, [BrowserNext]_vars
             PROVE  DetailInductive' /\ TripsAway'
  OBVIOUS
<1>0. events \in Nat
  BY DEF DetailInductive, DetailTypes
<1>1. ASSUME UNCHANGED detailing, events' \in Nat, route' # "trip" => route # "trip"
      PROVE  DetailInductive' /\ TripsAway'
  <2>1. DetailInductive'
    BY <1>1, DetailLeft
  <2>2. UNCHANGED <<trip, photos, cached, controls, job>>
    BY <1>1 DEF detailing
  <2>3. TripsAway'
    BY <1>1, <2>2 DEF TripsAway, Working
  <2> QED BY <2>1, <2>3
<1>2. CASE UNCHANGED vars
  BY <1>0, <1>1, <1>2 DEF vars
<1>3. CASE route = "links" /\ LinkScreenNext /\ UNCHANGED <<route, importing, listing, detailing>>
  BY <1>0, <1>1, <1>3, EventsCounted
<1>4. CASE OpenList \/ OpenImport
  BY <1>0, <1>1, <1>4 DEF OpenList, OpenImport, Event
<1>5. CASE LeaveList \/ LeaveImport
  BY <1>0, <1>1, <1>5 DEF LeaveList, LeaveImport
<1>6. CASE OnImport
  BY <1>0, <1>1, <1>6, EventsCounted DEF OnImport, ImportNext
<1>7. CASE OnList
  BY <1>0, <1>1, <1>7, EventsCounted DEF OnList, ListNext
<1>8. CASE Archive
  <2>1. CASE ImportArchive /\ UNCHANGED <<route, listing, detailing>>
    BY <1>0, <1>1, <2>1, EventsCounted DEF ImportNext
  <2>2. CASE ListArchive /\ UNCHANGED <<route, importing, detailing>>
    BY <1>0, <1>1, <2>2, EventsCounted DEF ListNext
  <2>3. CASE DetailArchive /\ UNCHANGED <<route, importing, listing>>
    <3>1. DetailInductive'
      BY <2>3, ArchiveKeeps
    <3>2. TripsAway'
      BY <2>3, NothingResumes DEF DetailInductive, TripsAway
    <3> QED BY <3>1, <3>2
  <2> QED BY <1>8, <2>1, <2>2, <2>3 DEF Archive
<1>9. CASE OpenTrip
  <2>1. DetailInductive'
    BY <1>9, OpenTripKeeps
  <2>2. TripsAway'
    BY <1>9 DEF OpenTrip, TripsAway
  <2> QED BY <2>1, <2>2
<1>10. CASE OnTrip
  <2>1. DetailInductive'
    BY <1>10, DetailClicked DEF OnTrip
  <2>2. TripsAway'
    BY <1>10 DEF OnTrip, TripsAway
  <2> QED BY <2>1, <2>2
<1>11. CASE LeaveTrip \/ TripDeleted
  <2>1. Away
    BY <1>11 DEF LeaveTrip, TripDeleted, Deleted
  <2>2. DetailInductive' /\ Working' = {}
    BY <2>1, AwayKeeps
  <2>3. TripsAway'
    BY <2>1, <2>2 DEF Away, TripsAway
  <2> QED BY <2>2, <2>3
<1> QED
  BY <1>2, <1>3, <1>4, <1>5, <1>6, <1>7, <1>8, <1>9, <1>10, <1>11 DEF BrowserNext

\* photos.rs, edit.rs and delete.rs: handlers belong to the trip shown or were
\* noted as given up, and what is shown of its photos is of it, or a read is due.
THEOREM TripScreenStaysSound == BrowserSpec => []DetailInductive
<1>1. BrowserInit => DetailInductive /\ TripsAway
  BY DetailStarts
<1>2. DetailInductive /\ TripsAway /\ [BrowserNext]_vars => (DetailInductive /\ TripsAway)'
  BY DetailStays
<1> QED BY <1>1, <1>2, PTL DEF BrowserSpec

\* The gallery never shows another trip's photos, and all of the trip's own
\* once reads and uploads are over, a stopped upload's included.
THEOREM GalleryKeepsUp == BrowserSpec => []GalleryIsCurrent
<1>1. DetailInductive => GalleryIsCurrent
  <2> SUFFICES ASSUME DetailInductive, Gallery # None
               PROVE  /\ IsPrefix(Gallery.photos, stored[at])
                      /\ (~photos.asked /\ photos.answer = None /\ Doing({"upload"}) = {}
                            /\ at \notin untold \cup gone) => Gallery.photos = stored[at]
    BY DEF GalleryIsCurrent
  <2>1. IsPrefix(Gallery.photos, stored[at])
    BY DEF DetailInductive, PhotosFit, Gallery
  <2>2. ASSUME ~photos.asked, photos.answer = None, Doing({"upload"}) = {}, at \notin untold \cup gone
        PROVE  Gallery.photos = stored[at]
    BY <2>2 DEF DetailInductive, GalleryFollows, Owes
  <2> QED BY <2>1, <2>2
<1> QED BY <1>1, TripScreenStaysSound, PTL

\* A step that stores an edit is the edit's own, and carries only what differs
\* from the form as it was shown.
LEMMA StoresOnlyAltered ==
    ASSUME DetailInductive, NEW j \in Jobs, NEW f \in Fields, BrowserNext,
           AtArchive(j, "edit"), fields' # fields, job'[j] # job[j],
           fields'[job[j].of][f] # fields[job[j].of][f]
    PROVE  fields'[job[j].of][f] # job[j].shown[f]
<1>1. PICK i \in Jobs : StoreEdit(i)
  <2>1. ~UNCHANGED detailing
    BY DEF detailing
  <2>2. ~UNCHANGED archived
    BY DEF archived
  <2>3. DetailArchive
    BY <2>1, <2>2 DEF BrowserNext, OpenList, OpenImport, OpenTrip, LeaveList, LeaveImport, LeaveTrip,
       TripDeleted, OnImport, OnList, OnTrip, Archive, Away, Deleted, DetailClick, Navigate, ReadTrip,
       ShowTrip, ReadPhotos, ShowPhotos, ToggleAdding, PickFiles, OpenEdit, CloseEdit, Alter, Arm,
       FilesRead, Upload, NextFile, Uploaded, UploadStopped, Save, Saved, ConfirmDelete, NotDeleted
  <2> QED BY <2>3 DEF DetailArchive, StorePhoto, DeleteRow, RefuseJob, LoseJob, Elsewhere, archived
<1>2. i = j
  BY <1>1 DEF StoreEdit, Reply, DetailInductive, DetailTypes
<1>3. PICK h \in Handler : job[j] = h
  BY JobsTyped DEF AtArchive, DetailInductive
<1>4. h.of \in Trips /\ h # None /\ h.do = "edit"
  BY <1>3, HandlersTyped DEF AtArchive
<1>5. fields'[h.of][f] = IF f \in DOMAIN h.what THEN h.what[f] ELSE fields[h.of][f]
  <2>1. fields' = [fields EXCEPT ![h.of] =
                     [g \in Fields |-> IF g \in DOMAIN h.what THEN h.what[g] ELSE fields[h.of][g]]]
    BY <1>1, <1>2, <1>3, <1>4 DEF StoreEdit
  <2> QED BY <1>4, <2>1 DEF DetailInductive, DetailTypes
<1>6. \A g \in DOMAIN h.what : h.what[g] # h.shown[g]
  BY <1>3, <1>4 DEF DetailInductive, AllAtWork, AtWork
<1> QED BY <1>3, <1>5, <1>6

\* US-15: an edit that arrives changes no field the owner left as shown,
\* whatever else changed the trip since.
THEOREM OnlyAlteredIsSaved == BrowserSpec => SavesOnlyAltered
<1> DEFINE Altering == \A j \in Jobs : AtArchive(j, "edit") /\ fields' # fields /\ job'[j] # job[j] =>
              \A f \in Fields : fields'[job[j].of][f] # fields[job[j].of][f] =>
                  fields'[job[j].of][f] # job[j].shown[f]
<1>1. DetailInductive /\ [BrowserNext]_vars => [Altering]_detail
  <2>1. CASE UNCHANGED vars
    BY <2>1 DEF vars, detailing
  <2>2. CASE BrowserNext
    BY <2>2, StoresOnlyAltered
  <2> QED BY <2>1, <2>2
<1> QED BY <1>1, TripScreenStaysSound, PTL DEF BrowserSpec, SavesOnlyAltered

-----------------------------------------------------------------------------
(* The list.                                                               *)

LEMMA SortsTyped ==
    ASSUME NEW i \in Items
    PROVE  /\ KindOf(i) \in Kinds /\ (KindOf(i) = "collections" <=> ~IsTrip(i))
           /\ (KindOf(i) \in TripKinds <=> IsTrip(i))
<1>1. SortOf[i] \in {"recorded", "planned", "collection", "track"}
  BY ListAssumption
<1> QED BY <1>1 DEF KindOf, IsTrip, Kinds, TripKinds

\* None stands for nothing the list screen asks or reads.
LEMMA ListNone ==
    /\ None \notin Actions /\ None \notin ListRead
    /\ None \notin Queries(SUBSET Kinds)
    /\ None \notin Queries(SUBSET TripKinds) /\ None \notin Queries({{"collections"}})
<1>1. None \notin Actions /\ None \notin ListRead /\ None \notin Queries(SUBSET Kinds)
  BY ListApart
<1>2. TripKinds \subseteq Kinds /\ {"collections"} \subseteq Kinds
  BY DEF TripKinds, Kinds
<1>3. Queries(SUBSET TripKinds) \subseteq Queries(SUBSET Kinds)
  BY <1>2 DEF Queries
<1>4. Queries({{"collections"}}) \subseteq Queries(SUBSET Kinds)
  BY <1>2 DEF Queries
<1> QED BY <1>1, <1>3, <1>4

LEMMA QueriesTyped ==
    ASSUME NEW f \in [kinds : SUBSET Kinds, marked : BOOLEAN, tagged : BOOLEAN,
                      bbox : Views \cup {None}, followed : BOOLEAN]
    PROVE  /\ TripQuery(f) \in Queries(SUBSET TripKinds) \cup {None}
           /\ CollectionQuery(f) \in Queries({{"collections"}}) \cup {None}
           /\ (TripQuery(f) = None <=> TripsOnly(f) = {})
           /\ (CollectionQuery(f) = None <=> "collections" \notin f.kinds)
           /\ TripQuery(f) # None => TripQuery(f).kinds = TripsOnly(f)
<1>1. TripsOnly(f) \in SUBSET TripKinds
  BY DEF TripsOnly, TripKinds
<1>2. TripsOnly(f) # {} => /\ TripQuery(f) \in Queries(SUBSET TripKinds)
                           /\ TripQuery(f).kinds = TripsOnly(f)
  BY <1>1 DEF TripQuery, Queries
<1>3. "collections" \in f.kinds => CollectionQuery(f) \in Queries({{"collections"}})
  BY DEF CollectionQuery, Queries
<1>4. /\ TripsOnly(f) = {} => TripQuery(f) = None
      /\ "collections" \notin f.kinds => CollectionQuery(f) = None
  BY DEF TripQuery, CollectionQuery
<1> QED BY <1>2, <1>3, <1>4, ListNone

LEMMA ListAnswersTyped ==
    ASSUME NEW q \in Queries(SUBSET Kinds)
    PROVE  \A a \in {Answer(q), NoAnswer(q)} :
              a \in ListRead /\ a # None /\ a.kinds = q.kinds /\ OfItsKinds(a)
<1>1. q.kinds \in SUBSET Kinds
  BY DEF Queries
<1>2. {<<i, i \in marks>> : i \in Matching(q)} \subseteq Items \X BOOLEAN
  <2>1. ASSUME NEW i \in Items PROVE <<i, i \in marks>> \in Items \X BOOLEAN
    <3>1. \A m \in BOOLEAN : <<i, m>> \in Items \X BOOLEAN
      OBVIOUS
    <3>2. (i \in marks) \in BOOLEAN
      OBVIOUS
    <3> QED BY <3>1, <3>2, Zenon
  <2> QED BY <2>1, Zenon DEF Matching
<1>3. Answer(q) \in ListRead /\ NoAnswer(q) \in ListRead
  BY <1>1, <1>2 DEF Answer, NoAnswer, ListRead
<1>4. Answer(q).kinds = q.kinds /\ NoAnswer(q).kinds = q.kinds /\ NoAnswer(q).rows = {}
  BY DEF Answer, NoAnswer
<1>5. \A row \in Answer(q).rows : KindOf(row[1]) \in q.kinds
  BY DEF Answer, Matching
<1> QED BY <1>3, <1>4, <1>5, ListNone DEF OfItsKinds

\* A resource keeps its type through what the screen does with it.
LEMMA QueriedTyped ==
    ASSUME NEW queries, None \notin queries, NEW r \in Queried(queries),
           r.asked => r.key # None, NEW q \in queries \cup {None}
    PROVE  /\ \A s \in {Requery(r, q), Restart(r), Fresh(q)} :
                 /\ s \in Queried(queries) /\ (s.asked => s.key # None)
                 /\ s.read \in {r.read, None} /\ s.answer \in {r.answer, None}
           /\ \A s \in {Requery(r, q), Restart(r)} : s = r \/ s.key = None \/ s.asked
           /\ Fresh(q).key = None \/ Fresh(q).asked
           /\ Fresh(q).read = None /\ Fresh(q).answer = None
<1>1. /\ Requery(r, q) \in Queried(queries) /\ (Requery(r, q).asked => Requery(r, q).key # None)
      /\ Requery(r, q).read \in {r.read, None} /\ Requery(r, q).answer \in {r.answer, None}
      /\ Requery(r, q) = r \/ Requery(r, q).key = None \/ Requery(r, q).asked
  <2>1. CASE q = r.key
    BY <2>1 DEF Requery
  <2>2. CASE q # r.key
    BY <2>2 DEF Requery, Queried
  <2> QED BY <2>1, <2>2
<1>2. /\ Restart(r) \in Queried(queries) /\ (Restart(r).asked => Restart(r).key # None)
      /\ Restart(r).read = r.read /\ Restart(r).answer = None
      /\ Restart(r).key = None \/ Restart(r).asked
  BY DEF Restart, Queried
<1>3. /\ Fresh(q) \in Queried(queries) /\ (Fresh(q).asked => Fresh(q).key # None)
      /\ Fresh(q).read = None /\ Fresh(q).answer = None /\ (Fresh(q).key = None \/ Fresh(q).asked)
  BY DEF Fresh, Queried
<1> QED BY <1>1, <1>2, <1>3

\* Lists stay right while the marks stay, or are asked for anew.
LEMMA ListsStay ==
    ASSUME ListsFollow, marks' = marks,
           \A s \in sent : s.at = "applied" => s \in sent' \/ Touched(s) \subseteq astray',
           \/ trips'.key = None \/ trips'.asked
           \/ /\ trips'.key = trips.key /\ Latest(trips') \in {Answer(trips.key), NoAnswer(trips.key)}
              /\ Latest(trips') # None /\ Latest(trips').kinds = trips.key.kinds
           \/ /\ trips'.key = trips.key /\ ~trips.asked /\ Latest(trips') = Latest(trips)
              /\ "trips" \in astray => "trips" \in astray',
           \/ collections'.key = None \/ collections'.asked
           \/ /\ collections'.key = collections.key
              /\ Latest(collections') \in {Answer(collections.key), NoAnswer(collections.key)}
              /\ Latest(collections') # None /\ Latest(collections').kinds = collections.key.kinds
           \/ /\ collections'.key = collections.key /\ ~collections.asked
              /\ Latest(collections') = Latest(collections)
              /\ "collections" \in astray => "collections" \in astray'
    PROVE  ListsFollow'
<1>1. UpToKey(trips, "trips")'
  BY DEF ListsFollow, UpToKey, Latest, Answer, NoAnswer, Matching
<1>2. UpToKey(collections, "collections")'
  BY DEF ListsFollow, UpToKey, Latest, Answer, NoAnswer, Matching
<1> QED BY <1>1, <1>2 DEF ListsFollow

\* Of handlers dropped none is heard, and what was applied is known unseen.
LEMMA DroppedTyped ==
    ASSUME NEW dropped \in SUBSET Requests
    PROVE  /\ Outstanding(dropped) \subseteq Requests
           /\ \A s \in Outstanding(dropped) : s.at = "unheard"
           /\ Unseen(dropped) \subseteq {"trips", "collections"}
           /\ \A s \in dropped : s.at = "applied" => Touched(s) \subseteq Unseen(dropped)
<1>1. \A s \in Requests : /\ [s EXCEPT !.at = "unheard"] \in Requests
                         /\ [s EXCEPT !.at = "unheard"].at = "unheard"
  BY DEF Requests
<1>2. \A s : Touched(s) \subseteq {"trips", "collections"}
  BY DEF Touched
<1>3. Outstanding(dropped) \subseteq Requests /\ \A s \in Outstanding(dropped) : s.at = "unheard"
  BY <1>1 DEF Outstanding
<1>4. Unseen(dropped) \subseteq {"trips", "collections"}
  BY <1>2 DEF Unseen
<1>5. \A s \in dropped : s.at = "applied" => Touched(s) \subseteq Unseen(dropped)
  BY DEF Unseen
<1> QED BY <1>3, <1>4, <1>5

LEMMA DropKeeps ==
    ASSUME ListTypes, NEW dropped \in SUBSET sent, Drop(dropped)
    PROVE  /\ sent' \subseteq Requests /\ astray' \subseteq {"trips", "collections"}
           /\ astray \subseteq astray'
           /\ \A s \in sent : s.at = "applied" => s \in sent' \/ Touched(s) \subseteq astray'
           /\ \A s \in sent' : s.at # "unheard" => s \in sent \ dropped
<1>1. dropped \subseteq Requests /\ sent \subseteq Requests /\ astray \subseteq {"trips", "collections"}
  BY DEF ListTypes
<1>2. sent' = (sent \ dropped) \cup Outstanding(dropped) /\ astray' = astray \cup Unseen(dropped)
  BY DEF Drop
<1> QED BY <1>1, <1>2, DroppedTyped

\* What a change of the selection makes of the bar.
LEMMA SelectsKeep ==
    ASSUME ListTypes, BarFollows,
           NEW sel \in SUBSET Items, sel \subseteq picked \/ picked \subseteq sel,
           NEW open \in Actions \cup {None}, Selects(sel, open)
    PROVE  /\ picked' \subseteq Items /\ panel' \in Actions \cup {None}
           /\ sent' \subseteq Requests /\ astray' \subseteq {"trips", "collections"}
           /\ BarFollows' /\ astray \subseteq astray'
           /\ \A s \in sent : s.at = "applied" => s \in sent' \/ Touched(s) \subseteq astray'
<1>1. picked' = sel /\ panel' \in {open, None}
  BY DEF Selects, StaysOpen
<1>2. panel' # None => Alike(open, sel) /\ (open # "link" => sel # {}) /\ panel' = open
  <2> SUFFICES ASSUME panel' # None
               PROVE  Alike(open, sel) /\ (open # "link" => sel # {}) /\ panel' = open
    OBVIOUS
  <2>1. Active(open, sel) /\ panel' = open /\ open # None
    BY DEF Selects, StaysOpen
  <2>2. CASE open = "link"
    BY <2>1, <2>2 DEF Active, Alike
  <2>3. CASE open = "tag"
    BY <2>1, <2>3 DEF Active, Alike
  <2>4. CASE open = "activity"
    BY <2>1, <2>4 DEF Active, Alike
  <2> QED BY <2>1, <2>2, <2>3, <2>4 DEF Actions
<1> DEFINE dropped == {s \in sent : s.action # panel'}
<1>3. Drop(dropped) /\ dropped \in SUBSET sent
  BY Zenon DEF Selects
<1>4. /\ sent' \subseteq Requests /\ astray' \subseteq {"trips", "collections"} /\ astray \subseteq astray'
      /\ \A s \in sent : s.at = "applied" => s \in sent' \/ Touched(s) \subseteq astray'
      /\ \A s \in sent' : s.at # "unheard" => s \in sent \ dropped
  BY <1>3, DropKeeps
<1>5. ASSUME NEW s \in sent', s.at # "unheard"
      PROVE  panel' = s.action /\ Alike(s.action, s.ids \cup sel)
  <2>1. s \in sent /\ s.action = panel' /\ s \in Requests
    BY <1>4, <1>5 DEF ListTypes
  <2>2. s.action \in Actions /\ s.action # None
    BY <2>1, ListNone DEF Requests
  <2>3. panel = s.action /\ Alike(s.action, s.ids \cup picked) /\ (s.action # "link" => picked # {})
    BY <1>5, <2>1, <2>2 DEF BarFollows
  <2>4. Alike(s.action, sel) /\ (s.action # "link" => sel # {})
    BY <1>2, <2>1, <2>2
  <2>5. \A i \in sel : ~(IsTrip(i) /\ SortOf[i] = "collection")
    BY DEF IsTrip
  <2> QED BY <2>1, <2>2, <2>3, <2>4, <2>5 DEF Alike, Actions, IsTrip
<1>6. BarFollows'
  <2>1. panel' # None => Alike(panel', picked') /\ (panel' # "link" => picked' # {})
    BY <1>1, <1>2
  <2>2. \A s \in sent' : s.at # "unheard" => panel' = s.action /\ Alike(s.action, s.ids \cup picked')
    BY <1>1, <1>5
  <2> QED BY <2>1, <2>2 DEF BarFollows, Alike
<1> QED BY <1>1, <1>4, <1>6

\* The filters change: what no longer suits them is deselected, and asked anew.
LEMMA FilterKeeps ==
    ASSUME ListInductive,
           NEW f \in [kinds : SUBSET Kinds, marked : BOOLEAN, tagged : BOOLEAN,
                      bbox : Views \cup {None}, followed : BOOLEAN],
           Filter(f), view' \in [bbox : Views, fitted : BOOLEAN] \cup {None},
           f.followed /\ view' # None /\ view'.fitted => f.bbox = view'.bbox
    PROVE  ListInductive'
<1>1. RetainKinds(picked, f) \subseteq picked /\ picked \subseteq Items /\ panel \in Actions \cup {None}
  BY DEF RetainKinds, ListInductive, ListTypes
<1>2. /\ picked' \subseteq Items /\ panel' \in Actions \cup {None}
      /\ sent' \subseteq Requests /\ astray' \subseteq {"trips", "collections"}
      /\ BarFollows' /\ astray \subseteq astray'
      /\ \A s \in sent : s.at = "applied" => s \in sent' \/ Touched(s) \subseteq astray'
  BY <1>1, SelectsKeep DEF Filter, ListInductive
<1>3. /\ trips' \in Queried(Queries(SUBSET TripKinds)) /\ (trips'.asked => trips'.key # None)
      /\ trips'.read \in {trips.read, None} /\ trips'.answer \in {trips.answer, None}
      /\ trips' = trips \/ trips'.key = None \/ trips'.asked
  <2>1. trips' = Requery(trips, TripQuery(f)) /\ TripQuery(f) \in Queries(SUBSET TripKinds) \cup {None}
    BY QueriesTyped DEF Filter
  <2>2. trips \in Queried(Queries(SUBSET TripKinds)) /\ (trips.asked => trips.key # None)
    BY DEF ListInductive, ListTypes, ReadsFit
  <2> QED BY <2>1, <2>2, QueriedTyped, ListNone
<1>4. /\ collections' \in Queried(Queries({{"collections"}})) /\ (collections'.asked => collections'.key # None)
      /\ collections'.read \in {collections.read, None}
      /\ collections'.answer \in {collections.answer, None}
      /\ collections' = collections \/ collections'.key = None \/ collections'.asked
  <2>1. /\ collections' = Requery(collections, CollectionQuery(f))
        /\ CollectionQuery(f) \in Queries({{"collections"}}) \cup {None}
    BY QueriesTyped DEF Filter
  <2>2. /\ collections \in Queried(Queries({{"collections"}}))
        /\ (collections.asked => collections.key # None)
    BY DEF ListInductive, ListTypes, ReadsFit
  <2> QED BY <2>1, <2>2, QueriedTyped, ListNone
<1>5. ListTypes'
  BY <1>2, <1>3, <1>4 DEF Filter, ListTypes
<1>6. ReadsFit'
  BY <1>3, <1>4 DEF ListInductive, ReadsFit, OfItsKinds
<1>7. ListsFollow'
  BY <1>2, <1>3, <1>4, ListsStay DEF Filter, ListInductive
<1>8. RegionFollows'
  BY DEF Filter, RegionFollows
<1> QED BY <1>2, <1>5, <1>6, <1>7, <1>8 DEF ListInductive

LEMMA FiltersKeep ==
    ASSUME ListInductive,
           \/ \E k \in Kinds : Toggle(k)
           \/ FilterMarked \/ FilterTagged \/ Clear
           \/ \E v \in Views, fitted \in BOOLEAN : Settle(v, fitted)
           \/ \E on \in BOOLEAN : FilterToMap(on)
    PROVE  ListInductive'
<1> DEFINE Regions == [bbox : Views, fitted : BOOLEAN] \cup {None}
           Kept == [kinds : SUBSET Kinds, marked : BOOLEAN, tagged : BOOLEAN, bbox : Views \cup {None},
                    followed : BOOLEAN]
<1>1. filters \in Kept /\ view \in Regions
      /\ (filters.followed /\ view # None /\ view.fitted => filters.bbox = view.bbox)
  BY DEF ListInductive, ListTypes, RegionFollows
<1>2. PICK g \in Kept : filters = g
  BY <1>1
<1>3. \A f \in Kept : Filter(f) /\ view' \in Regions /\ (f.followed /\ view' # None /\ view'.fitted => f.bbox = view'.bbox)
                        => ListInductive'
  BY FilterKeeps
<1>4. ASSUME NEW k \in Kinds, Toggle(k) PROVE ListInductive'
  <2> DEFINE f == [g EXCEPT !.kinds = IF k \in g.kinds THEN g.kinds \ {k} ELSE g.kinds \cup {k}]
  <2>1. f \in Kept /\ f.followed = g.followed /\ f.bbox = g.bbox
    BY <1>2
  <2>2. Filter(f) /\ view' = view
    BY <1>2, <1>4 DEF Toggle
  <2> HIDE DEF f, Kept, Regions
  <2> QED BY <1>1, <1>2, <1>3, <2>1, <2>2
<1>5. CASE FilterMarked \/ FilterTagged
  <2> DEFINE m == [g EXCEPT !.marked = ~g.marked]
             t == [g EXCEPT !.tagged = ~g.tagged]
  <2>1. m \in Kept /\ m.followed = g.followed /\ m.bbox = g.bbox
    OBVIOUS
  <2>2. t \in Kept /\ t.followed = g.followed /\ t.bbox = g.bbox
    OBVIOUS
  <2>3. (Filter(m) \/ Filter(t)) /\ view' = view
    BY <1>2, <1>5, Zenon DEF FilterMarked, FilterTagged
  <2> HIDE DEF m, t, Kept, Regions
  <2> QED BY <1>1, <1>2, <1>3, <2>1, <2>2, <2>3
<1>6. CASE Clear
  <2>1. Cleared(g) \in Kept /\ Cleared(g).followed = FALSE
    <3>1. PICK tagged \in BOOLEAN : tagged = IF TripsOnly(g) # {} THEN FALSE ELSE g.tagged
      OBVIOUS
    <3>2. Cleared(g) = [g EXCEPT !.marked = FALSE, !.bbox = None, !.followed = FALSE,
                                 !.tagged = tagged]
      BY <3>1, Zenon DEF Cleared
    <3> QED BY <3>2
  <2>2. Filter(Cleared(g)) /\ view' = view
    BY <1>2, <1>6 DEF Clear
  <2> HIDE DEF Kept, Regions
  <2> QED BY <1>1, <1>3, <2>1, <2>2
<1>7. ASSUME NEW v \in Views, NEW fitted \in BOOLEAN, Settle(v, fitted) PROVE ListInductive'
  <2> DEFINE f == IF g.followed /\ (g.bbox # None \/ fitted) THEN [g EXCEPT !.bbox = v] ELSE g
  <2>1. f \in Kept /\ (f.followed /\ fitted => f.bbox = v)
    BY <1>2
  <2>2. Filter(f) /\ view' = [bbox |-> v, fitted |-> fitted] /\ view' \in Regions
    BY <1>2, <1>7 DEF Settle
  <2> HIDE DEF f, Kept, Regions
  <2> QED BY <1>3, <2>1, <2>2
<1>8. ASSUME NEW on \in BOOLEAN, FilterToMap(on) PROVE ListInductive'
  <2> DEFINE f == [g EXCEPT !.bbox = IF on THEN view.bbox ELSE None, !.followed = on]
  <2>1. f \in Kept /\ (f.followed => f.bbox = view.bbox)
    <3>1. view # None
      BY <1>8, Zenon DEF FilterToMap
    <3>2. view.bbox \in Views
      BY <1>1, <3>1
    <3> QED BY <3>2
  <2>2. Filter(f) /\ view' = view
    BY <1>2, <1>8, Zenon DEF FilterToMap
  <2>3. view' \in Regions
    BY <1>1, <2>2
  <2>4. f.followed /\ view' # None /\ view'.fitted => f.bbox = view'.bbox
    BY <2>1, <2>2
  <2> HIDE DEF f, Kept, Regions
  <2> QED BY <1>3, <2>1, <2>2, <2>3, <2>4
<1> QED BY <1>4, <1>5, <1>6, <1>7, <1>8

\* The reads, asked and taken in.
LEMMA ListReadsKeep ==
    ASSUME ListInductive, ReadTrips \/ ReadCollections \/ ListTrips \/ ListCollections
    PROVE  ListInductive'
<1>1. /\ UNCHANGED <<filters, view, picked, panel, page, sent, marks>>
      /\ astray' \subseteq astray
  BY DEF ReadTrips, ReadCollections, ListTrips, ListCollections
<1>2. BarFollows' /\ RegionFollows'
  BY <1>1 DEF ListInductive, BarFollows, RegionFollows, Alike
<1>3. /\ trips \in Queried(Queries(SUBSET TripKinds)) /\ (trips.asked => trips.key # None)
      /\ collections \in Queried(Queries({{"collections"}}))
      /\ (collections.asked => collections.key # None)
  BY DEF ListInductive, ListTypes, ReadsFit
<1>4. CASE ReadTrips
  <2>1. PICK q \in Queries(SUBSET TripKinds) : trips.key = q
    BY <1>3, <1>4 DEF ReadTrips, Queried
  <2>2. \A a \in {Answer(q), NoAnswer(q)} :
           a \in ListRead /\ a # None /\ OfItsKinds(a) /\ a.kinds = q.kinds
    <3>1. q \in Queries(SUBSET Kinds)
      BY DEF Queries, TripKinds
    <3> QED BY <3>1, ListAnswersTyped
  <2>3. PICK a \in {Answer(q), NoAnswer(q)} :
           \/ trips' = [trips EXCEPT !.asked = FALSE, !.answer = a]
           \/ trips' = [trips EXCEPT !.asked = FALSE, !.read = a, !.answer = None]
    BY <1>4, <2>1 DEF ReadTrips
  <2>4. a \in ListRead /\ a # None /\ OfItsKinds(a) /\ a.kinds = q.kinds
    BY <2>2, <2>3
  <2>5. collections' = collections /\ ("collections" \in astray => "collections" \in astray')
    BY <1>4 DEF ReadTrips
  <2>6. /\ trips' \in Queried(Queries(SUBSET TripKinds)) /\ ~trips'.asked /\ trips'.key = trips.key
        /\ \/ trips'.read = trips.read /\ trips'.answer = a
           \/ trips'.read = a /\ trips'.answer = None
    BY <1>3, <2>3, <2>4 DEF Queried
  <2>7. ListTypes'
    BY <1>1, <2>5, <2>6 DEF ListInductive, ListTypes
  <2>8. ReadsFit'
    BY <2>4, <2>5, <2>6 DEF ListInductive, ReadsFit, OfItsKinds
  <2>9. Latest(trips') = a
    BY <2>4, <2>6 DEF Latest
  <2>10. ListsFollow'
    BY <1>1, <2>1, <2>3, <2>4, <2>5, <2>6, <2>9, ListsStay DEF ListInductive
  <2> QED BY <1>2, <2>7, <2>8, <2>10 DEF ListInductive
<1>5. CASE ReadCollections
  <2>1. PICK q \in Queries({{"collections"}}) : collections.key = q
    BY <1>3, <1>5 DEF ReadCollections, Queried
  <2>2. \A a \in {Answer(q), NoAnswer(q)} :
           /\ a \in ListRead /\ a # None /\ OfItsKinds(a)
           /\ a.kinds = {"collections"} /\ a.kinds = q.kinds
    <3>1. q \in Queries(SUBSET Kinds) /\ q.kinds = {"collections"}
      BY DEF Queries, Kinds
    <3> QED BY <3>1, ListAnswersTyped
  <2>3. PICK a \in {Answer(q), NoAnswer(q)} :
           \/ collections' = [collections EXCEPT !.asked = FALSE, !.answer = a]
           \/ collections' = [collections EXCEPT !.asked = FALSE, !.read = a, !.answer = None]
    BY <1>5, <2>1 DEF ReadCollections
  <2>4. /\ a \in ListRead /\ a # None /\ OfItsKinds(a)
        /\ a.kinds = {"collections"} /\ a.kinds = q.kinds
    BY <2>2, <2>3
  <2>5. trips' = trips /\ ("trips" \in astray => "trips" \in astray')
    BY <1>5 DEF ReadCollections
  <2>6. /\ collections' \in Queried(Queries({{"collections"}})) /\ ~collections'.asked
        /\ collections'.key = collections.key
        /\ \/ collections'.read = collections.read /\ collections'.answer = a
           \/ collections'.read = a /\ collections'.answer = None
    BY <1>3, <2>3, <2>4 DEF Queried
  <2>7. ListTypes'
    BY <1>1, <2>5, <2>6 DEF ListInductive, ListTypes
  <2>8. ReadsFit'
    BY <2>4, <2>5, <2>6 DEF ListInductive, ReadsFit, OfItsKinds
  <2>9. Latest(collections') = a
    BY <2>4, <2>6 DEF Latest
  <2>10. ListsFollow'
    BY <1>1, <2>1, <2>3, <2>4, <2>5, <2>6, <2>9, ListsStay DEF ListInductive
  <2> QED BY <1>2, <2>7, <2>8, <2>10 DEF ListInductive
<1>6. CASE ListTrips
  <2>1. trips.answer # None /\ trips.answer \in ListRead /\ collections' = collections /\ astray' = astray
        /\ trips' = [trips EXCEPT !.read = trips.answer, !.answer = None]
    BY <1>3, <1>6 DEF ListTrips, Queried
  <2>2. /\ trips' \in Queried(Queries(SUBSET TripKinds)) /\ trips'.asked = trips.asked
        /\ trips'.read = trips.answer /\ trips'.answer = None /\ trips'.key = trips.key
    BY <1>3, <2>1 DEF Queried
  <2>3. ListTypes' /\ ReadsFit'
    BY <1>1, <2>1, <2>2 DEF ListInductive, ListTypes, ReadsFit, OfItsKinds
  <2>4. Latest(trips') = Latest(trips)
    BY <2>1, <2>2 DEF Latest
  <2>5. ListsFollow'
    BY <1>1, <2>1, <2>2, <2>4, ListsStay DEF ListInductive
  <2> QED BY <1>2, <2>3, <2>5 DEF ListInductive
<1>7. CASE ListCollections
  <2>1. collections.answer # None /\ collections.answer \in ListRead /\ trips' = trips /\ astray' = astray
        /\ collections' = [collections EXCEPT !.read = collections.answer, !.answer = None]
    BY <1>3, <1>7 DEF ListCollections, Queried
  <2>2. /\ collections' \in Queried(Queries({{"collections"}}))
        /\ collections'.asked = collections.asked /\ collections'.read = collections.answer
        /\ collections'.answer = None /\ collections'.key = collections.key
    BY <1>3, <2>1 DEF Queried
  <2>3. ListTypes' /\ ReadsFit'
    BY <1>1, <2>1, <2>2 DEF ListInductive, ListTypes, ReadsFit, OfItsKinds
  <2>4. Latest(collections') = Latest(collections)
    BY <2>1, <2>2 DEF Latest
  <2>5. ListsFollow'
    BY <1>1, <2>1, <2>2, <2>4, ListsStay DEF ListInductive
  <2> QED BY <1>2, <2>3, <2>5 DEF ListInductive
<1> QED BY <1>4, <1>5, <1>6, <1>7

\* Paging and picking.
LEMMA PicksKeep ==
    ASSUME ListInductive,
           \/ \E to \in 0 .. Len(Order) : Turn(to)
           \/ \E i \in Items : PickOne(i)
           \/ PickAll \/ \E action \in Actions : Open(action)
    PROVE  ListInductive'
<1>1. UNCHANGED <<filters, view, trips, collections, marks>>
  BY Zenon DEF Turn, PickOne, PickAll, Open
<1>2. \/ UNCHANGED <<picked, panel, sent, astray>>
      \/ \E sel \in SUBSET Items, open \in Actions \cup {None} :
            (sel \subseteq picked \/ picked \subseteq sel) /\ Selects(sel, open)
  <2>1. picked \subseteq Items /\ panel \in Actions \cup {None}
    BY DEF ListInductive, ListTypes
  <2>2. ASSUME NEW to, Turn(to) PROVE UNCHANGED <<picked, panel, sent, astray>>
    BY <2>2 DEF Turn
  <2>3. ASSUME NEW i \in Items, PickOne(i)
        PROVE  \E sel \in SUBSET Items, open \in Actions \cup {None} :
                  (sel \subseteq picked \/ picked \subseteq sel) /\ Selects(sel, open)
    <3> DEFINE sel == IF i \in picked THEN picked \ {i} ELSE picked \cup {i}
    <3>1. sel \in SUBSET Items /\ (sel \subseteq picked \/ picked \subseteq sel)
      BY <2>1
    <3>2. Selects(sel, panel)
      BY <2>3, Zenon DEF PickOne
    <3> HIDE DEF sel
    <3> QED BY <2>1, <3>1, <3>2
  <2>4. CASE PickAll
    <3> DEFINE sel == IF PageRows \subseteq picked THEN picked \ PageRows ELSE picked \cup PageRows
    <3>1. PageRows \subseteq Items
      BY DEF PageRows, Entries
    <3>2. sel \in SUBSET Items /\ (sel \subseteq picked \/ picked \subseteq sel)
      BY <2>1, <3>1
    <3>3. Selects(sel, panel)
      BY <2>4, Zenon DEF PickAll
    <3> HIDE DEF sel
    <3> QED BY <2>1, <3>2, <3>3
  <2>5. ASSUME NEW action \in Actions, Open(action)
        PROVE  \E sel \in SUBSET Items, open \in Actions \cup {None} :
                  (sel \subseteq picked \/ picked \subseteq sel) /\ Selects(sel, open)
    <3> DEFINE open == IF panel = action THEN None ELSE action
    <3>1. open \in Actions \cup {None}
      OBVIOUS
    <3>2. Selects(picked, open)
      BY <2>5, Zenon DEF Open
    <3> HIDE DEF open
    <3> QED BY <2>1, <3>1, <3>2
  <2> QED BY <2>2, <2>3, <2>4, <2>5
<1>3. CASE UNCHANGED <<picked, panel, sent, astray>>
  <2>1. ListTypes' /\ ReadsFit' /\ BarFollows' /\ RegionFollows'
    BY <1>1, <1>3 DEF ListInductive, ListTypes, ReadsFit, OfItsKinds, BarFollows, RegionFollows, Alike
  <2>2. ListsFollow'
    BY <1>1, <1>3, ListsStay DEF ListInductive
  <2> QED BY <2>1, <2>2 DEF ListInductive
<1>4. ASSUME NEW sel \in SUBSET Items, NEW open \in Actions \cup {None},
             sel \subseteq picked \/ picked \subseteq sel, Selects(sel, open)
      PROVE  ListInductive'
  <2>1. /\ picked' \subseteq Items /\ panel' \in Actions \cup {None}
        /\ sent' \subseteq Requests /\ astray' \subseteq {"trips", "collections"}
        /\ BarFollows' /\ astray \subseteq astray'
        /\ \A s \in sent : s.at = "applied" => s \in sent' \/ Touched(s) \subseteq astray'
    BY <1>4, SelectsKeep DEF ListInductive
  <2>2. ListTypes' /\ ReadsFit' /\ RegionFollows'
    BY <1>1, <2>1 DEF ListInductive, ListTypes, ReadsFit, OfItsKinds, RegionFollows
  <2>3. ListsFollow'
    BY <1>1, <2>1, ListsStay DEF ListInductive
  <2> QED BY <2>1, <2>2, <2>3 DEF ListInductive
<1> QED BY <1>2, <1>3, <1>4

\* The bar's request is sent.
LEMMA SendKeeps ==
    ASSUME ListInductive, events \in Nat, Send
    PROVE  ListInductive'
<1>1. /\ UNCHANGED <<filters, view, trips, collections, picked, panel, marks, astray>>
      /\ panel # None
      /\ sent' = sent \cup {[no |-> events, action |-> panel, ids |-> picked, at |-> "asked"]}
  BY DEF Send
<1>2. panel \in Actions /\ picked \subseteq Items
  BY <1>1 DEF ListInductive, ListTypes
<1>3. PICK s \in Requests : s = [no |-> events, action |-> panel, ids |-> picked, at |-> "asked"]
  BY <1>2 DEF Requests
<1>4. sent' = sent \cup {s} /\ s.action = panel /\ s.ids = picked /\ s.at = "asked"
  BY <1>1, <1>3
<1>5. ListTypes' /\ ReadsFit' /\ RegionFollows'
  BY <1>1, <1>4 DEF ListInductive, ListTypes, ReadsFit, OfItsKinds, RegionFollows
<1>6. BarFollows'
  BY <1>1, <1>4 DEF ListInductive, BarFollows, Alike
<1>7. ListsFollow'
  BY <1>1, <1>4, ListsStay DEF ListInductive, ListsFollow, UpToKey
<1> QED BY <1>5, <1>6, <1>7 DEF ListInductive

\* An answer is the same while the marks of what it may list are.
LEMMA AnswersAgree ==
    ASSUME NEW q, \A i \in Items : KindOf(i) \in q.kinds => (i \in marks' <=> i \in marks)
    PROVE  Answer(q)' = Answer(q)
<1>1. Matching(q)' = Matching(q)
  BY DEF Matching
<1>2. \A i \in Matching(q) : (i \in marks') = (i \in marks)
  BY DEF Matching
<1>3. {<<i, i \in marks'>> : i \in Matching(q)} = {<<i, i \in marks>> : i \in Matching(q)}
  BY <1>2
<1> QED BY <1>1, <1>3 DEF Answer

\* The archive applies a request: the lists that show it are to be renewed, or
\* the screen no longer hears of it.
LEMMA ApplyKeeps ==
    ASSUME ListInductive, NEW s \in sent, Apply(s)
    PROVE  ListInductive'
<1> DEFINE a == [s EXCEPT !.at = "applied"]
<1>1. /\ UNCHANGED <<filters, view, trips, collections, picked, panel>>
      /\ s.at \in {"asked", "unheard"} /\ marks' = marks \cup Marked(s)
      /\ sent' = (sent \ {s}) \cup (IF s.at = "unheard" THEN {} ELSE {a})
      /\ astray' = IF s.at = "unheard" THEN astray \cup Touched(s) ELSE astray
  BY Zenon DEF Apply
<1>2. s \in Requests
  BY DEF ListInductive, ListTypes
<1>3. a \in Requests /\ a.ids = s.ids /\ a.action = s.action /\ a.at = "applied"
  BY <1>2 DEF Requests
<1>4. Touched(a) = Touched(s)
  BY <1>3, Zenon DEF Touched, Marked
<1>5. Touched(s) \subseteq {"trips", "collections"}
  BY DEF Touched
<1> HIDE DEF a
<1>6. ListTypes' /\ ReadsFit' /\ RegionFollows'
  BY <1>1, <1>3, <1>5 DEF ListInductive, ListTypes, ReadsFit, OfItsKinds, RegionFollows
<1>7. BarFollows'
  BY <1>1, <1>2, <1>3 DEF ListInductive, BarFollows, Alike
<1>8. \A name \in Touched(s) :
         name \in astray' \/ \E t \in sent' : t.at = "applied" /\ name \in Touched(t)
  BY <1>1, <1>3, <1>4
<1>9. \A t \in sent : t.at = "applied" => t \in sent'
  BY <1>1
<1>10. astray \subseteq astray'
  BY <1>1
<1>11. UpToKey(trips, "trips")'
  <2>1. CASE trips.key = None \/ trips.asked
    BY <1>1, <2>1 DEF UpToKey
  <2>2. CASE trips.key # None /\ ~trips.asked
    <3>1. PICK q \in Queries(SUBSET TripKinds) : trips.key = q
      BY <2>2 DEF ListInductive, ListTypes, Queried
    <3>2. q.kinds \subseteq TripKinds
      BY DEF Queries
    <3>3. "trips" \notin Touched(s) =>
             \A i \in Items : KindOf(i) \in q.kinds => (i \in marks' <=> i \in marks)
      BY <1>1, <3>2, SortsTyped DEF Touched
    <3>4. "trips" \notin Touched(s) => Answer(q)' = Answer(q) /\ NoAnswer(q)' = NoAnswer(q)
      BY <3>3, AnswersAgree DEF NoAnswer
    <3>5. /\ Latest(trips) # None /\ Latest(trips).kinds = q.kinds
          /\ \/ Latest(trips) \in {Answer(q), NoAnswer(q)} \/ "trips" \in astray
             \/ \E t \in sent : t.at = "applied" /\ "trips" \in Touched(t)
      BY <2>2, <3>1 DEF ListInductive, ListsFollow, UpToKey
    <3>6. trips' = trips /\ Latest(trips)' = Latest(trips) /\ trips'.key = q
      BY <1>1, <3>1 DEF Latest
    <3>7. CASE "trips" \notin Touched(s) /\ Latest(trips) \in {Answer(q), NoAnswer(q)}
      <4>1. Latest(trips)' \in {Answer(q)', NoAnswer(q)'}
        BY <3>4, <3>6, <3>7
      <4> QED BY <3>5, <3>6, <4>1 DEF UpToKey, Latest, Answer, NoAnswer, Matching
    <3>8. CASE "trips" \in astray \/ \E t \in sent : t.at = "applied" /\ "trips" \in Touched(t)
      BY <1>9, <1>10, <3>5, <3>6, <3>8 DEF UpToKey, Latest
    <3>9. CASE "trips" \in Touched(s)
      BY <1>8, <3>5, <3>6, <3>9 DEF UpToKey, Latest
    <3> QED BY <3>5, <3>7, <3>8, <3>9
  <2> QED BY <2>1, <2>2
<1>12. UpToKey(collections, "collections")'
  <2>1. CASE collections.key = None \/ collections.asked
    BY <1>1, <2>1 DEF UpToKey
  <2>2. CASE collections.key # None /\ ~collections.asked
    <3>1. PICK q \in Queries({{"collections"}}) : collections.key = q
      BY <2>2 DEF ListInductive, ListTypes, Queried
    <3>2. q.kinds = {"collections"}
      BY DEF Queries
    <3>3. "collections" \notin Touched(s) =>
             \A i \in Items : KindOf(i) \in q.kinds => (i \in marks' <=> i \in marks)
      BY <1>1, <3>2, SortsTyped DEF Touched
    <3>4. "collections" \notin Touched(s) => Answer(q)' = Answer(q) /\ NoAnswer(q)' = NoAnswer(q)
      BY <3>3, AnswersAgree DEF NoAnswer
    <3>5. /\ Latest(collections) # None /\ Latest(collections).kinds = q.kinds
          /\ \/ Latest(collections) \in {Answer(q), NoAnswer(q)} \/ "collections" \in astray
             \/ \E t \in sent : t.at = "applied" /\ "collections" \in Touched(t)
      BY <2>2, <3>1 DEF ListInductive, ListsFollow, UpToKey
    <3>6. /\ collections' = collections /\ Latest(collections)' = Latest(collections)
          /\ collections'.key = q
      BY <1>1, <3>1 DEF Latest
    <3>7. CASE "collections" \notin Touched(s) /\ Latest(collections) \in {Answer(q), NoAnswer(q)}
      <4>1. Latest(collections)' \in {Answer(q)', NoAnswer(q)'}
        BY <3>4, <3>6, <3>7
      <4> QED BY <3>5, <3>6, <4>1 DEF UpToKey, Latest, Answer, NoAnswer, Matching
    <3>8. CASE \/ "collections" \in astray
               \/ \E t \in sent : t.at = "applied" /\ "collections" \in Touched(t)
      BY <1>9, <1>10, <3>5, <3>6, <3>8 DEF UpToKey, Latest
    <3>9. CASE "collections" \in Touched(s)
      BY <1>8, <3>5, <3>6, <3>9 DEF UpToKey, Latest
    <3> QED BY <3>5, <3>7, <3>8, <3>9
  <2> QED BY <2>1, <2>2
<1> QED BY <1>6, <1>7, <1>11, <1>12 DEF ListInductive, ListsFollow

\* The answer to a request applied: the lists that show it are asked for
\* anew, or lack it.
LEMMA AppliedKeeps ==
    ASSUME ListInductive, NEW s \in sent, Applied(s)
    PROVE  ListInductive'
<1> DEFINE renewed == Renewed(s.action, picked)
           others == IF s.action = "tag" THEN {} ELSE sent \ {s}
<1>1. /\ UNCHANGED <<filters, view, page, marks>>
      /\ sent' = ((sent \ {s}) \ others) \cup Outstanding(others)
      /\ astray' = astray \cup Unseen(others) \cup (Touched(s) \ renewed)
  BY Zenon DEF Applied
<1>2. /\ trips' = IF "trips" \in renewed THEN Restart(trips) ELSE trips
      /\ collections' = IF "collections" \in renewed THEN Restart(collections) ELSE collections
  BY Zenon DEF Applied
<1>3. /\ s.action = "tag" => UNCHANGED <<picked, panel>> /\ others = {}
      /\ s.action # "tag" => picked' = {} /\ panel' = None /\ others = sent \ {s}
  BY Zenon DEF Applied
<1>4. others \subseteq sent /\ s \notin others /\ sent \subseteq Requests
  BY DEF ListInductive, ListTypes
<1>5. /\ Outstanding(others) \subseteq Requests /\ \A t \in Outstanding(others) : t.at = "unheard"
      /\ Unseen(others) \subseteq {"trips", "collections"}
      /\ \A t \in others : t.at = "applied" => Touched(t) \subseteq Unseen(others)
  BY <1>4, DroppedTyped
<1>6. Touched(s) \subseteq {"trips", "collections"}
  BY DEF Touched
<1> HIDE DEF renewed, others
<1>7. /\ \A r \in {trips, Restart(trips)} :
            r \in Queried(Queries(SUBSET TripKinds)) /\ (r.asked => r.key # None)
            /\ r.read \in {trips.read, None} /\ r.answer \in {trips.answer, None}
      /\ \A r \in {collections, Restart(collections)} :
            r \in Queried(Queries({{"collections"}})) /\ (r.asked => r.key # None)
            /\ r.read \in {collections.read, None} /\ r.answer \in {collections.answer, None}
  <2>1. /\ trips \in Queried(Queries(SUBSET TripKinds)) /\ (trips.asked => trips.key # None)
        /\ collections \in Queried(Queries({{"collections"}}))
        /\ (collections.asked => collections.key # None)
    BY DEF ListInductive, ListTypes, ReadsFit
  <2> QED BY <2>1, ListNone, QueriedTyped
<1>8. trips' \in {trips, Restart(trips)} /\ collections' \in {collections, Restart(collections)}
  BY <1>2
<1>9. ListTypes'
  <2>1. panel' \in Actions \cup {None} /\ picked' \subseteq Items
    BY <1>3 DEF ListInductive, ListTypes
  <2>2. sent' \subseteq Requests /\ astray' \subseteq {"trips", "collections"}
    BY <1>1, <1>4, <1>5, <1>6 DEF ListInductive, ListTypes
  <2> QED BY <1>1, <1>7, <1>8, <2>1, <2>2 DEF ListInductive, ListTypes
<1>10. ReadsFit' /\ RegionFollows'
  BY <1>1, <1>7, <1>8 DEF ListInductive, ReadsFit, OfItsKinds, RegionFollows
<1>11. BarFollows'
  <2>1. \A t \in sent' : t.at # "unheard" => t \in sent /\ s.action = "tag"
    BY <1>1, <1>3, <1>5
  <2> QED BY <1>3, <2>1 DEF ListInductive, BarFollows, Alike
<1>12. /\ Restart(trips).key = None \/ Restart(trips).asked
       /\ Restart(collections).key = None \/ Restart(collections).asked
  BY DEF Restart, ListInductive, ListTypes, Queried
<1>13. \A t \in sent : t.at = "applied" =>
          \/ t \in sent' \/ Touched(t) \subseteq astray'
          \/ t = s
  BY <1>1, <1>5
<1>14. UpToKey(trips, "trips")'
  <2>1. CASE "trips" \in renewed
    BY <1>2, <1>12, <2>1 DEF UpToKey
  <2>2. CASE "trips" \notin renewed
    <3>1. trips' = trips /\ ("trips" \in Touched(s) => "trips" \in astray') /\ astray \subseteq astray'
      BY <1>1, <1>2, <2>2
    <3> QED BY <1>1, <1>13, <3>1
            DEF ListInductive, ListsFollow, UpToKey, Latest, Answer, NoAnswer, Matching
  <2> QED BY <2>1, <2>2
<1>15. UpToKey(collections, "collections")'
  <2>1. CASE "collections" \in renewed
    BY <1>2, <1>12, <2>1 DEF UpToKey
  <2>2. CASE "collections" \notin renewed
    <3>1. /\ collections' = collections /\ astray \subseteq astray'
          /\ "collections" \in Touched(s) => "collections" \in astray'
      BY <1>1, <1>2, <2>2
    <3> QED BY <1>1, <1>13, <3>1
            DEF ListInductive, ListsFollow, UpToKey, Latest, Answer, NoAnswer, Matching
  <2> QED BY <2>1, <2>2
<1> QED BY <1>9, <1>10, <1>11, <1>14, <1>15 DEF ListInductive, ListsFollow

LEMMA NotAppliedKeeps ==
    ASSUME ListInductive, NEW s \in sent, NotApplied(s) \/ LoseAnswer(s)
    PROVE  ListInductive'
<1>1. UNCHANGED <<filters, view, trips, collections, picked, panel, marks>>
  BY DEF NotApplied, LoseAnswer
<1>2. /\ sent' \subseteq Requests /\ astray' \subseteq {"trips", "collections"}
      /\ astray \subseteq astray'
      /\ \A t \in sent : t.at = "applied" => t \in sent' \/ Touched(t) \subseteq astray'
      /\ \A t \in sent' : t.at # "unheard" => t \in sent
  <2>1. CASE NotApplied(s)
    BY <2>1 DEF NotApplied, ListInductive, ListTypes
  <2>2. CASE LoseAnswer(s)
    <3>1. Drop({s}) /\ {s} \in SUBSET sent
      BY <2>2 DEF LoseAnswer
    <3> QED BY <3>1, DropKeeps DEF ListInductive
  <2> QED BY <2>1, <2>2
<1>3. ListTypes' /\ ReadsFit' /\ RegionFollows'
  BY <1>1, <1>2 DEF ListInductive, ListTypes, ReadsFit, OfItsKinds, RegionFollows
<1>4. BarFollows'
  BY <1>1, <1>2 DEF ListInductive, BarFollows, Alike
<1>5. ListsFollow'
  BY <1>1, <1>2 DEF ListInductive, ListsFollow, UpToKey, Latest, Answer, NoAnswer, Matching
<1> QED BY <1>3, <1>4, <1>5 DEF ListInductive

-----------------------------------------------------------------------------
(* The list among the other screens.                                       *)

LEMMA ListClicked ==
    ASSUME ListInductive, events \in Nat, ListClick
    PROVE  ListInductive'
BY FiltersKeep, ListReadsKeep, PicksKeep, SendKeeps, AppliedKeeps DEF ListClick

LEMMA ListLeft ==
    ASSUME ListInductive, UNCHANGED listing
    PROVE  ListInductive'
<1>1. UNCHANGED <<filters, view, trips, collections, picked, panel, page, sent, marks, astray>>
  BY DEF listing
<1>2. ListTypes' /\ ReadsFit' /\ RegionFollows' /\ BarFollows'
  BY <1>1 DEF ListInductive, ListTypes, ReadsFit, OfItsKinds, RegionFollows, BarFollows, Alike
<1>3. ListsFollow'
  BY <1>1 DEF ListInductive, ListsFollow, UpToKey, Latest, Answer, NoAnswer, Matching
<1> QED BY <1>1, <1>2, <1>3 DEF ListInductive

\* A list opened or closed keeps no read.
LEMMA ListAfresh ==
    ASSUME NEW p \in Queries(SUBSET TripKinds) \cup {None}, trips' = Fresh(p),
           NEW q \in Queries({{"collections"}}) \cup {None}, collections' = Fresh(q)
    PROVE  /\ trips' \in Queried(Queries(SUBSET TripKinds))
           /\ collections' \in Queried(Queries({{"collections"}}))
           /\ ReadsFit' /\ ListsFollow'
<1>1. /\ trips' \in Queried(Queries(SUBSET TripKinds)) /\ (trips'.asked => trips'.key # None)
      /\ trips'.read = None /\ trips'.answer = None /\ (trips'.key = None \/ trips'.asked)
  BY ListNone DEF Fresh, Queried
<1>2. /\ collections' \in Queried(Queries({{"collections"}}))
      /\ (collections'.asked => collections'.key # None)
      /\ collections'.read = None /\ collections'.answer = None
      /\ (collections'.key = None \/ collections'.asked)
  BY ListNone DEF Fresh, Queried
<1>3. ReadsFit'
  BY <1>1, <1>2 DEF ReadsFit, OfItsKinds
<1>4. ListsFollow'
  BY <1>1, <1>2 DEF ListsFollow, UpToKey
<1> QED BY <1>1, <1>2, <1>3, <1>4

\* Nothing asked of a list not shown is heard.
LEMMA ListShownKeeps ==
    ASSUME ListInductive, panel = None, ListShown
    PROVE  ListInductive'
<1>1. /\ filters' \in Urls /\ view' = None /\ picked' = {} /\ panel' = None
      /\ sent' = sent /\ astray' = {}
      /\ trips' = Fresh(TripQuery(filters')) /\ collections' = Fresh(CollectionQuery(filters'))
  BY DEF ListShown
<1>2. PICK f \in [kinds : SUBSET Kinds, marked : BOOLEAN, tagged : BOOLEAN,
                  bbox : Views \cup {None}, followed : BOOLEAN] : filters' = f
  BY <1>1, ListAssumption
<1>3. /\ TripQuery(f) \in Queries(SUBSET TripKinds) \cup {None}
      /\ CollectionQuery(f) \in Queries({{"collections"}}) \cup {None}
  BY QueriesTyped
<1>4. /\ trips' \in Queried(Queries(SUBSET TripKinds))
      /\ collections' \in Queried(Queries({{"collections"}}))
      /\ ReadsFit' /\ ListsFollow'
  BY <1>1, <1>2, <1>3, ListAfresh
<1>5. ListTypes'
  BY <1>1, <1>2, <1>4 DEF ListInductive, ListTypes
<1>6. \A s \in sent : s.at = "unheard"
  <2>1. \A s \in sent : s.action # None
    BY ListNone DEF ListInductive, ListTypes, Requests
  <2> QED BY <2>1 DEF ListInductive, BarFollows
<1>7. BarFollows' /\ RegionFollows'
  BY <1>1, <1>6 DEF BarFollows, RegionFollows
<1> QED BY <1>4, <1>5, <1>7 DEF ListInductive

LEMMA LeaveListKeeps ==
    ASSUME ListInductive, LeaveList
    PROVE  ListInductive' /\ panel' = None
<1>1. /\ filters' \in Urls /\ view' = None /\ picked' = {} /\ panel' = None
      /\ trips' = Fresh(None) /\ collections' = Fresh(None)
      /\ sent' = Outstanding(sent) /\ astray' = {}
  BY DEF LeaveList
<1>2. /\ trips' \in Queried(Queries(SUBSET TripKinds))
      /\ collections' \in Queried(Queries({{"collections"}}))
      /\ ReadsFit' /\ ListsFollow'
  BY <1>1, ListAfresh
<1>3. sent' \subseteq Requests /\ \A s \in sent' : s.at = "unheard"
  BY <1>1, DroppedTyped DEF ListInductive, ListTypes
<1>4. ListTypes'
  BY <1>1, <1>2, <1>3, ListAssumption DEF ListTypes
<1>5. BarFollows' /\ RegionFollows'
  BY <1>1, <1>3 DEF BarFollows, RegionFollows
<1> QED BY <1>1, <1>2, <1>4, <1>5 DEF ListInductive

ListAway == route # "list" => panel = None

LEMMA ListStarts == BrowserInit => ListInductive /\ ListAway
<1> SUFFICES ASSUME ListInit PROVE ListInductive /\ ListAway
  BY DEF BrowserInit
<1>1. /\ filters \in Urls /\ view = None /\ picked = {} /\ panel = None /\ sent = {} /\ astray = {}
      /\ trips = Fresh(TripQuery(filters)) /\ collections = Fresh(CollectionQuery(filters))
  BY DEF ListInit, Opened
<1>2. PICK f \in [kinds : SUBSET Kinds, marked : BOOLEAN, tagged : BOOLEAN,
                  bbox : Views \cup {None}, followed : BOOLEAN] : filters = f
  BY <1>1, ListAssumption
<1>3. /\ TripQuery(f) \in Queries(SUBSET TripKinds) \cup {None}
      /\ CollectionQuery(f) \in Queries({{"collections"}}) \cup {None}
  BY QueriesTyped
<1>4. /\ trips \in Queried(Queries(SUBSET TripKinds)) /\ (trips.asked => trips.key # None)
      /\ trips.read = None /\ trips.answer = None /\ (trips.key = None \/ trips.asked)
  BY <1>1, <1>2, <1>3, ListNone DEF Fresh, Queried
<1>5. /\ collections \in Queried(Queries({{"collections"}}))
      /\ (collections.asked => collections.key # None)
      /\ collections.read = None /\ collections.answer = None
      /\ (collections.key = None \/ collections.asked)
  BY <1>1, <1>2, <1>3, ListNone DEF Fresh, Queried
<1>6. ListTypes
  BY <1>1, <1>2, <1>4, <1>5 DEF ListTypes
<1>7. ReadsFit /\ ListsFollow
  BY <1>4, <1>5 DEF ReadsFit, OfItsKinds, ListsFollow, UpToKey
<1>8. BarFollows /\ RegionFollows /\ ListAway
  BY <1>1 DEF BarFollows, RegionFollows, ListAway
<1> QED BY <1>6, <1>7, <1>8 DEF ListInductive

LEMMA ListStays ==
    ASSUME ListInductive, ListAway, events \in Nat, [BrowserNext]_vars
    PROVE  ListInductive' /\ ListAway'
<1>1. ASSUME UNCHANGED listing, route' = "list" => route = "list", route = "list" => route' = "list"
      PROVE  ListInductive' /\ ListAway'
  BY <1>1, ListLeft DEF ListAway, listing
<1>2. CASE UNCHANGED vars
  BY <1>1, <1>2 DEF vars
<1>3. CASE route = "links" /\ LinkScreenNext /\ UNCHANGED <<route, importing, listing, detailing>>
  BY <1>1, <1>3
<1>4. CASE OpenImport \/ OpenTrip \/ LeaveImport \/ LeaveTrip \/ OnImport \/ OnTrip
  BY <1>1, <1>4 DEF OpenImport, OpenTrip, LeaveImport, LeaveTrip, OnImport, OnTrip
<1>5. CASE OpenList \/ TripDeleted
  <2>1. ListShown /\ route # "list"
    BY <1>5 DEF OpenList, TripDeleted
  <2>2. route' = "list"
    BY <2>1 DEF ListShown
  <2> QED BY <2>1, <2>2, ListShownKeeps DEF ListAway
<1>6. CASE LeaveList
  BY <1>6, LeaveListKeeps DEF ListAway
<1>7. CASE OnList
  BY <1>7, ListClicked DEF OnList, ListAway
<1>8. CASE Archive
  <2>1. CASE ImportArchive /\ UNCHANGED <<route, listing, detailing>>
    BY <1>1, <2>1
  <2>2. CASE DetailArchive /\ UNCHANGED <<route, importing, listing>>
    BY <1>1, <2>2
  <2>3. CASE ListArchive /\ UNCHANGED <<route, importing, detailing>>
    <3>1. UNCHANGED panel
      BY <2>3, Zenon DEF ListArchive, Apply, NotApplied, LoseAnswer
    <3> QED BY <2>3, <3>1, ApplyKeeps, NotAppliedKeeps DEF ListAway, ListArchive
  <2> QED BY <1>8, <2>1, <2>2, <2>3 DEF Archive
<1> QED
  BY <1>2, <1>3, <1>4, <1>5, <1>6, <1>7, <1>8 DEF BrowserNext

\* list.rs: each list is the archive's for the filters set or its failed read,
\* is being read, is about to be, or lacks a change it is not read for; what
\* the bar has asked and hears of is of the panel open, for items alike those
\* picked.
THEOREM ListScreenStaysSound == BrowserSpec => []ListInductive
<1>1. BrowserInit => ListInductive /\ ListAway
  BY ListStarts
<1>2. DetailInductive => events \in Nat
  BY DEF DetailInductive, DetailTypes
<1>3. ListInductive /\ ListAway /\ events \in Nat /\ [BrowserNext]_vars => (ListInductive /\ ListAway)'
  BY ListStays
<1> QED BY <1>1, <1>2, <1>3, TripScreenStaysSound, PTL DEF BrowserSpec

\* The list shows what the archive matches with the filters set, marks and
\* all, once reads have answered, but for the changes named at ListsWhatMatches
\* in the lists they touched; and never a row of a kind that is off.
THEOREM ListKeepsUp == BrowserSpec => []ListsWhatMatches
<1>1. ASSUME ListInductive PROVE ListsWhatMatches
  <2>1. PICK f \in [kinds : SUBSET Kinds, marked : BOOLEAN, tagged : BOOLEAN,
                    bbox : Views \cup {None}, followed : BOOLEAN] : filters = f
    BY <1>1 DEF ListInductive, ListTypes
  <2> DEFINE T == IF TripsOnly(filters) # {} THEN ReadFor(filters).rows ELSE {}
             C == IF "collections" \in filters.kinds THEN collections.read.rows ELSE {}
  <2>2. Listed # {} => Listed = T \cup C /\ ~Unread
    BY Zenon DEF Listed
  <2>3. ~Unread /\ ~NotLoaded => Listed = T \cup C
    BY Zenon DEF Listed
  <2>4. ~Unread => \A row \in T : KindOf(row[1]) \in TripsOnly(filters)
    <3> SUFFICES ASSUME ~Unread, TripsOnly(filters) # {}, NEW row \in ReadFor(filters).rows
                 PROVE  KindOf(row[1]) \in TripsOnly(filters)
      OBVIOUS
    <3>1. ReadFor(filters) # None
      BY DEF Unread
    <3>2. ReadFor(filters) = trips.read /\ trips.read # None /\ trips.read.kinds = TripsOnly(filters)
      BY <3>1 DEF ReadFor
    <3> QED BY <1>1, <3>2 DEF ListInductive, ReadsFit, OfItsKinds
  <2>5. ~Unread => \A row \in C : KindOf(row[1]) = "collections" /\ "collections" \in filters.kinds
    <3> SUFFICES ASSUME ~Unread, "collections" \in filters.kinds, NEW row \in collections.read.rows
                 PROVE  KindOf(row[1]) = "collections"
      OBVIOUS
    <3>1. collections.read # None
      BY DEF Unread
    <3> QED BY <1>1, <3>1 DEF ListInductive, ReadsFit, OfItsKinds
  <2> HIDE DEF T, C
  <2>6. ASSUME NEW row \in Listed PROVE KindOf(row[1]) \in filters.kinds
    BY <2>2, <2>4, <2>5, <2>6 DEF TripsOnly
  <2>7. Quiet /\ TripsOnly(filters) # {} =>
          /\ TripQuery(f).kinds = TripsOnly(f) /\ ReadFor(f) = trips.read /\ trips.read # None
          /\ \/ trips.read \in {Answer(TripQuery(f)), NoAnswer(TripQuery(f))} \/ "trips" \in astray
    <3> SUFFICES ASSUME Quiet, TripsOnly(filters) # {}
                 PROVE  /\ TripQuery(f).kinds = TripsOnly(f) /\ ReadFor(f) = trips.read
                        /\ trips.read # None
                        /\ \/ trips.read \in {Answer(TripQuery(f)), NoAnswer(TripQuery(f))}
                           \/ "trips" \in astray
      OBVIOUS
    <3>1. trips.key = TripQuery(f) /\ ~trips.asked /\ trips.answer = None
          /\ \A s \in sent : s.at # "applied"
      BY <2>1 DEF Quiet, Settled
    <3>2. TripQuery(f) # None /\ TripQuery(f).kinds = TripsOnly(f)
      BY <2>1, QueriesTyped
    <3>3. /\ trips.read # None /\ trips.read.kinds = TripsOnly(f)
          /\ trips.read \in {Answer(TripQuery(f)), NoAnswer(TripQuery(f))} \/ "trips" \in astray
      BY <1>1, <3>1, <3>2 DEF ListInductive, ListsFollow, UpToKey, Latest
    <3> QED BY <3>2, <3>3 DEF ReadFor
  <2>8. Quiet /\ "collections" \in filters.kinds =>
          /\ CollectionQuery(f).kinds = {"collections"} /\ collections.read # None
          /\ \/ collections.read \in {Answer(CollectionQuery(f)), NoAnswer(CollectionQuery(f))}
             \/ "collections" \in astray
    <3> SUFFICES ASSUME Quiet, "collections" \in filters.kinds
                 PROVE  /\ CollectionQuery(f).kinds = {"collections"} /\ collections.read # None
                        /\ \/ collections.read \in {Answer(CollectionQuery(f)), NoAnswer(CollectionQuery(f))}
                           \/ "collections" \in astray
      OBVIOUS
    <3>1. collections.key = CollectionQuery(f) /\ ~collections.asked /\ collections.answer = None
          /\ \A s \in sent : s.at # "applied"
      BY <2>1 DEF Quiet, Settled
    <3>2. PICK p \in Queries({{"collections"}}) : CollectionQuery(f) = p
      BY <2>1, QueriesTyped
    <3>3. p # None /\ p.kinds = {"collections"}
      BY ListNone DEF Queries
    <3> QED BY <1>1, <3>1, <3>2, <3>3 DEF ListInductive, ListsFollow, UpToKey, Latest
  <2>9. Quiet => Listed = T \cup C /\ ~Unread /\ ~NotLoaded
    <3>1. Quiet => ~Unread
      BY <2>1, <2>7, <2>8 DEF Unread
    <3> QED BY <2>3, <3>1 DEF Quiet
  <2>10. \A row : KindOf(row[1]) \in TripsOnly(filters) => KindOf(row[1]) # "collections"
    BY DEF TripsOnly
  <2>11. ASSUME Quiet, TripsOnly(filters) # {}, "trips" \notin astray
         PROVE  RowsOf(TripQuery(filters)) = Answer(TripQuery(filters)).rows
    <3>1. trips.read = Answer(TripQuery(f))
      BY <2>1, <2>7, <2>11 DEF Quiet, NotLoaded, NoAnswer
    <3>2. T = Answer(TripQuery(f)).rows
      BY <2>1, <2>7, <2>11, <3>1 DEF T
    <3>3. RowsOf(TripQuery(f)) = T
      BY <2>1, <2>4, <2>5, <2>7, <2>9, <2>10, <2>11 DEF RowsOf
    <3> QED BY <2>1, <3>2, <3>3
  <2>12. ASSUME Quiet, "collections" \in filters.kinds \ astray
         PROVE  RowsOf(CollectionQuery(filters)) = Answer(CollectionQuery(filters)).rows
    <3>1. collections.read = Answer(CollectionQuery(f))
      BY <2>1, <2>8, <2>12 DEF Quiet, NotLoaded, NoAnswer
    <3>2. C = Answer(CollectionQuery(f)).rows
      BY <2>1, <2>12, <3>1 DEF C
    <3>3. RowsOf(CollectionQuery(f)) = C
      BY <2>1, <2>4, <2>5, <2>8, <2>9, <2>10, <2>12 DEF RowsOf
    <3> QED BY <2>1, <3>2, <3>3
  <2> QED BY <1>1, <2>6, <2>11, <2>12 DEF ListsWhatMatches, ListInductive, RegionFollows
<1> QED BY <1>1, ListScreenStaysSound, PTL

-----------------------------------------------------------------------------
(* The import screen.                                                      *)

Signals ==
    [staged : Nat \cup {None}, gpx : Nat \cup {None}, collection : Nat \cup {None},
     reading : BOOLEAN, submitting : BOOLEAN, uploading : BOOLEAN,
     partial : [trip : Nat, uploaded : Nat] \cup {None}]

Answering == [how : {"ok", "refused", "not_found", "lost"}, id : Nat]

\* Handlers keep their type as they go.
LEMMA ErrandsTyped ==
    ASSUME NEW h \in Errand
    PROVE  /\ h # None
           /\ h.do \in {"stage", "preview", "pick", "confirm", "create", "cancel"}
           /\ h.of \in Nat \cup {None} /\ h.id \in Nat /\ h.photos \in Nat \cup {None}
           /\ h.sent \in Nat /\ h.gone \in BOOLEAN
           /\ h.answer \in Answering \cup {None}
           /\ h.answer # None => /\ h.answer.how \in {"ok", "refused", "not_found", "lost"}
                                 /\ h.answer.id \in Nat
BY ImportApart DEF Errand, Answering

\* An answer comes.
LEMMA AnswersErrand ==
    ASSUME NEW h \in Errand, NEW how \in {"ok", "refused", "not_found", "lost"}, NEW n \in Nat
    PROVE  LET a == [how |-> how, id |-> n]
               g == [h EXCEPT !.answer = a]
           IN /\ g \in Errand /\ a # None /\ a.how = how /\ a.id = n
              /\ g.do = h.do /\ g.at = h.at /\ g.of = h.of /\ g.id = h.id
              /\ g.photos = h.photos /\ g.sent = h.sent /\ g.gone = h.gone /\ g.answer = a
<1> DEFINE a == [how |-> how, id |-> n]
           g == [h EXCEPT !.answer = a]
<1>1. a \in Answering /\ a.how = how /\ a.id = n
  BY DEF Answering
<1>2. a # None
  BY <1>1, ImportApart DEF Answering
<1>3. g \in Errand
  BY <1>1 DEF Errand, Answering
<1>4. /\ g.do = h.do /\ g.at = h.at /\ g.of = h.of /\ g.id = h.id
      /\ g.photos = h.photos /\ g.sent = h.sent /\ g.gone = h.gone /\ g.answer = a
  BY DEF Errand
<1> QED BY <1>1, <1>2, <1>3, <1>4

\* The next request is sent.
LEMMA AsksErrand ==
    ASSUME NEW t, task[t] \in Errand, NEW where \in {"restage", "reconfirm", "photos"},
           NEW n \in Nat
    PROVE  LET g == Asks(t, where, n) IN
           /\ g \in Errand /\ g.do = task[t].do /\ g.at = where /\ g.of = task[t].of /\ g.id = n
           /\ g.gone = task[t].gone /\ g.answer = None
           /\ g.sent = task[t].sent
<1> DEFINE h == task[t]
           g == [h EXCEPT !.at = where, !.id = n, !.answer = None]
<1>1. g = Asks(t, where, n)
  BY DEF Asks
<1>2. g \in Errand
  BY DEF Errand
<1>3. /\ g.do = h.do /\ g.at = where /\ g.of = h.of /\ g.id = n
      /\ g.gone = h.gone /\ g.answer = None /\ g.sent = h.sent
  BY DEF Errand
<1> QED BY <1>1, <1>2, <1>3

\* The step shown says what is there.
LEMMA StepsTell ==
    /\ Step = "choose" => screen.staged = None /\ screen.collection = None
    /\ Step = "confirm" => screen.staged # None /\ screen.collection = None
    /\ Step = "collection" => screen.collection # None
BY DEF Step

\* The handlers beside one that goes on: only a reading of photos ends.
Beside(t) == \A k \in Tasks \ {t} :
    \/ task'[k] = task[k]
    \/ task'[k] = None /\ task[k] # None /\ task[k].do = "pick"

LEMMA GoesOn ==
    ASSUME ImportTypes, NEW t \in Tasks, NEW h \in Errand \cup {None},
           Goes(t, h) \/ task' = [task EXCEPT ![t] = h]
    PROVE  /\ task' \in [Tasks -> Errand \cup {None}]
           /\ task'[t] = h /\ Beside(t)
<1>1. task \in [Tasks -> Errand \cup {None}]
  BY DEF ImportTypes
<1>2. CASE Goes(t, h)
  BY <1>1, <1>2 DEF Goes, Beside
<1>3. CASE task' = [task EXCEPT ![t] = h]
  BY <1>1, <1>3 DEF Beside
<1> QED BY <1>2, <1>3

LEMMA BesideStay ==
    ASSUME \A k \in Tasks : HandlerFits(k), NEW t, Beside(t)
    PROVE  \A k \in Tasks \ {t} :
              /\ Asking(k)' => task'[k] = task[k] /\ Asking(k)
              /\ Asking(k) /\ task[k].do # "pick" => task'[k] = task[k] /\ Asking(k)'
              /\ ReadsFile(k)' <=> ReadsFile(k)
              /\ Submits(k)' <=> Submits(k)
              /\ Confirming(k)' <=> Confirming(k)
              /\ Bears(k)' <=> Bears(k)
              /\ \A i : Holds(k, i)' <=> Holds(k, i)
              /\ task'[k] # None => task'[k] = task[k]
<1> SUFFICES ASSUME NEW k \in Tasks \ {t}
    PROVE  /\ Asking(k)' => task'[k] = task[k] /\ Asking(k)
           /\ Asking(k) /\ task[k].do # "pick" => task'[k] = task[k] /\ Asking(k)'
           /\ ReadsFile(k)' <=> ReadsFile(k)
           /\ Submits(k)' <=> Submits(k)
           /\ Confirming(k)' <=> Confirming(k)
           /\ Bears(k)' <=> Bears(k)
           /\ \A i : Holds(k, i)' <=> Holds(k, i)
           /\ task'[k] # None => task'[k] = task[k]
  OBVIOUS
<1>1. HandlerFits(k)
  OBVIOUS
<1>2. CASE task'[k] = task[k]
  BY <1>2 DEF Asking, ReadsFile, Submits, Confirming, Bears, Holds, Answered
<1>3. CASE task'[k] = None /\ task[k] # None /\ task[k].do = "pick"
  BY <1>1, <1>3 DEF Asking, ReadsFile, Submits, Confirming, Bears, Holds, Answered, HandlerFits
<1> QED BY <1>2, <1>3 DEF Beside

\* What an answer makes of a handler: one that was left is not told.
Told(t, how, n) ==
    /\ task' \in [Tasks -> Errand \cup {None}] /\ Beside(t)
    /\ task[t].gone => task'[t] = None
    /\ ~task[t].gone =>
          /\ task'[t] # None /\ task'[t].gone = FALSE
          /\ task'[t].do = task[t].do /\ task'[t].at = task[t].at
          /\ task'[t].of = task[t].of /\ task'[t].id = task[t].id
          /\ task'[t].answer # None /\ task'[t].answer.how = how /\ task'[t].answer.id = n

LEMMA RepliesTell ==
    ASSUME ImportTypes, NEW t \in Tasks, task[t] # None,
           NEW how \in {"ok", "refused", "not_found", "lost"}, NEW n \in Nat,
           Replies(t, how, n)
    PROVE  Told(t, how, n)
<1>1. task \in [Tasks -> Errand \cup {None}] /\ task[t] \in Errand
  BY DEF ImportTypes
<1> DEFINE g == [task[t] EXCEPT !.answer = [how |-> how, id |-> n]]
<1>2. /\ g \in Errand /\ g # None /\ g.do = task[t].do /\ g.at = task[t].at /\ g.of = task[t].of
      /\ g.id = task[t].id /\ g.gone = task[t].gone
      /\ g.answer # None /\ g.answer.how = how /\ g.answer.id = n
  BY <1>1, AnswersErrand, ErrandsTyped
<1>3. task' = [task EXCEPT ![t] = IF task[t].gone THEN None ELSE g]
  BY DEF Replies
<1> HIDE DEF g
<1>4. task[t].gone \in BOOLEAN
  BY <1>1, ErrandsTyped
<1>5. CASE task[t].gone
  BY <1>1, <1>3, <1>5 DEF Told, Beside
<1>6. CASE ~task[t].gone
  BY <1>1, <1>2, <1>3, <1>4, <1>6 DEF Told, Beside
<1> QED BY <1>5, <1>6

\* Ids are of rows there may be.
LEMMA IdsParked ==
    ASSUME ImportTypes PROVE Ids \subseteq Parked /\ lastId \in Nat
BY ImportAssumption DEF ImportTypes, Ids, Parked

\* What a handler is about, and what it holds.
LEMMA HeldIsKnown ==
    ASSUME ImportTypes, RowsFit, NEW t \in Tasks, HandlerFits(t)
    PROVE  /\ About(t) \subseteq Known
           /\ \A i \in Parked : Holds(t, i) => rows[i] \in About(t) \cup {None} /\ i \in Ids
<1>1. CASE task[t] = None
  BY <1>1 DEF About, Holds, Asking
<1>2. CASE task[t] # None
  <2>1. task[t] \in Errand /\ Ids \subseteq Parked
    BY <1>2, IdsParked DEF ImportTypes
  <2>2. About(t) \subseteq Known
    BY <1>2, <2>1, ErrandsTyped DEF About, HandlerFits, ImportTypes
  <2>3. ASSUME NEW i \in Parked, Holds(t, i) PROVE rows[i] \in About(t) \cup {None} /\ i \in Ids
    BY <1>2, <2>1, <2>3, ErrandsTyped, ImportAssumption
       DEF About, HandlerFits, Holds, RowsFit, Known
  <2> QED BY <2>2, <2>3
<1> QED BY <1>1, <1>2

LEMMA NoPhotosTyped ==
    NoPhotos \in [picked : Nat, read : Nat \cup {None}, reading : BOOLEAN]
<1>1. PICK b \in BOOLEAN : b = FALSE
  OBVIOUS
<1> QED BY <1>1 DEF NoPhotos

\* What the archive and the screen have of a file: no more than before.
Untouched(c) ==
    /\ Becomes(c)' <=> Becomes(c)
    /\ \A j, k \in DOMAIN made' : made'[j].of = c /\ made'[k].of = c => j = k
    /\ \A i \in Parked : rows'[i] = c => rows[i] = c
    /\ screen'.staged # None /\ screen'.gpx = c =>
          screen.staged = screen'.staged /\ screen.gpx = c
    /\ screen'.collection = c => screen.collection = c

\* A handler is no nearer to a file than it was, and as near while it must be.
Carries(t, c) ==
    /\ Asking(t)' /\ task'[t].of = c /\ task'[t].do \in {"create", "confirm"} =>
          Asking(t) /\ task[t].of = c /\ task[t].do = task'[t].do
    /\ Bears(t)' /\ task'[t].of = c /\ ~Done(t)' =>
          /\ Bears(t) /\ task[t].of = c /\ ~Done(t)
          /\ \A i \in Parked : rows'[i] = c /\ Holds(t, i) => Holds(t, i)'
    /\ Confirming(t) => Confirming(t)' \/ screen'.staged = None
    /\ Asking(t) /\ task[t].do = "create" /\ Done(t) /\ task[t].of = c =>
          \/ Asking(t)' /\ task'[t].do = "create" /\ Done(t)' /\ task'[t].of = c
          \/ screen'.collection # c

LEMMA BesideCarries ==
    ASSUME \A k \in Tasks : HandlerFits(k), NEW t, Beside(t), NEW c
    PROVE  \A k \in Tasks \ {t} : Carries(k, c)
<1> SUFFICES ASSUME NEW k \in Tasks \ {t} PROVE Carries(k, c)
  OBVIOUS
<1>1. HandlerFits(k)
  OBVIOUS
<1>2. CASE task'[k] = task[k]
  BY <1>2 DEF Carries, Asking, Bears, Done, Holds, Answered, Confirming
<1>3. CASE task'[k] = None /\ task[k] # None /\ task[k].do = "pick"
  BY <1>1, <1>3 DEF Carries, Asking, Bears, Done, Confirming, HandlerFits
<1> QED BY <1>2, <1>3 DEF Beside

\* So the file stays in its one place.
LEMMA StaysInPlace ==
    ASSUME \A k \in Tasks : HandlerFits(k), NEW t \in Tasks, Beside(t),
           NEW c, InOnePlace(c), Untouched(c), Carries(t, c)
    PROVE  InOnePlace(c)'
<1>1. \A k \in Tasks : Carries(k, c)
  BY BesideCarries
<1>2. ASSUME NEW k \in Tasks, Bears(k)', task'[k].of = c, ~Done(k)'
      PROVE  ~Becomes(c)' /\ \A i \in Parked : rows'[i] = c => Holds(k, i)'
  BY <1>1, <1>2 DEF Carries, InOnePlace, Untouched
<1>3. screen'.staged # None /\ screen'.gpx = c =>
         /\ \/ \E k \in Tasks : Confirming(k)'
            \/ ~Becomes(c)' /\ \A i \in Parked : rows'[i] = c => i = screen'.staged
         /\ screen'.collection # c
         /\ \A k \in Tasks : Asking(k)' /\ task'[k].do = "create" => task'[k].of # c
  BY <1>1 DEF Carries, InOnePlace, Untouched
<1>4. screen'.collection = c =>
         /\ \/ \E k \in Tasks : Asking(k)' /\ task'[k].do = "create" /\ Done(k)' /\ task'[k].of = c
            \/ ~Becomes(c)'
         /\ \A i \in Parked : rows'[i] # c
         /\ \A k \in Tasks : Asking(k)' /\ task'[k].do = "confirm" => task'[k].of # c
  BY <1>1 DEF Carries, InOnePlace, Untouched
<1>5. Becomes(c)' => \A i \in Parked : rows'[i] # c
  BY DEF InOnePlace, Untouched
<1>6. \A i, j \in Parked : rows'[i] = c /\ rows'[j] = c => i = j
  BY DEF InOnePlace, Untouched
<1>7. \A j, k \in DOMAIN made' : made'[j].of = c /\ made'[k].of = c => j = k
  BY DEF Untouched
<1> QED BY <1>2, <1>3, <1>4, <1>5, <1>6, <1>7 DEF InOnePlace, Parked

\* A handler told of its answer carries on with its file.
LEMMA ToldCarries ==
    ASSUME \A k \in Tasks : HandlerFits(k), NEW t \in Tasks, task[t] \in Errand,
           task[t].answer = None, NEW how, NEW n, Told(t, how, n), NEW c
    PROVE  Carries(t, c)
<1>1. task[t] # None /\ task[t].gone \in BOOLEAN
  BY ErrandsTyped
<1>2. CASE task[t].gone
  BY <1>2 DEF Told, Carries, Asking, Bears, Confirming
<1>3. CASE ~task[t].gone
  BY <1>1, <1>3 DEF Told, Carries, Asking, Bears, Done, Holds, Answered, Confirming
<1> QED BY <1>1, <1>2, <1>3

\* A handler beside fits on, as long as rows only come and go.
LEMMA StaysFitted ==
    ASSUME \A k \in Tasks : HandlerFits(k), NEW t, Beside(t),
           Known \subseteq Known', Ids \subseteq Ids', unheard \subseteq unheard',
           \A i \in Ids : rows'[i] \in {rows[i], None}
    PROVE  \A k \in Tasks \ {t} : HandlerFits(k)'
<1> SUFFICES ASSUME NEW k \in Tasks \ {t}, task'[k] # None PROVE HandlerFits(k)'
  BY DEF HandlerFits
<1>1. task'[k] = task[k] /\ HandlerFits(k)
  BY DEF Beside
<1>2. task[k].at \in {"confirm", "reconfirm", "cancel"} =>
         rows'[task[k].id] \in {rows[task[k].id], None}
  BY <1>1 DEF HandlerFits
<1>3. About(k)' \subseteq About(k)
  BY <1>1, <1>2 DEF About
<1> QED BY <1>1, <1>3 DEF HandlerFits, Answered

\* RowsFit, of one handler.
Fitting(t) ==
    /\ \A i \in Parked : Holds(t, i) /\ task[t].of # None => rows[i] \in {None, task[t].of}
    /\ Asking(t) /\ task[t].at \in {"confirm", "reconfirm"} =>
          (Answered(t, "ok") \/ Answered(t, "not_found") => rows[task[t].id] = None)
    /\ Asking(t) /\ task[t].at = "cancel" /\ task[t].answer # None =>
          rows[task[t].id] \in unheard \cup {None}
    /\ Confirming(t) =>
          /\ screen.staged # None /\ screen.gpx \in {None, task[t].of}
          /\ IF task[t].at = "confirm" THEN task[t].id = screen.staged
             ELSE rows[screen.staged] = None

LEMMA StaysFitting ==
    ASSUME ImportTypes, \A k \in Tasks : HandlerFits(k), RowsFit, NEW t, Beside(t),
           unheard \subseteq unheard', \A i \in Ids : rows'[i] \in {rows[i], None},
           \A k \in Tasks \ {t} : Confirming(k) =>
              screen'.staged = screen.staged /\ screen'.gpx \in {None, screen.gpx}
    PROVE  \A k \in Tasks \ {t} : Fitting(k)'
<1> SUFFICES ASSUME NEW k \in Tasks \ {t} PROVE Fitting(k)'
  OBVIOUS
<1>1. Asking(k)' => task'[k] = task[k] /\ Asking(k)
  BY BesideStay
<1>2. Fitting(k) /\ HandlerFits(k)
  BY DEF RowsFit, Fitting
<1>3. ASSUME NEW i \in Parked, Holds(k, i)', task'[k].of # None
      PROVE  rows'[i] \in {None, task'[k].of}
  <2>1. Holds(k, i) /\ task'[k] = task[k]
    BY <1>1, <1>3, BesideStay DEF Holds
  <2>2. i \in Ids
    BY <1>2, <2>1, HeldIsKnown
  <2> QED BY <1>2, <1>3, <2>1, <2>2 DEF Fitting
<1>4. ASSUME Asking(k)', task'[k].at \in {"confirm", "reconfirm", "cancel"}
      PROVE  rows'[task'[k].id] \in {rows[task[k].id], None}
  BY <1>1, <1>2, <1>4 DEF HandlerFits, Asking
<1>5. Asking(k)' /\ task'[k].at \in {"confirm", "reconfirm"} =>
         (Answered(k, "ok")' \/ Answered(k, "not_found")' => rows'[task'[k].id] = None)
  BY <1>1, <1>2, <1>4 DEF Fitting, Answered
<1>6. Asking(k)' /\ task'[k].at = "cancel" /\ task'[k].answer # None =>
         rows'[task'[k].id] \in unheard' \cup {None}
  BY <1>1, <1>2, <1>4 DEF Fitting
<1>7. ASSUME Confirming(k)'
      PROVE  /\ screen'.staged # None /\ screen'.gpx \in {None, task'[k].of}
             /\ IF task'[k].at = "confirm" THEN task'[k].id = screen'.staged
                ELSE rows'[screen'.staged] = None
  <2>1. Confirming(k) /\ task'[k] = task[k]
    BY <1>1, <1>7, BesideStay DEF Confirming
  <2>2. screen.staged \in Ids \cup {None}
    BY DEF ImportTypes
  <2> QED BY <1>2, <2>1, <2>2 DEF Fitting
<1> QED BY <1>3, <1>5, <1>6, <1>7 DEF Fitting, Parked

\* A file whose row is gone is parked again.
LEMMA RestageKeeps ==
    ASSUME ImportInductive, NEW t \in Tasks, Restage(t)
    PROVE  ImportInductive'
<1>1. /\ task[t] # None /\ ~task[t].gone /\ task[t].do = "confirm" /\ task[t].at = "confirm"
      /\ task[t].of # None /\ Answered(t, "not_found")
      /\ screen' = screen /\ form' = form
      /\ rows' = rows /\ lastId' = lastId /\ made' = made /\ chosen' = chosen
      /\ unheard' = unheard
  BY DEF Restage, At, archive
<1>2. /\ \A k \in Tasks : HandlerFits(k)
      /\ ImportTypes /\ OneAtATime /\ RowsFit /\ RowsWatched
      /\ \A c \in Known \ unheard : InOnePlace(c)
  BY DEF ImportInductive
<1>3. task[t] \in Errand /\ HandlerFits(t)
  BY <1>1, <1>2 DEF ImportTypes
<1> DEFINE g == Asks(t, "restage", 0)
<1>4. /\ g \in Errand /\ g.do = "confirm" /\ g.at = "restage" /\ g.of = task[t].of
      /\ g.gone = FALSE /\ g.answer = None
  BY <1>1, <1>3, AsksErrand
<1>5. task' \in [Tasks -> Errand \cup {None}] /\ task'[t] = g /\ Beside(t)
  BY <1>2, <1>4, GoesOn DEF Restage
<1>6. g # None
  BY <1>4, ErrandsTyped
<1> HIDE DEF g
<1>7. ImportTypes'
  BY <1>1, <1>2, <1>3, ErrandsTyped, <1>4, <1>5, <1>6 DEF ImportTypes, Signals, Known, Ids
<1>8. ASSUME NEW k \in Tasks PROVE HandlerFits(k)'
  <2>1. CASE k = t
    BY <1>1, <1>2, <1>3, ErrandsTyped, <1>4, <1>5, <1>6, <2>1
       DEF HandlerFits, Answered, Known, Ids
  <2>2. CASE k # t
    BY <1>1, <1>2, <1>5, <2>2, StaysFitted DEF Known, Ids
  <2> QED BY <2>1, <2>2
<1>9. OneAtATime'
  BY <1>1, <1>2, <1>3, ErrandsTyped, <1>4, <1>5, <1>6, BesideStay
     DEF OneAtATime, ReadsFile, Submits, Asking, Confirming, HandlerFits
<1>10. RowsFit'
  <2>1. \A k \in Tasks \ {t} : Fitting(k)'
    BY <1>1, <1>2, <1>5, StaysFitting DEF OneAtATime, Submits, Confirming, Asking, RowsFit
  <2>2. Fitting(t)'
    BY <1>1, <1>2, <1>3, ErrandsTyped, <1>4, <1>5, <1>6
       DEF Fitting, Holds, Answered, Asking, Confirming, HandlerFits, RowsFit
  <2>3. screen'.staged # None /\ screen'.gpx # None =>
           rows'[screen'.staged] \in {None, screen'.gpx}
    BY <1>1, <1>2, <1>3, ErrandsTyped, <1>4, <1>5, <1>6 DEF RowsFit
  <2> QED BY <2>1, <2>2, <2>3 DEF RowsFit, Fitting, Parked
<1>11. RowsWatched'
  <2> SUFFICES ASSUME NEW i \in Parked, rows[i] # None, rows[i] \notin unheard, i # screen'.staged
               PROVE  \E k \in Tasks : Holds(k, i)'
    BY <1>1, <1>2, <1>3, ErrandsTyped, <1>4, <1>5, <1>6 DEF RowsWatched
  <2>1. CASE \E k \in Tasks \ {t} : Holds(k, i)
    BY <1>1, <1>2, <1>3, ErrandsTyped, <1>4, <1>5, <1>6, <2>1, BesideStay
  <2>2. CASE i = screen.staged \/ Holds(t, i)
    BY <1>1, <1>2, <1>3, ErrandsTyped, <1>4, <1>5, <1>6, <2>2, ImportAssumption
       DEF Parked, RowsFit, Holds, Answered, Asking, Confirming, HandlerFits, OneAtATime,
           Submits
  <2> QED BY <1>2, <2>1, <2>2 DEF RowsWatched
<1>12. ASSUME NEW c \in (Known \ unheard)' PROVE InOnePlace(c)'
  <2>1. c \in Known \ unheard /\ InOnePlace(c) /\ c # None
    BY <1>1, <1>2, ImportAssumption DEF Known
  <2>2. Untouched(c)
    BY <1>1, <2>1 DEF Untouched, InOnePlace, Becomes
  <2>3. Carries(t, c)
    BY <1>1, <1>2, <1>3, ErrandsTyped, <1>4, <1>5, <1>6, <2>1
       DEF Carries, Asking, Bears, Done, Holds, Answered, Confirming, HandlerFits, RowsFit
  <2> QED BY <1>2, <1>5, <2>1, <2>2, <2>3, StaysInPlace
<1> QED BY <1>7, <1>8, <1>9, <1>10, <1>11, <1>12 DEF ImportInductive

\* The row it is parked in is confirmed.
LEMMA ReconfirmKeeps ==
    ASSUME ImportInductive, NEW t \in Tasks, Reconfirm(t)
    PROVE  ImportInductive'
<1>1. /\ task[t] # None /\ ~task[t].gone /\ task[t].do = "confirm" /\ task[t].at = "restage"
      /\ Answered(t, "ok")
      /\ screen' = screen /\ form' = form
      /\ rows' = rows /\ lastId' = lastId /\ made' = made /\ chosen' = chosen
      /\ unheard' = unheard
  BY DEF Reconfirm, At, archive
<1>2. /\ \A k \in Tasks : HandlerFits(k)
      /\ ImportTypes /\ OneAtATime /\ RowsFit /\ RowsWatched
      /\ \A c \in Known \ unheard : InOnePlace(c)
  BY DEF ImportInductive
<1>3. task[t] \in Errand /\ HandlerFits(t)
  BY <1>1, <1>2 DEF ImportTypes
<1> DEFINE g == Asks(t, "reconfirm", task[t].answer.id)
<1>4. /\ g \in Errand /\ g.do = "confirm" /\ g.at = "reconfirm" /\ g.of = task[t].of
      /\ g.gone = FALSE /\ g.answer = None /\ g.id = task[t].answer.id
  BY <1>1, <1>3, AsksErrand, ErrandsTyped DEF Answered
<1>5. task' \in [Tasks -> Errand \cup {None}] /\ task'[t] = g /\ Beside(t)
  BY <1>2, <1>4, GoesOn DEF Reconfirm
<1>6. g # None
  BY <1>4, ErrandsTyped
<1> HIDE DEF g
<1>7. ImportTypes'
  BY <1>1, <1>2, <1>3, ErrandsTyped, <1>4, <1>5, <1>6 DEF ImportTypes, Signals, Known, Ids
<1>8. ASSUME NEW k \in Tasks PROVE HandlerFits(k)'
  <2>1. CASE k = t
    BY <1>1, <1>2, <1>3, ErrandsTyped, <1>4, <1>5, <1>6, <2>1
       DEF HandlerFits, Answered, Known, Ids
  <2>2. CASE k # t
    BY <1>1, <1>2, <1>5, <2>2, StaysFitted DEF Known, Ids
  <2> QED BY <2>1, <2>2
<1>9. OneAtATime'
  BY <1>1, <1>2, <1>3, ErrandsTyped, <1>4, <1>5, <1>6, BesideStay
     DEF OneAtATime, ReadsFile, Submits, Asking, Confirming, HandlerFits
<1>10. RowsFit'
  <2>1. \A k \in Tasks \ {t} : Fitting(k)'
    BY <1>1, <1>2, <1>5, StaysFitting DEF OneAtATime, Submits, Confirming, Asking, RowsFit
  <2>2. Fitting(t)'
    BY <1>1, <1>2, <1>3, ErrandsTyped, <1>4, <1>5, <1>6
       DEF Fitting, Holds, Answered, Asking, Confirming, HandlerFits, RowsFit
  <2>3. screen'.staged # None /\ screen'.gpx # None =>
           rows'[screen'.staged] \in {None, screen'.gpx}
    BY <1>1, <1>2, <1>3, ErrandsTyped, <1>4, <1>5, <1>6 DEF RowsFit
  <2> QED BY <2>1, <2>2, <2>3 DEF RowsFit, Fitting, Parked
<1>11. RowsWatched'
  <2> SUFFICES ASSUME NEW i \in Parked, rows[i] # None, rows[i] \notin unheard, i # screen'.staged
               PROVE  \E k \in Tasks : Holds(k, i)'
    BY <1>1, <1>2, <1>3, ErrandsTyped, <1>4, <1>5, <1>6 DEF RowsWatched
  <2>1. CASE \E k \in Tasks \ {t} : Holds(k, i)
    BY <1>1, <1>2, <1>3, ErrandsTyped, <1>4, <1>5, <1>6, <2>1, BesideStay
  <2>2. CASE i = screen.staged \/ Holds(t, i)
    BY <1>1, <1>2, <1>3, ErrandsTyped, <1>4, <1>5, <1>6, <2>2, ImportAssumption
       DEF Parked, RowsFit, Holds, Answered, Asking, Confirming, HandlerFits, OneAtATime,
           Submits
  <2> QED BY <1>2, <2>1, <2>2 DEF RowsWatched
<1>12. ASSUME NEW c \in (Known \ unheard)' PROVE InOnePlace(c)'
  <2>1. c \in Known \ unheard /\ InOnePlace(c) /\ c # None
    BY <1>1, <1>2, ImportAssumption DEF Known
  <2>2. Untouched(c)
    BY <1>1, <2>1 DEF Untouched, InOnePlace, Becomes
  <2>3. Carries(t, c)
    BY <1>1, <1>2, <1>3, ErrandsTyped, <1>4, <1>5, <1>6, <2>1
       DEF Carries, Asking, Bears, Done, Holds, Answered, Confirming, HandlerFits, RowsFit
  <2> QED BY <1>2, <1>5, <2>1, <2>2, <2>3, StaysInPlace
<1> QED BY <1>7, <1>8, <1>9, <1>10, <1>11, <1>12 DEF ImportInductive

\* The next photos go up.
LEMMA NextBatchKeeps ==
    ASSUME ImportInductive, NEW t \in Tasks, NextBatch(t)
    PROVE  ImportInductive'
<1>1. /\ task[t] # None /\ ~task[t].gone /\ task[t].do = "confirm" /\ task[t].at = "photos"
      /\ screen' = screen /\ form' = form
      /\ rows' = rows /\ lastId' = lastId /\ made' = made /\ chosen' = chosen
      /\ unheard' = unheard
  BY DEF NextBatch, At, archive
<1>2. /\ \A k \in Tasks : HandlerFits(k)
      /\ ImportTypes /\ OneAtATime /\ RowsFit /\ RowsWatched
      /\ \A c \in Known \ unheard : InOnePlace(c)
  BY DEF ImportInductive
<1>3. task[t] \in Errand /\ HandlerFits(t)
  BY <1>1, <1>2 DEF ImportTypes
<1> DEFINE g == [Asks(t, "photos", task[t].id) EXCEPT !.sent = @ + 1]
<1>4. /\ g \in Errand /\ g.do = "confirm" /\ g.at = "photos" /\ g.of = task[t].of
      /\ g.gone = FALSE /\ g.answer = None
  BY <1>1, <1>3, AsksErrand, ErrandsTyped DEF Errand
<1>5. task' \in [Tasks -> Errand \cup {None}] /\ task'[t] = g /\ Beside(t)
  BY <1>2, <1>4, GoesOn DEF NextBatch
<1>6. g # None
  BY <1>4, ErrandsTyped
<1> HIDE DEF g
<1>7. ImportTypes'
  BY <1>1, <1>2, <1>3, ErrandsTyped, <1>4, <1>5, <1>6 DEF ImportTypes, Signals, Known, Ids
<1>8. ASSUME NEW k \in Tasks PROVE HandlerFits(k)'
  <2>1. CASE k = t
    BY <1>1, <1>2, <1>3, ErrandsTyped, <1>4, <1>5, <1>6, <2>1
       DEF HandlerFits, Answered, Known, Ids
  <2>2. CASE k # t
    BY <1>1, <1>2, <1>5, <2>2, StaysFitted DEF Known, Ids
  <2> QED BY <2>1, <2>2
<1>9. OneAtATime'
  BY <1>1, <1>2, <1>3, ErrandsTyped, <1>4, <1>5, <1>6, BesideStay
     DEF OneAtATime, ReadsFile, Submits, Asking, Confirming, HandlerFits
<1>10. RowsFit'
  <2>1. \A k \in Tasks \ {t} : Fitting(k)'
    BY <1>1, <1>2, <1>5, StaysFitting DEF OneAtATime, Submits, Confirming, Asking, RowsFit
  <2>2. Fitting(t)'
    BY <1>1, <1>2, <1>3, ErrandsTyped, <1>4, <1>5, <1>6
       DEF Fitting, Holds, Answered, Asking, Confirming, HandlerFits, RowsFit
  <2>3. screen'.staged # None /\ screen'.gpx # None =>
           rows'[screen'.staged] \in {None, screen'.gpx}
    BY <1>1, <1>2, <1>3, ErrandsTyped, <1>4, <1>5, <1>6 DEF RowsFit
  <2> QED BY <2>1, <2>2, <2>3 DEF RowsFit, Fitting, Parked
<1>11. RowsWatched'
  <2> SUFFICES ASSUME NEW i \in Parked, rows[i] # None, rows[i] \notin unheard, i # screen'.staged
               PROVE  \E k \in Tasks : Holds(k, i)'
    BY <1>1, <1>2, <1>3, ErrandsTyped, <1>4, <1>5, <1>6 DEF RowsWatched
  <2>1. CASE \E k \in Tasks \ {t} : Holds(k, i)
    BY <1>1, <1>2, <1>3, ErrandsTyped, <1>4, <1>5, <1>6, <2>1, BesideStay
  <2>2. CASE i = screen.staged \/ Holds(t, i)
    BY <1>1, <1>2, <1>3, ErrandsTyped, <1>4, <1>5, <1>6, <2>2, ImportAssumption
       DEF Parked, RowsFit, Holds, Answered, Asking, Confirming, HandlerFits, OneAtATime,
           Submits
  <2> QED BY <1>2, <2>1, <2>2 DEF RowsWatched
<1>12. ASSUME NEW c \in (Known \ unheard)' PROVE InOnePlace(c)'
  <2>1. c \in Known \ unheard /\ InOnePlace(c) /\ c # None
    BY <1>1, <1>2, ImportAssumption DEF Known
  <2>2. Untouched(c)
    BY <1>1, <2>1 DEF Untouched, InOnePlace, Becomes
  <2>3. Carries(t, c)
    BY <1>1, <1>2, <1>3, ErrandsTyped, <1>4, <1>5, <1>6, <2>1
       DEF Carries, Asking, Bears, Done, Holds, Answered, Confirming, HandlerFits, RowsFit
  <2> QED BY <1>2, <1>5, <2>1, <2>2, <2>3, StaysInPlace
<1> QED BY <1>7, <1>8, <1>9, <1>10, <1>11, <1>12 DEF ImportInductive

\* The trip is made, and its photos follow.
LEMMA UploadPhotosKeeps ==
    ASSUME ImportInductive, NEW t \in Tasks, UploadPhotos(t)
    PROVE  ImportInductive'
<1>1. /\ task[t] # None /\ ~task[t].gone /\ task[t].do = "confirm"
      /\ task[t].at \in {"confirm", "reconfirm"}
      /\ Answered(t, "ok")
      /\ rows' = rows /\ lastId' = lastId /\ made' = made /\ chosen' = chosen
      /\ unheard' = unheard
  BY DEF UploadPhotos, At, archive, Shows
<1>2. /\ \A k \in Tasks : HandlerFits(k)
      /\ ImportTypes /\ OneAtATime /\ RowsFit /\ RowsWatched
      /\ \A c \in Known \ unheard : InOnePlace(c)
  BY DEF ImportInductive
<1>3. task[t] \in Errand /\ HandlerFits(t)
  BY <1>1, <1>2 DEF ImportTypes
<1> DEFINE g == Asks(t, "photos", task[t].answer.id)
<1>4. /\ g \in Errand /\ g.do = "confirm" /\ g.at = "photos" /\ g.of = task[t].of
      /\ g.gone = FALSE /\ g.answer = None
  BY <1>1, <1>3, AsksErrand, ErrandsTyped DEF Answered
<1>5. task' \in [Tasks -> Errand \cup {None}] /\ task'[t] = g /\ Beside(t)
  BY <1>2, <1>4, GoesOn DEF UploadPhotos
<1>6. g # None
  BY <1>4, ErrandsTyped
<1> HIDE DEF g
<1>7. screen' = [screen EXCEPT !.staged = None, !.uploading = TRUE] /\ form' \in {form, NoPhotos}
  BY DEF UploadPhotos, Shows
<1>8. form' \in [picked : Nat, read : Nat \cup {None}, reading : BOOLEAN]
  BY <1>2, <1>7, NoPhotosTyped DEF ImportTypes
<1>9. /\ screen' \in Signals
      /\ screen'.staged = None /\ screen'.gpx = screen.gpx
      /\ screen'.collection = screen.collection
      /\ screen'.reading = screen.reading /\ screen'.submitting = screen.submitting
  <2>1. PICK s \in Signals : screen = s
    BY <1>2 DEF ImportTypes, Signals
  <2>2. screen' = [s EXCEPT !.staged = None, !.uploading = TRUE]
    BY <1>7, <2>1
  <2> QED BY <2>1, <2>2 DEF Signals
<1>10. ImportTypes'
  BY <1>1, <1>2, <1>3, ErrandsTyped, <1>4, <1>5, <1>6, <1>8, <1>9
     DEF ImportTypes, Signals, Known, Ids
<1>11. ASSUME NEW k \in Tasks PROVE HandlerFits(k)'
  <2>1. CASE k = t
    BY <1>1, <1>2, <1>3, ErrandsTyped, <1>4, <1>5, <1>6, <1>9, <2>1
       DEF HandlerFits, Answered, Known, Ids
  <2>2. CASE k # t
    BY <1>1, <1>2, <1>5, <2>2, StaysFitted DEF Known, Ids
  <2> QED BY <2>1, <2>2
<1>12. OneAtATime'
  BY <1>1, <1>2, <1>3, ErrandsTyped, <1>4, <1>5, <1>6, <1>9, BesideStay
     DEF OneAtATime, ReadsFile, Submits, Asking, Confirming, HandlerFits
<1>13. RowsFit'
  <2>1. \A k \in Tasks \ {t} : Fitting(k)'
    BY <1>1, <1>2, <1>5, <1>9, StaysFitting DEF OneAtATime, Submits, Confirming, Asking, RowsFit
  <2>2. Fitting(t)'
    BY <1>1, <1>2, <1>3, ErrandsTyped, <1>4, <1>5, <1>6, <1>9
       DEF Fitting, Holds, Answered, Asking, Confirming, HandlerFits, RowsFit
  <2>3. screen'.staged # None /\ screen'.gpx # None =>
           rows'[screen'.staged] \in {None, screen'.gpx}
    BY <1>1, <1>2, <1>3, ErrandsTyped, <1>4, <1>5, <1>6, <1>9 DEF RowsFit
  <2> QED BY <2>1, <2>2, <2>3 DEF RowsFit, Fitting, Parked
<1>14. RowsWatched'
  <2> SUFFICES ASSUME NEW i \in Parked, rows[i] # None, rows[i] \notin unheard, i # screen'.staged
               PROVE  \E k \in Tasks : Holds(k, i)'
    BY <1>1, <1>2, <1>3, ErrandsTyped, <1>4, <1>5, <1>6, <1>9 DEF RowsWatched
  <2>1. CASE \E k \in Tasks \ {t} : Holds(k, i)
    BY <1>1, <1>2, <1>3, ErrandsTyped, <1>4, <1>5, <1>6, <1>9, <2>1, BesideStay
  <2>2. CASE i = screen.staged \/ Holds(t, i)
    BY <1>1, <1>2, <1>3, ErrandsTyped, <1>4, <1>5, <1>6, <1>9, <2>2, ImportAssumption
       DEF Parked, RowsFit, Holds, Answered, Asking, Confirming, HandlerFits, OneAtATime,
           Submits
  <2> QED BY <1>2, <2>1, <2>2 DEF RowsWatched
<1>15. ASSUME NEW c \in (Known \ unheard)' PROVE InOnePlace(c)'
  <2>1. c \in Known \ unheard /\ InOnePlace(c) /\ c # None
    BY <1>1, <1>2, ImportAssumption DEF Known
  <2>2. Untouched(c)
    BY <1>1, <1>9, <2>1 DEF Untouched, InOnePlace, Becomes
  <2>3. Carries(t, c)
    BY <1>1, <1>2, <1>3, ErrandsTyped, <1>4, <1>5, <1>6, <1>9, <2>1
       DEF Carries, Asking, Bears, Done, Holds, Answered, Confirming, HandlerFits, RowsFit
  <2> QED BY <1>2, <1>5, <2>1, <2>2, <2>3, StaysInPlace
<1> QED BY <1>10, <1>11, <1>12, <1>13, <1>14, <1>15 DEF ImportInductive

\* The photos stop.
LEMMA ShowPartialKeeps ==
    ASSUME ImportInductive, NEW t \in Tasks, ShowPartial(t)
    PROVE  ImportInductive'
<1>1. /\ task[t] # None /\ ~task[t].gone /\ task[t].do = "confirm" /\ task[t].at = "photos"
      /\ rows' = rows /\ lastId' = lastId /\ made' = made /\ chosen' = chosen
      /\ unheard' = unheard
  BY DEF ShowPartial, At, archive
<1>2. /\ \A k \in Tasks : HandlerFits(k)
      /\ ImportTypes /\ OneAtATime /\ RowsFit /\ RowsWatched
      /\ \A c \in Known \ unheard : InOnePlace(c)
  BY DEF ImportInductive
<1>3. task[t] \in Errand /\ HandlerFits(t)
  BY <1>1, <1>2 DEF ImportTypes
<1>4. task' \in [Tasks -> Errand \cup {None}] /\ task'[t] = None /\ Beside(t)
  BY <1>2, GoesOn DEF ShowPartial
<1>5. screen' = [screen EXCEPT !.uploading = FALSE, !.submitting = FALSE,
                               !.partial = [trip |-> task[t].id, uploaded |-> task[t].sent]] /\ form' \in {form, NoPhotos}
  BY DEF ShowPartial, Shows
<1>6. form' \in [picked : Nat, read : Nat \cup {None}, reading : BOOLEAN]
  BY <1>2, <1>5, NoPhotosTyped DEF ImportTypes
<1>7. /\ screen' \in Signals
      /\ screen'.staged = screen.staged /\ screen'.gpx = screen.gpx
      /\ screen'.collection = screen.collection
      /\ screen'.reading = screen.reading /\ screen'.submitting = FALSE
  <2>1. PICK s \in Signals : screen = s
    BY <1>2 DEF ImportTypes, Signals
  <2>2. PICK n \in Nat : task[t].id = n
    BY <1>3, ErrandsTyped
  <2>3. PICK m \in Nat : task[t].sent = m
    BY <1>3, ErrandsTyped
  <2>4. screen' = [s EXCEPT !.uploading = FALSE, !.submitting = FALSE,
                               !.partial = [trip |-> n, uploaded |-> m]]
    BY <1>5, <2>1, <2>2, <2>3
  <2> QED BY <2>1, <2>2, <2>3, <2>4 DEF Signals
<1>8. ImportTypes'
  BY <1>1, <1>2, <1>3, ErrandsTyped, <1>4, <1>6, <1>7 DEF ImportTypes, Signals, Known, Ids
<1>9. ASSUME NEW k \in Tasks PROVE HandlerFits(k)'
  <2>1. CASE k = t
    BY <1>1, <1>2, <1>3, ErrandsTyped, <1>4, <1>7, <2>1 DEF HandlerFits, Answered, Known, Ids
  <2>2. CASE k # t
    BY <1>1, <1>2, <1>4, <2>2, StaysFitted DEF Known, Ids
  <2> QED BY <2>1, <2>2
<1>10. OneAtATime'
  BY <1>1, <1>2, <1>3, ErrandsTyped, <1>4, <1>7, BesideStay
     DEF OneAtATime, ReadsFile, Submits, Asking, Confirming, HandlerFits
<1>11. RowsFit'
  <2>1. \A k \in Tasks \ {t} : Fitting(k)'
    BY <1>1, <1>2, <1>4, <1>7, StaysFitting DEF OneAtATime, Submits, Confirming, Asking, RowsFit
  <2>2. Fitting(t)'
    BY <1>1, <1>2, <1>3, ErrandsTyped, <1>4, <1>7
       DEF Fitting, Holds, Answered, Asking, Confirming, HandlerFits, RowsFit
  <2>3. screen'.staged # None /\ screen'.gpx # None =>
           rows'[screen'.staged] \in {None, screen'.gpx}
    BY <1>1, <1>2, <1>3, ErrandsTyped, <1>4, <1>7 DEF RowsFit
  <2> QED BY <2>1, <2>2, <2>3 DEF RowsFit, Fitting, Parked
<1>12. RowsWatched'
  <2> SUFFICES ASSUME NEW i \in Parked, rows[i] # None, rows[i] \notin unheard, i # screen'.staged
               PROVE  \E k \in Tasks : Holds(k, i)'
    BY <1>1, <1>2, <1>3, ErrandsTyped, <1>4, <1>7 DEF RowsWatched
  <2>1. CASE \E k \in Tasks \ {t} : Holds(k, i)
    BY <1>1, <1>2, <1>3, ErrandsTyped, <1>4, <1>7, <2>1, BesideStay
  <2>2. CASE i = screen.staged \/ Holds(t, i)
    BY <1>1, <1>2, <1>3, ErrandsTyped, <1>4, <1>7, <2>2, ImportAssumption
       DEF Parked, RowsFit, Holds, Answered, Asking, Confirming, HandlerFits, OneAtATime,
           Submits
  <2> QED BY <1>2, <2>1, <2>2 DEF RowsWatched
<1>13. ASSUME NEW c \in (Known \ unheard)' PROVE InOnePlace(c)'
  <2>1. c \in Known \ unheard /\ InOnePlace(c) /\ c # None
    BY <1>1, <1>2, ImportAssumption DEF Known
  <2>2. Untouched(c)
    BY <1>1, <1>7, <2>1 DEF Untouched, InOnePlace, Becomes
  <2>3. Carries(t, c)
    BY <1>1, <1>2, <1>3, ErrandsTyped, <1>4, <1>7, <2>1
       DEF Carries, Asking, Bears, Done, Holds, Answered, Confirming, HandlerFits, RowsFit
  <2> QED BY <1>2, <1>4, <2>1, <2>2, <2>3, StaysInPlace
<1> QED BY <1>8, <1>9, <1>10, <1>11, <1>12, <1>13 DEF ImportInductive

\* The collection is not made.
LEMMA CollectionRefusedKeeps ==
    ASSUME ImportInductive, NEW t \in Tasks, CollectionRefused(t)
    PROVE  ImportInductive'
<1>1. /\ task[t] # None /\ ~task[t].gone /\ task[t].do = "create" /\ task[t].at = "create"
      /\ Failed(t)
      /\ rows' = rows /\ lastId' = lastId /\ made' = made /\ chosen' = chosen
      /\ unheard' = unheard
  BY DEF CollectionRefused, At, archive
<1>2. /\ \A k \in Tasks : HandlerFits(k)
      /\ ImportTypes /\ OneAtATime /\ RowsFit /\ RowsWatched
      /\ \A c \in Known \ unheard : InOnePlace(c)
  BY DEF ImportInductive
<1>3. task[t] \in Errand /\ HandlerFits(t)
  BY <1>1, <1>2 DEF ImportTypes
<1>4. task' \in [Tasks -> Errand \cup {None}] /\ task'[t] = None /\ Beside(t)
  BY <1>2, GoesOn DEF CollectionRefused
<1>5. screen' = [screen EXCEPT !.submitting = FALSE] /\ form' \in {form, NoPhotos}
  BY DEF CollectionRefused, Shows
<1>6. form' \in [picked : Nat, read : Nat \cup {None}, reading : BOOLEAN]
  BY <1>2, <1>5, NoPhotosTyped DEF ImportTypes
<1>7. /\ screen' \in Signals
      /\ screen'.staged = screen.staged /\ screen'.gpx = screen.gpx
      /\ screen'.collection = screen.collection
      /\ screen'.reading = screen.reading /\ screen'.submitting = FALSE
  <2>1. PICK s \in Signals : screen = s
    BY <1>2 DEF ImportTypes, Signals
  <2>2. screen' = [s EXCEPT !.submitting = FALSE]
    BY <1>5, <2>1
  <2> QED BY <2>1, <2>2 DEF Signals
<1>8. ImportTypes'
  BY <1>1, <1>2, <1>3, ErrandsTyped, <1>4, <1>6, <1>7 DEF ImportTypes, Signals, Known, Ids
<1>9. ASSUME NEW k \in Tasks PROVE HandlerFits(k)'
  <2>1. CASE k = t
    BY <1>1, <1>2, <1>3, ErrandsTyped, <1>4, <1>7, <2>1 DEF HandlerFits, Answered, Known, Ids
  <2>2. CASE k # t
    BY <1>1, <1>2, <1>4, <2>2, StaysFitted DEF Known, Ids
  <2> QED BY <2>1, <2>2
<1>10. OneAtATime'
  BY <1>1, <1>2, <1>3, ErrandsTyped, <1>4, <1>7, BesideStay
     DEF OneAtATime, ReadsFile, Submits, Asking, Confirming, HandlerFits
<1>11. RowsFit'
  <2>1. \A k \in Tasks \ {t} : Fitting(k)'
    BY <1>1, <1>2, <1>4, <1>7, StaysFitting DEF OneAtATime, Submits, Confirming, Asking, RowsFit
  <2>2. Fitting(t)'
    BY <1>1, <1>2, <1>3, ErrandsTyped, <1>4, <1>7
       DEF Fitting, Holds, Answered, Asking, Confirming, HandlerFits, RowsFit
  <2>3. screen'.staged # None /\ screen'.gpx # None =>
           rows'[screen'.staged] \in {None, screen'.gpx}
    BY <1>1, <1>2, <1>3, ErrandsTyped, <1>4, <1>7 DEF RowsFit
  <2> QED BY <2>1, <2>2, <2>3 DEF RowsFit, Fitting, Parked
<1>12. RowsWatched'
  <2> SUFFICES ASSUME NEW i \in Parked, rows[i] # None, rows[i] \notin unheard, i # screen'.staged
               PROVE  \E k \in Tasks : Holds(k, i)'
    BY <1>1, <1>2, <1>3, ErrandsTyped, <1>4, <1>7 DEF RowsWatched
  <2>1. CASE \E k \in Tasks \ {t} : Holds(k, i)
    BY <1>1, <1>2, <1>3, ErrandsTyped, <1>4, <1>7, <2>1, BesideStay
  <2>2. CASE i = screen.staged \/ Holds(t, i)
    BY <1>1, <1>2, <1>3, ErrandsTyped, <1>4, <1>7, <2>2, ImportAssumption
       DEF Parked, RowsFit, Holds, Answered, Failed, Asking, Confirming, HandlerFits, OneAtATime,
           Submits
  <2> QED BY <1>2, <2>1, <2>2 DEF RowsWatched
<1>13. ASSUME NEW c \in (Known \ unheard)' PROVE InOnePlace(c)'
  <2>1. c \in Known \ unheard /\ InOnePlace(c) /\ c # None
    BY <1>1, <1>2, ImportAssumption DEF Known
  <2>2. Untouched(c)
    BY <1>1, <1>7, <2>1 DEF Untouched, InOnePlace, Becomes
  <2>3. Carries(t, c)
    BY <1>1, <1>2, <1>3, ErrandsTyped, <1>4, <1>7, <2>1
       DEF Carries, Asking, Bears, Done, Holds, Answered, Confirming, Failed, HandlerFits,
           RowsFit
  <2> QED BY <1>2, <1>4, <2>1, <2>2, <2>3, StaysInPlace
<1> QED BY <1>8, <1>9, <1>10, <1>11, <1>12, <1>13 DEF ImportInductive

\* A parse was cancelled.
LEMMA StartedOverKeeps ==
    ASSUME ImportInductive, NEW t \in Tasks, StartedOver(t)
    PROVE  ImportInductive'
<1>1. /\ task[t] # None /\ ~task[t].gone /\ task[t].do = "cancel" /\ task[t].at = "cancel"
      /\ task[t].answer # None
      /\ rows' = rows /\ lastId' = lastId /\ made' = made /\ chosen' = chosen
      /\ unheard' = unheard
  BY DEF StartedOver, At, archive
<1>2. /\ \A k \in Tasks : HandlerFits(k)
      /\ ImportTypes /\ OneAtATime /\ RowsFit /\ RowsWatched
      /\ \A c \in Known \ unheard : InOnePlace(c)
  BY DEF ImportInductive
<1>3. task[t] \in Errand /\ HandlerFits(t)
  BY <1>1, <1>2 DEF ImportTypes
<1>4. task' \in [Tasks -> Errand \cup {None}] /\ task'[t] = None /\ Beside(t)
  BY <1>2, GoesOn DEF StartedOver
<1>5. screen' = [screen EXCEPT !.gpx = None, !.collection = None] /\ form' \in {form, NoPhotos}
  BY DEF StartedOver, Shows
<1>6. form' \in [picked : Nat, read : Nat \cup {None}, reading : BOOLEAN]
  BY <1>2, <1>5, NoPhotosTyped DEF ImportTypes
<1>7. /\ screen' \in Signals
      /\ screen'.staged = screen.staged /\ screen'.gpx = None /\ screen'.collection = None
      /\ screen'.reading = screen.reading /\ screen'.submitting = screen.submitting
  <2>1. PICK s \in Signals : screen = s
    BY <1>2 DEF ImportTypes, Signals
  <2>2. screen' = [s EXCEPT !.gpx = None, !.collection = None]
    BY <1>5, <2>1
  <2> QED BY <2>1, <2>2 DEF Signals
<1>8. ImportTypes'
  BY <1>1, <1>2, <1>3, ErrandsTyped, <1>4, <1>6, <1>7 DEF ImportTypes, Signals, Known, Ids
<1>9. ASSUME NEW k \in Tasks PROVE HandlerFits(k)'
  <2>1. CASE k = t
    BY <1>1, <1>2, <1>3, ErrandsTyped, <1>4, <1>7, <2>1 DEF HandlerFits, Answered, Known, Ids
  <2>2. CASE k # t
    BY <1>1, <1>2, <1>4, <2>2, StaysFitted DEF Known, Ids
  <2> QED BY <2>1, <2>2
<1>10. OneAtATime'
  BY <1>1, <1>2, <1>3, ErrandsTyped, <1>4, <1>7, BesideStay
     DEF OneAtATime, ReadsFile, Submits, Asking, Confirming, HandlerFits
<1>11. RowsFit'
  <2>1. \A k \in Tasks \ {t} : Fitting(k)'
    BY <1>1, <1>2, <1>4, <1>7, StaysFitting DEF OneAtATime, Submits, Confirming, Asking, RowsFit
  <2>2. Fitting(t)'
    BY <1>1, <1>2, <1>3, ErrandsTyped, <1>4, <1>7
       DEF Fitting, Holds, Answered, Asking, Confirming, HandlerFits, RowsFit
  <2>3. screen'.staged # None /\ screen'.gpx # None =>
           rows'[screen'.staged] \in {None, screen'.gpx}
    BY <1>1, <1>2, <1>3, ErrandsTyped, <1>4, <1>7 DEF RowsFit
  <2> QED BY <2>1, <2>2, <2>3 DEF RowsFit, Fitting, Parked
<1>12. RowsWatched'
  <2> SUFFICES ASSUME NEW i \in Parked, rows[i] # None, rows[i] \notin unheard, i # screen'.staged
               PROVE  \E k \in Tasks : Holds(k, i)'
    BY <1>1, <1>2, <1>3, ErrandsTyped, <1>4, <1>7 DEF RowsWatched
  <2>1. CASE \E k \in Tasks \ {t} : Holds(k, i)
    BY <1>1, <1>2, <1>3, ErrandsTyped, <1>4, <1>7, <2>1, BesideStay
  <2>2. CASE i = screen.staged \/ Holds(t, i)
    BY <1>1, <1>2, <1>3, ErrandsTyped, <1>4, <1>7, <2>2, ImportAssumption
       DEF Parked, RowsFit, Holds, Answered, Asking, Confirming, HandlerFits, OneAtATime,
           Submits
  <2> QED BY <1>2, <2>1, <2>2 DEF RowsWatched
<1>13. ASSUME NEW c \in (Known \ unheard)' PROVE InOnePlace(c)'
  <2>1. c \in Known \ unheard /\ InOnePlace(c) /\ c # None
    BY <1>1, <1>2, ImportAssumption DEF Known
  <2>2. Untouched(c)
    BY <1>1, <1>7, <2>1 DEF Untouched, InOnePlace, Becomes
  <2>3. Carries(t, c)
    BY <1>1, <1>2, <1>3, ErrandsTyped, <1>4, <1>7, <2>1
       DEF Carries, Asking, Bears, Done, Holds, Answered, Confirming, HandlerFits, RowsFit
  <2> QED BY <1>2, <1>4, <2>1, <2>2, <2>3, StaysInPlace
<1> QED BY <1>8, <1>9, <1>10, <1>11, <1>12, <1>13 DEF ImportInductive

\* The upload's row comes on the screen.
LEMMA ShowParkedOkKeeps ==
    ASSUME ImportInductive, NEW t \in Tasks, ShowParked(t), Answered(t, "ok")
    PROVE  ImportInductive'
<1>1. /\ task[t] # None /\ ~task[t].gone /\ task[t].do = "stage" /\ task[t].at = "stage"
      /\ Answered(t, "ok")
      /\ rows' = rows /\ lastId' = lastId /\ made' = made /\ chosen' = chosen
      /\ unheard' = unheard
  BY DEF ShowParked, At, archive
<1>2. /\ \A k \in Tasks : HandlerFits(k)
      /\ ImportTypes /\ OneAtATime /\ RowsFit /\ RowsWatched
      /\ \A c \in Known \ unheard : InOnePlace(c)
  BY DEF ImportInductive
<1>3. task[t] \in Errand /\ HandlerFits(t)
  BY <1>1, <1>2 DEF ImportTypes
<1>4. task' \in [Tasks -> Errand \cup {None}] /\ task'[t] = None /\ Beside(t)
  BY <1>2, GoesOn DEF ShowParked
<1>5. screen' = [screen EXCEPT !.staged = task[t].answer.id, !.gpx = task[t].of,
                                   !.reading = FALSE] /\ form' \in {form, NoPhotos}
  BY DEF ShowParked, Shows
<1>6. form' \in [picked : Nat, read : Nat \cup {None}, reading : BOOLEAN]
  BY <1>2, <1>5, NoPhotosTyped DEF ImportTypes
<1>7. /\ screen' \in Signals
      /\ screen'.staged = task[t].answer.id /\ screen'.gpx = task[t].of
      /\ screen'.collection = screen.collection
      /\ screen'.reading = FALSE /\ screen'.submitting = screen.submitting
  <2>1. PICK s \in Signals : screen = s
    BY <1>2 DEF ImportTypes, Signals
  <2>2. PICK n \in Nat : task[t].answer.id = n
    BY <1>1, <1>3, ErrandsTyped DEF Answered
  <2>3. PICK m \in Nat \cup {None} : task[t].of = m
    BY <1>3, ErrandsTyped
  <2>4. screen' = [s EXCEPT !.staged = n, !.gpx = m,
                                   !.reading = FALSE]
    BY <1>5, <2>1, <2>2, <2>3
  <2> QED BY <2>1, <2>2, <2>3, <2>4 DEF Signals
<1>8. /\ screen'.staged \in Ids \cup {None}
      /\ {screen'.gpx, screen'.collection} \subseteq Known \cup {None}
  BY <1>1, <1>2, <1>3, <1>7 DEF HandlerFits, ImportTypes
<1>9. screen.reading /\ screen.staged = None /\ \A k \in Tasks : ~Confirming(k)
  BY <1>1, <1>2 DEF OneAtATime, RowsFit, ReadsFile, Asking
<1>10. screen'.staged \in Parked /\ Holds(t, screen'.staged)
  BY <1>1, <1>2, <1>3, <1>7, ImportAssumption
     DEF Holds, Asking, HandlerFits, Ids, ImportTypes, Parked, Answered
<1>11. ImportTypes'
  BY <1>1, <1>2, <1>4, <1>6, <1>7, <1>8 DEF ImportTypes, Signals, Known, Ids
<1>12. ASSUME NEW k \in Tasks PROVE HandlerFits(k)'
  <2>1. CASE k = t
    BY <1>1, <1>2, <1>3, ErrandsTyped, <1>4, <1>7, <1>9, <1>10, <2>1
       DEF HandlerFits, Answered, Known, Ids
  <2>2. CASE k # t
    BY <1>1, <1>2, <1>4, <2>2, StaysFitted DEF Known, Ids
  <2> QED BY <2>1, <2>2
<1>13. OneAtATime'
  BY <1>1, <1>2, <1>3, ErrandsTyped, <1>4, <1>7, <1>9, <1>10, BesideStay
     DEF OneAtATime, ReadsFile, Submits, Asking, Confirming, HandlerFits
<1>14. RowsFit'
  <2>1. \A k \in Tasks \ {t} : Fitting(k)'
    BY <1>1, <1>2, <1>4, <1>7, <1>9, <1>10, StaysFitting
       DEF OneAtATime, Submits, Confirming, Asking, RowsFit
  <2>2. Fitting(t)'
    BY <1>1, <1>2, <1>3, ErrandsTyped, <1>4, <1>7, <1>9, <1>10
       DEF Fitting, Holds, Answered, Asking, Confirming, HandlerFits, RowsFit
  <2>3. screen'.staged # None /\ screen'.gpx # None =>
           rows'[screen'.staged] \in {None, screen'.gpx}
    BY <1>1, <1>2, <1>3, ErrandsTyped, <1>4, <1>7, <1>9, <1>10 DEF RowsFit
  <2> QED BY <2>1, <2>2, <2>3 DEF RowsFit, Fitting, Parked
<1>15. RowsWatched'
  <2> SUFFICES ASSUME NEW i \in Parked, rows[i] # None, rows[i] \notin unheard, i # screen'.staged
               PROVE  \E k \in Tasks : Holds(k, i)'
    BY <1>1, <1>2, <1>3, ErrandsTyped, <1>4, <1>7, <1>9, <1>10 DEF RowsWatched
  <2>1. CASE \E k \in Tasks \ {t} : Holds(k, i)
    BY <1>1, <1>2, <1>3, ErrandsTyped, <1>4, <1>7, <1>9, <1>10, <2>1, BesideStay
  <2>2. CASE i = screen.staged \/ Holds(t, i)
    BY <1>1, <1>2, <1>3, ErrandsTyped, <1>4, <1>7, <1>9, <1>10, <2>2, ImportAssumption
       DEF Parked, RowsFit, Holds, Answered, Asking, Confirming, HandlerFits, OneAtATime,
           Submits
  <2> QED BY <1>2, <2>1, <2>2 DEF RowsWatched
<1>16. ASSUME NEW c \in (Known \ unheard)' PROVE InOnePlace(c)'
  <2>1. c \in Known \ unheard /\ InOnePlace(c) /\ c # None
    BY <1>1, <1>2, ImportAssumption DEF Known
  <2>2. CASE c # task[t].of
    <3>1. Untouched(c)
      BY <1>1, <1>7, <2>1, <2>2 DEF Untouched, InOnePlace, Becomes
    <3>2. Carries(t, c)
      BY <1>1, <1>4 DEF Carries, Asking, Bears, Confirming
    <3> QED BY <1>2, <1>4, <2>1, <3>1, <3>2, StaysInPlace
  <2>3. CASE c = task[t].of
    <3>1. ASSUME NEW k \in Tasks \ {t}, Bears(k)', task'[k].of = c, ~Done(k)'
          PROVE  ~Becomes(c) /\ \A i \in Parked : rows[i] = c => Holds(k, i)'
      <4>1. Carries(k, c)
        BY <1>2, <1>4, BesideCarries
      <4>2. Bears(k) /\ task[k].of = c /\ ~Done(k) /\ \A i \in Parked : rows[i] = c /\ Holds(k, i) => Holds(k, i)'
        BY <1>1, <3>1, <4>1 DEF Carries
      <4> QED BY <2>1, <4>2 DEF InOnePlace
    <3>2. ~Becomes(c) /\ \A i \in Parked : rows[i] = c => i = screen'.staged
      BY <1>1, <1>7, <2>1, <2>3 DEF InOnePlace, Bears, Done, Asking, Holds, Answered
    <3>3. screen'.collection = None
      BY <1>2, <1>7, <1>9 DEF OneAtATime
    <3>4. ASSUME NEW k \in Tasks, Asking(k)', task'[k].do = "create" PROVE task'[k].of # c
      BY <1>1, <1>2, <1>4, <2>3, <3>4, BesideStay DEF OneAtATime, ReadsFile, Submits, Asking
    <3>5. ~Bears(t)'
      BY <1>4 DEF Bears, Asking
    <3> QED BY <1>1, <2>1, <3>1, <3>2, <3>3, <3>4, <3>5 DEF InOnePlace, Becomes, Parked
  <2> QED BY <2>2, <2>3
<1> QED BY <1>11, <1>12, <1>13, <1>14, <1>15, <1>16 DEF ImportInductive

\* The upload was refused, or its answer lost.
LEMMA ShowRefusedKeeps ==
    ASSUME ImportInductive, NEW t \in Tasks, ShowParked(t), ~Answered(t, "ok")
    PROVE  ImportInductive'
<1>1. /\ task[t] # None /\ ~task[t].gone /\ task[t].do = "stage" /\ task[t].at = "stage"
      /\ ~Answered(t, "ok")
      /\ rows' = rows /\ lastId' = lastId /\ made' = made /\ chosen' = chosen
      /\ unheard' = unheard
  BY DEF ShowParked, At, archive
<1>2. /\ \A k \in Tasks : HandlerFits(k)
      /\ ImportTypes /\ OneAtATime /\ RowsFit /\ RowsWatched
      /\ \A c \in Known \ unheard : InOnePlace(c)
  BY DEF ImportInductive
<1>3. task[t] \in Errand /\ HandlerFits(t)
  BY <1>1, <1>2 DEF ImportTypes
<1>4. task' \in [Tasks -> Errand \cup {None}] /\ task'[t] = None /\ Beside(t)
  BY <1>2, GoesOn DEF ShowParked
<1>5. screen' = [screen EXCEPT !.gpx = None, !.reading = FALSE] /\ form' \in {form, NoPhotos}
  BY DEF ShowParked, Shows
<1>6. form' \in [picked : Nat, read : Nat \cup {None}, reading : BOOLEAN]
  BY <1>2, <1>5, NoPhotosTyped DEF ImportTypes
<1>7. /\ screen' \in Signals
      /\ screen'.staged = screen.staged /\ screen'.gpx = None
      /\ screen'.collection = screen.collection
      /\ screen'.reading = FALSE /\ screen'.submitting = screen.submitting
  <2>1. PICK s \in Signals : screen = s
    BY <1>2 DEF ImportTypes, Signals
  <2>2. screen' = [s EXCEPT !.gpx = None, !.reading = FALSE]
    BY <1>5, <2>1
  <2> QED BY <2>1, <2>2 DEF Signals
<1>8. ImportTypes'
  BY <1>1, <1>2, <1>3, ErrandsTyped, <1>4, <1>6, <1>7 DEF ImportTypes, Signals, Known, Ids
<1>9. ASSUME NEW k \in Tasks PROVE HandlerFits(k)'
  <2>1. CASE k = t
    BY <1>1, <1>2, <1>3, ErrandsTyped, <1>4, <1>7, <2>1 DEF HandlerFits, Answered, Known, Ids
  <2>2. CASE k # t
    BY <1>1, <1>2, <1>4, <2>2, StaysFitted DEF Known, Ids
  <2> QED BY <2>1, <2>2
<1>10. OneAtATime'
  BY <1>1, <1>2, <1>3, ErrandsTyped, <1>4, <1>7, BesideStay
     DEF OneAtATime, ReadsFile, Submits, Asking, Confirming, HandlerFits
<1>11. RowsFit'
  <2>1. \A k \in Tasks \ {t} : Fitting(k)'
    BY <1>1, <1>2, <1>4, <1>7, StaysFitting DEF OneAtATime, Submits, Confirming, Asking, RowsFit
  <2>2. Fitting(t)'
    BY <1>1, <1>2, <1>3, ErrandsTyped, <1>4, <1>7
       DEF Fitting, Holds, Answered, Asking, Confirming, HandlerFits, RowsFit
  <2>3. screen'.staged # None /\ screen'.gpx # None =>
           rows'[screen'.staged] \in {None, screen'.gpx}
    BY <1>1, <1>2, <1>3, ErrandsTyped, <1>4, <1>7 DEF RowsFit
  <2> QED BY <2>1, <2>2, <2>3 DEF RowsFit, Fitting, Parked
<1>12. RowsWatched'
  <2> SUFFICES ASSUME NEW i \in Parked, rows[i] # None, rows[i] \notin unheard, i # screen'.staged
               PROVE  \E k \in Tasks : Holds(k, i)'
    BY <1>1, <1>2, <1>3, ErrandsTyped, <1>4, <1>7 DEF RowsWatched
  <2>1. CASE \E k \in Tasks \ {t} : Holds(k, i)
    BY <1>1, <1>2, <1>3, ErrandsTyped, <1>4, <1>7, <2>1, BesideStay
  <2>2. CASE i = screen.staged \/ Holds(t, i)
    BY <1>1, <1>2, <1>3, ErrandsTyped, <1>4, <1>7, <2>2, ImportAssumption
       DEF Parked, RowsFit, Holds, Answered, Asking, Confirming, HandlerFits, OneAtATime,
           Submits
  <2> QED BY <1>2, <2>1, <2>2 DEF RowsWatched
<1>13. ASSUME NEW c \in (Known \ unheard)' PROVE InOnePlace(c)'
  <2>1. c \in Known \ unheard /\ InOnePlace(c) /\ c # None
    BY <1>1, <1>2, ImportAssumption DEF Known
  <2>2. Untouched(c)
    BY <1>1, <1>7, <2>1 DEF Untouched, InOnePlace, Becomes
  <2>3. Carries(t, c)
    BY <1>1, <1>2, <1>3, ErrandsTyped, <1>4, <1>7, <2>1
       DEF Carries, Asking, Bears, Done, Holds, Answered, Confirming, HandlerFits, RowsFit
  <2> QED BY <1>2, <1>4, <2>1, <2>2, <2>3, StaysInPlace
<1> QED BY <1>8, <1>9, <1>10, <1>11, <1>12, <1>13 DEF ImportInductive

\* The collection read comes on the screen.
LEMMA ShowPreviewOkKeeps ==
    ASSUME ImportInductive, NEW t \in Tasks, ShowPreview(t), Answered(t, "ok")
    PROVE  ImportInductive'
<1>1. /\ task[t] # None /\ ~task[t].gone /\ task[t].do = "preview" /\ task[t].at = "preview"
      /\ Answered(t, "ok")
      /\ rows' = rows /\ lastId' = lastId /\ made' = made /\ chosen' = chosen
      /\ unheard' = unheard
  BY DEF ShowPreview, At, archive
<1>2. /\ \A k \in Tasks : HandlerFits(k)
      /\ ImportTypes /\ OneAtATime /\ RowsFit /\ RowsWatched
      /\ \A c \in Known \ unheard : InOnePlace(c)
  BY DEF ImportInductive
<1>3. task[t] \in Errand /\ HandlerFits(t)
  BY <1>1, <1>2 DEF ImportTypes
<1>4. task' \in [Tasks -> Errand \cup {None}] /\ task'[t] = None /\ Beside(t)
  BY <1>2, GoesOn DEF ShowPreview
<1>5. /\ screen' = [screen EXCEPT !.reading = FALSE, !.collection = task[t].of]
      /\ form' \in {form, NoPhotos}
  BY <1>1 DEF ShowPreview, Shows
<1>6. form' \in [picked : Nat, read : Nat \cup {None}, reading : BOOLEAN]
  BY <1>2, <1>5, NoPhotosTyped DEF ImportTypes
<1>7. /\ screen' \in Signals
      /\ screen'.staged = screen.staged /\ screen'.gpx = screen.gpx
      /\ screen'.collection = task[t].of
      /\ screen'.reading = FALSE /\ screen'.submitting = screen.submitting
  <2>1. PICK s \in Signals : screen = s
    BY <1>2 DEF ImportTypes, Signals
  <2>2. PICK m \in Nat \cup {None} : task[t].of = m
    BY <1>3, ErrandsTyped
  <2>3. screen' = [s EXCEPT !.reading = FALSE, !.collection = m]
    BY <1>5, <2>1, <2>2
  <2> QED BY <2>1, <2>2, <2>3 DEF Signals
<1>8. /\ screen'.staged \in Ids \cup {None}
      /\ {screen'.gpx, screen'.collection} \subseteq Known \cup {None}
  BY <1>1, <1>2, <1>3, <1>7 DEF HandlerFits, ImportTypes
<1>9. ImportTypes'
  BY <1>1, <1>2, <1>4, <1>6, <1>7, <1>8 DEF ImportTypes, Signals, Known, Ids
<1>10. ASSUME NEW k \in Tasks PROVE HandlerFits(k)'
  <2>1. CASE k = t
    BY <1>1, <1>2, <1>3, ErrandsTyped, <1>4, <1>7, <2>1 DEF HandlerFits, Answered, Known, Ids
  <2>2. CASE k # t
    BY <1>1, <1>2, <1>4, <2>2, StaysFitted DEF Known, Ids
  <2> QED BY <2>1, <2>2
<1>11. OneAtATime'
  BY <1>1, <1>2, <1>3, ErrandsTyped, <1>4, <1>7, BesideStay
     DEF OneAtATime, ReadsFile, Submits, Asking, Confirming, HandlerFits
<1>12. RowsFit'
  <2>1. \A k \in Tasks \ {t} : Fitting(k)'
    BY <1>1, <1>2, <1>4, <1>7, StaysFitting DEF OneAtATime, Submits, Confirming, Asking, RowsFit
  <2>2. Fitting(t)'
    BY <1>1, <1>2, <1>3, ErrandsTyped, <1>4, <1>7
       DEF Fitting, Holds, Answered, Asking, Confirming, HandlerFits, RowsFit
  <2>3. screen'.staged # None /\ screen'.gpx # None =>
           rows'[screen'.staged] \in {None, screen'.gpx}
    BY <1>1, <1>2, <1>3, ErrandsTyped, <1>4, <1>7 DEF RowsFit
  <2> QED BY <2>1, <2>2, <2>3 DEF RowsFit, Fitting, Parked
<1>13. RowsWatched'
  <2> SUFFICES ASSUME NEW i \in Parked, rows[i] # None, rows[i] \notin unheard, i # screen'.staged
               PROVE  \E k \in Tasks : Holds(k, i)'
    BY <1>1, <1>2, <1>3, ErrandsTyped, <1>4, <1>7 DEF RowsWatched
  <2>1. CASE \E k \in Tasks \ {t} : Holds(k, i)
    BY <1>1, <1>2, <1>3, ErrandsTyped, <1>4, <1>7, <2>1, BesideStay
  <2>2. CASE i = screen.staged \/ Holds(t, i)
    BY <1>1, <1>2, <1>3, ErrandsTyped, <1>4, <1>7, <2>2, ImportAssumption
       DEF Parked, RowsFit, Holds, Answered, Asking, Confirming, HandlerFits, OneAtATime,
           Submits
  <2> QED BY <1>2, <2>1, <2>2 DEF RowsWatched
<1>14. ASSUME NEW c \in (Known \ unheard)' PROVE InOnePlace(c)'
  <2>1. c \in Known \ unheard /\ InOnePlace(c) /\ c # None
    BY <1>1, <1>2, ImportAssumption DEF Known
  <2>2. CASE c # task[t].of
    <3>1. Untouched(c)
      BY <1>1, <1>7, <2>1, <2>2 DEF Untouched, InOnePlace, Becomes
    <3>2. Carries(t, c)
      BY <1>1, <1>4 DEF Carries, Asking, Bears, Confirming
    <3> QED BY <1>2, <1>4, <2>1, <3>1, <3>2, StaysInPlace
  <2>3. CASE c = task[t].of
    <3>1. ASSUME NEW k \in Tasks \ {t}, Bears(k)', task'[k].of = c, ~Done(k)'
          PROVE  ~Becomes(c) /\ \A i \in Parked : rows[i] = c => Holds(k, i)'
      <4>1. Carries(k, c)
        BY <1>2, <1>4, BesideCarries
      <4>2. Bears(k) /\ task[k].of = c /\ ~Done(k) /\ \A i \in Parked : rows[i] = c /\ Holds(k, i) => Holds(k, i)'
        BY <1>1, <3>1, <4>1 DEF Carries
      <4> QED BY <2>1, <4>2 DEF InOnePlace
    <3>2. ~Becomes(c) /\ \A i \in Parked : rows[i] # c
      BY <1>1, <2>1, <2>3 DEF InOnePlace, Bears, Done, Asking, Holds
    <3>3. screen'.staged = None
      BY <1>1, <1>2, <1>7 DEF OneAtATime, ReadsFile, Asking
    <3>4. ASSUME NEW k \in Tasks, Asking(k)', task'[k].do = "confirm" PROVE task'[k].of # c
      BY <1>1, <1>2, <1>4, <2>3, <3>4, BesideStay DEF OneAtATime, ReadsFile, Submits, Asking
    <3>5. ~Bears(t)'
      BY <1>4 DEF Bears, Asking
    <3> QED BY <1>1, <2>1, <3>1, <3>2, <3>3, <3>4, <3>5 DEF InOnePlace, Becomes, Parked
  <2> QED BY <2>2, <2>3
<1> QED BY <1>9, <1>10, <1>11, <1>12, <1>13, <1>14 DEF ImportInductive

\* The collection could not be read.
LEMMA PreviewRefusedKeeps ==
    ASSUME ImportInductive, NEW t \in Tasks, ShowPreview(t), ~Answered(t, "ok")
    PROVE  ImportInductive'
<1>1. /\ task[t] # None /\ ~task[t].gone /\ task[t].do = "preview" /\ task[t].at = "preview"
      /\ ~Answered(t, "ok")
      /\ rows' = rows /\ lastId' = lastId /\ made' = made /\ chosen' = chosen
      /\ unheard' = unheard
  BY DEF ShowPreview, At, archive
<1>2. /\ \A k \in Tasks : HandlerFits(k)
      /\ ImportTypes /\ OneAtATime /\ RowsFit /\ RowsWatched
      /\ \A c \in Known \ unheard : InOnePlace(c)
  BY DEF ImportInductive
<1>3. task[t] \in Errand /\ HandlerFits(t)
  BY <1>1, <1>2 DEF ImportTypes
<1>4. task' \in [Tasks -> Errand \cup {None}] /\ task'[t] = None /\ Beside(t)
  BY <1>2, GoesOn DEF ShowPreview
<1>5. /\ screen' = [screen EXCEPT !.reading = FALSE, !.collection = screen.collection]
      /\ form' \in {form, NoPhotos}
  BY <1>1 DEF ShowPreview, Shows
<1>6. form' \in [picked : Nat, read : Nat \cup {None}, reading : BOOLEAN]
  BY <1>2, <1>5, NoPhotosTyped DEF ImportTypes
<1>7. /\ screen' \in Signals
      /\ screen'.staged = screen.staged /\ screen'.gpx = screen.gpx
      /\ screen'.collection = screen.collection
      /\ screen'.reading = FALSE /\ screen'.submitting = screen.submitting
  <2>1. PICK s \in Signals : screen = s
    BY <1>2 DEF ImportTypes, Signals
  <2>2. screen' = [s EXCEPT !.reading = FALSE, !.collection = s.collection]
    BY <1>5, <2>1
  <2> QED BY <2>1, <2>2 DEF Signals
<1>8. ImportTypes'
  BY <1>1, <1>2, <1>3, ErrandsTyped, <1>4, <1>6, <1>7 DEF ImportTypes, Signals, Known, Ids
<1>9. ASSUME NEW k \in Tasks PROVE HandlerFits(k)'
  <2>1. CASE k = t
    BY <1>1, <1>2, <1>3, ErrandsTyped, <1>4, <1>7, <2>1 DEF HandlerFits, Answered, Known, Ids
  <2>2. CASE k # t
    BY <1>1, <1>2, <1>4, <2>2, StaysFitted DEF Known, Ids
  <2> QED BY <2>1, <2>2
<1>10. OneAtATime'
  BY <1>1, <1>2, <1>3, ErrandsTyped, <1>4, <1>7, BesideStay
     DEF OneAtATime, ReadsFile, Submits, Asking, Confirming, HandlerFits
<1>11. RowsFit'
  <2>1. \A k \in Tasks \ {t} : Fitting(k)'
    BY <1>1, <1>2, <1>4, <1>7, StaysFitting DEF OneAtATime, Submits, Confirming, Asking, RowsFit
  <2>2. Fitting(t)'
    BY <1>1, <1>2, <1>3, ErrandsTyped, <1>4, <1>7
       DEF Fitting, Holds, Answered, Asking, Confirming, HandlerFits, RowsFit
  <2>3. screen'.staged # None /\ screen'.gpx # None =>
           rows'[screen'.staged] \in {None, screen'.gpx}
    BY <1>1, <1>2, <1>3, ErrandsTyped, <1>4, <1>7 DEF RowsFit
  <2> QED BY <2>1, <2>2, <2>3 DEF RowsFit, Fitting, Parked
<1>12. RowsWatched'
  <2> SUFFICES ASSUME NEW i \in Parked, rows[i] # None, rows[i] \notin unheard, i # screen'.staged
               PROVE  \E k \in Tasks : Holds(k, i)'
    BY <1>1, <1>2, <1>3, ErrandsTyped, <1>4, <1>7 DEF RowsWatched
  <2>1. CASE \E k \in Tasks \ {t} : Holds(k, i)
    BY <1>1, <1>2, <1>3, ErrandsTyped, <1>4, <1>7, <2>1, BesideStay
  <2>2. CASE i = screen.staged \/ Holds(t, i)
    BY <1>1, <1>2, <1>3, ErrandsTyped, <1>4, <1>7, <2>2, ImportAssumption
       DEF Parked, RowsFit, Holds, Answered, Asking, Confirming, HandlerFits, OneAtATime,
           Submits
  <2> QED BY <1>2, <2>1, <2>2 DEF RowsWatched
<1>13. ASSUME NEW c \in (Known \ unheard)' PROVE InOnePlace(c)'
  <2>1. c \in Known \ unheard /\ InOnePlace(c) /\ c # None
    BY <1>1, <1>2, ImportAssumption DEF Known
  <2>2. Untouched(c)
    BY <1>1, <1>7, <2>1 DEF Untouched, InOnePlace, Becomes
  <2>3. Carries(t, c)
    BY <1>1, <1>2, <1>3, ErrandsTyped, <1>4, <1>7, <2>1
       DEF Carries, Asking, Bears, Done, Holds, Answered, Confirming, HandlerFits, RowsFit
  <2> QED BY <1>2, <1>4, <2>1, <2>2, <2>3, StaysInPlace
<1> QED BY <1>8, <1>9, <1>10, <1>11, <1>12, <1>13 DEF ImportInductive

\* No trip is made: what is parked stays on the screen.
LEMMA NotImportedKeeps ==
    ASSUME ImportInductive, NEW t \in Tasks, NotImported(t)
    PROVE  ImportInductive'
<1>1. /\ task[t] # None /\ ~task[t].gone /\ task[t].do = "confirm"
      /\ task[t].at \in {"confirm", "restage", "reconfirm"}
      /\ Failed(t) /\ (task[t].at = "confirm" => ~(Answered(t, "not_found") /\ task[t].of # None))
      /\ rows' = rows /\ lastId' = lastId /\ made' = made /\ chosen' = chosen
      /\ unheard' = unheard
  BY DEF NotImported, At, archive
<1>2. /\ \A k \in Tasks : HandlerFits(k)
      /\ ImportTypes /\ OneAtATime /\ RowsFit /\ RowsWatched
      /\ \A c \in Known \ unheard : InOnePlace(c)
  BY DEF ImportInductive
<1>3. task[t] \in Errand /\ HandlerFits(t)
  BY <1>1, <1>2 DEF ImportTypes
<1>4. task' \in [Tasks -> Errand \cup {None}] /\ task'[t] = None /\ Beside(t)
  BY <1>2, GoesOn DEF NotImported
<1>5. /\ screen' = [screen EXCEPT !.staged = ParkedAfter(t), !.submitting = FALSE]
      /\ form' \in {form, NoPhotos}
  BY DEF NotImported, Shows
<1>6. form' \in [picked : Nat, read : Nat \cup {None}, reading : BOOLEAN]
  BY <1>2, <1>5, NoPhotosTyped DEF ImportTypes
<1>7. /\ screen' \in Signals
      /\ screen'.staged = ParkedAfter(t) /\ screen'.gpx = screen.gpx
      /\ screen'.collection = screen.collection
      /\ screen'.reading = screen.reading /\ screen'.submitting = FALSE
  <2>1. PICK s \in Signals : screen = s
    BY <1>2 DEF ImportTypes, Signals
  <2>2. PICK n \in Nat \cup {None} : ParkedAfter(t) = n
    BY <1>3, ErrandsTyped DEF ParkedAfter
  <2>3. screen' = [s EXCEPT !.staged = n, !.submitting = FALSE]
    BY <1>5, <2>1, <2>2
  <2> QED BY <2>1, <2>2, <2>3 DEF Signals
<1>8. /\ screen'.staged \in Ids \cup {None}
      /\ {screen'.gpx, screen'.collection} \subseteq Known \cup {None}
  BY <1>1, <1>2, <1>3, <1>7 DEF HandlerFits, ImportTypes, ParkedAfter, Answered
<1>9. ~screen.reading /\ screen.staged # None /\ Confirming(t) /\ Submits(t)
  BY <1>1, <1>2 DEF OneAtATime, RowsFit, Confirming, Submits, Asking
<1>10. screen'.staged # None => /\ screen'.staged = task[t].id /\ task[t].id \in Parked
                                /\ Holds(t, task[t].id) /\ Holds(t, screen'.staged)
  BY <1>1, <1>2, <1>3, <1>7, ImportAssumption
     DEF ParkedAfter, Holds, Asking, HandlerFits, Ids, ImportTypes, Parked
<1>11. ImportTypes'
  BY <1>1, <1>2, <1>4, <1>6, <1>7, <1>8 DEF ImportTypes, Signals, Known, Ids
<1>12. ASSUME NEW k \in Tasks PROVE HandlerFits(k)'
  <2>1. CASE k = t
    BY <1>1, <1>2, <1>3, ErrandsTyped, <1>4, <1>7, <1>9, <1>10, <2>1
       DEF HandlerFits, Answered, Known, Ids, ParkedAfter
  <2>2. CASE k # t
    BY <1>1, <1>2, <1>4, <2>2, StaysFitted DEF Known, Ids
  <2> QED BY <2>1, <2>2
<1>13. OneAtATime'
  BY <1>1, <1>2, <1>3, ErrandsTyped, <1>4, <1>7, <1>9, <1>10, BesideStay
     DEF OneAtATime, ReadsFile, Submits, Asking, Confirming, HandlerFits, ParkedAfter
<1>14. RowsFit'
  <2>1. \A k \in Tasks \ {t} : Fitting(k)'
    BY <1>1, <1>2, <1>4, <1>7, <1>9, <1>10, StaysFitting
       DEF OneAtATime, Submits, Confirming, Asking, RowsFit
  <2>2. Fitting(t)'
    BY <1>1, <1>2, <1>3, ErrandsTyped, <1>4, <1>7, <1>9, <1>10
       DEF Fitting, Holds, Answered, Asking, Confirming, HandlerFits, RowsFit, ParkedAfter
  <2>3. screen'.staged # None /\ screen'.gpx # None =>
           rows'[screen'.staged] \in {None, screen'.gpx}
    BY <1>1, <1>2, <1>3, ErrandsTyped, <1>4, <1>7, <1>9, <1>10 DEF RowsFit, ParkedAfter
  <2> QED BY <2>1, <2>2, <2>3 DEF RowsFit, Fitting, Parked
<1>15. RowsWatched'
  <2> SUFFICES ASSUME NEW i \in Parked, rows[i] # None, rows[i] \notin unheard, i # screen'.staged
               PROVE  \E k \in Tasks : Holds(k, i)'
    BY <1>1, <1>2, <1>3, ErrandsTyped, <1>4, <1>7, <1>9, <1>10 DEF RowsWatched
  <2>1. CASE \E k \in Tasks \ {t} : Holds(k, i)
    BY <1>1, <1>2, <1>3, ErrandsTyped, <1>4, <1>7, <1>9, <1>10, <2>1, BesideStay
  <2>2. CASE i = screen.staged \/ Holds(t, i)
    BY <1>1, <1>2, <1>3, ErrandsTyped, <1>4, <1>7, <1>9, <1>10, <2>2, ImportAssumption
       DEF Parked, RowsFit, Holds, Answered, Failed, Asking, Confirming, HandlerFits, OneAtATime,
           Submits, ParkedAfter
  <2> QED BY <1>2, <2>1, <2>2 DEF RowsWatched
<1>16. ASSUME NEW c \in (Known \ unheard)' PROVE InOnePlace(c)'
  <2>1. c \in Known \ unheard /\ InOnePlace(c) /\ c # None
    BY <1>1, <1>2, ImportAssumption DEF Known
  <2>2. ASSUME NEW k \in Tasks, Bears(k)', task'[k].of = c, ~Done(k)'
        PROVE  ~Becomes(c) /\ \A i \in Parked : rows[i] = c => Holds(k, i)'
    <3>1. k # t
      BY <1>4, <2>2 DEF Bears, Asking
    <3>2. Carries(k, c)
      BY <1>2, <1>4, <3>1, BesideCarries
    <3>3. Bears(k) /\ task[k].of = c /\ ~Done(k) /\ \A i \in Parked : rows[i] = c /\ Holds(k, i) => Holds(k, i)'
      BY <1>1, <2>2, <3>2 DEF Carries
    <3> QED BY <2>1, <3>3 DEF InOnePlace
  <2>3. ASSUME screen'.staged # None, screen'.gpx = c
        PROVE  /\ ~Becomes(c) /\ \A i \in Parked : rows[i] = c => i = screen'.staged
               /\ screen'.collection # c
    <3>1. task[t].of = c
      BY <1>2, <1>7, <1>9, <2>1, <2>3 DEF RowsFit
    <3>2. Bears(t) /\ ~Done(t)
      BY <1>1 DEF Bears, Done, Asking, Failed, Answered
    <3>3. ~Becomes(c) /\ \A i \in Parked : rows[i] = c => Holds(t, i)
      BY <2>1, <3>1, <3>2 DEF InOnePlace
    <3>4. task[t].at # "restage"
      BY <1>7, <2>3 DEF ParkedAfter
    <3>5. \A i \in Parked : Holds(t, i) => i = screen'.staged
      BY <1>1, <1>10, <2>3, <3>4 DEF Holds
    <3> QED BY <1>7, <1>9, <2>1, <2>3, <3>3, <3>5 DEF InOnePlace
  <2>4. ASSUME NEW k \in Tasks, Asking(k)' PROVE k # t /\ task'[k] = task[k] /\ Asking(k)
    BY <1>2, <1>4, <2>4, BesideStay DEF Asking
  <2>5. screen'.staged # None /\ screen'.gpx = c =>
           \A k \in Tasks : Asking(k)' /\ task'[k].do = "create" => task'[k].of # c
    BY <1>7, <1>9, <2>1, <2>4 DEF InOnePlace
  <2>6. screen'.collection = c =>
           /\ \/ \E k \in Tasks : Asking(k)' /\ task'[k].do = "create" /\ Done(k)' /\ task'[k].of = c
              \/ ~Becomes(c)
           /\ \A i \in Parked : rows[i] # c
           /\ \A k \in Tasks : Asking(k)' /\ task'[k].do = "confirm" => task'[k].of # c
    <3>1. \A k \in Tasks \ {t} : Carries(k, c)
      BY <1>2, <1>4, BesideCarries
    <3> QED BY <1>1, <1>7, <2>1, <2>4, <3>1 DEF InOnePlace, Carries
  <2> QED BY <1>1, <2>1, <2>2, <2>3, <2>5, <2>6 DEF InOnePlace, Becomes, Parked
<1> QED BY <1>11, <1>12, <1>13, <1>14, <1>15, <1>16 DEF ImportInductive

\* A file is chosen, for a trip.
LEMMA ChooseTripKeeps ==
    ASSUME ImportInductive, NEW t \in Tasks, ChooseTrip(t)
    PROVE  ImportInductive'
<1>1. task[t] = None
      /\ rows' = rows /\ lastId' = lastId /\ made' = made /\ chosen' = chosen + 1
      /\ chosen < MaxChoices /\ unheard' = unheard
      /\ screen.staged = None /\ screen.collection = None /\ ~screen.reading
  BY StepsTell DEF ChooseTrip, Choose, archive
<1>2. /\ \A k \in Tasks : HandlerFits(k)
      /\ ImportTypes /\ OneAtATime /\ RowsFit /\ RowsWatched
      /\ \A c \in Known \ unheard : InOnePlace(c)
  BY DEF ImportInductive
<1>3. chosen + 1 \in Nat \cup {None}
  BY <1>2 DEF ImportTypes
<1> DEFINE g == Start("stage", "stage", chosen + 1, 0)
<1>4. /\ g \in Errand /\ g.do = "stage" /\ g.at = "stage" /\ g.of = chosen + 1 /\ g.id = 0
      /\ g.gone = FALSE /\ g.answer = None
  BY <1>1, <1>3 DEF Start, Errand
<1>5. task' \in [Tasks -> Errand \cup {None}] /\ task'[t] = g /\ Beside(t)
  BY <1>2, <1>4, GoesOn DEF ChooseTrip, Choose
<1>6. g # None
  BY <1>4, ErrandsTyped
<1> HIDE DEF g
<1>7. screen' = [screen EXCEPT !.reading = TRUE] /\ form' \in {form, NoPhotos}
  BY DEF ChooseTrip, Choose, Shows
<1>8. form' \in [picked : Nat, read : Nat \cup {None}, reading : BOOLEAN]
  BY <1>2, <1>7, NoPhotosTyped DEF ImportTypes
<1>9. /\ screen' \in Signals
      /\ screen'.staged = screen.staged /\ screen'.gpx = screen.gpx
      /\ screen'.collection = screen.collection
      /\ screen'.reading = TRUE /\ screen'.submitting = screen.submitting
  <2>1. PICK s \in Signals : screen = s
    BY <1>2 DEF ImportTypes, Signals
  <2>2. screen' = [s EXCEPT !.reading = TRUE]
    BY <1>7, <2>1
  <2> QED BY <2>1, <2>2 DEF Signals
<1>10. /\ Known' = Known \cup {chosen + 1} /\ Ids' = Ids /\ chosen + 1 \notin Known \cup {None}
       /\ \A i \in Parked : rows[i] # chosen + 1
       /\ ~Becomes(chosen + 1) /\ chosen + 1 \notin {screen.gpx, screen.collection}
       /\ \A k \in Tasks : task[k] # None /\ task[k].do # "pick" => task[k].of # chosen + 1
  <2>1. Known' = Known \cup {chosen + 1} /\ Ids' = Ids
    BY <1>1, <1>2 DEF Known, Ids, ImportTypes
  <2>2. chosen + 1 \notin Known \cup {None}
    BY <1>2, ImportAssumption DEF Known, ImportTypes
  <2>3. \A i \in Parked : rows[i] # chosen + 1
    BY <1>2, <2>2 DEF ImportTypes
  <2>4. ~Becomes(chosen + 1) /\ chosen + 1 \notin {screen.gpx, screen.collection}
    BY <1>2, <2>2 DEF ImportTypes, Becomes
  <2>5. ASSUME NEW k \in Tasks, task[k] # None, task[k].do # "pick" PROVE task[k].of # chosen + 1
    <3>1. task[k] \in Errand /\ HandlerFits(k)
      BY <1>2, <2>5 DEF ImportTypes
    <3> QED BY <2>2, <2>5, <3>1, ErrandsTyped DEF HandlerFits
  <2> QED BY <2>1, <2>2, <2>3, <2>4, <2>5
<1>11. ImportTypes'
  <2>1. rows' \in [Parked' -> Known' \cup {None}]
                /\ \A i \in Parked' \ Ids' : rows'[i] = None
    BY <1>1, <1>2, <1>10 DEF ImportTypes, Parked
  <2>2. made' \in Seq([of : Nat, photos : Nat]) /\ \A k \in DOMAIN made' : made'[k].of \in Known'
    BY <1>1, <1>2, <1>10 DEF ImportTypes
  <2>3. chosen' \in 0 .. MaxChoices /\ lastId' \in 0 .. MaxParked /\ unheard' \subseteq Known'
    BY <1>1, <1>2, <1>10, ImportAssumption DEF ImportTypes
  <2>4. /\ screen'.staged \in Ids' \cup {None}
        /\ {screen'.gpx, screen'.collection} \subseteq Known' \cup {None}
    BY <1>1, <1>2, <1>9, <1>10 DEF ImportTypes
  <2> QED BY <1>5, <1>8, <1>9, <2>1, <2>2, <2>3, <2>4 DEF ImportTypes, Signals
<1>12. ASSUME NEW k \in Tasks PROVE HandlerFits(k)'
  <2>1. CASE k = t
    BY <1>1, <1>4, <1>5, <1>6, <1>10, <2>1 DEF HandlerFits, Answered
  <2>2. CASE k # t
    BY <1>1, <1>2, <1>5, <1>10, <2>2, StaysFitted
  <2> QED BY <2>1, <2>2
<1>13. OneAtATime'
  BY <1>1, <1>2, <1>4, <1>5, <1>6, <1>9, <1>10, BesideStay
     DEF OneAtATime, ReadsFile, Submits, Asking, Confirming, HandlerFits
<1>14. RowsFit'
  <2>1. \A k \in Tasks \ {t} : Fitting(k)'
    BY <1>1, <1>2, <1>5, <1>9, <1>10, StaysFitting
       DEF OneAtATime, Submits, Confirming, Asking, RowsFit
  <2>2. Fitting(t)'
    BY <1>1, <1>2, <1>4, <1>5, <1>6, <1>9, <1>10
       DEF Fitting, Holds, Answered, Asking, Confirming, HandlerFits, RowsFit
  <2>3. screen'.staged # None /\ screen'.gpx # None =>
           rows'[screen'.staged] \in {None, screen'.gpx}
    BY <1>1, <1>2, <1>4, <1>5, <1>6, <1>9, <1>10 DEF RowsFit
  <2> QED BY <2>1, <2>2, <2>3 DEF RowsFit, Fitting, Parked
<1>15. RowsWatched'
  <2> SUFFICES ASSUME NEW i \in Parked, rows[i] # None, rows[i] \notin unheard, i # screen'.staged
               PROVE  \E k \in Tasks : Holds(k, i)'
    BY <1>1, <1>2, <1>4, <1>5, <1>6, <1>9, <1>10 DEF RowsWatched
  <2>1. CASE \E k \in Tasks \ {t} : Holds(k, i)
    BY <1>1, <1>2, <1>4, <1>5, <1>6, <1>9, <1>10, <2>1, BesideStay
  <2>2. CASE i = screen.staged \/ Holds(t, i)
    BY <1>1, <1>2, <1>4, <1>5, <1>6, <1>9, <1>10, <2>2, ImportAssumption
       DEF Parked, RowsFit, Holds, Answered, Asking, Confirming, HandlerFits, OneAtATime,
           Submits
  <2> QED BY <1>2, <2>1, <2>2 DEF RowsWatched
<1>16. ASSUME NEW c \in (Known \ unheard)' PROVE InOnePlace(c)'
  <2>1. CASE c = chosen + 1
    <3>1. ~Becomes(c)' /\ \A i \in Parked : rows'[i] # c
      BY <1>1, <1>10, <2>1 DEF Becomes
    <3>2. screen'.gpx # c /\ screen'.collection # c
      BY <1>9, <1>10, <2>1
    <3> QED BY <1>1, <3>1, <3>2 DEF InOnePlace, Becomes, Parked
  <2>2. CASE c \in Known \ unheard
    <3>1. InOnePlace(c) /\ c # chosen + 1
      BY <1>2, <1>10, <2>2
    <3>2. Untouched(c)
      BY <1>1, <1>9, <3>1 DEF Untouched, InOnePlace, Becomes
    <3>3. Carries(t, c)
      BY <1>1, <1>4, <1>5, <1>6, <3>1 DEF Carries, Asking, Bears, Confirming
    <3> QED BY <1>2, <1>5, <3>1, <3>2, <3>3, StaysInPlace
  <2> QED BY <1>1, <1>10, <2>1, <2>2
<1> QED BY <1>11, <1>12, <1>13, <1>14, <1>15, <1>16 DEF ImportInductive

\* A file is chosen, for a collection.
LEMMA ChooseCollectionKeeps ==
    ASSUME ImportInductive, NEW t \in Tasks, ChooseCollection(t)
    PROVE  ImportInductive'
<1>1. task[t] = None
      /\ rows' = rows /\ lastId' = lastId /\ made' = made /\ chosen' = chosen + 1
      /\ chosen < MaxChoices /\ unheard' = unheard
      /\ screen.staged = None /\ screen.collection = None /\ ~screen.reading
  BY StepsTell DEF ChooseCollection, Choose, archive
<1>2. /\ \A k \in Tasks : HandlerFits(k)
      /\ ImportTypes /\ OneAtATime /\ RowsFit /\ RowsWatched
      /\ \A c \in Known \ unheard : InOnePlace(c)
  BY DEF ImportInductive
<1>3. chosen + 1 \in Nat \cup {None}
  BY <1>2 DEF ImportTypes
<1> DEFINE g == Start("preview", "preview", chosen + 1, 0)
<1>4. /\ g \in Errand /\ g.do = "preview" /\ g.at = "preview" /\ g.of = chosen + 1 /\ g.id = 0
      /\ g.gone = FALSE /\ g.answer = None
  BY <1>1, <1>3 DEF Start, Errand
<1>5. task' \in [Tasks -> Errand \cup {None}] /\ task'[t] = g /\ Beside(t)
  BY <1>2, <1>4, GoesOn DEF ChooseCollection, Choose
<1>6. g # None
  BY <1>4, ErrandsTyped
<1> HIDE DEF g
<1>7. screen' = [screen EXCEPT !.reading = TRUE] /\ form' \in {form, NoPhotos}
  BY DEF ChooseCollection, Choose, Shows
<1>8. form' \in [picked : Nat, read : Nat \cup {None}, reading : BOOLEAN]
  BY <1>2, <1>7, NoPhotosTyped DEF ImportTypes
<1>9. /\ screen' \in Signals
      /\ screen'.staged = screen.staged /\ screen'.gpx = screen.gpx
      /\ screen'.collection = screen.collection
      /\ screen'.reading = TRUE /\ screen'.submitting = screen.submitting
  <2>1. PICK s \in Signals : screen = s
    BY <1>2 DEF ImportTypes, Signals
  <2>2. screen' = [s EXCEPT !.reading = TRUE]
    BY <1>7, <2>1
  <2> QED BY <2>1, <2>2 DEF Signals
<1>10. /\ Known' = Known \cup {chosen + 1} /\ Ids' = Ids /\ chosen + 1 \notin Known \cup {None}
       /\ \A i \in Parked : rows[i] # chosen + 1
       /\ ~Becomes(chosen + 1) /\ chosen + 1 \notin {screen.gpx, screen.collection}
       /\ \A k \in Tasks : task[k] # None /\ task[k].do # "pick" => task[k].of # chosen + 1
  <2>1. Known' = Known \cup {chosen + 1} /\ Ids' = Ids
    BY <1>1, <1>2 DEF Known, Ids, ImportTypes
  <2>2. chosen + 1 \notin Known \cup {None}
    BY <1>2, ImportAssumption DEF Known, ImportTypes
  <2>3. \A i \in Parked : rows[i] # chosen + 1
    BY <1>2, <2>2 DEF ImportTypes
  <2>4. ~Becomes(chosen + 1) /\ chosen + 1 \notin {screen.gpx, screen.collection}
    BY <1>2, <2>2 DEF ImportTypes, Becomes
  <2>5. ASSUME NEW k \in Tasks, task[k] # None, task[k].do # "pick" PROVE task[k].of # chosen + 1
    <3>1. task[k] \in Errand /\ HandlerFits(k)
      BY <1>2, <2>5 DEF ImportTypes
    <3> QED BY <2>2, <2>5, <3>1, ErrandsTyped DEF HandlerFits
  <2> QED BY <2>1, <2>2, <2>3, <2>4, <2>5
<1>11. ImportTypes'
  <2>1. rows' \in [Parked' -> Known' \cup {None}]
                /\ \A i \in Parked' \ Ids' : rows'[i] = None
    BY <1>1, <1>2, <1>10 DEF ImportTypes, Parked
  <2>2. made' \in Seq([of : Nat, photos : Nat]) /\ \A k \in DOMAIN made' : made'[k].of \in Known'
    BY <1>1, <1>2, <1>10 DEF ImportTypes
  <2>3. chosen' \in 0 .. MaxChoices /\ lastId' \in 0 .. MaxParked /\ unheard' \subseteq Known'
    BY <1>1, <1>2, <1>10, ImportAssumption DEF ImportTypes
  <2>4. /\ screen'.staged \in Ids' \cup {None}
        /\ {screen'.gpx, screen'.collection} \subseteq Known' \cup {None}
    BY <1>1, <1>2, <1>9, <1>10 DEF ImportTypes
  <2> QED BY <1>5, <1>8, <1>9, <2>1, <2>2, <2>3, <2>4 DEF ImportTypes, Signals
<1>12. ASSUME NEW k \in Tasks PROVE HandlerFits(k)'
  <2>1. CASE k = t
    BY <1>1, <1>4, <1>5, <1>6, <1>10, <2>1 DEF HandlerFits, Answered
  <2>2. CASE k # t
    BY <1>1, <1>2, <1>5, <1>10, <2>2, StaysFitted
  <2> QED BY <2>1, <2>2
<1>13. OneAtATime'
  BY <1>1, <1>2, <1>4, <1>5, <1>6, <1>9, <1>10, BesideStay
     DEF OneAtATime, ReadsFile, Submits, Asking, Confirming, HandlerFits
<1>14. RowsFit'
  <2>1. \A k \in Tasks \ {t} : Fitting(k)'
    BY <1>1, <1>2, <1>5, <1>9, <1>10, StaysFitting
       DEF OneAtATime, Submits, Confirming, Asking, RowsFit
  <2>2. Fitting(t)'
    BY <1>1, <1>2, <1>4, <1>5, <1>6, <1>9, <1>10
       DEF Fitting, Holds, Answered, Asking, Confirming, HandlerFits, RowsFit
  <2>3. screen'.staged # None /\ screen'.gpx # None =>
           rows'[screen'.staged] \in {None, screen'.gpx}
    BY <1>1, <1>2, <1>4, <1>5, <1>6, <1>9, <1>10 DEF RowsFit
  <2> QED BY <2>1, <2>2, <2>3 DEF RowsFit, Fitting, Parked
<1>15. RowsWatched'
  <2> SUFFICES ASSUME NEW i \in Parked, rows[i] # None, rows[i] \notin unheard, i # screen'.staged
               PROVE  \E k \in Tasks : Holds(k, i)'
    BY <1>1, <1>2, <1>4, <1>5, <1>6, <1>9, <1>10 DEF RowsWatched
  <2>1. CASE \E k \in Tasks \ {t} : Holds(k, i)
    BY <1>1, <1>2, <1>4, <1>5, <1>6, <1>9, <1>10, <2>1, BesideStay
  <2>2. CASE i = screen.staged \/ Holds(t, i)
    BY <1>1, <1>2, <1>4, <1>5, <1>6, <1>9, <1>10, <2>2, ImportAssumption
       DEF Parked, RowsFit, Holds, Answered, Asking, Confirming, HandlerFits, OneAtATime,
           Submits
  <2> QED BY <1>2, <2>1, <2>2 DEF RowsWatched
<1>16. ASSUME NEW c \in (Known \ unheard)' PROVE InOnePlace(c)'
  <2>1. CASE c = chosen + 1
    <3>1. ~Becomes(c)' /\ \A i \in Parked : rows'[i] # c
      BY <1>1, <1>10, <2>1 DEF Becomes
    <3>2. screen'.gpx # c /\ screen'.collection # c
      BY <1>9, <1>10, <2>1
    <3> QED BY <1>1, <3>1, <3>2 DEF InOnePlace, Becomes, Parked
  <2>2. CASE c \in Known \ unheard
    <3>1. InOnePlace(c) /\ c # chosen + 1
      BY <1>2, <1>10, <2>2
    <3>2. Untouched(c)
      BY <1>1, <1>9, <3>1 DEF Untouched, InOnePlace, Becomes
    <3>3. Carries(t, c)
      BY <1>1, <1>4, <1>5, <1>6, <3>1 DEF Carries, Asking, Bears, Confirming
    <3> QED BY <1>2, <1>5, <3>1, <3>2, <3>3, StaysInPlace
  <2> QED BY <1>1, <1>10, <2>1, <2>2
<1> QED BY <1>11, <1>12, <1>13, <1>14, <1>15, <1>16 DEF ImportInductive

\* The trip is confirmed.
LEMMA ConfirmKeeps ==
    ASSUME ImportInductive, NEW t \in Tasks, Confirm(t)
    PROVE  ImportInductive'
<1>1. task[t] = None
      /\ rows' = rows /\ lastId' = lastId /\ made' = made /\ chosen' = chosen
      /\ unheard' = unheard
      /\ screen.staged # None /\ screen.collection = None /\ ~screen.submitting
  BY StepsTell DEF Confirm, archive, Free
<1>2. /\ \A k \in Tasks : HandlerFits(k)
      /\ ImportTypes /\ OneAtATime /\ RowsFit /\ RowsWatched
      /\ \A c \in Known \ unheard : InOnePlace(c)
  BY DEF ImportInductive
<1>3. /\ screen.gpx \in Nat \cup {None} /\ screen.staged \in Nat \cup {None}
      /\ screen.collection \in Nat \cup {None} /\ form.read \in Nat \cup {None}
  BY <1>2 DEF ImportTypes
<1> DEFINE g == [Start("confirm", "confirm", screen.gpx, screen.staged) EXCEPT !.photos = form.read]
<1>4. /\ g \in Errand /\ g.do = "confirm" /\ g.at = "confirm" /\ g.of = screen.gpx
      /\ g.id = screen.staged
      /\ g.gone = FALSE /\ g.answer = None
  BY <1>1, <1>3 DEF Start, Errand
<1>5. task' \in [Tasks -> Errand \cup {None}] /\ task'[t] = g /\ Beside(t)
  BY <1>2, <1>4, GoesOn DEF Confirm
<1>6. g # None
  BY <1>4, ErrandsTyped
<1> HIDE DEF g
<1>7. screen' = [screen EXCEPT !.submitting = TRUE] /\ form' \in {form, NoPhotos}
  BY DEF Confirm, Shows
<1>8. form' \in [picked : Nat, read : Nat \cup {None}, reading : BOOLEAN]
  BY <1>2, <1>7, NoPhotosTyped DEF ImportTypes
<1>9. /\ screen' \in Signals
      /\ screen'.staged = screen.staged /\ screen'.gpx = screen.gpx
      /\ screen'.collection = screen.collection
      /\ screen'.reading = screen.reading /\ screen'.submitting = TRUE
  <2>1. PICK s \in Signals : screen = s
    BY <1>2 DEF ImportTypes, Signals
  <2>2. screen' = [s EXCEPT !.submitting = TRUE]
    BY <1>7, <2>1
  <2> QED BY <2>1, <2>2 DEF Signals
<1>10. ImportTypes'
  BY <1>1, <1>2, <1>4, <1>5, <1>6, <1>8, <1>9 DEF ImportTypes, Signals, Known, Ids
<1>11. ASSUME NEW k \in Tasks PROVE HandlerFits(k)'
  <2>1. CASE k = t
    BY <1>1, <1>2, <1>4, <1>5, <1>6, <1>9, <2>1 DEF HandlerFits, Answered, Known, Ids, ImportTypes
  <2>2. CASE k # t
    BY <1>1, <1>2, <1>5, <2>2, StaysFitted DEF Known, Ids
  <2> QED BY <2>1, <2>2
<1>12. OneAtATime'
  BY <1>1, <1>2, <1>4, <1>5, <1>6, <1>9, BesideStay
     DEF OneAtATime, ReadsFile, Submits, Asking, Confirming, HandlerFits
<1>13. RowsFit'
  <2>1. \A k \in Tasks \ {t} : Fitting(k)'
    BY <1>1, <1>2, <1>5, <1>9, StaysFitting DEF OneAtATime, Submits, Confirming, Asking, RowsFit
  <2>2. Fitting(t)'
    BY <1>1, <1>2, <1>4, <1>5, <1>6, <1>9
       DEF Fitting, Holds, Answered, Asking, Confirming, HandlerFits, RowsFit
  <2>3. screen'.staged # None /\ screen'.gpx # None =>
           rows'[screen'.staged] \in {None, screen'.gpx}
    BY <1>1, <1>2, <1>4, <1>5, <1>6, <1>9 DEF RowsFit
  <2> QED BY <2>1, <2>2, <2>3 DEF RowsFit, Fitting, Parked
<1>14. RowsWatched'
  <2> SUFFICES ASSUME NEW i \in Parked, rows[i] # None, rows[i] \notin unheard, i # screen'.staged
               PROVE  \E k \in Tasks : Holds(k, i)'
    BY <1>1, <1>2, <1>4, <1>5, <1>6, <1>9 DEF RowsWatched
  <2>1. CASE \E k \in Tasks \ {t} : Holds(k, i)
    BY <1>1, <1>2, <1>4, <1>5, <1>6, <1>9, <2>1, BesideStay
  <2>2. CASE i = screen.staged \/ Holds(t, i)
    BY <1>1, <1>2, <1>4, <1>5, <1>6, <1>9, <2>2, ImportAssumption
       DEF Parked, RowsFit, Holds, Answered, Asking, Confirming, HandlerFits, OneAtATime,
           Submits
  <2> QED BY <1>2, <2>1, <2>2 DEF RowsWatched
<1>15. ASSUME NEW c \in (Known \ unheard)' PROVE InOnePlace(c)'
  <2>1. c \in Known \ unheard /\ InOnePlace(c) /\ c # None
    BY <1>1, <1>2, ImportAssumption DEF Known
  <2>2. CASE c # screen.gpx
    <3>1. Untouched(c)
      BY <1>1, <1>9, <2>1, <2>2 DEF Untouched, InOnePlace, Becomes
    <3>2. Carries(t, c)
      BY <1>1, <1>4, <1>5, <1>6, <2>2 DEF Carries, Asking, Bears, Confirming
    <3> QED BY <1>2, <1>5, <2>1, <3>1, <3>2, StaysInPlace
  <2>3. CASE c = screen.gpx
    <3>1. ASSUME NEW k \in Tasks \ {t}, Bears(k)', task'[k].of = c, ~Done(k)'
          PROVE  ~Becomes(c) /\ \A i \in Parked : rows[i] = c => Holds(k, i)'
      <4>1. Carries(k, c)
        BY <1>2, <1>5, BesideCarries
      <4>2. Bears(k) /\ task[k].of = c /\ ~Done(k) /\ \A i \in Parked : rows[i] = c /\ Holds(k, i) => Holds(k, i)'
        BY <1>1, <3>1, <4>1 DEF Carries
      <4> QED BY <2>1, <4>2 DEF InOnePlace
    <3>2. \A k \in Tasks : ~Submits(k) /\ ~Confirming(k)
      BY <1>1, <1>2 DEF OneAtATime, Submits, Confirming
    <3>3. /\ ~Becomes(c) /\ \A i \in Parked : rows[i] = c => i = screen.staged
          /\ screen.collection # c
      BY <1>1, <2>1, <2>3, <3>2 DEF InOnePlace
    <3>4. Confirming(t)' /\ \A i \in Parked : i = screen.staged => Holds(t, i)'
      BY <1>4, <1>5, <1>6 DEF Confirming, Holds, Asking
    <3>5. ASSUME NEW k \in Tasks, Asking(k)', task'[k].do = "create" PROVE FALSE
      BY <1>2, <1>4, <1>5, <3>2, <3>5, BesideStay DEF Submits
    <3> QED BY <1>1, <1>9, <2>1, <3>1, <3>3, <3>4, <3>5 DEF InOnePlace, Becomes, Parked
  <2> QED BY <2>2, <2>3
<1> QED BY <1>10, <1>11, <1>12, <1>13, <1>14, <1>15 DEF ImportInductive

\* The collection is confirmed.
LEMMA ConfirmCollectionKeeps ==
    ASSUME ImportInductive, NEW t \in Tasks, ConfirmCollection(t)
    PROVE  ImportInductive'
<1>1. task[t] = None
      /\ rows' = rows /\ lastId' = lastId /\ made' = made /\ chosen' = chosen
      /\ unheard' = unheard
      /\ screen.collection # None /\ ~screen.submitting
  BY StepsTell DEF ConfirmCollection, archive, Free
<1>2. /\ \A k \in Tasks : HandlerFits(k)
      /\ ImportTypes /\ OneAtATime /\ RowsFit /\ RowsWatched
      /\ \A c \in Known \ unheard : InOnePlace(c)
  BY DEF ImportInductive
<1>3. /\ screen.gpx \in Nat \cup {None} /\ screen.staged \in Nat \cup {None}
      /\ screen.collection \in Nat \cup {None} /\ form.read \in Nat \cup {None}
  BY <1>2 DEF ImportTypes
<1> DEFINE g == Start("create", "create", screen.collection, 0)
<1>4. /\ g \in Errand /\ g.do = "create" /\ g.at = "create" /\ g.of = screen.collection
      /\ g.id = 0
      /\ g.gone = FALSE /\ g.answer = None
  BY <1>1, <1>3 DEF Start, Errand
<1>5. task' \in [Tasks -> Errand \cup {None}] /\ task'[t] = g /\ Beside(t)
  BY <1>2, <1>4, GoesOn DEF ConfirmCollection
<1>6. g # None
  BY <1>4, ErrandsTyped
<1> HIDE DEF g
<1>7. screen' = [screen EXCEPT !.submitting = TRUE] /\ form' \in {form, NoPhotos}
  BY DEF ConfirmCollection, Shows
<1>8. form' \in [picked : Nat, read : Nat \cup {None}, reading : BOOLEAN]
  BY <1>2, <1>7, NoPhotosTyped DEF ImportTypes
<1>9. /\ screen' \in Signals
      /\ screen'.staged = screen.staged /\ screen'.gpx = screen.gpx
      /\ screen'.collection = screen.collection
      /\ screen'.reading = screen.reading /\ screen'.submitting = TRUE
  <2>1. PICK s \in Signals : screen = s
    BY <1>2 DEF ImportTypes, Signals
  <2>2. screen' = [s EXCEPT !.submitting = TRUE]
    BY <1>7, <2>1
  <2> QED BY <2>1, <2>2 DEF Signals
<1>10. ImportTypes'
  BY <1>1, <1>2, <1>4, <1>5, <1>6, <1>8, <1>9 DEF ImportTypes, Signals, Known, Ids
<1>11. ASSUME NEW k \in Tasks PROVE HandlerFits(k)'
  <2>1. CASE k = t
    BY <1>1, <1>2, <1>4, <1>5, <1>6, <1>9, <2>1 DEF HandlerFits, Answered, Known, Ids, ImportTypes
  <2>2. CASE k # t
    BY <1>1, <1>2, <1>5, <2>2, StaysFitted DEF Known, Ids
  <2> QED BY <2>1, <2>2
<1>12. OneAtATime'
  BY <1>1, <1>2, <1>4, <1>5, <1>6, <1>9, BesideStay
     DEF OneAtATime, ReadsFile, Submits, Asking, Confirming, HandlerFits
<1>13. RowsFit'
  <2>1. \A k \in Tasks \ {t} : Fitting(k)'
    BY <1>1, <1>2, <1>5, <1>9, StaysFitting DEF OneAtATime, Submits, Confirming, Asking, RowsFit
  <2>2. Fitting(t)'
    BY <1>1, <1>2, <1>4, <1>5, <1>6, <1>9
       DEF Fitting, Holds, Answered, Asking, Confirming, HandlerFits, RowsFit
  <2>3. screen'.staged # None /\ screen'.gpx # None =>
           rows'[screen'.staged] \in {None, screen'.gpx}
    BY <1>1, <1>2, <1>4, <1>5, <1>6, <1>9 DEF RowsFit
  <2> QED BY <2>1, <2>2, <2>3 DEF RowsFit, Fitting, Parked
<1>14. RowsWatched'
  <2> SUFFICES ASSUME NEW i \in Parked, rows[i] # None, rows[i] \notin unheard, i # screen'.staged
               PROVE  \E k \in Tasks : Holds(k, i)'
    BY <1>1, <1>2, <1>4, <1>5, <1>6, <1>9 DEF RowsWatched
  <2>1. CASE \E k \in Tasks \ {t} : Holds(k, i)
    BY <1>1, <1>2, <1>4, <1>5, <1>6, <1>9, <2>1, BesideStay
  <2>2. CASE i = screen.staged \/ Holds(t, i)
    BY <1>1, <1>2, <1>4, <1>5, <1>6, <1>9, <2>2, ImportAssumption
       DEF Parked, RowsFit, Holds, Answered, Asking, Confirming, HandlerFits, OneAtATime,
           Submits
  <2> QED BY <1>2, <2>1, <2>2 DEF RowsWatched
<1>15. ASSUME NEW c \in (Known \ unheard)' PROVE InOnePlace(c)'
  <2>1. c \in Known \ unheard /\ InOnePlace(c) /\ c # None
    BY <1>1, <1>2, ImportAssumption DEF Known
  <2>2. CASE c # screen.collection
    <3>1. Untouched(c)
      BY <1>1, <1>9, <2>1, <2>2 DEF Untouched, InOnePlace, Becomes
    <3>2. Carries(t, c)
      BY <1>1, <1>4, <1>5, <1>6, <2>2 DEF Carries, Asking, Bears, Confirming
    <3> QED BY <1>2, <1>5, <2>1, <3>1, <3>2, StaysInPlace
  <2>3. CASE c = screen.collection
    <3>1. ASSUME NEW k \in Tasks \ {t}, Bears(k)', task'[k].of = c, ~Done(k)'
          PROVE  ~Becomes(c) /\ \A i \in Parked : rows[i] = c => Holds(k, i)'
      <4>1. Carries(k, c)
        BY <1>2, <1>5, BesideCarries
      <4>2. Bears(k) /\ task[k].of = c /\ ~Done(k) /\ \A i \in Parked : rows[i] = c /\ Holds(k, i) => Holds(k, i)'
        BY <1>1, <3>1, <4>1 DEF Carries
      <4> QED BY <2>1, <4>2 DEF InOnePlace
    <3>2. \A k \in Tasks : ~Submits(k) /\ ~Confirming(k)
      BY <1>1, <1>2 DEF OneAtATime, Submits, Confirming
    <3>3. ~Becomes(c) /\ \A i \in Parked : rows[i] # c
      BY <2>1, <2>3, <3>2 DEF InOnePlace, Submits
    <3>4. ~(screen.staged # None /\ screen.gpx = c)
      BY <2>1, <2>3 DEF InOnePlace
    <3>5. ASSUME NEW k \in Tasks, Asking(k)', task'[k].do = "confirm" PROVE FALSE
      BY <1>2, <1>4, <1>5, <3>2, <3>5, BesideStay DEF Submits
    <3> QED BY <1>1, <1>9, <2>1, <3>1, <3>3, <3>4, <3>5 DEF InOnePlace, Becomes, Parked
  <2> QED BY <2>2, <2>3
<1> QED BY <1>10, <1>11, <1>12, <1>13, <1>14, <1>15 DEF ImportInductive

\* The owner starts over.
LEMMA StartOverKeeps ==
    ASSUME ImportInductive, NEW t \in Tasks, StartOver(t)
    PROVE  ImportInductive'
<1>1. task[t] = None
      /\ rows' = rows /\ lastId' = lastId /\ made' = made /\ chosen' = chosen
      /\ unheard' = unheard
      /\ screen.staged # None /\ ~screen.submitting
  BY DEF StartOver, archive
<1>2. /\ \A k \in Tasks : HandlerFits(k)
      /\ ImportTypes /\ OneAtATime /\ RowsFit /\ RowsWatched
      /\ \A c \in Known \ unheard : InOnePlace(c)
  BY DEF ImportInductive
<1>3. /\ screen.gpx \in Nat \cup {None} /\ screen.staged \in Nat \cup {None}
      /\ screen.collection \in Nat \cup {None} /\ form.read \in Nat \cup {None}
  BY <1>2 DEF ImportTypes
<1> DEFINE g == Start("cancel", "cancel", screen.gpx, screen.staged)
<1>4. /\ g \in Errand /\ g.do = "cancel" /\ g.at = "cancel" /\ g.of = screen.gpx
      /\ g.id = screen.staged
      /\ g.gone = FALSE /\ g.answer = None
  BY <1>1, <1>3 DEF Start, Errand
<1>5. task' \in [Tasks -> Errand \cup {None}] /\ task'[t] = g /\ Beside(t)
  BY <1>2, <1>4, GoesOn DEF StartOver
<1>6. g # None
  BY <1>4, ErrandsTyped
<1> HIDE DEF g
<1>7. screen' = [screen EXCEPT !.staged = None] /\ form' \in {form, NoPhotos}
  BY DEF StartOver, Shows
<1>8. form' \in [picked : Nat, read : Nat \cup {None}, reading : BOOLEAN]
  BY <1>2, <1>7, NoPhotosTyped DEF ImportTypes
<1>9. /\ screen' \in Signals
      /\ screen'.staged = None /\ screen'.gpx = screen.gpx
      /\ screen'.collection = screen.collection
      /\ screen'.reading = screen.reading /\ screen'.submitting = screen.submitting
  <2>1. PICK s \in Signals : screen = s
    BY <1>2 DEF ImportTypes, Signals
  <2>2. screen' = [s EXCEPT !.staged = None]
    BY <1>7, <2>1
  <2> QED BY <2>1, <2>2 DEF Signals
<1>10. ImportTypes'
  BY <1>1, <1>2, <1>4, <1>5, <1>6, <1>8, <1>9 DEF ImportTypes, Signals, Known, Ids
<1>11. ASSUME NEW k \in Tasks PROVE HandlerFits(k)'
  <2>1. CASE k = t
    BY <1>1, <1>2, <1>4, <1>5, <1>6, <1>9, <2>1 DEF HandlerFits, Answered, Known, Ids, ImportTypes
  <2>2. CASE k # t
    BY <1>1, <1>2, <1>5, <2>2, StaysFitted DEF Known, Ids
  <2> QED BY <2>1, <2>2
<1>12. OneAtATime'
  BY <1>1, <1>2, <1>4, <1>5, <1>6, <1>9, BesideStay
     DEF OneAtATime, ReadsFile, Submits, Asking, Confirming, HandlerFits
<1>13. RowsFit'
  <2>1. \A k \in Tasks \ {t} : Fitting(k)'
    BY <1>1, <1>2, <1>5, <1>9, StaysFitting DEF OneAtATime, Submits, Confirming, Asking, RowsFit
  <2>2. Fitting(t)'
    BY <1>1, <1>2, <1>4, <1>5, <1>6, <1>9
       DEF Fitting, Holds, Answered, Asking, Confirming, HandlerFits, RowsFit
  <2>3. screen'.staged # None /\ screen'.gpx # None =>
           rows'[screen'.staged] \in {None, screen'.gpx}
    BY <1>1, <1>2, <1>4, <1>5, <1>6, <1>9 DEF RowsFit
  <2> QED BY <2>1, <2>2, <2>3 DEF RowsFit, Fitting, Parked
<1>14. RowsWatched'
  <2> SUFFICES ASSUME NEW i \in Parked, rows[i] # None, rows[i] \notin unheard, i # screen'.staged
               PROVE  \E k \in Tasks : Holds(k, i)'
    BY <1>1, <1>2, <1>4, <1>5, <1>6, <1>9 DEF RowsWatched
  <2>1. CASE \E k \in Tasks \ {t} : Holds(k, i)
    BY <1>1, <1>2, <1>4, <1>5, <1>6, <1>9, <2>1, BesideStay
  <2>2. CASE i = screen.staged \/ Holds(t, i)
    BY <1>1, <1>2, <1>4, <1>5, <1>6, <1>9, <2>2, ImportAssumption
       DEF Parked, RowsFit, Holds, Answered, Asking, Confirming, HandlerFits, OneAtATime,
           Submits
  <2> QED BY <1>2, <2>1, <2>2 DEF RowsWatched
<1>15. ASSUME NEW c \in (Known \ unheard)' PROVE InOnePlace(c)'
  <2>1. c \in Known \ unheard /\ InOnePlace(c) /\ c # None
    BY <1>1, <1>2, ImportAssumption DEF Known
  <2>2. Untouched(c)
    BY <1>1, <1>9, <2>1 DEF Untouched, InOnePlace, Becomes
  <2>3. Carries(t, c)
    BY <1>1, <1>2, <1>4, <1>5, <1>6, <1>9, <2>1
       DEF Carries, Asking, Bears, Done, Holds, Answered, Confirming, HandlerFits, RowsFit
  <2> QED BY <1>2, <1>5, <2>1, <2>2, <2>3, StaysInPlace
<1> QED BY <1>10, <1>11, <1>12, <1>13, <1>14, <1>15 DEF ImportInductive

\* Photos are picked.
LEMMA PickPhotosKeeps ==
    ASSUME ImportInductive, NEW t \in Tasks, PickPhotos(t)
    PROVE  ImportInductive'
<1>1. task[t] = None /\ screen' = screen
      /\ rows' = rows /\ lastId' = lastId /\ made' = made /\ chosen' = chosen
      /\ unheard' = unheard
  BY DEF PickPhotos, archive
<1>2. /\ \A k \in Tasks : HandlerFits(k)
      /\ ImportTypes /\ OneAtATime /\ RowsFit /\ RowsWatched
      /\ \A c \in Known \ unheard : InOnePlace(c)
  BY DEF ImportInductive
<1>3. form.picked + 1 \in Nat
  BY <1>2 DEF ImportTypes
<1> DEFINE g == Start("pick", "pick", form.picked + 1, 0)
<1>4. /\ g \in Errand /\ g.do = "pick" /\ g.at = "pick" /\ g.of = form.picked + 1 /\ g.id = 0
      /\ g.gone = FALSE /\ g.answer = None
  BY <1>1, <1>3 DEF Start, Errand
<1>5. task' \in [Tasks -> Errand \cup {None}] /\ task'[t] = g /\ Beside(t)
  BY <1>2, <1>4, GoesOn DEF PickPhotos
<1>6. g # None
  BY <1>4, ErrandsTyped
<1> HIDE DEF g
<1>7. form' \in [picked : Nat, read : Nat \cup {None}, reading : BOOLEAN]
  <2>1. PICK b \in BOOLEAN : b = TRUE
    OBVIOUS
  <2> QED BY <1>3, <2>1 DEF PickPhotos
<1>8. ImportTypes'
  BY <1>1, <1>2, <1>4, <1>5, <1>6, <1>7 DEF ImportTypes, Signals, Known, Ids
<1>9. ASSUME NEW k \in Tasks PROVE HandlerFits(k)'
  <2>1. CASE k = t
    BY <1>1, <1>2, <1>4, <1>5, <1>6, <2>1 DEF HandlerFits, Answered, Known, Ids
  <2>2. CASE k # t
    BY <1>1, <1>2, <1>5, <2>2, StaysFitted DEF Known, Ids
  <2> QED BY <2>1, <2>2
<1>10. OneAtATime'
  BY <1>1, <1>2, <1>4, <1>5, <1>6, BesideStay
     DEF OneAtATime, ReadsFile, Submits, Asking, Confirming, HandlerFits
<1>11. RowsFit'
  <2>1. \A k \in Tasks \ {t} : Fitting(k)'
    BY <1>1, <1>2, <1>5, StaysFitting DEF OneAtATime, Submits, Confirming, Asking, RowsFit
  <2>2. Fitting(t)'
    BY <1>1, <1>2, <1>4, <1>5, <1>6
       DEF Fitting, Holds, Answered, Asking, Confirming, HandlerFits, RowsFit
  <2>3. screen'.staged # None /\ screen'.gpx # None =>
           rows'[screen'.staged] \in {None, screen'.gpx}
    BY <1>1, <1>2, <1>4, <1>5, <1>6 DEF RowsFit
  <2> QED BY <2>1, <2>2, <2>3 DEF RowsFit, Fitting, Parked
<1>12. RowsWatched'
  <2> SUFFICES ASSUME NEW i \in Parked, rows[i] # None, rows[i] \notin unheard, i # screen'.staged
               PROVE  \E k \in Tasks : Holds(k, i)'
    BY <1>1, <1>2, <1>4, <1>5, <1>6 DEF RowsWatched
  <2>1. CASE \E k \in Tasks \ {t} : Holds(k, i)
    BY <1>1, <1>2, <1>4, <1>5, <1>6, <2>1, BesideStay
  <2>2. CASE i = screen.staged \/ Holds(t, i)
    BY <1>1, <1>2, <1>4, <1>5, <1>6, <2>2, ImportAssumption
       DEF Parked, RowsFit, Holds, Answered, Asking, Confirming, HandlerFits, OneAtATime,
           Submits
  <2> QED BY <1>2, <2>1, <2>2 DEF RowsWatched
<1>13. ASSUME NEW c \in (Known \ unheard)' PROVE InOnePlace(c)'
  <2>1. c \in Known \ unheard /\ InOnePlace(c) /\ c # None
    BY <1>1, <1>2, ImportAssumption DEF Known
  <2>2. Untouched(c)
    BY <1>1, <2>1 DEF Untouched, InOnePlace, Becomes
  <2>3. Carries(t, c)
    BY <1>1, <1>2, <1>4, <1>5, <1>6, <2>1
       DEF Carries, Asking, Bears, Done, Holds, Answered, Confirming, HandlerFits, RowsFit
  <2> QED BY <1>2, <1>5, <2>1, <2>2, <2>3, StaysInPlace
<1> QED BY <1>8, <1>9, <1>10, <1>11, <1>12, <1>13 DEF ImportInductive

\* They are read.
LEMMA PhotosReadKeeps ==
    ASSUME ImportInductive, NEW t \in Tasks, PhotosRead(t)
    PROVE  ImportInductive'
<1>1. task[t] # None /\ task[t].do = "pick" /\ screen' = screen
      /\ rows' = rows /\ lastId' = lastId /\ made' = made /\ chosen' = chosen
      /\ unheard' = unheard
  BY DEF PhotosRead, At, archive
<1>2. /\ \A k \in Tasks : HandlerFits(k)
      /\ ImportTypes /\ OneAtATime /\ RowsFit /\ RowsWatched
      /\ \A c \in Known \ unheard : InOnePlace(c)
  BY DEF ImportInductive
<1>3. task[t] \in Errand /\ HandlerFits(t)
  BY <1>1, <1>2 DEF ImportTypes
<1>4. task' \in [Tasks -> Errand \cup {None}] /\ task'[t] = None /\ Beside(t)
  BY <1>2, GoesOn DEF PhotosRead
<1>5. form' \in [picked : Nat, read : Nat \cup {None}, reading : BOOLEAN]
  <2>1. PICK f \in [picked : Nat, read : Nat \cup {None}, reading : BOOLEAN] : form = f
    BY <1>2 DEF ImportTypes
  <2>2. PICK read \in {task[t].of, form.read} :
           form' = [form EXCEPT !.read = read, !.reading = FALSE]
    BY DEF PhotosRead
  <2>3. read \in Nat \cup {None}
    BY <1>3, <2>1, <2>2, ErrandsTyped
  <2> QED BY <2>1, <2>2, <2>3
<1>6. ImportTypes'
  BY <1>1, <1>2, <1>3, ErrandsTyped, <1>4, <1>5 DEF ImportTypes, Signals, Known, Ids
<1>7. ASSUME NEW k \in Tasks PROVE HandlerFits(k)'
  <2>1. CASE k = t
    BY <1>1, <1>2, <1>3, ErrandsTyped, <1>4, <2>1 DEF HandlerFits, Answered, Known, Ids
  <2>2. CASE k # t
    BY <1>1, <1>2, <1>4, <2>2, StaysFitted DEF Known, Ids
  <2> QED BY <2>1, <2>2
<1>8. OneAtATime'
  BY <1>1, <1>2, <1>3, ErrandsTyped, <1>4, BesideStay
     DEF OneAtATime, ReadsFile, Submits, Asking, Confirming, HandlerFits
<1>9. RowsFit'
  <2>1. \A k \in Tasks \ {t} : Fitting(k)'
    BY <1>1, <1>2, <1>4, StaysFitting DEF OneAtATime, Submits, Confirming, Asking, RowsFit
  <2>2. Fitting(t)'
    BY <1>1, <1>2, <1>3, ErrandsTyped, <1>4
       DEF Fitting, Holds, Answered, Asking, Confirming, HandlerFits, RowsFit
  <2>3. screen'.staged # None /\ screen'.gpx # None =>
           rows'[screen'.staged] \in {None, screen'.gpx}
    BY <1>1, <1>2, <1>3, ErrandsTyped, <1>4 DEF RowsFit
  <2> QED BY <2>1, <2>2, <2>3 DEF RowsFit, Fitting, Parked
<1>10. RowsWatched'
  <2> SUFFICES ASSUME NEW i \in Parked, rows[i] # None, rows[i] \notin unheard, i # screen'.staged
               PROVE  \E k \in Tasks : Holds(k, i)'
    BY <1>1, <1>2, <1>3, ErrandsTyped, <1>4 DEF RowsWatched
  <2>1. CASE \E k \in Tasks \ {t} : Holds(k, i)
    BY <1>1, <1>2, <1>3, ErrandsTyped, <1>4, <2>1, BesideStay
  <2>2. CASE i = screen.staged \/ Holds(t, i)
    BY <1>1, <1>2, <1>3, ErrandsTyped, <1>4, <2>2, ImportAssumption
       DEF Parked, RowsFit, Holds, Answered, Asking, Confirming, HandlerFits, OneAtATime,
           Submits
  <2> QED BY <1>2, <2>1, <2>2 DEF RowsWatched
<1>11. ASSUME NEW c \in (Known \ unheard)' PROVE InOnePlace(c)'
  <2>1. c \in Known \ unheard /\ InOnePlace(c) /\ c # None
    BY <1>1, <1>2, ImportAssumption DEF Known
  <2>2. Untouched(c)
    BY <1>1, <2>1 DEF Untouched, InOnePlace, Becomes
  <2>3. Carries(t, c)
    BY <1>1, <1>2, <1>3, ErrandsTyped, <1>4, <2>1
       DEF Carries, Asking, Bears, Done, Holds, Answered, Confirming, HandlerFits, RowsFit
  <2> QED BY <1>2, <1>4, <2>1, <2>2, <2>3, StaysInPlace
<1> QED BY <1>6, <1>7, <1>8, <1>9, <1>10, <1>11 DEF ImportInductive

\* The archive reads a collection's file.
LEMMA PreviewKeeps ==
    ASSUME ImportInductive, NEW t \in Tasks, Preview(t)
    PROVE  ImportInductive'
<1>1. /\ task[t] # None
      /\ screen' = screen /\ form' = form /\ chosen' = chosen
      /\ task[t].at = "preview" /\ task[t].answer = None
      /\ rows' = rows /\ lastId' = lastId /\ made' = made /\ unheard' = unheard
  BY DEF Preview, Asked, archive
<1>2. /\ \A k \in Tasks : HandlerFits(k)
      /\ ImportTypes /\ OneAtATime /\ RowsFit /\ RowsWatched
      /\ \A c \in Known \ unheard : InOnePlace(c)
  BY DEF ImportInductive
<1>3. task[t] \in Errand /\ HandlerFits(t)
  BY <1>1, <1>2 DEF ImportTypes
<1>4. Told(t, "ok", 0)
  BY <1>1, <1>2, RepliesTell DEF Preview, Asked, archive
<1>5. ImportTypes'
  BY <1>1, <1>2, <1>3, <1>4 DEF Told, ImportTypes, Known, Ids
<1>6. ASSUME NEW k \in Tasks PROVE HandlerFits(k)'
  <2>1. CASE k = t
    BY <1>1, <1>2, <1>3, <1>4, <2>1 DEF Told, HandlerFits, Answered, Known, Ids, ImportTypes
  <2>2. CASE k # t
    BY <1>1, <1>2, <1>4, <2>2, StaysFitted DEF Told, Known, Ids
  <2> QED BY <2>1, <2>2
<1>7. OneAtATime'
  BY <1>1, <1>2, <1>3, <1>4, BesideStay DEF Told, OneAtATime, ReadsFile, Submits, Asking
<1>8. RowsFit'
  <2>1. \A k \in Tasks \ {t} : Fitting(k)'
    BY <1>1, <1>2, <1>4, StaysFitting DEF Told
  <2>2. Fitting(t)'
    BY <1>1, <1>2, <1>3, <1>4
       DEF Told, Fitting, Holds, Answered, Asking, Confirming, HandlerFits, RowsFit
  <2>3. screen'.staged # None /\ screen'.gpx # None =>
           rows'[screen'.staged] \in {None, screen'.gpx}
    BY <1>1, <1>2 DEF RowsFit, ImportTypes
  <2> QED BY <2>1, <2>2, <2>3 DEF RowsFit, Fitting, Parked
<1>9. RowsWatched'
  <2> SUFFICES ASSUME NEW i \in Parked, rows'[i] # None,
                      rows'[i] \notin unheard', i # screen'.staged
               PROVE  \E k \in Tasks : Holds(k, i)'
    BY <1>1, <1>2, <1>3, <1>4 DEF RowsWatched, Parked
  <2>1. CASE \E k \in Tasks \ {t} : Holds(k, i)
    BY <1>1, <1>2, <1>3, <1>4, <2>1, BesideStay DEF Told
  <2>2. CASE ~\E k \in Tasks \ {t} : Holds(k, i)
    BY <1>1, <1>2, <1>3, <1>4, <2>2
       DEF Told, RowsWatched, RowsFit, Holds, Answered, Asking, HandlerFits
  <2> QED BY <2>1, <2>2
<1>10. ASSUME NEW c \in (Known \ unheard)' PROVE InOnePlace(c)'
  <2>1. c \in Known \ unheard /\ InOnePlace(c) /\ c # None
    BY <1>1, <1>2, ImportAssumption DEF Known
  <2>2. Untouched(c)
    BY <1>1, <2>1 DEF Untouched, InOnePlace, Becomes
  <2>3. Carries(t, c)
    BY <1>1, <1>2, <1>3, <1>4, ToldCarries
  <2> QED BY <1>2, <1>4, <2>1, <2>2, <2>3, StaysInPlace DEF Told
<1> QED BY <1>5, <1>6, <1>7, <1>8, <1>9, <1>10 DEF ImportInductive

\* The archive parks a file.
LEMMA ParkKeeps ==
    ASSUME ImportInductive, NEW t \in Tasks, Park(t)
    PROVE  ImportInductive'
<1>1. /\ task[t] # None
      /\ screen' = screen /\ form' = form /\ chosen' = chosen
      /\ task[t].at \in {"stage", "restage"} /\ task[t].answer = None
      /\ lastId < MaxParked /\ lastId' = lastId + 1
      /\ rows' = [rows EXCEPT ![lastId'] = task[t].of]
      /\ made' = made /\ unheard' = unheard
  BY DEF Park, Asked
<1>2. /\ \A k \in Tasks : HandlerFits(k)
      /\ ImportTypes /\ OneAtATime /\ RowsFit /\ RowsWatched
      /\ \A c \in Known \ unheard : InOnePlace(c)
  BY DEF ImportInductive
<1>3. task[t] \in Errand /\ HandlerFits(t)
  BY <1>1, <1>2 DEF ImportTypes
<1>4. lastId' \in Nat
  BY <1>1, <1>2 DEF ImportTypes
<1>5. Told(t, "ok", lastId')
  BY <1>1, <1>2, <1>4, RepliesTell DEF Park, Asked
<1>6. /\ task[t].of \in Known /\ lastId' \in Parked /\ lastId' \notin Ids /\ Ids \subseteq Ids'
      /\ lastId' \in Ids'
      /\ rows'[lastId'] = task[t].of /\ rows' \in [Parked -> Known \cup {None}]
      /\ \A i \in Parked \ Ids' : rows'[i] = None
      /\ rows[lastId'] = None
      /\ \A i \in Parked : i # lastId' => rows'[i] = rows[i]
      /\ lastId' \in 0 .. MaxParked
      /\ task[t].gone => task[t].of \in unheard
  <2>1. task[t].of \in Known
    BY <1>1, <1>2, <1>3, ErrandsTyped DEF HandlerFits
  <2>2. /\ lastId' \in Parked
        /\ lastId' \notin Ids
        /\ Ids \subseteq Ids'
        /\ lastId' \in 0 .. MaxParked
        /\ lastId' \in Ids'
    BY <1>1, <1>2, ImportAssumption DEF Parked, Ids, ImportTypes
  <2>3. task[t].gone => task[t].of \in unheard
    BY <1>1, <1>3, <2>1, ImportAssumption DEF HandlerFits, About, Known
  <2> QED BY <1>1, <1>2, <2>1, <2>2, <2>3 DEF ImportTypes
<1>7. \A k \in Tasks, i \in Parked : Holds(k, i) => i # lastId'
  BY <1>2, <1>6, HeldIsKnown
<1>8. ImportTypes'
  BY <1>1, <1>2, <1>3, <1>5, <1>6, <1>7 DEF Told, ImportTypes, Known, Ids
<1>9. ASSUME NEW k \in Tasks PROVE HandlerFits(k)'
  <2>1. CASE k = t
    BY <1>1, <1>2, <1>3, <1>5, <1>6, <1>7, <2>1
       DEF Told, HandlerFits, Answered, Known, Ids, ImportTypes
  <2>2. CASE k # t
    <3> SUFFICES ASSUME task'[k] # None PROVE HandlerFits(k)'
      BY DEF HandlerFits
    <3>1. task'[k] = task[k] /\ HandlerFits(k) /\ Known' = Known /\ unheard' = unheard
      BY <1>1, <1>2, <1>5, <2>2, BesideStay DEF Told, Known
    <3>2. task[k].at \in {"confirm", "reconfirm", "cancel"} => rows'[task[k].id] = rows[task[k].id]
      BY <1>2, <1>6, <3>1, IdsParked DEF HandlerFits
    <3>3. About(k)' = About(k)
      BY <3>1, <3>2 DEF About
    <3> QED BY <1>6, <3>1, <3>3 DEF HandlerFits, Answered
  <2> QED BY <2>1, <2>2
<1>10. OneAtATime'
  BY <1>1, <1>2, <1>3, <1>5, <1>6, <1>7, BesideStay
     DEF Told, OneAtATime, ReadsFile, Submits, Asking
<1>11. RowsFit'
  <2>1. screen'.staged # None /\ screen'.gpx # None =>
           rows'[screen'.staged] \in {None, screen'.gpx}
    BY <1>1, <1>2, <1>6, IdsParked DEF RowsFit, ImportTypes
  <2>2. ASSUME NEW k \in Tasks, NEW i \in Parked, Holds(k, i)', task'[k].of # None
        PROVE  rows'[i] \in {None, task'[k].of}
    <3>1. CASE k = t
      BY <1>1, <1>2, <1>3, <1>5, <1>6, <1>7, <2>2, <3>1, ErrandsTyped
         DEF Told, Holds, Asking, Answered, HandlerFits
    <3>2. CASE k # t
      BY <1>1, <1>2, <1>3, <1>5, <1>6, <1>7, <2>2, <3>2, BesideStay DEF Told, RowsFit, Holds
    <3> QED BY <3>1, <3>2
  <2>3. ASSUME NEW k \in Tasks, Asking(k)', task'[k].at \in {"confirm", "reconfirm", "cancel"}
        PROVE  k # t /\ task'[k] = task[k] /\ Asking(k) /\ task[k].id \in Parked
               /\ rows'[task[k].id] = rows[task[k].id]
    <3>1. k # t
      BY <1>1, <1>2, <1>3, <1>5, <1>6, <1>7, <2>3, ErrandsTyped DEF Told, Asking
    <3>2. task'[k] = task[k] /\ Asking(k) /\ task[k].id \in Ids
      BY <1>2, <1>5, <2>3, <3>1, BesideStay DEF Told, HandlerFits, Asking
    <3> QED BY <1>2, <1>6, <3>1, <3>2, IdsParked
  <2>4. ASSUME NEW k \in Tasks, Confirming(k)'
        PROVE  /\ screen'.staged # None /\ screen'.gpx \in {None, task'[k].of}
               /\ IF task'[k].at = "confirm" THEN task'[k].id = screen'.staged
                  ELSE rows'[screen'.staged] = None
    <3>1. /\ Confirming(k)
          /\ task'[k].of = task[k].of
          /\ task'[k].at = task[k].at
          /\ task'[k].id = task[k].id
      BY <1>1, <1>2, <1>3, <1>5, <1>6, <1>7, <2>4, BesideStay DEF Told, Confirming, Asking
    <3>2. screen.staged \in Ids \cup {None}
      BY <1>2 DEF ImportTypes
    <3>3. screen.staged \in Ids => rows'[screen.staged] = rows[screen.staged]
      BY <1>2, <1>6, IdsParked
    <3> QED BY <1>1, <1>2, <3>1, <3>2, <3>3 DEF RowsFit
  <2>5. ASSUME NEW k \in Tasks, Asking(k)', task'[k].at \in {"confirm", "reconfirm"},
               Answered(k, "ok")' \/ Answered(k, "not_found")'
        PROVE  rows'[task'[k].id] = None
    BY <1>2, <2>3, <2>5 DEF RowsFit, Answered
  <2>6. ASSUME NEW k \in Tasks, Asking(k)', task'[k].at = "cancel", task'[k].answer # None
        PROVE  rows'[task'[k].id] \in unheard' \cup {None}
    BY <1>1, <1>2, <2>3, <2>6 DEF RowsFit
  <2> QED BY <2>1, <2>2, <2>4, <2>5, <2>6 DEF RowsFit, Parked
<1>12. RowsWatched'
  <2> SUFFICES ASSUME NEW i \in Parked, rows'[i] # None,
                      rows'[i] \notin unheard', i # screen'.staged
               PROVE  \E k \in Tasks : Holds(k, i)'
    BY <1>1, <1>2, <1>3, <1>5, <1>6, <1>7 DEF RowsWatched, Parked
  <2>1. CASE \E k \in Tasks \ {t} : Holds(k, i)
    BY <1>1, <1>2, <1>3, <1>5, <1>6, <1>7, <2>1, BesideStay DEF Told
  <2>2. CASE ~\E k \in Tasks \ {t} : Holds(k, i)
    BY <1>1, <1>2, <1>3, <1>5, <1>6, <1>7, <2>2
       DEF Told, RowsWatched, RowsFit, Holds, Answered, Asking, HandlerFits
  <2> QED BY <2>1, <2>2
<1>13. ASSUME NEW c \in (Known \ unheard)' PROVE InOnePlace(c)'
  <2>1. c \in Known \ unheard /\ InOnePlace(c)
    BY <1>1, <1>2 DEF Known
  <2>2. CASE c # task[t].of
    <3>1. \A i \in Parked : rows'[i] = c <=> rows[i] = c
      BY <1>1, <1>6, <2>1, <2>2, ImportAssumption DEF Known
    <3> QED BY <1>1, <1>2, <1>3, <1>5, <1>6, <1>7, <2>1, <2>2, <3>1, BesideStay, ImportAssumption
       DEF Told, InOnePlace, Holds, Answered, Asking, Confirming, Bears, Done, Becomes, Known,
           RowsFit, OneAtATime, ReadsFile, Submits, HandlerFits, Parked
  <2>3. CASE c = task[t].of
    <3>1. ~task[t].gone /\ Bears(t) /\ ~Done(t)
      BY <1>1, <1>3, <1>6, <2>1, <2>3, ErrandsTyped DEF Bears, Asking, Done, Answered, HandlerFits
    <3>2. ~Becomes(c) /\ \A i \in Parked : rows[i] # c
      BY <1>1, <2>1, <2>3, <3>1 DEF InOnePlace, Holds, Answered
    <3>3. PICK new \in Parked : new = lastId'
      BY <1>6
    <3>4. \A i \in Parked : rows'[i] = c <=> i = new
      BY <1>6, <2>3, <3>2, <3>3
    <3>5. Holds(t, new)' /\ Asking(t) /\ ~Becomes(c)'
      BY <1>1, <1>5, <3>1, <3>2, <3>3 DEF Told, Holds, Answered, Asking, Becomes
    <3>6. ReadsFile(t) \/ (Submits(t) /\ Confirming(t) /\ Confirming(t)')
      BY <1>1, <1>3, <1>5, <3>1, ErrandsTyped
         DEF Told, ReadsFile, Submits, Confirming, Bears, Asking, HandlerFits
    <3>7. ASSUME NEW k \in Tasks, Bears(k)', task'[k].of = c PROVE k = t
      <4>1. CASE k # t
        <5>1. Bears(k) /\ task[k].of = c /\ task[k] \in Errand
          BY <1>2, <1>5, <3>7, <4>1, BesideStay DEF Told, Bears, Asking, ImportTypes
        <5>2. ReadsFile(k) \/ Submits(k)
          BY <5>1, ErrandsTyped DEF Bears, ReadsFile, Submits
        <5> QED BY <1>2, <2>3, <3>6, <4>1, <5>1, <5>2 DEF OneAtATime
      <4> QED BY <4>1
    <3>8. screen'.staged # None /\ screen'.gpx = c =>
             /\ Confirming(t)' /\ screen'.collection # c
             /\ \A k \in Tasks : Asking(k)' /\ task'[k].do = "create" => task'[k].of # c
      <4>1. ASSUME screen'.staged # None, screen'.gpx = c, NEW k \in Tasks, Asking(k)',
                   task'[k].do = "create", task'[k].of = c
            PROVE  FALSE
        <5>1. Bears(k)'
          <6>1. HandlerFits(k) /\ (k = t \/ task'[k] = task[k])
            BY <1>2, <1>5, <4>1, BesideStay DEF Told, Asking
          <6> QED BY <1>3, <1>5, <3>1, <4>1, <6>1 DEF Told, Bears, HandlerFits, Asking
        <5>2. k = t /\ task[t].do = "create"
          BY <1>5, <3>1, <3>7, <4>1, <5>1 DEF Told
        <5> QED BY <1>1, <1>3, <5>2 DEF HandlerFits
      <4>2. ASSUME screen'.staged # None, screen'.gpx = c PROVE Confirming(t)' /\ screen'.collection # c
        BY <1>1, <1>2, <2>1, <3>6, <4>2 DEF OneAtATime, InOnePlace
      <4> QED BY <4>1, <4>2
    <3>9. screen'.collection # c
      BY <1>1, <1>2, <2>1, <2>3, <3>1, <3>6, ImportAssumption
         DEF OneAtATime, InOnePlace, Confirming, Known
    <3>10. \A j, k \in DOMAIN made' : made'[j].of = c /\ made'[k].of = c => j = k
      BY <1>1, <2>1 DEF InOnePlace
    <3>11. \A k \in Tasks : Bears(k)' /\ task'[k].of = c =>
              \A i \in Parked' : rows'[i] = c => Holds(k, i)'
      BY <3>4, <3>5, <3>7 DEF Parked
    <3> QED BY <3>4, <3>5, <3>8, <3>9, <3>10, <3>11 DEF InOnePlace, Parked
  <2> QED BY <2>2, <2>3
<1> QED BY <1>8, <1>9, <1>10, <1>11, <1>12, <1>13 DEF ImportInductive

\* A request is refused.
LEMMA RefuseKeeps ==
    ASSUME ImportInductive, NEW t \in Tasks, Refuse(t), task[t].do # "cancel"
    PROVE  ImportInductive'
<1>1. /\ task[t] # None
      /\ screen' = screen /\ form' = form /\ chosen' = chosen
      /\ task[t].do # "cancel" /\ task[t].answer = None
      /\ rows' = rows /\ lastId' = lastId /\ made' = made /\ unheard' = unheard
  BY DEF Refuse, archive
<1>2. /\ \A k \in Tasks : HandlerFits(k)
      /\ ImportTypes /\ OneAtATime /\ RowsFit /\ RowsWatched
      /\ \A c \in Known \ unheard : InOnePlace(c)
  BY DEF ImportInductive
<1>3. task[t] \in Errand /\ HandlerFits(t)
  BY <1>1, <1>2 DEF ImportTypes
<1>4. Told(t, "refused", 0)
  BY <1>1, <1>2, RepliesTell DEF Refuse, archive
<1>5. ImportTypes'
  BY <1>1, <1>2, <1>3, <1>4 DEF Told, ImportTypes, Known, Ids
<1>6. ASSUME NEW k \in Tasks PROVE HandlerFits(k)'
  <2>1. CASE k = t
    BY <1>1, <1>2, <1>3, <1>4, <2>1 DEF Told, HandlerFits, Answered, Known, Ids, ImportTypes
  <2>2. CASE k # t
    BY <1>1, <1>2, <1>4, <2>2, StaysFitted DEF Told, Known, Ids
  <2> QED BY <2>1, <2>2
<1>7. OneAtATime'
  BY <1>1, <1>2, <1>3, <1>4, BesideStay DEF Told, OneAtATime, ReadsFile, Submits, Asking
<1>8. RowsFit'
  <2>1. \A k \in Tasks \ {t} : Fitting(k)'
    BY <1>1, <1>2, <1>4, StaysFitting DEF Told
  <2>2. Fitting(t)'
    BY <1>1, <1>2, <1>3, <1>4
       DEF Told, Fitting, Holds, Answered, Asking, Confirming, HandlerFits, RowsFit
  <2>3. screen'.staged # None /\ screen'.gpx # None =>
           rows'[screen'.staged] \in {None, screen'.gpx}
    BY <1>1, <1>2 DEF RowsFit, ImportTypes
  <2> QED BY <2>1, <2>2, <2>3 DEF RowsFit, Fitting, Parked
<1>9. RowsWatched'
  <2> SUFFICES ASSUME NEW i \in Parked, rows'[i] # None,
                      rows'[i] \notin unheard', i # screen'.staged
               PROVE  \E k \in Tasks : Holds(k, i)'
    BY <1>1, <1>2, <1>3, <1>4 DEF RowsWatched, Parked
  <2>1. CASE \E k \in Tasks \ {t} : Holds(k, i)
    BY <1>1, <1>2, <1>3, <1>4, <2>1, BesideStay DEF Told
  <2>2. CASE ~\E k \in Tasks \ {t} : Holds(k, i)
    BY <1>1, <1>2, <1>3, <1>4, <2>2
       DEF Told, RowsWatched, RowsFit, Holds, Answered, Asking, HandlerFits
  <2> QED BY <2>1, <2>2
<1>10. ASSUME NEW c \in (Known \ unheard)' PROVE InOnePlace(c)'
  <2>1. c \in Known \ unheard /\ InOnePlace(c) /\ c # None
    BY <1>1, <1>2, ImportAssumption DEF Known
  <2>2. Untouched(c)
    BY <1>1, <2>1 DEF Untouched, InOnePlace, Becomes
  <2>3. Carries(t, c)
    BY <1>1, <1>2, <1>3, <1>4, ToldCarries
  <2> QED BY <1>2, <1>4, <2>1, <2>2, <2>3, StaysInPlace DEF Told
<1> QED BY <1>5, <1>6, <1>7, <1>8, <1>9, <1>10 DEF ImportInductive

\* A cancellation is refused.
LEMMA RefuseCancelKeeps ==
    ASSUME ImportInductive, NEW t \in Tasks, Refuse(t), task[t].do = "cancel"
    PROVE  ImportInductive'
<1>1. /\ task[t] # None
      /\ screen' = screen /\ form' = form /\ chosen' = chosen
      /\ task[t].do = "cancel" /\ task[t].answer = None
      /\ rows' = rows /\ lastId' = lastId /\ made' = made /\ unheard' = unheard \cup About(t)
  BY DEF Refuse, archive
<1>2. /\ \A k \in Tasks : HandlerFits(k)
      /\ ImportTypes /\ OneAtATime /\ RowsFit /\ RowsWatched
      /\ \A c \in Known \ unheard : InOnePlace(c)
  BY DEF ImportInductive
<1>3. task[t] \in Errand /\ HandlerFits(t)
  BY <1>1, <1>2 DEF ImportTypes
<1>4. Told(t, "refused", 0)
  BY <1>1, <1>2, RepliesTell DEF Refuse, archive
<1>5. /\ About(t) \subseteq Known
      /\ \A i \in Parked : Holds(t, i) => rows[i] \in About(t) \cup {None} /\ i \in Ids
  BY <1>2, <1>3, HeldIsKnown
<1>6. ImportTypes'
  BY <1>1, <1>2, <1>3, <1>4, <1>5 DEF Told, ImportTypes, Known, Ids
<1>7. ASSUME NEW k \in Tasks PROVE HandlerFits(k)'
  <2>1. CASE k = t
    BY <1>1, <1>2, <1>3, <1>4, <1>5, <2>1
       DEF Told, HandlerFits, Answered, Known, Ids, ImportTypes, About
  <2>2. CASE k # t
    BY <1>1, <1>2, <1>4, <1>5, <2>2, StaysFitted DEF Told, Known, Ids
  <2> QED BY <2>1, <2>2
<1>8. OneAtATime'
  BY <1>1, <1>2, <1>3, <1>4, <1>5, BesideStay DEF Told, OneAtATime, ReadsFile, Submits, Asking
<1>9. RowsFit'
  <2>1. \A k \in Tasks \ {t} : Fitting(k)'
    BY <1>1, <1>2, <1>4, <1>5, StaysFitting DEF Told
  <2>2. Fitting(t)'
    BY <1>1, <1>2, <1>3, <1>4, <1>5
       DEF Told, Fitting, Holds, Answered, Asking, Confirming, HandlerFits, RowsFit, About
  <2>3. screen'.staged # None /\ screen'.gpx # None =>
           rows'[screen'.staged] \in {None, screen'.gpx}
    BY <1>1, <1>2, <1>5 DEF RowsFit, ImportTypes
  <2> QED BY <2>1, <2>2, <2>3 DEF RowsFit, Fitting, Parked
<1>10. RowsWatched'
  <2> SUFFICES ASSUME NEW i \in Parked, rows'[i] # None,
                      rows'[i] \notin unheard', i # screen'.staged
               PROVE  \E k \in Tasks : Holds(k, i)'
    BY <1>1, <1>2, <1>3, <1>4, <1>5 DEF RowsWatched, Parked
  <2>1. CASE \E k \in Tasks \ {t} : Holds(k, i)
    BY <1>1, <1>2, <1>3, <1>4, <1>5, <2>1, BesideStay DEF Told
  <2>2. CASE ~\E k \in Tasks \ {t} : Holds(k, i)
    BY <1>1, <1>2, <1>3, <1>4, <1>5, <2>2
       DEF Told, RowsWatched, RowsFit, Holds, Answered, Asking, HandlerFits, About
  <2> QED BY <2>1, <2>2
<1>11. ASSUME NEW c \in (Known \ unheard)' PROVE InOnePlace(c)'
  <2>1. c \in Known \ unheard /\ InOnePlace(c) /\ c # None
    BY <1>1, <1>2, ImportAssumption DEF Known
  <2>2. Untouched(c)
    BY <1>1, <1>5, <2>1 DEF Untouched, InOnePlace, Becomes
  <2>3. Carries(t, c)
    BY <1>1, <1>2, <1>3, <1>4, ToldCarries
  <2> QED BY <1>2, <1>4, <2>1, <2>2, <2>3, StaysInPlace DEF Told
<1> QED BY <1>6, <1>7, <1>8, <1>9, <1>10, <1>11 DEF ImportInductive

\* An answer is lost.
LEMMA LoseKeeps ==
    ASSUME ImportInductive, NEW t \in Tasks, Lose(t)
    PROVE  ImportInductive'
<1>1. /\ task[t] # None
      /\ screen' = screen /\ form' = form /\ chosen' = chosen
      /\ task[t].do # "pick" /\ task[t].gone = FALSE
      /\ rows' = rows /\ lastId' = lastId /\ made' = made /\ unheard' = unheard \cup About(t)
  BY DEF Lose, archive
<1>2. /\ \A k \in Tasks : HandlerFits(k)
      /\ ImportTypes /\ OneAtATime /\ RowsFit /\ RowsWatched
      /\ \A c \in Known \ unheard : InOnePlace(c)
  BY DEF ImportInductive
<1>3. task[t] \in Errand /\ HandlerFits(t)
  BY <1>1, <1>2 DEF ImportTypes
<1>4. Told(t, "lost", 0)
  BY <1>1, <1>2, RepliesTell DEF Lose, archive
<1>5. /\ About(t) \subseteq Known
      /\ \A i \in Parked : Holds(t, i) => rows[i] \in About(t) \cup {None} /\ i \in Ids
  BY <1>2, <1>3, HeldIsKnown
<1>6. ImportTypes'
  BY <1>1, <1>2, <1>3, <1>4, <1>5 DEF Told, ImportTypes, Known, Ids
<1>7. ASSUME NEW k \in Tasks PROVE HandlerFits(k)'
  <2>1. CASE k = t
    BY <1>1, <1>2, <1>3, <1>4, <1>5, <2>1
       DEF Told, HandlerFits, Answered, Known, Ids, ImportTypes, About
  <2>2. CASE k # t
    BY <1>1, <1>2, <1>4, <1>5, <2>2, StaysFitted DEF Told, Known, Ids
  <2> QED BY <2>1, <2>2
<1>8. OneAtATime'
  BY <1>1, <1>2, <1>3, <1>4, <1>5, BesideStay DEF Told, OneAtATime, ReadsFile, Submits, Asking
<1>9. RowsFit'
  <2>1. \A k \in Tasks \ {t} : Fitting(k)'
    BY <1>1, <1>2, <1>4, <1>5, StaysFitting DEF Told
  <2>2. Fitting(t)'
    BY <1>1, <1>2, <1>3, <1>4, <1>5
       DEF Told, Fitting, Holds, Answered, Asking, Confirming, HandlerFits, RowsFit, About
  <2>3. screen'.staged # None /\ screen'.gpx # None =>
           rows'[screen'.staged] \in {None, screen'.gpx}
    BY <1>1, <1>2, <1>5 DEF RowsFit, ImportTypes
  <2> QED BY <2>1, <2>2, <2>3 DEF RowsFit, Fitting, Parked
<1>10. RowsWatched'
  <2> SUFFICES ASSUME NEW i \in Parked, rows'[i] # None,
                      rows'[i] \notin unheard', i # screen'.staged
               PROVE  \E k \in Tasks : Holds(k, i)'
    BY <1>1, <1>2, <1>3, <1>4, <1>5 DEF RowsWatched, Parked
  <2>1. CASE \E k \in Tasks \ {t} : Holds(k, i)
    BY <1>1, <1>2, <1>3, <1>4, <1>5, <2>1, BesideStay DEF Told
  <2>2. CASE ~\E k \in Tasks \ {t} : Holds(k, i)
    BY <1>1, <1>2, <1>3, <1>4, <1>5, <2>2
       DEF Told, RowsWatched, RowsFit, Holds, Answered, Asking, HandlerFits, About
  <2> QED BY <2>1, <2>2
<1>11. ASSUME NEW c \in (Known \ unheard)' PROVE InOnePlace(c)'
  <2>1. c \in Known \ unheard /\ InOnePlace(c) /\ c # None /\ c \notin About(t)
    BY <1>1, <1>2, <1>5, ImportAssumption DEF Known
  <2>2. Untouched(c)
    BY <1>1, <2>1 DEF Untouched, InOnePlace, Becomes
  <2>3. task[t].of # c
    BY <1>1, <2>1 DEF About
  <2>4. Carries(t, c)
    BY <1>1, <1>4, <2>3 DEF Told, Carries, Asking, Confirming
  <2> QED BY <1>2, <1>4, <2>1, <2>2, <2>4, StaysInPlace DEF Told
<1> QED BY <1>6, <1>7, <1>8, <1>9, <1>10, <1>11 DEF ImportInductive

\* A row is cancelled.
LEMMA CancelRowKeeps ==
    ASSUME ImportInductive, NEW t \in Tasks, CancelRow(t)
    PROVE  ImportInductive'
<1>1. /\ task[t] # None
      /\ screen' = screen /\ form' = form /\ chosen' = chosen
      /\ task[t].at = "cancel" /\ task[t].answer = None
      /\ rows' = [rows EXCEPT ![task[t].id] = None] /\ lastId' = lastId /\ made' = made
      /\ unheard' = unheard
  BY DEF CancelRow, Asked
<1>2. /\ \A k \in Tasks : HandlerFits(k)
      /\ ImportTypes /\ OneAtATime /\ RowsFit /\ RowsWatched
      /\ \A c \in Known \ unheard : InOnePlace(c)
  BY DEF ImportInductive
<1>3. task[t] \in Errand /\ HandlerFits(t)
  BY <1>1, <1>2 DEF ImportTypes
<1>4. Told(t, "ok", 0)
  BY <1>1, <1>2, RepliesTell DEF CancelRow, Asked
<1>5. /\ task[t].id \in Parked /\ rows'[task[t].id] = None
      /\ rows' \in [Parked -> Known \cup {None}]
      /\ \A i \in Parked : i # task[t].id => rows'[i] = rows[i]
  BY <1>1, <1>2, <1>3, IdsParked DEF HandlerFits, ImportTypes
<1>6. ImportTypes'
  BY <1>1, <1>2, <1>3, <1>4, <1>5 DEF Told, ImportTypes, Known, Ids
<1>7. ASSUME NEW k \in Tasks PROVE HandlerFits(k)'
  <2>1. CASE k = t
    BY <1>1, <1>2, <1>3, <1>4, <1>5, <2>1 DEF Told, HandlerFits, Answered, Known, Ids, ImportTypes
  <2>2. CASE k # t
    BY <1>1, <1>2, <1>4, <1>5, <2>2, StaysFitted DEF Told, Known, Ids
  <2> QED BY <2>1, <2>2
<1>8. OneAtATime'
  BY <1>1, <1>2, <1>3, <1>4, <1>5, BesideStay DEF Told, OneAtATime, ReadsFile, Submits, Asking
<1>9. RowsFit'
  <2>1. \A k \in Tasks \ {t} : Fitting(k)'
    BY <1>1, <1>2, <1>4, <1>5, StaysFitting DEF Told
  <2>2. Fitting(t)'
    BY <1>1, <1>2, <1>3, <1>4, <1>5
       DEF Told, Fitting, Holds, Answered, Asking, Confirming, HandlerFits, RowsFit
  <2>3. screen'.staged # None /\ screen'.gpx # None =>
           rows'[screen'.staged] \in {None, screen'.gpx}
    BY <1>1, <1>2, <1>5 DEF RowsFit, ImportTypes
  <2> QED BY <2>1, <2>2, <2>3 DEF RowsFit, Fitting, Parked
<1>10. RowsWatched'
  <2> SUFFICES ASSUME NEW i \in Parked, rows'[i] # None,
                      rows'[i] \notin unheard', i # screen'.staged
               PROVE  \E k \in Tasks : Holds(k, i)'
    BY <1>1, <1>2, <1>3, <1>4, <1>5 DEF RowsWatched, Parked
  <2>1. CASE \E k \in Tasks \ {t} : Holds(k, i)
    BY <1>1, <1>2, <1>3, <1>4, <1>5, <2>1, BesideStay DEF Told
  <2>2. CASE ~\E k \in Tasks \ {t} : Holds(k, i)
    BY <1>1, <1>2, <1>3, <1>4, <1>5, <2>2
       DEF Told, RowsWatched, RowsFit, Holds, Answered, Asking, HandlerFits
  <2> QED BY <2>1, <2>2
<1>11. ASSUME NEW c \in (Known \ unheard)' PROVE InOnePlace(c)'
  <2>1. c \in Known \ unheard /\ InOnePlace(c) /\ c # None
    BY <1>1, <1>2, ImportAssumption DEF Known
  <2>2. Untouched(c)
    BY <1>1, <1>5, <2>1 DEF Untouched, InOnePlace, Becomes
  <2>3. Carries(t, c)
    BY <1>1, <1>2, <1>3, <1>4, ToldCarries
  <2> QED BY <1>2, <1>4, <2>1, <2>2, <2>3, StaysInPlace DEF Told
<1> QED BY <1>6, <1>7, <1>8, <1>9, <1>10, <1>11 DEF ImportInductive

\* Sequences, by their items.
LEMMA ItemsOf ==
    ASSUME NEW S, NEW s \in Seq(S)
    PROVE  DOMAIN s = 1 .. Len(s) /\ Len(s) \in Nat /\ \A k \in DOMAIN s : s[k] \in S
OBVIOUS

LEMMA ItemsMake ==
    ASSUME NEW S, NEW n \in Nat, NEW f \in [1 .. n -> S] PROVE f \in Seq(S)
OBVIOUS

\* What is made, once more of it is made of one file.
GrownBy(f) ==
    /\ Becomes(f)'
    /\ \A c \in Known \ {f} : Becomes(c)' <=> Becomes(c)
    /\ \A c \in Known \ {f} :
          (\A j, k \in DOMAIN made : made[j].of = c /\ made[k].of = c => j = k)
             => \A j, k \in DOMAIN made' : made'[j].of = c /\ made'[k].of = c => j = k
    /\ ~Becomes(f) => \A j, k \in DOMAIN made' : made'[j].of = f /\ made'[k].of = f => j = k

LEMMA GrownMade ==
    ASSUME ImportTypes, NEW f \in Known, made' = Append(made, [of |-> f, photos |-> 0])
    PROVE  /\ Len(made') \in Nat /\ made' \in Seq([of : Nat, photos : Nat])
           /\ \A k \in DOMAIN made' : made'[k].of \in Known
           /\ GrownBy(f)
<1> DEFINE e == [of |-> f, photos |-> 0]
<1>1. e \in [of : Nat, photos : Nat] /\ e.of = f /\ made \in Seq([of : Nat, photos : Nat])
  BY DEF ImportTypes, Known
<1>2. /\ made' \in Seq([of : Nat, photos : Nat]) /\ Len(made') = Len(made) + 1
      /\ Len(made) \in Nat /\ DOMAIN made = 1 .. Len(made)
      /\ DOMAIN made' = 1 .. Len(made) + 1
      /\ \A k \in DOMAIN made : made'[k] = made[k]
      /\ made'[Len(made) + 1] = e
  BY <1>1
<1> HIDE DEF e
<1>3. \A k \in DOMAIN made' : k \in DOMAIN made \/ k = Len(made) + 1
  BY <1>2
<1>4. \A k \in DOMAIN made' : made'[k].of \in Known
  BY <1>1, <1>2, <1>3 DEF ImportTypes
<1>5. Becomes(f)'
  BY <1>1, <1>2 DEF Becomes
<1>6. \A c \in Known \ {f} : \A k \in DOMAIN made' :
         made'[k].of = c => k \in DOMAIN made /\ made[k].of = c
  BY <1>1, <1>2, <1>3
<1>7. \A c \in Known \ {f} : Becomes(c)' <=> Becomes(c)
  BY <1>2, <1>6 DEF Becomes
<1>8. ~Becomes(f) => \A k \in DOMAIN made' : made'[k].of = f => k = Len(made) + 1
  BY <1>2, <1>3 DEF Becomes
<1> QED BY <1>2, <1>4, <1>5, <1>6, <1>7, <1>8 DEF GrownBy

\* The row asked for is not there.
LEMMA TripNotFoundKeeps ==
    ASSUME ImportInductive, NEW t \in Tasks, MakeTrip(t), rows[task[t].id] = None
    PROVE  ImportInductive'
<1>1. /\ task[t] # None
      /\ screen' = screen /\ form' = form /\ chosen' = chosen
      /\ task[t].at \in {"confirm", "reconfirm"} /\ task[t].answer = None
      /\ rows[task[t].id] = None
      /\ rows' = rows /\ lastId' = lastId /\ made' = made /\ unheard' = unheard
  BY DEF MakeTrip, Asked
<1>2. /\ \A k \in Tasks : HandlerFits(k)
      /\ ImportTypes /\ OneAtATime /\ RowsFit /\ RowsWatched
      /\ \A c \in Known \ unheard : InOnePlace(c)
  BY DEF ImportInductive
<1>3. task[t] \in Errand /\ HandlerFits(t)
  BY <1>1, <1>2 DEF ImportTypes
<1>4. Told(t, "not_found", 0)
  BY <1>1, <1>2, RepliesTell DEF MakeTrip, Asked
<1>5. ImportTypes'
  BY <1>1, <1>2, <1>3, <1>4 DEF Told, ImportTypes, Known, Ids
<1>6. ASSUME NEW k \in Tasks PROVE HandlerFits(k)'
  <2>1. CASE k = t
    BY <1>1, <1>2, <1>3, <1>4, <2>1 DEF Told, HandlerFits, Answered, Known, Ids, ImportTypes
  <2>2. CASE k # t
    BY <1>1, <1>2, <1>4, <2>2, StaysFitted DEF Told, Known, Ids
  <2> QED BY <2>1, <2>2
<1>7. OneAtATime'
  BY <1>1, <1>2, <1>3, <1>4, BesideStay DEF Told, OneAtATime, ReadsFile, Submits, Asking
<1>8. RowsFit'
  <2>1. \A k \in Tasks \ {t} : Fitting(k)'
    BY <1>1, <1>2, <1>4, StaysFitting DEF Told
  <2>2. Fitting(t)'
    BY <1>1, <1>2, <1>3, <1>4
       DEF Told, Fitting, Holds, Answered, Asking, Confirming, HandlerFits, RowsFit
  <2>3. screen'.staged # None /\ screen'.gpx # None =>
           rows'[screen'.staged] \in {None, screen'.gpx}
    BY <1>1, <1>2 DEF RowsFit, ImportTypes
  <2> QED BY <2>1, <2>2, <2>3 DEF RowsFit, Fitting, Parked
<1>9. RowsWatched'
  <2> SUFFICES ASSUME NEW i \in Parked, rows'[i] # None,
                      rows'[i] \notin unheard', i # screen'.staged
               PROVE  \E k \in Tasks : Holds(k, i)'
    BY <1>1, <1>2, <1>3, <1>4 DEF RowsWatched, Parked
  <2>1. CASE \E k \in Tasks \ {t} : Holds(k, i)
    BY <1>1, <1>2, <1>3, <1>4, <2>1, BesideStay DEF Told
  <2>2. CASE ~\E k \in Tasks \ {t} : Holds(k, i)
    BY <1>1, <1>2, <1>3, <1>4, <2>2
       DEF Told, RowsWatched, RowsFit, Holds, Answered, Asking, HandlerFits
  <2> QED BY <2>1, <2>2
<1>10. ASSUME NEW c \in (Known \ unheard)' PROVE InOnePlace(c)'
  <2>1. c \in Known \ unheard /\ InOnePlace(c) /\ c # None
    BY <1>1, <1>2, ImportAssumption DEF Known
  <2>2. Untouched(c)
    BY <1>1, <2>1 DEF Untouched, InOnePlace, Becomes
  <2>3. Carries(t, c)
    BY <1>1, <1>2, <1>3, <1>4, ToldCarries
  <2> QED BY <1>2, <1>4, <2>1, <2>2, <2>3, StaysInPlace DEF Told
<1> QED BY <1>5, <1>6, <1>7, <1>8, <1>9, <1>10 DEF ImportInductive

\* A trip is made of the row asked for.
LEMMA MakeTripKeeps ==
    ASSUME ImportInductive, NEW t \in Tasks, MakeTrip(t), rows[task[t].id] # None
    PROVE  ImportInductive'
<1>1. /\ task[t] # None
      /\ screen' = screen /\ form' = form /\ chosen' = chosen
      /\ task[t].at \in {"confirm", "reconfirm"} /\ task[t].answer = None
      /\ rows[task[t].id] # None
      /\ lastId' = lastId /\ unheard' = unheard
  BY DEF MakeTrip, Asked
<1>2. /\ \A k \in Tasks : HandlerFits(k)
      /\ ImportTypes /\ OneAtATime /\ RowsFit /\ RowsWatched
      /\ \A c \in Known \ unheard : InOnePlace(c)
  BY DEF ImportInductive
<1>3. task[t] \in Errand /\ HandlerFits(t)
  BY <1>1, <1>2 DEF ImportTypes
<1>4. /\ Len(made') \in Nat /\ made' \in Seq([of : Nat, photos : Nat])
      /\ \A k \in DOMAIN made' : made'[k].of \in Known'
      /\ GrownBy(rows[task[t].id])
  <2>1. PICK f \in Known : f = rows[task[t].id]
    BY <1>1, <1>2, <1>3, ImportAssumption, IdsParked DEF ImportTypes, HandlerFits
  <2>2. made' = Append(made, [of |-> f, photos |-> 0]) /\ Known' = Known
    BY <1>1, <1>2, <2>1 DEF Known, MakeTrip
  <2> QED BY <1>2, <2>1, <2>2, GrownMade
<1>5. Told(t, "ok", Len(made'))
  BY <1>1, <1>2, <1>4, RepliesTell DEF MakeTrip, Asked
<1>6. /\ task[t].id \in Parked /\ rows'[task[t].id] = None
      /\ rows' \in [Parked -> Known \cup {None}]
      /\ \A i \in Parked : i # task[t].id => rows'[i] = rows[i]
      /\ \A i \in Parked : rows'[i] \in {rows[i], None}
      /\ Ids \subseteq Parked
  BY <1>1, <1>2, <1>3, IdsParked DEF HandlerFits, ImportTypes, MakeTrip
<1>7. ImportTypes'
  BY <1>1, <1>2, <1>3, <1>4, <1>5, <1>6 DEF Told, ImportTypes, Known, Ids
<1>8. ASSUME NEW k \in Tasks PROVE HandlerFits(k)'
  <2>1. CASE k = t
    BY <1>1, <1>2, <1>3, <1>5, <1>6, <2>1 DEF Told, HandlerFits, Answered, Known, Ids, ImportTypes
  <2>2. CASE k # t
    BY <1>1, <1>2, <1>5, <1>6, <2>2, StaysFitted DEF Told, Known, Ids
  <2> QED BY <2>1, <2>2
<1>9. OneAtATime'
  BY <1>1, <1>2, <1>3, <1>5, <1>6, BesideStay DEF Told, OneAtATime, ReadsFile, Submits, Asking
<1>10. RowsFit'
  <2>1. \A k \in Tasks \ {t} : Fitting(k)'
    BY <1>1, <1>2, <1>5, <1>6, StaysFitting DEF Told
  <2>2. Fitting(t)'
    <3>1. CASE task[t].gone
      BY <1>5, <3>1 DEF Told, Fitting, Holds, Asking, Confirming
    <3>2. CASE ~task[t].gone
      <4>1. /\ task'[t].at = task[t].at /\ task'[t].at \in {"confirm", "reconfirm"}
            /\ task'[t].id = task[t].id /\ task'[t].of = task[t].of /\ task'[t].do = task[t].do
            /\ task[t].gone = FALSE
        BY <1>1, <1>3, <1>5, <3>2 DEF Told
      <4>2. \A i \in Parked : Holds(t, i)' => rows'[i] = None
        BY <1>6, <4>1 DEF Holds
      <4>3. Confirming(t)' =>
              /\ screen'.staged # None /\ screen'.gpx \in {None, task'[t].of}
              /\ IF task'[t].at = "confirm" THEN task'[t].id = screen'.staged
                 ELSE rows'[screen'.staged] = None
        <5>1. Confirming(t)' => Confirming(t)
          BY <1>1, <4>1 DEF Confirming, Asking
        <5>2. screen.staged # None => screen.staged \in Parked
          BY <1>2, <1>6 DEF ImportTypes
        <5> QED BY <1>1, <1>2, <1>6, <4>1, <5>1, <5>2 DEF RowsFit
      <4> QED BY <1>6, <4>1, <4>2, <4>3 DEF Fitting, Parked
    <3> QED BY <3>1, <3>2
  <2>3. screen'.staged # None /\ screen'.gpx # None =>
           rows'[screen'.staged] \in {None, screen'.gpx}
    BY <1>1, <1>2, <1>6 DEF RowsFit, ImportTypes
  <2> QED BY <2>1, <2>2, <2>3 DEF RowsFit, Fitting, Parked
<1>11. RowsWatched'
  <2> SUFFICES ASSUME NEW i \in Parked, rows'[i] # None,
                      rows'[i] \notin unheard', i # screen'.staged
               PROVE  \E k \in Tasks : Holds(k, i)'
    BY <1>1, <1>2, <1>3, <1>5, <1>6 DEF RowsWatched, Parked
  <2>1. CASE \E k \in Tasks \ {t} : Holds(k, i)
    BY <1>1, <1>2, <1>3, <1>5, <1>6, <2>1, BesideStay DEF Told
  <2>2. CASE ~\E k \in Tasks \ {t} : Holds(k, i)
    BY <1>1, <1>2, <1>3, <1>5, <1>6, <2>2
       DEF Told, RowsWatched, RowsFit, Holds, Answered, Asking, HandlerFits
  <2> QED BY <2>1, <2>2
<1>12. ASSUME NEW c \in (Known \ unheard)' PROVE InOnePlace(c)'
  <2>1. c \in Known \ unheard /\ InOnePlace(c)
    BY <1>1, <1>2 DEF Known
  <2>2. CASE c # rows[task[t].id]
    <3>1. Untouched(c)
      <4>1. c # None /\ c \in Known \ {rows[task[t].id]}
        BY <2>1, <2>2, ImportAssumption DEF Known
      <4>2. Becomes(c)' <=> Becomes(c)
        BY <1>4, <4>1 DEF GrownBy
      <4>3. \A j, k \in DOMAIN made' : made'[j].of = c /\ made'[k].of = c => j = k
        <5>1. \A j, k \in DOMAIN made : made[j].of = c /\ made[k].of = c => j = k
          BY <2>1 DEF InOnePlace
        <5> QED BY <1>4, <4>1, <5>1 DEF GrownBy
      <4>4. \A i \in Parked : rows'[i] = c => rows[i] = c
        BY <1>6, <4>1
      <4> QED BY <1>1, <4>2, <4>3, <4>4 DEF Untouched
    <3>2. Carries(t, c)
      BY <1>1, <1>2, <1>3, <1>5, ToldCarries
    <3> QED BY <1>2, <1>5, <2>1, <3>1, <3>2, StaysInPlace DEF Told
  <2>3. CASE c = rows[task[t].id]
    <3>1. ~task[t].gone /\ Confirming(t)
      BY <1>1, <1>3, <2>1, <2>3, ImportAssumption, ErrandsTyped
         DEF About, HandlerFits, Known, Confirming, Asking
    <3>2. Submits(t) /\ Confirming(t)' /\ screen.staged # None
      BY <1>1, <1>2, <1>5, <3>1 DEF Confirming, Submits, Asking, Told, RowsFit
    <3>3. \A i \in Parked : rows'[i] # c
      BY <1>6, <2>1, <2>3, ImportAssumption DEF InOnePlace, Known
    <3>4. \A j, k \in DOMAIN made' : made'[j].of = c /\ made'[k].of = c => j = k
      BY <1>4, <1>6, <2>1, <2>3 DEF InOnePlace, GrownBy
    <3>5. ASSUME NEW k \in Tasks, Bears(k)', task'[k].of = c PROVE Done(k)'
      <4>1. CASE k = t
        BY <1>1, <1>5, <3>1, <3>5, <4>1 DEF Told, Done, Answered
      <4>2. CASE k # t
        <5>1. Bears(k) /\ task'[k] = task[k] /\ task[k] \in Errand
          BY <1>2, <1>5, <3>5, <4>2, BesideStay DEF Told, Bears, Asking, ImportTypes
        <5>2. ~Submits(k)
          BY <1>2, <3>2, <4>2 DEF OneAtATime
        <5>3. ~ReadsFile(k)
          BY <1>2, <3>2 DEF OneAtATime
        <5> QED BY <5>1, <5>2, <5>3, ErrandsTyped DEF Bears, Submits, ReadsFile
      <4> QED BY <4>1, <4>2
    <3>6. screen'.collection # c
      BY <1>1, <1>6, <2>1, <2>3 DEF InOnePlace
    <3>7. ASSUME NEW k \in Tasks, Asking(k)', task'[k].do = "create" PROVE FALSE
      <4>1. k = t \/ Submits(k)
        BY <1>2, <1>5, <3>7, BesideStay DEF Told, Submits
      <4>2. k = t
        BY <1>2, <3>2, <4>1 DEF OneAtATime
      <4> QED BY <1>5, <3>1, <3>7, <4>2 DEF Told, Confirming
    <3> QED BY <1>1, <3>2, <3>3, <3>4, <3>5, <3>6, <3>7 DEF InOnePlace, Parked
  <2> QED BY <2>2, <2>3
<1> QED BY <1>7, <1>8, <1>9, <1>10, <1>11, <1>12 DEF ImportInductive

\* A collection is made of the file read.
LEMMA MakeCollectionKeeps ==
    ASSUME ImportInductive, NEW t \in Tasks, MakeCollection(t)
    PROVE  ImportInductive'
<1>1. /\ task[t] # None
      /\ screen' = screen /\ form' = form /\ chosen' = chosen
      /\ task[t].at = "create" /\ task[t].answer = None
      /\ rows' = rows /\ lastId' = lastId /\ unheard' = unheard
  BY DEF MakeCollection, Asked
<1>2. /\ \A k \in Tasks : HandlerFits(k)
      /\ ImportTypes /\ OneAtATime /\ RowsFit /\ RowsWatched
      /\ \A c \in Known \ unheard : InOnePlace(c)
  BY DEF ImportInductive
<1>3. task[t] \in Errand /\ HandlerFits(t)
  BY <1>1, <1>2 DEF ImportTypes
<1>4. /\ Len(made') \in Nat /\ made' \in Seq([of : Nat, photos : Nat])
      /\ \A k \in DOMAIN made' : made'[k].of \in Known'
      /\ GrownBy(task[t].of)
  <2>1. PICK f \in Known : f = task[t].of
    BY <1>1, <1>2, <1>3, ImportAssumption, IdsParked DEF ImportTypes, HandlerFits
  <2>2. made' = Append(made, [of |-> f, photos |-> 0]) /\ Known' = Known
    BY <1>1, <1>2, <2>1 DEF Known, MakeCollection
  <2> QED BY <1>2, <2>1, <2>2, GrownMade
<1>5. Told(t, "ok", Len(made'))
  BY <1>1, <1>2, <1>4, RepliesTell DEF MakeCollection, Asked
<1>6. ImportTypes'
  BY <1>1, <1>2, <1>3, <1>4, <1>5 DEF Told, ImportTypes, Known, Ids
<1>7. ASSUME NEW k \in Tasks PROVE HandlerFits(k)'
  <2>1. CASE k = t
    BY <1>1, <1>2, <1>3, <1>5, <2>1 DEF Told, HandlerFits, Answered, Known, Ids, ImportTypes
  <2>2. CASE k # t
    BY <1>1, <1>2, <1>5, <2>2, StaysFitted DEF Told, Known, Ids
  <2> QED BY <2>1, <2>2
<1>8. OneAtATime'
  BY <1>1, <1>2, <1>3, <1>5, BesideStay DEF Told, OneAtATime, ReadsFile, Submits, Asking
<1>9. RowsFit'
  <2>1. \A k \in Tasks \ {t} : Fitting(k)'
    BY <1>1, <1>2, <1>5, StaysFitting DEF Told
  <2>2. Fitting(t)'
    BY <1>1, <1>2, <1>3, <1>5
       DEF Told, Fitting, Holds, Answered, Asking, Confirming, HandlerFits, RowsFit
  <2>3. screen'.staged # None /\ screen'.gpx # None =>
           rows'[screen'.staged] \in {None, screen'.gpx}
    BY <1>1, <1>2 DEF RowsFit, ImportTypes
  <2> QED BY <2>1, <2>2, <2>3 DEF RowsFit, Fitting, Parked
<1>10. RowsWatched'
  <2> SUFFICES ASSUME NEW i \in Parked, rows'[i] # None,
                      rows'[i] \notin unheard', i # screen'.staged
               PROVE  \E k \in Tasks : Holds(k, i)'
    BY <1>1, <1>2, <1>3, <1>5 DEF RowsWatched, Parked
  <2>1. CASE \E k \in Tasks \ {t} : Holds(k, i)
    BY <1>1, <1>2, <1>3, <1>5, <2>1, BesideStay DEF Told
  <2>2. CASE ~\E k \in Tasks \ {t} : Holds(k, i)
    BY <1>1, <1>2, <1>3, <1>5, <2>2
       DEF Told, RowsWatched, RowsFit, Holds, Answered, Asking, HandlerFits
  <2> QED BY <2>1, <2>2
<1>11. ASSUME NEW c \in (Known \ unheard)' PROVE InOnePlace(c)'
  <2>1. c \in Known \ unheard /\ InOnePlace(c)
    BY <1>1, <1>2 DEF Known
  <2>2. CASE c # task[t].of
    <3>1. Untouched(c)
      BY <1>1, <1>4, <2>1, <2>2 DEF Untouched, GrownBy, InOnePlace
    <3>2. Carries(t, c)
      BY <1>1, <1>2, <1>3, <1>5, ToldCarries
    <3> QED BY <1>2, <1>5, <2>1, <3>1, <3>2, StaysInPlace DEF Told
  <2>3. CASE c = task[t].of
    <3>1. ~task[t].gone /\ task[t].do = "create" /\ Submits(t)
      BY <1>1, <1>3, <2>1, <2>3, ImportAssumption, ErrandsTyped
         DEF About, HandlerFits, Known, Submits, Asking
    <3>2. Bears(t) /\ ~Done(t)
      BY <1>1, <3>1 DEF Bears, Asking, Submits, Done, Answered
    <3>3. ~Becomes(c) /\ \A i \in Parked : rows'[i] # c
      BY <1>1, <2>1, <2>3, <3>2 DEF InOnePlace, Holds, Answered
    <3>4. \A j, k \in DOMAIN made' : made'[j].of = c /\ made'[k].of = c => j = k
      BY <1>4, <2>3, <3>3 DEF GrownBy
    <3>5. ASSUME NEW k \in Tasks, Asking(k)', Bears(k)' \/ task'[k].do = "confirm", task'[k].of = c
          PROVE  k = t
      <4>1. CASE k # t
        <5>1. Asking(k) /\ task'[k] = task[k] /\ task[k] \in Errand
          BY <1>2, <1>5, <3>5, <4>1, BesideStay DEF Told, Asking, ImportTypes
        <5>2. ~Submits(k)
          BY <1>2, <3>1, <4>1 DEF OneAtATime
        <5>3. ~ReadsFile(k)
          BY <1>2, <2>3, <3>1, <3>5, <5>1 DEF OneAtATime
        <5> QED BY <3>5, <5>1, <5>2, <5>3, ErrandsTyped DEF Bears, Submits, ReadsFile
      <4> QED BY <4>1
    <3>6. task'[t] # None /\ Asking(t)' /\ task'[t].do = "create" /\ Done(t)' /\ task'[t].of = c
      BY <1>1, <1>5, <2>3, <3>1 DEF Told, Done, Answered, Asking
    <3>7. ~(screen'.staged # None /\ screen'.gpx = c)
      BY <1>1, <2>1, <2>3, <3>1 DEF InOnePlace, Submits
    <3>8. \A k \in Tasks : Bears(k)' /\ task'[k].of = c => Done(k)'
      BY <3>5, <3>6 DEF Bears
    <3>9. \A k \in Tasks : Asking(k)' /\ task'[k].do = "confirm" => task'[k].of # c
      BY <3>5, <3>6
    <3> QED BY <1>1, <3>3, <3>4, <3>6, <3>7, <3>8, <3>9 DEF InOnePlace, Parked
  <2> QED BY <2>2, <2>3
<1> QED BY <1>6, <1>7, <1>8, <1>9, <1>10, <1>11 DEF ImportInductive

\* Photos are added to the trip made.
LEMMA AddPhotosKeeps ==
    ASSUME ImportInductive, NEW t \in Tasks, AddPhotos(t)
    PROVE  ImportInductive'
<1>1. /\ task[t] # None
      /\ screen' = screen /\ form' = form /\ chosen' = chosen
      /\ task[t].at = "photos" /\ task[t].answer = None
      /\ rows' = rows /\ lastId' = lastId /\ unheard' = unheard
  BY DEF AddPhotos, Asked
<1>2. /\ \A k \in Tasks : HandlerFits(k)
      /\ ImportTypes /\ OneAtATime /\ RowsFit /\ RowsWatched
      /\ \A c \in Known \ unheard : InOnePlace(c)
  BY DEF ImportInductive
<1>3. task[t] \in Errand /\ HandlerFits(t)
  BY <1>1, <1>2 DEF ImportTypes
<1>4. /\ made' \in Seq([of : Nat, photos : Nat]) /\ DOMAIN made' = DOMAIN made
      /\ \A k \in DOMAIN made : made'[k].of = made[k].of
      /\ task[t].id \in Nat
  <2>1. PICK n \in Nat : n = task[t].id
    BY <1>3, ErrandsTyped
  <2>2. PICK s \in Seq([of : Nat, photos : Nat]) : s = made
    BY <1>2 DEF ImportTypes
  <2>3. made' = [s EXCEPT ![n] = [s[n] EXCEPT !.photos = s[n].photos + 1]]
    BY <2>1, <2>2 DEF AddPhotos
  <2>4. /\ DOMAIN s = 1 .. Len(s) /\ Len(s) \in Nat
        /\ \A k \in DOMAIN s : s[k] \in [of : Nat, photos : Nat]
    BY <2>2, ItemsOf
  <2>5. /\ DOMAIN made' = DOMAIN s
        /\ \A k \in DOMAIN s : made'[k] \in [of : Nat, photos : Nat] /\ made'[k].of = s[k].of
        /\ made' = [k \in DOMAIN s |-> made'[k]]
    <3>1. ASSUME NEW k \in DOMAIN s
          PROVE  made'[k] \in [of : Nat, photos : Nat] /\ made'[k].of = s[k].of
      <4>1. s[k] \in [of : Nat, photos : Nat]
        BY <2>4
      <4>2. made'[k] = IF k = n THEN [s[k] EXCEPT !.photos = s[k].photos + 1] ELSE s[k]
        BY <2>3
      <4>3. CASE k = n
        <5>1. PICK e \in [of : Nat, photos : Nat] : s[k] = e
          BY <4>1
        <5>2. made'[k] = [e EXCEPT !.photos = e.photos + 1]
          BY <4>2, <4>3, <5>1
        <5> QED BY <5>1, <5>2
      <4>4. CASE k # n
        BY <4>1, <4>2, <4>4
      <4> QED BY <4>3, <4>4
    <3> QED BY <2>3, <3>1
  <2>6. made' \in [1 .. Len(s) -> [of : Nat, photos : Nat]]
    BY <2>4, <2>5
  <2>7. made' \in Seq([of : Nat, photos : Nat])
    BY <2>4, <2>6, ItemsMake
  <2> QED BY <2>1, <2>2, <2>5, <2>7
<1>5. Told(t, "ok", task[t].id)
  BY <1>1, <1>2, <1>4, RepliesTell DEF AddPhotos, Asked
<1>6. ImportTypes'
  BY <1>1, <1>2, <1>3, <1>4, <1>5 DEF Told, ImportTypes, Known, Ids
<1>7. ASSUME NEW k \in Tasks PROVE HandlerFits(k)'
  <2>1. CASE k = t
    BY <1>1, <1>2, <1>3, <1>5, <2>1 DEF Told, HandlerFits, Answered, Known, Ids, ImportTypes
  <2>2. CASE k # t
    BY <1>1, <1>2, <1>5, <2>2, StaysFitted DEF Told, Known, Ids
  <2> QED BY <2>1, <2>2
<1>8. OneAtATime'
  BY <1>1, <1>2, <1>3, <1>5, BesideStay DEF Told, OneAtATime, ReadsFile, Submits, Asking
<1>9. RowsFit'
  <2>1. \A k \in Tasks \ {t} : Fitting(k)'
    BY <1>1, <1>2, <1>5, StaysFitting DEF Told
  <2>2. Fitting(t)'
    BY <1>1, <1>2, <1>3, <1>5
       DEF Told, Fitting, Holds, Answered, Asking, Confirming, HandlerFits, RowsFit
  <2>3. screen'.staged # None /\ screen'.gpx # None =>
           rows'[screen'.staged] \in {None, screen'.gpx}
    BY <1>1, <1>2 DEF RowsFit, ImportTypes
  <2> QED BY <2>1, <2>2, <2>3 DEF RowsFit, Fitting, Parked
<1>10. RowsWatched'
  <2> SUFFICES ASSUME NEW i \in Parked, rows'[i] # None,
                      rows'[i] \notin unheard', i # screen'.staged
               PROVE  \E k \in Tasks : Holds(k, i)'
    BY <1>1, <1>2, <1>3, <1>5 DEF RowsWatched, Parked
  <2>1. CASE \E k \in Tasks \ {t} : Holds(k, i)
    BY <1>1, <1>2, <1>3, <1>5, <2>1, BesideStay DEF Told
  <2>2. CASE ~\E k \in Tasks \ {t} : Holds(k, i)
    BY <1>1, <1>2, <1>3, <1>5, <2>2
       DEF Told, RowsWatched, RowsFit, Holds, Answered, Asking, HandlerFits
  <2> QED BY <2>1, <2>2
<1>11. ASSUME NEW c \in (Known \ unheard)' PROVE InOnePlace(c)'
  <2>1. c \in Known \ unheard /\ InOnePlace(c)
    BY <1>1, <1>2 DEF Known
  <2>2. Untouched(c)
    BY <1>1, <1>4, <2>1 DEF Untouched, InOnePlace, Becomes
  <2>3. Carries(t, c)
    BY <1>1, <1>2, <1>3, <1>5, ToldCarries
  <2> QED BY <1>2, <1>5, <2>1, <2>2, <2>3, StaysInPlace DEF Told
<1> QED BY <1>6, <1>7, <1>8, <1>9, <1>10, <1>11 DEF ImportInductive

\* A request left behind comes to nothing.
LEMMA VanishKeeps ==
    ASSUME ImportInductive, NEW t \in Tasks, Vanish(t)
    PROVE  ImportInductive'
<1>1. task[t] # None /\ task[t].gone /\ screen' = screen /\ form' = form
      /\ rows' = rows /\ lastId' = lastId /\ made' = made /\ chosen' = chosen
      /\ unheard' = unheard
  BY DEF Vanish, archive
<1>2. /\ \A k \in Tasks : HandlerFits(k)
      /\ ImportTypes /\ OneAtATime /\ RowsFit /\ RowsWatched
      /\ \A c \in Known \ unheard : InOnePlace(c)
  BY DEF ImportInductive
<1>3. task[t] \in Errand /\ HandlerFits(t)
  BY <1>1, <1>2 DEF ImportTypes
<1>4. task' \in [Tasks -> Errand \cup {None}] /\ task'[t] = None /\ Beside(t)
  BY <1>2, GoesOn DEF Vanish
<1>5. ImportTypes'
  BY <1>1, <1>2, <1>3, ErrandsTyped, <1>4 DEF ImportTypes, Signals, Known, Ids
<1>6. ASSUME NEW k \in Tasks PROVE HandlerFits(k)'
  <2>1. CASE k = t
    BY <1>1, <1>2, <1>3, ErrandsTyped, <1>4, <2>1 DEF HandlerFits, Answered, Known, Ids
  <2>2. CASE k # t
    BY <1>1, <1>2, <1>4, <2>2, StaysFitted DEF Known, Ids
  <2> QED BY <2>1, <2>2
<1>7. OneAtATime'
  BY <1>1, <1>2, <1>3, ErrandsTyped, <1>4, BesideStay
     DEF OneAtATime, ReadsFile, Submits, Asking, Confirming, HandlerFits
<1>8. RowsFit'
  <2>1. \A k \in Tasks \ {t} : Fitting(k)'
    BY <1>1, <1>2, <1>4, StaysFitting DEF OneAtATime, Submits, Confirming, Asking, RowsFit
  <2>2. Fitting(t)'
    BY <1>1, <1>2, <1>3, ErrandsTyped, <1>4
       DEF Fitting, Holds, Answered, Asking, Confirming, HandlerFits, RowsFit
  <2>3. screen'.staged # None /\ screen'.gpx # None =>
           rows'[screen'.staged] \in {None, screen'.gpx}
    BY <1>1, <1>2, <1>3, ErrandsTyped, <1>4 DEF RowsFit
  <2> QED BY <2>1, <2>2, <2>3 DEF RowsFit, Fitting, Parked
<1>9. RowsWatched'
  <2> SUFFICES ASSUME NEW i \in Parked, rows[i] # None, rows[i] \notin unheard, i # screen'.staged
               PROVE  \E k \in Tasks : Holds(k, i)'
    BY <1>1, <1>2, <1>3, ErrandsTyped, <1>4 DEF RowsWatched
  <2>1. CASE \E k \in Tasks \ {t} : Holds(k, i)
    BY <1>1, <1>2, <1>3, ErrandsTyped, <1>4, <2>1, BesideStay
  <2>2. CASE i = screen.staged \/ Holds(t, i)
    BY <1>1, <1>2, <1>3, ErrandsTyped, <1>4, <2>2, ImportAssumption
       DEF Parked, RowsFit, Holds, Answered, Asking, Confirming, HandlerFits, OneAtATime,
           Submits
  <2> QED BY <1>2, <2>1, <2>2 DEF RowsWatched
<1>10. ASSUME NEW c \in (Known \ unheard)' PROVE InOnePlace(c)'
  <2>1. c \in Known \ unheard /\ InOnePlace(c) /\ c # None
    BY <1>1, <1>2, ImportAssumption DEF Known
  <2>2. Untouched(c)
    BY <1>1, <2>1 DEF Untouched, InOnePlace, Becomes
  <2>3. Carries(t, c)
    BY <1>1, <1>2, <1>3, ErrandsTyped, <1>4, <2>1
       DEF Carries, Asking, Bears, Done, Holds, Answered, Confirming, HandlerFits, RowsFit
  <2> QED BY <1>2, <1>4, <2>1, <2>2, <2>3, StaysInPlace
<1> QED BY <1>5, <1>6, <1>7, <1>8, <1>9, <1>10 DEF ImportInductive

\* Handlers untouched are what they were.
LEMMA TasksStay ==
    ASSUME task' = task
    PROVE  \A k \in Tasks :
              /\ Asking(k)' <=> Asking(k)
              /\ ReadsFile(k)' <=> ReadsFile(k)
              /\ Submits(k)' <=> Submits(k)
              /\ Confirming(k)' <=> Confirming(k)
              /\ Bears(k)' <=> Bears(k)
              /\ Done(k)' <=> Done(k)
              /\ \A how : Answered(k, how)' <=> Answered(k, how)
              /\ \A i : Holds(k, i)' <=> Holds(k, i)
BY DEF Asking, ReadsFile, Submits, Confirming, Bears, Done, Holds, Answered

\* The sweeper takes a row.
LEMMA SweepKeeps ==
    ASSUME ImportInductive, Sweep
    PROVE  ImportInductive'
<1>1. /\ task' = task /\ screen' = screen /\ form' = form /\ chosen' = chosen
      /\ lastId' = lastId /\ made' = made /\ unheard' = unheard
  BY DEF Sweep
<1>2. /\ \A k \in Tasks : HandlerFits(k)
      /\ ImportTypes /\ OneAtATime /\ RowsFit /\ RowsWatched
      /\ \A c \in Known \ unheard : InOnePlace(c)
  BY DEF ImportInductive
<1>3. /\ rows' \in [Parked -> Known \cup {None}]
      /\ \A i \in Parked : rows'[i] \in {rows[i], None}
  BY <1>2 DEF Sweep, ImportTypes
<1>4. Ids \subseteq Parked /\ Ids' = Ids /\ Known' = Known /\ Parked' = Parked
  BY <1>1, <1>2, IdsParked DEF Ids, Known, Parked
<1>5. ImportTypes'
  BY <1>1, <1>2, <1>3, <1>4 DEF ImportTypes
<1>6. ASSUME NEW k \in Tasks PROVE HandlerFits(k)'
  <2> SUFFICES ASSUME task[k] # None PROVE HandlerFits(k)'
    BY <1>1 DEF HandlerFits
  <2>1. HandlerFits(k)
    BY <1>2
  <2>2. task[k].at \in {"confirm", "reconfirm", "cancel"} =>
           rows'[task[k].id] \in {rows[task[k].id], None}
    BY <1>3, <1>4, <2>1 DEF HandlerFits
  <2>3. About(k)' \subseteq About(k)
    BY <1>1, <2>2 DEF About
  <2> QED BY <1>1, <1>4, <2>1, <2>3 DEF HandlerFits, Answered
<1>7. OneAtATime'
  BY <1>1, <1>2, TasksStay DEF OneAtATime
<1>8. RowsFit'
  <2>1. screen'.staged # None /\ screen'.gpx # None =>
           rows'[screen'.staged] \in {None, screen'.gpx}
    BY <1>1, <1>2, <1>3, <1>4 DEF RowsFit, ImportTypes
  <2>2. ASSUME NEW k \in Tasks, NEW i \in Parked, Holds(k, i)', task'[k].of # None
        PROVE  rows'[i] \in {None, task'[k].of}
    BY <1>1, <1>2, <1>3, <2>2, TasksStay DEF RowsFit
  <2>3. ASSUME NEW k \in Tasks, Asking(k)', task'[k].at \in {"confirm", "reconfirm", "cancel"}
        PROVE  rows'[task'[k].id] \in {rows[task[k].id], None}
    BY <1>1, <1>2, <1>3, <1>4, <2>3 DEF HandlerFits, Asking
  <2>4. ASSUME NEW k \in Tasks, Asking(k)', task'[k].at \in {"confirm", "reconfirm"},
               Answered(k, "ok")' \/ Answered(k, "not_found")'
        PROVE  rows'[task'[k].id] = None
    BY <1>1, <1>2, <2>3, <2>4, TasksStay DEF RowsFit
  <2>5. ASSUME NEW k \in Tasks, Asking(k)', task'[k].at = "cancel", task'[k].answer # None
        PROVE  rows'[task'[k].id] \in unheard' \cup {None}
    BY <1>1, <1>2, <2>3, <2>5, TasksStay DEF RowsFit
  <2>6. ASSUME NEW k \in Tasks, Confirming(k)'
        PROVE  /\ screen'.staged # None /\ screen'.gpx \in {None, task'[k].of}
               /\ IF task'[k].at = "confirm" THEN task'[k].id = screen'.staged
                  ELSE rows'[screen'.staged] = None
    <3>1. Confirming(k) /\ screen.staged \in Ids \cup {None}
      BY <1>1, <1>2, <2>6, TasksStay DEF ImportTypes
    <3> QED BY <1>1, <1>2, <1>3, <1>4, <3>1 DEF RowsFit
  <2> QED BY <2>1, <2>2, <2>4, <2>5, <2>6 DEF RowsFit, Parked
<1>9. RowsWatched'
  BY <1>1, <1>2, <1>3, TasksStay DEF RowsWatched, Parked
<1>10. ASSUME NEW c \in (Known \ unheard)' PROVE InOnePlace(c)'
  <2>1. c \in Known \ unheard /\ InOnePlace(c) /\ c # None
    BY <1>1, <1>2, <1>4, ImportAssumption DEF Known
  <2>2. \A i \in Parked : rows'[i] = c => rows[i] = c
    BY <1>3, <2>1
  <2>3. (Becomes(c)' <=> Becomes(c)) /\ DOMAIN made' = DOMAIN made
    BY <1>1 DEF Becomes
  <2> QED BY <1>1, <1>4, <2>1, <2>2, <2>3, TasksStay DEF InOnePlace
<1> QED BY <1>5, <1>6, <1>7, <1>8, <1>9, <1>10 DEF ImportInductive

\* A collection is dropped.
LEMMA DropCollectionKeeps ==
    ASSUME ImportInductive, DropCollection
    PROVE  ImportInductive'
<1>1. /\ task' = task /\ chosen' = chosen /\ rows' = rows
      /\ lastId' = lastId /\ made' = made /\ unheard' = unheard
      /\ screen.staged = None /\ ~screen.submitting
  BY DEF DropCollection, archive
<1>2. /\ \A k \in Tasks : HandlerFits(k)
      /\ ImportTypes /\ OneAtATime /\ RowsFit /\ RowsWatched
      /\ \A c \in Known \ unheard : InOnePlace(c)
  BY DEF ImportInductive
<1>3. screen' = [screen EXCEPT !.gpx = None, !.collection = None] /\ form' \in {form, NoPhotos}
  BY DEF DropCollection, Shows
<1>4. form' \in [picked : Nat, read : Nat \cup {None}, reading : BOOLEAN]
  BY <1>2, <1>3, NoPhotosTyped DEF ImportTypes
<1>5. /\ screen' \in Signals /\ screen'.staged = None /\ screen'.gpx = None
      /\ screen'.collection = None
      /\ screen'.reading = screen.reading /\ screen'.submitting = screen.submitting
  <2>1. PICK s \in Signals : screen = s
    BY <1>2 DEF ImportTypes, Signals
  <2>2. screen' = [s EXCEPT !.gpx = None, !.collection = None]
    BY <1>3, <2>1
  <2> QED BY <1>1, <2>1, <2>2 DEF Signals
<1>6. Ids' = Ids /\ Known' = Known
  BY <1>1 DEF Ids, Known
<1>7. ImportTypes'
  BY <1>1, <1>2, <1>4, <1>5, <1>6 DEF ImportTypes, Signals, Parked
<1>8. \A k \in Tasks : HandlerFits(k)'
  BY <1>1, <1>2, <1>6 DEF HandlerFits, Answered, About
<1>9. OneAtATime'
  BY <1>1, <1>2, <1>5, TasksStay DEF OneAtATime
<1>10. \A k \in Tasks : ~Confirming(k)
  BY <1>1, <1>2 DEF RowsFit
<1>11. RowsFit'
  BY <1>1, <1>2, <1>5, <1>10, TasksStay DEF RowsFit, Parked
<1>12. RowsWatched'
  BY <1>1, <1>2, <1>5, TasksStay DEF RowsWatched, Parked
<1>13. ASSUME NEW c \in (Known \ unheard)' PROVE InOnePlace(c)'
  <2>1. c \in Known \ unheard /\ InOnePlace(c) /\ c # None
    BY <1>1, <1>2, <1>6, ImportAssumption DEF Known
  <2>2. (Becomes(c)' <=> Becomes(c)) /\ DOMAIN made' = DOMAIN made
    BY <1>1 DEF Becomes
  <2> QED BY <1>1, <1>5, <2>1, <2>2, TasksStay DEF InOnePlace, Parked
<1> QED BY <1>7, <1>8, <1>9, <1>11, <1>12, <1>13 DEF ImportInductive

\* What is given up when the page is left.
LEMMA GivenUp ==
    ASSUME NEW t
    PROVE  /\ \A k \in Tasks \ {t} : About(k) \subseteq Pending(t)
           /\ screen.staged # None /\ rows[screen.staged] # None =>
                 rows[screen.staged] \in Pending(t)
           /\ \A c \in Pending(t) :
                 \/ \E k \in Tasks \ {t} : c \in About(k)
                 \/ screen.staged # None /\ c \in {rows[screen.staged], screen.gpx} /\ c # None
<1> DEFINE X == IF screen.staged = None THEN {} ELSE {rows[screen.staged], screen.gpx} \ {None}
           U == UNION {About(k) : k \in Tasks \ {t}}
<1>1. Pending(t) = U \cup X
  BY DEF Pending
<1>2. \A k \in Tasks \ {t} : About(k) \subseteq U
  OBVIOUS
<1>3. \A c \in U : \E k \in Tasks \ {t} : c \in About(k)
  OBVIOUS
<1>4. \A c : c \in X <=> screen.staged # None /\ c \in {rows[screen.staged], screen.gpx} /\ c # None
  OBVIOUS
<1> HIDE DEF U, X
<1> QED BY <1>1, <1>2, <1>3, <1>4

\* The page is left, by a click or by the handler that opens the next.
LEMMA LeftKeeps ==
    ASSUME ImportInductive, Left, NEW t, unheard' = unheard \cup Pending(t),
           t \in Tasks => /\ task[t] # None /\ task[t].answer # None
                          /\ \A i \in Parked : Holds(t, i) => rows[i] = None
    PROVE  ImportInductive'
<1>1. /\ screen' = Blank /\ form' = NoPhotos /\ chosen' = chosen /\ rows' = rows
      /\ lastId' = lastId /\ made' = made
      /\ unheard' = unheard \cup Pending(t)
  BY DEF Left, archive
<1>2. /\ \A k \in Tasks : HandlerFits(k)
      /\ ImportTypes /\ OneAtATime /\ RowsFit /\ RowsWatched
      /\ \A c \in Known \ unheard : InOnePlace(c)
  BY DEF ImportInductive
<1>3. Ids' = Ids /\ Known' = Known /\ Ids \subseteq Parked /\ Parked' = Parked
  BY <1>1, <1>2, IdsParked DEF Ids, Known, Parked
<1>4. ASSUME NEW k \in Tasks
      PROVE  /\ task'[k] \in Errand \cup {None}
             /\ task'[k] # None =>
                   /\ k # t /\ task[k] # None /\ task'[k].gone /\ task'[k].answer = None
                   /\ task'[k].do = task[k].do /\ task'[k].at = task[k].at
                   /\ task'[k].of = task[k].of /\ task'[k].id = task[k].id
  <2>1. task'[k] = IF task[k] = None \/ task[k].do = "pick" \/ task[k].answer # None THEN None
                   ELSE [task[k] EXCEPT !.gone = TRUE]
    BY DEF Left
  <2>2. CASE task[k] = None \/ task[k].do = "pick" \/ task[k].answer # None
    BY <2>1, <2>2
  <2>3. CASE ~(task[k] = None \/ task[k].do = "pick" \/ task[k].answer # None)
    <3>1. PICK h \in Errand : h = task[k]
      BY <1>2, <2>3 DEF ImportTypes
    <3>2. PICK b \in BOOLEAN : b = TRUE
      OBVIOUS
    <3>3. task'[k] = [h EXCEPT !.gone = b]
      BY <2>1, <2>3, <3>1, <3>2
    <3>4. /\ task'[k] \in Errand /\ task'[k].gone = b /\ task'[k].answer = h.answer
          /\ task'[k].do = h.do /\ task'[k].at = h.at /\ task'[k].of = h.of /\ task'[k].id = h.id
      BY <3>3 DEF Errand
    <3> QED BY <2>3, <3>1, <3>2, <3>4
  <2> QED BY <2>2, <2>3
<1>5. task' \in [Tasks -> Errand \cup {None}]
  <2>1. task' = [k \in Tasks |-> task'[k]]
    BY DEF Left
  <2> QED BY <1>4, <2>1
<1>6. \A k \in Tasks : ~Asking(k)'
  BY <1>4 DEF Asking
<1>7. /\ screen'.staged = None /\ screen'.gpx = None /\ screen'.collection = None
      /\ screen'.reading = FALSE /\ screen'.submitting = FALSE /\ screen' \in Signals
  <2>1. PICK b \in BOOLEAN : b = FALSE
    OBVIOUS
  <2> QED BY <1>1, <2>1 DEF Blank, Signals
<1>8. Pending(t) \subseteq Known
  <2>1. \A k \in Tasks \ {t} : About(k) \subseteq Known
    BY <1>2, HeldIsKnown
  <2>2. screen.staged # None => {rows[screen.staged], screen.gpx} \ {None} \subseteq Known
    BY <1>2, <1>3 DEF ImportTypes
  <2> QED BY <2>1, <2>2, GivenUp
<1>9. ImportTypes'
  BY <1>1, <1>2, <1>3, <1>5, <1>7, <1>8, NoPhotosTyped DEF ImportTypes, Signals
<1>10. ASSUME NEW k \in Tasks PROVE HandlerFits(k)'
  <2> SUFFICES ASSUME task'[k] # None PROVE HandlerFits(k)'
    BY DEF HandlerFits
  <2>1. HandlerFits(k) /\ task[k] # None /\ k # t
    BY <1>2, <1>4
  <2>2. About(k)' = About(k)
    BY <1>1, <1>4, <2>1 DEF About
  <2>3. About(k) \subseteq unheard'
    BY <1>1, <2>1, GivenUp
  <2> QED BY <1>3, <1>4, <2>1, <2>2, <2>3 DEF HandlerFits, Answered
<1>11. OneAtATime'
  BY <1>6, <1>7 DEF OneAtATime, ReadsFile, Submits
<1>12. RowsFit'
  BY <1>6, <1>7 DEF RowsFit, Holds, Confirming
<1>13. RowsWatched'
  <2> SUFFICES ASSUME NEW i \in Parked, rows[i] # None, rows[i] \notin unheard'
               PROVE  FALSE
    BY <1>1, <1>3 DEF RowsWatched
  <2>1. rows[i] \notin unheard
    BY <1>1
  <2>2. CASE i = screen.staged
    <3>1. screen.staged # None
      BY <2>2, ImportAssumption DEF Parked
    <3> QED BY <1>1, <2>2, <3>1, GivenUp
  <2>3. ASSUME NEW k \in Tasks, Holds(k, i) PROVE FALSE
    <3>1. CASE k = t
      BY <2>3, <3>1
    <3>2. CASE k # t
      <4>1. rows[i] \in About(k)
        BY <1>2, <2>3, HeldIsKnown
      <4> QED BY <1>1, <3>2, <4>1, GivenUp
    <3> QED BY <3>1, <3>2
  <2> QED BY <1>2, <2>1, <2>2, <2>3 DEF RowsWatched
<1>14. ASSUME NEW c \in (Known \ unheard)' PROVE InOnePlace(c)'
  <2>1. c \in Known \ unheard /\ InOnePlace(c) /\ c # None
    BY <1>1, <1>2, <1>3, ImportAssumption DEF Known
  <2>2. (Becomes(c)' <=> Becomes(c)) /\ DOMAIN made' = DOMAIN made
    BY <1>1 DEF Becomes
  <2> QED BY <1>1, <1>3, <1>6, <1>7, <2>1, <2>2 DEF InOnePlace, Bears, Confirming
<1> QED BY <1>9, <1>10, <1>11, <1>12, <1>13, <1>14 DEF ImportInductive

LEMMA LeaveKeeps ==
    ASSUME ImportInductive, Leave
    PROVE  ImportInductive'
BY LeftKeeps, ImportAssumption DEF Leave

LEMMA OpensKeeps ==
    ASSUME ImportInductive, NEW t \in Tasks, Opens(t)
    PROVE  ImportInductive'
<1>1. /\ task[t] # None /\ task[t].answer # None /\ ~task[t].gone /\ Answered(t, "ok")
      /\ task[t].at \in {"confirm", "reconfirm", "photos", "create"}
      /\ Left /\ unheard' = unheard \cup Pending(t)
  BY DEF Opens, At, Answered
<1>2. RowsFit
  BY DEF ImportInductive
<1>3. ASSUME NEW i \in Parked, Holds(t, i) PROVE rows[i] = None
  BY <1>1, <1>2, <1>3 DEF RowsFit, Holds, Asking
<1> QED BY <1>1, <1>3, LeftKeeps

\* The page as it starts, in an archive with nothing parked.
LEMMA ImportStarts == ImportInit => ImportInductive
<1> SUFFICES ASSUME ImportInit PROVE ImportInductive
  OBVIOUS
<1>1. /\ screen = Blank /\ form = NoPhotos /\ task = [t \in Tasks |-> None]
      /\ rows = [i \in Parked |-> None] /\ lastId = 0
      /\ made = <<>> /\ chosen = 0 /\ unheard = {}
  BY DEF ImportInit
<1>2. /\ screen.staged = None /\ screen.gpx = None /\ screen.collection = None
      /\ screen.reading = FALSE /\ screen.submitting = FALSE /\ screen \in Signals
  <2>1. PICK b \in BOOLEAN : b = FALSE
    OBVIOUS
  <2> QED BY <1>1, <2>1 DEF Blank, Signals
<1>3. \A t \in Tasks : task[t] = None /\ ~Asking(t)
  BY <1>1 DEF Asking
<1>4. made \in Seq([of : Nat, photos : Nat]) /\ DOMAIN made = {}
  BY <1>1
<1>5. Known = {}
  BY <1>1 DEF Known
<1>6. ImportTypes
  BY <1>1, <1>2, <1>4, NoPhotosTyped, ImportAssumption DEF ImportTypes, Signals
<1>7. \A t \in Tasks : HandlerFits(t)
  BY <1>3 DEF HandlerFits
<1>8. OneAtATime
  BY <1>2, <1>3 DEF OneAtATime, ReadsFile, Submits
<1>9. RowsFit /\ RowsWatched
  BY <1>1, <1>2, <1>3 DEF RowsFit, RowsWatched, Holds, Confirming
<1> QED BY <1>5, <1>6, <1>7, <1>8, <1>9 DEF ImportInductive

\* Untouched, it is what it was.
LEMMA ImportRests ==
    ASSUME ImportInductive, UNCHANGED importing
    PROVE  ImportInductive'
<1>1. /\ screen' = screen /\ form' = form /\ task' = task /\ rows' = rows
      /\ lastId' = lastId /\ made' = made /\ chosen' = chosen /\ unheard' = unheard
  BY DEF importing
<1>2. /\ \A k \in Tasks : HandlerFits(k)
      /\ ImportTypes /\ OneAtATime /\ RowsFit /\ RowsWatched
      /\ \A c \in Known \ unheard : InOnePlace(c)
  BY DEF ImportInductive
<1>3. Ids' = Ids /\ Known' = Known /\ Parked' = Parked
  BY <1>1 DEF Ids, Known, Parked
<1>4. ImportTypes'
  BY <1>1, <1>2, <1>3 DEF ImportTypes
<1>5. \A k \in Tasks : HandlerFits(k)'
  BY <1>1, <1>2, <1>3 DEF HandlerFits, Answered, About
<1>6. OneAtATime' /\ RowsFit' /\ RowsWatched'
  BY <1>1, <1>2, <1>3, TasksStay DEF OneAtATime, RowsFit, RowsWatched
<1>7. ASSUME NEW c \in (Known \ unheard)' PROVE InOnePlace(c)'
  <2>1. c \in Known \ unheard /\ InOnePlace(c)
    BY <1>1, <1>2, <1>3
  <2>2. (Becomes(c)' <=> Becomes(c)) /\ DOMAIN made' = DOMAIN made
    BY <1>1 DEF Becomes
  <2> QED BY <1>1, <1>3, <2>1, <2>2, TasksStay DEF InOnePlace
<1> QED BY <1>4, <1>5, <1>6, <1>7 DEF ImportInductive

\* The owner's clicks.
LEMMA ImportClicksKeep ==
    ASSUME ImportInductive, ImportClick
    PROVE  ImportInductive'
<1>1. CASE DropCollection
  BY <1>1, DropCollectionKeeps
<1>2. CASE \E t \in Tasks : \/ ChooseTrip(t) \/ ChooseCollection(t) \/ PickPhotos(t)
                            \/ Confirm(t) \/ ConfirmCollection(t) \/ StartOver(t)
  <2> SUFFICES ASSUME NEW t \in Tasks,
                      \/ ChooseTrip(t) \/ ChooseCollection(t) \/ PickPhotos(t)
                      \/ Confirm(t) \/ ConfirmCollection(t) \/ StartOver(t)
               PROVE  ImportInductive'
    BY <1>2
  <2> QED BY ChooseTripKeeps, ChooseCollectionKeeps, PickPhotosKeeps, ConfirmKeeps,
             ConfirmCollectionKeeps, StartOverKeeps
<1> QED BY <1>1, <1>2 DEF ImportClick

\* The handlers, as their answers come.
LEMMA ImportHandlersKeep ==
    ASSUME ImportInductive, ImportHandler
    PROVE  ImportInductive'
<1> SUFFICES ASSUME NEW t \in Tasks,
                    \/ ShowParked(t) \/ ShowPreview(t) \/ PhotosRead(t)
                    \/ Restage(t) \/ Reconfirm(t) \/ NotImported(t)
                    \/ UploadPhotos(t) \/ NextBatch(t) \/ ShowPartial(t)
                    \/ CollectionRefused(t) \/ StartedOver(t)
             PROVE  ImportInductive'
  BY DEF ImportHandler
<1>1. CASE ShowParked(t)
  BY <1>1, ShowParkedOkKeeps, ShowRefusedKeeps
<1>2. CASE ShowPreview(t)
  BY <1>2, ShowPreviewOkKeeps, PreviewRefusedKeeps
<1>3. CASE PhotosRead(t) \/ Restage(t) \/ Reconfirm(t) \/ NotImported(t)
  BY <1>3, PhotosReadKeeps, RestageKeeps, ReconfirmKeeps, NotImportedKeeps
<1>4. CASE \/ UploadPhotos(t) \/ NextBatch(t) \/ ShowPartial(t)
           \/ CollectionRefused(t) \/ StartedOver(t)
  BY <1>4, UploadPhotosKeeps, NextBatchKeeps, ShowPartialKeeps, CollectionRefusedKeeps,
     StartedOverKeeps
<1> QED BY <1>1, <1>2, <1>3, <1>4

\* The archive, which answers.
LEMMA ImportArchiveKeeps ==
    ASSUME ImportInductive, ImportArchive
    PROVE  ImportInductive'
<1>1. CASE Sweep
  BY <1>1, SweepKeeps
<1>2. ASSUME NEW t \in Tasks,
             \/ Park(t) \/ MakeTrip(t) \/ MakeCollection(t) \/ Preview(t)
             \/ AddPhotos(t) \/ CancelRow(t) \/ Refuse(t) \/ Lose(t) \/ Vanish(t)
      PROVE  ImportInductive'
  <2>1. CASE Park(t) \/ MakeCollection(t) \/ Preview(t) \/ AddPhotos(t)
    BY <2>1, ParkKeeps, MakeCollectionKeeps, PreviewKeeps, AddPhotosKeeps
  <2>2. CASE MakeTrip(t)
    BY <2>2, TripNotFoundKeeps, MakeTripKeeps
  <2>3. CASE Refuse(t)
    BY <2>3, RefuseKeeps, RefuseCancelKeeps
  <2>4. CASE CancelRow(t) \/ Lose(t) \/ Vanish(t)
    BY <2>4, CancelRowKeeps, LoseKeeps, VanishKeeps
  <2> QED BY <1>2, <2>1, <2>2, <2>3, <2>4
<1> QED BY <1>1, <1>2 DEF ImportArchive

\* No step of the browser undoes what the import screen's proofs rest on.
LEMMA ImportStays ==
    ASSUME ImportInductive, [BrowserNext]_vars
    PROVE  ImportInductive'
<1>1. CASE UNCHANGED importing
  BY <1>1, ImportRests
<1>2. CASE ImportClick \/ ImportHandler \/ ImportArchive
  BY <1>2, ImportClicksKeep, ImportHandlersKeep, ImportArchiveKeeps
<1>3. CASE LeaveImport
  BY <1>3, LeaveKeeps, OpensKeeps DEF LeaveImport
<1>4. \/ UNCHANGED importing \/ LeaveImport
      \/ ImportClick \/ ImportHandler \/ ImportArchive
  <2>1. CASE UNCHANGED vars
    BY <2>1 DEF vars
  <2>2. CASE OpenList \/ OpenImport \/ OpenTrip \/ LeaveList \/ LeaveTrip \/ TripDeleted
    BY <2>2 DEF OpenList, OpenImport, OpenTrip, LeaveList, LeaveTrip, TripDeleted
  <2>3. CASE OnImport \/ OnList \/ OnTrip
    BY <2>3 DEF OnImport, OnList, OnTrip
  <2>4. CASE Archive
    BY <2>4 DEF Archive
  <2> QED BY <2>1, <2>2, <2>3, <2>4 DEF BrowserNext
<1> QED BY <1>1, <1>2, <1>3, <1>4

\* Of every screen of the browser and every answer of the archive, in any
\* order, the import screen stays sound (import.rs, staging.rs).
THEOREM ImportScreenStaysSound == BrowserSpec => []ImportInductive
<1>1. BrowserInit => ImportInductive
  BY ImportStarts DEF BrowserInit
<1>2. ImportInductive /\ [BrowserNext]_vars => ImportInductive'
  BY ImportStays
<1> QED BY <1>1, <1>2, PTL DEF BrowserSpec

LEMMA SoundImportsOnce == ImportInductive => ImportedOnce
<1> SUFFICES ASSUME ImportInductive, NEW c \in ChosenFiles \ unheard
             PROVE  Cardinality({k \in DOMAIN made : made[k].of = c}) <= 1
  BY DEF ImportedOnce
<1> DEFINE K == {k \in DOMAIN made : made[k].of = c}
<1>1. \A j, k \in K : j = k
  <2>1. CASE c \in Known
    BY <2>1 DEF ImportInductive, InOnePlace
  <2>2. CASE c \notin Known
    BY <2>2 DEF ImportInductive, ImportTypes
  <2> QED BY <2>1, <2>2
<1>2. CASE K = {}
  BY <1>2, FS_EmptySet
<1>3. CASE K # {}
  <2>1. PICK k \in K : K = {k}
    BY <1>1, <1>3
  <2>2. Cardinality(K) = 1
    BY <2>1, FS_Singleton
  <2> QED BY <2>2
<1> QED BY <1>2, <1>3

\* A chosen file becomes one trip or collection at most, however often it is
\* confirmed, parked again and refused, unless an answer about it was lost.
THEOREM FilesAreImportedOnce == BrowserSpec => []ImportedOnce
BY ImportScreenStaysSound, SoundImportsOnce, PTL

LEMMA SoundLeavesNothing == ImportInductive => NothingLeftParked
<1> SUFFICES ASSUME ImportInductive, \A t \in Tasks : task[t] = None \/ task[t].do = "pick",
                    NEW i \in Parked, rows[i] # None
             PROVE  i = screen.staged \/ rows[i] \in unheard
  BY DEF NothingLeftParked
<1>1. ASSUME NEW t \in Tasks PROVE ~Holds(t, i)
  BY DEF ImportInductive, HandlerFits, Holds, Asking
<1> QED BY <1>1 DEF ImportInductive, RowsWatched

\* Once nothing is under way, the archive holds no parse but the one on the
\* screen, and those of files an answer was lost about or that were left.
THEOREM NothingStaysParked == BrowserSpec => []NothingLeftParked
BY ImportScreenStaysSound, SoundLeavesNothing, PTL
=============================================================================
