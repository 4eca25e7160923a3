---------------------------- MODULE TourLifecycle ----------------------------
(***************************************************************************)
(* What the archive promises about one Komoot tour (ADR-0021): it becomes  *)
(* a trip at most once, deleting that trip condemns it, and its link row   *)
(* is forgotten only when Komoot no longer holds it, so that no later pull *)
(* can bring the trip back.                                                *)
(***************************************************************************)
CONSTANT Tours

VARIABLES
    life,   \* the archive's side of each tour
    held    \* the tours Komoot holds

lvars == <<life, held>>

Stage == {"absent", "kept", "condemned", "gone"}

Init ==
    /\ life = [t \in Tours |-> "absent"]
    /\ held \subseteq Tours

Advance(t, from, to) ==
    /\ life[t] = from
    /\ life' = [life EXCEPT ![t] = to]
    /\ held' = held

Import(t) == Advance(t, "absent", "kept")
Condemn(t) == Advance(t, "kept", "condemned")
Forget(t) == t \notin held /\ Advance(t, "condemned", "gone")

\* Komoot loses the tour: the archive's delete call, or Komoot's own app.
Lose(t) == t \in held /\ held' = held \ {t} /\ life' = life

Next == \E t \in Tours : Import(t) \/ Condemn(t) \/ Forget(t) \/ Lose(t)

Spec == Init /\ [][Next]_lvars
=============================================================================
