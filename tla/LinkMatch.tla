-------------------------------- MODULE LinkMatch --------------------------------
(***************************************************************************)
(* Whether a trip followed a plan (server/link_match.rs, ADR-0030): how    *)
(* much of the plan's line the trip covered and how much of the trip ran   *)
(* on the plan, or how many of the plan's own points it reached.  Lines    *)
(* run along the axes and their corners lie whole pieces apart, so that    *)
(* lengths are whole numbers.  The plane is flat: the code projects both   *)
(* lines around the plan's first point, so a reversed plan is measured on  *)
(* another plane, which is not modelled.                                   *)
(***************************************************************************)
EXTENDS LineGrid, SequencesExt

CONSTANTS
    Piece,  \* what lines are measured in; even, so that its middle is a position
    Rules   \* the thresholds, shares in percent

\* Where a line may have its corners, and the lines that run along the axes.
Crossings == {p \in Int \X Int : p[1] % Piece = 0 /\ p[2] % Piece = 0}
AlongAxes(line) ==
    \A k \in 2 .. Len(line) : line[k][1] = line[k - 1][1] \/ line[k][2] = line[k - 1][2]

Between(a, b) == Size(b[1] - a[1]) + Size(b[2] - a[2])

\* A segment's pieces, each near another line or not as its middle is; one of
\* no length where two points coincide.
Pieces(a, b) ==
    IF a = b THEN <<[middle |-> a, length |-> 0]>>
    ELSE [i \in 1 .. Between(a, b) \div Piece |->
             [middle |-> <<a[1] + Towards(b[1] - a[1]) * (Piece * i - Piece \div 2),
                           a[2] + Towards(b[2] - a[2]) * (Piece * i - Piece \div 2)>>,
              length |-> Piece]]

\* A stretch ends where the line leaves the other, and where it ends.
CloseStretch(run) ==
    [run EXCEPT !.covered = IF run.stretch >= Rules.minStretch THEN @ + run.stretch ELSE @,
                !.stretch = 0]
\* Mutant: a stretch is counted only when the line leaves the other.
StretchLost(run) == [run EXCEPT !.stretch = 0]
LastStretch(run) == CloseStretch(run)

\* The pieces of a line, up to each of its points.
PiecesOf(line) ==
    LET upTo[i \in DOMAIN line] ==
            IF i = 1 THEN <<>> ELSE upTo[i - 1] \o Pieces(line[i - 1], line[i])
    IN upTo

\* The next piece, near the other line or not.
Measure(run, piece, isNear) ==
    LET on == [run EXCEPT !.length = @ + piece.length]
    IN IF isNear THEN [on EXCEPT !.stretch = @ + piece.length] ELSE CloseStretch(on)

\* By each of a line's pieces.
RunAlong(pieces, near, tolerance) ==
    LET run[k \in 0 .. Len(pieces)] ==
            IF k = 0 THEN [covered |-> 0, length |-> 0, stretch |-> 0]
            ELSE Measure(run[k - 1], pieces[k], Reaches(near, tolerance, pieces[k].middle))
    IN run

\* How much of a line runs near another, counting only long stretches.
Along(line, near, tolerance) ==
    LET pieces == PiecesOf(line)[Len(line)]
    IN LastStretch(RunAlong(pieces, near, tolerance)[Len(pieces)])

\* A line of no length has no share of it covered.
ShareOf(run, percent) == run.length > 0 /\ 100 * run.covered >= percent * run.length

\* How far along a line each of its points is.
Walked(line) ==
    LET far[k \in DOMAIN line] ==
            IF k = 1 THEN 0 ELSE far[k - 1] + Between(line[k - 1], line[k])
    IN far

\* The runs of the plan's points in a row that the trip reached.
LongRun(plan, reached) ==
    \E i, j \in 1 .. Len(plan) :
        /\ i <= j /\ i .. j \subseteq reached
        /\ j - i + 1 >= Rules.minPointRun
        /\ Walked(plan)[j] - Walked(plan)[i] >= Rules.minCovered

\* followed: "none", or how it was judged, with the coverage.
Followed(trip, plan) ==
    IF Len(plan) = 0 \/ Len(trip) < 2 THEN [judged |-> "none"] ELSE
    LET planRun == Along(plan, trip, Rules.lineTolerance)
        tripRun == Along(trip, plan, Rules.lineTolerance)
        reached == {i \in DOMAIN plan : Reaches(trip, Rules.pointTolerance, plan[i])}
        byLine == \/ ShareOf(planRun, Rules.planCovered)
                  \/ ShareOf(tripRun, Rules.tripOnPlan) /\ planRun.covered >= Rules.minCovered
                  \/ planRun.covered >= Rules.minShared
        mostReached == /\ Cardinality(reached) >= Rules.minPointRun
                       /\ 100 * Cardinality(reached) >= Rules.pointsReached * Len(plan)
        inBand == /\ LongRun(plan, reached)
                  /\ ShareOf(Along(trip, plan, Rules.band), Rules.tripOnPlan)
    IN IF byLine \/ mostReached \/ inBand
       THEN [judged |-> IF byLine THEN "line" ELSE "points",
             planCovered |-> planRun, tripOnPlan |-> tripRun,
             pointsReached |-> Cardinality(reached)]
       ELSE [judged |-> "none"]
=============================================================================
