---------------------------------- MODULE Climbs ----------------------------------
(***************************************************************************)
(* The climbs of a track (server/climbs.rs, US-81): the stretches whose    *)
(* smoothed elevation rises from a low point to a high one, and what is    *)
(* left of one when its gentle ends are cut off.  Elevations and distances *)
(* are whole numbers, so the averaging's rounding is none.                 *)
(***************************************************************************)
EXTENDS Integers, Sequences

CONSTANTS Rule  \* shares and gradients in percent

\* A fall that ends a climb that gained this much.
Ends(fall, gained) == fall > Rule.maxDip /\ 100 * fall > Rule.maxDipShare * gained

\* Mutant: a point lower than where the climb started is taken for a dip.
KeepsLow(heights, on, k) == on.high = on.low
\* Not climbing yet, or fallen below where it started.
StartsLower(heights, on, k) == on.high = on.low \/ heights[k] < heights[on.low]

\* The next point: it moves the top on, ends a climb, or moves the low point on.
Onward(heights, on, k) ==
    IF heights[k] > heights[on.high] THEN [on EXCEPT !.high = k]
    ELSE IF Ends(heights[on.high] - heights[k], heights[on.high] - heights[on.low])
    THEN [low |-> k, high |-> k, found |-> on.found \cup {<<on.low, on.high>>}]
    ELSE IF StartsLower(heights, on, k) THEN [on EXCEPT !.low = k, !.high = k]
    ELSE on

\* The low and the high point after each point, and the stretches found by then.
Walk(heights) ==
    LET on[k \in DOMAIN heights] ==
            IF k = 1 THEN [low |-> 1, high |-> 1, found |-> {}]
            ELSE Onward(heights, on[k - 1], k)
    IN on

\* The stretches, each from its low point to its top; the last to the end.
Stretches(heights) ==
    IF heights = <<>> THEN {}
    ELSE LET last == Walk(heights)[Len(heights)]
         IN last.found \cup {<<last.low, last.high>>}

\* trimmed: a gentle end longer than the tolerance is cut off; {} if the slope
\* is steep nowhere.
Trimmed(distance, heights, low, high) ==
    LET Steep(p, q) ==
            LET run == distance[q] - distance[p]
            IN run > 0 /\ 100 * (heights[q] - heights[p]) >= Rule.trimGradient * run
        Farthest(points, default) ==
            IF points = {} THEN default ELSE CHOOSE p \in points : \A q \in points : q <= p
        Nearest(points, default) ==
            IF points = {} THEN default ELSE CHOOSE p \in points : \A q \in points : p <= q
        Ahead(p) == Nearest({q \in p .. high : distance[q] >= distance[p] + Rule.trimWindow}, high)
        Behind(p) == Farthest({q \in low .. p : distance[q] <= distance[p] - Rule.trimWindow}, low)
        starts == {p \in low .. high - 1 : Steep(p, Ahead(p))}
        start == Nearest(starts, low)
        from == IF distance[start] - distance[low] > Rule.trimTolerance THEN start ELSE low
        ends == {p \in from + 1 .. high : Steep(Behind(p), p)}
        end == Farthest(ends, high)
        to == IF distance[high] - distance[end] > Rule.trimTolerance THEN end ELSE high
    IN IF starts = {} \/ ends = {} \/ from >= to THEN {} ELSE {<<from, to>>}
=============================================================================
