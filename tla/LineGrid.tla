-------------------------------- MODULE LineGrid --------------------------------
(***************************************************************************)
(* Whether a point lies near a line (server/line_grid.rs): the line's      *)
(* segments filed in a grid of tolerance-sized cells, so that a point      *)
(* looks only at those in its own and the neighbouring cells.  Positions   *)
(* are whole numbers on the flat projection; fractions of them, which the  *)
(* code rounds, are compared exactly.                                      *)
(***************************************************************************)
EXTENDS Integers, Sequences, FiniteSets

Size(n) == IF n < 0 THEN -n ELSE n
Towards(d) == IF d > 0 THEN 1 ELSE IF d < 0 THEN -1 ELSE 0

\* A line of one point is a place.
Segments(line) ==
    IF Len(line) = 1 THEN {<<line[1], line[1]>>}
    ELSE {<<line[i], line[i + 1]>> : i \in 1 .. Len(line) - 1}

\* Rounded down, below zero too.
CellOf(p, cell) == <<p[1] \div cell, p[2] \div cell>>

\* Mutant: the boundary behind, whichever way the segment goes.
BoundaryBehind(from, d, cell) == ((from \div cell) * cell - from) * Towards(d)
\* How far it is to the first boundary a segment crosses on an axis, as
\* |d| parts of the segment.
FirstBoundary(from, d, cell) ==
    (((from \div cell) + (IF d > 0 THEN 1 ELSE 0)) * cell - from) * Towards(d)

\* The walk goes on across the boundary it comes to first; through a corner it
\* touches both cells beside it.  `next` is how far the next boundary is on each
\* axis, in parts of the segment.
Across(d, cell, w) ==
    LET x == w.next[1] * Size(d[2])  \* brought to one denominator
        y == w.next[2] * Size(d[1])
        aside == <<w.at[1] + Towards(d[1]), w.at[2]>>
        ahead == <<w.at[1], w.at[2] + Towards(d[2])>>
        beside == IF d[1] # 0 /\ d[2] # 0 /\ x = y THEN {aside, ahead} ELSE {}
    IN IF d[2] = 0 \/ (d[1] # 0 /\ x < y)
       THEN [at |-> aside, filed |-> w.filed \cup beside \cup {aside},
             next |-> <<w.next[1] + cell, w.next[2]>>]
       ELSE [at |-> ahead, filed |-> w.filed \cup beside \cup {ahead},
             next |-> <<w.next[1], w.next[2] + cell>>]

\* As many steps as there are boundaries between the two cells.
Boundaries(a, b, cell) ==
    LET first == CellOf(a, cell)
        last == CellOf(b, cell)
    IN Size(last[1] - first[1]) + Size(last[2] - first[2])
GridWalk(a, b, cell) ==
    LET d == <<b[1] - a[1], b[2] - a[2]>>
        walk[n \in 0 .. Boundaries(a, b, cell)] ==
            IF n = 0
            THEN [at |-> CellOf(a, cell), filed |-> {CellOf(a, cell)},
                  next |-> <<FirstBoundary(a[1], d[1], cell), FirstBoundary(a[2], d[2], cell)>>]
            ELSE Across(d, cell, walk[n - 1])
    IN walk

\* The cells a segment passes through, from boundary to boundary.
SegmentCells(a, b, cell) ==
    GridWalk(a, b, cell)[Boundaries(a, b, cell)].filed \cup {CellOf(b, cell)}

\* to_segment: p is within the tolerance of the segment's nearest point.
NearSegment(p, a, b, tolerance) ==
    LET d == <<b[1] - a[1], b[2] - a[2]>>
        u == <<p[1] - a[1], p[2] - a[2]>>
        v == <<p[1] - b[1], p[2] - b[2]>>
        length == d[1] * d[1] + d[2] * d[2]
        along == u[1] * d[1] + u[2] * d[2]
        across == u[1] * d[2] - u[2] * d[1]
        reach == tolerance * tolerance
    IN IF length = 0 \/ along <= 0 THEN u[1] * u[1] + u[2] * u[2] <= reach
       ELSE IF along >= length THEN v[1] * v[1] + v[2] * v[2] <= reach
       ELSE across * across <= reach * length

\* SegmentGrid::reaches; the cells are the tolerance's size, which is a metre
\* at least.
Reaches(line, tolerance, p) ==
    LET here == CellOf(p, tolerance)
        around == (here[1] - 1 .. here[1] + 1) \X (here[2] - 1 .. here[2] + 1)
    IN \E s \in Segments(line) :
         /\ SegmentCells(s[1], s[2], tolerance) \cap around # {}
         /\ NearSegment(p, s[1], s[2], tolerance)

\* The same without the grid.
LiesNear(line, tolerance, p) ==
    \E s \in Segments(line) : NearSegment(p, s[1], s[2], tolerance)
=============================================================================
