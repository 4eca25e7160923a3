--------------------------------- MODULE Figures ---------------------------------
(***************************************************************************)
(* What the archive works out from a track, each against what it stands    *)
(* for: the lines a trip is matched by (LinkMatch), the instants its       *)
(* photos were taken at (Placement) and its climbs (Climbs).  An input     *)
(* grows by a point at a time, as it is drawn or recorded.                 *)
(***************************************************************************)
EXTENDS LinkMatch, Placement, Climbs

CONSTANTS
    Corners, Starts, Grids, \* positions of a segment's end and start, and tolerances
    Looked,                 \* positions looked at
    Places, Plans,          \* a trip's points, and the plans
    Times, Offsets, Zones,  \* a track's points, and its trip's zones
    Elevations, Distances,  \* a profile's
    MaxTrip, MaxTrack, MaxProfile  \* bounds: points

VARIABLES
    part,     \* of the input
    segment, trip, plan, track, heights

figures == <<part, segment, trip, plan, track, heights>>

ASSUME FiguresAssumption ==
    /\ Piece \in Nat \ {0} /\ Piece % 2 = 0
    /\ Starts \cup Corners \cup Looked \subseteq Int \X Int
    /\ Grids \cup {Rules.lineTolerance, Rules.pointTolerance, Rules.band} \subseteq Nat \ {0}
    /\ Places \subseteq Crossings /\ \A line \in Plans : line \in Seq(Crossings) /\ AlongAxes(line)
    /\ {MaxTrip, MaxTrack, MaxProfile} \subseteq Nat
    /\ Times \subseteq Int /\ Offsets \subseteq Int /\ Unknown \notin Int
    /\ WidestOffset \in Nat
    /\ Elevations \subseteq Int
    /\ Rule.maxDip \in Nat /\ Rule.maxDipShare \in 0 .. 100

FiguresInit ==
    /\ segment = <<>> /\ trip = <<>> /\ track = <<>> /\ heights = <<>>
    /\ \/ part = "segment" /\ plan = <<>>
       \/ part = "trip" /\ plan \in Plans
       \/ part = "track" /\ plan = <<>>
       \/ part = "profile" /\ plan = <<>>

DrawSegment ==
    /\ part = "segment" /\ Len(segment) < 2
    /\ \E p \in IF segment = <<>> THEN Starts ELSE Corners : segment' = Append(segment, p)
    /\ UNCHANGED <<part, trip, plan, track, heights>>

\* Along an axis, and on from the last point.
RecordTrip ==
    /\ part = "trip" /\ Len(trip) < MaxTrip
    /\ \E p \in Places :
         /\ trip # <<>> => p[1] = Last(trip)[1] \/ p[2] = Last(trip)[2]
         /\ trip' = Append(trip, p)
    /\ UNCHANGED <<part, segment, plan, track, heights>>

\* GPX does not promise times that grow.
RecordPoint ==
    /\ part = "track" /\ Len(track) < MaxTrack
    /\ \E t \in Times \cup {Unknown}, o \in Offsets \cup {Unknown} :
         track' = Append(track, [time |-> t, offset |-> o])
    /\ UNCHANGED <<part, segment, trip, plan, heights>>

RecordElevation ==
    /\ part = "profile" /\ Len(heights) < MaxProfile
    /\ \E h \in Elevations : heights' = Append(heights, h)
    /\ UNCHANGED <<part, segment, trip, plan, track>>

FiguresNext == DrawSegment \/ RecordTrip \/ RecordPoint \/ RecordElevation
FiguresSpec == FiguresInit /\ [][FiguresNext]_figures

----------------------------------------------------------------------------
\* Properties.

\* "The closest point of a segment within the tolerance lies in one of them"
\* (line_grid.rs): looking at the cells around a point misses no segment, and
\* "the direction either [trip or plan] went in does not matter"
\* (link_match.rs), on a flat plane.
JudgesWhatIsNear ==
    /\ segment # <<>> => \A p \in Looked, g \in Grids : Reaches(segment, g, p) = LiesNear(segment, g, p)
    /\ trip # <<>> =>
         /\ Followed(Reverse(trip), plan) = Followed(trip, plan)
         /\ Followed(trip, Reverse(plan)) = Followed(trip, plan)

\* The offset in force at an instant: of the last point at or before it whose
\* zone is known.
OffsetThen(points, t) ==
    LET known == {i \in DOMAIN points : points[i].time <= t /\ points[i].offset # Unknown}
    IN IF known = {} THEN 0 ELSE points[CHOOSE i \in known : \A j \in known : j <= i].offset

\* A photo taken at t by a clock set by the track, one whose camera wrote the
\* offset too and one whose offset is corrupt, against the instants at which that clock showed this.
PlacedRight(points, t, zone) ==
    LET during == points[1].time .. Last(points).time
        Clock(u) == u + OffsetThen(points, u)
        photo == [clock |-> Clock(t), embedded |-> Unknown, gps |-> FALSE]
        exact == [photo EXCEPT !.embedded = OffsetThen(points, t)]
        corrupt == [photo EXCEPT !.embedded = WidestOffset + 1]
        at == Earliest({u \in during : Clock(u) = Clock(t)})
        placed == ResolvePlacement(photo, points, zone)
    IN /\ CaptureInstant(photo, points, zone) = at
       /\ exact.embedded \in -WidestOffset .. WidestOffset => CaptureInstant(exact, points, zone) = t
       /\ CaptureInstant(corrupt, points, zone) = at
       /\ Len(points) > 1 =>
            /\ placed.source = "interpolated"
            /\ points[placed.between[1]].time <= at
            /\ at <= points[placed.between[2]].time

\* A photo taken on the track, by a clock that shows the time where it was, is
\* placed at an instant that clock showed this, the first of them, and so
\* where the track was then, whatever the trip's zone (US-64: "the point where
\* the clock the camera was set by read what it wrote"); one whose camera
\* wrote the offset too, at the instant it was taken, and one whose offset is
\* beyond every UTC offset ("treated the same as no embedded offset at all"), as
\* if it had none.
ReadsTheClock ==
    LET points == TimedPoints(track)
    IN points # <<>> =>
        \A t \in points[1].time .. Last(points).time, zone \in Zones : PlacedRight(points, t, zone)

\* A rise worth the name: from its lowest point to its highest, by more than a
\* dip's height and with no fall on the way that would end a climb.
Rises(i, j) ==
    /\ i < j /\ heights[j] - heights[i] > Rule.maxDip
    /\ \A k \in i .. j : heights[i] <= heights[k] /\ heights[k] <= heights[j]
    /\ \A k, l \in i .. j : k < l => heights[k] - heights[l] <= Rule.maxDip

\* "A climb runs from a low point to the highest point after it" (climbs.rs
\* find): a stretch leaves its lowest point for its highest without a fall
\* that would end it; stretches lie apart; and every rise is part of one that
\* gains as much, unless a longer climb's own dip would have hidden it.
NoRiseOverlooked ==
    LET found == Stretches(heights)
        Gain(low, high) == heights[high] - heights[low]
    IN /\ \A s \in found :
            \A k \in s[1] .. s[2] :
              /\ heights[s[1]] <= heights[k] /\ heights[k] <= heights[s[2]]
              /\ \A l \in s[1] .. k : ~Ends(heights[l] - heights[k], heights[l] - heights[s[1]])
       /\ \A r, s \in found : r # s => r[2] < s[1] \/ s[2] < r[1]
       /\ \A i, j \in DOMAIN heights : Rises(i, j) => \E s \in found :
            \/ s[1] <= j /\ i <= s[2] /\ Gain(s[1], s[2]) >= Gain(i, j)
            \/ s[2] < i /\ ~Ends(Gain(i, j), Gain(s[1], s[2]))

\* climbs.rs trimmed: no climb is left only "when the slope reaches it nowhere",
\* over the window.
DropsOnlyGentleRises ==
    \A distance \in [DOMAIN heights -> Distances] :
        (\A i, j \in DOMAIN heights : i < j => distance[i] < distance[j]) =>
        \A s \in Stretches(heights) :
            Trimmed(distance, heights, s[1], s[2]) = {} =>
                \A p, q \in s[1] .. s[2] :
                    /\ p < q /\ distance[q] - distance[p] >= Rule.trimWindow
                    /\ distance[q - 1] - distance[p] < Rule.trimWindow
                    => 100 * (heights[q] - heights[p]) < Rule.trimGradient * (distance[q] - distance[p])
=============================================================================
