-------------------------------- MODULE Placement --------------------------------
(***************************************************************************)
(* Where a photo belongs on its trip's map (server/placement.rs): the      *)
(* instant its camera's clock was read at, from the offsets in force along *)
(* the track (timezone.rs), and where the track was then (gpx.rs).  A      *)
(* point of the track is its time, Unknown if it has none, and the UTC     *)
(* offset where and when it was, Unknown where no zone is known.           *)
(***************************************************************************)
EXTENDS Integers, Sequences, FiniteSets

CONSTANTS
    Unknown,
    WidestOffset  \* the widest UtcOffset, east or west

Earliest(times) == IF times = {} THEN Unknown ELSE CHOOSE t \in times : \A u \in times : t <= u

\* timed_points: by time, those of one time in the track's order.
TimedPoints(track) ==
    LET timed == {i \in DOMAIN track : track[i].time # Unknown}
        Before(i, j) == track[i].time < track[j].time \/ (track[i].time = track[j].time /\ i < j)
        Nth(n) == CHOOSE i \in timed : Cardinality({j \in timed : Before(j, i)}) = n - 1
    IN [n \in 1 .. Cardinality(timed) |-> track[Nth(n)]]

\* Mutant: an unknown offset is UTC wherever it is.
UtcWhereUnknown(points) ==
    [i \in DOMAIN points |-> IF points[i].offset = Unknown THEN 0 ELSE points[i].offset]
\* in_force: an unknown offset keeps the one in force, and is UTC at the start.
InForce(points) ==
    LET force[i \in DOMAIN points] ==
            IF points[i].offset # Unknown THEN points[i].offset
            ELSE IF i = 1 THEN 0 ELSE force[i - 1]
    IN force

\* offset_transitions: the first points of the stretches of one offset.
OffsetTransitions(points) ==
    {i \in DOMAIN points : i = 1 \/ InForce(points)[i] # InForce(points)[i - 1]}

\* clock_read: the first stretch of one offset in which the clock showed this,
\* each up to the next one's first point and the last to the track's end.
ClockRead(points, clock) ==
    LET starts == OffsetTransitions(points)
        Candidate(i) == clock - InForce(points)[i]
        Within(i) ==
            LET next == Earliest({j \in starts : i < j})
            IN /\ Candidate(i) >= points[i].time
               /\ IF next = Unknown THEN Candidate(i) <= points[Len(points)].time
                  ELSE Candidate(i) < points[next].time
        first == Earliest({i \in starts : Within(i)})
    IN IF first = Unknown THEN Unknown ELSE Candidate(first)

\* resolve_to_utc: the first instant the trip's zone showed this, Unknown in an
\* hour it skipped.  A zone is an offset before its change, and one from then.
ResolveToUtc(zone, clock) ==
    Earliest({t \in {clock - zone.before} : t < zone.change}
             \cup {t \in {clock - zone.after} : t >= zone.change})

\* capture_time_to_utc: an offset the camera wrote wins, unless there is no such
\* offset, as in corrupt metadata.
CaptureInstant(photo, points, zone) ==
    IF photo.embedded # Unknown /\ photo.embedded \in -WidestOffset .. WidestOffset
    THEN photo.clock - photo.embedded
    ELSE IF ClockRead(points, photo.clock) # Unknown THEN ClockRead(points, photo.clock)
    ELSE IF zone = Unknown THEN Unknown ELSE ResolveToUtc(zone, photo.clock)

\* interpolate_position: the points the position lies between, the last of
\* those of one time.
OnTrack(points, at) ==
    Len(points) >= 2 /\ points[1].time <= at /\ at <= points[Len(points)].time
Passed(points, at) == Cardinality({i \in DOMAIN points : points[i].time <= at})
Interpolate(points, at) ==
    IF Passed(points, at) = Len(points) THEN <<Len(points), Len(points)>>
    ELSE <<Passed(points, at), Passed(points, at) + 1>>

\* resolve_placement, of a photo for which nobody supplied a position.
ResolvePlacement(photo, points, zone) ==
    LET at == CaptureInstant(photo, points, zone)
    IN IF photo.gps THEN [source |-> "exif", between |-> Unknown]
       ELSE IF at = Unknown \/ ~OnTrack(points, at) THEN [source |-> "none", between |-> Unknown]
       ELSE [source |-> "interpolated", between |-> Interpolate(points, at)]
=============================================================================
