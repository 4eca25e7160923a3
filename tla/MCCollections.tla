---------------------------- MODULE MCCollections ----------------------------
(***************************************************************************)
(* A small instance of Collections.                                        *)
(***************************************************************************)
EXTENDS Collections, TLC

CONSTANTS r1, r2, g, h, TrackIds, WaypointIds

MCMaxItem == [k \in Kinds |-> IF k = "track" THEN TrackIds ELSE WaypointIds]
MCSymmetry == Permutations(Reqs) \cup Permutations(Lines)
=============================================================================
