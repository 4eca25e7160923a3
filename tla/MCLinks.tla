------------------------------- MODULE MCLinks -------------------------------
(***************************************************************************)
(* A small instance of Links: a recorded trip that follows the planned one *)
(* and line g, a planned trip that follows g.                              *)
(***************************************************************************)
EXTENDS Links, TLC

CONSTANTS r1, r2, rec, plan, g, h, TrackIds, WaypointIds

MCFollows == {<<rec, plan>>, <<rec, g>>, <<plan, g>>}
MCMaxItem == [k \in Kinds |-> IF k = "track" THEN TrackIds ELSE WaypointIds]
MCSymmetry == Permutations(Reqs)
=============================================================================
