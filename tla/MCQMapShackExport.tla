------------------------- MODULE MCQMapShackExport -------------------------
(***************************************************************************)
(* A small instance of QMapShackExport: records whose folder follows from  *)
(* their meta, two folders below a common one.                             *)
(***************************************************************************)
EXTENDS QMapShackExport, TLC

CONSTANTS trip, track, waypoint, m1, m2, HasTrack

MCOrder == IF HasTrack THEN <<trip, track, waypoint>> ELSE <<trip, waypoint>>
MCKeys == {MCOrder[i] : i \in 1 .. Len(MCOrder)}
MCKindOf == [k \in MCKeys |-> IF k = trip THEN "trip"
                             ELSE IF k = track THEN "track" ELSE "waypoint"]
MCPathOf == [kind \in {"trip", "track", "waypoint"} |->
               [m \in Metas |-> IF m = m1 THEN <<"a">> ELSE <<"a", "b">>]]
\* Geometries are told apart and nothing else.
Geometries == Permutations(Geoms)
=============================================================================
