---------------------------- MODULE MCKomootSync ----------------------------
(* Small instances of KomootSync for TLC.                                  *)
EXTENDS KomootSync, TLC

CONSTANTS t1, t2

\* Both tours appear in the recorded listing.
MCRecorded == [t \in Tours |-> "recorded"]
\* The tour t2 is a planned route.
MCMixed == [t \in Tours |-> IF t = t2 THEN "planned" ELSE "recorded"]

MCSymmetry == Permutations(Names) \cup Permutations(Trips) \cup
              Permutations(Syncs)
=============================================================================
