------------------------------ MODULE MCTimed ------------------------------
(* A small instance of Timed: a database in use, and ids for what is added. *)
EXTENDS Timed, TLC

CONSTANTS recorded, planned, coll, tag, other

MCTrips == {recorded, planned}
MCRecorded == {recorded}
MCColls == {coll}
MCTags == {tag, other}
MCPresent == {recorded, coll, tag}
MCLasts == [sharing |-> 1, gate |-> 3, listing |-> 2, backups |-> 4]
IdSymmetry == Permutations(Names) \cup Permutations(Owners) \cup
              Permutations(Visits) \cup Permutations(Listers)
=============================================================================
