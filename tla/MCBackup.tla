------------------------------ MODULE MCBackup ------------------------------
(***************************************************************************)
(* A small instance of Backup: two uploads beside each other, or one       *)
(* beside the laptop's runs.                                               *)
(***************************************************************************)
EXTENDS Backup, TLC

CONSTANTS u1, u2, d1, a, b, jpg

VARIABLE beside  \* what is followed beside an upload

Busy == {u \in Uploads : up[u] # None \/ late[u] # None}

MCInit == Init /\ BackupInit /\ beside \in {"upload", "laptop"}
MCNext ==
    /\ \/ Next /\ UNCHANGED backup
       \/ beside = "laptop" /\ BackupStep /\ UNCHANGED vars
    /\ beside = "laptop" => Cardinality(Busy') <= 1
    /\ UNCHANGED beside
MCSpec == MCInit /\ [][MCNext]_<<allVars, beside>>

MCSymmetry == Permutations(Uploads) \cup Permutations(Bytes)
=============================================================================
