------------------------------ MODULE ItemTable ------------------------------
(***************************************************************************)
(* What Collections promises Links: tracks and waypoints under ids that    *)
(* name one item for good.  A step is one transaction, which may put a     *)
(* line into one item, new or held, and take others out.                   *)
(***************************************************************************)
EXTENDS Naturals

CONSTANTS
    MaxItem,  \* bound on the ids handed out, per kind of item
    Lines,    \* contents of items
    None

Kinds == {"track", "waypoint"}
Items == UNION {{k} \X (1 .. MaxItem[k]) : k \in Kinds}

ASSUME ItemAssumption == MaxItem \in [Kinds -> Nat] /\ None \notin Lines

VARIABLES
    items,    \* collection_track and waypoint tables: the line, else None
    lastItem  \* their sqlite_sequence

tableVars == <<items, lastItem>>

TableInit ==
    /\ items = [i \in Items |-> None]
    /\ lastItem = [k \in Kinds |-> 0]

Present == {i \in Items : items[i] # None}
Unused == {<<k, lastItem[k] + 1>> : k \in Kinds} \cap Items

Entry(i, l, gone) ==
    /\ i \in (Present \cup Unused) \ gone
    /\ gone \subseteq Present
    /\ items' = [j \in Items |-> IF j = i THEN l
                                 ELSE IF j \in gone THEN None ELSE items[j]]
    /\ lastItem' = [lastItem EXCEPT ![i[1]] = IF i \in Unused THEN @ + 1 ELSE @]

Removal(gone) ==
    /\ gone \subseteq Present
    /\ gone # {}
    /\ items' = [j \in Items |-> IF j \in gone THEN None ELSE items[j]]
    /\ UNCHANGED lastItem

TableNext ==
    \E gone \in SUBSET Present :
        Removal(gone) \/ \E i \in Items, l \in Lines : Entry(i, l, gone)

TableSpec == TableInit /\ [][TableNext]_tableVars
=============================================================================
