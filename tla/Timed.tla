-------------------------------- MODULE Timed -------------------------------
(***************************************************************************)
(* The parts of the system that read a clock, side by side: what they do   *)
(* does not meet, so a behaviour is one part's.                            *)
(***************************************************************************)
EXTENDS Sharing, Gate, TourListing, RollingBackups

CONSTANT Lasts  \* how far each part is followed

VARIABLE part

ASSUME TimedAssumption ==
    Lasts \in [{"sharing", "gate", "listing", "backups"} -> 0 .. MaxTime]

vars == <<now, part, sharing, gate, asking, rolling>>

Init ==
    /\ now = 0
    /\ part \in DOMAIN Lasts
    /\ SharingInit /\ GateInit /\ ListingInit /\ RollingInit
    /\ part # "sharing" => holds = {}

Tick ==
    /\ now < Lasts[part]
    /\ Passes
    /\ UNCHANGED <<sharing, gate, asking, rolling>>

Next ==
    /\ \/ part = "sharing" /\ SharingNext /\ UNCHANGED <<gate, asking, rolling>>
       \/ part = "gate" /\ GateNext /\ UNCHANGED <<sharing, asking, rolling>>
       \/ part = "listing" /\ ListingNext /\ UNCHANGED <<sharing, gate, rolling>>
       \/ part = "backups" /\ RollingNext /\ UNCHANGED <<sharing, gate, asking>>
       \/ Tick
    /\ UNCHANGED part

Spec == Init /\ [][Next]_vars
=============================================================================
