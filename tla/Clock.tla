------------------------------- MODULE Clock --------------------------------
\* The time that the parts of the server read.
EXTENDS Naturals

CONSTANTS
    MaxTime,  \* bound on the clock
    None

VARIABLE now

ASSUME ClockAssumption == MaxTime \in Nat /\ None \notin Nat

Passes ==
    /\ now < MaxTime
    /\ now' = now + 1
=============================================================================
