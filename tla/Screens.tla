-------------------------------- MODULE Screens --------------------------------
\* What the screens of the single-page application share.
EXTENDS Naturals, Sequences, FiniteSets

CONSTANTS
    MaxEvents,  \* bound: the owner's clicks, and settlings of a map
    None

VARIABLE events  \* so far

ASSUME ScreensAssumption == MaxEvents \in Nat

\* A resource: what was read, whether it is being read, the answer not yet shown.
Closed == [read |-> None, asked |-> FALSE, answer |-> None]
Opening == [Closed EXCEPT !.asked = TRUE]
\* What it depends on changed, or a restart: asked anew, what was read kept.
Again(resource) == [resource EXCEPT !.asked = TRUE, !.answer = None]
Settled(resource) == ~resource.asked /\ resource.answer = None
Reading(values) ==
    [read : values \cup {None}, asked : BOOLEAN, answer : values \cup {None}]
\* What it shows next, unless it is asked once more.
Latest(resource) == IF resource.answer # None THEN resource.answer ELSE resource.read

Event == events < MaxEvents /\ events' = events + 1
=============================================================================
