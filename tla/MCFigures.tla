-------------------------------- MODULE MCFigures --------------------------------
EXTENDS Figures, TLC

MCStarts == (0 .. 2) \X (0 .. 2)
MCCorners == (-5 .. 7) \X (-5 .. 7)
MCLooked == (-8 .. 10) \X (-8 .. 10)

MCRules == [lineTolerance |-> 2, minStretch |-> 4, planCovered |-> 80, tripOnPlan |-> 70,
            minCovered |-> 4, pointTolerance |-> 3, pointsReached |-> 80, minPointRun |-> 3,
            band |-> 4, minShared |-> 12]
MCPlaces == {0, 2, 4, 6, 8} \X {0, 4}
MCPlans == {<<>>, <<<<4, 0>>>>, <<<<0, 0>>, <<8, 0>>>>,
            <<<<0, 4>>, <<2, 4>>, <<2, 0>>, <<6, 0>>>>,
            <<<<0, 0>>, <<4, 0>>, <<4, 8>>, <<8, 8>>>>,
            <<<<0, 6>>, <<4, 6>>, <<4, 2>>, <<8, 2>>, <<8, 6>>>>}

MCTimes == 0 .. 3
MCZones == {Unknown, [before |-> 1, after |-> 2, change |-> 2], [before |-> 2, after |-> 0, change |-> 1]}

MCRule == [maxDip |-> 2, maxDipShare |-> 80,
           trimWindow |-> 2, trimTolerance |-> 2, trimGradient |-> 60]
=============================================================================
