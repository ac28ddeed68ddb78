SPECIFICATION MCSpec
CONSTANTS
    f1 = f1
    g1 = g1
    r1 = r1
    r2 = r2
    q1 = q1
    q2 = q2
    q3 = q3
    q4 = q4
    Flights <- MCFlights
    Runs <- MCRuns
    Nobody = Nobody
    HardLimit = 2
    LockTTL = 2
    MaxTime = 3
    Tenanted = TRUE
    MapRuns <- MCMapRuns
    Kind <- Kinds
    FlightOf <- FlightOfRun
    MaxFailures = 1
    Width = 3
    Elevations <- MCElevations
    Grounds <- MCGrounds
    Cells <- MCCells
    Under <- MCUnder
    Covered <- MCCovered
    Metre <- HalfStep
    Clamp <- MCClamp
SYMMETRY Symmetry
INVARIANTS
    OneRunPerFlight
    TwoDsmsOnlyByOverlap
    StatusIsTrue
    MapAgrees
    RowsServeFiles
    HeightsAreShown
CHECK_DEADLOCK FALSE
