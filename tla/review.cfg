SPECIFICATION FairSpec
CONSTANTS
    f1 = f1
    f2 = f2
    d1 = d1
    d2 = d2
    d3 = d3
    w1 = w1
    Flights <- MCFlights
    Public <- MCFlights
    Detections <- MCDetections
    FlightOf <- MCFlightOf
    Unanalyzable <- MCNone
    NoDsm <- MCNoDsm
    Workers <- MCWorkers
    BatchSize = 1
    MaxFailures = 1
    MaxRedetections = 1
PROPERTIES
    WeakIsJudged
    StaleIsAnalyzed
CHECK_DEADLOCK FALSE
