SPECIFICATION MCSpec
CONSTANTS
    w1 = w1
    w2 = w2
    w3 = w3
    v1 = v1
    v2 = v2
    f1 = f1
    f2 = f2
    d1 = d1
    d2 = d2
    b1 = b1
    b2 = b2
    p1 = p1
    p2 = p2
    a1 = a1
    a2 = a2
    r1 = r1
    r2 = r2
    Writers <- MCWriters
    Versions <- MCVersions
    Flights <- MCFlights
    Public <- MCPublic
    Detections <- MCDetected
    FlightOf <- MCFlightOf
    Unanalyzable <- MCUnanalyzable
    NoDsm <- MCNoDsm
    Workers <- MCWorkers
    BatchSize = 1
    MaxFailures = 0
    MaxRedetections = 1
    Buildings <- MCBuildings
    Parcels <- MCParcels
    Hits <- Covers
    Verdict <- Compared
    Built <- MCBuilt
    Analyses <- MCAnalyses
    Reviewers <- MCReviewers
    MaxGen = 2
    Features = 2
    MaxDeliveries = 2
    MaxFaults = 2
INVARIANTS
    GenerationsMixOnlyByOverlap
    AnalysisIsTrue
    TwoVerdictsOnlyByOverlap
    AiIsTrue
PROPERTIES
    JudgedStays
    DecisionsKept
CHECK_DEADLOCK FALSE
