SPECIFICATION Spec
CONSTANTS
    j1 = j1
    j2 = j2
    u1 = u1
    u2 = u2
    f1 = f1
    f2 = f2
    Jobs <- MCOneJob
    Uploads <- MCUploads
    Flights <- MCFlights
    NoFlight = NoFlight
    Produced <- Assets
    MaxRetries = 0
    MaxSetbacks = 0
    AllowSimulation = FALSE
    Tenanted = FALSE
INVARIANTS
    NothingLost
CHECK_DEADLOCK FALSE
