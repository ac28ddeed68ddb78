SPECIFICATION Spec
CONSTANTS
    j1 = j1
    j2 = j2
    u1 = u1
    u2 = u2
    f1 = f1
    f2 = f2
    Jobs <- MCJobs
    Uploads <- MCUploads
    Flights <- MCFlights
    NoFlight = NoFlight
    Produced <- Assets
    MaxRetries = 1
    MaxSetbacks = 2
    AllowSimulation = FALSE
    Tenanted = FALSE
SYMMETRY Symmetry
INVARIANTS
    OneActivePerUpload
    OrthomosaicNotLost
    CompletedHasOrthomosaic
CHECK_DEADLOCK FALSE
