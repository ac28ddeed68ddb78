SPECIFICATION FairSpec
CONSTANTS
    r1 = r1
    p1 = p1
    NoReport = none
    Reports <- MCReports
    Projects <- MCProjects
    ProjectOf <- MCProjectOf
    PublicReports <- MCReports
    MaxTasks = 2
    MaxRetries = 1
    AgeTicks = 1
    WorkerSlots = 2
    MaxClock = 1
    MaxFaults = 1
INVARIANTS
    FileServesItsReport
    FailedHasNoFile
PROPERTIES
    CompletedStays
    ReportsEnd
