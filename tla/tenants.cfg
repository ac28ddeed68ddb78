SPECIFICATION MCSpec
CONSTANTS
    a = a
    b = b
    r1 = r1
    r2 = r2
    r3 = r3
    x1 = x1
    x2 = x2
    x3 = x3
    Editors <- MCEditors
    Codes <- MCCodes
    HomeCode = 2
    SeedCodes <- MCSeedCodes
    i1 = i1
    i2 = i2
    e1 = e1
    e2 = e2
    Order <- SlugOrder
    Reqs <- MCReqs
    Kinds <- RequestKinds
    MaxFaults = 1
    MaxBoots = 3
    MaxLostUpgrades = 1
    Ids <- MCIds
    Emails <- MCEmails
    Towns <- MCTowns
    DefaultTown = a
    Callers <- MCCallers
    Routes <- UserOperations
    Level <- RoleLevel
    AdminRole = "tenant_admin"
    MaxRefused = 1
    Requests <- MCCallers
    Keys <- MCKeys
    TTL = 1
    Day = 2
    MaxTime = 2
    MaxRefusals = 1
INVARIANTS
    CreatedIsUsable
    OnlyTheBrokenFail
    TwoSubscriptionsOnlyByOverlap
    HeadKeepsEverything
    LastWordStands
    OneActiveUnlessOverlap
    KeysServe
PROPERTIES
    StepsKeep
CHECK_DEADLOCK FALSE
