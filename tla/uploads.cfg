SPECIFICATION MCSpec
CONSTANTS
    q1 = q1
    q2 = q2
    q3 = q3
    c1 = c1
    c2 = c2
    i1 = i1
    i2 = i2
    ChunkCount = 2
    Strays <- MCStrays
    Senders <- MCSenders
    Completers <- MCCompleters
    Imports <- MCImports
    CsvLines <- MCCsvLines
    Features <- MCFeatures
    Registered <- MCRegistered
    MaxLines = 2
SYMMETRY Symmetry
INVARIANTS
    JobSeesWholeObject
    ReadyIsTrue
    OneJobUnlessOverlap
    ImportsAreSerial
CHECK_DEADLOCK FALSE
