SPECIFICATION FairSpec
CONSTANTS
    Urls <- BothPaths
    Lis <- OnlyNldas
    Datasets = {d1, d2}
    CrossDevice = TRUE
    None = None
    MaxFaults = 2
    MaxCrashes = 1
INVARIANTS
    TypeOK
    SingleRequest
    IngestedAnswered
PROPERTIES
    SourceKept
    FilesDrain
