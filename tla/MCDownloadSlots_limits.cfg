SPECIFICATION SlotsFairSpec
CONSTANTS
    Models <- MCModels
    Files <- ThreeEach
    ModelOf <- MCModelOf
    Rank <- MCRank
    TotalMax = 4
    MaxConcurrent <- MCMaxConcurrent
INVARIANTS
    SlotsTyped
    PermitsConserved
    ActiveWithinLimit
    WaitsForOwnModel
    PerModelLimit
PROPERTIES
    EveryFileStarts
