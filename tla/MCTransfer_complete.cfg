SPECIFICATION FairSpec
CONSTANTS
    Size = 6
    Selection <- TwoRanges
    Cuts <- TwoCuts
    Selective = TRUE
    SkipSize = FALSE
    HeadReliable = TRUE
    MaxRetries = 1
    None = None
    MaxFaults = 3
    MaxCrashes = 1
    MaxCleans = 1
INVARIANTS
    TypeOK
    FinalIsSource
PROPERTIES
    RightSize
    Completes
CHECK_DEADLOCK FALSE
