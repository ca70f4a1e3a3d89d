SPECIFICATION LookSpec
CONSTANTS
    Hour = 2
    Day = 48
    Sources <- MCSources
    MaxBusy = 1
    MaxFaults = 1
    Starts <- MCStarts
    Horizon = 130
INVARIANTS
    CaughtInTime
