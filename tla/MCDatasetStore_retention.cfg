SPECIFICATION Spec
CONSTANTS
    Datasets <- ThreeRuns
    Models <- MCModels
    ModelOf <- MCModelOf
    TimeOf <- MCTimeOf
    StaticModels <- MCStatic
    KeepLatest <- MCKeepLatest
    Retention <- MCRetention
    Files = {"zarr.json", "chunk"}
    Ingesters = {i1, i2}
    Cleaners = {c1, c2}
    Syncers = {}
    None = None
    MaxClock = 3
    MaxIngests = 1
    MaxFaults = 1
SYMMETRY Symmetry
INVARIANTS
    TypeOK
    AvailableComplete
    ProtectedServed
PROPERTIES
    NeverEmptied
    NoLeak
    ServesCompleteDatasets
