SPECIFICATION Spec
CONSTANTS
    Datasets <- RunAndLayer
    Models <- MCModels
    ModelOf <- MCModelOf
    TimeOf <- MCTimeOf
    StaticModels <- MCStatic
    KeepLatest <- MCKeepLatest
    Retention <- MCRetention
    Files = {"zarr.json", "chunk"}
    Ingesters = {i1}
    Cleaners = {c1}
    Syncers = {s1}
    None = None
    MaxClock = 1
    MaxIngests = 2
    MaxFaults = 1
PROPERTIES
    SyncDeletesOnlyOrphans
