SPECIFICATION Spec
CONSTANTS
    t1 = t1
    t2 = t2
    None = None
    Keys <- MCTiles
    Size <- MCSize
    Neighbours <- MCNeighbours
    MaxBytes = 2
    Batch = 2
    EvictTenths = 10
    TtlL1 = 1
    TtlL2 = 1
    MaxDelay = 1
    Requests = {r1, r2}
    Helpers = {h1, h2}
SYMMETRY Symmetry
INVARIANTS TypeOK L1Bounded TilesFresh
