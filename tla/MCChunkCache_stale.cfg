SPECIFICATION Spec
CONSTANTS
    c1 = c1
    c2 = c2
    c3 = c3
    zarrA = zarrA
    zarrB = zarrB
    None = None
    Keys <- MCChunks
    Paths <- MCPaths
    PathOf <- MCPathOf
    Size <- MCSize
    Readers = {r1, r2}
    MemoryLimit = 4
    MaxEntries = 2
    Rewritten = {zarrA}
    MaxVersion = 1
SYMMETRY Symmetry
INVARIANT ReadsCurrent
