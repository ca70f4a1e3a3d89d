SPECIFICATION ReadsSpec
CONSTANTS
    Circle = 36
    GlobalWidth = 24
    Snap = 2
    Buffer = 2
    MinDimension = 1
    Grids <- MCGrids
    Boxes <- MCBoxes
    Sizes <- MCSizes
    Points <- MCPoints
INVARIANTS ReadsRight AnswersRight
