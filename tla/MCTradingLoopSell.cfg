SPECIFICATION Spec
CONSTANTS
    Symbols <- OneSymbol
    Sides <- BothSides
    MaxQuantity = 2
    PositionLimit = 3
    OrderLimit = 2
    ExposureLimit = 9
    MaxSignals = 4
    Window = 1
    MaxRestarts = 0
    MaxOutages = 0
INVARIANTS
    PositionWithinLimit
CHECK_DEADLOCK FALSE
