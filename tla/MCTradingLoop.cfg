SPECIFICATION FairSpec
CONSTANTS
    Symbols <- OneSymbol
    Sides <- BothSides
    MaxQuantity = 2
    PositionLimit = 1
    OrderLimit = 2
    ExposureLimit = 9
    MaxSignals = 4
    Window = 2
    MaxRestarts = 0
    MaxOutages = 1
INVARIANTS
    OvershootIsBounded
PROPERTIES
    LoopSettles
    EverySignalIsDecided
CHECK_DEADLOCK FALSE
