SPECIFICATION Spec
CONSTANTS
    Symbols <- TwoSymbols
    Sides <- BothSides
    MaxQuantity = 1
    PositionLimit = 3
    OrderLimit = 1
    ExposureLimit = 9
    MaxSignals = 3
    Window = 2
    MaxRestarts = 1
    MaxOutages = 1
INVARIANTS
    StaleNeverTorn
    BookIsWhatWasTaken
CHECK_DEADLOCK FALSE
