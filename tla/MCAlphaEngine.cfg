SPECIFICATION Spec
CONSTANTS
    Warmup = 2
    Cooldown = 2
    QueueMax = 2
    MaxTrades = 7
    MaxRestarts = 2
    MaxLosses = 1
INVARIANTS
    StrategiesCancel
    LegsLeftAlone
CHECK_DEADLOCK FALSE
