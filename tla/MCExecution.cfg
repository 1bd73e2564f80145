SPECIFICATION FairSpec
CONSTANTS
    Orders <- CopyOrders
    Strategies <- CopyStrategies
    Symbols <- MCSymbols
    N = 2
    OrderAt <- CopyOrderAt
    StrategyOf <- CopyStrategyOf
    SymbolOf <- CopySymbolOf
    DefaultMode = "paper"
    EnvModes <- CopyEnvModes
    QueueMax = 1
    MaxRestarts = 2
INVARIANTS
    ExecutedOncePerLife
    LiveFillWasPlaced
    AtMostOneLatePlacement
    AtMostOneLostPerLife
PROPERTIES
    ImplementsStateMachine
    EveryOrderIsHandled
