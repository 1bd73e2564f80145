SPECIFICATION FairSpec
CONSTANTS
    Kinds <- TradesAndUpdates
    BatchSize = 2
    PollMax = 2
    SnapshotInterval = 2
    MaxMessages = 4
    MaxCrashes = 1
    MaxWriteFailures = 1
    MaxCommitFailures = 1
INVARIANTS
    DuplicatesNeedFailedCommits
    TablesAreInOrder
    LossIsBounded
PROPERTIES
    EveryTradeIsStoredOrLost
