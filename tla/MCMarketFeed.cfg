SPECIFICATION FairSpec
CONSTANTS
    Prices <- TwoPrices
    MaxSize = 1
    QueueMax = 2
    MaxChanges = 3
    MaxLosses = 2
    MaxRestarts = 1
INVARIANTS
    MirrorLacksOnlyWhatWasLost
    CrossedOnlyByALoss
PROPERTIES
    MirrorConverges
    FeedComesBack
CHECK_DEADLOCK FALSE
