SPECIFICATION FairSpec
CONSTANTS
    Jobs <- TwoJobs
    Types <- OneType
    Workers = 1
    MaxRestarts = 1
    Slots <- TwoSlots
INVARIANTS
    EntriesAreWhole
    ResultFollowsStatus
PROPERTIES
    ActiveJobIsFollowed
    EveryJobEnds
    TabGetsFree
CHECK_DEADLOCK FALSE
