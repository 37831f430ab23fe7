CONSTANTS
    N = 2
    Down = {}
    Lost <- NoneLost
    Empty = {2}
    MaxBlocks = 3
    MaxProposers = 1
    MaxParked = 0
    MaxTimeouts = 2
    MaxNewViews = 2
SPECIFICATION Spec
CONSTRAINT TwoNodeLoad
INVARIANTS TypeOK StableSequenceLock StableAgreement StableFiling StableDurability
           OneRecoveryAtATime
CHECK_DEADLOCK FALSE
