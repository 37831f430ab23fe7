CONSTANTS
    N = 4
    Down = {}
    Lost <- NoViewForZero
    Empty = {2}
    MaxBlocks = 2
    MaxProposers = 1
    MaxParked = 0
    MaxTimeouts = 3
    MaxNewViews = 3
SPECIFICATION ForkSpec
INVARIANTS SameBlockchain
CHECK_DEADLOCK FALSE
