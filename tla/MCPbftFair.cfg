CONSTANTS
    N = 4
    Down = {3}
    Lost <- CommitsToOneOnly
    Empty = {2}
    MaxBlocks = 1
    MaxProposers = 1
    MaxParked = 4
    MaxTimeouts = 3
    MaxNewViews = 9
SPECIFICATION FourNodeSpec
INVARIANTS ViewChangeJustified PreparedIsReplicated
PROPERTIES ViewChangeCompletes FollowersCommit
CHECK_DEADLOCK FALSE
