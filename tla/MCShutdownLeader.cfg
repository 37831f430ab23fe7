CONSTANTS
    Conn = {c1, c2}
    Slot = {h1, h2}
    Leader = TRUE
    Recovers = FALSE
SPECIFICATION FairSpec
PROPERTIES ShutdownCompletes
CHECK_DEADLOCK FALSE
