CONSTANTS
    Conn = {c1, c2}
    Slot = {h1, h2}
    Leader = TRUE
    Recovers = TRUE
SPECIFICATION FairSpec
INVARIANTS NoUseAfterClose ReturnsAfterClose
PROPERTIES OnlyLocksDelayStop
CHECK_DEADLOCK FALSE
