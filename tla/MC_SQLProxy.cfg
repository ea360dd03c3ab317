\* Two connections.
CONSTANTS
    Conn = {c, d}
SPECIFICATION FairSpec
CHECK_DEADLOCK FALSE
INVARIANTS TypeOK AtMostOneLateWrite CleanStop
PROPERTIES ConnectionsEnd StopReturns
