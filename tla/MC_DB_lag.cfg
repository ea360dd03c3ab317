\* Registers on two nodes whose wall clocks differ, nothing assumed of them.
CONSTANTS
    Node = {1, 2}
    SessionID = {}
    LockKey = {}
    MetaKey = {k}
    Value = {a}
    None = None
    NoEntry = NoEntry
    TTL = {0}
    SessionRetention = 1
    LockRetention = 1
    MaxSkew = 1
    LagAllowed = TRUE
    MaxTime = 2
    MaxLogical = 3
    MaxMsgs = 2
SPECIFICATION Spec
CHECK_DEADLOCK FALSE
INVARIANT LocalWriteWins
