\* Sessions written, locked, deleted, expired and replicated between two nodes
\* whose wall clocks differ.
CONSTANTS
    Node = {1, 2}
    SessionID = {s}
    LockKey = {}
    MetaKey = {}
    Value = {a}
    None = None
    NoEntry = NoEntry
    TTL = {0}
    SessionRetention = 0
    LockRetention = 1
    MaxSkew = 1
    LagAllowed = FALSE
    MaxTime = 2
    MaxLogical = 2
    MaxMsgs = 1
SPECIFICATION Spec
CHECK_DEADLOCK FALSE
INVARIANTS TypeOK StampsIdentifyWrites LocalWriteWins DeltaHasLocalWrites
           MergeOrderIrrelevant
PROPERTY StoreMonotone
