\* A store as it is wired today: sessions, locks and metadata, no gossip.
CONSTANTS
    Node = {1}
    SessionID = {s}
    LockKey = {l}
    MetaKey = {k}
    Value = {a, b}
    None = None
    NoEntry = NoEntry
    TTL = {1}
    SessionRetention = 1
    LockRetention = 0
    MaxSkew = 0
    LagAllowed = TRUE
    MaxTime = 4
    MaxLogical = 3
    MaxMsgs = 0
SYMMETRY Symmetry
SPECIFICATION Spec
CHECK_DEADLOCK FALSE
INVARIANT NodeMutualExclusion
PROPERTY ImplementsLease
