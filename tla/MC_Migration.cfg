\* Two nodes that migrate, crash and gossip; as in the program a lock may live
\* longer than the tombstone of its release is kept.
CONSTANTS
    Node = {1, 2}
    SessionID = {}
    LockKey = {l}
    MetaKey = {k}
    Value = {1, 2, v, w}
    None = None
    NoEntry = NoEntry
    TTL = {2, 4}
    SessionRetention = 1
    LockRetention = 1
    MaxSkew = 0
    LagAllowed = TRUE
    MaxTime = 4
    MaxLogical = 1
    MaxMsgs = 1
    MigrationKey = l
    VersionKey = k
    LockTimeout <- NodeTimeouts
    Version = {v}
    Detection = {"none", "file", "query"}
    Crashing = {1}
SPECIFICATION MSpec
CHECK_DEADLOCK FALSE
INVARIANTS MTypeOK VersionMeansMigrated ServesMigrated ReleasedUntilCollected
PROPERTY WaitersProceed
