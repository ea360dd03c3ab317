\* The constants of MC_Migration: a lock outlives the tombstone of its release.
CONSTANTS
    Node = {1, 2}
    SessionID = {}
    LockKey = {l}
    MetaKey = {k}
    Value = {1, 2, v, w}
    None = None
    NoEntry = NoEntry
    TTL = {2, 4}
    SessionRetention = 1
    LockRetention = 1
    MaxSkew = 0
    LagAllowed = TRUE
    MaxTime = 4
    MaxLogical = 1
    MaxMsgs = 1
    MigrationKey = l
    VersionKey = k
    LockTimeout <- NodeTimeouts
    Version = {v}
    Detection = {"none", "file", "query"}
    Crashing = {1}
SPECIFICATION MSpec
CHECK_DEADLOCK FALSE
INVARIANT ReleasedStaysReleased
