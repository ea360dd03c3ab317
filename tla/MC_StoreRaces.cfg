\* Two goroutines and the cleanup.
CONSTANTS
    Node = {1}
    Value = {f, g}
    None = None
    NoEntry = NoEntry
    Goroutine = {f, g}
    Self = 1
    TTL = {1}
    LockRetention = 0
    MaxTime = 3
    MaxLogical = 2
SPECIFICATION Spec
CHECK_DEADLOCK FALSE
INVARIANTS SettledLockStays OneGrantOfNewLock
PROPERTY BurstsAdvance
