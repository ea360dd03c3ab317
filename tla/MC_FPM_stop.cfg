\* Does FPM stay down after Stop?
CONSTANTS
    MaxProcs = 3
SPECIFICATION Spec
CHECK_DEADLOCK FALSE
INVARIANT StopIsFinal
