\* Two requests at a time, three FPM processes.
CONSTANTS
    MaxProcs = 3
    Request = {r, s}
    NoProc = NoProc
SPECIFICATION GSpec
CHECK_DEADLOCK FALSE
INVARIANTS GTypeOK OneProcess Supervised DrainedBeforeStop
PROPERTIES RequestsGetThrough ShutdownEnds
