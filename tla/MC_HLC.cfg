\* Wall clocks drift and step back; nobody calls Update while lagging.
CONSTANTS
    Node = {n1, n2}
    NoClock = NoClock
    MaxSkew = 2
    LagAllowed = FALSE
    MaxTime = 1
    MaxEvents = 4
SYMMETRY Symmetry
SPECIFICATION Spec
INVARIANTS TypeOK CausalOrder ClockCoversPast
PROPERTY ClockMonotone
CHECK_DEADLOCK FALSE
