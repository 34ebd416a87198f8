SPECIFICATION BarrierSpec
CONSTANTS
    B = 4
    Session <- MCSession
    MaxFaults = 0
    MaxCrashes = 1
INVARIANTS
    RestOfDayHidden
CHECK_DEADLOCK FALSE
