SPECIFICATION BarrierSpec
CONSTANTS
    B = 4
    Session <- MCSession
    MaxFaults = 2
    MaxCrashes = 1
INVARIANTS
    BarrierTypeOK
    NoBarSkipped
    NothingBeyondTheClock
    HourlyBarsNeverAhead
CHECK_DEADLOCK FALSE
