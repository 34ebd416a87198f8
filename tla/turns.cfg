SPECIFICATION TurnsSpec
CONSTANTS
    a = a
    b = b
    Agents = {a, b}
    N = 2
    CallLimit = 1
    MissLimit = 1
    MissedTicksDQThreshold = 2
    MaxFaults = 1
    MaxStops = 1
    Cadence <- MCCadence
    MaxOrders = 1
    MaxLosses = 1
CONSTRAINT TwoTroubles
CHECK_DEADLOCK FALSE
INVARIANTS
    TurnsTypeOK
    MissedTicksCount
    SilentIsDisqualified
    CallsBounded
PROPERTIES
    TurnsInOrder
