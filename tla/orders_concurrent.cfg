SPECIFICATION OrderSpec
CONSTANTS
    N = 1
    LastBar = 2
    Slots = 1
    Orders = {o1, o2}
    Requests = {r1}
    Tickers = {t}
    Ops = {"start", "tick"}
    Batch = FALSE
    CheckpointInterval = 5
    MaxClocks = 3
    MaxFaults = 0
    MaxCrashes = 0
    MaxPlaceFaults = 0
INVARIANTS
    OrderTypeOK
PROPERTIES
    SettledIsFinal
SYMMETRY Symmetry
VIEW TablesView
CHECK_DEADLOCK FALSE
