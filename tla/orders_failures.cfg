SPECIFICATION OrderSpec
CONSTANTS
    N = 2
    LastBar = 3
    Slots = 1
    Orders = {o1}
    Requests = {r1}
    Tickers = {t}
    Ops = {"start"}
    Batch = FALSE
    CheckpointInterval = 5
    MaxClocks = 3
    MaxFaults = 1
    MaxCrashes = 1
    MaxPlaceFaults = 1
INVARIANTS
    TradedOnce
    NoneLeftBehind
CONSTRAINT OneFailure
VIEW View
CHECK_DEADLOCK FALSE
