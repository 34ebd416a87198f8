SPECIFICATION OrderSpec
CONSTANTS
    N = 1
    LastBar = 2
    Slots = 1
    Orders = {o1}
    Requests = {r1}
    Tickers = {t}
    Ops = {"start"}
    Batch = FALSE
    CheckpointInterval = 5
    MaxClocks = 3
    MaxFaults = 0
    MaxCrashes = 0
    MaxPlaceFaults = 0
INVARIANTS
    CanceledNeverTrades
VIEW View
CHECK_DEADLOCK FALSE
