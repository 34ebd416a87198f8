SPECIFICATION FairOrderSpec
CONSTANTS
    N = 2
    LastBar = 3
    Slots = 1
    Orders = {o1}
    Requests = {r1}
    Tickers = {t}
    Ops = {"start", "proceed"}
    Batch = FALSE
    CheckpointInterval = 1
    MaxClocks = 3
    MaxFaults = 0
    MaxCrashes = 1
    MaxPlaceFaults = 0
PROPERTIES
    Settles
CHECK_DEADLOCK FALSE
