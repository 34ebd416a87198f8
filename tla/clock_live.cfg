SPECIFICATION FairSpec
CONSTANTS
    N = 2
    Requests = {r1}
    Tickers = {t}
    Ops = {"start", "proceed"}
    Batch = FALSE
    CheckpointInterval = 1
    MaxClocks = 3
    MaxFaults = 1
    MaxCrashes = 1
PROPERTIES
    Completes
CHECK_DEADLOCK FALSE
