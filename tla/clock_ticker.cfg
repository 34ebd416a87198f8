SPECIFICATION Spec
CONSTANTS
    N = 3
    Requests = {r1}
    Tickers = {t}
    Ops = {"start", "pause", "proceed"}
    Batch = TRUE
    CheckpointInterval = 2
    MaxClocks = 3
    MaxFaults = 1
    MaxCrashes = 1
INVARIANTS
    TypeOK
    NoDaySkipped
    RecordedWasMatched
    MatchedOnce
PROPERTIES
    GateRespected
    ImplementsPlayback
VIEW View
CHECK_DEADLOCK FALSE
