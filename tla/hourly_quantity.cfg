SPECIFICATION HourlySpec
CONSTANTS
    B = 5
    End = 4
    Session <- MCSession
    Open <- MCOpen
    High <- MCHigh
    Low <- MCLow
    Volume <- MCVolume
    NoBar <- MCNoBar
    PrevClose <- MCPrevClose
    PrevVolume <- MCPrevVolume
    Rate = 10
    Orders = {1}
    Buys = {1}
    Kind <- MCKind
    Price <- MCPrice
    Qty <- MCQty
    MaxPlacing = 1
    MaxFaults = 0
INVARIANTS
    ExecutedQuantityKept
CHECK_DEADLOCK FALSE
