SPECIFICATION FairHourlySpec
CONSTANTS
    B = 5
    End = 4
    Session <- MCSession
    Open <- MCOpen
    High <- MCHigh
    Low <- MCLow
    Volume <- MCVolume
    NoBar <- MCNoBar
    PrevClose <- MCPrevClose
    PrevVolume <- MCPrevVolume
    Rate = 10
    Orders = {1, 2, 3}
    Buys = {1, 2}
    Kind <- MCKind
    Price <- MCPrice
    Qty <- MCQty
    MaxPlacing = 1
    MaxFaults = 1
INVARIANTS
    HourlyTypeOK
    SlicesAddUp
    WithinParticipation
    
    SessionSnapshots
    DeliveryFirst

    
CHECK_DEADLOCK FALSE
