SPECIFICATION LedgerSpec
CONSTANTS
    Txs = {t1, t2}
    N = 2
    Orders = {1, 2, 3}
    Buys = {1, 3}
    Qty <- MCQty
    Price <- MCPrice
    Close <- MCClose
    Fee = 1
    Capital = 12
    MaxMatches = 3
    MaxAborts = 1
INVARIANTS
    LedgerTypeOK
    CashBalance
    SharesBalance
    Solvent
    SnapshotCurrent
    QuietDisqualificationFreezes
    TradesAreFifo
    DrawdownIsWorst
PROPERTIES
    MatchesAreAtomic
SYMMETRY TxSymmetry
CHECK_DEADLOCK FALSE
