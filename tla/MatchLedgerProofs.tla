------------------------- MODULE MatchLedgerProofs -------------------------
(***************************************************************************)
(* Proofs about MatchLedger, for every number of days, orders and          *)
(* transactions, every price, fee and quantity: its type invariant; that no*)
(* share is lost or made and that the agent stays solvent, even when matches*)
(* overlap; that, as long as they do not, no cash is lost or made, the last*)
(* snapshot is the portfolio, and a disqualified portfolio is frozen.      *)
(***************************************************************************)
EXTENDS MatchLedger, NumberLemmas, FiniteSetTheorems, TLAPS

\* What an order costs and brings is a number.
LEMMA Amounts ==
  ASSUME LedgerTypeOK, NEW t \in Txs, NEW o \in Orders, pc[t] # "idle"
  PROVE  Debit(t, o) \in Int /\ Credit(t, o) \in Int
  <1>1. day[t] \in Days
    BY DEF LedgerTypeOK, Holds
  <1>2. Qty[o] \in Int /\ Price[day[t]] \in Int /\ Fee \in Int
    BY <1>1, LedgerAssumption
  <1> QED BY <1>2 DEF Debit, Credit

\* A step that leaves the tables and the records alone keeps their types.
LEMMA TablesKept == ASSUME LedgerTypeOK, UNCHANGED <<tableVars, recordVars>>
                    PROVE  TableTypes' /\ RecordTypes'
  BY DEF LedgerTypeOK, TableTypes, RecordTypes, tableVars, recordVars

\* A step that only moves on, and reads.
LEMMA ReadTypes ==
  ASSUME LedgerTypeOK, NEW t \in Txs, NEW label \in Steps \ {"idle", "setheld"}, pc[t] # "idle",
         Goto(t, label), seen' \in [Txs -> Int], row' \in [Txs -> Snapshots],
         UNCHANGED <<tableVars, draftVars, day, todo, recordVars>>
  PROVE  LedgerTypeOK'
  <1>1. TableTypes' /\ RecordTypes'
    BY TablesKept
  <1>2. DraftTypes'
    BY DEF LedgerTypeOK, DraftTypes, draftVars
  <1>3. LocalTypes'
    BY DEF LedgerTypeOK, LocalTypes, Goto
  <1>4. ASSUME NEW u \in Txs PROVE Holds(u)'
    BY DEF LedgerTypeOK, LocalTypes, Holds, Goto, draftVars
  <1>5. ASSUME NEW u \in Txs, NEW v \in Txs, mine'[u], mine'[v] PROVE u = v
    BY <1>5 DEF LedgerTypeOK, draftVars
  <1> QED BY <1>1, <1>2, <1>3, <1>4, <1>5 DEF LedgerTypeOK

\* An order that has been processed.
LEMMA MarkedTypes ==
  ASSUME LedgerTypeOK, NEW t \in Txs, NEW o \in Orders, NEW outcome \in Outcomes,
         pc[t] # "idle", outcome # "defer" \/ day[t] < N, Marked(t, o, outcome)
  PROVE  LedgerTypeOK'
  <1>1. TableTypes' /\ RecordTypes'
    BY TablesKept DEF Marked
  <1>2. DraftTypes'
    BY DEF LedgerTypeOK, DraftTypes, Marked
  <1>3. LocalTypes'
    BY DEF LedgerTypeOK, LocalTypes, Marked, Goto, Steps
  <1>4. ASSUME NEW u \in Txs PROVE Holds(u)'
    <2>1. (pc'[u] # "idle" => day'[u] \in Days) /\ (pc'[u] # "setheld" \/ u # t)
      BY DEF LedgerTypeOK, LocalTypes, Holds, Marked, Goto
    <2>2. ASSUME NEW p \in Orders, wrote'[u][p] = "defer" PROVE day'[u] < N
      BY <2>2 DEF LedgerTypeOK, DraftTypes, Holds, Marked
    <2> QED BY <2>1, <2>2 DEF LedgerTypeOK, LocalTypes, Holds, Marked, Goto
  <1>5. ASSUME NEW u \in Txs, NEW v \in Txs, mine'[u], mine'[v] PROVE u = v
    BY <1>5 DEF LedgerTypeOK, Marked
  <1> QED BY <1>1, <1>2, <1>3, <1>4, <1>5 DEF LedgerTypeOK

\* A transaction that has ended holds nothing.
LEMMA EndedTypes ==
  ASSUME LedgerTypeOK, NEW t \in Txs, Ended(t), TableTypes', RecordTypes'
  PROVE  LedgerTypeOK'
  <1>1. NoSnap \in Snapshots
    BY DEF NoSnap, Snapshots
  <1>2. DraftTypes'
    BY <1>1 DEF LedgerTypeOK, DraftTypes, Ended, Outcomes
  <1>3. LocalTypes'
    BY <1>1, LedgerAssumption DEF LedgerTypeOK, LocalTypes, Ended, Goto, Steps
  <1>4. ASSUME NEW u \in Txs PROVE Holds(u)'
    BY DEF LedgerTypeOK, LocalTypes, DraftTypes, Holds, Ended, Goto
  <1>5. ASSUME NEW u \in Txs, NEW v \in Txs, mine'[u], mine'[v] PROVE u = v
    BY <1>5 DEF LedgerTypeOK, DraftTypes, Ended
  <1> QED BY <1>2, <1>3, <1>4, <1>5 DEF LedgerTypeOK

-----------------------------------------------------------------------------
(* The type invariant *)

\* The steps of a fill, up to its writes.
LEMMA FillReadTypes ==
  ASSUME LedgerTypeOK, NEW t \in Txs, NEW o \in Orders,
         Examine(t, o) \/ BuyReadCash(t, o) \/ SellReadHeld(t, o) \/ SellReadCash(t, o)
  PROVE  LedgerTypeOK'
  <1>1. CashSeen(t) \in Int
    BY DEF LedgerTypeOK, TableTypes, DraftTypes, CashSeen
  <1>2. PICK label \in Steps \ {"idle", "setheld"} : Goto(t, label)
    BY DEF Examine, BuyReadCash, SellReadHeld, SellReadCash, Steps
  <1>3. seen' \in [Txs -> Int] /\ row' \in [Txs -> Snapshots] /\ pc[t] # "idle"
    BY <1>1 DEF Examine, BuyReadCash, SellReadHeld, SellReadCash, Working, localVars,
       LedgerTypeOK, LocalTypes
  <1>4. UNCHANGED <<tableVars, draftVars, day, todo, recordVars>>
    BY DEF Examine, BuyReadCash, SellReadHeld, SellReadCash, localVars
  <1> QED BY <1>2, <1>3, <1>4, ReadTypes

\* The two writes of a fill; only one transaction has the portfolio row.
LEMMA FillWriteTypes ==
  ASSUME LedgerTypeOK, NEW t \in Txs, NEW o \in Orders, SetCash(t, o) \/ SetHeld(t, o)
  PROVE  LedgerTypeOK'
  <1>1. Debit(t, o) \in Int /\ Credit(t, o) \in Int /\ Qty[o] \in Int /\ pc[t] # "idle"
    BY Amounts, LedgerAssumption DEF SetCash, SetHeld, Working
  <1>2. HeldSeen(t) \in Int /\ seen[t] \in Int /\ dHeld[t] \in Int
    BY DEF LedgerTypeOK, TableTypes, DraftTypes, LocalTypes, HeldSeen
  <1>3. TableTypes' /\ RecordTypes'
    BY TablesKept DEF SetCash, SetHeld
  <1>4. LocalTypes'
    BY DEF LedgerTypeOK, LocalTypes, SetCash, SetHeld, Goto, Steps, localVars
  <1>5. DraftTypes'
    <2>1. CASE SetCash(t, o)
      BY <1>1, <1>2, <2>1 DEF LedgerTypeOK, DraftTypes, SetCash
    <2>2. CASE SetHeld(t, o)
      <3>1. /\ dHeld' \in [Txs -> Int] /\ dMoved' \in [Txs -> Int] /\ dPaid' \in [Txs -> Int]
            /\ UNCHANGED <<mine, dCash, wrote, dSnap>>
        BY <1>1, <1>2, <2>2 DEF LedgerTypeOK, DraftTypes, SetHeld, Executed
      <3> QED BY <3>1 DEF LedgerTypeOK, DraftTypes
    <2> QED BY <2>1, <2>2
  <1>6. ASSUME NEW u \in Txs PROVE Holds(u)'
    BY <1>1 DEF LedgerTypeOK, LocalTypes, DraftTypes, Holds, SetCash, SetHeld, Goto, localVars
  <1>7. ASSUME NEW u \in Txs, NEW v \in Txs, mine'[u], mine'[v] PROVE u = v
    BY <1>7 DEF LedgerTypeOK, DraftTypes, SetCash, SetHeld, PortfolioFree
  <1> QED BY <1>3, <1>4, <1>5, <1>6, <1>7 DEF LedgerTypeOK

\* The steps that settle or defer an order.
LEMMA SettleTypes ==
  ASSUME LedgerTypeOK, NEW t \in Txs, NEW o \in Orders,
         MarkFilled(t, o) \/ MarkRejected(t, o) \/ Defer(t, o)
  PROVE  LedgerTypeOK'
  <1>1. pc[t] # "idle"
    BY DEF MarkFilled, MarkRejected, Defer, Working
  <1>2. PICK outcome \in Outcomes : Marked(t, o, outcome) /\ (outcome # "defer" \/ day[t] < N)
    BY DEF MarkFilled, MarkRejected, Defer, Outcomes
  <1> QED BY <1>1, <1>2, MarkedTypes

\* The steps of the snapshot.
LEMMA SnapTypes ==
  ASSUME LedgerTypeOK, NEW t \in Txs, SnapSteps(t) PROVE LedgerTypeOK'
  <1>1. CashSeen(t) \in Int /\ HeldSeen(t) \in Int /\ seen[t] \in Int
    BY DEF LedgerTypeOK, TableTypes, DraftTypes, LocalTypes, CashSeen, HeldSeen
  <1>2. CASE SnapStatus(t) \/ SnapCash(t)
    <2>1. PICK label \in Steps \ {"idle", "setheld"} : Goto(t, label)
      BY <1>2 DEF SnapStatus, SnapCash, Steps
    <2>2. seen' \in [Txs -> Int] /\ row' \in [Txs -> Snapshots] /\ pc[t] # "idle"
      BY <1>1, <1>2 DEF SnapStatus, SnapCash, localVars, LedgerTypeOK, LocalTypes
    <2> QED BY <1>2, <2>1, <2>2, ReadTypes DEF SnapStatus, SnapCash, localVars
  <1>3. CASE SnapLast(t)
    <2>1. committed \cup {0} \subseteq 0..N
      BY LedgerAssumption DEF LedgerTypeOK, RecordTypes, Days
    <2>2. row' \in [Txs -> Snapshots] /\ "snapwrite" \in Steps \ {"idle", "setheld"}
      BY <1>3, <2>1 DEF SnapLast, LedgerTypeOK, LocalTypes, TableTypes, Steps
    <2> QED BY <1>3, <2>2, ReadTypes DEF SnapLast, LedgerTypeOK, LocalTypes
  <1>4. CASE SnapHeld(t)
    <2>1. Close[day[t]] \in Int
      BY <1>4, LedgerAssumption DEF SnapHeld, LedgerTypeOK, Holds
    <2>2. row' \in [Txs -> Snapshots] /\ seen' \in [Txs -> Int]
      BY <1>1, <1>4, <2>1 DEF SnapHeld, LedgerTypeOK, LocalTypes, Snapshots
    <2>3. "snapwrite" \in Steps \ {"idle", "setheld"}
      BY DEF Steps
    <2> QED BY <1>4, <2>2, <2>3, ReadTypes DEF SnapHeld
  <1>5. CASE SnapWrite(t)
    <2>1. TableTypes' /\ RecordTypes'
      BY <1>5, TablesKept DEF SnapWrite
    <2>2. DraftTypes' /\ LocalTypes'
      BY <1>5 DEF SnapWrite, LedgerTypeOK, DraftTypes, LocalTypes, Goto, Steps, localVars
    <2>3. ASSUME NEW u \in Txs PROVE Holds(u)'
      BY <1>5 DEF SnapWrite, LedgerTypeOK, LocalTypes, Holds, Goto, localVars
    <2>4. ASSUME NEW u \in Txs, NEW v \in Txs, mine'[u], mine'[v] PROVE u = v
      BY <1>5, <2>4 DEF SnapWrite, LedgerTypeOK
    <2> QED BY <2>1, <2>2, <2>3, <2>4 DEF LedgerTypeOK
  <1> QED BY <1>2, <1>3, <1>4, <1>5 DEF SnapSteps

\* The beginning and the end of a transaction.
LEMMA BeginTypes ==
  ASSUME LedgerTypeOK, NEW t \in Txs, NEW d \in Days, Begin(t, d) PROVE LedgerTypeOK'
  <1>1. TableTypes' /\ DraftTypes'
    BY DEF Begin, LedgerTypeOK, TableTypes, DraftTypes, tableVars, draftVars
  <1>2. RecordTypes'
    BY DEF Begin, LedgerTypeOK, RecordTypes
  <1>3. LocalTypes'
    BY LedgerAssumption DEF Begin, LedgerTypeOK, LocalTypes, Goto, Steps, Days
  <1>4. ASSUME NEW u \in Txs PROVE Holds(u)'
    BY DEF Begin, LedgerTypeOK, LocalTypes, Holds, Goto, draftVars
  <1>5. ASSUME NEW u \in Txs, NEW v \in Txs, mine'[u], mine'[v] PROVE u = v
    BY <1>5 DEF Begin, LedgerTypeOK, draftVars
  <1> QED BY <1>1, <1>2, <1>3, <1>4, <1>5 DEF LedgerTypeOK

LEMMA CommitTypes ==
  ASSUME LedgerTypeOK, NEW t \in Txs, TxCommit(t) PROVE LedgerTypeOK'
  <1>1. day[t] \in Days /\ day[t] \in 0..N
    BY LedgerAssumption DEF TxCommit, LedgerTypeOK, Holds, Days
  <1>2. ASSUME NEW o \in Orders, wrote[t][o] = "defer" PROVE day[t] + 1 \in Days
    BY <1>1, <1>2, LedgerAssumption DEF LedgerTypeOK, Holds, Days
  <1>3. TableTypes'
    <2>1. on' \in [Orders -> Days]
      BY <1>2 DEF TxCommit, LedgerTypeOK, TableTypes
    <2>2. snap' \in [0..N -> Snapshots]
      BY <1>1 DEF TxCommit, LedgerTypeOK, TableTypes, DraftTypes
    <2> QED BY <2>1, <2>2 DEF TxCommit, LedgerTypeOK, TableTypes, DraftTypes, CashSeen,
               HeldSeen, Ruined
  <1>4. RecordTypes'
    BY <1>1 DEF TxCommit, LedgerTypeOK, RecordTypes, DraftTypes
  <1> QED BY <1>3, <1>4, EndedTypes DEF TxCommit

LEMMA AbortTypes ==
  ASSUME LedgerTypeOK, NEW t \in Txs, TxAbort(t) PROVE LedgerTypeOK'
  <1>1. TableTypes' /\ RecordTypes'
    BY DEF TxAbort, LedgerTypeOK, TableTypes, RecordTypes, tableVars
  <1> QED BY <1>1, EndedTypes DEF TxAbort

\* The other requests.
LEMMA RequestTypes ==
  ASSUME LedgerTypeOK, Disqualify \/ \E o \in Orders : Cancel(o) PROVE LedgerTypeOK'
  <1>1. Cardinality(committed) \in Int
    <2>1. IsFiniteSet(1..N) /\ committed \subseteq 1..N
      BY FS_Interval, LedgerAssumption DEF LedgerTypeOK, RecordTypes, Days
    <2>2. IsFiniteSet(committed)
      BY <2>1, FS_Subset
    <2> QED BY <2>2, FS_CardinalityType
  <1>2. TableTypes'
    BY DEF Disqualify, Cancel, LedgerTypeOK, TableTypes
  <1>3. RecordTypes'
    <2>1. CASE Disqualify
      <3>1. frozen' \in [cash : Int, held : Int, day : Int]
        BY <1>1, <2>1 DEF Disqualify, LedgerTypeOK, TableTypes, RecordTypes
      <3> QED BY <2>1, <3>1 DEF Disqualify, LedgerTypeOK, RecordTypes
    <2>2. CASE \E o \in Orders : Cancel(o)
      BY <2>2 DEF Cancel, LedgerTypeOK, RecordTypes, recordVars
    <2> QED BY <2>1, <2>2
  <1>4. UNCHANGED <<pc, localVars, draftVars>>
    BY DEF Disqualify, Cancel
  <1>5. LocalTypes' /\ DraftTypes' /\ \A u \in Txs : Holds(u)'
    BY <1>4 DEF LedgerTypeOK, LocalTypes, DraftTypes, Holds, localVars, draftVars
  <1>6. \A u, v \in Txs : mine'[u] /\ mine'[v] => u = v
    BY <1>4 DEF LedgerTypeOK, draftVars
  <1> QED BY <1>2, <1>3, <1>5, <1>6 DEF LedgerTypeOK

\* The type invariant of the ledger, for every value of the constants
\* (ProcessSimulationDay).
THEOREM LedgerTypeCorrect == LedgerSpec => []LedgerTypeOK
  <1>1. LedgerInit => LedgerTypeOK
    <2> SUFFICES ASSUME LedgerInit PROVE LedgerTypeOK
      OBVIOUS
    <2>1. NoSnap \in Snapshots /\ [cash |-> Capital, held |-> 0, total |-> Capital] \in Snapshots
      BY LedgerAssumption DEF NoSnap, Snapshots
    <2>2. TableTypes
      <3>1. snap \in [0..N -> Snapshots]
        BY <2>1 DEF LedgerInit
      <3>2. cash \in Int /\ held \in Int
        BY LedgerAssumption DEF LedgerInit
      <3> QED BY <3>1, <3>2 DEF LedgerInit, TableTypes
    <2>3. LocalTypes /\ DraftTypes
      BY <2>1, LedgerAssumption DEF LedgerInit, LocalTypes, DraftTypes, Steps, Outcomes
    <2>4. RecordTypes
      <3>1. NotFrozen \in [cash : Int, held : Int, day : Int]
        BY DEF NotFrozen
      <3>2. /\ paid \in Int /\ moved \in Int /\ committed \subseteq Days /\ latest \in 0..N
            /\ begun \in Nat /\ aborts \in Nat
        BY LedgerAssumption DEF LedgerInit
      <3> QED BY <3>1, <3>2 DEF LedgerInit, RecordTypes
    <2>5. \A t \in Txs : Holds(t)
      BY DEF LedgerInit, Holds
    <2>6. \A t, u \in Txs : mine[t] /\ mine[u] => t = u
      BY DEF LedgerInit
    <2> QED BY <2>2, <2>3, <2>4, <2>5, <2>6 DEF LedgerTypeOK
  <1>2. LedgerTypeOK /\ [LedgerNext]_ledgerVars => LedgerTypeOK'
    <2> SUFFICES ASSUME LedgerTypeOK, [LedgerNext]_ledgerVars PROVE LedgerTypeOK'
      OBVIOUS
    <2>1. ASSUME NEW t \in Txs, NEW d \in Days, Begin(t, d) PROVE LedgerTypeOK'
      BY <2>1, BeginTypes
    <2>2. ASSUME NEW t \in Txs, NEW o \in Orders, FillSteps(t, o) PROVE LedgerTypeOK'
      BY <2>2, FillReadTypes, FillWriteTypes, SettleTypes DEF FillSteps
    <2>3. ASSUME NEW t \in Txs, SnapSteps(t) \/ TxCommit(t) \/ TxAbort(t) PROVE LedgerTypeOK'
      BY <2>3, SnapTypes, CommitTypes, AbortTypes
    <2>4. CASE Disqualify \/ \E o \in Orders : Cancel(o)
      BY <2>4, RequestTypes
    <2>5. CASE UNCHANGED ledgerVars
      BY <2>5 DEF ledgerVars, tableVars, draftVars, localVars, recordVars, LedgerTypeOK,
         TableTypes, LocalTypes, DraftTypes, RecordTypes, Holds
    <2> QED BY <2>1, <2>2, <2>3, <2>4, <2>5 DEF LedgerNext
  <1> QED BY <1>1, <1>2, PTL DEF LedgerSpec

-----------------------------------------------------------------------------
(* The shares *)

moneyVars == <<cash, held, paid, moved, mine, dCash, dHeld, dPaid, dMoved>>

\* Only the two writes of a fill and the end of a transaction touch the portfolio.
Writes(t) ==
    \/ \E o \in Orders : SetCash(t, o) \/ SetHeld(t, o)
    \/ TxCommit(t) \/ TxAbort(t)

LEMMA OnlyWrites ==
  ASSUME [LedgerNext]_ledgerVars, ~ \E t \in Txs : Writes(t)
  PROVE  UNCHANGED moneyVars
  <1> USE DEF moneyVars, tableVars, draftVars, recordVars
  <1>1. ASSUME NEW t \in Txs, NEW d \in Days, Begin(t, d) PROVE UNCHANGED moneyVars
    BY <1>1 DEF Begin
  <1>2. ASSUME NEW t \in Txs, NEW o \in Orders, FillSteps(t, o) PROVE UNCHANGED moneyVars
    <2>1. ~SetCash(t, o) /\ ~SetHeld(t, o)
      BY DEF Writes
    <2>2. CASE Examine(t, o) \/ BuyReadCash(t, o) \/ SellReadHeld(t, o) \/ SellReadCash(t, o)
      BY <2>2 DEF Examine, BuyReadCash, SellReadHeld, SellReadCash
    <2>3. CASE MarkFilled(t, o) \/ MarkRejected(t, o) \/ Defer(t, o)
      BY <2>3 DEF MarkFilled, MarkRejected, Defer, Marked
    <2> QED BY <1>2, <2>1, <2>2, <2>3 DEF FillSteps
  <1>3. ASSUME NEW t \in Txs, SnapSteps(t) PROVE UNCHANGED moneyVars
    BY <1>3 DEF SnapSteps, SnapStatus, SnapLast, SnapCash, SnapHeld, SnapWrite
  <1>4. CASE Disqualify \/ \E o \in Orders : Cancel(o)
    BY <1>4 DEF Disqualify, Cancel
  <1>5. CASE UNCHANGED ledgerVars
    BY <1>5 DEF ledgerVars
  <1> QED BY <1>1, <1>2, <1>3, <1>4, <1>5 DEF LedgerNext, Writes

\* What a draft adds to the shares is what its executions have moved.
SharesInv ==
    /\ held = moved
    /\ \A t \in Txs : IF mine[t] THEN dHeld[t] = held + dMoved[t] ELSE dMoved[t] = 0

LEMMA SharesStep ==
  ASSUME LedgerTypeOK, SharesInv, [LedgerNext]_ledgerVars PROVE SharesInv'
  <1>1. CASE ~ \E t \in Txs : Writes(t)
    BY <1>1, OnlyWrites DEF moneyVars, SharesInv
  <1>2. ASSUME NEW t \in Txs, NEW o \in Orders, SetCash(t, o) PROVE SharesInv'
    BY <1>2 DEF SetCash, HeldSeen, SharesInv, LedgerTypeOK, DraftTypes, TableTypes, tableVars,
       recordVars
  <1>3. ASSUME NEW t \in Txs, NEW o \in Orders, SetHeld(t, o) PROVE SharesInv'
    <2>1. mine[t] /\ UNCHANGED <<held, moved, mine>> /\ Qty[o] \in Int
      BY <1>3, LedgerAssumption DEF SetHeld, Working, LedgerTypeOK, Holds, tableVars, recordVars
    <2>2. ASSUME NEW u \in Txs, mine[u] PROVE dHeld'[u] - dMoved'[u] = dHeld[u] - dMoved[u]
      BY <1>3, <2>1 DEF SetHeld, Executed, LedgerTypeOK, DraftTypes
    <2>3. ASSUME NEW u \in Txs, u # t PROVE dMoved'[u] = dMoved[u]
      BY <1>3, <2>3 DEF SetHeld, Executed, LedgerTypeOK, DraftTypes
    <2>4. dHeld' \in [Txs -> Int] /\ dMoved' \in [Txs -> Int]
      BY <1>3, FillWriteTypes DEF LedgerTypeOK, DraftTypes
    <2> QED BY <2>1, <2>2, <2>3, <2>4 DEF SharesInv, LedgerTypeOK, DraftTypes, TableTypes
  <1>4. ASSUME NEW t \in Txs, TxCommit(t) PROVE SharesInv'
    <2>1. held' = moved'
      BY <1>4 DEF TxCommit, HeldSeen, SharesInv, LedgerTypeOK, DraftTypes, TableTypes
    <2>2. ASSUME NEW u \in Txs, mine'[u] PROVE dHeld'[u] = held' + dMoved'[u]
      BY <1>4, <2>2 DEF TxCommit, Ended, HeldSeen, SharesInv, LedgerTypeOK, DraftTypes, TableTypes
    <2>3. ASSUME NEW u \in Txs, ~mine'[u] PROVE dMoved'[u] = 0
      BY <1>4, <2>3 DEF TxCommit, Ended, SharesInv, LedgerTypeOK, DraftTypes
    <2> QED BY <2>1, <2>2, <2>3 DEF SharesInv
  <1>5. ASSUME NEW t \in Txs, TxAbort(t) PROVE SharesInv'
    BY <1>5 DEF TxAbort, Ended, SharesInv, LedgerTypeOK, DraftTypes, tableVars
  <1> QED BY <1>1, <1>2, <1>3, <1>4, <1>5 DEF Writes

\* No share is lost or made, even when matches overlap: the holding is read again
\* under the lock of the portfolio row (UpsertHoldingAfterBuy,
\* ReduceHoldingAfterSell).
THEOREM SharesAreConserved == LedgerSpec => []SharesBalance
  <1>1. LedgerInit => SharesInv
    BY DEF LedgerInit, SharesInv
  <1>2. LedgerTypeOK /\ SharesInv /\ [LedgerNext]_ledgerVars => SharesInv'
    BY SharesStep
  <1>3. SharesInv => SharesBalance
    BY DEF SharesInv, SharesBalance
  <1> QED BY <1>1, <1>2, <1>3, LedgerTypeCorrect, PTL DEF LedgerSpec

-----------------------------------------------------------------------------
(* The cash, as long as matches do not overlap *)

Alone == ~overlapped => \A t, u \in Txs : pc[t] # "idle" /\ pc[u] # "idle" => t = u

\* What a fill has read is still so, and what it has written adds up; between
\* its two writes the cash is one execution ahead.
CashHeld(t) ==
    /\ IF mine[t] THEN pc[t] # "setheld" => dCash[t] = cash + dPaid[t] ELSE dPaid[t] = 0
    /\ pc[t] = "setcash" => seen[t] = CashSeen(t)
    /\ \A o \in Orders :
          /\ Working(t, o, "buycash") => o \in Buys
          /\ Working(t, o, "sellcash") => HeldSeen(t) >= Qty[o]
          /\ Working(t, o, "setcash") => o \in Buys \/ HeldSeen(t) >= Qty[o]
          /\ Working(t, o, "setheld") =>
                IF o \in Buys THEN dCash[t] = cash + dPaid[t] - Debit(t, o)
                ELSE dCash[t] = cash + dPaid[t] + Credit(t, o) /\ dHeld[t] >= Qty[o]

CashInv == Alone /\ (~overlapped => cash = Capital + paid /\ \A t \in Txs : CashHeld(t))

\* A transaction works on one order at a time.
LEMMA OneOrder ==
  ASSUME LedgerTypeOK, NEW t \in Txs, NEW o \in Orders, NEW p \in Orders,
         NEW a, NEW b, Working(t, o, a), Working(t, p, b)
  PROVE  o = p
  BY LedgerAssumption DEF Working

\* A step of one transaction leaves the idle ones as they are.
LEMMA IdleCash ==
  ASSUME NEW u \in Txs, pc'[u] = "idle", ~mine'[u], dPaid'[u] = 0 PROVE CashHeld(u)'
  BY DEF CashHeld, Working

\* Without overlap, a transaction that takes a step is the only one.
LEMMA OthersIdle ==
  ASSUME LedgerTypeOK, CashInv, ~overlapped, NEW t \in Txs, pc[t] # "idle",
         NEW u \in Txs, u # t
  PROVE  pc[u] = "idle" /\ ~mine[u] /\ dPaid[u] = 0
  BY DEF CashInv, Alone, CashHeld, LedgerTypeOK, Holds

\* The reads of a fill.
LEMMA CashReads ==
  ASSUME LedgerTypeOK, CashInv, ~overlapped, NEW t \in Txs, NEW o \in Orders,
         Examine(t, o) \/ BuyReadCash(t, o) \/ SellReadHeld(t, o) \/ SellReadCash(t, o)
  PROVE  CashHeld(t)'
  <1> USE DEF CashSeen, HeldSeen, tableVars, draftVars, localVars, recordVars, Goto
  <1>1. CashHeld(t) /\ pc \in [Txs -> Steps] /\ seen \in [Txs -> Int]
    BY DEF CashInv, LedgerTypeOK, LocalTypes
  <1>2. \A p \in Orders : p \in todo[t] /\ (\A q \in todo[t] : p <= q) => p = o
    <2>1. Working(t, o, pc[t])
      BY DEF Examine, BuyReadCash, SellReadHeld, SellReadCash, Working
    <2> QED BY <2>1, OneOrder DEF Working
  <1>3. CASE Examine(t, o)
    BY <1>1, <1>2, <1>3 DEF Examine, CashHeld, Working
  <1>4. CASE BuyReadCash(t, o)
    BY <1>1, <1>2, <1>4 DEF BuyReadCash, CashHeld, Working
  <1>5. CASE SellReadHeld(t, o)
    <2>1. HeldSeen(t) \in Int /\ Qty[o] \in Int
      BY LedgerAssumption DEF LedgerTypeOK, TableTypes, DraftTypes
    <2> QED BY <1>1, <1>2, <1>5, <2>1 DEF SellReadHeld, CashHeld, Working
  <1>6. CASE SellReadCash(t, o)
    BY <1>1, <1>2, <1>6 DEF SellReadCash, CashHeld, Working
  <1> QED BY <1>3, <1>4, <1>5, <1>6

\* The writes of a fill.
LEMMA CashWrites ==
  ASSUME LedgerTypeOK, CashInv, ~overlapped, NEW t \in Txs, NEW o \in Orders,
         SetCash(t, o) \/ SetHeld(t, o)
  PROVE  CashHeld(t)'
  <1>1. CashHeld(t) /\ Debit(t, o) \in Int /\ Credit(t, o) \in Int
    BY Amounts DEF CashInv, SetCash, SetHeld, Working
  <1>2. \A p \in Orders : p \in todo[t] /\ (\A q \in todo[t] : p <= q) => p = o
    <2>1. Working(t, o, pc[t])
      BY DEF SetCash, SetHeld, Working
    <2> QED BY <2>1, OneOrder DEF Working
  <1>3. CASE SetCash(t, o)
    <2>1. /\ pc'[t] = "setheld" /\ mine'[t] /\ UNCHANGED <<cash, dPaid, todo, day>>
          /\ dHeld'[t] = HeldSeen(t)
          /\ dCash'[t] = IF o \in Buys THEN seen[t] - Debit(t, o) ELSE seen[t] + Credit(t, o)
      BY <1>3 DEF SetCash, Goto, tableVars, LedgerTypeOK, LocalTypes, DraftTypes
    <2>2. CashSeen(t) = cash + dPaid[t] /\ seen[t] = CashSeen(t)
      BY <1>1, <1>3 DEF SetCash, Working, CashHeld, CashSeen, LedgerTypeOK, TableTypes
    <2>3. o \in Buys \/ HeldSeen(t) >= Qty[o]
      BY <1>1, <1>3 DEF SetCash, CashHeld
    <2>4. Debit(t, o)' = Debit(t, o) /\ Credit(t, o)' = Credit(t, o)
      BY <2>1 DEF Debit, Credit
    <2>5. dCash'[t] = IF o \in Buys THEN cash' + dPaid'[t] - Debit(t, o)'
                                    ELSE cash' + dPaid'[t] + Credit(t, o)'
      <3>1. seen[t] = cash' + dPaid'[t]
        BY <2>1, <2>2
      <3>2. CASE o \in Buys
        <4>1. dCash'[t] = seen[t] - Debit(t, o)
          BY <2>1, <3>2
        <4>2. cash' \in Int /\ dPaid'[t] \in Int
          BY <2>1 DEF LedgerTypeOK, TableTypes, DraftTypes
        <4> QED BY <1>1, <2>4, <3>1, <3>2, <4>1, <4>2
      <3>3. CASE o \notin Buys
        <4>1. dCash'[t] = seen[t] + Credit(t, o)
          BY <2>1, <3>3
        <4> QED BY <2>4, <3>1, <3>3, <4>1
      <3> QED BY <3>2, <3>3
    <2>6. ASSUME NEW p \in Orders, Working(t, p, "setheld")' PROVE p = o
      BY <1>2, <2>1, <2>6 DEF Working
    <2>7. ASSUME NEW p \in Orders
          PROVE  ~Working(t, p, "buycash")' /\ ~Working(t, p, "sellcash")' /\ ~Working(t, p, "setcash")'
      BY <2>1 DEF Working
    <2>8. o \in Buys \/ dHeld'[t] >= Qty[o]
      BY <2>1, <2>3
    <2> QED BY <2>1, <2>5, <2>6, <2>7, <2>8 DEF CashHeld
  <1>4. CASE SetHeld(t, o)
    <2>1. o \in Buys \/ dHeld[t] >= Qty[o]
      BY <1>1, <1>4 DEF SetHeld, CashHeld
    <2>2. /\ pc'[t] = "fill" /\ mine'[t] /\ UNCHANGED <<cash, dCash>>
          /\ dPaid'[t] = IF o \in Buys THEN dPaid[t] + (-Debit(t, o)) ELSE dPaid[t] + Credit(t, o)
      <3>1. Qty[o] \in Int /\ dHeld[t] \in Int
        BY LedgerAssumption DEF LedgerTypeOK, DraftTypes
      <3> QED BY <1>4, <2>1, <3>1 DEF SetHeld, Executed, Goto, Working, tableVars, LedgerTypeOK,
                 LocalTypes, DraftTypes, Holds
    <2>3. dCash[t] = IF o \in Buys THEN cash + dPaid[t] - Debit(t, o)
                                   ELSE cash + dPaid[t] + Credit(t, o)
      BY <1>1, <1>4 DEF SetHeld, CashHeld
    <2>4. dCash'[t] = cash' + dPaid'[t]
      BY <1>1, <2>2, <2>3 DEF LedgerTypeOK, TableTypes, DraftTypes
    <2> QED BY <2>2, <2>4 DEF CashHeld, Working
  <1> QED BY <1>3, <1>4

\* The other steps of an open transaction leave its cash alone.
LEMMA QuietCash ==
  ASSUME NEW t \in Txs, CashHeld(t), pc[t] # "setheld",
         pc'[t] \notin {"buycash", "sellcash", "setcash", "setheld"},
         UNCHANGED <<cash, mine, dCash, dPaid>>
  PROVE  CashHeld(t)'
  BY DEF CashHeld, Working

\* What a step of an open transaction has to show.
LEMMA OpenStep ==
  ASSUME LedgerTypeOK, CashInv, NEW t \in Txs, pc[t] # "idle", overlapped' = overlapped,
         \A u \in Txs \ {t} : pc'[u] = pc[u] /\ mine'[u] = mine[u] /\ dPaid'[u] = dPaid[u],
         ~overlapped => cash' = Capital + paid' /\ CashHeld(t)'
  PROVE  CashInv'
  <1>1. ASSUME ~overlapped, NEW u \in Txs, u # t
        PROVE  pc'[u] = "idle" /\ CashHeld(u)'
    <2>1. pc[u] = "idle" /\ ~mine[u] /\ dPaid[u] = 0
      BY <1>1, OthersIdle
    <2> QED BY <1>1, <2>1, IdleCash
  <1>2. Alone'
    BY <1>1 DEF Alone
  <1> QED BY <1>1, <1>2 DEF CashInv

LEMMA CashFill ==
  ASSUME LedgerTypeOK, CashInv, NEW t \in Txs, NEW o \in Orders, FillSteps(t, o)
  PROVE  CashInv'
  <1> USE DEF tableVars, localVars, draftVars, recordVars, Goto, LedgerTypeOK, LocalTypes, DraftTypes
  <1>1. CASE Examine(t, o) \/ BuyReadCash(t, o) \/ SellReadHeld(t, o) \/ SellReadCash(t, o)
    <2>1. /\ pc[t] # "idle" /\ UNCHANGED <<cash, paid, overlapped, mine, dPaid>>
          /\ \A u \in Txs \ {t} : pc'[u] = pc[u]
      BY <1>1 DEF Examine, BuyReadCash, SellReadHeld, SellReadCash, Working
    <2> QED BY <1>1, <2>1, CashReads, OpenStep DEF CashInv
  <1>2. CASE SetCash(t, o) \/ SetHeld(t, o)
    <2>1. /\ pc[t] # "idle" /\ UNCHANGED <<cash, paid, overlapped>>
          /\ \A u \in Txs \ {t} : pc'[u] = pc[u] /\ mine'[u] = mine[u] /\ dPaid'[u] = dPaid[u]
      BY <1>2 DEF SetCash, SetHeld, Executed, Working
    <2> QED BY <1>2, <2>1, CashWrites, OpenStep DEF CashInv
  <1>3. CASE MarkFilled(t, o) \/ MarkRejected(t, o) \/ Defer(t, o)
    <2>1. /\ pc[t] \notin {"idle", "setheld"} /\ pc'[t] = "order"
          /\ UNCHANGED <<cash, paid, overlapped, mine, dCash, dPaid>>
          /\ \A u \in Txs \ {t} : pc'[u] = pc[u]
      BY <1>3 DEF MarkFilled, MarkRejected, Defer, Marked, Working
    <2> QED BY <2>1, QuietCash, OpenStep DEF CashInv
  <1> QED BY <1>1, <1>2, <1>3 DEF FillSteps

LEMMA CashSnap ==
  ASSUME LedgerTypeOK, CashInv, NEW t \in Txs, SnapSteps(t) PROVE CashInv'
  <1> USE DEF tableVars, localVars, draftVars, recordVars, Goto, LedgerTypeOK, LocalTypes
  <1>1. /\ pc[t] \notin {"idle", "setheld"}
        /\ pc'[t] \in {"snaplast", "snapcash", "snapheld", "snapwrite", "commit"}
        /\ UNCHANGED <<cash, paid, overlapped, mine, dCash, dPaid>>
        /\ \A u \in Txs \ {t} : pc'[u] = pc[u]
    BY DEF SnapSteps, SnapStatus, SnapLast, SnapCash, SnapHeld, SnapWrite
  <1> QED BY <1>1, QuietCash, OpenStep DEF CashInv

\* A commit carries the cash of the draft to the table, an abort drops it.
LEMMA CashEnd ==
  ASSUME LedgerTypeOK, CashInv, NEW t \in Txs, TxCommit(t) \/ TxAbort(t) PROVE CashInv'
  <1>1. /\ pc[t] # "idle" /\ overlapped' = overlapped /\ Ended(t)
        /\ \/ pc[t] = "commit" /\ cash' = CashSeen(t) /\ paid' = paid + dPaid[t]
           \/ UNCHANGED <<cash, paid>>
    BY DEF TxCommit, TxAbort, tableVars
  <1>2. /\ pc'[t] = "idle" /\ ~mine'[t] /\ dPaid'[t] = 0
        /\ \A u \in Txs \ {t} : pc'[u] = pc[u] /\ mine'[u] = mine[u] /\ dPaid'[u] = dPaid[u]
    BY <1>1 DEF Ended, Goto, LedgerTypeOK, LocalTypes, DraftTypes
  <1>3. ASSUME ~overlapped PROVE cash' = Capital + paid'
    <2>1. cash = Capital + paid /\ CashHeld(t)
      BY <1>3 DEF CashInv
    <2>2. cash \in Int /\ paid \in Int /\ Capital \in Int /\ dPaid[t] \in Int
      BY LedgerAssumption DEF LedgerTypeOK, TableTypes, RecordTypes, DraftTypes
    <2> QED BY <1>1, <2>1, <2>2 DEF CashHeld, CashSeen
  <1> QED BY <1>1, <1>2, <1>3, IdleCash, OpenStep

LEMMA CashBegin ==
  ASSUME LedgerTypeOK, CashInv, NEW t \in Txs, NEW d \in Days, Begin(t, d) PROVE CashInv'
  <1> SUFFICES ASSUME ~overlapped' PROVE CashInv'
    BY DEF CashInv, Alone
  <1>1. ~overlapped /\ \A u \in Txs : pc[u] = "idle"
    BY DEF Begin, LedgerTypeOK, RecordTypes
  <1>2. /\ pc'[t] = "order" /\ \A u \in Txs \ {t} : pc'[u] = "idle"
        /\ UNCHANGED <<cash, paid, mine, dCash, dPaid>>
    BY <1>1 DEF Begin, Goto, LedgerTypeOK, LocalTypes, tableVars, draftVars
  <1>3. ASSUME NEW u \in Txs PROVE ~mine[u] /\ dPaid[u] = 0 /\ CashHeld(u)
    BY <1>1 DEF CashInv, CashHeld, LedgerTypeOK, Holds
  <1>4. ASSUME NEW u \in Txs PROVE CashHeld(u)'
    BY <1>1, <1>2, <1>3, QuietCash, IdleCash
  <1> QED BY <1>1, <1>2, <1>4 DEF CashInv, Alone

LEMMA CashRest ==
  ASSUME LedgerTypeOK, CashInv,
         Disqualify \/ (\E o \in Orders : Cancel(o)) \/ UNCHANGED ledgerVars
  PROVE  CashInv'
  <1>1. UNCHANGED <<cash, held, paid, overlapped, pc, day, todo, seen, mine, dCash, dHeld, dPaid>>
    BY DEF Disqualify, Cancel, ledgerVars, tableVars, localVars, draftVars, recordVars
  <1> QED BY <1>1 DEF CashInv, Alone, CashHeld, Working, CashSeen, HeldSeen, Debit, Credit

LEMMA CashAtFirst == LedgerInit => CashInv
  BY LedgerAssumption DEF LedgerInit, CashInv, Alone, CashHeld, Working

LEMMA CashStep == LedgerTypeOK /\ CashInv /\ [LedgerNext]_ledgerVars => CashInv'
  BY CashBegin, CashFill, CashSnap, CashEnd, CashRest DEF LedgerNext

\* As long as matches do not overlap no rupee is lost or made, whatever the fills
\* of a transaction, the days matched again and the aborts (fillBuy, fillSell).
THEOREM CashIsConserved == LedgerSpec => []CashBalance
  <1>1. CashInv => CashBalance
    BY DEF CashInv, CashBalance
  <1> QED BY <1>1, CashAtFirst, CashStep, LedgerTypeCorrect, PTL DEF LedgerSpec

-----------------------------------------------------------------------------
(* Solvency *)

LEMMA AtLeastOnce == ASSUME NEW q \in Nat \ {0}, NEW p \in Nat PROVE q * p >= p
  <1>1. q - 1 \in Nat /\ (q - 1) * p \in Nat
    OBVIOUS
  <1>2. (q - 1) * p = q * p - p
    OBVIOUS
  <1> QED BY <1>1, <1>2

\* A sale brings more than its fees.
LEMMA SalesPay ==
  ASSUME LedgerTypeOK, NEW t \in Txs, NEW o \in Orders, pc[t] # "idle" PROVE Credit(t, o) > 0
  <1>1. Price[day[t]] \in Nat /\ Qty[o] \in Nat \ {0} /\ Fee \in Nat /\ Price[day[t]] > Fee
    BY LedgerAssumption DEF LedgerTypeOK, Holds
  <1>2. Qty[o] * Price[day[t]] \in Nat /\ Qty[o] * Price[day[t]] >= Price[day[t]]
    BY <1>1, AtLeastOnce
  <1> QED BY <1>1, <1>2 DEF Credit

\* A transaction's draft is worth something, except that a buy may have spent all
\* before its shares are written; what it has read is enough for the order at hand.
Sound(t) ==
    /\ mine[t] => /\ dCash[t] >= 0 /\ dHeld[t] >= 0
                  /\ pc[t] # "setheld" => dCash[t] + dHeld[t] > 0
    /\ \A o \in Orders :
          /\ Working(t, o, "buycash") => o \in Buys
          /\ Working(t, o, "sellheld") \/ Working(t, o, "sellcash") => o \notin Buys
          /\ Working(t, o, "setcash") => seen[t] >= (IF o \in Buys THEN Debit(t, o) ELSE 0)
          /\ Working(t, o, "setheld") /\ o \notin Buys => dCash[t] > 0

SoundInv ==
    /\ cash >= 0 /\ held >= 0 /\ cash + held > 0
    /\ \A t \in Txs : Sound(t)

\* What a statement reads is worth something too.
LEMMA SoundReads ==
  ASSUME LedgerTypeOK, SoundInv, NEW t \in Txs
  PROVE  /\ CashSeen(t) \in Int /\ HeldSeen(t) \in Int
         /\ CashSeen(t) >= 0 /\ HeldSeen(t) >= 0
         /\ pc[t] # "setheld" => CashSeen(t) + HeldSeen(t) > 0
  BY DEF SoundInv, Sound, CashSeen, HeldSeen, LedgerTypeOK, TableTypes, DraftTypes

\* A step that leaves a transaction as it is.
LEMMA SoundKept ==
  ASSUME NEW u \in Txs, Sound(u), pc'[u] = pc[u], day'[u] = day[u], todo'[u] = todo[u],
         seen'[u] = seen[u], mine'[u] = mine[u], dCash'[u] = dCash[u], dHeld'[u] = dHeld[u]
  PROVE  Sound(u)'
  BY DEF Sound, Working, Debit

\* A step that leaves the draft alone, and comes neither to nor from the writes.
LEMMA SoundQuiet ==
  ASSUME NEW t \in Txs, Sound(t), pc[t] # "setheld",
         pc'[t] \notin {"buycash", "sellheld", "sellcash", "setcash", "setheld"},
         UNCHANGED <<mine, dCash, dHeld>>
  PROVE  Sound(t)'
  BY DEF Sound, Working

\* The steps of a fill keep its transaction sound.
LEMMA SoundFill ==
  ASSUME LedgerTypeOK, SoundInv, NEW t \in Txs, NEW o \in Orders, FillSteps(t, o)
  PROVE  Sound(t)'
  <1> USE DEF tableVars, localVars, draftVars, recordVars, Goto
  <1>1. Sound(t) /\ pc \in [Txs -> Steps] /\ seen \in [Txs -> Int]
    BY DEF SoundInv, LedgerTypeOK, LocalTypes
  <1>2. \A p \in Orders : p \in todo[t] /\ (\A q \in todo[t] : p <= q) => p = o
    <2>1. Working(t, o, pc[t])
      BY DEF FillSteps, Examine, BuyReadCash, SellReadHeld, SellReadCash, SetCash, SetHeld,
         MarkFilled, MarkRejected, Defer, Working
    <2> QED BY <2>1, OneOrder DEF Working
  <1>3. CASE Examine(t, o)
    BY <1>1, <1>2, <1>3 DEF Examine, Sound, Working
  <1>4. CASE BuyReadCash(t, o)
    <2>1. /\ o \in Buys /\ UNCHANGED <<mine, dCash, dHeld, day, todo>> /\ seen'[t] = CashSeen(t)
          /\ pc[t] = "buycash" /\ pc'[t] \in {"setcash", "reject"}
          /\ pc'[t] = "setcash" => CashSeen(t) >= Debit(t, o)
      BY <1>1, <1>4 DEF BuyReadCash, Sound, Working
    <2>2. Debit(t, o)' = Debit(t, o)
      BY <2>1 DEF Debit
    <2> QED BY <1>1, <1>2, <2>1, <2>2 DEF Sound, Working
  <1>5. CASE SellReadHeld(t, o)
    BY <1>1, <1>2, <1>5 DEF SellReadHeld, Sound, Working
  <1>6. CASE SellReadCash(t, o)
    BY <1>1, <1>2, <1>6, SoundReads DEF SellReadCash, Sound, Working
  <1>7. CASE SetCash(t, o)
    <2>1. Debit(t, o) \in Int /\ Credit(t, o) \in Int /\ Credit(t, o) > 0
      BY <1>7, Amounts, SalesPay DEF SetCash, Working
    <2>2. seen[t] \in Int /\ seen[t] >= (IF o \in Buys THEN Debit(t, o) ELSE 0)
      BY <1>1, <1>7 DEF SetCash, Sound
    <2>3. /\ mine'[t] /\ dHeld'[t] = HeldSeen(t) /\ pc'[t] = "setheld"
          /\ dCash'[t] = IF o \in Buys THEN seen[t] - Debit(t, o) ELSE seen[t] + Credit(t, o)
          /\ todo' = todo
      BY <1>7 DEF SetCash, LedgerTypeOK, LocalTypes, DraftTypes
    <2>4. dCash'[t] >= 0 /\ (o \notin Buys => dCash'[t] > 0)
      BY <2>1, <2>2, <2>3
    <2> QED BY <1>2, <2>3, <2>4, SoundReads DEF Sound, Working
  <1>8. CASE SetHeld(t, o)
    <2>1. /\ Qty[o] \in Nat \ {0} /\ dHeld[t] \in Int /\ dCash[t] \in Int
          /\ dHeld[t] >= 0 /\ dCash[t] >= 0 /\ (o \notin Buys => dCash[t] > 0)
      BY <1>1, <1>8, LedgerAssumption DEF SetHeld, Sound, Working, LedgerTypeOK, DraftTypes, Holds
    <2>2. /\ pc'[t] \in {"fill", "reject"} /\ UNCHANGED <<mine, dCash>>
          /\ \/ o \in Buys /\ dHeld'[t] = dHeld[t] + Qty[o]
             \/ o \notin Buys /\ dHeld[t] >= Qty[o] /\ dHeld'[t] = dHeld[t] - Qty[o]
             \/ o \notin Buys /\ dHeld'[t] = dHeld[t]
      BY <1>8 DEF SetHeld, Working, LedgerTypeOK, LocalTypes, DraftTypes
    <2>3. dCash'[t] >= 0 /\ dHeld'[t] >= 0 /\ dCash'[t] + dHeld'[t] > 0
      BY <2>1, <2>2
    <2> QED BY <2>2, <2>3 DEF Sound, Working
  <1>9. CASE MarkFilled(t, o) \/ MarkRejected(t, o) \/ Defer(t, o)
    <2>1. /\ pc[t] # "setheld" /\ pc'[t] = "order" /\ UNCHANGED <<mine, dCash, dHeld>>
      BY <1>1, <1>9 DEF MarkFilled, MarkRejected, Defer, Marked, Working
    <2> QED BY <1>1, <2>1, SoundQuiet
  <1> QED BY <1>3, <1>4, <1>5, <1>6, <1>7, <1>8, <1>9 DEF FillSteps

\* No step makes a portfolio worthless.
LEMMA SoundStep ==
  ASSUME LedgerTypeOK, SoundInv, [LedgerNext]_ledgerVars PROVE SoundInv'
  <1> USE DEF tableVars, localVars, draftVars, recordVars, Goto
  <1>1. ASSUME NEW t \in Txs, Sound(t)', UNCHANGED <<cash, held>>,
               \A u \in Txs \ {t} : /\ pc'[u] = pc[u] /\ day'[u] = day[u] /\ todo'[u] = todo[u]
                                     /\ seen'[u] = seen[u] /\ mine'[u] = mine[u]
                                     /\ dCash'[u] = dCash[u] /\ dHeld'[u] = dHeld[u]
        PROVE  SoundInv'
    BY <1>1, SoundKept DEF SoundInv
  <1>2. ASSUME NEW t \in Txs, NEW d \in Days, Begin(t, d) PROVE SoundInv'
    <2>1. /\ pc[t] = "idle" /\ pc'[t] = "order" /\ UNCHANGED <<cash, held, mine, dCash, dHeld, seen>>
          /\ \A u \in Txs \ {t} : pc'[u] = pc[u] /\ day'[u] = day[u] /\ todo'[u] = todo[u]
      BY <1>2 DEF Begin, LedgerTypeOK, LocalTypes
    <2> QED BY <1>1, <2>1, SoundQuiet DEF SoundInv
  <1>3. ASSUME NEW t \in Txs, NEW o \in Orders, FillSteps(t, o) PROVE SoundInv'
    <2> USE DEF LedgerTypeOK, LocalTypes, DraftTypes
    <2>1. CASE Examine(t, o) \/ BuyReadCash(t, o) \/ SellReadHeld(t, o) \/ SellReadCash(t, o)
      <3>1. /\ UNCHANGED <<cash, held, mine, dCash, dHeld, day, todo>>
            /\ \A u \in Txs \ {t} : pc'[u] = pc[u] /\ seen'[u] = seen[u]
        BY <2>1 DEF Examine, BuyReadCash, SellReadHeld, SellReadCash
      <3> QED BY <1>1, <1>3, <3>1, SoundFill
    <2>2. CASE SetCash(t, o) \/ SetHeld(t, o)
      <3>1. /\ UNCHANGED <<cash, held, day, todo>>
            /\ \A u \in Txs \ {t} : /\ pc'[u] = pc[u] /\ seen'[u] = seen[u] /\ mine'[u] = mine[u]
                                     /\ dCash'[u] = dCash[u] /\ dHeld'[u] = dHeld[u]
        BY <2>2 DEF SetCash, SetHeld
      <3> QED BY <1>1, <1>3, <3>1, SoundFill
    <2>3. CASE MarkFilled(t, o) \/ MarkRejected(t, o) \/ Defer(t, o)
      <3>1. /\ UNCHANGED <<cash, held, mine, dCash, dHeld, day, seen>>
            /\ \A u \in Txs \ {t} : pc'[u] = pc[u] /\ todo'[u] = todo[u]
        BY <2>3 DEF MarkFilled, MarkRejected, Defer, Marked
      <3> QED BY <1>1, <1>3, <3>1, SoundFill
    <2> QED BY <1>3, <2>1, <2>2, <2>3 DEF FillSteps
  <1>4. ASSUME NEW t \in Txs, SnapSteps(t) PROVE SoundInv'
    <2>1. /\ pc[t] # "setheld"
          /\ pc'[t] \in {"snaplast", "snapcash", "snapheld", "snapwrite", "commit"}
          /\ UNCHANGED <<cash, held, mine, dCash, dHeld, day, todo>>
          /\ \A u \in Txs \ {t} : pc'[u] = pc[u] /\ seen'[u] = seen[u]
      BY <1>4 DEF SnapSteps, SnapStatus, SnapLast, SnapCash, SnapHeld, SnapWrite, LedgerTypeOK,
         LocalTypes
    <2> QED BY <1>1, <2>1, SoundQuiet DEF SoundInv
  <1>5. ASSUME NEW t \in Txs, TxCommit(t) \/ TxAbort(t) PROVE SoundInv'
    <2>1. /\ Ended(t) /\ pc'[t] = "idle" /\ ~mine'[t]
          /\ \/ pc[t] = "commit" /\ cash' = CashSeen(t) /\ held' = HeldSeen(t)
             \/ UNCHANGED <<cash, held>>
      BY <1>5 DEF TxCommit, TxAbort, Ended, LedgerTypeOK, LocalTypes, DraftTypes
    <2>2. cash' >= 0 /\ held' >= 0 /\ cash' + held' > 0
      BY <2>1, SoundReads DEF SoundInv
    <2>3. Sound(t)'
      BY <2>1 DEF Sound, Working
    <2>4. ASSUME NEW u \in Txs, u # t PROVE Sound(u)'
      BY <2>1, <2>4, SoundKept DEF SoundInv, Ended, LedgerTypeOK, LocalTypes, DraftTypes
    <2> QED BY <2>2, <2>3, <2>4 DEF SoundInv
  <1>6. CASE Disqualify \/ (\E o \in Orders : Cancel(o)) \/ UNCHANGED ledgerVars
    <2>1. UNCHANGED <<cash, held, pc, day, todo, seen, mine, dCash, dHeld>>
      BY <1>6 DEF Disqualify, Cancel, ledgerVars
    <2> QED BY <2>1, SoundKept DEF SoundInv
  <1> QED BY <1>2, <1>3, <1>4, <1>5, <1>6 DEF LedgerNext

\* Without overlap, every snapshot is worth something too.
Worth(t) ==
    /\ pc[t] = "snapheld" => seen[t] = CashSeen(t)
    /\ pc[t] \in {"snapwrite", "commit"} => row[t].total > 0
    /\ pc[t] = "commit" => dSnap[t] = row[t]

WorthInv ==
    ~overlapped => /\ \A d \in committed \cup {0} : snap[d].total > 0
                   /\ \A t \in Txs : Worth(t)

\* The steps of the snapshot.
LEMMA WorthSnap ==
  ASSUME LedgerTypeOK, SoundInv, WorthInv, ~overlapped, NEW t \in Txs, SnapSteps(t)
  PROVE  Worth(t)'
  <1> USE DEF tableVars, localVars, draftVars, recordVars, Goto
  <1>1. /\ Worth(t) /\ pc \in [Txs -> Steps] /\ seen \in [Txs -> Int]
        /\ row \in [Txs -> Snapshots] /\ dSnap \in [Txs -> Snapshots]
    BY DEF WorthInv, LedgerTypeOK, LocalTypes, DraftTypes
  <1>2. CASE SnapStatus(t)
    BY <1>1, <1>2 DEF SnapStatus, Worth
  <1>3. CASE SnapLast(t)
    <2>1. row'[t].total > 0 /\ pc'[t] = "snapwrite"
      BY <1>1, <1>3 DEF SnapLast, WorthInv
    <2> QED BY <2>1 DEF Worth
  <1>4. CASE SnapCash(t)
    BY <1>1, <1>4 DEF SnapCash, Worth, CashSeen
  <1>5. CASE SnapHeld(t)
    <2>1. Close[day[t]] \in Nat \ {0}
      BY <1>5, LedgerAssumption DEF SnapHeld, LedgerTypeOK, Holds
    <2>2. /\ seen[t] \in Int /\ HeldSeen(t) \in Nat /\ seen[t] >= 0
          /\ seen[t] + HeldSeen(t) > 0
      BY <1>1, <1>5, SoundReads DEF SnapHeld, Worth
    <2>3. Close[day[t]] * HeldSeen(t) \in Nat /\ Close[day[t]] * HeldSeen(t) >= HeldSeen(t)
      BY <2>1, <2>2, AtLeastOnce
    <2>4. row'[t].total = seen[t] + HeldSeen(t) * Close[day[t]] /\ pc'[t] = "snapwrite"
      BY <1>1, <1>5 DEF SnapHeld
    <2>5. row'[t].total > 0
      BY <2>1, <2>2, <2>3, <2>4
    <2> QED BY <2>4, <2>5 DEF Worth
  <1>6. CASE SnapWrite(t)
    BY <1>1, <1>6 DEF SnapWrite, Worth
  <1> QED BY <1>2, <1>3, <1>4, <1>5, <1>6 DEF SnapSteps

LEMMA WorthStep ==
  ASSUME LedgerTypeOK, CashInv, SoundInv, WorthInv, [LedgerNext]_ledgerVars PROVE WorthInv'
  <1> USE DEF tableVars, localVars, draftVars, recordVars, Goto
  <1> SUFFICES ASSUME ~overlapped' PROVE WorthInv'
    BY DEF WorthInv
  <1>1. ~overlapped
    BY DEF LedgerNext, Begin, FillSteps, Examine, BuyReadCash, SellReadHeld, SellReadCash,
       SetCash, SetHeld, MarkFilled, MarkRejected, Defer, Marked, SnapSteps, SnapStatus,
       SnapLast, SnapCash, SnapHeld, SnapWrite, TxCommit, TxAbort, Disqualify, Cancel, ledgerVars,
       LedgerTypeOK, RecordTypes
  <1>2. (\A d \in committed \cup {0} : snap[d].total > 0) /\ \A u \in Txs : Worth(u)
    BY <1>1 DEF WorthInv
  <1>3. ASSUME NEW t \in Txs, pc[t] # "idle", Worth(t)',
               \A u \in Txs \ {t} : pc'[u] = pc[u],
               \A d \in committed' \cup {0} : snap'[d].total > 0
        PROVE  WorthInv'
    <2>1. ASSUME NEW u \in Txs, u # t PROVE Worth(u)'
      BY <1>1, <1>3, <2>1, OthersIdle DEF Worth
    <2> QED BY <1>3, <2>1 DEF WorthInv
  <1>4. ASSUME NEW t \in Txs, NEW d \in Days, Begin(t, d) PROVE WorthInv'
    <2>1. UNCHANGED <<committed, snap>> /\ \A u \in Txs : pc'[u] \in {"idle", "order"}
      BY <1>4 DEF Begin, LedgerTypeOK, LocalTypes
    <2> QED BY <1>2, <2>1 DEF WorthInv, Worth
  <1>5. ASSUME NEW t \in Txs, NEW o \in Orders, FillSteps(t, o) PROVE WorthInv'
    <2>1. /\ pc[t] # "idle" /\ pc'[t] \notin {"snapheld", "snapwrite", "commit"}
          /\ UNCHANGED <<committed, snap>> /\ \A u \in Txs \ {t} : pc'[u] = pc[u]
      BY <1>5 DEF FillSteps, Examine, BuyReadCash, SellReadHeld, SellReadCash,
         SetCash, SetHeld, MarkFilled, MarkRejected, Defer, Marked, Working, LedgerTypeOK, LocalTypes
    <2> QED BY <1>2, <1>3, <2>1 DEF Worth
  <1>6. ASSUME NEW t \in Txs, SnapSteps(t) PROVE WorthInv'
    <2>1. /\ pc[t] # "idle" /\ UNCHANGED <<committed, snap>>
          /\ \A u \in Txs \ {t} : pc'[u] = pc[u]
      BY <1>6 DEF SnapSteps, SnapStatus, SnapLast, SnapCash, SnapHeld, SnapWrite, LedgerTypeOK,
         LocalTypes
    <2> QED BY <1>1, <1>2, <1>3, <1>6, <2>1, WorthSnap
  <1>7. ASSUME NEW t \in Txs, TxCommit(t) \/ TxAbort(t) PROVE WorthInv'
    <2>1. pc[t] # "idle" /\ pc'[t] = "idle" /\ \A u \in Txs \ {t} : pc'[u] = pc[u]
      BY <1>7 DEF TxCommit, TxAbort, Ended, LedgerTypeOK, LocalTypes
    <2>2. \A d \in committed' \cup {0} : snap'[d].total > 0
      <3>1. CASE TxCommit(t)
        <4>1. dSnap[t].total > 0 /\ committed' = committed \cup {day[t]}
          BY <1>2, <3>1 DEF TxCommit, Worth
        <4>2. snap \in [0..N -> Snapshots] /\ snap' = [snap EXCEPT ![day[t]] = dSnap[t]]
          BY <3>1 DEF TxCommit, LedgerTypeOK, TableTypes
        <4>3. committed' \cup {0} \subseteq 0..N
          <5>1. committed' \subseteq Days
            BY <3>1, CommitTypes DEF LedgerTypeOK, RecordTypes
          <5> QED BY <5>1, LedgerAssumption DEF Days
        <4>4. ASSUME NEW d \in committed' \cup {0}, d # day[t] PROVE snap'[d] = snap[d]
          BY <4>2, <4>3, <4>4
        <4>5. ASSUME NEW d \in committed' \cup {0}, d = day[t] PROVE snap'[d] = dSnap[t]
          BY <4>2, <4>3, <4>5
        <4> QED BY <1>2, <4>1, <4>4, <4>5
      <3>2. CASE TxAbort(t)
        BY <1>2, <3>2 DEF TxAbort
      <3> QED BY <1>7, <3>1, <3>2
    <2> QED BY <1>3, <2>1, <2>2 DEF Worth
  <1>8. CASE Disqualify \/ (\E o \in Orders : Cancel(o)) \/ UNCHANGED ledgerVars
    <2>1. UNCHANGED <<committed, snap, pc, seen, row, dSnap, mine, dCash, cash>>
      BY <1>8 DEF Disqualify, Cancel, ledgerVars
    <2> QED BY <1>2, <2>1 DEF WorthInv, Worth, CashSeen
  <1> QED BY <1>4, <1>5, <1>6, <1>7, <1>8 DEF LedgerNext

\* No debt, no short position and never an empty portfolio, even when two matches
\* have read the same cash; without overlap the ruin rule never fires
\* (insufficient_cash, insufficient_holdings, SetDisqualifiedTx).
THEOREM StaysSolvent == LedgerSpec => []Solvent
  <1>1. LedgerInit => CashInv /\ SoundInv /\ WorthInv
    <2>1. LedgerInit => SoundInv
      BY LedgerAssumption DEF LedgerInit, SoundInv, Sound, Working
    <2>2. LedgerInit => WorthInv
      BY LedgerAssumption DEF LedgerInit, WorthInv, Worth
    <2> QED BY <2>1, <2>2, CashAtFirst
  <1>2. LedgerTypeOK /\ CashInv /\ SoundInv /\ WorthInv /\ [LedgerNext]_ledgerVars
          => CashInv' /\ SoundInv' /\ WorthInv'
    BY CashStep, SoundStep, WorthStep
  <1>3. LedgerTypeOK /\ SoundInv /\ WorthInv => Solvent
    <2> SUFFICES ASSUME LedgerTypeOK, SoundInv, WorthInv PROVE Solvent
      OBVIOUS
    <2>1. ASSUME NEW t \in Txs, pc[t] \in {"snapwrite", "commit"}, ~overlapped PROVE ~Ruined(t)
      <3>1. row[t].total \in Int /\ row[t].total > 0
        BY <2>1 DEF LedgerTypeOK, LocalTypes, Snapshots, WorthInv, Worth
      <3> QED BY <3>1 DEF Ruined
    <2> QED BY <2>1 DEF SoundInv, Solvent
  <1> QED BY <1>1, <1>2, <1>3, LedgerTypeCorrect, PTL DEF LedgerSpec

-----------------------------------------------------------------------------
(* The snapshot of the latest match *)

\* What a snapshot taken by t says of the portfolio it sees.
Portrait(t) ==
    [cash |-> CashSeen(t), held |-> HeldSeen(t),
     total |-> CashSeen(t) + HeldSeen(t) * Close[day[t]]]

\* Nothing has moved between the statements of a snapshot.
Portrayed(t) ==
    /\ pc[t] # "snaplast"
    /\ pc[t] = "snapheld" => seen[t] = CashSeen(t)
    /\ pc[t] = "snapwrite" => row[t] = Portrait(t)
    /\ pc[t] = "commit" => dSnap[t] = Portrait(t)

CurrentInv == SnapshotCurrent /\ (~overlapped /\ ~dq => \A t \in Txs : Portrayed(t))

\* A step never ends an overlap, or a disqualification.
LEMMA StillSingle ==
  ASSUME LedgerTypeOK, [LedgerNext]_ledgerVars
  PROVE  (~overlapped' => ~overlapped) /\ (~dq' => ~dq)
  <1> USE DEF tableVars, localVars, draftVars, recordVars
  <1>1. ASSUME NEW t \in Txs, NEW d \in Days, Begin(t, d) PROVE (~overlapped' => ~overlapped) /\ dq' = dq
    BY <1>1 DEF Begin, LedgerTypeOK, RecordTypes
  <1>2. ASSUME NEW t \in Txs, NEW o \in Orders, FillSteps(t, o) PROVE UNCHANGED <<overlapped, dq>>
    BY <1>2 DEF FillSteps, Examine, BuyReadCash, SellReadHeld, SellReadCash, SetCash, SetHeld,
       MarkFilled, MarkRejected, Defer, Marked
  <1>3. ASSUME NEW t \in Txs, SnapSteps(t) PROVE UNCHANGED <<overlapped, dq>>
    BY <1>3 DEF SnapSteps, SnapStatus, SnapLast, SnapCash, SnapHeld, SnapWrite
  <1>4. ASSUME NEW t \in Txs, TxCommit(t) \/ TxAbort(t)
        PROVE  overlapped' = overlapped /\ (~dq' => ~dq)
    <2>1. CASE TxCommit(t)
      <3>1. overlapped' = overlapped /\ dq' = (dq \/ Ruined(t))
        BY <2>1 DEF TxCommit
      <3> QED BY <3>1 DEF Ruined, LedgerTypeOK, TableTypes
    <2>2. CASE TxAbort(t)
      BY <2>2 DEF TxAbort
    <2> QED BY <1>4, <2>1, <2>2
  <1>5. CASE Disqualify \/ (\E o \in Orders : Cancel(o)) \/ UNCHANGED ledgerVars
    BY <1>5 DEF Disqualify, Cancel, ledgerVars
  <1> QED BY <1>1, <1>2, <1>3, <1>4, <1>5 DEF LedgerNext

\* The statements of a snapshot.
LEMMA PortraitSnap ==
  ASSUME LedgerTypeOK, CurrentInv, ~overlapped, ~dq, NEW t \in Txs, SnapSteps(t)
  PROVE  Portrayed(t)'
  <1> USE DEF tableVars, localVars, draftVars, recordVars, Goto
  <1>1. /\ Portrayed(t) /\ pc \in [Txs -> Steps] /\ seen \in [Txs -> Int]
        /\ row \in [Txs -> Snapshots] /\ dSnap \in [Txs -> Snapshots]
    BY DEF CurrentInv, LedgerTypeOK, LocalTypes, DraftTypes
  <1>2. UNCHANGED <<cash, held, mine, dCash, dHeld, day>>
    BY DEF SnapSteps, SnapStatus, SnapLast, SnapCash, SnapHeld, SnapWrite
  <1>3. UNCHANGED <<CashSeen(t), HeldSeen(t), Portrait(t)>>
    BY <1>2 DEF CashSeen, HeldSeen, Portrait
  <1>4. CASE SnapStatus(t) \/ SnapLast(t)
    BY <1>1, <1>4 DEF SnapStatus, SnapLast, Portrayed
  <1>5. CASE SnapCash(t)
    BY <1>1, <1>3, <1>5 DEF SnapCash, Portrayed
  <1>6. CASE SnapHeld(t)
    <2>1. row'[t] = Portrait(t) /\ pc'[t] = "snapwrite"
      BY <1>1, <1>6 DEF SnapHeld, Portrayed, Portrait
    <2> QED BY <1>3, <2>1 DEF Portrayed
  <1>7. CASE SnapWrite(t)
    <2>1. dSnap'[t] = Portrait(t) /\ pc'[t] = "commit"
      BY <1>1, <1>7 DEF SnapWrite, Portrayed
    <2> QED BY <1>3, <2>1 DEF Portrayed
  <1> QED BY <1>4, <1>5, <1>6, <1>7 DEF SnapSteps

LEMMA CurrentStep ==
  ASSUME LedgerTypeOK, CashInv, CurrentInv, [LedgerNext]_ledgerVars PROVE CurrentInv'
  <1> USE DEF tableVars, localVars, draftVars, recordVars, Goto
  <1> SUFFICES ASSUME ~overlapped', ~dq' PROVE CurrentInv'
    BY DEF CurrentInv, SnapshotCurrent
  <1>1. ~overlapped /\ ~dq
    BY StillSingle
  <1>2. SnapshotCurrent /\ \A u \in Txs : Portrayed(u)
    BY <1>1 DEF CurrentInv
  <1>3. ASSUME NEW t \in Txs, pc[t] # "idle", Portrayed(t)',
               \A u \in Txs \ {t} : pc'[u] = pc[u], SnapshotCurrent'
        PROVE  CurrentInv'
    <2>1. ASSUME NEW u \in Txs, u # t PROVE Portrayed(u)'
      BY <1>1, <1>3, <2>1, OthersIdle DEF Portrayed
    <2> QED BY <1>3, <2>1 DEF CurrentInv
  <1>4. ASSUME UNCHANGED <<cash, held, snap, latest>> PROVE SnapshotCurrent'
    BY <1>1, <1>2, <1>4 DEF SnapshotCurrent
  <1>5. ASSUME NEW t \in Txs, NEW d \in Days, Begin(t, d) PROVE CurrentInv'
    <2>1. UNCHANGED <<cash, held, snap, latest>> /\ \A u \in Txs : pc[u] = "idle"
      BY <1>1, <1>5 DEF Begin, LedgerTypeOK, RecordTypes
    <2>2. \A u \in Txs : pc'[u] \in {"idle", "order"}
      BY <1>5, <2>1 DEF Begin, LedgerTypeOK, LocalTypes
    <2> QED BY <1>4, <2>1, <2>2 DEF CurrentInv, Portrayed
  <1>6. ASSUME NEW t \in Txs, NEW o \in Orders, FillSteps(t, o) PROVE CurrentInv'
    <2>1. /\ pc[t] # "idle" /\ pc'[t] \notin {"snaplast", "snapheld", "snapwrite", "commit"}
          /\ UNCHANGED <<cash, held, snap, latest>> /\ \A u \in Txs \ {t} : pc'[u] = pc[u]
      BY <1>6 DEF FillSteps, Examine, BuyReadCash, SellReadHeld, SellReadCash,
         SetCash, SetHeld, MarkFilled, MarkRejected, Defer, Marked, Working, LedgerTypeOK, LocalTypes
    <2> QED BY <1>3, <1>4, <2>1 DEF Portrayed
  <1>7. ASSUME NEW t \in Txs, SnapSteps(t) PROVE CurrentInv'
    <2>1. /\ pc[t] # "idle" /\ UNCHANGED <<cash, held, snap, latest>>
          /\ \A u \in Txs \ {t} : pc'[u] = pc[u]
      BY <1>7 DEF SnapSteps, SnapStatus, SnapLast, SnapCash, SnapHeld, SnapWrite, LedgerTypeOK,
         LocalTypes
    <2> QED BY <1>1, <1>3, <1>4, <1>7, <2>1, PortraitSnap
  <1>8. ASSUME NEW t \in Txs, TxCommit(t) \/ TxAbort(t) PROVE CurrentInv'
    <2>1. pc[t] # "idle" /\ pc'[t] = "idle" /\ \A u \in Txs \ {t} : pc'[u] = pc[u]
      BY <1>8 DEF TxCommit, TxAbort, Ended, LedgerTypeOK, LocalTypes
    <2>2. CASE TxCommit(t)
      <3>1. snap'[day[t]] = Portrait(t)
        <4>1. day[t] \in 0..N /\ snap \in [0..N -> Snapshots]
          BY DEF LedgerTypeOK, TableTypes, LocalTypes
        <4> QED BY <1>2, <2>2, <4>1 DEF TxCommit, Portrayed
      <3>2. cash' = CashSeen(t) /\ held' = HeldSeen(t) /\ latest' = day[t]
        BY <2>2 DEF TxCommit
      <3>3. SnapshotCurrent'
        BY <3>1, <3>2 DEF SnapshotCurrent, Portrait
      <3> QED BY <1>3, <2>1, <3>3 DEF Portrayed
    <2>3. CASE TxAbort(t)
      <3>1. SnapshotCurrent'
        BY <1>4, <2>3 DEF TxAbort
      <3> QED BY <1>3, <2>1, <3>1 DEF Portrayed
    <2> QED BY <1>8, <2>2, <2>3
  <1>9. CASE Disqualify \/ (\E o \in Orders : Cancel(o)) \/ UNCHANGED ledgerVars
    <2>1. UNCHANGED <<cash, held, snap, latest, pc, seen, row, day, dSnap, mine, dCash, dHeld>>
      BY <1>9 DEF Disqualify, Cancel, ledgerVars
    <2> QED BY <1>2, <1>4, <2>1 DEF CurrentInv, Portrayed, Portrait, CashSeen, HeldSeen
  <1> QED BY <1>5, <1>6, <1>7, <1>8, <1>9 DEF LedgerNext

\* Between two matches that do not overlap, the snapshot of the latest matched day is
\* the portfolio itself at closing prices, after any fills, rematched days and aborts:
\* it is read by two statements, and nothing comes between them and the commit
\* (ProcessSimulationDay).
THEOREM SnapshotStaysCurrent == LedgerSpec => []SnapshotCurrent
  <1>1. LedgerInit => CurrentInv
    BY DEF LedgerInit, CurrentInv, SnapshotCurrent, Portrayed
  <1>2. CurrentInv => SnapshotCurrent
    BY DEF CurrentInv
  <1> QED BY <1>1, <1>2, CurrentStep, CashAtFirst, CashStep, LedgerTypeCorrect, PTL DEF LedgerSpec

-----------------------------------------------------------------------------
(* An agent disqualified between two matches *)

\* The matched days are the first ones, and so is the day of an open match.
InOrder ==
    /\ \E k \in 0..N : committed = 1..k
    /\ \A t \in Txs : pc[t] # "idle" => 1..(day[t] - 1) \subseteq committed

\* What a disqualified agent's matches do: they reject, and copy the last snapshot.
Inert(t) ==
    /\ pc[t] \in {"idle", "order", "reject", "snaplast", "snapwrite", "commit"} /\ ~mine[t]
    /\ pc[t] = "snapwrite" => row[t] = snap[frozen.day]
    /\ pc[t] = "commit" => dSnap[t] = snap[frozen.day]

FrozenInv ==
    frozen # NotFrozen =>
        /\ dq /\ cash = frozen.cash /\ held = frozen.held
        /\ frozen.day \in committed \cup {0}
        /\ \A d \in committed : d >= frozen.day => snap[d] = snap[frozen.day]
        /\ \A t \in Txs : Inert(t)

LEMMA InOrderStep ==
  ASSUME LedgerTypeOK, InOrder, [LedgerNext]_ledgerVars PROVE InOrder'
  <1> USE DEF tableVars, localVars, draftVars, recordVars, Goto
  <1>0. /\ \E k \in 0..N : committed = 1..k
        /\ \A t \in Txs : pc[t] # "idle" => 1..(day[t] - 1) \subseteq committed
    BY DEF InOrder
  <1>1. ASSUME UNCHANGED committed,
               \A u \in Txs : pc'[u] # "idle" => day'[u] = day[u] /\ pc[u] # "idle"
        PROVE  InOrder'
    BY <1>0, <1>1 DEF InOrder
  <1>2. ASSUME NEW t \in Txs, NEW d \in Days, Begin(t, d) PROVE InOrder'
    <2>1. UNCHANGED committed /\ 1..(d - 1) \subseteq committed
      BY <1>2 DEF Begin
    <2>2. day'[t] = d /\ \A u \in Txs \ {t} : pc'[u] = pc[u] /\ day'[u] = day[u]
      BY <1>2 DEF Begin, LedgerTypeOK, LocalTypes
    <2> QED BY <1>0, <2>1, <2>2 DEF InOrder
  <1>3. ASSUME NEW t \in Txs, NEW o \in Orders, FillSteps(t, o) PROVE InOrder'
    <2>1. pc[t] # "idle" /\ UNCHANGED <<committed, day>> /\ \A u \in Txs \ {t} : pc'[u] = pc[u]
      BY <1>3 DEF FillSteps, Examine, BuyReadCash, SellReadHeld, SellReadCash,
         SetCash, SetHeld, MarkFilled, MarkRejected, Defer, Marked, Working, LedgerTypeOK, LocalTypes
    <2> QED BY <1>1, <2>1
  <1>4. ASSUME NEW t \in Txs, SnapSteps(t) PROVE InOrder'
    <2>1. pc[t] # "idle" /\ UNCHANGED <<committed, day>> /\ \A u \in Txs \ {t} : pc'[u] = pc[u]
      BY <1>4 DEF SnapSteps, SnapStatus, SnapLast, SnapCash, SnapHeld, SnapWrite, LedgerTypeOK,
         LocalTypes
    <2> QED BY <1>1, <2>1
  <1>5. ASSUME NEW t \in Txs, TxCommit(t) \/ TxAbort(t) PROVE InOrder'
    <2>1. /\ pc[t] # "idle" /\ pc'[t] = "idle"
          /\ \A u \in Txs \ {t} : pc'[u] = pc[u] /\ day'[u] = day[u]
      BY <1>5 DEF TxCommit, TxAbort, Ended, LedgerTypeOK, LocalTypes
    <2>2. CASE TxCommit(t)
      <3>1. committed' = committed \cup {day[t]} /\ day[t] \in Days
        BY <2>1, <2>2 DEF TxCommit, LedgerTypeOK, Holds
      <3>2. PICK k \in 0..N : committed = 1..k
        BY <1>0
      <3>3. 1..(day[t] - 1) \subseteq 1..k
        BY <1>0, <2>1, <3>2
      <3>4. day[t] \in 1..N /\ day[t] - 1 <= k
        <4>1. day[t] \in 1..N
          BY <3>1 DEF Days
        <4>2. CASE day[t] = 1
          BY <4>2, LedgerAssumption
        <4>3. CASE day[t] # 1
          <5>1. day[t] - 1 \in 1..(day[t] - 1)
            BY <4>1, <4>3, LedgerAssumption
          <5> QED BY <3>3, <4>1, <5>1
        <4> QED BY <4>1, <4>2, <4>3
      <3>5. \E m \in 0..N : committed' = 1..m
        <4>1. CASE day[t] <= k
          <5>1. committed' = 1..k
            BY <3>1, <3>2, <3>4, <4>1, LedgerAssumption
          <5> QED BY <5>1
        <4>2. CASE day[t] > k
          <5>1. day[t] = k + 1
            BY <3>4, <4>2, LedgerAssumption
          <5>2. committed' = 1..(k + 1) /\ k + 1 \in 0..N
            BY <3>1, <3>2, <3>4, <5>1, LedgerAssumption
          <5> QED BY <5>2
        <4> QED BY <3>4, <4>1, <4>2, LedgerAssumption
      <3> QED BY <1>0, <2>1, <3>1, <3>5 DEF InOrder
    <2>3. CASE TxAbort(t)
      BY <1>1, <2>1, <2>3 DEF TxAbort
    <2> QED BY <1>5, <2>2, <2>3
  <1>6. CASE Disqualify \/ (\E o \in Orders : Cancel(o)) \/ UNCHANGED ledgerVars
    BY <1>1, <1>6 DEF Disqualify, Cancel, ledgerVars
  <1> QED BY <1>2, <1>3, <1>4, <1>5, <1>6 DEF LedgerNext

\* The steps of a transaction after the disqualification.
LEMMA InertSteps ==
  ASSUME LedgerTypeOK, FrozenInv, frozen # NotFrozen, NEW t \in Txs,
         (\E o \in Orders : FillSteps(t, o)) \/ SnapSteps(t)
  PROVE  Inert(t)'
  <1> USE DEF tableVars, localVars, draftVars, recordVars, Goto
  <1>1. /\ Inert(t) /\ dq /\ pc \in [Txs -> Steps] /\ row \in [Txs -> Snapshots]
        /\ dSnap \in [Txs -> Snapshots]
    BY DEF FrozenInv, LedgerTypeOK, LocalTypes, DraftTypes
  <1>2. ASSUME NEW o \in Orders, FillSteps(t, o) PROVE Inert(t)'
    <2>1. Examine(t, o) \/ MarkRejected(t, o)
      BY <1>1, <1>2 DEF FillSteps, BuyReadCash, SellReadHeld, SellReadCash, SetCash, SetHeld,
         MarkFilled, Defer, Working, Inert
    <2>2. CASE Examine(t, o)
      BY <1>1, <2>2 DEF Examine, Inert
    <2>3. CASE MarkRejected(t, o)
      BY <1>1, <2>3 DEF MarkRejected, Marked, Inert
    <2> QED BY <2>1, <2>2, <2>3
  <1>3. CASE SnapStatus(t)
    BY <1>1, <1>3 DEF SnapStatus, Inert
  <1>4. CASE SnapLast(t)
    <2>1. PICK d \in committed \cup {0} :
                 (\A e \in committed : e <= d) /\ row' = [row EXCEPT ![t] = snap[d]]
      BY <1>4 DEF SnapLast
    <2>2. snap[d] = snap[frozen.day]
      <3>1. /\ frozen.day \in committed \cup {0}
            /\ \A e \in committed : e >= frozen.day => snap[e] = snap[frozen.day]
        BY DEF FrozenInv
      <3>2. committed \subseteq 1..N
        BY DEF LedgerTypeOK, RecordTypes, Days
      <3>3. CASE d = 0
        <4>1. frozen.day \notin committed
          <5>1. \A e \in committed : e <= 0 /\ e >= 1
            BY <2>1, <3>2, <3>3
          <5>2. \A e \in committed : FALSE
            BY <3>2, <5>1
          <5> QED BY <5>2
        <4> QED BY <3>1, <3>3, <4>1
      <3>4. CASE d # 0
        <4>1. d \in committed /\ d \in 1..N
          BY <3>2, <3>4
        <4>2. d >= frozen.day
          <5>1. CASE frozen.day = 0
            BY <4>1, <5>1, LedgerAssumption
          <5>2. CASE frozen.day \in committed
            <6>1. frozen.day \in 1..N /\ frozen.day <= d
              BY <2>1, <3>2, <5>2
            <6> QED BY <4>1, <6>1, LedgerAssumption
          <5> QED BY <3>1, <5>1, <5>2
        <4> QED BY <3>1, <4>1, <4>2
      <3> QED BY <3>3, <3>4
    <2>3. pc'[t] = "snapwrite" /\ row'[t] = snap[d] /\ UNCHANGED <<snap, frozen, mine>>
      BY <1>1, <1>4, <2>1 DEF SnapLast
    <2> QED BY <1>1, <2>2, <2>3 DEF Inert
  <1>5. CASE SnapWrite(t)
    BY <1>1, <1>5 DEF SnapWrite, Inert
  <1>6. ~SnapCash(t) /\ ~SnapHeld(t)
    BY <1>1 DEF SnapCash, SnapHeld, Inert
  <1> QED BY <1>2, <1>3, <1>4, <1>5, <1>6 DEF SnapSteps

LEMMA FrozenStep ==
  ASSUME LedgerTypeOK, InOrder, FrozenInv, [LedgerNext]_ledgerVars PROVE FrozenInv'
  <1> USE DEF tableVars, localVars, draftVars, recordVars, Goto
  <1> SUFFICES ASSUME frozen' # NotFrozen PROVE FrozenInv'
    BY DEF FrozenInv
  <1>1. ASSUME NEW t \in Txs, frozen # NotFrozen, Inert(t)',
               UNCHANGED <<frozen, dq, cash, held, committed, snap>>,
               \A u \in Txs \ {t} : /\ pc'[u] = pc[u] /\ mine'[u] = mine[u] /\ row'[u] = row[u]
                                     /\ dSnap'[u] = dSnap[u]
        PROVE  FrozenInv'
    <2>1. ASSUME NEW u \in Txs, u # t PROVE Inert(u)'
      <3>1. Inert(u)
        BY <1>1 DEF FrozenInv
      <3> QED BY <1>1, <2>1, <3>1 DEF Inert
    <2> QED BY <1>1, <2>1 DEF FrozenInv
  <1>2. ASSUME NEW t \in Txs, NEW d \in Days, Begin(t, d) PROVE FrozenInv'
    <2>1. /\ UNCHANGED <<frozen, dq, cash, held, committed, snap, mine, row, dSnap>>
          /\ pc'[t] = "order" /\ \A u \in Txs \ {t} : pc'[u] = pc[u]
      BY <1>2 DEF Begin, LedgerTypeOK, LocalTypes
    <2> QED BY <1>1, <2>1 DEF FrozenInv, Inert
  <1>3. ASSUME NEW t \in Txs, (\E o \in Orders : FillSteps(t, o)) \/ SnapSteps(t) PROVE FrozenInv'
    <2>1. UNCHANGED frozen
      BY <1>3 DEF FillSteps, Examine, BuyReadCash, SellReadHeld, SellReadCash, SetCash, SetHeld,
         MarkFilled, MarkRejected, Defer, Marked, SnapSteps, SnapStatus, SnapLast, SnapCash,
         SnapHeld, SnapWrite
    <2>2. UNCHANGED <<dq, cash, held, committed, snap>>
      BY <1>3 DEF FillSteps, Examine, BuyReadCash, SellReadHeld, SellReadCash, SetCash, SetHeld,
         MarkFilled, MarkRejected, Defer, Marked, SnapSteps, SnapStatus, SnapLast, SnapCash,
         SnapHeld, SnapWrite
    <2>3. ASSUME NEW u \in Txs \ {t} PROVE pc'[u] = pc[u] /\ mine'[u] = mine[u]
      BY <1>3 DEF FillSteps, Examine, BuyReadCash, SellReadHeld, SellReadCash, SetCash, SetHeld,
         MarkFilled, MarkRejected, Defer, Marked, SnapSteps, SnapStatus, SnapLast, SnapCash,
         SnapHeld, SnapWrite, LedgerTypeOK, LocalTypes, DraftTypes
    <2>4. ASSUME NEW u \in Txs \ {t} PROVE row'[u] = row[u] /\ dSnap'[u] = dSnap[u]
      BY <1>3 DEF FillSteps, Examine, BuyReadCash, SellReadHeld, SellReadCash, SetCash, SetHeld,
         MarkFilled, MarkRejected, Defer, Marked, SnapSteps, SnapStatus, SnapLast, SnapCash,
         SnapHeld, SnapWrite, LedgerTypeOK, LocalTypes, DraftTypes
    <2>5. Inert(t)'
      BY <1>3, <2>1, InertSteps
    <2> QED BY <1>1, <2>1, <2>2, <2>3, <2>4, <2>5
  <1>4. ASSUME NEW t \in Txs, TxCommit(t) PROVE FrozenInv'
    <2>1. frozen # NotFrozen /\ frozen' = frozen /\ Inert(t) /\ pc[t] = "commit"
      BY <1>4 DEF TxCommit, FrozenInv
    <2>2. cash' = cash /\ held' = held /\ dq'
      BY <1>4, <2>1 DEF TxCommit, CashSeen, HeldSeen, Inert, FrozenInv
    <2>3. day[t] \in Days /\ committed' = committed \cup {day[t]}
      BY <1>4, <2>1 DEF TxCommit, LedgerTypeOK, Holds
    <2>4. frozen.day \in committed \cup {0} /\ committed \subseteq 1..N
      BY <2>1 DEF FrozenInv, LedgerTypeOK, RecordTypes, Days
    <2>5. snap \in [0..N -> Snapshots] /\ snap' = [snap EXCEPT ![day[t]] = snap[frozen.day]]
      BY <1>4, <2>1 DEF TxCommit, LedgerTypeOK, TableTypes, Inert
    <2>6. day[t] \in 0..N /\ frozen.day \in 0..N /\ committed' \subseteq 0..N
      <3>1. 1..N \subseteq 0..N /\ 0 \in 0..N
        BY LedgerAssumption
      <3>2. day[t] \in 1..N
        BY <2>3 DEF Days
      <3>3. committed' \subseteq 1..N
        BY <2>3, <2>4, <3>2
      <3> QED BY <2>4, <3>1, <3>2, <3>3
    <2>7. snap'[frozen.day] = snap[frozen.day] /\ snap'[day[t]] = snap[frozen.day]
      BY <2>5, <2>6
    <2>8. ASSUME NEW d \in committed', d >= frozen'.day PROVE snap'[d] = snap'[frozen'.day]
      <3>1. CASE d = day[t]
        BY <2>1, <2>7, <3>1
      <3>2. CASE d # day[t]
        <4>1. snap'[d] = snap[d] /\ d \in committed
          BY <2>3, <2>5, <2>6, <3>2
        <4>2. snap[d] = snap[frozen.day]
          BY <2>1, <2>8, <4>1 DEF FrozenInv
        <4> QED BY <2>1, <2>7, <4>1, <4>2
      <3> QED BY <3>1, <3>2
    <2>9. ASSUME NEW u \in Txs PROVE Inert(u)'
      <3>1. CASE u = t
        BY <1>4, <3>1 DEF TxCommit, Ended, Inert, LedgerTypeOK, LocalTypes, DraftTypes
      <3>2. CASE u # t
        <4>1. Inert(u)
          BY <2>1 DEF FrozenInv
        <4>2. pc'[u] = pc[u] /\ mine'[u] = mine[u] /\ row'[u] = row[u] /\ dSnap'[u] = dSnap[u]
          BY <1>4, <3>2 DEF TxCommit, Ended, LedgerTypeOK, LocalTypes, DraftTypes
        <4> QED BY <2>1, <2>7, <4>1, <4>2 DEF Inert
      <3> QED BY <3>1, <3>2
    <2>10. cash' = frozen'.cash /\ held' = frozen'.held /\ frozen'.day \in committed' \cup {0}
      BY <2>1, <2>2, <2>3, <2>4 DEF FrozenInv
    <2> QED BY <2>2, <2>8, <2>9, <2>10 DEF FrozenInv
  <1>5. ASSUME NEW t \in Txs, TxAbort(t) PROVE FrozenInv'
    <2>1. UNCHANGED <<frozen, dq, cash, held, committed, snap>> /\ Ended(t)
      BY <1>5 DEF TxAbort
    <2>2. /\ pc'[t] = "idle" /\ ~mine'[t]
          /\ \A u \in Txs \ {t} : /\ pc'[u] = pc[u] /\ mine'[u] = mine[u] /\ row'[u] = row[u]
                                   /\ dSnap'[u] = dSnap[u]
      BY <2>1 DEF Ended, LedgerTypeOK, LocalTypes, DraftTypes
    <2>3. Inert(t)'
      BY <2>2 DEF Inert
    <2> QED BY <1>1, <2>1, <2>2, <2>3
  <1>6. CASE Disqualify
    <2>1. /\ dq' /\ UNCHANGED <<cash, held, committed, snap, pc, mine, row, dSnap>>
          /\ frozen = NotFrozen
      BY <1>6 DEF Disqualify, FrozenInv
    <2>2. /\ \A u \in Txs : pc[u] = "idle"
          /\ frozen' = [cash |-> cash, held |-> held, day |-> Cardinality(committed)]
      BY <1>6, <2>1 DEF Disqualify
    <2>3. PICK k \in 0..N : committed = 1..k
      BY DEF InOrder
    <2>4. Cardinality(committed) = k
      <3>1. Cardinality(1..k) = IF 1 > k THEN 0 ELSE k - 1 + 1
        BY FS_Interval, LedgerAssumption
      <3> QED BY <2>3, <3>1, LedgerAssumption
    <2>5. frozen'.cash = cash' /\ frozen'.held = held' /\ frozen'.day = k
      BY <2>1, <2>2, <2>4
    <2>6. k \in committed \cup {0} /\ \A d \in committed : d >= k => d = k
      BY <2>3, LedgerAssumption
    <2>7. \A d \in committed' : d >= frozen'.day => snap'[d] = snap'[frozen'.day]
      BY <2>1, <2>5, <2>6
    <2>8. ASSUME NEW u \in Txs PROVE Inert(u)'
      BY <2>1, <2>2 DEF Inert, LedgerTypeOK, Holds
    <2> QED BY <2>1, <2>5, <2>6, <2>7, <2>8 DEF FrozenInv
  <1>7. CASE (\E o \in Orders : Cancel(o)) \/ UNCHANGED ledgerVars
    <2>1. UNCHANGED <<frozen, dq, cash, held, committed, snap, pc, mine, row, dSnap>>
      BY <1>7 DEF Cancel, ledgerVars
    <2> QED BY <2>1 DEF FrozenInv, Inert
  <1> QED BY <1>2, <1>3, <1>4, <1>5, <1>6, <1>7 DEF LedgerNext

\* An agent disqualified while no match was open keeps its cash and shares, and every
\* later day, or day matched again, gets the snapshot of the last matched day:
\* its matches reject what they list, and copy (AgentStatusTx, LastSnapshotTx).
THEOREM FreezeHolds == LedgerSpec => []QuietDisqualificationFreezes
  <1>1. LedgerInit => InOrder /\ FrozenInv
    <2>1. LedgerInit => InOrder
      <3> SUFFICES ASSUME LedgerInit PROVE InOrder
        OBVIOUS
      <3>1. 0 \in 0..N /\ committed = 1..0
        BY LedgerAssumption DEF LedgerInit
      <3> QED BY <3>1 DEF LedgerInit, InOrder
    <2>2. LedgerInit => FrozenInv
      BY DEF LedgerInit, FrozenInv
    <2> QED BY <2>1, <2>2
  <1>2. FrozenInv => QuietDisqualificationFreezes
    BY DEF FrozenInv, QuietDisqualificationFreezes
  <1> QED BY <1>1, <1>2, InOrderStep, FrozenStep, LedgerTypeCorrect, PTL DEF LedgerSpec

-----------------------------------------------------------------------------
(* What an open match has executed *)

\* The sums of Settlement are those of the library.
LEMMA SameBalance ==
  ASSUME NEW start, NEW f, NEW S
  PROVE  Settlement!Balance(start, f, S) = start + SumFunctionOnSet(f, S)
  BY DEF Settlement!Balance, Settlement!SumFunctionOnSet, SumFunctionOnSet, FoldFunctionOnSet,
     MapThenFoldSet, Settlement!FoldFunctionOnSet, Settlement!MapThenFoldSet

LEMMA FlowTypes ==
  ASSUME NEW d \in Days, NEW o \in Orders
  PROVE  Settlement!Flow(d)[o] \in Int /\ Settlement!Shares[o] \in Int
  <1>1. Qty[o] \in Int /\ Price[d] \in Int /\ Fee \in Int
    BY LedgerAssumption
  <1> QED BY <1>1 DEF Settlement!Flow, Settlement!Shares

Done(t) == {o \in Orders : wrote[t][o] \in {"fill", "ghost"} \/ Working(t, o, "fill")}

\* An open match takes its orders one after another, and has added up what the
\* ones it executed bring.
Tallied(t) ==
    /\ \A o \in todo[t], p \in Orders : wrote[t][p] # "none" => p < o
    /\ dPaid[t] = SumFunctionOnSet(Settlement!Flow(day[t]), Done(t))
    /\ dMoved[t] = SumFunctionOnSet(Settlement!Shares, Done(t))

\* Nothing that counts changes for u.
LEMMA TallyKept ==
  ASSUME NEW u \in Txs, Tallied(u), Done(u)' = Done(u), todo'[u] \subseteq todo[u],
         wrote'[u] = wrote[u], day'[u] = day[u], dPaid'[u] = dPaid[u], dMoved'[u] = dMoved[u]
  PROVE  Tallied(u)'
  BY DEF Tallied

LEMMA DoneKept ==
  ASSUME NEW u \in Txs, wrote'[u] = wrote[u], pc[u] # "fill", pc'[u] # "fill"
  PROVE  Done(u)' = Done(u)
  BY DEF Done, Working

\* With no execution the sums are zero.
LEMMA TallyNone ==
  ASSUME NEW u \in Txs, \A o \in Orders : wrote[u][o] = "none", pc[u] # "fill",
         dPaid[u] = 0, dMoved[u] = 0
  PROVE  Tallied(u)
  <1>1. Done(u) = {}
    BY DEF Done, Working
  <1> QED BY <1>1, SumEmpty DEF Tallied

\* The order that a step works on is not among those done.
LEMMA NotDone ==
  ASSUME LedgerTypeOK, NEW t \in Txs, Tallied(t), NEW o \in Orders, NEW label,
         Working(t, o, label), label # "fill"
  PROVE  wrote[t][o] = "none" /\ o \notin Done(t)
  <1>1. o \in Nat /\ o \in todo[t]
    BY LedgerAssumption DEF Working
  <1>2. wrote[t][o] = "none"
    BY <1>1 DEF Tallied
  <1> QED BY <1>2 DEF Done, Working

LEMMA DoneGrows ==
  ASSUME LedgerTypeOK, NEW t \in Txs, NEW o \in Orders, SetHeld(t, o), pc'[t] = "fill"
  PROVE  Done(t)' = Done(t) \cup {o}
  <1>1. UNCHANGED <<todo, wrote>> /\ Working(t, o, "setheld")
    BY DEF SetHeld, localVars
  <1>2. \A p \in Orders : Working(t, p, "fill")' <=> p = o
    <2>1. pc[t] = "setheld" /\ o \in todo[t] /\ \A q \in todo[t] : o <= q
      BY <1>1 DEF Working
    <2> QED BY <1>1, <2>1, LedgerAssumption DEF Working
  <1>3. \A p \in Orders : ~Working(t, p, "fill")
    BY <1>1 DEF Working
  <1> QED BY <1>1, <1>2, <1>3 DEF Done

LEMMA TallyExecution ==
  ASSUME LedgerTypeOK, NEW t \in Txs, Tallied(t), NEW o \in Orders, SetHeld(t, o)
  PROVE  Tallied(t)'
  <1>1. /\ Working(t, o, "setheld") /\ UNCHANGED <<todo, wrote, day>> /\ pc[t] = "setheld"
        /\ day[t] \in Days
    BY DEF SetHeld, localVars, Working, LedgerTypeOK, Holds
  <1>2. CASE pc'[t] # "fill"
    <2>1. UNCHANGED <<dPaid, dMoved>>
      BY <1>2 DEF SetHeld, Goto, LedgerTypeOK, LocalTypes
    <2> QED BY <1>1, <1>2, <2>1, DoneKept, TallyKept
  <1>3. CASE pc'[t] = "fill"
    <2> DEFINE f == Settlement!Flow(day[t])
               s == Settlement!Shares
    <2>1. /\ dPaid'[t] = dPaid[t] + f[o] /\ dMoved'[t] = dMoved[t] + s[o]
      <3>1. dPaid \in [Txs -> Int] /\ dMoved \in [Txs -> Int]
        BY DEF LedgerTypeOK, DraftTypes
      <3>2. /\ f[o] = IF o \in Buys THEN -Debit(t, o) ELSE Credit(t, o)
            /\ s[o] = IF o \in Buys THEN Qty[o] ELSE -Qty[o]
        BY DEF Settlement!Flow, Settlement!Shares, Debit, Credit
      <3> HIDE DEF f, s
      <3>3. /\ dPaid' = [dPaid EXCEPT ![t] = @ + f[o]]
            /\ dMoved' = [dMoved EXCEPT ![t] = @ + s[o]]
        BY <1>3, <3>2 DEF SetHeld, Executed, Goto, LedgerTypeOK, LocalTypes
      <3> QED BY <3>1, <3>3
    <2>2. o \notin Done(t) /\ Done(t)' = Done(t) \cup {o}
      BY <1>1, <1>3, NotDone, DoneGrows
    <2>3. IsFiniteSet(Done(t))
      <3>1. Done(t) \subseteq Orders
        BY DEF Done
      <3> QED BY <3>1, FS_Subset, LedgerAssumption
    <2>4. \A p \in Done(t) \cup {o} : f[p] \in Int /\ s[p] \in Int
      BY <1>1, FlowTypes DEF Done
    <2> HIDE DEF f, s
    <2>5. /\ SumFunctionOnSet(f, Done(t) \cup {o}) = SumFunctionOnSet(f, Done(t)) + f[o]
          /\ SumFunctionOnSet(s, Done(t) \cup {o}) = SumFunctionOnSet(s, Done(t)) + s[o]
      BY <2>2, <2>3, <2>4, SumInsert
    <2>6. dPaid'[t] = SumFunctionOnSet(f, Done(t)') /\ dMoved'[t] = SumFunctionOnSet(s, Done(t)')
      BY <2>1, <2>2, <2>5 DEF Tallied, f, s
    <2>7. \A q \in todo'[t], p \in Orders : wrote'[t][p] # "none" => p < q
      BY <1>1 DEF Tallied
    <2>8. f = Settlement!Flow(day'[t])
      BY <1>1 DEF f
    <2> QED BY <2>6, <2>7, <2>8 DEF Tallied, s
  <1> QED BY <1>2, <1>3

LEMMA TallyMark ==
  ASSUME LedgerTypeOK, NEW t \in Txs, Tallied(t), NEW o \in Orders,
         MarkFilled(t, o) \/ MarkRejected(t, o) \/ Defer(t, o)
  PROVE  Tallied(t)' /\ Done(t)' = Done(t)
  <1> USE DEF LedgerTypeOK, LocalTypes, DraftTypes, Goto
  <1>1. PICK outcome \in Outcomes :
               /\ wrote' = [wrote EXCEPT ![t][o] = outcome]
               /\ todo' = [todo EXCEPT ![t] = @ \ {o}] /\ pc'[t] = "order"
               /\ UNCHANGED <<day, dPaid, dMoved>>
               /\ outcome \in {"fill", "ghost"} <=> Working(t, o, "fill")
    BY DEF MarkFilled, MarkRejected, Defer, Marked, Working, Outcomes
  <1>2. o \in todo[t] /\ (\A q \in todo[t] : o <= q) /\ \A q \in todo[t] : q \in Nat
    BY LedgerAssumption DEF MarkFilled, MarkRejected, Defer, Working
  <1>3. wrote[t][o] = "none"
    BY <1>2 DEF Tallied
  <1>4. \A p \in Orders : wrote'[t][p] = IF p = o THEN outcome ELSE wrote[t][p]
    BY <1>1
  <1>5. \A p \in Orders : Working(t, p, "fill") => p = o
    BY <1>2, LedgerAssumption DEF Working
  <1>6. Done(t)' = Done(t)
    <2>1. \A p \in Orders : ~Working(t, p, "fill")'
      BY <1>1 DEF Working
    <2> QED BY <1>1, <1>3, <1>4, <1>5, <2>1 DEF Done
  <1>7. \A q \in todo'[t], p \in Orders : wrote'[t][p] # "none" => p < q
    <2> SUFFICES ASSUME NEW q \in todo'[t], NEW p \in Orders, wrote'[t][p] # "none" PROVE p < q
      OBVIOUS
    <2>1. q \in todo[t] /\ q # o /\ q \in Nat /\ o \in Nat /\ o <= q
      BY <1>1, <1>2, LedgerAssumption
    <2> QED BY <1>4, <2>1 DEF Tallied
  <1> QED BY <1>1, <1>6, <1>7 DEF Tallied

TallyInv == \A t \in Txs : Tallied(t)

LEMMA TallyStep ==
  ASSUME LedgerTypeOK, TallyInv, [LedgerNext]_ledgerVars PROVE TallyInv'
  <1> USE DEF tableVars, localVars, draftVars, recordVars, Goto
  <1>1. ASSUME NEW t \in Txs, Tallied(t)',
               \A u \in Txs \ {t} : /\ pc'[u] = pc[u] /\ todo'[u] = todo[u] /\ wrote'[u] = wrote[u]
                                     /\ day'[u] = day[u] /\ dPaid'[u] = dPaid[u]
                                     /\ dMoved'[u] = dMoved[u]
        PROVE  TallyInv'
    <2>1. ASSUME NEW u \in Txs, u # t PROVE Tallied(u)'
      <3>1. Done(u)' = Done(u) /\ Tallied(u)
        BY <1>1, <2>1 DEF Done, Working, TallyInv
      <3> QED BY <1>1, <2>1, <3>1, TallyKept
    <2> QED BY <1>1, <2>1 DEF TallyInv
  <1>2. ASSUME NEW t \in Txs, NEW d \in Days, Begin(t, d) PROVE TallyInv'
    <2>1. /\ UNCHANGED <<wrote, dPaid, dMoved>> /\ pc[t] = "idle" /\ pc'[t] = "order"
          /\ \A u \in Txs \ {t} : pc'[u] = pc[u] /\ todo'[u] = todo[u] /\ day'[u] = day[u]
      BY <1>2 DEF Begin, LedgerTypeOK, LocalTypes
    <2>2. (\A o \in Orders : wrote[t][o] = "none") /\ Done(t) = {}
      BY <2>1 DEF LedgerTypeOK, Holds, Done, Working
    <2>3. dPaid[t] = 0 /\ dMoved[t] = 0
      BY <2>2, SumEmpty DEF TallyInv, Tallied
    <2>4. Tallied(t)'
      <3>1. Done(t)' = {}
        BY <2>1, <2>2 DEF Done, Working
      <3> QED BY <2>1, <2>2, <2>3, <3>1, SumEmpty DEF Tallied
    <2> QED BY <1>1, <2>1, <2>4
  <1>3. ASSUME NEW t \in Txs, NEW o \in Orders, FillSteps(t, o) PROVE TallyInv'
    <2> USE DEF LedgerTypeOK, LocalTypes, DraftTypes
    <2>0. Tallied(t)
      BY DEF TallyInv
    <2>1. CASE Examine(t, o) \/ BuyReadCash(t, o) \/ SellReadHeld(t, o) \/ SellReadCash(t, o)
               \/ SetCash(t, o)
      <3>1. /\ UNCHANGED <<todo, wrote, day, dPaid, dMoved>> /\ pc[t] # "fill" /\ pc'[t] # "fill"
            /\ \A u \in Txs \ {t} : pc'[u] = pc[u]
        BY <2>1 DEF Examine, BuyReadCash, SellReadHeld, SellReadCash, SetCash, Working
      <3>2. Tallied(t)'
        BY <2>0, <3>1, DoneKept, TallyKept
      <3> QED BY <1>1, <3>1, <3>2
    <2>2. CASE SetHeld(t, o)
      <3>1. UNCHANGED <<todo, wrote, day>> /\ \A u \in Txs \ {t} : pc'[u] = pc[u]
        BY <2>2 DEF SetHeld
      <3>2. \A u \in Txs \ {t} : dPaid'[u] = dPaid[u] /\ dMoved'[u] = dMoved[u]
        BY <2>2 DEF SetHeld, Executed
      <3>3. Tallied(t)'
        BY <2>0, <2>2, TallyExecution
      <3> QED BY <1>1, <3>1, <3>2, <3>3
    <2>3. CASE MarkFilled(t, o) \/ MarkRejected(t, o) \/ Defer(t, o)
      <3>1. UNCHANGED <<day, dPaid, dMoved>> /\ \A u \in Txs \ {t} : pc'[u] = pc[u]
        BY <2>3 DEF MarkFilled, MarkRejected, Defer, Marked
      <3>2. \A u \in Txs \ {t} : todo'[u] = todo[u] /\ wrote'[u] = wrote[u]
        BY <2>3 DEF MarkFilled, MarkRejected, Defer, Marked
      <3>3. Tallied(t)'
        BY <2>0, <2>3, TallyMark
      <3> QED BY <1>1, <3>1, <3>2, <3>3
    <2> QED BY <1>3, <2>1, <2>2, <2>3 DEF FillSteps
  <1>4. ASSUME NEW t \in Txs, SnapSteps(t) PROVE TallyInv'
    <2>1. /\ UNCHANGED <<todo, wrote, day, dPaid, dMoved>> /\ pc[t] # "fill" /\ pc'[t] # "fill"
          /\ \A u \in Txs \ {t} : pc'[u] = pc[u]
      BY <1>4 DEF SnapSteps, SnapStatus, SnapLast, SnapCash, SnapHeld, SnapWrite, LedgerTypeOK,
         LocalTypes
    <2>2. Tallied(t)'
      BY <2>1, DoneKept, TallyKept DEF TallyInv
    <2> QED BY <1>1, <2>1, <2>2
  <1>5. ASSUME NEW t \in Txs, TxCommit(t) \/ TxAbort(t) PROVE TallyInv'
    <2> USE DEF LedgerTypeOK, LocalTypes, DraftTypes
    <2>1. Ended(t)
      BY <1>5 DEF TxCommit, TxAbort
    <2>2. \A u \in Txs \ {t} : /\ pc'[u] = pc[u] /\ todo'[u] = todo[u] /\ wrote'[u] = wrote[u]
                                /\ day'[u] = day[u] /\ dPaid'[u] = dPaid[u]
                                /\ dMoved'[u] = dMoved[u]
      BY <2>1 DEF Ended
    <2>3. Tallied(t)'
      <3>1. /\ \A o \in Orders : wrote'[t][o] = "none"
            /\ pc'[t] # "fill" /\ dPaid'[t] = 0 /\ dMoved'[t] = 0
        BY <2>1 DEF Ended
      <3>2. Done(t)' = {}
        BY <3>1 DEF Done, Working
      <3> QED BY <3>1, <3>2, SumEmpty DEF Tallied
    <2> QED BY <1>1, <2>2, <2>3
  <1>6. CASE Disqualify \/ (\E o \in Orders : Cancel(o)) \/ UNCHANGED ledgerVars
    <2>1. UNCHANGED <<pc, todo, wrote, day, dPaid, dMoved>>
      BY <1>6 DEF Disqualify, Cancel, ledgerVars
    <2> QED BY <2>1 DEF TallyInv, Tallied, Done, Working
  <1> QED BY <1>2, <1>3, <1>4, <1>5, <1>6 DEF LedgerNext

-----------------------------------------------------------------------------
(* A match that is alone, and the books it finds *)

\* The orders it has taken are those of its day, and it has forgotten none: one
\* canceled meanwhile is not rejected or moved, but may have been executed.
Listed(t) ==
    /\ \A o \in todo[t] : on[o] = day[t] /\ state[o] \in {"pending", "canceled"}
    /\ \A o \in Orders : wrote[t][o] # "none" =>
          on[o] = day[t] /\ state[o] = IF wrote[t][o] = "ghost" THEN "canceled" ELSE "pending"
    /\ \A o \in Orders : state[o] = "pending" /\ on[o] = day[t] =>
          o \in todo[t] \/ wrote[t][o] # "none"

\* A snapshot of the portfolio, or a copy of the last one.
Snapshot(t, s) ==
    \/ s = Portrait(t)
    \/ dq /\ \E e \in committed \cup {0} : (\A c \in committed : c <= e) /\ s = snap[e]

Photographed(t) ==
    /\ pc[t] \in {"snaplast", "snapcash", "snapheld", "snapwrite", "commit"} => todo[t] = {}
    /\ pc[t] = "snaplast" => dq
    /\ pc[t] = "snapheld" => seen[t] = CashSeen(t)
    /\ pc[t] = "snapwrite" => Snapshot(t, row[t])
    /\ pc[t] = "commit" => Snapshot(t, dSnap[t])

Booked(t) == Listed(t) /\ Settlement!Covered(day[t], Done(t)) /\ Photographed(t)

BookInv == ~overlapped => \A t \in Txs : pc[t] # "idle" => Booked(t)

LEMMA ListedSteps ==
  ASSUME LedgerTypeOK, NEW t \in Txs, Tallied(t), Listed(t),
         (\E o \in Orders : FillSteps(t, o)) \/ SnapSteps(t)
  PROVE  Listed(t)'
  <1> USE DEF tableVars, localVars, draftVars, recordVars, Goto
  <1>1. ASSUME UNCHANGED <<on, state, day, todo, wrote>> PROVE Listed(t)'
    BY <1>1 DEF Listed
  <1>2. ASSUME NEW o \in Orders, FillSteps(t, o) PROVE Listed(t)'
    <2>1. CASE Examine(t, o) \/ BuyReadCash(t, o) \/ SellReadHeld(t, o) \/ SellReadCash(t, o)
               \/ SetCash(t, o) \/ SetHeld(t, o)
      <3>1. UNCHANGED <<on, state, day, todo, wrote>>
        BY <2>1 DEF Examine, BuyReadCash, SellReadHeld, SellReadCash, SetCash, SetHeld
      <3> QED BY <1>1, <3>1
    <2>2. CASE MarkFilled(t, o) \/ MarkRejected(t, o) \/ Defer(t, o)
      <3>1. PICK outcome \in Outcomes :
                   /\ wrote' = [wrote EXCEPT ![t][o] = outcome]
                   /\ todo' = [todo EXCEPT ![t] = @ \ {o}]
                   /\ UNCHANGED <<day, on, state>> /\ o \in todo[t]
                   /\ outcome = "ghost" => state[o] # "pending"
                   /\ outcome \in {"fill", "reject", "defer"} => state[o] = "pending"
                   /\ state[o] = "pending" => outcome \in {"fill", "reject", "defer"}
        <4> DEFINE Marks(outcome) ==
                   /\ wrote' = [wrote EXCEPT ![t][o] = outcome]
                   /\ todo' = [todo EXCEPT ![t] = @ \ {o}]
                   /\ UNCHANGED <<day, on, state>> /\ o \in todo[t]
        <4>1. CASE MarkFilled(t, o)
          <5>1. Marks(IF state[o] = "pending" THEN "fill" ELSE "ghost")
            BY <4>1 DEF MarkFilled, Marked, Working
          <5> QED BY <5>1 DEF Outcomes
        <4>2. CASE MarkRejected(t, o)
          <5>1. Marks(IF state[o] = "pending" THEN "reject" ELSE "none")
            BY <4>2 DEF MarkRejected, Marked, Working
          <5> QED BY <5>1 DEF Outcomes
        <4>3. CASE Defer(t, o)
          <5>1. Marks(IF state[o] # "pending" THEN "none"
                      ELSE IF day[t] < N THEN "defer" ELSE "reject")
            BY <4>3 DEF Defer, Marked, Working
          <5> QED BY <5>1 DEF Outcomes
        <4> QED BY <2>2, <4>1, <4>2, <4>3
      <3>2. wrote \in [Txs -> [Orders -> Outcomes]] /\ todo \in [Txs -> SUBSET Orders]
        BY DEF LedgerTypeOK, LocalTypes, DraftTypes
      <3>3. /\ \A p \in Orders : wrote'[t][p] = IF p = o THEN outcome ELSE wrote[t][p]
            /\ todo'[t] = todo[t] \ {o}
        BY <3>1, <3>2
      <3>4. on[o] = day[t] /\ state[o] \in {"pending", "canceled"}
        BY <3>1 DEF Listed
      <3>5. \A p \in Orders : wrote'[t][p] # "none" =>
               /\ on'[p] = day'[t]
               /\ state'[p] = IF wrote'[t][p] = "ghost" THEN "canceled" ELSE "pending"
        BY <3>1, <3>3, <3>4 DEF Listed, Outcomes
      <3>6. \A p \in Orders : state'[p] = "pending" /\ on'[p] = day'[t] =>
               p \in todo'[t] \/ wrote'[t][p] # "none"
        BY <3>1, <3>3 DEF Listed
      <3>7. \A p \in todo'[t] : on'[p] = day'[t] /\ state'[p] \in {"pending", "canceled"}
        BY <3>1, <3>3 DEF Listed
      <3> QED BY <3>5, <3>6, <3>7 DEF Listed
    <2> QED BY <1>2, <2>1, <2>2 DEF FillSteps
  <1>3. CASE SnapSteps(t)
    BY <1>1, <1>3 DEF SnapSteps, SnapStatus, SnapLast, SnapCash, SnapHeld, SnapWrite
  <1> QED BY <1>2, <1>3

\* The orders executed before one of them are the same as before.
LEMMA CoveredKept ==
  ASSUME NEW t \in Txs, Settlement!Covered(day[t], Done(t)), Done(t)' = Done(t),
         day'[t] = day[t], UNCHANGED <<cash, held>>
  PROVE  Settlement!Covered(day[t], Done(t))'
  BY DEF Settlement!Covered, Settlement!Balance

\* What the execution of one more order leaves is what the draft then says.
LEMMA CoveredExecution ==
  ASSUME LedgerTypeOK, LedgerTypeOK', CashInv', SoundInv', SharesInv', TallyInv, TallyInv',
         ~overlapped', NEW t \in Txs, NEW o \in Orders, SetHeld(t, o),
         Settlement!Covered(day[t], Done(t))
  PROVE  Settlement!Covered(day[t], Done(t))'
  <1> USE DEF tableVars, localVars, draftVars, recordVars, Goto
  <1>1. /\ UNCHANGED <<cash, held, day, wrote, todo>> /\ Working(t, o, "setheld")
        /\ pc[t] = "setheld" /\ mine' = mine /\ mine[t]
    BY DEF SetHeld, Working, LedgerTypeOK, Holds
  <1>2. CASE pc'[t] # "fill"
    BY <1>1, <1>2, DoneKept, CoveredKept
  <1>3. CASE pc'[t] = "fill"
    <2> DEFINE f == Settlement!Flow(day[t])
               s == Settlement!Shares
               d == Done(t)
    <2>1. Done(t)' = d \cup {o} /\ o \notin d
      BY <1>1, <1>3, DoneGrows, NotDone DEF TallyInv
    <2>2. ASSUME NEW p \in d PROVE p < o /\ p \in Nat
      <3>1. wrote[t][p] # "none"
        BY <1>1 DEF Done, Working
      <3> QED BY <1>1, <3>1, LedgerAssumption DEF TallyInv, Tallied, Working, Done
    <2>3. o \in Nat /\ {p \in d \cup {o} : p <= o} = d \cup {o}
      BY <2>2, LedgerAssumption
    <2>4. /\ cash + SumFunctionOnSet(f, d \cup {o}) >= 0
          /\ held + SumFunctionOnSet(s, d \cup {o}) >= 0
      <3>1. /\ dPaid'[t] = SumFunctionOnSet(f, d \cup {o})
            /\ dMoved'[t] = SumFunctionOnSet(s, d \cup {o})
        <4>1. /\ dPaid'[t] = SumFunctionOnSet(Settlement!Flow(day[t])', Done(t)')
              /\ dMoved'[t] = SumFunctionOnSet(Settlement!Shares, Done(t)')
          BY DEF TallyInv, Tallied
        <4>2. Settlement!Flow(day[t])' = f
          BY <1>1 DEF Settlement!Flow
        <4> QED BY <2>1, <4>1, <4>2
      <3>2. dCash'[t] = cash + dPaid'[t] /\ dHeld'[t] = held + dMoved'[t]
        BY <1>1, <1>3 DEF CashInv, CashHeld, SharesInv
      <3>3. dCash'[t] >= 0 /\ dHeld'[t] >= 0
        BY <1>1 DEF SoundInv, Sound
      <3> QED BY <3>1, <3>2, <3>3
    <2>5. ASSUME NEW p \in d \cup {o}
          PROVE  /\ cash + SumFunctionOnSet(f, {q \in d \cup {o} : q <= p}) >= 0
                 /\ held + SumFunctionOnSet(s, {q \in d \cup {o} : q <= p}) >= 0
      <3>1. CASE p = o
        BY <2>3, <2>4, <3>1
      <3>2. CASE p # o
        <4>1. {q \in d \cup {o} : q <= p} = {q \in d : q <= p} /\ p \in d
          BY <2>2, <2>3, <3>2
        <4>2. /\ Settlement!Balance(cash, f, {q \in d : q <= p}) >= 0
              /\ Settlement!Balance(held, s, {q \in d : q <= p}) >= 0
          BY <4>1 DEF Settlement!Covered
        <4> HIDE DEF f, s, d
        <4> QED BY <4>1, <4>2, SameBalance
      <3> QED BY <3>1, <3>2
    <2> HIDE DEF d
    <2>6. Settlement!Covered(day[t], Done(t))' <=>
             \A p \in d \cup {o} : LET first == {q \in d \cup {o} : q <= p} IN
                /\ cash + SumFunctionOnSet(f, first) >= 0 /\ held + SumFunctionOnSet(s, first) >= 0
      <3>1. Settlement!Flow(day[t])' = f /\ Settlement!Shares' = s
        BY <1>1 DEF Settlement!Flow, Settlement!Shares
      <3> HIDE DEF f, s
      <3>2. Settlement!Covered(day[t], Done(t))' <=>
             \A p \in d \cup {o} : LET first == {q \in d \cup {o} : q <= p} IN
                /\ Settlement!Balance(cash, f, first) >= 0
                /\ Settlement!Balance(held, s, first) >= 0
        BY <1>1, <2>1, <3>1 DEF Settlement!Covered, Settlement!Balance
      <3> QED BY <3>2, SameBalance
    <2> QED BY <2>5, <2>6
  <1> QED BY <1>2, <1>3

LEMMA CoveredSteps ==
  ASSUME LedgerTypeOK, LedgerTypeOK', CashInv', SoundInv', SharesInv', TallyInv, TallyInv',
         ~overlapped', NEW t \in Txs, (\E o \in Orders : FillSteps(t, o)) \/ SnapSteps(t),
         Settlement!Covered(day[t], Done(t))
  PROVE  Settlement!Covered(day[t], Done(t))'
  <1> USE DEF tableVars, localVars, draftVars, recordVars, Goto
  <1>1. ASSUME NEW o \in Orders, FillSteps(t, o) PROVE Settlement!Covered(day[t], Done(t))'
    <2>1. CASE Examine(t, o) \/ BuyReadCash(t, o) \/ SellReadHeld(t, o) \/ SellReadCash(t, o)
               \/ SetCash(t, o)
      <3>1. UNCHANGED <<cash, held, wrote, day>> /\ pc[t] # "fill" /\ pc'[t] # "fill"
        BY <2>1 DEF Examine, BuyReadCash, SellReadHeld, SellReadCash, SetCash, Working,
           LedgerTypeOK, LocalTypes
      <3> QED BY <3>1, DoneKept, CoveredKept
    <2>2. CASE SetHeld(t, o)
      BY <2>2, CoveredExecution
    <2>3. CASE MarkFilled(t, o) \/ MarkRejected(t, o) \/ Defer(t, o)
      <3>1. Done(t)' = Done(t)
        BY <2>3, TallyMark DEF TallyInv
      <3>2. UNCHANGED <<cash, held, day>>
        BY <2>3 DEF MarkFilled, MarkRejected, Defer, Marked
      <3> QED BY <3>1, <3>2, CoveredKept
    <2> QED BY <1>1, <2>1, <2>2, <2>3 DEF FillSteps
  <1>2. CASE SnapSteps(t)
    <2>1. UNCHANGED <<cash, held, wrote, day>> /\ pc[t] # "fill" /\ pc'[t] # "fill"
      BY <1>2 DEF SnapSteps, SnapStatus, SnapLast, SnapCash, SnapHeld, SnapWrite, LedgerTypeOK,
         LocalTypes
    <2> QED BY <2>1, DoneKept, CoveredKept
  <1> QED BY <1>1, <1>2

LEMMA PhotographedSteps ==
  ASSUME LedgerTypeOK, NEW t \in Txs, Photographed(t),
         (\E o \in Orders : FillSteps(t, o)) \/ SnapSteps(t)
  PROVE  Photographed(t)'
  <1> USE DEF tableVars, localVars, draftVars, recordVars, Goto
  <1>1. /\ pc \in [Txs -> Steps] /\ seen \in [Txs -> Int]
        /\ row \in [Txs -> Snapshots] /\ dSnap \in [Txs -> Snapshots]
    BY DEF LedgerTypeOK, LocalTypes, DraftTypes
  <1>2. ASSUME NEW o \in Orders, FillSteps(t, o) PROVE Photographed(t)'
    <2>1. pc'[t] \notin {"snaplast", "snapcash", "snapheld", "snapwrite", "commit"}
      BY <1>1, <1>2 DEF FillSteps, Examine, BuyReadCash, SellReadHeld, SellReadCash,
         SetCash, SetHeld, MarkFilled, MarkRejected, Defer, Marked
    <2> QED BY <2>1 DEF Photographed
  <1>3. CASE SnapSteps(t)
    <2>1. UNCHANGED <<cash, held, dq, mine, dCash, dHeld, day, todo, snap, committed>>
      BY <1>3 DEF SnapSteps, SnapStatus, SnapLast, SnapCash, SnapHeld, SnapWrite
    <2>2. /\ CashSeen(t)' = CashSeen(t) /\ Portrait(t)' = Portrait(t)
          /\ \A s : Snapshot(t, s) => Snapshot(t, s)'
      BY <2>1 DEF CashSeen, HeldSeen, Portrait, Snapshot
    <2>3. CASE SnapStatus(t)
      BY <1>1, <2>1, <2>3 DEF SnapStatus, Photographed
    <2>4. CASE SnapLast(t)
      <3>1. dq /\ todo'[t] = {} /\ pc'[t] = "snapwrite"
        BY <1>1, <2>1, <2>4 DEF SnapLast, Photographed
      <3>2. Snapshot(t, row'[t])
        BY <1>1, <2>4, <3>1 DEF SnapLast, Snapshot
      <3> QED BY <2>2, <3>1, <3>2 DEF Photographed
    <2>5. CASE SnapCash(t)
      BY <1>1, <2>1, <2>2, <2>5 DEF SnapCash, Photographed
    <2>6. CASE SnapHeld(t)
      <3>1. todo'[t] = {} /\ pc'[t] = "snapwrite" /\ row'[t] = Portrait(t)
        BY <1>1, <2>1, <2>6 DEF SnapHeld, Photographed, Portrait
      <3>2. Snapshot(t, row'[t])
        BY <3>1 DEF Snapshot
      <3> QED BY <2>2, <3>1, <3>2 DEF Photographed
    <2>7. CASE SnapWrite(t)
      <3>1. todo'[t] = {} /\ pc'[t] = "commit" /\ dSnap'[t] = row[t] /\ Snapshot(t, row[t])
        BY <1>1, <2>1, <2>7 DEF SnapWrite, Photographed
      <3> QED BY <2>2, <3>1 DEF Photographed
    <2> QED BY <1>3, <2>3, <2>4, <2>5, <2>6, <2>7 DEF SnapSteps
  <1> QED BY <1>2, <1>3

LEMMA BookStep ==
  ASSUME LedgerTypeOK, LedgerTypeOK', CashInv, CashInv', SoundInv', SharesInv', TallyInv, TallyInv',
         BookInv, [LedgerNext]_ledgerVars
  PROVE  BookInv'
  <1> USE DEF tableVars, localVars, draftVars, recordVars, Goto
  <1> SUFFICES ASSUME ~overlapped' PROVE BookInv'
    BY DEF BookInv
  <1>1. ~overlapped /\ \A u \in Txs : pc[u] # "idle" => Booked(u)
    BY StillSingle DEF BookInv
  <1>2. ASSUME NEW t \in Txs, pc[t] # "idle", pc'[t] # "idle" => Booked(t)',
               \A u \in Txs \ {t} : pc'[u] = pc[u]
        PROVE  BookInv'
    BY <1>1, <1>2, OthersIdle DEF BookInv
  <1>3. ASSUME NEW t \in Txs, NEW d \in Days, Begin(t, d) PROVE BookInv'
    <2>1. \A u \in Txs : pc[u] = "idle"
      BY <1>3 DEF Begin, LedgerTypeOK, RecordTypes
    <2>2. /\ UNCHANGED <<cash, held, state, on, wrote>> /\ pc'[t] = "order" /\ day'[t] = d
          /\ todo'[t] = {o \in Orders : state[o] = "pending" /\ on[o] = d}
          /\ \A u \in Txs \ {t} : pc'[u] = pc[u]
      BY <1>3 DEF Begin, LedgerTypeOK, LocalTypes
    <2>3. \A o \in Orders : wrote[t][o] = "none"
      BY <2>1 DEF LedgerTypeOK, Holds
    <2>4. Listed(t)' /\ Photographed(t)'
      BY <2>2, <2>3 DEF Listed, Photographed
    <2>5. Settlement!Covered(day[t], Done(t))'
      <3>1. Done(t)' = {}
        BY <2>2, <2>3 DEF Done, Working
      <3> QED BY <3>1 DEF Settlement!Covered
    <2> QED BY <2>1, <2>2, <2>4, <2>5 DEF BookInv, Booked
  <1>4. ASSUME NEW t \in Txs, (\E o \in Orders : FillSteps(t, o)) \/ SnapSteps(t) PROVE BookInv'
    <2>1. pc[t] # "idle" /\ \A u \in Txs \ {t} : pc'[u] = pc[u]
      BY <1>4 DEF FillSteps, Examine, BuyReadCash, SellReadHeld, SellReadCash, SetCash, SetHeld,
         MarkFilled, MarkRejected, Defer, Marked, Working, SnapSteps, SnapStatus, SnapLast,
         SnapCash, SnapHeld, SnapWrite, LedgerTypeOK, LocalTypes
    <2>2. Booked(t)
      BY <1>1, <2>1
    <2>3. Listed(t)'
      BY <1>4, <2>2, ListedSteps DEF Booked, TallyInv
    <2>4. Settlement!Covered(day[t], Done(t))'
      BY <1>4, <2>2, CoveredSteps DEF Booked
    <2>5. Photographed(t)'
      BY <1>4, <2>2, PhotographedSteps DEF Booked
    <2> QED BY <1>2, <2>1, <2>3, <2>4, <2>5 DEF Booked
  <1>5. ASSUME NEW t \in Txs, TxCommit(t) \/ TxAbort(t) PROVE BookInv'
    <2>1. pc[t] # "idle" /\ pc'[t] = "idle" /\ \A u \in Txs \ {t} : pc'[u] = pc[u]
      BY <1>5 DEF TxCommit, TxAbort, Ended, LedgerTypeOK, LocalTypes
    <2> QED BY <1>2, <2>1
  <1>6. ASSUME Disqualify \/ (\E o \in Orders : Cancel(o)) \/ UNCHANGED ledgerVars PROVE BookInv'
    <2> SUFFICES ASSUME NEW t \in Txs, pc'[t] # "idle" PROVE Booked(t)'
      BY DEF BookInv
    <2>1. /\ UNCHANGED <<cash, held, on, snap, committed, pc, day, todo, seen, row, mine, dCash,
                         dHeld, wrote, dSnap>>
          /\ dq => dq'
      BY <1>6 DEF Disqualify, Cancel, ledgerVars
    <2>2. Booked(t)
      BY <1>1, <2>1
    <2>3. Settlement!Covered(day[t], Done(t))'
      <3>1. Done(t)' = Done(t)
        BY <2>1 DEF Done, Working
      <3> QED BY <2>1, <2>2, <3>1, CoveredKept DEF Booked
    <2>4. Photographed(t)'
      <3>1. \A s : Snapshot(t, s) => Snapshot(t, s)'
        BY <2>1 DEF Snapshot, Portrait, CashSeen, HeldSeen
      <3> QED BY <2>1, <2>2, <3>1 DEF Booked, Photographed, CashSeen
    <2>5. Listed(t)'
      <3>1. CASE UNCHANGED state
        BY <2>1, <2>2, <3>1 DEF Booked, Listed
      <3>2. ASSUME NEW o \in Orders, Cancel(o) PROVE Listed(t)'
        <4>1. /\ state[o] = "pending" /\ state' = [state EXCEPT ![o] = "canceled"]
              /\ wrote[t][o] \in {"none", "ghost"}
          BY <3>2 DEF Cancel
        <4>2. wrote[t][o] = "none"
          BY <2>2, <4>1 DEF Booked, Listed
        <4>3. \A p \in Orders : state'[p] = IF p = o THEN "canceled" ELSE state[p]
          BY <4>1 DEF LedgerTypeOK, TableTypes
        <4>4. todo[t] \subseteq Orders
          BY DEF LedgerTypeOK, LocalTypes
        <4> QED BY <2>1, <2>2, <4>2, <4>3, <4>4 DEF Booked, Listed
      <3> QED BY <1>6, <3>1, <3>2 DEF Disqualify, ledgerVars
    <2> QED BY <2>3, <2>4, <2>5 DEF Booked
  <1> QED BY <1>3, <1>4, <1>5, <1>6 DEF LedgerNext

\* The commit settles the day.
LEMMA CommitSettles ==
  ASSUME LedgerTypeOK, CashInv, SharesInv, Solvent, InOrder, TallyInv, BookInv, ~overlapped,
         NEW t \in Txs, TxCommit(t)
  PROVE  Settlement!Settle(day[t], Done(t), {o \in Orders : wrote[t][o] = "defer"})
  <1> DEFINE d == day[t]
             done == Done(t)
             deferred == {o \in Orders : wrote[t][o] = "defer"}
             due == Settlement!Due(d)
  <1>1. /\ pc[t] = "commit" /\ Booked(t) /\ todo[t] = {} /\ d \in Days
        /\ \A o \in Orders : wrote[t][o] = "defer" => d < N
    BY DEF TxCommit, BookInv, Booked, Photographed, LedgerTypeOK, Holds
  <1>2. done = {o \in Orders : wrote[t][o] \in {"fill", "ghost"}}
    BY <1>1 DEF Done, Working
  <1>3. \A o \in Orders : wrote[t][o] # "none" =>
           on[o] = d /\ state[o] = IF wrote[t][o] = "ghost" THEN "canceled" ELSE "pending"
    BY <1>1 DEF Booked, Listed
  <1>4. \A o \in Orders : o \in due <=> wrote[t][o] \in {"fill", "reject", "defer"}
    <2>1. \A o \in Orders : wrote[t][o] \in Outcomes
      BY DEF LedgerTypeOK, DraftTypes
    <2>2. \A o \in Orders : state[o] = "pending" /\ on[o] = d => wrote[t][o] # "none"
      BY <1>1 DEF Booked, Listed
    <2> QED BY <1>3, <2>1, <2>2 DEF Settlement!Due, Outcomes
  <1>5. 1..(d - 1) \subseteq committed /\ committed' = committed \cup {d}
    BY <1>1 DEF TxCommit, InOrder
  <1>6. \A o \in done : state[o] \in {"pending", "canceled"} /\ on[o] = d
    BY <1>2, <1>3
  <1>7. deferred \subseteq due \ done /\ (deferred # {} => d < N)
    BY <1>1, <1>2, <1>4
  <1>8. Settlement!Covered(d, done)
    BY <1>1 DEF Booked
  <1>9. /\ cash' = Settlement!Balance(cash, Settlement!Flow(d), done)
        /\ held' = Settlement!Balance(held, Settlement!Shares, done)
    <2>1. /\ dPaid[t] = SumFunctionOnSet(Settlement!Flow(d), done)
          /\ dMoved[t] = SumFunctionOnSet(Settlement!Shares, done)
      BY DEF TallyInv, Tallied
    <2>2. cash' = cash + dPaid[t] /\ held' = held + dMoved[t]
      <3>1. /\ IF mine[t] THEN dCash[t] = cash + dPaid[t] ELSE dPaid[t] = 0
            /\ IF mine[t] THEN dHeld[t] = held + dMoved[t] ELSE dMoved[t] = 0
            /\ cash \in Int /\ held \in Int
        BY <1>1 DEF CashInv, CashHeld, SharesInv, LedgerTypeOK, TableTypes
      <3>2. cash' = CashSeen(t) /\ held' = HeldSeen(t)
        BY DEF TxCommit
      <3> QED BY <3>1, <3>2 DEF CashSeen, HeldSeen
    <2> HIDE DEF d, done
    <2> QED BY <2>1, <2>2, SameBalance
  <1>10. state' = [o \in Orders |-> CASE o \in due \cap done             -> "filled"
                                      [] o \in due \ (done \cup deferred) -> "rejected"
                                      [] OTHER                           -> state[o]]
    <2>1. state' = [o \in Orders |-> CASE wrote[t][o] = "fill"   -> "filled"
                                       [] wrote[t][o] = "reject" -> "rejected"
                                       [] OTHER                  -> state[o]]
      BY DEF TxCommit
    <2>2. \A o \in Orders : /\ o \in due \cap done <=> wrote[t][o] = "fill"
                            /\ o \in due \ (done \cup deferred) <=> wrote[t][o] = "reject"
      BY <1>2, <1>4
    <2> HIDE DEF due, done, deferred
    <2> QED BY <2>1, <2>2
  <1>11. on' = [o \in Orders |-> IF o \in deferred THEN d + 1 ELSE on[o]]
    BY DEF TxCommit
  <1>12. offRecord' = offRecord \cup (done \ due)
    <2>1. {o \in Orders : wrote[t][o] = "ghost"} = done \ due
      BY <1>2, <1>4
    <2> QED BY <2>1 DEF TxCommit
  <1>13. dq' = dq
    BY <1>1 DEF TxCommit, Solvent, LedgerTypeOK, TableTypes
  <1>14. \/ snap' = [snap EXCEPT ![d] = [cash |-> cash', held |-> held',
                                         total |-> cash' + held' * Close[d]]]
         \/ dq /\ \E e \in committed \cup {0} :
                     (\A c \in committed : c <= e) /\ snap' = [snap EXCEPT ![d] = snap[e]]
    <2>1. snap' = [snap EXCEPT ![d] = dSnap[t]] /\ cash' = CashSeen(t) /\ held' = HeldSeen(t)
      BY DEF TxCommit
    <2>2. Snapshot(t, dSnap[t])
      BY <1>1 DEF Booked, Photographed
    <2> QED BY <2>1, <2>2 DEF Snapshot, Portrait
  <1> QED BY <1>5, <1>6, <1>7, <1>8, <1>9, <1>10, <1>11, <1>12, <1>13, <1>14, Zenon
          DEF Settlement!Settle

\* No other step of a match shows in the books.
LEMMA OtherSteps ==
  ASSUME LedgerTypeOK, [LedgerNext]_ledgerVars, \A t \in Txs : ~TxCommit(t)
  PROVE  \/ UNCHANGED Settlement!books
         \/ Settlement!Disqualify \/ \E o \in Orders : Settlement!Cancel(o)
  <1> USE DEF tableVars, recordVars, Settlement!books
  <1>1. ASSUME NEW t \in Txs, NEW d \in Days, Begin(t, d) PROVE UNCHANGED Settlement!books
    BY <1>1 DEF Begin
  <1>2. ASSUME NEW t \in Txs, NEW o \in Orders, FillSteps(t, o) PROVE UNCHANGED Settlement!books
    BY <1>2 DEF FillSteps, Examine, BuyReadCash, SellReadHeld, SellReadCash, SetCash, SetHeld,
       MarkFilled, MarkRejected, Defer, Marked
  <1>3. ASSUME NEW t \in Txs, SnapSteps(t) PROVE UNCHANGED Settlement!books
    BY <1>3 DEF SnapSteps, SnapStatus, SnapLast, SnapCash, SnapHeld, SnapWrite
  <1>4. ASSUME NEW t \in Txs, TxAbort(t) PROVE UNCHANGED Settlement!books
    BY <1>4 DEF TxAbort
  <1>5. CASE Disqualify
    BY <1>5 DEF Disqualify, Settlement!Disqualify
  <1>6. ASSUME NEW o \in Orders, Cancel(o) PROVE Settlement!Cancel(o)
    BY <1>6 DEF Cancel, Settlement!Cancel
  <1>7. CASE UNCHANGED ledgerVars
    BY <1>7 DEF ledgerVars
  <1> QED BY <1>1, <1>2, <1>3, <1>4, <1>5, <1>6, <1>7 DEF LedgerNext

\* All that the step of the refinement needs.
AtomicInv == CashInv /\ SharesInv /\ SoundInv /\ WorthInv /\ Solvent /\ InOrder /\ TallyInv /\ BookInv

LEMMA StepSettles ==
  ASSUME LedgerTypeOK, AtomicInv, [LedgerNext]_ledgerVars, ~overlapped'
  PROVE  [Settlement!Next]_Settlement!books
  <1>1. ~overlapped
    BY StillSingle
  <1>2. ASSUME NEW t \in Txs, TxCommit(t) PROVE Settlement!Next
    <2> DEFINE deferred == {o \in Orders : wrote[t][o] = "defer"}
    <2>1. Settlement!Settle(day[t], Done(t), deferred)
      BY <1>1, <1>2, CommitSettles DEF AtomicInv
    <2>2. day[t] \in 1..N /\ Done(t) \in SUBSET Orders /\ deferred \in SUBSET Orders
      BY <1>2 DEF TxCommit, LedgerTypeOK, Holds, Days, Done
    <2> HIDE DEF deferred
    <2> QED BY <2>1, <2>2 DEF Settlement!Next
  <1>3. CASE \A t \in Txs : ~TxCommit(t)
    BY <1>3, OtherSteps DEF Settlement!Next
  <1> QED BY <1>2, <1>3

LEMMA AtomicAtFirst == LedgerInit => AtomicInv
  <1> SUFFICES ASSUME LedgerInit PROVE AtomicInv
    OBVIOUS
  <1>1. SoundInv /\ WorthInv /\ SharesInv /\ Solvent
    BY LedgerAssumption DEF LedgerInit, SoundInv, Sound, Working, WorthInv, Worth, SharesInv, Solvent
  <1>2. InOrder
    <2>1. 0 \in 0..N /\ committed = 1..0
      BY LedgerAssumption DEF LedgerInit
    <2> QED BY <2>1 DEF LedgerInit, InOrder
  <1>3. TallyInv
    BY TallyNone DEF LedgerInit, TallyInv
  <1>4. BookInv
    BY DEF LedgerInit, BookInv
  <1> QED BY <1>1, <1>2, <1>3, <1>4, CashAtFirst DEF AtomicInv

LEMMA AtomicStep ==
  ASSUME LedgerTypeOK, LedgerTypeOK', AtomicInv, Solvent', [LedgerNext]_ledgerVars PROVE AtomicInv'
  <1>1. CashInv' /\ SharesInv' /\ SoundInv' /\ WorthInv' /\ InOrder' /\ TallyInv'
    BY CashStep, SharesStep, SoundStep, WorthStep, InOrderStep, TallyStep DEF AtomicInv
  <1>2. BookInv'
    BY <1>1, BookStep DEF AtomicInv
  <1> QED BY <1>1, <1>2 DEF AtomicInv

LEMMA AtomicAlways == LedgerSpec => []AtomicInv
  <1>1. LedgerTypeOK /\ LedgerTypeOK' /\ AtomicInv /\ Solvent' /\ [LedgerNext]_ledgerVars => AtomicInv'
    BY AtomicStep
  <1> QED BY <1>1, AtomicAtFirst, LedgerTypeCorrect, StaysSolvent, PTL DEF LedgerSpec

\* As long as matches do not overlap, each is one step of Settlement: what it executed,
\* refused and moved, the balances, the order records and the snapshot show together,
\* whatever statements, failures, cancels and disqualifications came in between
\* (ProcessSimulationDay).
THEOREM MatchesStayAtomic == LedgerSpec => MatchesAreAtomic
  <1>1. LedgerTypeOK /\ AtomicInv /\ [LedgerNext]_ledgerVars
          => [overlapped' \/ Settlement!Next]_Settlement!books
    BY StepSettles
  <1> QED BY <1>1, AtomicAlways, LedgerTypeCorrect, PTL DEF LedgerSpec, MatchesAreAtomic

\* An execution in which matches never overlap is one of Settlement.
THEOREM SettlementImplemented == LedgerSpec /\ []~overlapped => Settlement!Spec
  <1>1. LedgerInit => Settlement!Init
    BY DEF LedgerInit, Settlement!Init, Days, NoSnap, Settlement!NoSnap
  <1>2. LedgerTypeOK /\ AtomicInv /\ [LedgerNext]_ledgerVars /\ ~overlapped'
          => [Settlement!Next]_Settlement!books
    BY StepSettles
  <1> QED BY <1>1, <1>2, AtomicAlways, LedgerTypeCorrect, PTL DEF LedgerSpec, Settlement!Spec
=============================================================================
