-------------------------- MODULE OrderEntryProofs --------------------------
(***************************************************************************)
(* Proofs about OrderEntry, for any number of orders, of goroutines and of *)
(* failures: the orders leave the clock of SimClock as it is, so that what *)
(* is proved of the clock holds beside them; their type invariant; that an *)
(* order that is settled stays so; and, with one goroutine that matches, that*)
(* none is executed twice and none is left pending on a day that has been  *)
(* matched, unless it raced with the match or something failed.            *)
(***************************************************************************)
EXTENDS OrderEntry, SimClockProofs

-----------------------------------------------------------------------------
(* The orders beside the clock *)

\* Every step is one of the clock or leaves it alone.
LEMMA ClockAlone ==
  ASSUME [OrderNext]_orderVars
  PROVE  [Next]_vars
  <1>1. CASE \E w \in Workers : ClockStep(w)
    BY <1>1 DEF ClockStep, Next
  <1>2. CASE \E w \in Workers : MatchTx(w)
    BY <1>2 DEF MatchTx, TxList, TxFill, TxReject, TxDefer, Wrote
  <1>3. CASE \E o \in Orders : PlaceOrder(o) \/ CancelOrder(o)
    BY <1>3 DEF PlaceOrder, PlaceCheck, PlaceAccept, PlaceReadDay, PlaceDate, PlaceInsert, PlaceRollback,
                CancelOrder
  <1>4. CASE CrashOrders
    BY <1>4 DEF CrashOrders, Next
  <1>5. CASE UNCHANGED orderVars
    BY <1>5 DEF orderVars
  <1> QED BY <1>1, <1>2, <1>3, <1>4, <1>5 DEF OrderNext

\* The clock beside the orders is that of SimClock (PlaceOrder and the match transaction
\* only read it).
THEOREM ClockRefined == OrderSpec => Spec
  <1>1. OrderInit => Init
    BY DEF OrderInit
  <1>2. [OrderNext]_orderVars => [Next]_vars
    BY ClockAlone
  <1> QED BY <1>1, <1>2, PTL DEF OrderSpec, Spec

-----------------------------------------------------------------------------
(* The type invariant *)

Steps == {"new", "checked", "accepted", "read", "dated", "rollback", "done"}

\* The tables.
RowTypesOK ==
    /\ state \in [Orders -> Settled \cup {"none", "pending"}]
    /\ on \in [Orders -> BarDays] /\ trades \in [Orders -> Nat]
    /\ \A o \in Orders : state[o] # "none" => on[o] # 0

\* PlaceOrder holds a clock or a day until it has dated its order, and inserts no row
\* before.
PlacesOK ==
    /\ slots \in 0..Slots
    /\ at \in [Orders -> Steps] /\ clk \in [Orders -> ClockOrNone] /\ asOf \in [Orders -> DayOrNone]
    /\ raced \subseteq Orders /\ stale \in BOOLEAN /\ placeFaults \in Nat
    /\ \A o \in Orders :
          /\ at[o] \in {"checked", "accepted"} => clk[o] # 0 \/ asOf[o] # 0
          /\ at[o] = "read" => asOf[o] # 0
          /\ at[o] = "dated" => on[o] # 0

\* The match transactions; they work on orders of the table.
TxsOK ==
    /\ listed \in [Workers -> BOOLEAN] /\ todo \in [Workers -> SUBSET Orders]
    /\ wrote \in [Workers -> [Orders -> Outcomes]]
    /\ \A w \in Workers :
          /\ listed[w] => pc[w] = "match"
          /\ ~listed[w] => todo[w] = {} /\ wrote[w] = [o \in Orders |-> "none"]
          /\ \A o \in Orders :
                /\ wrote[w][o] = "defer" => day[w] < LastBar
                /\ o \in todo[w] \/ wrote[w][o] # "none" => state[o] # "none"

OrderParts == TypeOK /\ RowTypesOK /\ PlacesOK /\ TxsOK

LEMMA BarFacts ==
  /\ LastBar \in Nat /\ N \in Nat \ {0} /\ N <= LastBar /\ Slots \in Nat \ {0} /\ MaxPlaceFaults \in Nat
  /\ DayOrNone \subseteq BarDays
  BY LastBarAssumption, NAssumption, SlotsAssumption DEF DayOrNone, BarDays

LEMMA InitParts == OrderInit => OrderParts
  <1> SUFFICES ASSUME OrderInit PROVE OrderParts
    OBVIOUS
  <1>1. TypeOK
    BY TypeInit DEF OrderInit
  <1>2. RowTypesOK
    BY BarFacts DEF OrderInit, RowTypesOK, BarDays
  <1>3. PlacesOK
    <2>1. slots = 0 /\ raced = {} /\ stale = FALSE /\ placeFaults = 0
      BY DEF OrderInit
    <2>2. at \in [Orders -> Steps] /\ \A o \in Orders : at[o] = "new"
      BY DEF OrderInit, Steps
    <2>3. clk \in [Orders -> ClockOrNone] /\ asOf \in [Orders -> DayOrNone]
      BY Ranges DEF OrderInit
    <2>4. slots \in 0..Slots /\ placeFaults \in Nat
      BY <2>1, SlotsAssumption
    <2>6. stale \in BOOLEAN /\ raced \subseteq Orders
      BY <2>1
    <2>5. at \in [Orders -> Steps]
      BY <2>2
    <2> QED BY <2>2, <2>3, <2>4, <2>5, <2>6 DEF PlacesOK
  <1>4. TxsOK
    BY DEF OrderInit, TxsOK, Outcomes
  <1> QED BY <1>1, <1>2, <1>3, <1>4 DEF OrderParts

LEMMA PlaceParts ==
  ASSUME OrderParts, NEW o \in Orders, PlaceOrder(o) \/ CancelOrder(o)
  PROVE  RowTypesOK' /\ PlacesOK' /\ TxsOK'
  <1> USE BarFacts, Ranges DEF OrderParts
  <1>1. TxsOK'
    <2>1. UNCHANGED <<listed, todo, wrote, pc, day>>
      BY DEF PlaceOrder, PlaceCheck, PlaceAccept, PlaceReadDay, PlaceDate, PlaceInsert, PlaceRollback,
             CancelOrder, txVars, vars, heldVars
    <2>2. \A p \in Orders : state[p] # "none" => state'[p] # "none"
      BY DEF PlaceOrder, PlaceCheck, PlaceAccept, PlaceReadDay, PlaceDate, PlaceInsert, PlaceRollback,
             CancelOrder, tableVars, RowTypesOK
    <2> QED BY <2>1, <2>2 DEF TxsOK
  <1>2. CASE PlaceCheck(o)
    <2>1. current # 0 /\ current \in ClockOrNone
      BY <1>2 DEF PlaceCheck, Loaded, TypeOK, SharedTypes
    <2> QED BY <1>1, <1>2, <2>1 DEF PlaceCheck, RowTypesOK, PlacesOK, Steps, tableVars
  <1>3. CASE PlaceAccept(o)
    BY <1>1, <1>3 DEF PlaceAccept, RowTypesOK, PlacesOK, Steps, tableVars
  <1>4. CASE PlaceReadDay(o)
    <2>1. clk[o] # 0 => cIdx[clk[o]] \in Days
      BY BoundsAssumption DEF PlacesOK, TypeOK, SharedTypes, ClockOrNone, Clocks
    <2>2. asOf' \in [Orders -> DayOrNone] /\ asOf'[o] # 0 /\ \A p \in Orders \ {o} : asOf'[p] = asOf[p]
      BY <1>4, <2>1 DEF PlaceReadDay, PlacesOK, Days
    <2> QED BY <1>1, <1>4, <2>2 DEF PlaceReadDay, RowTypesOK, PlacesOK, Steps, tableVars
  <1>5. CASE PlaceDate(o)
    <2>1. asOf[o] \in DayOrNone \ {0} /\ asOf[o] \in BarDays /\ asOf[o] \in Nat \ {0}
      BY <1>5 DEF PlaceDate, PlacesOK, DayOrNone
    <2>2. on' \in [Orders -> BarDays] /\ (at'[o] = "dated" => on'[o] # 0)
      BY <1>5, <2>1 DEF PlaceDate, RowTypesOK, PlacesOK, BarDays
    <2>3. \A p \in Orders \ {o} : on'[p] = on[p] /\ at'[p] = at[p]
      BY <1>5 DEF PlaceDate, RowTypesOK, PlacesOK
    <2>4. on[o] # 0 => on'[o] # 0
      BY <1>5, <2>1 DEF PlaceDate, RowTypesOK
    <2>5. RowTypesOK'
      BY <1>5, <2>2, <2>3, <2>4 DEF PlaceDate, RowTypesOK
    <2>6. at' \in [Orders -> Steps] /\ at'[o] \in {"dated", "rollback"} /\ placeFaults' \in Nat
      BY <1>5 DEF PlaceDate, PlaceFault, PlacesOK, Steps
    <2>7. asOf' = [asOf EXCEPT ![o] = 0] /\ raced' \subseteq Orders /\ UNCHANGED <<slots, clk, stale>>
      BY <1>5 DEF PlaceDate, PlacesOK
    <2>8. PlacesOK'
      BY <2>2, <2>3, <2>6, <2>7 DEF PlacesOK, Steps
    <2> QED BY <1>1, <2>5, <2>8
  <1>6. CASE PlaceInsert(o)
    <2>1. state' \in [Orders -> Settled \cup {"none", "pending"}]
          /\ \A p \in Orders : p = o \/ state'[p] = state[p]
      BY <1>6 DEF PlaceInsert, RowTypesOK
    <2>2. on[o] # 0
      BY <1>6 DEF PlaceInsert, PlacesOK
    <2>3. placeFaults' \in Nat /\ at' \in [Orders -> Steps] /\ at'[o] \in {"done", "rollback"}
          /\ \A p \in Orders \ {o} : at'[p] = at[p]
      BY <1>6 DEF PlaceInsert, PlaceFault, PlacesOK, Steps
    <2> QED BY <1>1, <1>6, <2>1, <2>2, <2>3 DEF PlaceInsert, RowTypesOK, PlacesOK
  <1>7. CASE PlaceRollback(o)
    BY <1>1, <1>7 DEF PlaceRollback, RowTypesOK, PlacesOK, Steps, tableVars
  <1>8. CASE CancelOrder(o)
    BY <1>1, <1>8 DEF CancelOrder, Pending, RowTypesOK, PlacesOK, Settled, placeVars
  <1> QED BY <1>2, <1>3, <1>4, <1>5, <1>6, <1>7, <1>8 DEF PlaceOrder

LEMMA MatchParts ==
  ASSUME OrderParts, NEW w \in Workers, MatchTx(w)
  PROVE  RowTypesOK' /\ PlacesOK' /\ TxsOK'
  <1> USE DEF OrderParts
  <1>1. CASE TxList(w)
    <2>1. TxsOK'
      BY <1>1 DEF TxList, TxsOK, vars, heldVars, tableVars, Pending
    <2> QED BY <1>1, <2>1 DEF TxList, RowTypesOK, PlacesOK, tableVars
  <1>2. ASSUME NEW o \in Orders, o \in todo[w], NEW outcome \in Outcomes, Wrote(w, o, outcome),
               outcome = "defer" => day[w] < LastBar
        PROVE  RowTypesOK' /\ PlacesOK' /\ TxsOK'
    <2>1. listed[w]
      BY <1>2 DEF TxsOK
    <2>2. /\ wrote' \in [Workers -> [Orders -> Outcomes]] /\ todo' \in [Workers -> SUBSET Orders]
          /\ \A v \in Workers \ {w} : wrote'[v] = wrote[v] /\ todo'[v] = todo[v]
          /\ \A p \in Orders : wrote'[w][p] = IF p = o THEN outcome ELSE wrote[w][p]
      BY <1>2 DEF Wrote, TxsOK
    <2>3. TxsOK'
      BY <1>2, <2>1, <2>2 DEF Wrote, TxsOK, vars, heldVars, tableVars
    <2> QED BY <1>2, <2>3 DEF Wrote, RowTypesOK, PlacesOK, tableVars, placeVars
  <1>3. ASSUME NEW o \in Orders, TxFill(w, o) \/ TxReject(w, o) \/ TxDefer(w, o)
        PROVE  RowTypesOK' /\ PlacesOK' /\ TxsOK'
    BY <1>2, <1>3 DEF TxFill, TxReject, TxDefer, Outcomes
  <1> QED BY <1>1, <1>3 DEF MatchTx

LEMMA ClockParts ==
  ASSUME OrderParts, NEW w \in Workers, ClockStep(w)
  PROVE  RowTypesOK' /\ PlacesOK' /\ TxsOK'
  <1> USE BarFacts, Ranges DEF OrderParts
  <1>a. TypeOK'
    BY TypeStep DEF ClockStep, Next
  <1>b. Effects(w) /\ \A v \in Workers \ {w} : pc'[v] = pc[v] /\ day'[v] = day[v]
    BY OthersStay DEF ClockStep
  <1>1. PlacesOK'
    <2>1. \A o \in Orders : Reused(w, o) => clk[o] \in Clocks /\ cIdx[clk[o]] \in Days
      BY BoundsAssumption DEF Reused, PlacesOK, TypeOK, SharedTypes, ClockOrNone, Clocks
    <2>2. asOf' \in [Orders -> DayOrNone] /\ clk' \in [Orders -> ClockOrNone]
      BY <1>b, <2>1 DEF Effects, PlacesOK
    <2>3. \A o \in Orders : /\ Reused(w, o) => asOf'[o] # 0
                           /\ ~Reused(w, o) => asOf'[o] = asOf[o] /\ clk'[o] = clk[o]
      BY <1>b, <2>1 DEF Effects, Days
    <2>4. slots' \in 0..Slots /\ stale' \in BOOLEAN /\ UNCHANGED <<at, raced, placeFaults>>
      BY <1>b DEF Effects, PlacesOK
    <2>5. \A o \in Orders : at[o] = "dated" => on'[o] # 0
      <3>1. CASE pc[w] # "match" \/ UNCHANGED tableVars
        BY <1>b, <3>1 DEF Effects, tableVars, PlacesOK
      <3>2. CASE pc[w] = "match" /\ TxCommit(w)
        <4>1. day[w] + 1 # 0
          BY <3>2 DEF TypeOK, HeldTypes, DayOrNone
        <4> QED BY <3>2, <4>1 DEF TxCommit, PlacesOK
      <3> QED BY <1>b, <3>1, <3>2 DEF Effects, TxEnd, TxAbort
    <2>6. \A o \in Orders :
            /\ at[o] \in {"checked", "accepted"} => clk'[o] # 0 \/ asOf'[o] # 0
            /\ at[o] = "read" => asOf'[o] # 0
      <3> SUFFICES ASSUME NEW o \in Orders
                   PROVE  /\ at[o] \in {"checked", "accepted"} => clk'[o] # 0 \/ asOf'[o] # 0
                          /\ at[o] = "read" => asOf'[o] # 0
        OBVIOUS
      <3>1. CASE Reused(w, o)
        <4>1. clk[o] \in Clocks /\ cIdx[clk[o]] \in Nat \ {0}
          BY <2>1, <3>1 DEF Days
        <4>2. asOf'[o] = cIdx[clk[o]]
          BY <1>b, <3>1 DEF Effects
        <4> QED BY <4>1, <4>2
      <3>2. CASE ~Reused(w, o)
        <4>1. asOf'[o] = asOf[o] /\ clk'[o] = clk[o]
          BY <2>3, <3>2
        <4> QED BY <4>1 DEF PlacesOK
      <3> QED BY <3>1, <3>2
    <2>7. raced' \subseteq Orders /\ placeFaults' \in Nat /\ at' \in [Orders -> Steps]
      BY <2>4 DEF PlacesOK
    <2> QED BY <2>2, <2>4, <2>5, <2>6, <2>7 DEF PlacesOK
  <1>2. RowTypesOK'
    <2>1. CASE pc[w] # "match" \/ UNCHANGED tableVars
      BY <1>b, <2>1 DEF Effects, tableVars, RowTypesOK
    <2>2. CASE pc[w] = "match" /\ TxCommit(w)
      <3>1. day[w] \in Nat
        BY DEF TypeOK, HeldTypes, DayOrNone
      <3>2. state' \in [Orders -> Settled \cup {"none", "pending"}]
        BY <2>2 DEF TxCommit, RowTypesOK, StatusAfter, Settled
      <3>3. on' \in [Orders -> BarDays]
        BY <2>2, <3>1 DEF TxCommit, RowTypesOK, TxsOK, BarDays
      <3>4. trades' \in [Orders -> Nat]
        BY <2>2 DEF TxCommit, RowTypesOK
      <3>5. \A o \in Orders : state'[o] # "none" => on'[o] # 0
        BY <2>2 DEF TxCommit, StatusAfter, RowTypesOK, TxsOK, TypeOK, HeldTypes, DayOrNone
      <3> QED BY <3>2, <3>3, <3>4, <3>5 DEF RowTypesOK
    <2> QED BY <1>b, <2>1, <2>2 DEF Effects, TxEnd, TxAbort
  <1>3. TxsOK'
    <2>a. \A o \in Orders : state[o] # "none" => state'[o] # "none"
      BY <1>b DEF Effects, TxEnd, TxCommit, TxAbort, StatusAfter, tableVars
    <2>1. CASE pc[w] = "match"
      <3>1. /\ listed' = [listed EXCEPT ![w] = FALSE] /\ todo' = [todo EXCEPT ![w] = {}]
            /\ wrote' = [wrote EXCEPT ![w] = [o \in Orders |-> "none"]]
        BY <1>b, <2>1 DEF Effects, TxEnd
      <3> QED BY <1>b, <2>a, <3>1 DEF TxsOK, Outcomes
    <2>2. CASE pc[w] # "match"
      <3>1. UNCHANGED <<listed, todo, wrote>> /\ ~listed[w]
        BY <1>b, <2>2 DEF Effects, txVars, TxsOK
      <3> QED BY <1>b, <2>a, <3>1 DEF TxsOK
    <2> QED BY <2>1, <2>2
  <1> QED BY <1>1, <1>2, <1>3

LEMMA CrashParts ==
  ASSUME OrderParts, CrashOrders
  PROVE  RowTypesOK' /\ PlacesOK' /\ TxsOK'
  <1> USE BarFacts, Ranges DEF OrderParts
  <1>1. RowTypesOK'
    BY DEF CrashOrders, RowTypesOK, tableVars
  <1>2. PlacesOK'
    <2>1. at' \in [Orders -> {"new", "done"}] /\ UNCHANGED <<raced, stale, placeFaults>>
      BY DEF CrashOrders
    <2>2. slots' \in 0..Slots /\ clk' \in [Orders -> ClockOrNone] /\ asOf' \in [Orders -> DayOrNone]
      BY DEF CrashOrders
    <2> QED BY <2>1, <2>2 DEF PlacesOK, Steps
  <1>3. TxsOK'
    BY DEF CrashOrders, TxsOK, Outcomes
  <1> QED BY <1>1, <1>2, <1>3

LEMMA StepParts == OrderParts /\ [OrderNext]_orderVars => OrderParts'
  <1> SUFFICES ASSUME OrderParts, [OrderNext]_orderVars PROVE OrderParts'
    OBVIOUS
  <1>1. TypeOK'
    BY TypeStep, ClockAlone DEF OrderParts
  <1>2. CASE UNCHANGED orderVars
    <2>1. RowTypesOK' /\ PlacesOK'
      BY <1>2 DEF orderVars, tableVars, placeVars, RowTypesOK, PlacesOK, OrderParts
    <2>2. TxsOK'
      BY <1>2 DEF orderVars, tableVars, txVars, vars, heldVars, TxsOK, OrderParts
    <2> QED BY <1>1, <2>1, <2>2 DEF OrderParts
  <1> QED BY <1>1, <1>2, PlaceParts, MatchParts, ClockParts, CrashParts DEF OrderNext, OrderParts

\* An order in the table has a day of the market data, and only an open match
\* transaction holds uncommitted writes (orders.Row, ProcessSimulationDay).
THEOREM OrderTypeCorrect == OrderSpec => []OrderTypeOK
  <1>1. OrderParts => OrderTypeOK
    BY DEF OrderParts, RowTypesOK, PlacesOK, TxsOK, Steps, OrderTypeOK
  <1> QED BY <1>1, InitParts, StepParts, PTL DEF OrderSpec

-----------------------------------------------------------------------------
(* Settled orders stay settled *)

Locking == {"fill", "reject", "defer"}

\* A request inserts its row once; an uncommitted write of a row is of one transaction,
\* and of a row that is pending: the lock keeps every other writer away until it ends.
LocksInv ==
    /\ \A o \in Orders : at[o] \in {"new", "checked", "accepted", "read", "dated"} => state[o] = "none"
    /\ \A w \in Workers, o \in Orders : wrote[w][o] \in Locking => Pending(o)
    /\ \A w, v \in Workers : \A o \in Orders :
          wrote[w][o] \in Locking /\ wrote[v][o] \in Locking => w = v

LEMMA PlaceLocks ==
  ASSUME OrderParts, LocksInv, NEW o \in Orders, PlaceOrder(o) \/ CancelOrder(o)
  PROVE  LocksInv' /\ \A p \in Orders : state[p] \in Settled => state'[p] = state[p]
  <1>1. UNCHANGED wrote
    BY DEF PlaceOrder, PlaceCheck, PlaceAccept, PlaceReadDay, PlaceDate, PlaceInsert, PlaceRollback,
           CancelOrder, txVars
  <1>2. at \in [Orders -> Steps] /\ state \in [Orders -> Settled \cup {"none", "pending"}]
    BY DEF OrderParts, PlacesOK, RowTypesOK
  <1>3. /\ \A p \in Orders \ {o} : state'[p] = state[p] /\ at'[p] = at[p]
        /\ at'[o] \in {"new", "checked", "accepted", "read", "dated"} => state'[o] = "none"
    <2>1. CASE PlaceOrder(o)
      BY <1>2, <2>1
         DEF PlaceOrder, PlaceCheck, PlaceAccept, PlaceReadDay, PlaceDate, PlaceInsert, PlaceRollback,
             tableVars, LocksInv
    <2>2. CASE CancelOrder(o)
      BY <1>2, <2>2 DEF CancelOrder, placeVars, Pending, LocksInv
    <2> QED BY <2>1, <2>2
  <1>4. /\ state[o] \in Settled => state'[o] = state[o]
        /\ (\E w \in Workers : wrote[w][o] \in Locking) => state'[o] = state[o]
    <2>1. CASE PlaceOrder(o)
      BY <1>2, <2>1
         DEF PlaceOrder, PlaceCheck, PlaceAccept, PlaceReadDay, PlaceDate, PlaceInsert, PlaceRollback,
             tableVars, LocksInv, Settled, Pending
    <2>2. CASE CancelOrder(o)
      BY <1>2, <2>2 DEF CancelOrder, Pending, Settled, Locking
    <2> QED BY <2>1, <2>2
  <1>5. \A w \in Workers, p \in Orders : wrote'[w][p] \in Locking => Pending(p)'
    BY <1>1, <1>3, <1>4 DEF LocksInv, Pending
  <1>6. \A p \in Orders : at'[p] \in {"new", "checked", "accepted", "read", "dated"} => state'[p] = "none"
    BY <1>3 DEF LocksInv
  <1> QED BY <1>1, <1>3, <1>4, <1>5, <1>6 DEF LocksInv

LEMMA MatchLocks ==
  ASSUME OrderParts, LocksInv, NEW w \in Workers, MatchTx(w)
  PROVE  LocksInv' /\ UNCHANGED state
  <1>1. UNCHANGED <<state, at>>
    BY DEF MatchTx, TxList, TxFill, TxReject, TxDefer, Wrote, tableVars, placeVars
  <1>2. ASSUME NEW o \in Orders, NEW outcome \in Outcomes, Wrote(w, o, outcome),
               outcome \in Locking => Pending(o) /\ ~RowLocked(w, o)
        PROVE  LocksInv'
    <2>1. \A v \in Workers, p \in Orders :
             wrote'[v][p] = IF v = w /\ p = o THEN outcome ELSE wrote[v][p]
      BY <1>2 DEF Wrote, OrderParts, TxsOK
    <2>2. \A v \in Workers \ {w} : outcome \in Locking => wrote[v][o] \notin Locking
      BY <1>2 DEF RowLocked, Locking
    <2>3. \A v \in Workers, p \in Orders : wrote'[v][p] \in Locking => Pending(p)'
      BY <1>1, <1>2, <2>1 DEF LocksInv, Pending
    <2>4. ASSUME NEW u \in Workers, NEW v \in Workers, NEW p \in Orders,
                 wrote'[u][p] \in Locking, wrote'[v][p] \in Locking
          PROVE  u = v
      BY <2>1, <2>2, <2>4 DEF LocksInv
    <2> QED BY <1>1, <2>3, <2>4 DEF LocksInv
  <1>3. CASE TxList(w)
    BY <1>1, <1>3 DEF TxList, LocksInv, Pending
  <1>4. ASSUME NEW o \in Orders, TxFill(w, o) \/ TxReject(w, o) \/ TxDefer(w, o) PROVE LocksInv'
    BY <1>2, <1>4 DEF TxFill, TxReject, TxDefer, Outcomes, Locking
  <1> QED BY <1>1, <1>3, <1>4 DEF MatchTx

\* What the end of a match transaction does to the rows.
LEMMA ClockRows ==
  ASSUME OrderParts, NEW w \in Workers, ClockStep(w)
  PROVE  /\ UNCHANGED at
         /\ \A o \in Orders : state'[o] # state[o] => wrote[w][o] \in {"fill", "reject"}
         /\ \A v \in Workers, o \in Orders : wrote'[v][o] = wrote[v][o] \/ wrote'[v][o] = "none"
         /\ pc[w] = "match" => \A o \in Orders : wrote'[w][o] = "none"
         /\ pc[w] # "match" => UNCHANGED <<state, wrote>>
  <1>1. Effects(w)
    BY DEF ClockStep
  <1>2. UNCHANGED at
    BY <1>1 DEF Effects
  <1>3. CASE pc[w] # "match"
    BY <1>1, <1>2, <1>3 DEF Effects, tableVars, txVars
  <1>4. CASE pc[w] = "match"
    <2>1. wrote' = [wrote EXCEPT ![w] = [o \in Orders |-> "none"]]
      BY <1>1, <1>4 DEF Effects, TxEnd
    <2>2. \A o \in Orders : state'[o] # state[o] => wrote[w][o] \in {"fill", "reject"}
      BY <1>1, <1>4 DEF Effects, TxEnd, TxCommit, TxAbort, StatusAfter, tableVars
    <2> QED BY <1>2, <1>4, <2>1, <2>2 DEF OrderParts, TxsOK
  <1> QED BY <1>3, <1>4

LEMMA ClockLocks ==
  ASSUME OrderParts, LocksInv, NEW w \in Workers, ClockStep(w)
  PROVE  LocksInv' /\ \A o \in Orders : state[o] \in Settled => state'[o] = state[o]
  <1>1. \A o \in Orders : state'[o] # state[o] => wrote[w][o] \in Locking /\ Pending(o)
    BY ClockRows DEF LocksInv, Locking
  <1>2. \A o \in Orders : state[o] \in Settled => state'[o] = state[o]
    BY <1>1 DEF Pending, Settled
  <1>3. \A o \in Orders : state[o] = "none" => state'[o] = "none"
    BY <1>1 DEF Pending
  <1>4. \A v \in Workers, o \in Orders : wrote'[v][o] \in Locking => wrote[v][o] \in Locking
    BY ClockRows DEF Locking
  <1>5. ASSUME NEW v \in Workers, NEW o \in Orders, wrote'[v][o] \in Locking PROVE Pending(o)'
    <2>1. wrote[v][o] \in Locking /\ Pending(o)
      BY <1>4, <1>5 DEF LocksInv
    <2>2. CASE state'[o] # state[o]
      <3>1. v = w /\ wrote[w][o] \in Locking
        BY <1>1, <2>1, <2>2 DEF LocksInv
      <3>2. pc[w] = "match"
        BY <2>2, ClockRows
      <3> QED BY <1>5, <3>1, <3>2, ClockRows DEF Locking
    <2> QED BY <2>1, <2>2 DEF Pending
  <1> QED BY <1>2, <1>3, <1>4, <1>5, ClockRows DEF LocksInv

LEMMA CrashLocks ==
  ASSUME OrderParts, LocksInv, CrashOrders
  PROVE  LocksInv' /\ UNCHANGED state
  BY DEF CrashOrders, LocksInv, Locking, tableVars, Pending

LEMMA LocksStep ==
  ASSUME OrderParts, LocksInv, [OrderNext]_orderVars
  PROVE  LocksInv' /\ \A o \in Orders : state[o] \in Settled => state'[o] = state[o]
  <1>1. CASE UNCHANGED orderVars
    BY <1>1 DEF orderVars, tableVars, placeVars, txVars, LocksInv, Pending
  <1> QED BY <1>1, PlaceLocks, MatchLocks, ClockLocks, CrashLocks DEF OrderNext

\* The status of an order that is filled, rejected or canceled is final, with
\* cancels and matches in any order (MarkFilled, MarkRejected, CancelPending).
THEOREM SettledStaysSettled == OrderSpec => SettledIsFinal
  <1>1. OrderInit => LocksInv
    BY DEF OrderInit, LocksInv, Locking
  <1>3. OrderParts /\ LocksInv /\ [OrderNext]_orderVars
          => [\A o \in Orders : state[o] \in Settled => state'[o] = state[o]]_orderVars
    BY LocksStep
  <1>4. OrderParts /\ LocksInv /\ [OrderNext]_orderVars => OrderParts' /\ LocksInv'
    BY LocksStep, StepParts
  <1> QED BY <1>1, <1>3, <1>4, InitParts, PTL DEF OrderSpec, SettledIsFinal

-----------------------------------------------------------------------------
(* An order trades once *)

\* With one goroutine that matches, an order it has listed has not traded, and is still
\* pending or has been canceled since; what it does to a canceled one is a ghost.
TradesInv ==
    /\ \A o \in Orders :
          /\ state[o] \in {"none", "pending", "rejected"} => trades[o] = 0
          /\ state[o] = "filled" => trades[o] = 1
          /\ trades[o] \in {0, 1}
    /\ \A w \in Workers, o \in Orders :
          o \in todo[w] \/ wrote[w][o] # "none" => trades[o] = 0 /\ state[o] \in {"pending", "canceled"}
    /\ \A w \in Workers, o \in Orders : wrote[w][o] = "ghost" => state[o] = "canceled"

\* Nobody but the ticker has a match transaction open.
LEMMA OneMatches ==
  ASSUME TickerOnly, RolesInv, TypeOK, TxsOK, NEW w \in Workers, listed[w] \/ pc[w] = "match",
         NEW v \in Workers, v # w
  PROVE  todo[v] = {} /\ wrote[v] = [o \in Orders |-> "none"]
  <1>1. \A u \in Workers : pc[u] = "match" => u \in Tickers
    BY DEF RolesInv, RequestLabels, Workers
  <1>2. pc[v] # "match"
    BY <1>1 DEF TickerOnly, TxsOK
  <1> QED BY <1>2 DEF TxsOK

LEMMA PlaceTrades ==
  ASSUME OrderParts, LocksInv, TradesInv, NEW o \in Orders, PlaceOrder(o) \/ CancelOrder(o)
  PROVE  TradesInv'
  <1>1. UNCHANGED <<todo, wrote, trades>>
    BY DEF PlaceOrder, PlaceCheck, PlaceAccept, PlaceReadDay, PlaceDate, PlaceInsert, PlaceRollback,
           CancelOrder, txVars, tableVars
  <1>2. state \in [Orders -> Settled \cup {"none", "pending"}]
    BY DEF OrderParts, RowTypesOK
  <1>3. \A p \in Orders \ {o} : state'[p] = state[p]
    BY <1>2 DEF PlaceOrder, PlaceCheck, PlaceAccept, PlaceReadDay, PlaceDate, PlaceInsert, PlaceRollback,
                CancelOrder, tableVars
  <1>4. \/ state'[o] = state[o]
        \/ state[o] = "none" /\ state'[o] = "pending"
        \/ state[o] = "pending" /\ state'[o] = "canceled"
    <2>1. CASE PlaceOrder(o)
      BY <1>2, <2>1
         DEF PlaceOrder, PlaceCheck, PlaceAccept, PlaceReadDay, PlaceDate, PlaceInsert, PlaceRollback,
             tableVars, LocksInv
    <2>2. CASE CancelOrder(o)
      BY <1>2, <2>2 DEF CancelOrder, Pending
    <2> QED BY <2>1, <2>2
  <1>5. ASSUME NEW p \in Orders
        PROVE  /\ state'[p] \in {"none", "pending", "rejected"} => trades'[p] = 0
               /\ state'[p] = "filled" => trades'[p] = 1
               /\ trades'[p] \in {0, 1}
    BY <1>1, <1>3, <1>4 DEF TradesInv
  <1>6. ASSUME NEW w \in Workers, NEW p \in Orders
        PROVE  /\ p \in todo'[w] \/ wrote'[w][p] # "none" => trades'[p] = 0 /\ state'[p] \in {"pending", "canceled"}
               /\ wrote'[w][p] = "ghost" => state'[p] = "canceled"
    BY <1>1, <1>3, <1>4 DEF TradesInv
  <1> QED BY <1>5, <1>6 DEF TradesInv

LEMMA MatchTrades ==
  ASSUME TickerOnly, RolesInv, OrderParts, TradesInv, NEW w \in Workers, MatchTx(w)
  PROVE  TradesInv'
  <1>1. UNCHANGED tableVars
    BY DEF MatchTx, TxList, TxFill, TxReject, TxDefer, Wrote
  <1>2. /\ \A o \in Orders :
             /\ state'[o] \in {"none", "pending", "rejected"} => trades'[o] = 0
             /\ state'[o] = "filled" => trades'[o] = 1
             /\ trades'[o] \in {0, 1}
    BY <1>1 DEF TradesInv, tableVars
  <1>3. ASSUME NEW o \in Orders, o \in todo[w], NEW outcome \in Outcomes, Wrote(w, o, outcome),
               outcome = "ghost" => ~Pending(o)
        PROVE  TradesInv'
    <2>1. /\ \A v \in Workers, p \in Orders :
               wrote'[v][p] = IF v = w /\ p = o THEN outcome ELSE wrote[v][p]
          /\ \A v \in Workers : todo'[v] \subseteq todo[v]
      BY <1>3 DEF Wrote, OrderParts, TxsOK
    <2>2. trades[o] = 0 /\ state[o] \in {"pending", "canceled"}
      BY <1>3 DEF TradesInv
    <2>3. ASSUME NEW v \in Workers, NEW p \in Orders
          PROVE  /\ p \in todo'[v] \/ wrote'[v][p] # "none" => trades'[p] = 0 /\ state'[p] \in {"pending", "canceled"}
                 /\ wrote'[v][p] = "ghost" => state'[p] = "canceled"
      BY <1>1, <1>3, <2>1, <2>2 DEF TradesInv, tableVars, Pending
    <2> QED BY <1>2, <2>3 DEF TradesInv
  <1>4. CASE TxList(w)
    <2>1. wrote' = wrote
          /\ \A v \in Workers, o \in Orders : o \in todo'[v] => o \in todo[v] \/ Pending(o)
      BY <1>4 DEF TxList, OrderParts, TxsOK
    <2>2. ASSUME NEW v \in Workers, NEW p \in Orders
          PROVE  /\ p \in todo'[v] \/ wrote'[v][p] # "none" => trades'[p] = 0 /\ state'[p] \in {"pending", "canceled"}
                 /\ wrote'[v][p] = "ghost" => state'[p] = "canceled"
      BY <1>1, <2>1 DEF TradesInv, tableVars, Pending
    <2> QED BY <1>2, <2>2 DEF TradesInv
  <1>5. ASSUME NEW o \in Orders, TxFill(w, o) \/ TxReject(w, o) \/ TxDefer(w, o) PROVE TradesInv'
    BY <1>3, <1>5 DEF TxFill, TxReject, TxDefer, Outcomes
  <1> QED BY <1>4, <1>5 DEF MatchTx

LEMMA ClockTrades ==
  ASSUME TickerOnly, RolesInv, OrderParts, LocksInv, TradesInv, NEW w \in Workers, ClockStep(w)
  PROVE  TradesInv'
  <1>1. Effects(w)
    BY DEF ClockStep
  <1>2. CASE pc[w] # "match"
    BY <1>1, <1>2 DEF Effects, tableVars, txVars, TradesInv
  <1>3. CASE pc[w] = "match"
    <2>1. /\ todo' = [todo EXCEPT ![w] = {}] /\ wrote' = [wrote EXCEPT ![w] = [o \in Orders |-> "none"]]
          /\ TxCommit(w) \/ UNCHANGED tableVars
      BY <1>1, <1>3 DEF Effects, TxEnd, TxAbort
    <2>2. \A v \in Workers \ {w} : todo[v] = {} /\ wrote[v] = [o \in Orders |-> "none"]
      BY <1>3, OneMatches DEF OrderParts
    <2>3. \A v \in Workers, p \in Orders : p \notin todo'[v] /\ wrote'[v][p] = "none"
      BY <2>1, <2>2 DEF OrderParts, TxsOK
    <2>4. ASSUME NEW o \in Orders
          PROVE  /\ state'[o] \in {"none", "pending", "rejected"} => trades'[o] = 0
                 /\ state'[o] = "filled" => trades'[o] = 1
                 /\ trades'[o] \in {0, 1}
      <3>1. CASE UNCHANGED tableVars
        BY <3>1 DEF tableVars, TradesInv
      <3>2. CASE TxCommit(w)
        <4>1. /\ state'[o] = StatusAfter(w, o)
              /\ trades'[o] = IF wrote[w][o] \in {"fill", "ghost"} THEN trades[o] + 1 ELSE trades[o]
          BY <3>2 DEF TxCommit
        <4>2. CASE wrote[w][o] = "ghost"
          <5>1. state[o] = "canceled" /\ trades[o] = 0
            BY <4>2 DEF TradesInv
          <5> QED BY <4>1, <4>2, <5>1 DEF StatusAfter
        <4>3. CASE wrote[w][o] = "fill"
          <5>1. trades[o] = 0
            BY <4>3 DEF TradesInv
          <5> QED BY <4>1, <4>3, <5>1 DEF StatusAfter
        <4>4. CASE wrote[w][o] = "reject"
          <5>1. trades[o] = 0
            BY <4>4 DEF TradesInv
          <5> QED BY <4>1, <4>4, <5>1 DEF StatusAfter
        <4>5. CASE wrote[w][o] \notin {"fill", "ghost", "reject"}
          BY <4>1, <4>5 DEF StatusAfter, TradesInv
        <4> QED BY <4>2, <4>3, <4>4, <4>5
      <3> QED BY <2>1, <3>1, <3>2
    <2> QED BY <2>3, <2>4 DEF TradesInv
  <1> QED BY <1>2, <1>3

\* Execution is exactly once while the auto ticker is the only one that matches: an
\* order is filled when it has traded once, and an order still pending or rejected
\* never has, even if its day is matched again after a crash or a failed match
\* (ProcessSimulationDay).
THEOREM TradesAreOnce == ASSUME TickerOnly PROVE OrderSpec => []TradedOnce
  <1>1. OrderInit => LocksInv /\ RolesInv /\ TradesInv
    <2>1. OrderInit => LocksInv
      BY DEF OrderInit, LocksInv, Locking
    <2>2. OrderInit => TradesInv
      BY DEF OrderInit, TradesInv
    <2> QED BY <2>1, <2>2, GateInit DEF OrderInit
  <1>2. ASSUME OrderParts, LocksInv, RolesInv, TradesInv, [OrderNext]_orderVars
        PROVE  LocksInv' /\ RolesInv' /\ TradesInv'
    <2>1. RolesInv'
      BY <1>2, ClockAlone, RolesStay DEF OrderParts
    <2>2. CASE UNCHANGED orderVars
      BY <1>2, <2>1, <2>2 DEF orderVars, tableVars, placeVars, txVars, LocksInv, TradesInv, Pending
    <2>3. ASSUME CrashOrders PROVE TradesInv'
      BY <1>2, <2>3 DEF CrashOrders, tableVars, TradesInv
    <2> QED
      BY <1>2, <2>1, <2>2, <2>3, PlaceLocks, MatchLocks, ClockLocks, CrashLocks,
         PlaceTrades, MatchTrades, ClockTrades DEF OrderNext
  <1>3. OrderParts /\ LocksInv /\ RolesInv /\ TradesInv /\ [OrderNext]_orderVars
          => OrderParts' /\ LocksInv' /\ RolesInv' /\ TradesInv'
    BY <1>2, StepParts
  <1>4. TradesInv => TradedOnce
    BY DEF TradesInv, TradedOnce
  <1> QED BY <1>1, <1>3, <1>4, InitParts, PTL DEF OrderSpec

-----------------------------------------------------------------------------
(* The days of the clock, while nothing fails and no Start uses a stale row *)

Playing == {"close", "match", "record", "merge", "reload", "count", "counted", "gate", "await",
            "gatesample", "gatepersist", "shut", "ticksample", "tickpersist"}

\* What the ticker knows at each step of its call.
AtStep(t) ==
    /\ pc[t] \in {"match", "record"} =>
          ~WindowOpen /\ day[t] = cIdx[current] /\ day[t] = lastMatched + 1 /\ dbAsOf = day[t]
    /\ pc[t] = "merge" =>
          ~WindowOpen /\ day[t] = cIdx[current] /\ day[t] = lastMatched /\ day[t] = dbLast + 1 /\ dbAsOf = day[t]
    /\ pc[t] \in {"ticksample", "tickpersist"} => obj[t] = current
    /\ pc[t] \in {"count", "counted", "gate", "await", "gatesample", "gatepersist"} => cobj[t] = current
    /\ pc[t] \in {"tickpersist", "gatepersist"} => sIdx[t] = cIdx[current]
    /\ pc[t] = "finish" => prev[t] = dbLast
    /\ pc[t] \in {"finish", "unload"} => ~WindowOpen
    /\ pc[t] \in Playing => current # 0 /\ cStatus[current] # "completed"

\* The row and the clock stand on the day last matched or on the next one, and an open
\* window is on the next one.
RowInv == dbLast <= dbAsOf /\ dbAsOf <= dbLast + 1

LoadedInv ==
    current # 0 =>
        /\ lastMatched <= cIdx[current] /\ cIdx[current] <= lastMatched + 1
        /\ (\A t \in Tickers : pc[t] # "merge") => lastMatched = dbLast

WindowInv ==
    WindowOpen =>
        /\ current # 0 /\ cStatus[current] # "completed"
        /\ window = cIdx[current] /\ window = lastMatched + 1
        /\ (\A t \in Tickers : pc[t] \notin {"ticksample", "tickpersist"}) => dbAsOf = window

HoldInv ==
    \A w \in Workers :
        /\ pc[w] \notin {"restore", "startdrop"}
        /\ pc[w] \in {"startpersist", "resumepersist"} => obj[w] # 0

DayInv == RowInv /\ LoadedInv /\ WindowInv /\ HoldInv /\ \A t \in Tickers : AtStep(t)

LEMMA NumberTypes ==
  ASSUME TypeOK
  PROVE  /\ lastMatched \in Nat /\ dbLast \in Nat /\ dbAsOf \in Nat /\ window \in Nat
         /\ current # 0 => current \in Clocks /\ cIdx[current] \in Nat \ {0}
  <1>1. current # 0 => current \in Clocks /\ cIdx[current] \in Nat \ {0}
    BY LoadedClock DEF Days
  <1>2. lastMatched \in Nat /\ dbLast \in Nat /\ dbAsOf \in Nat /\ window \in Nat
    BY DEF TypeOK, SharedTypes, DayOrNone
  <1> QED BY <1>1, <1>2

\* The day of the clock may be written to the row at any time.
LEMMA ClockDay ==
  ASSUME TypeOK, DayInv, current # 0
  PROVE  /\ dbLast <= cIdx[current] /\ cIdx[current] <= dbLast + 1
         /\ dbLast <= lastMatched
  <1>1. CASE \A t \in Tickers : pc[t] # "merge"
    BY <1>1, NumberTypes DEF DayInv, LoadedInv
  <1>2. ASSUME NEW t \in Tickers, pc[t] = "merge"
        PROVE  /\ dbLast <= cIdx[current] /\ cIdx[current] <= dbLast + 1
               /\ dbLast <= lastMatched
    <2>1. cIdx[current] = dbLast + 1 /\ lastMatched = dbLast + 1
      BY <1>2 DEF DayInv, AtStep
    <2> QED BY <2>1, NumberTypes
  <1> QED BY <1>1, <1>2

\* A request that loads no clock may write the clock's day to the row, shut the window
\* and start or pause the clock.
LEMMA RequestKeepsDays ==
  ASSUME TypeOK, DayInv, NEW w \in Requests, Step(w),
         UNCHANGED <<cIdx, current, lastMatched, dbLast>>, window' \in {0, window},
         dbAsOf' = dbAsOf \/ (current # 0 /\ dbAsOf' = cIdx[current]),
         current # 0 /\ cStatus[current] # "completed" => cStatus'[current] # "completed",
         pc'[w] \notin {"restore", "startdrop"},
         pc'[w] \in {"startpersist", "resumepersist"} => obj'[w] # 0
  PROVE  DayInv'
  <1>1. w \in Workers /\ \A t \in Tickers : t \in Workers /\ t # w
    BY WorkersAssumption DEF Workers
  <1>2. \A v \in Workers : v = w \/ /\ pc'[v] = pc[v] /\ obj'[v] = obj[v] /\ cobj'[v] = cobj[v]
                                    /\ prev'[v] = prev[v] /\ day'[v] = day[v] /\ sIdx'[v] = sIdx[v]
    BY <1>1, OthersStay
  <1>3. RowInv'
    BY ClockDay DEF RowInv, DayInv
  <1>4. LoadedInv'
    BY <1>1, <1>2 DEF LoadedInv, DayInv
  <1>5. WindowInv'
    BY <1>1, <1>2 DEF WindowInv, WindowOpen, DayInv
  <1>6. HoldInv'
    BY <1>1, <1>2 DEF HoldInv, DayInv
  <1>7. ASSUME NEW t \in Tickers PROVE AtStep(t)'
    BY <1>1, <1>2 DEF AtStep, WindowOpen, DayInv
  <1> QED BY <1>3, <1>4, <1>5, <1>6, <1>7 DEF DayInv

LEMMA RequestDays ==
  ASSUME TypeOK, RolesInv, DayInv, NEW w \in Requests, RequestStep(w), ~Stale(w), ~Fault
  PROVE  DayInv'
  <1> USE DEF Goto, Put, Done, heldVars, sysVars, cfgVars, clockVars, rowVars, histVars
  <1>1. /\ w \in Workers /\ pc[w] \in RequestLabels \cup {"idle"} /\ pc[w] # "startdrop"
        /\ \A t \in Tickers : t \in Workers /\ t # w
        /\ pc \in [Workers -> Labels] /\ obj \in [Workers -> ClockOrNone]
    BY WorkersAssumption DEF RolesInv, Workers, TypeOK, HeldTypes, DayInv, HoldInv
  <1>2. Step(w)
    BY DEF RequestStep, Step
  <1>3. cStatus \in [Clocks -> Statuses] /\ (current # 0 => current \in Clocks)
    BY LoadedClock DEF TypeOK, SharedTypes
  <1>4. CASE StartLoad(w)
    <2>1. PICK o \in Clocks : o # current /\ NewClock(o, sIdx[w], rLast[w])
      BY <1>4 DEF StartLoad, Unreachable
    <2>2. /\ pc[w] = "startlock" /\ pc'[w] = "startsample"
          /\ UNCHANGED <<window, dbAsOf, dbStatus, dbLast>> /\ current' = o /\ current' # current
      BY <1>1, <1>4, <2>1 DEF StartLoad, NewClock
    <2>3. sIdx[w] = ResumeDay /\ rLast[w] = dbLast
      BY <2>2 DEF Stale
    <2>4. cIdx'[o] = ResumeDay /\ lastMatched' = dbLast /\ o # 0
      BY <2>1, <2>3 DEF NewClock, TypeOK, SharedTypes, Clocks
    <2>5. ~WindowOpen /\ \A t \in Tickers : pc[t] \notin Playing
      BY <1>3, <1>4 DEF StartLoad, Loaded, Statuses, DayInv, WindowInv, AtStep
    <2>6. \A v \in Workers \ {w} : pc'[v] = pc[v] /\ obj'[v] = obj[v] /\ prev'[v] = prev[v]
      BY <1>1, <1>2, OthersStay
    <2>7. RowInv'
      BY <2>2 DEF DayInv, RowInv
    <2>8. LoadedInv'
      BY <2>2, <2>4, NumberTypes DEF DayInv, RowInv, LoadedInv, ResumeDay
    <2>9. WindowInv'
      BY <2>2, <2>5 DEF WindowInv, WindowOpen
    <2>10. HoldInv'
      BY <1>1, <2>2, <2>6 DEF HoldInv, DayInv
    <2>11. ASSUME NEW t \in Tickers PROVE AtStep(t)'
      BY <1>1, <2>2, <2>5, <2>6 DEF AtStep, Playing, DayInv, WindowOpen
    <2> QED BY <2>7, <2>8, <2>9, <2>10, <2>11 DEF DayInv
  <1>5. CASE ~StartLoad(w)
    <2>1. UNCHANGED <<cIdx, current, lastMatched, dbLast>> /\ window' \in {0, window}
      BY <1>1, <1>5
         DEF RequestStep, Start, StartRead, StartRunning, StartPaused, StartSample, StartPersist, StartDrop,
             ProceedRead, ProceedReset, Pause
    <2>2. dbAsOf' = dbAsOf \/ (current # 0 /\ dbAsOf' = cIdx[current])
      <3>1. CASE StartPersist(w)
        <4>1. dbAsOf' = sIdx[w] /\ pc[w] \in {"startpersist", "resumepersist"}
          BY <3>1 DEF StartPersist, UpdateClock, UpdateFails, Write
        <4>2. obj[w] = current /\ sIdx[w] = cIdx[current] /\ obj[w] # 0
          BY <1>1, <4>1 DEF Stale, DayInv, HoldInv
        <4> QED BY <4>1, <4>2
      <3>2. CASE ~StartPersist(w)
        BY <1>1, <1>5, <3>2
           DEF RequestStep, Start, StartRead, StartRunning, StartPaused, StartSample, StartDrop,
               ProceedRead, ProceedReset, Pause, UpdateClock, UpdateFails, Write
      <3> QED BY <3>1, <3>2
    <2>3. current # 0 /\ cStatus[current] # "completed" => cStatus'[current] # "completed"
      BY <1>1, <1>3, <1>5
         DEF RequestStep, Start, StartRead, StartRunning, StartPaused, StartSample, StartPersist, StartDrop,
             ProceedRead, ProceedReset, Pause
    <2>4. pc'[w] \notin {"restore", "startdrop"}
      BY <1>1, <1>5
         DEF RequestStep, RequestLabels, Start, StartRead, StartRunning, StartPaused, StartSample,
             StartPersist, StartDrop, UpdateFails, ProceedRead, ProceedReset, Pause
    <2>5. pc'[w] \in {"startpersist", "resumepersist"} => obj'[w] # 0
      <3>1. CASE StartSample(w)
        <4>1. obj[w] \in Clocks /\ obj' = obj
          BY <1>1, <3>1 DEF StartSample, TypeOK, HeldBy
        <4> QED BY <4>1 DEF Clocks
      <3>2. CASE ~StartSample(w)
        BY <1>1, <1>5, <3>2
           DEF RequestStep, Start, StartRead, StartRunning, StartPaused, StartPersist, StartDrop,
               UpdateFails, ProceedRead, ProceedReset, Pause, Accept
      <3> QED BY <3>1, <3>2
    <2> QED BY <1>2, <2>1, <2>2, <2>3, <2>4, <2>5, RequestKeepsDays
  <1> QED BY <1>4, <1>5

\* DayInv, when w is the only ticker.
DaysOf(w) ==
    /\ RowInv
    /\ current # 0 =>
          /\ lastMatched <= cIdx[current] /\ cIdx[current] <= lastMatched + 1
          /\ pc[w] # "merge" => lastMatched = dbLast
    /\ WindowOpen =>
          /\ current # 0 /\ cStatus[current] # "completed"
          /\ window = cIdx[current] /\ window = lastMatched + 1
          /\ pc[w] \notin {"ticksample", "tickpersist"} => dbAsOf = window
    /\ pc[w] \notin {"restore", "startdrop", "startpersist", "resumepersist"}
    /\ AtStep(w)

\* A step of the ticker that leaves the days and the row alone.
LEMMA TickerKeepsDays ==
  ASSUME NEW w \in Tickers, DaysOf(w),
         UNCHANGED <<cIdx, current, lastMatched, dbLast, dbAsOf>>, window' \in {0, window},
         current # 0 /\ cStatus[current] # "completed" => cStatus'[current] # "completed",
         pc[w] \notin {"merge", "ticksample", "tickpersist"},
         pc'[w] \notin {"restore", "startdrop", "startpersist", "resumepersist"},
         AtStep(w)'
  PROVE  DaysOf(w)'
  BY DEF DaysOf, RowInv, WindowOpen

LEMMA CloseDays ==
  ASSUME TypeOK, GateInv, TickerOnly, NEW w \in Tickers, DaysOf(w), CloseWindowAndMatch(w), ~Fault
  PROVE  DaysOf(w)'
  <1> USE DEF Goto, Put, heldVars, sysVars, cfgVars, clockVars, rowVars, histVars
  <1>1. /\ w \in Workers /\ ret[w] # "tick"
        /\ pc \in [Workers -> Labels] /\ day \in [Workers -> DayOrNone] /\ cobj \in [Workers -> ClockOrNone]
        /\ sIdx \in [Workers -> DayOrNone] /\ cStatus \in [Clocks -> Statuses]
    BY DEF Workers, TypeOK, HeldTypes, SharedTypes, GateInv
  <1>2. CmReturn(w, TRUE) => pc'[w] = "idle"
    BY <1>1 DEF CmReturn, Done
  <1>3. ASSUME pc'[w] = "idle",
               UNCHANGED <<cIdx, cStatus, current, lastMatched, dbLast, dbAsOf>>, window' \in {0, window},
               pc[w] \notin {"merge", "ticksample", "tickpersist"}
        PROVE  DaysOf(w)'
    BY <1>3, TickerKeepsDays DEF AtStep, Playing
  <1>4. CASE CmClose(w)
    <2>1. CASE WindowOpen
      <3>1. /\ day'[w] = window /\ pc'[w] = "match" /\ window' = 0 /\ pc[w] = "close"
            /\ UNCHANGED <<cIdx, cStatus, current, lastMatched, dbLast, dbAsOf>>
        BY <1>1, <1>4, <2>1 DEF CmClose
      <3>2. AtStep(w)'
        BY <2>1, <3>1 DEF AtStep, DaysOf, WindowOpen, Playing
      <3> QED BY <3>1, <3>2, TickerKeepsDays
    <2>2. CASE ~WindowOpen
      BY <1>2, <1>3, <1>4, <2>2 DEF CmClose
    <2> QED BY <2>1, <2>2
  <1>5. CASE CmMatch(w)
    <2>1. /\ pc'[w] = "record" /\ day' = day /\ pc[w] = "match"
          /\ UNCHANGED <<cIdx, cStatus, current, lastMatched, window, dbLast, dbAsOf>>
      BY <1>1, <1>5 DEF CmMatch
    <2>2. AtStep(w)'
      BY <2>1 DEF AtStep, DaysOf, WindowOpen, Playing
    <2> QED BY <2>1, <2>2, TickerKeepsDays
  <1>6. CASE CmRecord(w)
    <2>1. /\ pc'[w] = "merge" /\ day' = day /\ pc[w] = "record" /\ lastMatched' = day[w]
          /\ UNCHANGED <<cIdx, cStatus, current, window, dbLast, dbAsOf>>
      BY <1>1, <1>6 DEF CmRecord
    <2>2. /\ ~WindowOpen /\ day[w] = cIdx[current] /\ day[w] = lastMatched + 1 /\ dbAsOf = day[w]
          /\ current # 0 /\ cStatus[current] # "completed" /\ lastMatched = dbLast
      BY <2>1 DEF AtStep, DaysOf, Playing
    <2>3. AtStep(w)'
      BY <2>1, <2>2 DEF AtStep, WindowOpen
    <2> QED BY <2>1, <2>2, <2>3, NumberTypes DEF DaysOf, RowInv, WindowOpen
  <1>7. CASE CmMerge(w)
    <2>1. /\ pc'[w] = "reload" /\ pc[w] = "merge" /\ dbLast' = day[w]
          /\ UNCHANGED <<cIdx, cStatus, current, lastMatched, window, dbAsOf>>
      BY <1>1, <1>7 DEF CmMerge
    <2>2. /\ ~WindowOpen /\ day[w] = cIdx[current] /\ day[w] = lastMatched /\ dbAsOf = day[w]
          /\ current # 0 /\ cStatus[current] # "completed"
      BY <2>1 DEF AtStep, DaysOf, Playing
    <2>3. AtStep(w)'
      BY <2>1, <2>2 DEF AtStep, WindowOpen
    <2> QED BY <2>1, <2>2, <2>3, NumberTypes DEF DaysOf, RowInv, WindowOpen
  <1>8. CASE CmReload(w)
    <2>1. CASE Running(current)
      <3>1. /\ pc'[w] = "count" /\ pc[w] = "reload" /\ cobj'[w] = current
            /\ UNCHANGED <<cIdx, cStatus, current, lastMatched, window, dbLast, dbAsOf>>
        BY <1>1, <1>8, <2>1 DEF CmReload
      <3>2. AtStep(w)'
        BY <2>1, <3>1 DEF AtStep, Running
      <3> QED BY <3>1, <3>2, TickerKeepsDays
    <2>2. CASE ~Running(current)
      BY <1>2, <1>3, <1>8, <2>2 DEF CmReload
    <2> QED BY <2>1, <2>2
  <1>9. CASE CmCount(w) \/ CmCounted(w) \/ CmAwait(w)
    <2>1. /\ UNCHANGED <<cIdx, cStatus, current, lastMatched, window, dbLast, dbAsOf>>
          /\ pc[w] \in {"count", "counted", "await"}
      BY <1>9 DEF CmCount, CmCounted, CmAwait
    <2>2. CASE pc'[w] = "idle"
      BY <1>3, <2>1, <2>2
    <2>3. CASE pc'[w] # "idle"
      <3>1. pc'[w] \in {"counted", "gate", "gatesample"} /\ cobj' = cobj
        BY <1>1, <1>2, <1>9, <2>3 DEF CmCount, CmCounted, CmAwait
      <3>2. AtStep(w)'
        BY <2>1, <3>1 DEF AtStep, DaysOf, Playing
      <3> QED BY <2>1, <3>1, <3>2, TickerKeepsDays
    <2> QED BY <2>2, <2>3
  <1>10. CASE CmGate(w)
    <2>1. /\ pc'[w] = "await" /\ pc[w] = "gate" /\ cobj' = cobj /\ cStatus' = [cStatus EXCEPT ![cobj[w]] = "paused"]
          /\ UNCHANGED <<cIdx, current, lastMatched, window, dbLast, dbAsOf>>
      BY <1>1, <1>10 DEF CmGate
    <2>2. cobj[w] = current /\ cobj[w] \in Clocks /\ current # 0
      BY <1>1, <2>1 DEF DaysOf, AtStep, Playing, TypeOK, HeldBy
    <2>3. cStatus'[current] = "paused"
      BY <1>1, <2>1, <2>2
    <2>4. AtStep(w)'
      BY <2>1, <2>2, <2>3 DEF AtStep
    <2> QED BY <2>1, <2>3, <2>4, TickerKeepsDays
  <1>11. CASE CmGateSample(w)
    <2>1. /\ pc'[w] = "gatepersist" /\ pc[w] = "gatesample" /\ cobj' = cobj /\ sIdx'[w] = cIdx[cobj[w]]
          /\ UNCHANGED <<cIdx, cStatus, current, lastMatched, window, dbLast, dbAsOf>>
      BY <1>1, <1>11 DEF CmGateSample
    <2>2. AtStep(w)'
      BY <2>1 DEF AtStep, DaysOf, Playing
    <2> QED BY <2>1, <2>2, TickerKeepsDays
  <1>12. CASE CmGatePersist(w)
    <2>1. /\ pc'[w] = "shut" /\ pc[w] = "gatepersist" /\ dbAsOf' = sIdx[w]
          /\ UNCHANGED <<cIdx, cStatus, current, lastMatched, window, dbLast>>
      BY <1>1, <1>12 DEF CmGatePersist, UpdateClock, UpdateFails, Write
    <2>2. sIdx[w] = cIdx[current] /\ current # 0 /\ cStatus[current] # "completed"
      BY <2>1 DEF AtStep, DaysOf, Playing
    <2>3. AtStep(w)'
      BY <2>1, <2>2 DEF AtStep
    <2> QED BY <2>1, <2>2, <2>3, NumberTypes DEF DaysOf, RowInv, WindowOpen
  <1>13. CASE CmShut(w)
    BY <1>2, <1>3, <1>13 DEF CmShut
  <1> QED BY <1>4, <1>5, <1>6, <1>7, <1>8, <1>9, <1>10, <1>11, <1>12, <1>13 DEF CloseWindowAndMatch

LEMMA TickDays ==
  ASSUME TypeOK, GateInv, TickerOnly, NEW w \in Tickers, DaysOf(w), Tick(w) \/ Ticker(w), ~Fault
  PROVE  DaysOf(w)'
  <1> USE DEF Goto, Put, Done, heldVars, sysVars, cfgVars, clockVars, rowVars, histVars
  <1>1. /\ w \in Workers /\ w \notin Requests /\ ret[w] # "tick"
        /\ (pc[w] \in {"due", "autotick", "load"} => ~WindowOpen)
        /\ pc \in [Workers -> Labels] /\ obj \in [Workers -> ClockOrNone] /\ prev \in [Workers -> DayOrNone]
        /\ sIdx \in [Workers -> DayOrNone] /\ cIdx \in [Clocks -> Days] /\ cStatus \in [Clocks -> Statuses]
    BY WorkersAssumption DEF Workers, TypeOK, HeldTypes, SharedTypes, GateInv
  <1>2. CASE TickBegin(w) \/ TickRefused(w) \/ Ticker(w)
    <2>1. /\ UNCHANGED <<cIdx, cStatus, current, lastMatched, dbLast, dbAsOf, window>>
          /\ pc[w] \in {"idle", "autotick", "load", "due"}
      BY <1>1, <1>2
         DEF TickBegin, Accept, TickRefused, Ticker, TickerExpired, TickerDue, TickerGate
    <2>2. pc'[w] \in {"idle", "load", "due", "autotick"} \/ (pc'[w] = "close" /\ WindowOpen)
      BY <1>1, <1>2
         DEF TickBegin, Accept, TickRefused, Ticker, TickerExpired, TickerDue, TickerGate
    <2>3. AtStep(w)'
      BY <2>1, <2>2 DEF AtStep, DaysOf, Playing
    <2> QED BY <2>1, <2>2, <2>3, TickerKeepsDays
  <1>3. CASE TickStay(w)
    <2>1. /\ pc[w] = "load" /\ pc'[w] = "ticksample" /\ obj'[w] = current /\ window' = cIdx[current]
          /\ Running(current) /\ ~ShouldAdvance(lastMatched, cIdx[current])
          /\ UNCHANGED <<cIdx, cStatus, current, lastMatched, dbLast, dbAsOf>>
      BY <1>1, <1>3 DEF TickStay, OpenWindow
    <2>2. current # 0 /\ cStatus[current] = "running" /\ cIdx[current] = lastMatched + 1
      <3>1. current # 0 /\ cStatus[current] = "running"
        BY <2>1 DEF Running
      <3> QED BY <2>1, <3>1, NumberTypes DEF ShouldAdvance, DaysOf
    <2>3. AtStep(w)'
      BY <2>1, <2>2 DEF AtStep
    <2> QED BY <2>1, <2>2, <2>3 DEF DaysOf, RowInv, WindowOpen
  <1>4. CASE TickAdvance(w)
    <2>1. current \in Clocks /\ current # 0 /\ cStatus[current] = "running"
      BY <1>4, RunningClock DEF TickAdvance, Running
    <2>2. /\ pc[w] = "load" /\ pc'[w] = "ticksample" /\ obj'[w] = current /\ window' = cIdx[current] + 1
          /\ ShouldAdvance(lastMatched, cIdx[current]) /\ cIdx'[current] = cIdx[current] + 1
          /\ UNCHANGED <<cStatus, current, lastMatched, dbLast, dbAsOf>>
      BY <1>1, <1>4, <2>1 DEF TickAdvance, OpenWindow
    <2>3. cIdx[current] = lastMatched
      BY <2>1, <2>2, NumberTypes DEF ShouldAdvance, DaysOf
    <2>4. AtStep(w)'
      BY <2>1, <2>2 DEF AtStep
    <2> QED BY <2>1, <2>2, <2>3, <2>4, NumberTypes DEF DaysOf, RowInv, WindowOpen
  <1>5. CASE TickLastDay(w)
    <2>1. current \in Clocks /\ current # 0
      BY <1>5, RunningClock DEF TickLastDay, Running
    <2>2. /\ pc[w] = "load" /\ pc'[w] = "finish" /\ prev'[w] = cIdx[current] /\ ~WindowOpen
          /\ ShouldAdvance(lastMatched, cIdx[current])
          /\ UNCHANGED <<cIdx, current, window, lastMatched, dbLast, dbAsOf>>
      BY <1>1, <1>5 DEF TickLastDay
    <2>3. cIdx[current] = lastMatched /\ lastMatched = dbLast
      BY <2>1, <2>2, NumberTypes DEF ShouldAdvance, DaysOf
    <2>4. AtStep(w)'
      BY <2>2, <2>3 DEF AtStep, Playing, WindowOpen
    <2> QED BY <2>2, <2>4 DEF DaysOf, RowInv, WindowOpen
  <1>6. CASE TickFinish(w)
    <2>1. /\ pc[w] = "finish" /\ pc'[w] = "unload" /\ dbAsOf' = prev[w]
          /\ UNCHANGED <<cIdx, cStatus, current, window, lastMatched, dbLast>>
      BY <1>1, <1>6 DEF TickFinish, UpdateClock, UpdateFails, Write
    <2>2. prev[w] = dbLast /\ ~WindowOpen
      BY <2>1 DEF DaysOf, AtStep
    <2>3. AtStep(w)'
      BY <2>1, <2>2 DEF AtStep, Playing, WindowOpen
    <2> QED BY <2>1, <2>2, <2>3, NumberTypes DEF DaysOf, RowInv, WindowOpen
  <1>7. CASE TickUnload(w)
    <2>1. /\ pc'[w] = "idle" /\ current' = 0 /\ window' = 0
          /\ UNCHANGED <<lastMatched, dbLast, dbAsOf>>
      BY <1>1, <1>7 DEF TickUnload
    <2> QED BY <2>1 DEF DaysOf, RowInv, WindowOpen, AtStep, Playing
  <1>8. CASE TickSample(w)
    <2>1. /\ pc[w] = "ticksample" /\ pc'[w] = "tickpersist" /\ obj' = obj /\ sIdx'[w] = cIdx[obj[w]]
          /\ UNCHANGED <<cIdx, cStatus, current, window, lastMatched, dbLast, dbAsOf>>
      BY <1>1, <1>8 DEF TickSample
    <2>2. obj[w] = current /\ current # 0 /\ cStatus[current] # "completed"
      BY <2>1 DEF DaysOf, AtStep, Playing
    <2>3. AtStep(w)'
      BY <2>1, <2>2 DEF AtStep
    <2> QED BY <2>1, <2>3 DEF DaysOf, RowInv, WindowOpen
  <1>9. CASE TickPersist(w)
    <2>1. /\ pc[w] = "tickpersist" /\ pc'[w] \in {"close", "idle"} /\ dbAsOf' = sIdx[w]
          /\ UNCHANGED <<cIdx, cStatus, current, window, lastMatched, dbLast>>
      BY <1>1, <1>9 DEF TickPersist, UpdateClock, UpdateFails, Write
    <2>2. sIdx[w] = cIdx[current] /\ current # 0 /\ cStatus[current] # "completed"
      BY <2>1 DEF DaysOf, AtStep, Playing
    <2>3. AtStep(w)'
      BY <2>1, <2>2 DEF AtStep, Playing
    <2> QED BY <2>1, <2>2, <2>3, NumberTypes DEF DaysOf, RowInv, WindowOpen
  <1>10. CASE TickRestore(w)
    BY <1>10 DEF TickRestore, DaysOf
  <1> QED BY <1>2, <1>3, <1>4, <1>5, <1>6, <1>7, <1>8, <1>9, <1>10 DEF Tick

LEMMA DaysStep ==
  ASSUME TickerOnly, TypeOK, RolesInv, GateInv, DayInv, NEW w \in Workers, Step(w), ~Stale(w), ~Fault
  PROVE  DayInv'
  <1>1. CASE w \in Requests /\ RequestStep(w)
    BY <1>1, RequestDays
  <1>2. CASE w \in Tickers /\ TickerStep(w)
    <2>1. \A t \in Tickers : t = w
      BY <1>2 DEF TickerOnly
    <2>2. RolesInv'
      BY RolesStay DEF Next
    <2>3. DaysOf(w)
      BY <1>2, <2>1 DEF DayInv, DaysOf, LoadedInv, WindowInv, HoldInv, RolesInv, RequestLabels
    <2>4. DaysOf(w)'
      BY <1>2, <2>3, CloseDays, TickDays DEF TickerStep
    <2>5. \A v \in Workers : v = w \/ (pc'[v] = pc[v] /\ obj'[v] = obj[v])
      BY OthersStay
    <2>6. HoldInv'
      BY <2>4, <2>5 DEF HoldInv, DayInv, DaysOf
    <2>7. LoadedInv' /\ WindowInv'
      BY <1>2, <2>1, <2>4 DEF DaysOf, LoadedInv, WindowInv
    <2>8. RowInv' /\ \A t \in Tickers : AtStep(t)'
      BY <2>1, <2>4 DEF DaysOf
    <2> QED BY <2>6, <2>7, <2>8 DEF DayInv
  <1> QED BY <1>1, <1>2, Roles

LEMMA DaysRestart ==
  ASSUME TypeOK, DayInv, CrashRestart, faults' = faults
  PROVE  DayInv'
  <1>1. /\ \A w \in Workers : pc'[w] = "idle"
        /\ window' = 0 /\ dbLast' = dbLast
    BY DEF CrashRestart, Forget, cfgVars
  <1>2. dbLast \in Nat /\ dbAsOf \in Nat /\ faults # faults + 1
    BY NumberTypes DEF TypeOK, SharedTypes
  <1>3. RowInv'
    BY <1>1, <1>2 DEF CrashRestart, Resumed, NotLoaded, ResumeDay, DayInv, RowInv
  <1>4. LoadedInv'
    <2>1. CASE Resumed
      <3>1. 1 \in Clocks
        BY Ranges
      <3>2. cIdx'[current'] = ResumeDay /\ lastMatched' = dbLast
        BY <2>1, <3>1 DEF Resumed
      <3> QED BY <1>1, <1>2, <3>2 DEF LoadedInv, ResumeDay, DayInv, RowInv
    <2>2. CASE NotLoaded
      BY <2>2 DEF NotLoaded, LoadedInv
    <2> QED BY <2>1, <2>2 DEF CrashRestart
  <1>5. WindowInv' /\ HoldInv'
    BY <1>1 DEF WindowInv, WindowOpen, HoldInv
  <1>6. \A t \in Tickers : AtStep(t)'
    BY <1>1 DEF AtStep, Playing, Workers
  <1> QED BY <1>3, <1>4, <1>5, <1>6 DEF DayInv

-----------------------------------------------------------------------------
(* No order is left behind *)

\* An order that was dated by a clock at rest is ahead of the days that are matched; the
\* match of its day has it on its list, and leaves it pending only on a later day.
AheadOf(o) == Pending(o) \/ at[o] = "dated" => on[o] > lastMatched /\ on[o] > dbLast

ListedBy(t, o) ==
    on[o] = day[t] =>
        /\ pc[t] = "record" => ~Pending(o) /\ at[o] # "dated"
        /\ listed[t] => /\ at[o] # "dated"
                        /\ Pending(o) => o \in todo[t] \/ wrote[t][o] \in Locking

AheadInv == \A o \in Orders \ raced : AheadOf(o) /\ \A t \in Tickers : ListedBy(t, o)

KeptInv == stale \/ faults > 0 \/ (DayInv /\ AheadInv)

LEMMA PlaceAhead ==
  ASSUME OrderParts, LocksInv, DayInv, AheadInv, NEW o \in Orders, PlaceOrder(o) \/ CancelOrder(o)
  PROVE  AheadInv'
  <1> USE DEF Pending
  <1>1. UNCHANGED <<lastMatched, dbLast, pc, day, listed, todo, wrote, current, cIdx, window>>
    BY DEF PlaceOrder, PlaceCheck, PlaceAccept, PlaceReadDay, PlaceDate, PlaceInsert, PlaceRollback,
           CancelOrder, txVars, vars, sysVars, clockVars, cfgVars, heldVars
  <1>2. /\ at \in [Orders -> Steps] /\ on \in [Orders -> BarDays] /\ asOf \in [Orders -> DayOrNone]
        /\ state \in [Orders -> Settled \cup {"none", "pending"}] /\ Tickers \subseteq Workers
    BY DEF OrderParts, PlacesOK, RowTypesOK, Workers
  <1>3. raced \subseteq raced'
        /\ \A p \in Orders \ {o} : state'[p] = state[p] /\ at'[p] = at[p] /\ on'[p] = on[p]
    BY <1>2
       DEF PlaceOrder, PlaceCheck, PlaceAccept, PlaceReadDay, PlaceDate, PlaceInsert, PlaceRollback,
           CancelOrder, tableVars, placeVars
  <1>4. ASSUME NEW p \in Orders \ raced', p # o
        PROVE  AheadOf(p)' /\ \A t \in Tickers : ListedBy(t, p)'
    BY <1>1, <1>3, <1>4 DEF AheadInv, AheadOf, ListedBy
  <1>5. ASSUME o \notin raced'
        PROVE  AheadOf(o)' /\ \A t \in Tickers : ListedBy(t, o)'
    <2>1. CASE PlaceDate(o)
      <3>1. /\ \A w \in Workers : ~listed[w] /\ pc[w] # "record"
            /\ current # 0 /\ asOf[o] = cIdx[current]
        BY <1>5, <2>1 DEF PlaceDate, AtRest
      <3>2. /\ lastMatched \in Nat /\ dbLast \in Nat /\ cIdx[current] \in Nat \ {0}
            /\ dbLast <= lastMatched /\ lastMatched <= cIdx[current]
            /\ WindowOpen => cIdx[current] = lastMatched + 1
        BY <3>1, NumberTypes, ClockDay DEF DayInv, LoadedInv, WindowInv, OrderParts
      <3>3. FillsOnCurrentDate => cIdx[current] > lastMatched
        BY <3>1, <3>2 DEF FillsOnCurrentDate, ShouldAdvance
      <3>4. at'[o] = "dated" => on'[o] > lastMatched
        <4>1. CASE FillsOnCurrentDate
          <5>1. on'[o] = cIdx[current] \/ at'[o] # "dated"
            BY <1>2, <2>1, <3>1, <4>1 DEF PlaceDate
          <5> QED BY <3>2, <3>3, <4>1, <5>1
        <4>2. CASE ~FillsOnCurrentDate
          <5>1. on'[o] = cIdx[current] + 1 \/ at'[o] # "dated"
            BY <1>2, <2>1, <3>1, <4>2 DEF PlaceDate
          <5> QED BY <3>2, <5>1
        <4> QED BY <4>1, <4>2
      <3>5. ~Pending(o)'
        BY <2>1 DEF PlaceDate, LocksInv
      <3>6. on'[o] \in Nat
        BY <1>2, <2>1, BarFacts DEF PlaceDate, BarDays, DayOrNone
      <3>7. AheadOf(o)'
        BY <1>1, <3>2, <3>4, <3>5, <3>6 DEF AheadOf
      <3>8. \A t \in Tickers : ListedBy(t, o)'
        BY <1>1, <1>2, <3>1 DEF ListedBy
      <3> QED BY <3>7, <3>8
    <2>2. CASE PlaceInsert(o)
      <3>1. on' = on /\ at[o] = "dated" /\ at'[o] # "dated" /\ raced' = raced
        BY <1>2, <2>2 DEF PlaceInsert
      <3>2. AheadOf(o)'
        BY <1>1, <1>5, <3>1 DEF AheadInv, AheadOf
      <3>3. \A t \in Tickers : ListedBy(t, o)'
        BY <1>1, <1>5, <3>1 DEF AheadInv, ListedBy
      <3> QED BY <3>2, <3>3
    <2>3. CASE PlaceCheck(o) \/ PlaceAccept(o) \/ PlaceReadDay(o) \/ PlaceRollback(o) \/ CancelOrder(o)
      <3>1. on' = on /\ raced' = raced /\ (Pending(o)' => Pending(o)) /\ (at'[o] = "dated" => at[o] = "dated")
        BY <1>2, <2>3
           DEF PlaceCheck, PlaceAccept, PlaceReadDay, PlaceRollback, CancelOrder, tableVars, placeVars
      <3>2. AheadOf(o)'
        BY <1>1, <1>5, <3>1 DEF AheadInv, AheadOf
      <3>3. \A t \in Tickers : ListedBy(t, o)'
        BY <1>1, <1>5, <3>1 DEF AheadInv, ListedBy
      <3> QED BY <3>2, <3>3
    <2> QED BY <2>1, <2>2, <2>3 DEF PlaceOrder
  <1> QED BY <1>4, <1>5 DEF AheadInv

LEMMA MatchAhead ==
  ASSUME TickerOnly, RolesInv, OrderParts, AheadInv, NEW w \in Workers, MatchTx(w)
  PROVE  AheadInv'
  <1> USE DEF Pending
  <1>1. /\ UNCHANGED <<lastMatched, dbLast, pc, day, state, on, at>> /\ raced \subseteq raced'
        /\ \A v \in Workers \ {w} : listed'[v] = listed[v] /\ todo'[v] = todo[v] /\ wrote'[v] = wrote[v]
    BY DEF MatchTx, TxList, TxFill, TxReject, TxDefer, Wrote, tableVars, placeVars, vars, sysVars, cfgVars,
           heldVars, OrderParts, TxsOK
  <1>2. \A o \in Orders \ raced' : AheadOf(o)'
    BY <1>1 DEF AheadInv, AheadOf
  <1>3. ASSUME NEW o \in Orders \ raced', NEW t \in Tickers, t # w PROVE ListedBy(t, o)'
    BY <1>1, <1>3 DEF AheadInv, ListedBy, Workers
  <1>4. ASSUME NEW o \in Orders \ raced', w \in Tickers PROVE ListedBy(w, o)'
    <2>1. CASE TxList(w)
      <3>1. /\ pc[w] = "match" /\ todo'[w] = {p \in Orders : Pending(p) /\ on[p] = day[w]}
            /\ raced' = raced \cup {p \in Orders : at[p] = "dated" /\ on[p] = day[w]}
        BY <2>1 DEF TxList, OrderParts, TxsOK
      <3> QED BY <1>1, <3>1 DEF ListedBy
    <2>2. ASSUME NEW p \in Orders, TxFill(w, p) \/ TxReject(w, p) \/ TxDefer(w, p) PROVE ListedBy(w, o)'
      <3>1. PICK outcome \in Outcomes : Wrote(w, p, outcome) /\ (Pending(p) => outcome \in Locking)
        BY <2>2 DEF TxFill, TxReject, TxDefer, Outcomes, Locking
      <3>2. /\ todo'[w] = todo[w] \ {p} /\ listed' = listed /\ raced' = raced
            /\ wrote'[w][o] = IF o = p THEN outcome ELSE wrote[w][o]
        BY <3>1 DEF Wrote, placeVars, OrderParts, TxsOK
      <3> QED BY <1>1, <1>4, <3>1, <3>2 DEF AheadInv, ListedBy
    <2> QED BY <2>1, <2>2 DEF MatchTx
  <1> QED BY <1>2, <1>3, <1>4 DEF AheadInv

\* Who records a day as matched.
LEMMA RecordedBy ==
  ASSUME TypeOK, NEW w \in Workers, Step(w)
  PROVE  /\ \/ lastMatched' = lastMatched
            \/ pc[w] = "record" /\ lastMatched' = day[w]
            \/ pc[w] = "startlock" /\ current' # current /\ lastMatched' = rLast[w]
         /\ \/ dbLast' = dbLast
            \/ pc[w] = "merge" /\ dbLast' = day[w]
         /\ pc'[w] = "record" => pc[w] = "match"
  <1> USE DEF TypeOK, HeldTypes, Goto, Put, Done, heldVars, sysVars, cfgVars
  <1>1. ASSUME NEW ok \in BOOLEAN, CmReturn(w, ok) PROVE pc'[w] # "record"
    BY <1>1 DEF CmReturn
  <1>2. CASE CloseWindowAndMatch(w)
    BY <1>1, <1>2
       DEF CloseWindowAndMatch, CmClose, CmMatch, CmRecord, CmMerge, CmReload, CmCount, CmCounted,
           CmGate, CmAwait, CmGateSample, CmGatePersist, CmShut
  <1>3. CASE Tick(w)
    BY <1>3 DEF Tick, TickBegin, TickRefused, TickStay, TickAdvance, OpenWindow, TickLastDay,
                TickFinish, TickUnload, TickSample, TickPersist, TickRestore
  <1>4. CASE Start(w)
    <2>1. CASE StartLoad(w)
      BY <2>1 DEF StartLoad, NewClock, Unreachable
    <2>2. CASE ~StartLoad(w)
      BY <1>4, <2>2 DEF Start, StartRead, StartRunning, StartPaused, StartSample, StartPersist, StartDrop
    <2> QED BY <2>1, <2>2
  <1>5. CASE ProceedRead(w) \/ ProceedReset(w) \/ Pause(w)
    BY <1>5 DEF ProceedRead, ProceedReset, Pause, Accept
  <1>6. CASE Ticker(w)
    BY <1>6 DEF Ticker, TickerExpired, TickerDue, TickerGate
  <1> QED BY <1>2, <1>3, <1>4, <1>5, <1>6 DEF Step

LEMMA ClockAhead ==
  ASSUME TickerOnly, OrderParts, LocksInv, RolesInv, DayInv, AheadInv, NEW w \in Workers, ClockStep(w),
         ~Stale(w), ~Fault
  PROVE  AheadInv'
  <1> USE DEF Pending
  <1>1. Step(w) /\ Effects(w) /\ TypeOK /\ TxsOK
    BY DEF ClockStep, OrderParts
  <1>2. \A v \in Workers \ {w} : pc'[v] = pc[v] /\ day'[v] = day[v]
    BY <1>1, OthersStay
  <1>3. UNCHANGED <<at, raced>>
    BY <1>1 DEF Effects
  <1>4. CASE pc[w] = "match"
    <2>1. w \in Tickers
      BY <1>4 DEF RolesInv, RequestLabels, Workers
    <2>2. \A t \in Tickers : t = w
      BY <2>1 DEF TickerOnly
    <2>3. UNCHANGED <<lastMatched, dbLast>> /\ day' = day /\ pc'[w] = "record"
      <3>1. CmMatch(w)
        BY <1>1, <1>4
           DEF Step, Accept, CloseWindowAndMatch, CmClose, CmMatch, CmRecord, CmMerge, CmReload, CmCount,
               CmCounted, CmGate, CmAwait, CmGateSample, CmGatePersist, CmShut, Tick, TickBegin,
               TickRefused, TickStay, TickAdvance, TickLastDay, TickFinish, TickUnload, TickSample,
               TickPersist, TickRestore, Start, StartRead, StartRunning, StartPaused, StartLoad,
               StartSample, StartPersist, StartDrop, ProceedRead, ProceedReset, Pause, Ticker,
               TickerExpired, TickerDue, TickerGate
      <3> QED BY <1>1, <3>1 DEF CmMatch, Goto, heldVars, cfgVars, TypeOK, HeldTypes
    <2>4. TxCommit(w) /\ listed'[w] = FALSE
      BY <1>1, <1>4, <2>3 DEF Effects, TxEnd, TxAbort, TxsOK
    <2>5. ASSUME NEW o \in Orders \ raced
          PROVE  AheadOf(o)' /\ ListedBy(w, o)'
      <3>1. /\ state'[o] = StatusAfter(w, o)
            /\ on'[o] = IF wrote[w][o] = "defer" THEN day[w] + 1 ELSE on[o]
            /\ listed[w] /\ o \notin todo[w]
        BY <2>4 DEF TxCommit
      <3>2. Pending(o)' => Pending(o) /\ wrote[w][o] \notin {"fill", "reject"}
        BY <3>1 DEF StatusAfter
      <3>3. AheadOf(o) /\ ListedBy(w, o) /\ at'[o] = at[o]
        BY <1>3, <2>1 DEF AheadInv
      <3>4. day[w] \in Nat /\ day[w] = lastMatched + 1 /\ lastMatched = dbLast /\ lastMatched \in Nat
        <4>1. current # 0 /\ day[w] = lastMatched + 1
          BY <1>4, <2>1 DEF DayInv, AtStep, Playing
        <4>2. lastMatched = dbLast
          BY <1>4, <2>2, <4>1 DEF DayInv, LoadedInv
        <4>3. lastMatched \in Nat
          BY <1>1, NumberTypes
        <4> QED BY <4>1, <4>2, <4>3
      <3>5. at[o] = "dated" => wrote[w][o] # "defer"
        BY DEF LocksInv, Locking
      <3>6. CASE wrote[w][o] = "defer"
        <4>1. on'[o] = day[w] + 1 /\ at'[o] # "dated"
          BY <3>1, <3>3, <3>5, <3>6
        <4> QED BY <2>3, <2>4, <3>4, <4>1 DEF AheadOf, ListedBy
      <3>7. CASE wrote[w][o] # "defer"
        <4>1. on'[o] = on[o]
          BY <3>1, <3>7
        <4>2. on[o] = day[w] => ~Pending(o)' /\ at[o] # "dated"
          BY <3>1, <3>2, <3>3, <3>7 DEF ListedBy, Locking
        <4> QED BY <2>3, <2>4, <3>2, <3>3, <4>1, <4>2 DEF AheadOf, ListedBy
      <3> QED BY <3>6, <3>7
    <2> QED BY <1>3, <2>2, <2>5 DEF AheadInv
  <1>5. CASE pc[w] # "match"
    <2>1. UNCHANGED <<state, on, listed, todo, wrote>> /\ pc'[w] # "record" /\ ~listed[w]
      BY <1>1, <1>5, RecordedBy DEF Effects, tableVars, txVars, TxsOK
    <2>2. ASSUME NEW o \in Orders \ raced, NEW t \in Tickers PROVE ListedBy(t, o)'
      <3>1. CASE t = w
        BY <1>3, <2>1, <3>1 DEF ListedBy
      <3>2. CASE t # w
        BY <1>2, <1>3, <2>1, <2>2, <3>2 DEF AheadInv, ListedBy, Workers
      <3> QED BY <3>1, <3>2
    <2>3. ASSUME NEW o \in Orders \ raced, Pending(o) \/ at[o] = "dated"
          PROVE  on[o] > lastMatched' /\ on[o] > dbLast'
      <3>1. on[o] > lastMatched /\ on[o] > dbLast /\ on[o] \in Nat /\ lastMatched \in Nat /\ dbLast \in Nat
        BY <1>1, <2>3, NumberTypes, BarFacts DEF AheadInv, AheadOf, OrderParts, RowTypesOK, BarDays
      <3>2. pc[w] \in {"record", "merge"} => w \in Tickers
        BY DEF RolesInv, RequestLabels, Workers
      <3>3. pc[w] = "record" => day[w] = lastMatched + 1 /\ on[o] # day[w]
        BY <2>3, <3>2 DEF AheadInv, ListedBy, DayInv, AtStep
      <3>4. pc[w] = "merge" => day[w] = lastMatched
        BY <3>2 DEF DayInv, AtStep
      <3>5. pc[w] = "startlock" /\ current' # current => rLast[w] = dbLast
        BY DEF Stale
      <3>6. on[o] > lastMatched'
        BY <1>1, <3>1, <3>3, <3>5, RecordedBy
      <3>7. on[o] > dbLast'
        BY <1>1, <3>1, <3>4, RecordedBy
      <3> QED BY <3>6, <3>7
    <2>4. \A o \in Orders \ raced : AheadOf(o)'
      BY <1>3, <2>1, <2>3 DEF AheadOf
    <2> QED BY <1>3, <2>2, <2>4 DEF AheadInv
  <1> QED BY <1>4, <1>5

LEMMA CrashAhead ==
  ASSUME OrderParts, AheadInv, CrashOrders
  PROVE  AheadInv'
  <1> USE DEF Pending
  <1>1. /\ UNCHANGED <<state, on, raced>> /\ \A o \in Orders : at'[o] # "dated"
        /\ \A t \in Tickers : pc'[t] # "record" /\ ~listed'[t]
        /\ dbLast' = dbLast /\ lastMatched' \in {0, dbLast}
    BY DEF CrashOrders, CrashRestart, Forget, Resumed, NotLoaded, tableVars, cfgVars, Workers
  <1>2. ASSUME NEW o \in Orders \ raced, Pending(o) PROVE on[o] > dbLast /\ on[o] > 0
    <2>1. on[o] > dbLast /\ on[o] \in Nat /\ on[o] # 0
      BY <1>2, BarFacts DEF AheadInv, AheadOf, OrderParts, RowTypesOK, BarDays
    <2> QED BY <2>1
  <1> QED BY <1>1, <1>2 DEF AheadInv, AheadOf, ListedBy

LEMMA KeptStep ==
  ASSUME TickerOnly, OrderParts, LocksInv, RolesInv, GateInv, KeptInv, [OrderNext]_orderVars
  PROVE  KeptInv'
  <1>1. SUFFICES ASSUME ~stale', ~(faults' > 0) PROVE DayInv' /\ AheadInv'
    BY DEF KeptInv
  <1>2. TypeOK /\ TypeOK' /\ faults' = 0
    <2>1. TypeOK' /\ faults' \in Nat
      BY TypeStep, ClockAlone DEF OrderParts, TypeOK, SharedTypes
    <2> QED BY <1>1, <2>1 DEF OrderParts
  <1>3. faults \in Nat
    BY <1>2 DEF TypeOK, SharedTypes
  <1>4. ASSUME UNCHANGED <<vars, stale>> PROVE DayInv /\ AheadInv /\ DayInv'
    <2>1. DayInv /\ AheadInv
      BY <1>1, <1>2, <1>4 DEF KeptInv, vars, faultVars
    <2>2. UNCHANGED <<cIdx, cStatus, current, window, lastMatched, dbAsOf, dbLast, pc, obj, cobj, prev, day, sIdx>>
      BY <1>4 DEF vars, sysVars, clockVars, rowVars, cfgVars, heldVars
    <2>3. RowInv' /\ LoadedInv' /\ WindowInv' /\ HoldInv'
      BY <2>1, <2>2 DEF DayInv, RowInv, LoadedInv, WindowInv, HoldInv, WindowOpen
    <2>4. \A t \in Tickers : AtStep(t)'
      BY <2>1, <2>2 DEF DayInv, AtStep, WindowOpen
    <2> QED BY <2>1, <2>3, <2>4 DEF DayInv
  <1>5. ASSUME NEW o \in Orders, PlaceOrder(o) \/ CancelOrder(o) PROVE DayInv' /\ AheadInv'
    <2>1. UNCHANGED vars /\ (stale' = stale)
      BY <1>5 DEF PlaceOrder, PlaceCheck, PlaceAccept, PlaceReadDay, PlaceDate, PlaceInsert, PlaceRollback,
                  CancelOrder, placeVars
    <2> QED BY <1>4, <1>5, <2>1, PlaceAhead
  <1>6. ASSUME NEW w \in Workers, MatchTx(w) PROVE DayInv' /\ AheadInv'
    <2>1. UNCHANGED vars /\ (stale' = stale)
      BY <1>6 DEF MatchTx, TxList, TxFill, TxReject, TxDefer, Wrote, placeVars
    <2> QED BY <1>4, <1>6, <2>1, MatchAhead
  <1>7. ASSUME NEW w \in Workers, ClockStep(w) PROVE DayInv' /\ AheadInv'
    <2>1. ~stale /\ ~Stale(w) /\ Step(w)
      BY <1>1, <1>7 DEF ClockStep, Effects
    <2>2. ~Fault /\ ~(faults > 0)
      <3>1. Works \/ Fault
        BY <2>1, StepFaults
      <3> QED BY <1>2, <1>3, <3>1 DEF Works, Fault, faultVars
    <2>3. DayInv /\ AheadInv
      BY <2>1, <2>2 DEF KeptInv
    <2> QED BY <1>2, <1>7, <2>1, <2>2, <2>3, DaysStep, ClockAhead
  <1>8. CASE CrashOrders
    <2>1. CrashRestart /\ (stale' = stale)
      BY <1>8 DEF CrashOrders
    <2>2. faults' = faults
      BY <1>2, <1>3, <2>1 DEF CrashRestart, Resumed, NotLoaded
    <2>3. DayInv /\ AheadInv
      BY <1>1, <2>1, <2>2 DEF KeptInv
    <2> QED BY <1>2, <1>8, <2>1, <2>2, <2>3, DaysRestart, CrashAhead
  <1>9. CASE UNCHANGED orderVars
    <2>1. DayInv /\ AheadInv /\ DayInv'
      BY <1>4, <1>9 DEF orderVars, placeVars
    <2>2. UNCHANGED <<lastMatched, dbLast, pc, day, state, on, at, raced, listed, todo, wrote>>
      BY <1>9 DEF orderVars, tableVars, placeVars, txVars, vars, sysVars, cfgVars, heldVars
    <2>3. AheadInv'
      BY <2>1, <2>2 DEF AheadInv, AheadOf, ListedBy, Pending
    <2> QED BY <2>1, <2>3
  <1> QED BY <1>5, <1>6, <1>7, <1>8, <1>9 DEF OrderNext

\* While the auto ticker is the only one that ticks and no call fails, no pending order
\* is left on a day that memory calls matched, unless it was dated while the clock was
\* not at rest, its day was listed before it was inserted, or a Start used a stale row
\* (OrderFillsOnCurrentDate, UpdateMatchOnDate).
THEOREM NoOrderIsLeftBehind == ASSUME TickerOnly PROVE OrderSpec => []NoneLeftBehind
  <1>1. OrderInit => OrderParts /\ LocksInv /\ RolesInv /\ GateInv /\ KeptInv
    <2> SUFFICES ASSUME OrderInit PROVE OrderParts /\ LocksInv /\ RolesInv /\ GateInv /\ KeptInv
      OBVIOUS
    <2>1. OrderParts /\ RolesInv /\ GateInv
      BY InitParts, GateInit DEF OrderInit
    <2>2. LocksInv
      BY DEF OrderInit, LocksInv, Locking
    <2>3. DayInv
      BY DEF OrderInit, Init, NoneHeld, DayInv, RowInv, LoadedInv, WindowInv, HoldInv, AtStep, WindowOpen,
             Playing, Workers
    <2>4. AheadInv
      BY DEF OrderInit, Init, NoneHeld, AheadInv, AheadOf, ListedBy, Pending, Workers
    <2> QED BY <2>1, <2>2, <2>3, <2>4 DEF KeptInv
  <1>2. ASSUME OrderParts, LocksInv, RolesInv, GateInv, KeptInv, [OrderNext]_orderVars
        PROVE  OrderParts' /\ LocksInv' /\ RolesInv' /\ GateInv' /\ KeptInv'
    <2>1. OrderParts' /\ RolesInv' /\ GateInv'
      BY <1>2, StepParts, ClockAlone, RolesStay, GateStep DEF OrderParts
    <2>2. LocksInv'
      BY <1>2, LocksStep
    <2> QED BY <1>2, <2>1, <2>2, KeptStep
  <1>3. OrderParts /\ KeptInv => NoneLeftBehind
    <2> SUFFICES ASSUME OrderParts, KeptInv, NEW o \in Orders, Pending(o), on[o] <= lastMatched,
                        o \notin raced, ~stale, ~(faults > 0)
                 PROVE  FALSE
      BY DEF NoneLeftBehind
    <2>1. on[o] > lastMatched
      BY DEF KeptInv, AheadInv, AheadOf
    <2>2. on[o] \in Nat /\ lastMatched \in Nat
      BY NumberTypes, BarFacts DEF OrderParts, RowTypesOK, BarDays
    <2> QED BY <2>1, <2>2
  <1>4. OrderParts /\ LocksInv /\ RolesInv /\ GateInv /\ KeptInv /\ [OrderNext]_orderVars
          => OrderParts' /\ LocksInv' /\ RolesInv' /\ GateInv' /\ KeptInv'
    BY <1>2
  <1> QED BY <1>1, <1>3, <1>4, PTL DEF OrderSpec
=============================================================================
