----------------------------- MODULE OrderEntry -----------------------------
(***************************************************************************)
(* The orders of one agent beside the clock of SimClock: PlaceOrder takes   *)
(* a slot of the tick, dates the order by the clock, and inserts it;        *)
(* CancelOrder cancels it; the match transaction of CloseWindowAndMatch     *)
(* lists the pending orders of its day and fills, rejects or defers each.   *)
(* Postgres runs them READ COMMITTED: a row written by an open transaction  *)
(* is locked until it ends, and a guarded UPDATE looks at the row again.    *)
(*                                                                         *)
(* Each request to place an order is a member of Orders, used once.  What   *)
(* decides a fill (prices, cash, holdings, the status of the agent) is left *)
(* open: any of the three outcomes may be an order's.                       *)
(***************************************************************************)
EXTENDS SimClock

CONSTANTS
    Orders,         \* the requests to place an order
    LastBar,        \* last trading day of the market data, N or later
    Slots,          \* orders an agent may submit per tick
    MaxPlaceFaults  \* bound: database calls of PlaceOrder that fail

ASSUME LastBarAssumption == LastBar \in Nat /\ LastBar >= N
ASSUME SlotsAssumption == Slots \in Nat \ {0} /\ MaxPlaceFaults \in Nat

VARIABLES
    slots,          \* Registry.orderCounts[id][agent]
    state, on,      \* orders.status ("none": no row yet), orders.match_on_date
    at, clk, asOf,  \* PlaceOrder: its next step, its *SimClock, its day
    listed, todo,   \* match transaction: it has read its orders; those left
    wrote,          \* match transaction: what it did with an order, uncommitted
    trades,         \* history: executions of the order
    raced,          \* history: orders dated while the clock was not at rest
    stale,          \* history: a Start has used a day that had changed meanwhile
    placeFaults

tableVars == <<state, on, trades>>
placeVars == <<slots, at, clk, asOf, raced, stale, placeFaults>>
txVars    == <<listed, todo, wrote>>
orderVars == <<vars, tableVars, placeVars, txVars>>

BarDays == 0..LastBar
Outcomes == {"none", "fill", "ghost", "reject", "defer"}
Settled == {"filled", "rejected", "canceled"}

OrderInit ==
    /\ Init
    /\ slots = 0
    /\ state = [o \in Orders |-> "none"] /\ on = [o \in Orders |-> 0]
    /\ at = [o \in Orders |-> "new"]
    /\ clk = [o \in Orders |-> 0] /\ asOf = [o \in Orders |-> 0]
    /\ listed = [w \in Workers |-> FALSE] /\ todo = [w \in Workers |-> {}]
    /\ wrote = [w \in Workers |-> [o \in Orders |-> "none"]]
    /\ trades = [o \in Orders |-> 0] /\ raced = {} /\ stale = FALSE
    /\ placeFaults = 0

Pending(o) == state[o] = "pending"

-----------------------------------------------------------------------------
(* PlaceOrder *)

\* No match has read its orders and not recorded its day yet, and the clock is
\* still on the day the handler read: the two reads of PlaceOrder agree.
AtRest(o) ==
    /\ \A w \in Workers : ~listed[w] /\ pc[w] # "record"
    /\ current # 0 /\ asOf[o] = cIdx[current]

PlaceFault == placeFaults < MaxPlaceFaults /\ placeFaults' = placeFaults + 1

PlaceCheck(o) ==
    /\ at[o] = "new"
    /\ Loaded("running") \/ Loaded("paused")
    /\ at' = [at EXCEPT ![o] = "checked"]
    /\ clk' = [clk EXCEPT ![o] = current]
    /\ UNCHANGED <<vars, tableVars, txVars, slots, asOf, raced, stale, placeFaults>>

\* Mutant: the counter is not looked at.
PlaceAcceptUnlimited(o) ==
    /\ at[o] = "checked"
    /\ slots' = slots + 1 /\ at' = [at EXCEPT ![o] = "accepted"]
    /\ UNCHANGED <<vars, tableVars, txVars, clk, asOf, raced, stale, placeFaults>>

\* TryAcceptOrderSubmission
PlaceAccept(o) ==
    /\ at[o] = "checked"
    /\ IF slots < Slots
       THEN slots' = slots + 1 /\ at' = [at EXCEPT ![o] = "accepted"]
       ELSE UNCHANGED slots /\ at' = [at EXCEPT ![o] = "done"]
    /\ UNCHANGED <<vars, tableVars, txVars, clk, asOf, raced, stale, placeFaults>>

\* c.CurrentDate, read without r.mu.
PlaceReadDay(o) ==
    /\ at[o] = "accepted"
    /\ at' = [at EXCEPT ![o] = "read"]
    /\ asOf' = [asOf EXCEPT ![o] = IF clk[o] # 0 THEN cIdx[clk[o]] ELSE @]
    /\ clk' = [clk EXCEPT ![o] = 0]
    /\ UNCHANGED <<vars, tableVars, txVars, slots, raced, stale, placeFaults>>

\* Mutant: a loaded clock's day is always the order's.
FillsOnLoadedClock == current # 0

\* OrderFillsOnCurrentDate
FillsOnCurrentDate ==
    /\ current # 0
    /\ WindowOpen \/ ~ShouldAdvance(lastMatched, cIdx[current])

\* The day of the order: the one read, or the next of the market data.
PlaceDate(o) ==
    /\ at[o] = "read"
    /\ \/ /\ FillsOnCurrentDate
          /\ on' = [on EXCEPT ![o] = asOf[o]] /\ at' = [at EXCEPT ![o] = "dated"]
          /\ UNCHANGED placeFaults
       \/ /\ ~FillsOnCurrentDate /\ asOf[o] < LastBar
          /\ on' = [on EXCEPT ![o] = asOf[o] + 1] /\ at' = [at EXCEPT ![o] = "dated"]
          /\ UNCHANGED placeFaults
       \/ /\ ~FillsOnCurrentDate /\ asOf[o] = LastBar
          /\ at' = [at EXCEPT ![o] = "rollback"] /\ UNCHANGED <<on, placeFaults>>
       \/ /\ ~FillsOnCurrentDate /\ PlaceFault
          /\ at' = [at EXCEPT ![o] = "rollback"] /\ UNCHANGED on
    /\ asOf' = [asOf EXCEPT ![o] = 0]
    /\ raced' = IF AtRest(o) THEN raced ELSE raced \cup {o}
    /\ UNCHANGED <<vars, txVars, state, trades, slots, clk, stale>>

\* InsertPending; a failed call may have inserted the row.
PlaceInsert(o) ==
    /\ at[o] = "dated"
    /\ \/ /\ state' = [state EXCEPT ![o] = "pending"]
          /\ at' = [at EXCEPT ![o] = "done"] /\ UNCHANGED placeFaults
       \/ /\ state' = [state EXCEPT ![o] = "pending"] \/ UNCHANGED state
          /\ at' = [at EXCEPT ![o] = "rollback"] /\ PlaceFault
    /\ UNCHANGED <<vars, txVars, on, trades, slots, clk, asOf, raced, stale>>

\* RollbackOrderSubmission takes a slot back, also one of a later tick.
PlaceRollback(o) ==
    /\ at[o] = "rollback"
    /\ slots' = IF slots <= 1 THEN 0 ELSE slots - 1
    /\ at' = [at EXCEPT ![o] = "done"]
    /\ UNCHANGED <<vars, tableVars, txVars, clk, asOf, raced, stale, placeFaults>>

PlaceOrder(o) ==
    \/ PlaceCheck(o) \/ PlaceAccept(o) \/ PlaceReadDay(o)
    \/ PlaceDate(o) \/ PlaceInsert(o) \/ PlaceRollback(o)

-----------------------------------------------------------------------------
(* Row locks *)

\* Another transaction has an uncommitted write of the order's row ...
RowLocked(w, o) ==
    \E v \in Workers \ {w} : wrote[v][o] \in {"fill", "reject", "defer"}

\* ... or of the agent's portfolio.
PortfolioLocked(w) ==
    \E v \in Workers \ {w}, o \in Orders : wrote[v][o] \in {"fill", "ghost"}

\* CancelPending, one statement.  It waits for a match that wrote the row.
CancelOrder(o) ==
    /\ Pending(o)
    /\ \A w \in Workers : wrote[w][o] \in {"none", "ghost"}
    /\ state' = [state EXCEPT ![o] = "canceled"]
    /\ UNCHANGED <<vars, placeVars, txVars, on, trades>>

-----------------------------------------------------------------------------
(* The match transaction, inside the step "match" of CloseWindowAndMatch *)

\* Mutant: without "AND status = 'pending'".
TxListAnyStatus(w) ==
    /\ pc[w] = "match" /\ ~listed[w]
    /\ listed' = [listed EXCEPT ![w] = TRUE]
    /\ todo' = [todo EXCEPT ![w] = {o \in Orders : state[o] # "none" /\ on[o] = day[w]}]
    /\ raced' = raced \cup {o \in Orders : at[o] = "dated" /\ on[o] = day[w]}
    /\ UNCHANGED <<vars, tableVars, wrote, slots, at, clk, asOf, stale, placeFaults>>

\* ListPendingForDate
TxList(w) ==
    /\ pc[w] = "match" /\ ~listed[w]
    /\ listed' = [listed EXCEPT ![w] = TRUE]
    /\ todo' = [todo EXCEPT ![w] = {o \in Orders : Pending(o) /\ on[o] = day[w]}]
    /\ raced' = raced \cup {o \in Orders : at[o] = "dated" /\ on[o] = day[w]}
    /\ UNCHANGED <<vars, tableVars, wrote, slots, at, clk, asOf, stale, placeFaults>>

Wrote(w, o, outcome) ==
    /\ wrote' = [wrote EXCEPT ![w][o] = outcome]
    /\ todo' = [todo EXCEPT ![w] = @ \ {o}]
    /\ UNCHANGED <<vars, tableVars, placeVars, listed>>

\* fillBuy, fillSell: cash and holdings change first, then MarkFilled finds the
\* row pending, or finds nothing to update; nobody looks which.
TxFill(w, o) ==
    /\ o \in todo[w]
    /\ ~PortfolioLocked(w) /\ ~RowLocked(w, o)
    /\ Wrote(w, o, IF Pending(o) THEN "fill" ELSE "ghost")

\* MarkRejected
TxReject(w, o) ==
    /\ o \in todo[w]
    /\ ~RowLocked(w, o)
    /\ Wrote(w, o, IF Pending(o) THEN "reject" ELSE "none")

\* Mutant: the order keeps its day.
TxKeepsDay(w, o) ==
    /\ o \in todo[w]
    /\ Wrote(w, o, "none")

\* A limit or a stop the day did not reach: UpdateMatchOnDate, or MarkRejected
\* when the market data has no next day or the query fails.
TxDefer(w, o) ==
    /\ o \in todo[w] /\ day[w] < LastBar
    /\ ~RowLocked(w, o)
    /\ Wrote(w, o, IF Pending(o) THEN "defer" ELSE "none")

MatchTx(w) == TxList(w) \/ \E o \in Orders : TxFill(w, o) \/ TxReject(w, o) \/ TxDefer(w, o)

\* Mutant: MarkFilled without "AND status = 'pending'".
StatusOfAny(w, o) ==
    CASE wrote[w][o] \in {"fill", "ghost"} -> "filled"
      [] wrote[w][o] = "reject" -> "rejected"
      [] OTHER -> state[o]

\* What the transaction's writes make of an order.
StatusAfter(w, o) ==
    CASE wrote[w][o] = "fill"   -> "filled"
      [] wrote[w][o] = "reject" -> "rejected"
      [] OTHER                  -> state[o]

TxCommit(w) ==
    /\ listed[w] /\ todo[w] = {}
    /\ Commit(day[w])
    /\ state' = [o \in Orders |-> StatusAfter(w, o)]
    /\ on' = [o \in Orders |-> IF wrote[w][o] = "defer" THEN day[w] + 1 ELSE on[o]]
    /\ trades' = [o \in Orders |->
                    IF wrote[w][o] \in {"fill", "ghost"} THEN trades[o] + 1 ELSE trades[o]]

TxAbort(w) == pc'[w] # "record" /\ UNCHANGED <<histVars, tableVars>>

TxEnd(w) ==
    /\ TxCommit(w) \/ TxAbort(w)
    /\ listed' = [listed EXCEPT ![w] = FALSE] /\ todo' = [todo EXCEPT ![w] = {}]
    /\ wrote' = [wrote EXCEPT ![w] = [o \in Orders |-> "none"]]

-----------------------------------------------------------------------------
(* The steps of the clock, with what they do to the orders *)

\* resetTickCountersLocked, when a window opens and when a day is recorded.
Resets(w) == (pc[w] = "load" /\ pc'[w] = "ticksample") \/ pc[w] = "record"

\* Start loads its new clock in an unreachable object: a PlaceOrder that still
\* holds that object keeps the day it had.
Reused(w, o) == pc[w] = "startlock" /\ clk[o] # 0 /\ clk[o] = current' /\ current' # current

\* The row Start read, or the day it writes, is not today's any more.
Stale(w) ==
    \/ pc[w] = "startlock" /\ current' # current
         /\ (sIdx[w] # ResumeDay \/ rLast[w] # dbLast \/ dbStatus = "completed")
    \/ pc[w] \in {"startpersist", "resumepersist"}
         /\ (obj[w] # current \/ sIdx[w] # cIdx[current])

Effects(w) ==
    /\ stale' = (stale \/ Stale(w))
    /\ slots' = IF Resets(w) THEN 0 ELSE slots
    /\ asOf' = [o \in Orders |-> IF Reused(w, o) THEN cIdx[clk[o]] ELSE asOf[o]]
    /\ clk' = [o \in Orders |-> IF Reused(w, o) THEN 0 ELSE clk[o]]
    /\ IF pc[w] = "match" THEN TxEnd(w) ELSE UNCHANGED <<tableVars, txVars>>
    /\ UNCHANGED <<at, raced, placeFaults>>

ClockStep(w) == Step(w) /\ Effects(w)

\* The crash rolls every transaction back and ends every request.
CrashOrders ==
    /\ CrashRestart
    /\ slots' = 0
    /\ at' = [o \in Orders |-> IF at[o] = "new" THEN "new" ELSE "done"]
    /\ clk' = [o \in Orders |-> 0] /\ asOf' = [o \in Orders |-> 0]
    /\ listed' = [w \in Workers |-> FALSE] /\ todo' = [w \in Workers |-> {}]
    /\ wrote' = [w \in Workers |-> [o \in Orders |-> "none"]]
    /\ UNCHANGED <<tableVars, raced, stale, placeFaults>>

OrderNext ==
    \/ \E w \in Workers : ClockStep(w) \/ MatchTx(w)
    \/ \E o \in Orders : PlaceOrder(o) \/ CancelOrder(o)
    \/ CrashOrders

OrderSpec == OrderInit /\ [][OrderNext]_orderVars

\* The fairness of SimClock, and a match transaction that runs to its end.
OrderFairness ==
    /\ \A w \in Workers :
          WF_orderVars(InCall(w) /\ Effects(w)) /\ WF_orderVars(MatchTx(w))
    /\ \A w \in Tickers : WF_orderVars(Ticker(w) /\ Effects(w))
    /\ \A w \in Requests :
          SF_orderVars(StartRead(w) /\ Effects(w)) /\ SF_orderVars(ProceedRead(w) /\ Effects(w))

FairOrderSpec == OrderSpec /\ OrderFairness

-----------------------------------------------------------------------------
\* The type invariant of the orders: an order in the table has a day of the
\* market data, and only an open match transaction holds uncommitted writes
\* (orders.Row, ProcessSimulationDay).
OrderTypeOK ==
    /\ TypeOK
    /\ slots \in 0..Slots
    /\ state \in [Orders -> Settled \cup {"none", "pending"}]
    /\ on \in [Orders -> BarDays] /\ asOf \in [Orders -> DayOrNone]
    /\ at \in [Orders -> {"new", "checked", "accepted", "read", "dated", "rollback", "done"}]
    /\ clk \in [Orders -> ClockOrNone]
    /\ listed \in [Workers -> BOOLEAN] /\ todo \in [Workers -> SUBSET Orders]
    /\ wrote \in [Workers -> [Orders -> Outcomes]]
    /\ trades \in [Orders -> Nat] /\ raced \subseteq Orders
    /\ stale \in BOOLEAN /\ placeFaults \in Nat
    /\ \A o \in Orders : state[o] # "none" => on[o] # 0
    /\ \A w \in Workers :
          /\ listed[w] => pc[w] = "match"
          /\ ~listed[w] => todo[w] = {} /\ wrote[w] = [o \in Orders |-> "none"]

\* Execution is exactly once: an order is filled when it has traded once, and
\* an order still pending or rejected never has, even if its day is matched
\* again after a crash or a failed match (ProcessSimulationDay).
TradedOnce ==
    \A o \in Orders :
        /\ state[o] = "filled" => trades[o] = 1
        /\ state[o] \in {"none", "pending", "rejected"} => trades[o] = 0
        /\ trades[o] <= 1

\* While no call fails, no pending order is left on a day that memory calls
\* matched, unless it was dated while the clock was not at rest, its day was
\* listed before it was inserted, or a Start used a stale row
\* (OrderFillsOnCurrentDate, UpdateMatchOnDate).
NoneLeftBehind ==
    \A o \in Orders : Pending(o) /\ on[o] <= lastMatched => o \in raced \/ stale \/ faults > 0

\* docs/rules.md:183: an order submitted outside the window is processed on
\* the next tick; no pending order is left on a day that has been processed.
StrandedOrder == \A o \in Orders : Pending(o) => on[o] > lastMatched

\* The status of an order that is filled, rejected or canceled is final, with
\* cancels and matches in any order (MarkFilled, MarkRejected, CancelPending).
SettledIsFinal == [][\A o \in Orders : state[o] \in Settled => state'[o] = state[o]]_orderVars

\* docs/rules.md:235: PENDING orders are processed; a canceled one never trades.
CanceledNeverTrades == \A o \in Orders : state[o] = "canceled" => trades[o] = 0

\* Which orders are settled in the end, while the user keeps starting the simulation:
\* every order dated by a clock at rest is filled, rejected or canceled, but for one that
\* a Start with a stale row passed over, and one dated past the end.  NextTradingDay
\* looks past the simulation's last day: an order placed after the last match, or
\* deferred by it, waits for a day no tick comes to (CloseWindowAndMatch, PlaceOrder,
\* ProcessSimulationDay).
Settles ==
    \A o \in Orders :
        (Pending(o) /\ o \notin raced) ~> (state[o] \in Settled \/ stale \/ on[o] > N)
=============================================================================
