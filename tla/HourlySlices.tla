---------------------------- MODULE HourlySlices ----------------------------
(***************************************************************************)
(* The hourly engine: one agent's orders for one symbol, matched bar by bar *)
(* in slices (ProcessSimulationBar).  A match transaction lists the orders  *)
(* of its bar, takes them in the order of created_at, and closes the        *)
(* session with a snapshot.  Its steps are one order each; what may come    *)
(* between the statements of one fill is the subject of MatchLedger.        *)
(*                                                                         *)
(* An order is placed in three steps that take no common lock (PlaceOrder), *)
(* so that a match may begin, commit or be recorded between them.           *)
(*                                                                         *)
(* The clock matches the bars in their order and may match one again, when  *)
(* what it did was not recorded (SimClock); that it may come back at an      *)
(* older bar is the subject of Barrier.  The submission window and Pause do  *)
(* not show here: they decide when a match begins, not what it does.  What   *)
(* cash and the concentration limit decide about a buy is left open.         *)
(***************************************************************************)
EXTENDS Integers, FiniteSetsExt

CONSTANTS
    B,            \* bars of the market data, in the order of their timestamps
    End,          \* the last bar of the simulation; the data may go on after it
    Session,      \* the trading date of a bar
    Open, High, Low, Volume,  \* a bar of the symbol
    NoBar,        \* bars for which the symbol has no row
    PrevClose,    \* the daily close and volume before a session
    PrevVolume,
    Rate,         \* participation_rate, in per cent
    Orders,       \* the agent's orders, numbered in the order of created_at
    Buys,         \* those that buy; the others sell
    Kind, Price, Qty,         \* orders.order_type, price and quantity
    MaxPlacing,   \* bound: orders of the agent being placed at the same time
    MaxFaults     \* bound: failed calls, commits not recorded and restarts

Bars == 1..B
Sessions == {Session[b] : b \in Bars}

ASSUME HourlyAssumption ==
    /\ B \in Nat \ {0} /\ NoBar \subseteq Bars /\ MaxFaults \in Nat /\ MaxPlacing \in Nat
    /\ Session \in [Bars -> Nat \ {0}]
    /\ \A a, b \in Bars : a <= b => Session[a] <= Session[b]
    /\ End \in Bars /\ (End # B => Session[End + 1] # Session[End])
    /\ Open \in [Bars -> Nat] /\ High \in [Bars -> Nat] /\ Low \in [Bars -> Nat]
    /\ Volume \in [Bars -> Nat] /\ Rate \in 1..100
    /\ PrevClose \in [Sessions -> Nat] /\ PrevVolume \in [Sessions -> Nat]
    /\ Orders \subseteq Nat /\ IsFiniteSet(Orders) /\ Buys \subseteq Orders
    /\ Kind \in [Orders -> {"market", "limit", "stop"}]
    /\ Price \in [Orders -> Nat \ {0}] /\ Qty \in [Orders -> Nat \ {0}]

VARIABLES
    clock,    \* CurrentDate, the bar of the clock
    matched,  \* lastMatched: 0, or the last bar whose match was recorded
    db,       \* what is committed
    view,     \* what the match transaction sees: db and its own writes
    todo,     \* orders the transaction has listed and not yet taken
    locked,   \* order rows it has written
    phase,    \* "idle"; "orders", a match runs; "record", it has committed and is not
              \* yet recorded; "done", the simulation is completed
    last,     \* lastOfSession
    dq,       \* the agent is disqualified
    form,     \* per order: how far its placement is, and the bar it chose
    raced,    \* history: orders a match ran beside while they were being placed, and
              \* that no match has listed since
    faults

hourlyVars ==
    <<clock, matched, db, view, todo, locked, phase, last, dq, form, raced, faults>>

NoRow == [status |-> "none", on |-> 0, date |-> 0, filled |-> 0, left |-> 0, filledAt |-> 0]

Statuses == {"none", "pending", "filled", "rejected", "canceled"}

\* The tables: order rows, the shares held, the session snapshots; and, as history,
\* the shares each order traded at each bar and those sold as delivery.
Empty ==
    [row |-> [o \in Orders |-> NoRow], held |-> 0, snap |-> [s \in Sessions |-> -1],
     traded |-> [o \in Orders |-> [b \in Bars |-> 0]], delivery |-> [s \in Sessions |-> 0]]

NoForm == [step |-> "none", bar |-> 0]

HourlyInit ==
    /\ clock = 1 /\ matched = 0 /\ phase = "idle" /\ last = FALSE
    /\ db = Empty /\ view = Empty /\ todo = {} /\ locked = {} /\ dq = FALSE
    /\ form = [o \in Orders |-> NoForm] /\ raced = {} /\ faults = 0

-----------------------------------------------------------------------------
(* The market data, and what it decides about an order *)

\* NextBar, SameSession
LastOfSession(b) == b = B \/ Session[b + 1] # Session[b]

\* SessionBarsUpTo
SessionBarsUpTo(b) == {c \in 1..b : Session[c] = Session[b] /\ c \notin NoBar}

CircuitBandBreached(b) ==
    LET close == PrevClose[Session[b]] IN
    close > 0 /\ ((High[b] - close) * 100 > 10 * close \/ (close - Low[b]) * 100 > 10 * close)

Halted(b) == \E c \in SessionBarsUpTo(b) : CircuitBandBreached(c)

BelowMinPrice(b) == Open[b] < 10

LiquidityExceeded(o, b) == Qty[o] > PrevVolume[Session[b]] \div 100

ParticipationCap(left, b) == Min({left, (Rate * Volume[b]) \div 100})

\* ResolvePathFill: the bar reaches the price of the order.
Reached(o, b) ==
    \/ Kind[o] = "market"
    \/ Kind[o] = "limit" /\ IF o \in Buys THEN Low[b] <= Price[o] ELSE High[b] >= Price[o]
    \/ Kind[o] = "stop" /\ IF o \in Buys THEN High[b] >= Price[o] ELSE Low[b] <= Price[o]

Slice(o, b) ==
    IF b \notin NoBar /\ Reached(o, b) THEN ParticipationCap(view.row[o].left, b) ELSE 0

\* tryFillHourly, up to the path.
Refused(o, b) ==
    \/ dq \/ Halted(b)
    \/ b \notin NoBar /\ (BelowMinPrice(b) \/ LiquidityExceeded(o, b))

-----------------------------------------------------------------------------
(* The updates of an order row; each has WHERE status = 'pending' *)

Update(o, changed) ==
    IF view.row[o].status = "pending" THEN [view.row EXCEPT ![o] = changed] ELSE view.row

Marked(o, status) == [view.row[o] EXCEPT !.status = status]

\* UpdateMatchOnTs
MovedOn(o, b) == [view.row[o] EXCEPT !.on = b + 1, !.date = Session[b]]

\* MarkFilled: filled_quantity = quantity.
WholeFill(o, b) ==
    [view.row[o] EXCEPT !.status = "filled", !.filled = Qty[o], !.left = 0,
                        !.filledAt = Session[b]]

\* Mutant: a slice writes its quantity over that of the slices before.
SliceOverwrites(o, b, q, left) ==
    [view.row[o] EXCEPT !.status = IF left = 0 THEN "filled" ELSE "pending",
                        !.filled = q, !.left = left, !.filledAt = Session[b],
                        !.on = IF left = 0 THEN @ ELSE b + 1]

\* Mutant: the slice does not move to the next bar.
SliceStays(o, b, q, left) ==
    [view.row[o] EXCEPT !.status = IF left = 0 THEN "filled" ELSE "pending",
                        !.filled = @ + q, !.left = left, !.filledAt = Session[b]]

\* ApplySliceFill; without a next bar match_on_ts stays.
SliceFill(o, b, q, left) ==
    [view.row[o] EXCEPT !.status = IF left = 0 THEN "filled" ELSE "pending",
                        !.filled = @ + q, !.left = left, !.filledAt = Session[b],
                        !.on = IF left = 0 THEN @ ELSE b + 1]

\* The choice at the end of fillBuy and fillSell.
FilledRow(o, b, q) ==
    LET left == IF last THEN 0 ELSE view.row[o].left - q IN
    IF left > 0 \/ view.row[o].filled > 0 THEN SliceFill(o, b, q, left) ELSE WholeFill(o, b)

\* Mutant: purchases of any session count.
BoughtEver(b) == SumFunctionOnSet([o \in Orders |-> view.row[o].filled], Buys)

\* FilledBuyQtyOnSession
BoughtToday(b) ==
    SumFunctionOnSet([o \in Orders |-> view.row[o].filled],
                     {o \in Buys : view.row[o].filled > 0 /\ view.row[o].filledAt = Session[b]})

\* hourlySellFees: the part of a sale that pays delivery STT.
DeliveryPart(b, q) == Min({q, Max({0, view.held - BoughtToday(b)})})

-----------------------------------------------------------------------------
(* The match transaction *)

\* ShouldAdvanceExact: the bar of the clock is matched.
Matched == matched >= clock

\* The clock moves on, or completes the simulation.
Tick ==
    /\ phase = "idle" /\ Matched
    /\ IF clock < End THEN clock' = clock + 1 /\ UNCHANGED phase
       ELSE phase' = "done" /\ UNCHANGED clock
    /\ UNCHANGED <<matched, db, view, todo, locked, last, dq, form, raced, faults>>

\* Orders that are being placed.
BeingPlaced == {o \in Orders : form[o].step # "none"}

\* ProcessSimulationBar reads the calendar and lists the orders of the bar.  A lookup
\* of the next bar that fails makes this one the last of its session.
Begin ==
    /\ phase = "idle" /\ ~Matched
    /\ \/ last' = LastOfSession(clock) /\ UNCHANGED faults
       \/ ~LastOfSession(clock) /\ last' = TRUE
          /\ faults < MaxFaults /\ faults' = faults + 1
    /\ phase' = "orders" /\ view' = db /\ locked' = {}
    /\ todo' = {o \in Orders : db.row[o].status = "pending" /\ db.row[o].on = clock}
    /\ raced' = (raced \ todo') \cup BeingPlaced
    /\ UNCHANGED <<clock, matched, db, dq, form>>

Working(o) == phase = "orders" /\ o \in todo /\ \A p \in todo : o <= p

Took(o, tables) ==
    /\ view' = tables
    /\ todo' = todo \ {o} /\ locked' = locked \cup {o}
    /\ UNCHANGED <<clock, matched, db, phase, last, dq, form, raced>>

Reject(o) ==
    /\ Working(o)
    /\ \/ Refused(o, clock) /\ UNCHANGED faults
       \/ o \in Buys /\ Slice(o, clock) > 0 /\ UNCHANGED faults
       \/ o \notin Buys /\ view.held < Slice(o, clock) /\ UNCHANGED faults
       \/ faults < MaxFaults /\ faults' = faults + 1
    /\ Took(o, [view EXCEPT !.row = Update(o, Marked(o, "rejected"))])

\* Mutant: what is left over at the end of a session waits for the next one.
DeferOvernight(o) ==
    /\ Working(o) /\ ~Refused(o, clock) /\ Slice(o, clock) = 0
    /\ Took(o, [view EXCEPT !.row =
                  Update(o, IF clock < B THEN MovedOn(o, clock) ELSE Marked(o, "rejected"))])
    /\ UNCHANGED faults

\* ReasonDefer: the next bar of the session, or the end of the order.
Defer(o) ==
    /\ Working(o) /\ ~Refused(o, clock) /\ Slice(o, clock) = 0
    /\ Took(o, [view EXCEPT !.row =
                  Update(o, CASE ~last -> MovedOn(o, clock)
                              [] last /\ view.row[o].filled > 0 -> SliceFill(o, clock, 0, 0)
                              [] OTHER -> Marked(o, "rejected"))])
    /\ UNCHANGED faults

BuySlice(o) ==
    LET q == Slice(o, clock) IN
    /\ Working(o) /\ ~Refused(o, clock) /\ o \in Buys /\ q > 0
    /\ Took(o, [view EXCEPT !.row = Update(o, FilledRow(o, clock, q)), !.held = @ + q,
                            !.traded[o][clock] = @ + q])
    /\ UNCHANGED faults

\* Mutant: without the check of insufficient_holdings.
SellSliceUnchecked(o) ==
    LET q == Slice(o, clock) IN
    /\ Working(o) /\ ~Refused(o, clock) /\ o \notin Buys /\ q > 0
    /\ Took(o, [view EXCEPT !.row = Update(o, FilledRow(o, clock, q)), !.held = @ - q,
                            !.traded[o][clock] = @ + q,
                            !.delivery[Session[clock]] = @ + DeliveryPart(clock, q)])
    /\ UNCHANGED faults

SellSlice(o) ==
    LET q == Slice(o, clock) IN
    /\ Working(o) /\ ~Refused(o, clock) /\ o \notin Buys /\ q > 0 /\ view.held >= q
    /\ Took(o, [view EXCEPT !.row = Update(o, FilledRow(o, clock, q)), !.held = @ - q,
                            !.traded[o][clock] = @ + q,
                            !.delivery[Session[clock]] = @ + DeliveryPart(clock, q)])
    /\ UNCHANGED faults

\* Mutant: the snapshot is taken from what was committed before the match.
StaleSnapshots ==
    IF last /\ ~dq THEN [view EXCEPT !.snap[Session[clock]] = db.held] ELSE view

\* LastSnapshotTx; before the first session it is the one of the registration.
LastSnapshot ==
    LET taken == {s \in Sessions : view.snap[s] # -1} IN
    IF taken = {} THEN 0 ELSE view.snap[Max(taken)]

\* writeSessionSnapshots
Snapshots ==
    CASE ~last -> view
      [] last /\ dq -> [view EXCEPT !.snap[Session[clock]] = LastSnapshot]
      [] OTHER -> [view EXCEPT !.snap[Session[clock]] = view.held]

\* The transaction is over, and view and its locals with it.
Over == todo' = {} /\ locked' = {} /\ last' = FALSE /\ view' = Empty

Finish ==
    /\ phase = "orders" /\ todo = {}
    /\ db' = Snapshots /\ phase' = "record"
    /\ Over /\ UNCHANGED <<clock, matched, dq, form, raced, faults>>

\* CloseWindowAndMatch, after the match: lastMatched.  When the reply to the COMMIT was
\* lost, the bar counts as not matched.
Record ==
    /\ phase = "record" /\ phase' = "idle"
    /\ \/ matched' = clock /\ UNCHANGED faults
       \/ faults < MaxFaults /\ faults' = faults + 1 /\ UNCHANGED matched
    /\ UNCHANGED <<clock, db, view, todo, locked, last, dq, form, raced>>

\* A statement of the match fails.
Abort ==
    /\ phase = "orders" /\ faults < MaxFaults /\ faults' = faults + 1
    /\ phase' = "idle"
    /\ Over /\ UNCHANGED <<clock, matched, db, dq, form, raced>>

\* The server stops and starts again: the transaction and the requests are gone, and
\* last_matched_ts, whose write may have failed, can be a bar behind.
Restart ==
    /\ phase # "done" /\ faults < MaxFaults /\ faults' = faults + 1
    /\ matched' \in {matched, clock - 1}
    /\ form' = [o \in Orders |-> NoForm] /\ raced' = raced \ BeingPlaced
    /\ phase' = "idle"
    /\ Over /\ UNCHANGED <<clock, db, dq>>

-----------------------------------------------------------------------------
(* Other requests; what they commit the transaction sees, too *)

\* PlaceOrder: the agent is not disqualified, or the lookup fails and is passed over;
\* then OrderFillsOnCurrentDate, which looks at the record and knows of no match.
PlaceChoose(o) ==
    /\ phase # "done" /\ form[o].step = "none" /\ db.row[o].status = "none"
    /\ Cardinality(BeingPlaced) < MaxPlacing
    /\ \/ ~dq /\ UNCHANGED faults
       \/ dq /\ faults < MaxFaults /\ faults' = faults + 1
    /\ form' = [form EXCEPT ![o].step = IF Matched THEN "next" ELSE "fills"]
    /\ raced' = IF phase = "idle" THEN raced ELSE raced \cup {o}
    /\ UNCHANGED <<clock, matched, db, view, todo, locked, phase, last, dq>>

\* Mutant: an order is always placed for the bar of the clock.
PlaceDateNow(o) ==
    /\ form[o].step \in {"fills", "next"}
    /\ form' = [form EXCEPT ![o] = [step |-> "dated", bar |-> clock]]
    /\ UNCHANGED <<clock, matched, db, view, todo, locked, phase, last, dq, raced, faults>>

\* CurrentDate, as it is by now, or NextBar after it, which may be past the simulation.
PlaceDate(o) ==
    LET b == IF form[o].step = "fills" THEN clock ELSE clock + 1 IN
    /\ form[o].step \in {"fills", "next"} /\ b \in Bars
    /\ form' = [form EXCEPT ![o] = [step |-> "dated", bar |-> b]]
    /\ UNCHANGED <<clock, matched, db, view, todo, locked, phase, last, dq, raced, faults>>

\* There is no next bar, the lookup or the insert fails: the request is refused.
PlaceFail(o) ==
    /\ form[o].step # "none"
    /\ \/ form[o].step = "next" /\ clock + 1 \notin Bars /\ UNCHANGED faults
       \/ form[o].step # "fills" /\ faults < MaxFaults /\ faults' = faults + 1
    /\ form' = [form EXCEPT ![o] = NoForm] /\ raced' = raced \ {o}
    /\ UNCHANGED <<clock, matched, db, view, todo, locked, phase, last, dq>>

Commit(tables) ==
    /\ db' = [db EXCEPT !.row = tables]
    /\ UNCHANGED <<clock, matched, todo, locked, phase, last, dq, faults>>

\* InsertPending
PlaceInsert(o) ==
    LET b == form[o].bar
        new == [NoRow EXCEPT !.status = "pending", !.on = b, !.date = Session[b],
                             !.left = Qty[o]] IN
    /\ form[o].step = "dated" /\ db.row[o].status = "none"
    /\ \A p \in Orders : p < o => db.row[p].status # "none"
    /\ Commit([db.row EXCEPT ![o] = new])
    /\ view' = IF phase = "orders" THEN [view EXCEPT !.row[o] = new] ELSE view
    /\ form' = [form EXCEPT ![o] = NoForm] /\ UNCHANGED raced

\* CancelPending waits for a row the transaction has written.
Cancel(o) ==
    /\ db.row[o].status = "pending" /\ o \notin locked
    /\ Commit([db.row EXCEPT ![o].status = "canceled"])
    /\ view' = IF phase = "orders" THEN [view EXCEPT !.row[o].status = "canceled"] ELSE view
    /\ raced' = raced \ {o} /\ UNCHANGED form

Disqualify ==
    /\ ~dq /\ dq' = TRUE
    /\ UNCHANGED <<clock, matched, db, view, todo, locked, phase, last, form, raced, faults>>

TryFill(o) == Reject(o) \/ Defer(o) \/ BuySlice(o) \/ SellSlice(o)

PlaceOrder(o) == PlaceChoose(o) \/ PlaceDate(o) \/ PlaceFail(o) \/ PlaceInsert(o)

HourlyNext ==
    \/ Tick \/ Begin \/ Finish \/ Record \/ Abort \/ Restart
    \/ \E o \in Orders : TryFill(o) \/ PlaceOrder(o) \/ Cancel(o)
    \/ Disqualify

HourlySpec == HourlyInit /\ [][HourlyNext]_hourlyVars

\* The ticker closes one window after another, and a match runs to its end.
MatchFairness ==
    /\ WF_hourlyVars(Tick) /\ WF_hourlyVars(Begin) /\ WF_hourlyVars(Finish)
    /\ WF_hourlyVars(Record) /\ WF_hourlyVars(\E o \in Orders : TryFill(o))

FairHourlySpec == HourlySpec /\ MatchFairness

-----------------------------------------------------------------------------
Rows == [status : Statuses, on : 0..B, date : Sessions \cup {0}, filled : Nat, left : Nat,
         filledAt : Sessions \cup {0}]

Tables == [row : [Orders -> Rows], held : Nat, snap : [Sessions -> Nat \cup {-1}],
           traded : [Orders -> [Bars -> Nat]], delivery : [Sessions -> Nat]]

Forms == [step : {"none", "fills", "next", "dated"}, bar : 0..B]

\* The type invariant of the hourly engine: there is no short position, and a match is
\* of a bar that is not matched, the one after the last (ProcessSimulationBar).
HourlyTypeOK ==
    /\ clock \in 1..End /\ matched \in {clock - 1, clock}
    /\ phase \in {"idle", "orders", "record", "done"}
    /\ (phase \in {"orders", "record"} => matched = clock - 1)
    /\ db \in Tables /\ view \in Tables /\ todo \subseteq Orders /\ locked \subseteq Orders
    /\ form \in [Orders -> Forms] /\ \A o \in Orders : form[o].step = "dated" => form[o].bar > 0
    /\ raced \subseteq Orders /\ last \in BOOLEAN /\ dq \in BOOLEAN /\ faults \in Nat

TradedIn(o, bars) == SumFunctionOnSet(db.traded[o], bars)
Executed(o) == TradedIn(o, Bars)
TradedBars(o) == {b \in Bars : db.traded[o][b] > 0}

\* The row of an order tells what it traded: filled_quantity is the sum of its slices
\* and remaining_quantity the rest of the order, through any number of bars, bars
\* matched again, and failures.  Two cases are excepted: an order canceled during the
\* match that executes it, and one whose first slice came at the end of a session
\* (ApplySliceFill, MarkFilled).
SlicesAddUp ==
    \A o \in Orders : LET r == db.row[o] IN
        /\ Executed(o) <= Qty[o]
        /\ r.status \in {"pending", "rejected"} =>
              r.filled = Executed(o) /\ r.filled + r.left = Qty[o]
        /\ r.status = "canceled" => r.filled <= Executed(o) /\ r.filled + r.left = Qty[o]
        /\ r.status = "filled" => r.left = 0 /\ Executed(o) > 0
        /\ r.status = "filled" /\ r.filled # Executed(o) =>
              r.filled = Qty[o] /\ Cardinality(TradedBars(o)) = 1

\* No order trades more at a bar than its share of the volume, also when the bar is
\* matched again: a slice moves its order to the next bar in the same transaction
\* (ParticipationCap, ApplySliceFill).
WithinParticipation ==
    \A o \in Orders, b \in Bars : db.traded[o][b] <= ParticipationCap(Qty[o], b)

\* An hourly order lives for one session: all its slices are of one, and the bar it
\* waits for is of the date on its row.  That bar is still to be matched, with one
\* exception: an order that was being placed while a match ran.  OrderFillsOnCurrentDate
\* says yes until the match is recorded, so such an order may be inserted for a bar whose
\* orders were listed before (day_order_expired, UpdateMatchOnTs, PlaceOrder).
DayOrders ==
    \A o \in Orders : LET r == db.row[o] IN
        /\ \A a, b \in TradedBars(o) : Session[a] = Session[b]
        /\ r.status = "pending" =>
              /\ Session[r.on] = r.date
              /\ \A b \in TradedBars(o) : Session[b] = r.date
              /\ r.on > matched \/ o \in raced

\* The bars of the sessions before s, and of s.
Until(s) == {b \in Bars : Session[b] <= s}
Of(s) == {b \in Bars : Session[b] = s}

TradedBy(orders, bars) == SumFunctionOnSet([o \in Orders |-> TradedIn(o, bars)], orders)
Net(bars) == TradedBy(Buys, bars) - TradedBy(Orders \ Buys, bars)

\* Once a session is over, its snapshot holds the shares of its close, although a
\* lookup that failed may have written one in the middle of it
\* (writeSessionSnapshots).
SessionSnapshots ==
    ~dq => \A s \in Sessions : (\A b \in Of(s) : b <= matched) => db.snap[s] = Net(Until(s))

\* What an order row has to say for FilledBuyQtyOnSession to be right.
Told(o) == db.row[o].filled = Executed(o)

\* Delivery STT is due on the shares held overnight, first sold first: with any
\* slices, sales and purchases of the session between them, min(sold, held at the
\* open) of them pay it (hourlySellFees, FilledBuyQtyOnSession).
DeliveryFirst ==
    \A s \in Sessions : (\A o \in Buys : Told(o)) =>
        db.delivery[s] = Min({TradedBy(Orders \ Buys, Of(s)), Net(Until(s) \ Of(s))})

\* Which orders are settled in the end: with windows that keep closing, neither slices,
\* deferrals, missing bars nor a bounded number of failures keep an order waiting, but
\* two kinds may wait for ever: one that was being placed while a match ran, and one
\* placed for a bar past the end of the simulation (ProcessSimulationBar, PlaceOrder).
EverySliceSettles ==
    \A o \in Orders :
        db.row[o].status = "pending" /\ o \notin raced /\ db.row[o].on <= End
            ~> db.row[o].status # "pending"

\* docs/rules.md:159: "Hourly leftover quantity expires at session close
\* (`day_order_expired`) unless already partially filled (then the executed quantity
\* is kept)."
ExecutedQuantityKept == \A o \in Orders : db.row[o].status = "filled" => Told(o)
=============================================================================
