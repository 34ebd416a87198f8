---------------------------- MODULE MatchLedger ----------------------------
(***************************************************************************)
(* The portfolio of one agent under ProcessSimulationDay: the cash, the     *)
(* shares of one symbol, the orders for it and the daily snapshots.  A      *)
(* match transaction takes the orders of its day one by one, and each fill  *)
(* is a row of statements that other transactions may come between.         *)
(* Postgres runs them READ COMMITTED: a SELECT sees what is committed and   *)
(* the transaction's own writes, and takes no lock; an UPDATE locks its row *)
(* until the transaction ends.                                             *)
(*                                                                         *)
(* Begin is the clock: it matches a day once all days before it have been,  *)
(* may match one again, and may have two matches open (SimClock).  What     *)
(* prices, limits and the other symbols decide about an order is left open. *)
(***************************************************************************)
EXTENDS Integers, FiniteSets

CONSTANTS
    Txs,         \* match transactions open at a time
    N,           \* trading days
    Orders,      \* the agent's orders, numbered in the order of created_at
    Buys,        \* those that buy; the others sell
    Qty,         \* orders.quantity
    Price,       \* the price at which orders fill on a day
    Close,       \* the closing price of a day
    Fee,         \* fees of an order, less than its value
    Capital,     \* StartingCapitalINR
    MaxMatches,  \* bound: transactions begun
    MaxAborts    \* bound: transactions that fail

Days == 1..N

ASSUME LedgerAssumption ==
    /\ N \in Nat \ {0} /\ Orders \subseteq Nat /\ IsFiniteSet(Orders) /\ Buys \subseteq Orders
    /\ Capital \in Nat \ {0} /\ Fee \in Nat
    /\ MaxMatches \in Nat /\ MaxAborts \in Nat
    /\ Qty \in [Orders -> Nat \ {0}]
    /\ Price \in [Days -> Nat] /\ Close \in [Days -> Nat \ {0}]
    /\ \A d \in Days : Price[d] > Fee

VARIABLES
    cash, held, dq, \* portfolios.cash, holdings.quantity, portfolios.status
    state, on,      \* orders.status, orders.match_on_date
    snap,           \* portfolio_snapshots by day, day 0 included
    pc, day, todo,  \* a match transaction: its next step, its day, its orders
    seen,           \*   the cash it has read
    row,            \*   the snapshot it is about to write
    mine,           \*   it has written the portfolio row, which it locks
    dCash, dHeld,   \*   uncommitted cash and shares, once it has
    wrote, dSnap,   \*   uncommitted writes of orders and of the day's snapshot
    dPaid, dMoved,  \*   history: what its executions add to paid and moved
    paid, moved,    \* history: cash and shares that all executions brought
    committed,      \* history: days that have been matched
    offRecord,      \* history: orders executed though no longer pending
    latest,         \* history: the day of the latest match
    overlapped,     \* history: two matches have been open at once
    frozen,         \* history: the portfolio when the agent was disqualified
    begun, aborts

tableVars  == <<cash, held, dq, state, on, snap>>
draftVars  == <<mine, dCash, dHeld, wrote, dSnap, dPaid, dMoved>>
localVars  == <<day, todo, seen, row>>
recordVars == <<paid, moved, committed, offRecord, latest, overlapped, frozen, begun, aborts>>
ledgerVars == <<tableVars, pc, localVars, draftVars, recordVars>>

Snapshots == [cash : Int, held : Int, total : Int]
NoSnap == [cash |-> 0, held |-> 0, total |-> 0]
NotFrozen == [cash |-> 0, held |-> 0, day |-> -1]

LedgerInit ==
    /\ cash = Capital /\ held = 0 /\ dq = FALSE
    /\ state = [o \in Orders |-> "pending"] /\ on \in [Orders -> Days]
    /\ snap = [d \in 0..N |-> IF d = 0 THEN [cash |-> Capital, held |-> 0, total |-> Capital]
                                       ELSE NoSnap]
    /\ pc = [t \in Txs |-> "idle"] /\ day = [t \in Txs |-> 0]
    /\ todo = [t \in Txs |-> {}] /\ seen = [t \in Txs |-> 0]
    /\ row = [t \in Txs |-> NoSnap]
    /\ mine = [t \in Txs |-> FALSE] /\ dCash = [t \in Txs |-> 0] /\ dHeld = [t \in Txs |-> 0]
    /\ wrote = [t \in Txs |-> [o \in Orders |-> "none"]] /\ dSnap = [t \in Txs |-> NoSnap]
    /\ dPaid = [t \in Txs |-> 0] /\ dMoved = [t \in Txs |-> 0]
    /\ paid = 0 /\ moved = 0 /\ committed = {} /\ offRecord = {} /\ latest = 0
    /\ overlapped = FALSE /\ frozen = NotFrozen /\ begun = 0 /\ aborts = 0

-----------------------------------------------------------------------------
(* What a statement of transaction t sees, and what it waits for *)

\* Mutant: the pool's connection, not the transaction's.
PoolCash(t) == cash

CashSeen(t) == IF mine[t] THEN dCash[t] ELSE cash
HeldSeen(t) == IF mine[t] THEN dHeld[t] ELSE held

PortfolioFree(t) == \A u \in Txs \ {t} : ~mine[u]
OrderFree(t, o)  == \A u \in Txs \ {t} : wrote[u][o] \in {"none", "ghost"}
SnapFree(t)      == \A u \in Txs \ {t} : day[u] = day[t] => dSnap[u] = NoSnap

\* TotalDebit and TotalCredit of an order on the day of t.
Debit(t, o)  == Qty[o] * Price[day[t]] + Fee
Credit(t, o) == Qty[o] * Price[day[t]] - Fee

Goto(t, label) == pc' = [pc EXCEPT ![t] = label]

\* The transaction takes its orders by created_at (ListPendingForDate).
Working(t, o, label) == pc[t] = label /\ o \in todo[t] /\ \A p \in todo[t] : o <= p

-----------------------------------------------------------------------------
(* The match transaction *)

\* Mutant: the match of a day lists its orders whatever their status.
BeginAnyStatus(t, d) ==
    /\ pc[t] = "idle" /\ 1..(d - 1) \subseteq committed
    /\ begun < MaxMatches /\ begun' = begun + 1
    /\ day' = [day EXCEPT ![t] = d]
    /\ todo' = [todo EXCEPT ![t] = {o \in Orders : on[o] = d}]
    /\ overlapped' = (overlapped \/ \E u \in Txs : pc[u] # "idle")
    /\ Goto(t, "order")
    /\ UNCHANGED <<tableVars, draftVars, seen, row, paid, moved, committed, offRecord, latest, frozen,
                   aborts>>

Begin(t, d) ==
    /\ pc[t] = "idle" /\ 1..(d - 1) \subseteq committed
    /\ begun < MaxMatches /\ begun' = begun + 1
    /\ day' = [day EXCEPT ![t] = d]
    /\ todo' = [todo EXCEPT ![t] = {o \in Orders : state[o] = "pending" /\ on[o] = d}]
    /\ overlapped' = (overlapped \/ \E u \in Txs : pc[u] # "idle")
    /\ Goto(t, "order")
    /\ UNCHANGED <<tableVars, draftVars, seen, row, paid, moved, committed, offRecord, latest, frozen,
                   aborts>>

\* tryFillOrder up to its switch on the side.
Examine(t, o) ==
    /\ Working(t, o, "order")
    /\ \/ Goto(t, "reject")
       \/ ~dq /\ Goto(t, "defer")
       \/ ~dq /\ Goto(t, IF o \in Buys THEN "buycash" ELSE "sellheld")
    /\ UNCHANGED <<tableVars, draftVars, localVars, recordVars>>

\* Mutant: without the check of insufficient_cash.
BuyUnchecked(t, o) ==
    /\ Working(t, o, "buycash")
    /\ seen' = [seen EXCEPT ![t] = CashSeen(t)]
    /\ Goto(t, "setcash")
    /\ UNCHANGED <<tableVars, draftVars, day, todo, row, recordVars>>

\* Mutant: the SELECT of the cash runs outside the transaction.
BuyReadPoolCash(t, o) ==
    /\ Working(t, o, "buycash")
    /\ seen' = [seen EXCEPT ![t] = PoolCash(t)]
    /\ Goto(t, IF PoolCash(t) >= Debit(t, o) THEN "setcash" ELSE "reject")
    /\ UNCHANGED <<tableVars, draftVars, day, todo, row, recordVars>>

\* fillBuy reads the cash; the concentration limit depends on other symbols too.
BuyReadCash(t, o) ==
    /\ Working(t, o, "buycash")
    /\ seen' = [seen EXCEPT ![t] = CashSeen(t)]
    /\ \/ CashSeen(t) >= Debit(t, o) /\ Goto(t, "setcash")
       \/ Goto(t, "reject")
    /\ UNCHANGED <<tableVars, draftVars, day, todo, row, recordVars>>

\* fillSell reads the shares ...
SellReadHeld(t, o) ==
    /\ Working(t, o, "sellheld")
    /\ Goto(t, IF HeldSeen(t) < Qty[o] THEN "reject" ELSE "sellcash")
    /\ UNCHANGED <<tableVars, draftVars, localVars, recordVars>>

\* ... and then the cash.
SellReadCash(t, o) ==
    /\ Working(t, o, "sellcash")
    /\ seen' = [seen EXCEPT ![t] = CashSeen(t)]
    /\ Goto(t, "setcash")
    /\ UNCHANGED <<tableVars, draftVars, day, todo, row, recordVars>>

\* SetCashTx waits for the portfolio row, and then writes what was computed
\* from the cash read before.
SetCash(t, o) ==
    /\ Working(t, o, "setcash") /\ PortfolioFree(t)
    /\ mine' = [mine EXCEPT ![t] = TRUE]
    /\ dCash' = [dCash EXCEPT ![t] = IF o \in Buys THEN seen[t] - Debit(t, o)
                                                   ELSE seen[t] + Credit(t, o)]
    /\ dHeld' = [dHeld EXCEPT ![t] = HeldSeen(t)]
    /\ seen' = [seen EXCEPT ![t] = 0]
    /\ Goto(t, "setheld")
    /\ UNCHANGED <<tableVars, day, todo, row, wrote, dSnap, dPaid, dMoved, recordVars>>

Executed(t, bought, received) ==
    /\ dMoved' = [dMoved EXCEPT ![t] = @ + bought]
    /\ dPaid' = [dPaid EXCEPT ![t] = @ + received]

\* Mutant: a buy inserts its quantity over the shares held.
SetHeldOverwrites(t, o) ==
    /\ Working(t, o, "setheld") /\ Goto(t, "fill")
    /\ dHeld' = [dHeld EXCEPT ![t] = IF o \in Buys THEN Qty[o] ELSE @ - Qty[o]]
    /\ IF o \in Buys THEN Executed(t, Qty[o], -Debit(t, o))
                     ELSE Executed(t, -Qty[o], Credit(t, o))
    /\ UNCHANGED <<tableVars, localVars, mine, dCash, wrote, dSnap, recordVars>>

\* UpsertHoldingAfterBuy, ReduceHoldingAfterSell: they read the row again, and
\* nobody else can write it while t has the portfolio row.
SetHeld(t, o) ==
    /\ Working(t, o, "setheld")
    /\ \/ /\ o \in Buys /\ Goto(t, "fill")
          /\ dHeld' = [dHeld EXCEPT ![t] = @ + Qty[o]]
          /\ Executed(t, Qty[o], -Debit(t, o))
       \/ /\ o \notin Buys /\ dHeld[t] >= Qty[o] /\ Goto(t, "fill")
          /\ dHeld' = [dHeld EXCEPT ![t] = @ - Qty[o]]
          /\ Executed(t, -Qty[o], Credit(t, o))
       \/ /\ o \notin Buys /\ dHeld[t] < Qty[o] /\ Goto(t, "reject")
          /\ UNCHANGED <<dHeld, dPaid, dMoved>>
    /\ UNCHANGED <<tableVars, localVars, mine, dCash, wrote, dSnap, recordVars>>

Marked(t, o, outcome) ==
    /\ OrderFree(t, o)
    /\ wrote' = [wrote EXCEPT ![t][o] = outcome]
    /\ todo' = [todo EXCEPT ![t] = @ \ {o}]
    /\ Goto(t, "order")
    /\ UNCHANGED <<tableVars, day, seen, row, mine, dCash, dHeld, dSnap, dPaid, dMoved, recordVars>>

\* MarkFilled; nobody looks whether the order was still pending.
MarkFilled(t, o) ==
    Working(t, o, "fill") /\ Marked(t, o, IF state[o] = "pending" THEN "fill" ELSE "ghost")

MarkRejected(t, o) ==
    Working(t, o, "reject") /\ Marked(t, o, IF state[o] = "pending" THEN "reject" ELSE "none")

\* Mutant: the last day is not looked for.
DeferAlways(t, o) ==
    /\ Working(t, o, "defer")
    /\ Marked(t, o, IF state[o] = "pending" THEN "defer" ELSE "none")

\* UpdateMatchOnDate, or not_filled_before_end.
Defer(t, o) ==
    /\ Working(t, o, "defer")
    /\ Marked(t, o, CASE state[o] # "pending"               -> "none"
                     [] state[o] = "pending" /\ day[t] < N -> "defer"
                     [] OTHER                             -> "reject")

\* Mutant: the snapshot of a disqualified agent is taken like any other.
SnapAnyStatus(t) ==
    /\ pc[t] = "order" /\ todo[t] = {}
    /\ Goto(t, "snapcash")
    /\ UNCHANGED <<tableVars, draftVars, localVars, recordVars>>

\* The snapshot begins with the status of the agent.
SnapStatus(t) ==
    /\ pc[t] = "order" /\ todo[t] = {}
    /\ Goto(t, IF dq THEN "snaplast" ELSE "snapcash")
    /\ UNCHANGED <<tableVars, draftVars, localVars, recordVars>>

\* LastSnapshotTx: ORDER BY date DESC.
SnapLast(t) ==
    /\ pc[t] = "snaplast"
    /\ \E d \in committed \cup {0} :
          (\A e \in committed : e <= d) /\ row' = [row EXCEPT ![t] = snap[d]]
    /\ Goto(t, "snapwrite")
    /\ UNCHANGED <<tableVars, draftVars, day, todo, seen, recordVars>>

\* Mutant: the SELECT of the cash runs outside the transaction.
SnapPoolCash(t) ==
    /\ pc[t] = "snapcash"
    /\ seen' = [seen EXCEPT ![t] = PoolCash(t)]
    /\ Goto(t, "snapheld")
    /\ UNCHANGED <<tableVars, draftVars, day, todo, row, recordVars>>

SnapCash(t) ==
    /\ pc[t] = "snapcash"
    /\ seen' = [seen EXCEPT ![t] = CashSeen(t)]
    /\ Goto(t, "snapheld")
    /\ UNCHANGED <<tableVars, draftVars, day, todo, row, recordVars>>

\* LoadHoldingsTx, and the sum at closing prices.
SnapHeld(t) ==
    /\ pc[t] = "snapheld"
    /\ row' = [row EXCEPT ![t] =
                 [cash |-> seen[t], held |-> HeldSeen(t),
                  total |-> seen[t] + HeldSeen(t) * Close[day[t]]]]
    /\ seen' = [seen EXCEPT ![t] = 0]
    /\ Goto(t, "snapwrite")
    /\ UNCHANGED <<tableVars, draftVars, day, todo, recordVars>>

\* A worthless portfolio is disqualified (SetDisqualifiedTx).
Ruined(t) == row[t].total <= 0

\* UpsertSnapshotTx
SnapWrite(t) ==
    /\ pc[t] = "snapwrite" /\ SnapFree(t)
    /\ Ruined(t) => PortfolioFree(t)
    /\ dSnap' = [dSnap EXCEPT ![t] = row[t]]
    /\ Goto(t, "commit")
    /\ UNCHANGED <<tableVars, localVars, mine, dCash, dHeld, wrote, dPaid, dMoved, recordVars>>

\* The end of the transaction: its locks and locals are gone.
Ended(t) ==
    /\ Goto(t, "idle")
    /\ day' = [day EXCEPT ![t] = 0] /\ todo' = [todo EXCEPT ![t] = {}]
    /\ seen' = [seen EXCEPT ![t] = 0] /\ row' = [row EXCEPT ![t] = NoSnap]
    /\ mine' = [mine EXCEPT ![t] = FALSE]
    /\ dCash' = [dCash EXCEPT ![t] = 0] /\ dHeld' = [dHeld EXCEPT ![t] = 0]
    /\ wrote' = [wrote EXCEPT ![t] = [o \in Orders |-> "none"]]
    /\ dSnap' = [dSnap EXCEPT ![t] = NoSnap]
    /\ dPaid' = [dPaid EXCEPT ![t] = 0] /\ dMoved' = [dMoved EXCEPT ![t] = 0]

TxCommit(t) ==
    /\ pc[t] = "commit"
    /\ cash' = CashSeen(t) /\ held' = HeldSeen(t) /\ dq' = (dq \/ Ruined(t))
    /\ state' = [o \in Orders |-> CASE wrote[t][o] = "fill"   -> "filled"
                                    [] wrote[t][o] = "reject" -> "rejected"
                                    [] OTHER                  -> state[o]]
    /\ on' = [o \in Orders |-> IF wrote[t][o] = "defer" THEN day[t] + 1 ELSE on[o]]
    /\ snap' = [snap EXCEPT ![day[t]] = dSnap[t]]
    /\ paid' = paid + dPaid[t] /\ moved' = moved + dMoved[t]
    /\ committed' = committed \cup {day[t]} /\ latest' = day[t]
    /\ offRecord' = offRecord \cup {o \in Orders : wrote[t][o] = "ghost"}
    /\ Ended(t)
    /\ UNCHANGED <<overlapped, frozen, begun, aborts>>

\* A failed statement, a deadlock or a crash rolls everything back.
TxAbort(t) ==
    /\ pc[t] # "idle" /\ aborts < MaxAborts
    /\ aborts' = aborts + 1
    /\ Ended(t)
    /\ UNCHANGED <<tableVars, paid, moved, committed, offRecord, latest, overlapped, frozen, begun>>

-----------------------------------------------------------------------------
(* Other requests *)

\* SetDisqualified waits for the portfolio row.
Disqualify ==
    /\ ~dq /\ \A t \in Txs : ~mine[t]
    /\ dq' = TRUE
    /\ frozen' = IF \A t \in Txs : pc[t] = "idle"
                 THEN [cash |-> cash, held |-> held, day |-> Cardinality(committed)]
                 ELSE frozen
    /\ UNCHANGED <<cash, held, state, on, snap, pc, localVars, draftVars,
                   paid, moved, committed, offRecord, latest, overlapped, begun, aborts>>

\* CancelPending waits for the order's row.
Cancel(o) ==
    /\ state[o] = "pending" /\ \A t \in Txs : wrote[t][o] \in {"none", "ghost"}
    /\ state' = [state EXCEPT ![o] = "canceled"]
    /\ UNCHANGED <<cash, held, dq, on, snap, pc, localVars, draftVars, recordVars>>

FillSteps(t, o) ==
    \/ Examine(t, o) \/ BuyReadCash(t, o) \/ SellReadHeld(t, o) \/ SellReadCash(t, o)
    \/ SetCash(t, o) \/ SetHeld(t, o)
    \/ MarkFilled(t, o) \/ MarkRejected(t, o) \/ Defer(t, o)

SnapSteps(t) ==
    \/ SnapStatus(t) \/ SnapLast(t) \/ SnapCash(t) \/ SnapHeld(t) \/ SnapWrite(t)

LedgerNext ==
    \/ \E t \in Txs : \/ \E d \in Days : Begin(t, d)
                      \/ \E o \in Orders : FillSteps(t, o)
                      \/ SnapSteps(t) \/ TxCommit(t) \/ TxAbort(t)
    \/ Disqualify
    \/ \E o \in Orders : Cancel(o)

LedgerSpec == LedgerInit /\ [][LedgerNext]_ledgerVars

-----------------------------------------------------------------------------
Steps == {"idle", "order", "buycash", "sellheld", "sellcash", "setcash", "setheld", "fill",
          "reject", "defer", "snaplast", "snapcash", "snapheld", "snapwrite", "commit"}

Outcomes == {"none", "fill", "ghost", "reject", "defer"}

TableTypes ==
    /\ cash \in Int /\ held \in Int /\ dq \in BOOLEAN
    /\ state \in [Orders -> {"pending", "filled", "rejected", "canceled"}]
    /\ on \in [Orders -> Days] /\ snap \in [0..N -> Snapshots]

LocalTypes ==
    /\ pc \in [Txs -> Steps] /\ day \in [Txs -> 0..N]
    /\ todo \in [Txs -> SUBSET Orders] /\ seen \in [Txs -> Int]
    /\ row \in [Txs -> Snapshots]

DraftTypes ==
    /\ mine \in [Txs -> BOOLEAN] /\ dCash \in [Txs -> Int] /\ dHeld \in [Txs -> Int]
    /\ wrote \in [Txs -> [Orders -> Outcomes]] /\ dSnap \in [Txs -> Snapshots]
    /\ dPaid \in [Txs -> Int] /\ dMoved \in [Txs -> Int]

RecordTypes ==
    /\ paid \in Int /\ moved \in Int /\ committed \subseteq Days /\ latest \in 0..N
    /\ offRecord \subseteq Orders
    /\ overlapped \in BOOLEAN /\ begun \in Nat /\ aborts \in Nat
    /\ frozen \in [cash : Int, held : Int, day : Int]

\* What a transaction holds at a step.
Holds(t) ==
    /\ IF pc[t] = "idle" THEN ~mine[t] /\ \A o \in Orders : wrote[t][o] = "none"
                         ELSE day[t] \in Days
    /\ pc[t] = "setheld" => mine[t]
    /\ \A o \in Orders : wrote[t][o] = "defer" => day[t] < N

\* The type invariant of the ledger: an order has a day of the market data, an
\* open transaction has one too, and one transaction at most has the portfolio row
\* (ProcessSimulationDay).
LedgerTypeOK ==
    /\ TableTypes /\ LocalTypes /\ DraftTypes /\ RecordTypes
    /\ \A t \in Txs : Holds(t)
    /\ \A t, u \in Txs : mine[t] /\ mine[u] => t = u

\* As long as matches do not overlap, the cash is the starting capital and what
\* each execution paid or received, once each, with any number of fills in a
\* transaction, days matched again, and aborts (fillBuy, fillSell).
CashBalance == ~overlapped => cash = Capital + paid

\* The shares held are those bought less those sold, even when matches overlap:
\* the helpers read the holding after they have locked the portfolio
\* (UpsertHoldingAfterBuy, ReduceHoldingAfterSell).
SharesBalance == held = moved

\* No debt, no short position and never an empty portfolio, even when matches
\* overlap and both have read the same cash; and unless they overlap (a snapshot
\* may read the cash before, and the shares after, another match's sale) the rule
\* that disqualifies a worthless portfolio has nothing to do
\* (insufficient_cash, insufficient_holdings, SetDisqualifiedTx).
Solvent ==
    /\ cash >= 0 /\ held >= 0 /\ cash + held > 0
    /\ \A t \in Txs : pc[t] \in {"snapwrite", "commit"} => overlapped \/ ~Ruined(t)

\* Between two matches that do not overlap, the snapshot of the latest matched
\* day is the portfolio itself at closing prices: nothing moves cash or shares
\* after it was taken (ProcessSimulationDay).
SnapshotCurrent ==
    ~overlapped /\ ~dq /\ latest # 0 =>
        snap[latest] = [cash |-> cash, held |-> held, total |-> cash + held * Close[latest]]

\* An agent disqualified while no match was open keeps its cash and shares, and
\* every later day gets the snapshot it had then (AgentStatusTx, LastSnapshotTx).
QuietDisqualificationFreezes ==
    frozen # NotFrozen =>
        /\ cash = frozen.cash /\ held = frozen.held
        /\ \A d \in committed : d >= frozen.day => snap[d] = snap[frozen.day]

Settlement == INSTANCE Settlement

\* As long as matches do not overlap, a whole match is one step of Settlement, for
\* all the statements, failures, cancels and disqualifications in between: what it
\* executed, refused and moved, the balances and the snapshot all show together
\* (ProcessSimulationDay).
MatchesAreAtomic == [][overlapped' \/ Settlement!Next]_Settlement!books

\* docs/rules.md:450: "A disqualified agent's portfolio is frozen at the value
\* recorded at the time of disqualification."
FrozenWhenDisqualified == [][dq => cash' = cash /\ held' = held]_ledgerVars
=============================================================================
