----------------------------- MODULE TradeStats -----------------------------
(***************************************************************************)
(* What the leaderboard says of an agent, computed from the tables at any   *)
(* moment: the trades it has closed, by matching the sold shares first in   *)
(* first out against the bought ones, and the worst fall of its portfolio   *)
(* from a peak.  The tables are those of MatchLedger.                       *)
(***************************************************************************)
EXTENDS MatchLedger, SequencesExt

\* ORDER BY: the members of S one after another.
Ordered(S, before(_, _)) ==
    CHOOSE s \in [1..Cardinality(S) -> S] :
        \A i, j \in DOMAIN s : i < j => before(s[i], s[j])

-----------------------------------------------------------------------------
(* The closed trades (AnalyzeClosedTrades) *)

\* ORDER BY filled_at, created_at
Earlier(o, p) == on[o] < on[p] \/ (on[o] = on[p] /\ o < p)

FilledOrders == {o \in Orders : state[o] = "filled"}

\* loadTradeStats: the filled orders; one is filled on the day it is matched.
Fills == Ordered(FilledOrders, Earlier)

Lot(o) == [of |-> o, qty |-> Qty[o]]

Profitable(b, s) == Price[on[s]] > Price[on[b]]

\* Mutant: a sale closes against its first lot only.
TakeFirst(sale, lot) ==
    IF sale.remain < Qty[sale.of]
    THEN [sale EXCEPT !.lots = Append(@, lot)]
    ELSE LET m == Min({sale.remain, lot.qty}) IN
         [sale EXCEPT !.remain     = @ - m,
                      !.lots       = IF lot.qty = m THEN @
                                     ELSE Append(@, [lot EXCEPT !.qty = @ - m]),
                      !.closed     = @ + 1,
                      !.profitable = @ + (IF Profitable(lot.of, sale.of) THEN 1 ELSE 0),
                      !.holdSum    = @ + (on[sale.of] - on[lot.of])]

\* One lot of the queue: it gives what it has and the sale still wants.
TakeLot(sale, lot) ==
    IF sale.remain = 0
    THEN [sale EXCEPT !.lots = Append(@, lot)]
    ELSE LET m == Min({sale.remain, lot.qty}) IN
         [sale EXCEPT !.remain     = @ - m,
                      !.lots       = IF lot.qty = m THEN @
                                     ELSE Append(@, [lot EXCEPT !.qty = @ - m]),
                      !.closed     = @ + 1,
                      !.profitable = @ + (IF Profitable(lot.of, sale.of) THEN 1 ELSE 0),
                      !.holdSum    = @ + (on[sale.of] - on[lot.of])]

NoTrades == [lots |-> <<>>, closed |-> 0, profitable |-> 0, holdSum |-> 0]

\* A sale before it looks at the lots.
Sale(stats, o) ==
    [of |-> o, remain |-> Qty[o], lots |-> <<>>, closed |-> stats.closed,
     profitable |-> stats.profitable, holdSum |-> stats.holdSum]

\* One fill: a buy is a new lot, a sale closes the oldest; what the lots do not
\* have is left out.
CountFill(stats, o) ==
    IF o \in Buys THEN [stats EXCEPT !.lots = Append(@, Lot(o))]
    ELSE LET sale == FoldLeft(TakeLot, Sale(stats, o), stats.lots)
         IN  [lots |-> sale.lots, closed |-> sale.closed,
              profitable |-> sale.profitable, holdSum |-> sale.holdSum]

AnalyzeClosedTrades == FoldLeft(CountFill, NoTrades, Fills)

-----------------------------------------------------------------------------
(* The worst fall (MaxDrawdown) *)

\* The totals of the snapshots ORDER BY date.
Equity ==
    LET dates == Ordered(committed \cup {0}, <)
    IN  [i \in DOMAIN dates |-> snap[dates[i]].total]

\* Mutant: the peak is the last value.
PeakIsLast(peak, v) == v

NewPeak(peak, v) == IF v > peak THEN v ELSE peak

\* A fraction is kept as its numerator and denominator.
Deeper(dd, best) == dd.fall * best.of > best.fall * dd.of

FallTo(acc, v) ==
    LET peak == NewPeak(acc.peak, v)
        dd   == [fall |-> peak - v, of |-> peak]
    IN  [peak |-> peak, max |-> IF Deeper(dd, acc.max) THEN dd ELSE acc.max]

MaxDrawdown(values) ==
    FoldLeft(FallTo, [peak |-> values[1], max |-> [fall |-> 0, of |-> 1]], values).max

-----------------------------------------------------------------------------
(* Properties *)

\* The shares before and up to a fill among those of its side.
Upto(o) ==
    SumFunctionOnSet(Qty, {p \in FilledOrders :
                              (p \in Buys) = (o \in Buys) /\ (p = o \/ Earlier(p, o))})

\* Reference: number the bought shares and the sold ones in the order of their
\* fills; a buy and a sale make a closed trade when some number is in both.
ClosedPairs ==
    {p \in (FilledOrders \cap Buys) \X (FilledOrders \ Buys) :
        /\ Upto(p[1]) - Qty[p[1]] < Upto(p[2])
        /\ Upto(p[2]) - Qty[p[2]] < Upto(p[1])}

HeldDays == [p \in Orders \X Orders |-> on[p[2]] - on[p[1]]]

AddLot(n, lot) == n + lot.qty

\* As long as matches do not overlap and no canceled order has traded, the
\* closed trades are the first-in first-out pairs of all shares sold, with their
\* gains and holding days, and the lots that are left are the shares held: the
\* order in which the engine filled them is the order in which the leaderboard
\* reads them (loadTradeStats, AnalyzeClosedTrades).
TradesAreFifo ==
    ~overlapped /\ offRecord = {} =>
        LET stats == AnalyzeClosedTrades IN
        /\ FoldLeft(AddLot, 0, stats.lots) = held
        /\ stats.closed = Cardinality(ClosedPairs)
        /\ stats.profitable = Cardinality({p \in ClosedPairs : Profitable(p[1], p[2])})
        /\ stats.holdSum = SumFunctionOnSet(HeldDays, ClosedPairs)

\* The drawdown is the worst fall between any two snapshots, whichever days have
\* been matched, overlapping or again (MaxDrawdown, Build).
DrawdownIsWorst ==
    LET values == Equity
        worst  == MaxDrawdown(values)
        Fall(i, j) == [fall |-> values[i] - values[j], of |-> values[i]]
    IN  /\ \A i, j \in DOMAIN values : i <= j => ~Deeper(Fall(i, j), worst)
        /\ \E i, j \in DOMAIN values : i <= j /\ ~Deeper(worst, Fall(i, j))
=============================================================================
