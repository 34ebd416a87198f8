--------------------------- MODULE MCHourlySlices ---------------------------
(* Model checking of HourlySlices on a simulation of two sessions. *)
EXTENDS HourlySlices

\* Two bars are the first session, two the second; the market data go on with a third.
\* The symbol has no row for bar 2.
MCSession == [b \in Bars |-> (b + 1) \div 2]
MCNoBar == {2}
MCOpen == [b \in Bars |-> 100]
MCHigh == [b \in Bars |-> 103]
MCLow == [b \in Bars |-> IF b = 4 THEN 99 ELSE 95]
MCVolume == [b \in Bars |-> 20]
MCPrevClose == [s \in Sessions |-> 100]
MCPrevVolume == [s \in Sessions |-> 300]

\* Order 1 buys at market, 2 at a limit that bar 4 does not reach, 3 sells on a stop.
MCKind == [o \in Orders |-> CASE o = 1 -> "market" [] o = 2 -> "limit" [] OTHER -> "stop"]
MCPrice == [o \in Orders |-> IF o = 3 THEN 99 ELSE 97]
MCQty == [o \in Orders |-> IF o = 2 THEN 2 ELSE 3]
=============================================================================
