--------------------------- MODULE MCMatchLedger ---------------------------
(* Model checking of MatchLedger and TradeStats on small instances. *)
EXTENDS TradeStats

\* The two transactions are alike.
TxSymmetry == Permutations(Txs)

\* Orders 1 and 3 buy a share each, 2 sells two: it closes against both.
MCQty == [o \in Orders |-> IF o = 2 THEN 2 ELSE 1]
\* The price rises, and closes below where it opened.
MCPrice == [d \in Days |-> 4 + d]
MCClose == [d \in Days |-> 3 + d]
=============================================================================
