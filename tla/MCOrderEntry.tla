---------------------------- MODULE MCOrderEntry ----------------------------
(* Model checking of OrderEntry on small instances. *)
EXTENDS OrderEntry, TLC

\* The requests to place an order are alike.
Symmetry == Permutations(Orders)

\* A SimClock no one points to is never read again: states that differ in
\* nothing else are one state.
View ==
    <<[o \in Clocks \ (Unreachable \ {clk[p] : p \in Orders}) |-> <<cIdx[o], cStatus[o]>>],
      current, window, lastMatched, rowVars, cfgVars, pc, heldVars, histVars,
      faultVars, tableVars, placeVars, txVars>>

\* The same without the history variables, which guard no step.
TablesView ==
    <<[o \in Clocks \ (Unreachable \ {clk[p] : p \in Orders}) |-> <<cIdx[o], cStatus[o]>>],
      current, window, lastMatched, rowVars, cfgVars, pc, heldVars,
      faultVars, state, on, slots, at, clk, asOf, placeFaults, txVars>>

\* One failed call or one crash, not both.
OneFailure == faults + crashes + placeFaults <= 1
=============================================================================
