----------------------------- MODULE MCSimClock -----------------------------
(* Model checking of SimClock on small instances. *)
EXTENDS SimClock, TLC

\* HTTP goroutines are alike.
Symmetry == Permutations(Requests)

\* A SimClock no one points to is never read again: states that differ in
\* nothing else are one state.
View ==
    <<[o \in Clocks \ Unreachable |-> <<cIdx[o], cStatus[o]>>], current,
      window, lastMatched, rowVars, cfgVars, pc, heldVars, histVars, faultVars>>
=============================================================================
