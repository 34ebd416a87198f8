------------------------------ MODULE MCTurns ------------------------------
(* Turns for TLC: a decides on every day, b on every other one. *)
EXTENDS Turns

CONSTANTS a, b

MCCadence == [x \in Agents |-> IF x = b THEN 2 ELSE 1]

\* Two of a failure, a stop of the clock and a loss of the orchestrator, not all three.
TwoTroubles == faults + pauses + reloads + drops + crashes <= 2
=============================================================================
