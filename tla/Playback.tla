------------------------------ MODULE Playback ------------------------------
(***************************************************************************)
(* What the virtual clock promises, with no goroutine, row or failure in   *)
(* sight: the trading days of a simulation are played once each and in     *)
(* order, and the simulation closes when the last one has been played.     *)
(***************************************************************************)
EXTENDS Integers

CONSTANT N          \* trading days
VARIABLES played,   \* the days played so far
          closed    \* the simulation is completed

Init == played = {} /\ closed = FALSE

\* The least day not played yet.
Play ==
    \E d \in 1..N :
        /\ d \notin played /\ \A e \in 1..N : e < d => e \in played
        /\ played' = played \cup {d}
        /\ UNCHANGED closed

Close ==
    /\ 1..N \subseteq played
    /\ closed' = TRUE /\ UNCHANGED played

\* A late Start can reopen a completed simulation; it has no new day to play.
Reopen ==
    /\ closed /\ closed' = FALSE
    /\ UNCHANGED played

Next == Play \/ Close \/ Reopen

Spec == Init /\ [][Next]_<<played, closed>>
=============================================================================
