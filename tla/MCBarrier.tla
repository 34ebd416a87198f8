----------------------------- MODULE MCBarrier -----------------------------
(* Model checking of Barrier with sessions of two bars. *)
EXTENDS Barrier

MCSession == [b \in Bars |-> (b + 1) \div 2]
=============================================================================
