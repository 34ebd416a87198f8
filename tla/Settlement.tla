----------------------------- MODULE Settlement -----------------------------
(***************************************************************************)
(* What the matching of a day promises for one agent, with no transaction, *)
(* statement or lock in sight: a day is settled in one step.  Some of the  *)
(* orders of the day are executed, by created_at and each within what the  *)
(* ones before it leave, others move to the next day, the rest are refused,*)
(* and the snapshot of the day shows the portfolio that results.           *)
(***************************************************************************)
EXTENDS Integers, Functions

CONSTANTS N, Orders, Buys, Qty, Price, Close, Fee, Capital

VARIABLES cash, held, dq, state, on, snap,
          committed,   \* the days settled
          offRecord    \* the canceled orders that were executed

books == <<cash, held, dq, state, on, snap, committed, offRecord>>

NoSnap == [cash |-> 0, held |-> 0, total |-> 0]

Init ==
    /\ cash = Capital /\ held = 0 /\ dq = FALSE
    /\ state = [o \in Orders |-> "pending"] /\ on \in [Orders -> 1..N]
    /\ snap = [d \in 0..N |-> IF d = 0 THEN [cash |-> Capital, held |-> 0, total |-> Capital]
                                       ELSE NoSnap]
    /\ committed = {} /\ offRecord = {}

\* What an order brings to the cash, on day d, and to the shares.
Flow(d) == [o \in Orders |-> IF o \in Buys THEN -(Qty[o] * Price[d] + Fee)
                                           ELSE Qty[o] * Price[d] - Fee]
Shares  == [o \in Orders |-> IF o \in Buys THEN Qty[o] ELSE -Qty[o]]

Balance(start, f, S) == start + SumFunctionOnSet(f, S)

\* No execution leaves a debt or a short position, not even until the next one.
Covered(d, done) ==
    \A o \in done : LET first == {p \in done : p <= o} IN
        Balance(cash, Flow(d), first) >= 0 /\ Balance(held, Shares, first) >= 0

Due(d) == {o \in Orders : state[o] = "pending" /\ on[o] = d}

\* Orders canceled while the day is matched may still be executed.
Settle(d, done, moved) ==
    /\ 1..(d - 1) \subseteq committed /\ committed' = committed \cup {d}
    /\ \A o \in done : state[o] \in {"pending", "canceled"} /\ on[o] = d
    /\ moved \subseteq Due(d) \ done /\ (moved # {} => d < N)
    /\ Covered(d, done)
    /\ cash' = Balance(cash, Flow(d), done) /\ held' = Balance(held, Shares, done)
    /\ state' = [o \in Orders |-> CASE o \in Due(d) \cap done            -> "filled"
                                    [] o \in Due(d) \ (done \cup moved) -> "rejected"
                                    [] OTHER                            -> state[o]]
    /\ on' = [o \in Orders |-> IF o \in moved THEN d + 1 ELSE on[o]]
    /\ offRecord' = offRecord \cup (done \ Due(d))
    /\ \/ snap' = [snap EXCEPT ![d] = [cash |-> cash', held |-> held',
                                       total |-> cash' + held' * Close[d]]]
       \/ dq /\ \E e \in committed \cup {0} :
                   (\A c \in committed : c <= e) /\ snap' = [snap EXCEPT ![d] = snap[e]]
    /\ UNCHANGED dq

Disqualify == dq' = TRUE /\ UNCHANGED <<cash, held, state, on, snap, committed, offRecord>>

Cancel(o) ==
    /\ state[o] = "pending" /\ state' = [state EXCEPT ![o] = "canceled"]
    /\ UNCHANGED <<cash, held, dq, on, snap, committed, offRecord>>

Next ==
    \/ \E d \in 1..N, done \in SUBSET Orders, moved \in SUBSET Orders : Settle(d, done, moved)
    \/ Disqualify
    \/ \E o \in Orders : Cancel(o)

Spec == Init /\ [][Next]_books
=============================================================================
