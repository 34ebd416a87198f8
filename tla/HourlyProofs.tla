---------------------------- MODULE HourlyProofs ----------------------------
(***************************************************************************)
(* Proofs about HourlySlices, for every market, every number of bars and   *)
(* sessions, every participation rate and every set of orders: the type    *)
(* invariant; that rows add up to what was traded, within the cap of each  *)
(* bar and the day of each order; that an order waits for a bar still to be *)
(* matched; that snapshots are of the session's close;                      *)
(* and that a sale pays delivery STT for what was held before its session. *)
(***************************************************************************)
EXTENDS HourlySlices, NumberLemmas

-----------------------------------------------------------------------------
(* Types *)

\* A match that does not end the session has a next bar in it.
BeforeTheEnd == phase = "orders" /\ ~last => ~LastOfSession(clock)

TypeInv == HourlyTypeOK /\ BeforeTheEnd

LEMMA Calendar ==
  ASSUME NEW b \in Bars
  PROVE  /\ b \in 1..B /\ b \in Nat /\ Session[b] \in Sessions /\ Session[b] \in Nat \ {0}
         /\ ~LastOfSession(b) => b + 1 \in Bars /\ Session[b + 1] = Session[b]
  <1>1. b \in 1..B /\ B \in Nat \ {0}
    BY HourlyAssumption DEF Bars
  <1>2. Session[b] \in Sessions /\ Session[b] \in Nat \ {0}
    BY HourlyAssumption DEF Sessions
  <1> QED BY <1>1, <1>2 DEF LastOfSession, Bars

\* Where the clock is.
LEMMA ClockIs ==
  ASSUME TypeInv
  PROVE  /\ clock \in Bars /\ clock \in Nat /\ matched \in Int /\ End \in Bars
         /\ matched = clock - 1 \/ matched = clock
         /\ phase \in {"orders", "record"} => matched = clock - 1
  <1>1. clock \in 1..End /\ End \in 1..B /\ B \in Nat
    BY HourlyAssumption DEF TypeInv, HourlyTypeOK, Bars
  <1>2. clock \in Nat /\ clock \in 1..B
    BY <1>1
  <1> QED BY <1>1, <1>2 DEF TypeInv, HourlyTypeOK, Bars

LEMMA FiniteSets ==
  /\ IsFiniteSet(Bars) /\ IsFiniteSet(Buys) /\ IsFiniteSet(Orders \ Buys)
  /\ Buys \subseteq Orders /\ IsFiniteSet(Orders)
  <1>1. IsFiniteSet(1..B)
    BY FS_Interval, HourlyAssumption
  <1> QED BY <1>1, FS_Subset, FS_Difference, HourlyAssumption DEF Bars

\* A slice is at most what is left, and at most the share of the volume.
LEMMA Caps ==
  ASSUME NEW left \in Nat, NEW b \in Bars
  PROVE  /\ ParticipationCap(left, b) \in Nat /\ ParticipationCap(left, b) <= left
         /\ \A q \in Nat : left <= q => ParticipationCap(left, b) <= ParticipationCap(q, b)
  <1> DEFINE k == (Rate * Volume[b]) \div 100
  <1>1. k \in Nat
    <2>1. Rate \in Nat /\ Volume[b] \in Nat
      BY HourlyAssumption
    <2>2. Rate * Volume[b] \in Nat
      BY <2>1
    <2> QED BY <2>2
  <1>2. \A q \in Nat : ParticipationCap(q, b) = IF q <= k THEN q ELSE k
    <2> SUFFICES ASSUME NEW q \in Nat PROVE ParticipationCap(q, b) = IF q <= k THEN q ELSE k
      OBVIOUS
    <2>1. q \in Int /\ k \in Int
      BY <1>1
    <2>2. ParticipationCap(q, b) = Min({q, k})
      BY DEF ParticipationCap
    <2> HIDE DEF k
    <2> QED BY <2>1, <2>2, MinOfTwo
  <1> HIDE DEF k
  <1> QED BY <1>1, <1>2

LEMMA Slices ==
  ASSUME TypeInv, phase = "orders", NEW o \in Orders
  PROVE  /\ Slice(o, clock) \in Nat /\ Slice(o, clock) <= view.row[o].left
         /\ view.row[o].left <= Qty[o] =>
               Slice(o, clock) <= ParticipationCap(Qty[o], clock)
  <1>1. clock \in Bars /\ view.row[o].left \in Nat /\ Qty[o] \in Nat
    BY ClockIs, HourlyAssumption DEF TypeInv, HourlyTypeOK, Tables, Rows
  <1>2. ParticipationCap(Qty[o], clock) \in Nat
    BY <1>1, Caps
  <1> QED BY <1>1, <1>2, Caps DEF Slice

\* The rows a match may write.
LEMMA RowTypes ==
  ASSUME TypeInv, phase = "orders", NEW o \in Orders
  PROVE  /\ \A status \in Statuses : Marked(o, status) \in Rows
         /\ ~last => MovedOn(o, clock) \in Rows
         /\ \A q \in Nat, left \in Nat :
               (left = 0 \/ ~last) => SliceFill(o, clock, q, left) \in Rows
         /\ WholeFill(o, clock) \in Rows
  <1> DEFINE r == view.row[o]
  <1>1. r \in Rows /\ clock \in Bars /\ Qty[o] \in Nat
    BY ClockIs, HourlyAssumption DEF TypeInv, HourlyTypeOK, Tables
  <1>2. ASSUME ~last PROVE clock + 1 \in 0..B
    <2>1. ~LastOfSession(clock)
      BY <1>2 DEF TypeInv, BeforeTheEnd
    <2> QED BY <1>1, <2>1, Calendar DEF Bars
  <1>3. Session[clock] \in Sessions
    BY <1>1, Calendar
  <1> HIDE DEF r
  <1>4. \A status \in Statuses : Marked(o, status) \in Rows
    BY <1>1 DEF Marked, Rows, r
  <1>5. ~last => MovedOn(o, clock) \in Rows
    BY <1>1, <1>2, <1>3 DEF MovedOn, Rows, r
  <1>6. ASSUME NEW q \in Nat, NEW left \in Nat, left = 0 \/ ~last
        PROVE  SliceFill(o, clock, q, left) \in Rows
    <2>1. /\ r.filled + q \in Nat /\ (IF left = 0 THEN r.on ELSE clock + 1) \in 0..B
          /\ (IF left = 0 THEN "filled" ELSE "pending") \in Statuses
      BY <1>1, <1>2, <1>6 DEF Rows, Statuses
    <2> QED BY <1>1, <1>3, <2>1 DEF SliceFill, Rows, r
  <1>7. WholeFill(o, clock) \in Rows
    BY <1>1, <1>3 DEF WholeFill, Rows, Statuses, r
  <1> QED BY <1>4, <1>5, <1>6, <1>7

LEMMA FilledRowType ==
  ASSUME TypeInv, phase = "orders", NEW o \in Orders, NEW q \in Nat, q <= view.row[o].left
  PROVE  FilledRow(o, clock, q) \in Rows
  <1> DEFINE left == IF last THEN 0 ELSE view.row[o].left - q
  <1>1. view.row[o].left \in Nat
    BY DEF TypeInv, HourlyTypeOK, Tables, Rows
  <1>2. left \in Nat /\ (left = 0 \/ ~last)
    BY <1>1
  <1>3. SliceFill(o, clock, q, left) \in Rows
    <2> HIDE DEF left
    <2> QED BY <1>2, RowTypes
  <1>4. WholeFill(o, clock) \in Rows
    BY RowTypes
  <1> QED BY <1>3, <1>4 DEF FilledRow

LEMMA UpdateType ==
  ASSUME TypeInv, NEW o \in Orders, NEW r \in Rows
  PROVE  Update(o, r) \in [Orders -> Rows]
  <1>1. view.row \in [Orders -> Rows]
    BY DEF TypeInv, HourlyTypeOK, Tables
  <1> QED BY <1>1 DEF Update

LEMMA DeliveryType ==
  ASSUME TypeInv, phase = "orders", NEW q \in Nat
  PROVE  /\ BoughtToday(clock) \in Int
         /\ DeliveryPart(clock, q) \in Nat
         /\ LET r == view.held - BoughtToday(clock) IN
            DeliveryPart(clock, q) = IF 0 >= r THEN 0 ELSE IF q <= r THEN q ELSE r
  <1> DEFINE f == [o \in Orders |-> view.row[o].filled]
             today == {o \in Buys : view.row[o].filled > 0
                                    /\ view.row[o].filledAt = Session[clock]}
             r == view.held - BoughtToday(clock)
  <1>1. IsFiniteSet(today) /\ \A o \in today : f[o] \in Int
    <2>1. \A o \in Orders : f[o] \in Int
      BY DEF TypeInv, HourlyTypeOK, Tables, Rows
    <2>2. today \in SUBSET Buys /\ today \subseteq Orders
      BY FiniteSets
    <2> QED BY <2>1, <2>2, FiniteSets, FS_Subset
  <1>2. BoughtToday(clock) = SumFunctionOnSet(f, today)
    BY DEF BoughtToday
  <1>3. BoughtToday(clock) \in Int
    <2> HIDE DEF f, today
    <2> QED BY <1>1, <1>2, SumType
  <1>4. r \in Int
    BY <1>3 DEF TypeInv, HourlyTypeOK, Tables
  <1>5. DeliveryPart(clock, q) = Min({q, Max({0, r})})
    BY DEF DeliveryPart
  <1> HIDE DEF r
  <1>6. Max({0, r}) = IF 0 >= r THEN 0 ELSE r
    BY <1>4, MaxOfTwo
  <1>7. DeliveryPart(clock, q) = IF 0 >= r THEN 0 ELSE IF q <= r THEN q ELSE r
    <2> DEFINE m == Max({0, r})
    <2>1. m \in Int /\ q \in Int
      BY <1>4, <1>6
    <2>2. DeliveryPart(clock, q) = Min({q, m})
      BY <1>5
    <2>3. m = IF 0 >= r THEN 0 ELSE r
      BY <1>6
    <2> HIDE DEF m
    <2>4. Min({q, m}) = IF q <= m THEN q ELSE m
      BY <2>1, MinOfTwo
    <2> QED BY <1>4, <2>2, <2>3, <2>4
  <1>8. DeliveryPart(clock, q) \in Nat
    BY <1>4, <1>7
  <1> QED BY <1>3, <1>7, <1>8 DEF r

\* What the steps of a match make of the tables it sees.
LEMMA TookTypes ==
  ASSUME TypeInv, NEW o \in Orders, phase = "orders", NEW t \in Tables, Took(o, t), faults' \in Nat
  PROVE  TypeInv'
  BY DEF TypeInv, HourlyTypeOK, BeforeTheEnd, Took, LastOfSession

LEMMA RowWritten ==
  ASSUME TypeInv, NEW o \in Orders, NEW r \in Rows, NEW t, t = [view EXCEPT !.row = Update(o, r)]
  PROVE  /\ t \in Tables /\ t.row = Update(o, r) /\ t.held = view.held
         /\ t.traded = view.traded /\ t.snap = view.snap /\ t.delivery = view.delivery
  <1>1. Update(o, r) \in [Orders -> Rows] /\ view \in Tables
    BY UpdateType DEF TypeInv, HourlyTypeOK
  <1> QED BY <1>1 DEF Tables

\* The trades of an order after one more at bar b.
Plus(tr, b, q) == [tr EXCEPT ![b] = @ + q]

LEMMA TradeType ==
  ASSUME NEW t \in Tables, NEW o \in Orders, NEW b \in Bars, NEW q \in Nat
  PROVE  [t.traded EXCEPT ![o] = Plus(t.traded[o], b, q)] \in [Orders -> [Bars -> Nat]]
  <1>1. t.traded \in [Orders -> [Bars -> Nat]]
    BY DEF Tables
  <1>2. Plus(t.traded[o], b, q) \in [Bars -> Nat]
    BY <1>1 DEF Plus
  <1> QED BY <1>1, <1>2

LEMMA BuyWritten ==
  ASSUME TypeInv, phase = "orders", NEW o \in Orders, BuySlice(o)
  PROVE  LET q == Slice(o, clock) IN
         /\ view' \in Tables /\ q \in Nat \ {0} /\ Took(o, view') /\ Working(o)
         /\ view'.row = Update(o, FilledRow(o, clock, q)) /\ view'.held = view.held + q
         /\ view'.traded = [view.traded EXCEPT ![o] = Plus(view.traded[o], clock, q)]
         /\ view'.snap = view.snap /\ view'.delivery = view.delivery
  <1> DEFINE q == Slice(o, clock)
             t == [view EXCEPT !.row = Update(o, FilledRow(o, clock, q)), !.held = @ + q,
                               !.traded[o][clock] = @ + q]
  <1>1. q \in Nat \ {0} /\ q <= view.row[o].left /\ clock \in Bars
    BY Slices, ClockIs DEF BuySlice, TypeInv, HourlyTypeOK
  <1>2. Took(o, t) /\ view' = t /\ Working(o)
    BY DEF BuySlice, Took
  <1> HIDE DEF q
  <1>3. Update(o, FilledRow(o, clock, q)) \in [Orders -> Rows]
    BY <1>1, FilledRowType, UpdateType
  <1>4. view \in Tables /\ view.held + q \in Nat
    BY <1>1 DEF TypeInv, HourlyTypeOK, Tables
  <1>5. [view.traded EXCEPT ![o] = Plus(view.traded[o], clock, q)] \in [Orders -> [Bars -> Nat]]
    BY <1>1, <1>4, TradeType
  <1>6. /\ t.row = Update(o, FilledRow(o, clock, q)) /\ t.held = view.held + q
        /\ t.traded = [view.traded EXCEPT ![o] = Plus(view.traded[o], clock, q)]
        /\ t.snap = view.snap /\ t.delivery = view.delivery
    BY <1>4 DEF Tables, Plus
  <1>7. t \in Tables
    BY <1>3, <1>4, <1>5 DEF Tables, Plus
  <1> QED BY <1>1, <1>2, <1>6, <1>7 DEF q

LEMMA SellWritten ==
  ASSUME TypeInv, phase = "orders", NEW o \in Orders, SellSlice(o)
  PROVE  LET q == Slice(o, clock) IN
         /\ view' \in Tables /\ q \in Nat \ {0} /\ Took(o, view') /\ Working(o) /\ view.held >= q
         /\ view'.row = Update(o, FilledRow(o, clock, q)) /\ view'.held = view.held - q
         /\ view'.traded = [view.traded EXCEPT ![o] = Plus(view.traded[o], clock, q)]
         /\ view'.snap = view.snap
         /\ view'.delivery = [view.delivery EXCEPT ![Session[clock]] = @ + DeliveryPart(clock, q)]
  <1> DEFINE q == Slice(o, clock)
             t == [view EXCEPT !.row = Update(o, FilledRow(o, clock, q)), !.held = @ - q,
                               !.traded[o][clock] = @ + q,
                               !.delivery[Session[clock]] = @ + DeliveryPart(clock, q)]
  <1>1. /\ q \in Nat \ {0} /\ q <= view.row[o].left /\ clock \in Bars /\ view.held >= q
        /\ Session[clock] \in Sessions
    BY Slices, ClockIs, Calendar DEF SellSlice
  <1>2. Took(o, t) /\ view' = t /\ Working(o)
    BY DEF SellSlice, Took
  <1> HIDE DEF q
  <1>3. Update(o, FilledRow(o, clock, q)) \in [Orders -> Rows]
    BY <1>1, FilledRowType, UpdateType
  <1>4. view \in Tables /\ view.held - q \in Nat /\ DeliveryPart(clock, q) \in Nat
    <2>1. view \in Tables /\ view.held \in Nat
      BY DEF TypeInv, HourlyTypeOK, Tables
    <2> QED BY <1>1, <2>1, DeliveryType
  <1>5. [view.traded EXCEPT ![o] = Plus(view.traded[o], clock, q)] \in [Orders -> [Bars -> Nat]]
    BY <1>1, <1>4, TradeType
  <1>6. [view.delivery EXCEPT ![Session[clock]] = @ + DeliveryPart(clock, q)] \in [Sessions -> Nat]
    <2>1. view.delivery \in [Sessions -> Nat]
      BY <1>4 DEF Tables
    <2> QED BY <1>1, <1>4, <2>1
  <1>7. /\ t.row = Update(o, FilledRow(o, clock, q)) /\ t.held = view.held - q
        /\ t.traded = [view.traded EXCEPT ![o] = Plus(view.traded[o], clock, q)]
        /\ t.snap = view.snap
        /\ t.delivery = [view.delivery EXCEPT ![Session[clock]] = @ + DeliveryPart(clock, q)]
    BY <1>4 DEF Tables, Plus
  <1>8. t \in Tables
    BY <1>3, <1>4, <1>5, <1>6 DEF Tables, Plus
  <1> QED BY <1>1, <1>2, <1>7, <1>8 DEF q

\* A rejection and a deferral write the order's row only.
LEMMA RowStep ==
  ASSUME TypeInv, phase = "orders", NEW o \in Orders, Reject(o) \/ Defer(o)
  PROVE  \E r \in Rows :
            /\ view' \in Tables /\ Took(o, view') /\ Working(o) /\ view'.row = Update(o, r)
            /\ view'.held = view.held /\ view'.traded = view.traded /\ view'.snap = view.snap
            /\ view'.delivery = view.delivery
            /\ \/ r = Marked(o, "rejected")
               \/ ~last /\ r = MovedOn(o, clock)
               \/ view.row[o].filled > 0 /\ r = SliceFill(o, clock, 0, 0)
  <1>1. Marked(o, "rejected") \in Rows /\ SliceFill(o, clock, 0, 0) \in Rows
    BY RowTypes DEF Statuses
  <1>2. PICK r \in Rows :
            /\ Took(o, [view EXCEPT !.row = Update(o, r)]) /\ Working(o)
            /\ \/ r = Marked(o, "rejected")
               \/ ~last /\ r = MovedOn(o, clock)
               \/ view.row[o].filled > 0 /\ r = SliceFill(o, clock, 0, 0)
    <2>1. CASE Reject(o)
      BY <1>1, <2>1 DEF Reject
    <2>2. CASE Defer(o)
      <3>1. CASE ~last
        <4>1. Took(o, [view EXCEPT !.row = Update(o, MovedOn(o, clock))]) /\ Working(o)
          BY <2>2, <3>1 DEF Defer
        <4> QED BY <3>1, <4>1, RowTypes
      <3>2. CASE last /\ view.row[o].filled > 0
        <4>1. Took(o, [view EXCEPT !.row = Update(o, SliceFill(o, clock, 0, 0))]) /\ Working(o)
          BY <2>2, <3>2 DEF Defer
        <4> QED BY <1>1, <3>2, <4>1
      <3>3. CASE last /\ ~(view.row[o].filled > 0)
        <4>1. Took(o, [view EXCEPT !.row = Update(o, Marked(o, "rejected"))]) /\ Working(o)
          BY <2>2, <3>3 DEF Defer
        <4> QED BY <1>1, <4>1
      <3> QED BY <3>1, <3>2, <3>3 DEF TypeInv, HourlyTypeOK
    <2> QED BY <2>1, <2>2
  <1>3. view' = [view EXCEPT !.row = Update(o, r)]
    BY <1>2 DEF Took
  <1>4. /\ view' \in Tables /\ view'.row = Update(o, r) /\ view'.held = view.held
        /\ view'.traded = view.traded /\ view'.snap = view.snap /\ view'.delivery = view.delivery
    BY <1>3, RowWritten
  <1> QED BY <1>2, <1>3, <1>4

LEMMA TryFillTypes == ASSUME TypeInv, NEW o \in Orders, TryFill(o) PROVE TypeInv'
  <1>1. phase = "orders" /\ faults' \in Nat
    BY DEF TryFill, Reject, Defer, BuySlice, SellSlice, Working, TypeInv, HourlyTypeOK
  <1>2. view' \in Tables /\ Took(o, view')
    BY <1>1, RowStep, BuyWritten, SellWritten DEF TryFill
  <1> QED BY <1>1, <1>2, TookTypes

\* The snapshots at the end of a match.
LEMMA LastSnapshotType == ASSUME TypeInv PROVE LastSnapshot \in Nat
  <1> DEFINE taken == {s \in Sessions : view.snap[s] # -1}
  <1> SUFFICES ASSUME taken # {} PROVE view.snap[Max(taken)] \in Nat
    BY DEF LastSnapshot
  <1>1. Session[B] \in Nat /\ \A s \in Sessions : s \in 0..Session[B]
    <2>1. B \in Bars
      BY HourlyAssumption DEF Bars
    <2>2. ASSUME NEW b \in Bars PROVE Session[b] <= Session[B] /\ Session[b] \in Nat
      <3>1. b <= B
        BY HourlyAssumption DEF Bars
      <3> QED BY <2>1, <3>1, HourlyAssumption
    <2> QED BY <2>1, <2>2, Calendar DEF Sessions
  <1>2. Max(taken) \in taken
    <2>1. taken \in SUBSET (0..Session[B])
      BY <1>1
    <2> HIDE DEF taken
    <2> QED BY <1>1, <2>1, MaxIsGreatest
  <1>3. view.snap \in [Sessions -> Nat \cup {-1}]
    BY DEF TypeInv, HourlyTypeOK, Tables
  <1> QED BY <1>2, <1>3

LEMMA FinishWritten ==
  ASSUME TypeInv, phase = "orders"
  PROVE  /\ Snapshots \in Tables
         /\ Snapshots.row = view.row /\ Snapshots.held = view.held
         /\ Snapshots.traded = view.traded /\ Snapshots.delivery = view.delivery
         /\ ~last => Snapshots.snap = view.snap
         /\ last /\ ~dq => Snapshots.snap = [view.snap EXCEPT ![Session[clock]] = view.held]
  <1>1. view \in Tables /\ Session[clock] \in Sessions /\ view.held \in Nat
    BY ClockIs, Calendar DEF TypeInv, HourlyTypeOK, Tables
  <1>2. ASSUME NEW n \in Nat
        PROVE  LET t == [view EXCEPT !.snap[Session[clock]] = n] IN
               /\ t \in Tables /\ t.row = view.row /\ t.held = view.held
               /\ t.traded = view.traded /\ t.delivery = view.delivery
               /\ t.snap = [view.snap EXCEPT ![Session[clock]] = n]
    BY <1>1 DEF Tables
  <1>3. CASE ~last
    <2>1. Snapshots = view
      BY <1>3 DEF Snapshots
    <2> QED BY <1>1, <1>3, <2>1
  <1>4. CASE last /\ dq
    <2>1. Snapshots = [view EXCEPT !.snap[Session[clock]] = LastSnapshot]
      BY <1>4 DEF Snapshots
    <2> QED BY <1>2, <1>4, <2>1, LastSnapshotType
  <1>5. CASE last /\ ~dq
    <2>1. Snapshots = [view EXCEPT !.snap[Session[clock]] = view.held]
      BY <1>5 DEF Snapshots
    <2> QED BY <1>1, <1>2, <1>5, <2>1
  <1> QED BY <1>3, <1>4, <1>5 DEF TypeInv, HourlyTypeOK

LEMMA EmptyType == Empty \in Tables
  <1>1. NoRow \in Rows
    BY HourlyAssumption DEF NoRow, Rows, Statuses
  <1> QED BY <1>1 DEF Empty, Tables

\* The row of an order that has been placed.
New(o, b) == [NoRow EXCEPT !.status = "pending", !.on = b, !.date = Session[b], !.left = Qty[o]]

\* The request of an order that has been placed is over.
Placed(o) ==
    form[o].step = "dated" /\ form' = [form EXCEPT ![o] = NoForm] /\ raced' = raced

\* What a request makes of the tables: it writes the same status into both.
LEMMA RequestStep ==
  ASSUME TypeInv, NEW o \in Orders, PlaceInsert(o) \/ Cancel(o)
  PROVE  \E b \in Bars :
            LET r(t) == IF PlaceInsert(o) THEN New(o, b) ELSE [t.row[o] EXCEPT !.status = "canceled"] IN
            /\ db' \in Tables /\ db'.row = [db.row EXCEPT ![o] = r(db)]
            /\ db'.held = db.held /\ db'.traded = db.traded /\ db'.snap = db.snap
            /\ db'.delivery = db.delivery
            /\ IF phase # "orders" THEN view' = view
               ELSE /\ view' \in Tables /\ view'.row = [view.row EXCEPT ![o] = r(view)]
                    /\ view'.held = view.held /\ view'.traded = view.traded
                    /\ view'.snap = view.snap /\ view'.delivery = view.delivery
            /\ PlaceInsert(o) => b = form[o].bar /\ db.row[o].status = "none" /\ Placed(o)
            /\ ~PlaceInsert(o) => /\ db.row[o].status = "pending" /\ o \notin locked
                                  /\ raced' = raced \ {o} /\ form' = form
            /\ UNCHANGED <<clock, matched, todo, locked, phase, last, dq, faults>>
  <1>1. db \in Tables /\ view \in Tables /\ db.row[o] \in Rows /\ view.row[o] \in Rows
    BY DEF TypeInv, HourlyTypeOK, Tables
  <1>2. CASE PlaceInsert(o)
    <2> DEFINE b == form[o].bar
    <2>1. b \in Bars /\ db.row[o].status = "none" /\ Placed(o)
      <3>1. form[o].step = "dated" /\ db.row[o].status = "none" /\ Placed(o)
        BY <1>2 DEF PlaceInsert, Placed
      <3>2. b \in 0..B /\ b > 0
        BY <3>1 DEF TypeInv, HourlyTypeOK, Forms
      <3>3. B \in Nat
        BY HourlyAssumption
      <3>4. b \in 1..B
        BY ONLY <3>2, <3>3
      <3> QED BY <3>1, <3>4 DEF Bars
    <2>2. New(o, b) \in Rows
      <3>0. B \in Nat /\ b \in 1..B
        BY <2>1, HourlyAssumption DEF Bars
      <3>1. b \in 0..B /\ 0 \in 0..B
        BY ONLY <3>0
      <3>2. b \in Bars
        BY <2>1
      <3> HIDE DEF b
      <3>3. Session[b] \in Sessions /\ Qty[o] \in Nat
        BY <3>2, Calendar, HourlyAssumption
      <3> QED BY <3>1, <3>3 DEF New, NoRow, Rows, Statuses
    <2>3. /\ db' = [db EXCEPT !.row = [db.row EXCEPT ![o] = New(o, b)]]
          /\ view' = IF phase # "orders" THEN view
                     ELSE [view EXCEPT !.row = [view.row EXCEPT ![o] = New(o, b)]]
          /\ UNCHANGED <<clock, matched, todo, locked, phase, last, dq, faults>>
      BY <1>2 DEF PlaceInsert, Commit, New
    <2> HIDE DEF b
    <2>8. /\ [db.row EXCEPT ![o] = New(o, b)] \in [Orders -> Rows]
          /\ [view.row EXCEPT ![o] = New(o, b)] \in [Orders -> Rows]
      BY <1>1, <2>2 DEF Tables
    <2>4. /\ db' \in Tables /\ db'.row = [db.row EXCEPT ![o] = New(o, b)]
          /\ db'.held = db.held /\ db'.traded = db.traded /\ db'.snap = db.snap
          /\ db'.delivery = db.delivery
      BY <1>1, <2>3, <2>8 DEF Tables
    <2>5. ASSUME phase = "orders"
          PROVE  /\ view' \in Tables /\ view'.row = [view.row EXCEPT ![o] = New(o, b)]
                 /\ view'.held = view.held /\ view'.traded = view.traded
                 /\ view'.snap = view.snap /\ view'.delivery = view.delivery
      BY <1>1, <2>3, <2>5, <2>8 DEF Tables
    <2>6. phase # "orders" => view' = view
      BY <2>3
    <2>7. b = form[o].bar
      BY DEF b
    <2> QED BY <1>2, <2>1, <2>3, <2>4, <2>5, <2>6, <2>7
  <1>3. CASE ~PlaceInsert(o)
    <2> DEFINE c(t) == [t.row[o] EXCEPT !.status = "canceled"]
    <2>1. Cancel(o)
      BY <1>3
    <2>2. c(db) \in Rows /\ c(view) \in Rows
      BY <1>1 DEF Rows, Statuses
    <2>3. [view EXCEPT !.row[o].status = "canceled"]
            = [view EXCEPT !.row = [view.row EXCEPT ![o] = c(view)]]
      OBVIOUS
    <2>4. [db.row EXCEPT ![o].status = "canceled"] = [db.row EXCEPT ![o] = c(db)]
      OBVIOUS
    <2>5. /\ db' = [db EXCEPT !.row = [db.row EXCEPT ![o] = c(db)]]
          /\ view' = IF phase # "orders" THEN view
                     ELSE [view EXCEPT !.row = [view.row EXCEPT ![o] = c(view)]]
          /\ UNCHANGED <<clock, matched, todo, locked, phase, last, dq, faults>>
          /\ db.row[o].status = "pending" /\ o \notin locked
          /\ raced' = raced \ {o} /\ form' = form
      BY <2>1, <2>3, <2>4 DEF Cancel, Commit
    <2>6. B \in Bars
      BY HourlyAssumption DEF Bars
    <2> HIDE DEF c
    <2>10. /\ [db.row EXCEPT ![o] = c(db)] \in [Orders -> Rows]
           /\ [view.row EXCEPT ![o] = c(view)] \in [Orders -> Rows]
      BY <1>1, <2>2 DEF Tables
    <2>7. /\ db' \in Tables /\ db'.row = [db.row EXCEPT ![o] = c(db)]
          /\ db'.held = db.held /\ db'.traded = db.traded /\ db'.snap = db.snap
          /\ db'.delivery = db.delivery
      BY <1>1, <2>5, <2>10 DEF Tables
    <2>8. ASSUME phase = "orders"
          PROVE  /\ view' \in Tables /\ view'.row = [view.row EXCEPT ![o] = c(view)]
                 /\ view'.held = view.held /\ view'.traded = view.traded
                 /\ view'.snap = view.snap /\ view'.delivery = view.delivery
      BY <1>1, <2>5, <2>8, <2>10 DEF Tables
    <2>9. phase # "orders" => view' = view
      BY <2>5
    <2> QED BY <1>3, <2>5, <2>6, <2>7, <2>8, <2>9 DEF c
  <1> QED BY <1>2, <1>3

\* The steps of a placement before its insert, which leave tables, clock and match alone.
Quiet == UNCHANGED <<clock, matched, db, view, todo, locked, phase, last, dq>>

LEMMA PlaceSteps ==
  ASSUME TypeInv, NEW o \in Orders, PlaceChoose(o) \/ PlaceDate(o) \/ PlaceFail(o)
  PROVE  /\ Quiet /\ faults' \in Nat
         /\ \E f \in Forms : form' = [form EXCEPT ![o] = f] /\ (f.step = "dated" => f.bar > 0)
         /\ raced' \subseteq raced \cup {o} /\ raced \subseteq raced' \cup {o}
  <1>1. Quiet /\ raced' \subseteq raced \cup {o} /\ raced \subseteq raced' \cup {o}
    BY DEF PlaceChoose, PlaceDate, PlaceFail, Quiet
  <1>2. faults' \in Nat
    BY DEF PlaceChoose, PlaceDate, PlaceFail, TypeInv, HourlyTypeOK
  <1>3. NoForm \in Forms /\ NoForm.step # "dated"
    BY HourlyAssumption DEF NoForm, Forms
  <1>4. CASE PlaceChoose(o)
    <2> DEFINE g == IF Matched THEN "next" ELSE "fills"
               f == [form[o] EXCEPT !.step = g]
    <2>1. form \in [Orders -> Forms] /\ form[o] \in Forms
      BY DEF TypeInv, HourlyTypeOK
    <2>2. f \in Forms /\ f.step # "dated"
      BY <2>1 DEF Forms
    <2>3. form' = [form EXCEPT ![o].step = g]
      BY <1>4 DEF PlaceChoose
    <2>4. form' = [form EXCEPT ![o] = f]
      BY <2>1, <2>3
    <2> HIDE DEF f
    <2> QED BY <1>1, <1>2, <2>2, <2>4
  <1>5. CASE PlaceDate(o)
    <2> DEFINE b == IF form[o].step = "fills" THEN clock ELSE clock + 1
               f == [step |-> "dated", bar |-> b]
    <2>1. b \in Bars /\ form' = [form EXCEPT ![o] = f]
      BY <1>5 DEF PlaceDate
    <2> HIDE DEF b
    <2>2. b \in 0..B /\ b > 0
      BY <2>1, HourlyAssumption DEF Bars
    <2>3. f \in Forms /\ f.bar > 0
      BY <2>2 DEF Forms
    <2> HIDE DEF f
    <2> QED BY <1>1, <1>2, <2>1, <2>3
  <1>6. CASE PlaceFail(o)
    BY <1>1, <1>2, <1>3, <1>6 DEF PlaceFail
  <1> QED BY <1>4, <1>5, <1>6

\* Between two matches, and at the end of one without its commit.
Move == Tick \/ Record \/ Abort \/ Restart

\* The first bar that is not matched, as far as the tables are concerned.
Frontier == IF phase = "record" THEN clock + 1 ELSE matched + 1

LEMMA Moves ==
  ASSUME TypeInv, Move
  PROVE  /\ clock' \in 1..End /\ clock' \in Nat /\ matched' \in {clock' - 1, clock'}
         /\ phase' \in {"idle", "done"} /\ clock <= clock' /\ db' = db /\ dq' = dq
         /\ Frontier \in Int /\ Frontier' \in Int /\ Frontier' <= Frontier
  <1>1. /\ clock \in 1..End /\ End \in Nat /\ clock \in Nat /\ matched \in Int
        /\ matched = clock - 1 \/ matched = clock
        /\ phase \in {"orders", "record"} => matched = clock - 1
    <2>1. End \in Nat
      BY ClockIs, Calendar
    <2> QED BY <2>1, ClockIs DEF TypeInv, HourlyTypeOK
  <1>2. CASE Tick
    <2>1. /\ phase = "idle" /\ matched = clock /\ matched' = matched /\ db' = db /\ dq' = dq
          /\ \/ clock < End /\ clock' = clock + 1 /\ phase' = "idle"
             \/ clock' = clock /\ phase' = "done"
      BY <1>1, <1>2 DEF Tick, Matched
    <2> QED BY <1>1, <2>1 DEF Frontier
  <1>3. CASE Record
    <2>1. /\ phase = "record" /\ phase' = "idle" /\ clock' = clock /\ db' = db /\ dq' = dq
          /\ matched' = clock \/ matched' = matched
      BY <1>3 DEF Record
    <2> QED BY <1>1, <2>1 DEF Frontier
  <1>4. CASE Abort
    <2>1. /\ phase = "orders" /\ phase' = "idle" /\ clock' = clock /\ db' = db /\ dq' = dq
          /\ matched' = matched
      BY <1>4 DEF Abort
    <2> QED BY <1>1, <2>1 DEF Frontier
  <1>5. CASE Restart
    <2>1. /\ phase' = "idle" /\ clock' = clock /\ db' = db /\ dq' = dq
          /\ matched' = matched \/ matched' = clock - 1
      BY <1>5 DEF Restart
    <2> QED BY <1>1, <2>1 DEF Frontier
  <1> QED BY <1>2, <1>3, <1>4, <1>5 DEF Move

LEMMA MoveTypes == ASSUME TypeInv, Move PROVE TypeInv'
  <1>1. /\ clock' \in 1..End /\ matched' \in {clock' - 1, clock'}
        /\ phase' \in {"idle", "done"} /\ db' = db /\ dq' = dq
    BY Moves
  <1>2. /\ view' \in Tables /\ todo' \subseteq Orders /\ locked' \subseteq Orders
        /\ last' \in BOOLEAN /\ faults' \in Nat
    <2>1. CASE Tick
      BY <2>1 DEF Tick, TypeInv, HourlyTypeOK
    <2>2. CASE Record
      BY <2>2 DEF Record, TypeInv, HourlyTypeOK
    <2>3. CASE Abort \/ Restart
      <3>1. view' = Empty /\ todo' = {} /\ locked' = {} /\ last' = FALSE
        BY <2>3 DEF Abort, Restart, Over
      <3>2. faults' \in Nat
        BY <2>3 DEF Abort, Restart, TypeInv, HourlyTypeOK
      <3>3. view' \in Tables /\ last' \in BOOLEAN
        BY <3>1, EmptyType, Zenon
      <3> QED BY <3>1, <3>2, <3>3
    <2> QED BY <2>1, <2>2, <2>3 DEF Move
  <1>3. /\ form' \in [Orders -> Forms] /\ raced' \subseteq Orders
        /\ \A o \in Orders : form'[o].step = "dated" => form'[o].bar > 0
    <2>1. CASE Restart
      <3>1. NoForm \in Forms /\ NoForm.step # "dated"
        BY HourlyAssumption DEF NoForm, Forms
      <3> QED BY <2>1, <3>1 DEF Restart, TypeInv, HourlyTypeOK
    <2>2. CASE ~Restart
      BY <2>2 DEF Move, Tick, Record, Abort, TypeInv, HourlyTypeOK
    <2> QED BY <2>1, <2>2
  <1> QED BY <1>1, <1>2, <1>3 DEF TypeInv, HourlyTypeOK, BeforeTheEnd

LEMMA TypesStep ==
  ASSUME TypeInv, [HourlyNext]_hourlyVars PROVE TypeInv'
  <1>1. CASE Begin
    <2>1. /\ clock' = clock /\ matched' = matched /\ db' = db /\ view' = db
          /\ todo' \subseteq Orders /\ locked' = {} /\ phase' = "orders" /\ dq' = dq
          /\ form' = form /\ raced' \subseteq Orders
      BY <1>1 DEF Begin, BeingPlaced, TypeInv, HourlyTypeOK
    <2>2. last' \in BOOLEAN /\ faults' \in Nat /\ (~last' => ~LastOfSession(clock))
      <3>1. CASE last' = LastOfSession(clock) /\ UNCHANGED faults
        <4>1. LastOfSession(clock) \in BOOLEAN
          BY DEF LastOfSession
        <4> QED BY <3>1, <4>1 DEF TypeInv, HourlyTypeOK
      <3>2. CASE last' = TRUE /\ faults' = faults + 1
        BY <3>2 DEF TypeInv, HourlyTypeOK
      <3> QED BY <1>1, <3>1, <3>2 DEF Begin
    <2>3. matched = clock - 1
      BY <1>1, ClockIs DEF Begin, Matched
    <2> QED BY <2>1, <2>2, <2>3 DEF TypeInv, HourlyTypeOK, BeforeTheEnd, LastOfSession
  <1>2. CASE Finish
    <2>1. /\ db' \in Tables /\ phase = "orders" /\ phase' = "record"
      BY <1>2, FinishWritten DEF Finish
    <2>2. matched = clock - 1
      BY <2>1, ClockIs
    <2> QED BY <1>2, <2>1, <2>2, EmptyType DEF Finish, Over, TypeInv, HourlyTypeOK, BeforeTheEnd
  <1>3. ASSUME NEW o \in Orders, TryFill(o) PROVE TypeInv'
    BY <1>3, TryFillTypes
  <1>4. ASSUME NEW o \in Orders, PlaceInsert(o) \/ Cancel(o) PROVE TypeInv'
    <2>1. /\ db' \in Tables /\ view' \in Tables
          /\ UNCHANGED <<clock, matched, todo, locked, phase, last, dq, faults>>
      BY <1>4, RequestStep DEF TypeInv, HourlyTypeOK
    <2>2. /\ form' \in [Orders -> Forms] /\ raced' \subseteq Orders
          /\ \A p \in Orders : form'[p].step = "dated" => form'[p].bar > 0
      <3>1. NoForm \in Forms /\ NoForm.step # "dated"
        BY HourlyAssumption DEF NoForm, Forms
      <3>2. /\ raced' = raced \/ raced' = raced \ {o}
            /\ form' = form \/ form' = [form EXCEPT ![o] = NoForm]
        BY <1>4 DEF PlaceInsert, Cancel
      <3> QED BY <3>1, <3>2 DEF TypeInv, HourlyTypeOK
    <2> QED BY <2>1, <2>2 DEF TypeInv, HourlyTypeOK, BeforeTheEnd, LastOfSession
  <1>5. ASSUME NEW o \in Orders, PlaceChoose(o) \/ PlaceDate(o) \/ PlaceFail(o) PROVE TypeInv'
    <2>1. Quiet /\ faults' \in Nat /\ raced' \subseteq raced \cup {o}
      BY <1>5, PlaceSteps
    <2>2. PICK f \in Forms : form' = [form EXCEPT ![o] = f] /\ (f.step = "dated" => f.bar > 0)
      BY <1>5, PlaceSteps
    <2>3. /\ form' \in [Orders -> Forms]
          /\ \A p \in Orders : form'[p].step = "dated" => form'[p].bar > 0
      BY <2>2 DEF TypeInv, HourlyTypeOK
    <2> QED BY <2>1, <2>3 DEF Quiet, TypeInv, HourlyTypeOK, BeforeTheEnd, LastOfSession
  <1>6. CASE Disqualify \/ UNCHANGED hourlyVars
    BY <1>6 DEF Disqualify, hourlyVars, TypeInv, HourlyTypeOK, BeforeTheEnd, LastOfSession
  <1> QED BY <1>1, <1>2, <1>3, <1>4, <1>5, <1>6, MoveTypes DEF HourlyNext, PlaceOrder, Move

LEMMA TypesAtFirst == HourlyInit => TypeInv
  <1> SUFFICES ASSUME HourlyInit PROVE TypeInv
    OBVIOUS
  <1>1. 1 \in 1..End /\ 0 = 1 - 1
    BY HourlyAssumption DEF Bars
  <1>2. db \in Tables /\ view \in Tables
    BY EmptyType DEF HourlyInit
  <1>3. NoForm \in Forms /\ NoForm.step # "dated"
    BY HourlyAssumption DEF NoForm, Forms
  <1> QED BY <1>1, <1>2, <1>3 DEF HourlyInit, TypeInv, HourlyTypeOK, BeforeTheEnd

LEMMA TypesHold == HourlySpec => []TypeInv
  BY TypesAtFirst, TypesStep, PTL DEF HourlySpec

\* The type invariant of the hourly engine, for every market: among others, no sale
\* makes a position short (insufficient_holdings).
THEOREM HourlyTypeCorrect == HourlySpec => []HourlyTypeOK
  <1>1. TypeInv => HourlyTypeOK
    BY DEF TypeInv
  <1> QED BY <1>1, TypesHold, PTL

-----------------------------------------------------------------------------
(* The row of an order and its trades *)

Total(tr) == SumFunctionOnSet(tr, Bars)

\* What the row says of the trades.
RowAdds(r, tr, o) ==
    /\ Total(tr) <= Qty[o]
    /\ r.status = "none" => r.filled = 0
    /\ r.status \in {"none", "pending", "rejected"} => r.filled = Total(tr)
    /\ r.status \in {"pending", "rejected", "canceled"} =>
          r.filled <= Total(tr) /\ r.filled + r.left = Qty[o]
    /\ r.status = "filled" => r.left = 0 /\ Total(tr) > 0
    /\ r.status = "filled" /\ r.filled # Total(tr) =>
          r.filled = Qty[o] /\ \E b \in Bars : {a \in Bars : tr[a] > 0} = {b}

\* When the trades were, with the clock at bar c.
RowDays(r, tr, o, c) ==
    /\ \A a \in Bars : tr[a] <= ParticipationCap(Qty[o], a)
    /\ \A a, b \in Bars : tr[a] > 0 /\ tr[b] > 0 => Session[a] = Session[b]
    /\ \A b \in Bars : tr[b] > 0 => b <= c /\ (r.filled > 0 => Session[b] = r.filledAt)
    /\ r.status = "pending" =>
          /\ r.on \in Bars /\ Session[r.on] = r.date
          /\ \A b \in Bars : tr[b] > 0 => Session[b] = r.date /\ b < r.on

\* A listed order, which may have been canceled since.
Ready(r, tr, c) ==
    /\ r.status \in {"pending", "canceled"}
    /\ r.filled = Total(tr) /\ r.on = c /\ r.date = Session[c]
    /\ \A b \in Bars : tr[b] > 0 => Session[b] = Session[c] /\ b < c

LEMMA Totals ==
  ASSUME NEW tr \in [Bars -> Nat]
  PROVE  /\ Total(tr) \in Nat
         /\ \A b \in Bars : tr[b] <= Total(tr)
         /\ Total(tr) > 0 => \E b \in Bars : tr[b] > 0
         /\ \A b \in Bars, q \in Nat : Total(Plus(tr, b, q)) = Total(tr) + q
  <1>1. IsFiniteSet(Bars) /\ \A b \in Bars : tr[b] \in Nat
    BY FiniteSets
  <1>2. Total(tr) \in Nat
    BY <1>1, SumNat DEF Total
  <1>3. ASSUME NEW b \in Bars PROVE tr[b] <= Total(tr)
    BY <1>1, SumMember DEF Total
  <1>4. ASSUME ~ \E b \in Bars : tr[b] > 0 PROVE Total(tr) = 0
    <2>1. \A b \in Bars : tr[b] = 0
      BY <1>1, <1>4
    <2> QED BY <1>1, <2>1, SumZero DEF Total
  <1>5. ASSUME NEW b \in Bars, NEW q \in Nat PROVE Total(Plus(tr, b, q)) = Total(tr) + q
    <2> DEFINE e == Plus(tr, b, q)
    <2>1. \A y \in Bars : tr[y] \in Int /\ e[y] = IF y = b THEN tr[y] + q ELSE tr[y]
      BY DEF Plus
    <2>2. q \in Int
      OBVIOUS
    <2> HIDE DEF e
    <2>3. Total(e) = Total(tr) + q
      BY <1>1, <2>1, <2>2, SumUpdate DEF Total
    <2> QED BY <2>3 DEF e
  <1> QED BY <1>2, <1>3, <1>4, <1>5

\* A slice of q shares at bar c, and what the row becomes.
Sliced(r, s, q, c, o) ==
    LET left == IF last THEN 0 ELSE r.left - q IN
    /\ s.date = r.date
    /\ IF r.status = "canceled" THEN s = r
       ELSE IF left > 0 \/ r.filled > 0
       THEN /\ s.status = IF left = 0 THEN "filled" ELSE "pending"
            /\ s.filled = r.filled + q /\ s.left = left /\ s.filledAt = Session[c]
            /\ s.on = IF left = 0 THEN r.on ELSE c + 1
       ELSE s.status = "filled" /\ s.filled = Qty[o] /\ s.left = 0 /\ s.filledAt = Session[c]

LEMMA SlicedRow ==
  ASSUME NEW c \in Bars, NEW o \in Orders, NEW r \in Rows, NEW s \in Rows,
         NEW tr \in [Bars -> Nat], NEW q \in Nat \ {0},
         RowAdds(r, tr, o), RowDays(r, tr, o, c), Ready(r, tr, c),
         q <= r.left, q <= ParticipationCap(Qty[o], c),
         ~last => ~LastOfSession(c), Sliced(r, s, q, c, o)
  PROVE  /\ RowAdds(s, Plus(tr, c, q), o) /\ RowDays(s, Plus(tr, c, q), o, c)
         /\ s.status = "pending" => s.on = c + 1
  <1> DEFINE e == Plus(tr, c, q)
  <1>1. /\ Total(tr) \in Nat /\ Total(e) = Total(tr) + q
        /\ \A b \in Bars : tr[b] <= Total(tr)
        /\ Total(tr) > 0 => \E b \in Bars : tr[b] > 0
    BY Totals
  <1>2. \A b \in Bars : e[b] = IF b = c THEN tr[b] + q ELSE tr[b]
    BY DEF Plus
  <1>3. \A b \in Bars : tr[b] \in Nat /\ b \in Nat
    BY Calendar
  <1>4. tr[c] = 0
    BY <1>3 DEF Ready
  <1>5. \A b \in Bars : e[b] = IF b = c THEN q ELSE tr[b]
    BY <1>2, <1>4
  <1> HIDE DEF e
  <1>6. /\ r.filled \in Nat /\ r.left \in Nat /\ Qty[o] \in Nat
        /\ r.filled = Total(tr) /\ r.filled + r.left = Qty[o]
    BY HourlyAssumption DEF Rows, RowAdds, Ready
  <1>7. ~last => c + 1 \in Bars /\ Session[c + 1] = Session[c]
    BY Calendar
  <1>8. Total(e) <= Qty[o] /\ Total(e) > 0
    BY <1>1, <1>6
  <1>9. /\ \A a \in Bars : e[a] <= ParticipationCap(Qty[o], a)
        /\ \A a \in Bars : e[a] > 0 => Session[a] = Session[c] /\ a <= c
        /\ \A a, b \in Bars : e[a] > 0 /\ e[b] > 0 => Session[a] = Session[b]
    BY <1>3, <1>5 DEF RowDays, Ready
  <1>10. CASE r.status = "canceled"
    <2>1. s = r
      BY <1>10 DEF Sliced
    <2>2. RowAdds(s, e, o)
      BY <1>1, <1>6, <1>8, <1>10, <2>1 DEF RowAdds
    <2>3. r.filled > 0 => r.filledAt = Session[c]
      BY <1>1, <1>6 DEF RowDays, Ready
    <2> QED BY <1>9, <1>10, <2>1, <2>2, <2>3 DEF RowDays, e
  <1>11. CASE r.status # "canceled"
    <2> DEFINE left == IF last THEN 0 ELSE r.left - q
    <2>1. left \in Nat /\ (left > 0 => ~last /\ left = r.left - q)
      BY <1>6
    <2>2. s.filledAt = Session[c] /\ s.date = Session[c]
      BY <1>11 DEF Sliced, Ready
    <2>3. CASE left > 0 \/ r.filled > 0
      <3>1. /\ s.status = IF left = 0 THEN "filled" ELSE "pending"
            /\ s.filled = r.filled + q /\ s.left = left
            /\ s.on = IF left = 0 THEN r.on ELSE c + 1
        BY <1>11, <2>3 DEF Sliced
      <3> HIDE DEF left
      <3>2. s.filled = Total(e) /\ (left > 0 => s.filled + s.left = Qty[o])
        BY <1>1, <1>6, <2>1, <3>1
      <3>3. RowAdds(s, e, o)
        BY <1>1, <1>8, <2>1, <3>1, <3>2 DEF RowAdds
      <3>4. s.status = "pending" => s.on = c + 1 /\ s.on \in Bars /\ Session[s.on] = Session[c]
        BY <1>7, <2>1, <3>1
      <3>5. RowDays(s, e, o, c)
        BY <1>3, <1>9, <2>2, <3>4 DEF RowDays
      <3> QED BY <3>3, <3>4, <3>5 DEF e
    <2>4. CASE ~(left > 0 \/ r.filled > 0)
      <3>1. s.status = "filled" /\ s.filled = Qty[o] /\ s.left = 0
        BY <1>11, <2>4 DEF Sliced
      <3>2. Total(tr) = 0
        BY <1>6, <2>4
      <3>3. {a \in Bars : e[a] > 0} = {c}
        <4>1. \A b \in Bars : tr[b] = 0
          BY <1>1, <1>3, <3>2
        <4> QED BY <1>5, <4>1
      <3>4. RowAdds(s, e, o)
        BY <1>8, <3>1, <3>3 DEF RowAdds
      <3>5. RowDays(s, e, o, c)
        BY <1>9, <2>2, <3>1 DEF RowDays
      <3> QED BY <3>1, <3>4, <3>5 DEF e
    <2> QED BY <2>3, <2>4
  <1> QED BY <1>10, <1>11

\* An order that is rejected, deferred or brought to its end without a trade.
Shelved(r, s, c) ==
    /\ s.left = (IF s.status = "filled" THEN 0 ELSE r.left) /\ s.filled = r.filled
    /\ \/ s = r /\ r.status = "canceled"
       \/ s.status = "rejected" /\ s.filledAt = r.filledAt
       \/ ~last /\ s.status = "pending" /\ s.filledAt = r.filledAt /\ s.on = c + 1
                /\ s.date = Session[c]
       \/ r.filled > 0 /\ s.status = "filled" /\ s.filledAt = Session[c]

LEMMA ShelvedRow ==
  ASSUME NEW c \in Bars, NEW o \in Orders, NEW r \in Rows, NEW s \in Rows,
         NEW tr \in [Bars -> Nat],
         RowAdds(r, tr, o), RowDays(r, tr, o, c), Ready(r, tr, c),
         ~last => ~LastOfSession(c), Shelved(r, s, c)
  PROVE  /\ RowAdds(s, tr, o) /\ RowDays(s, tr, o, c)
         /\ s.status = "pending" => s.on = c + 1
  <1>1. Total(tr) \in Nat /\ r.filled = Total(tr) /\ r.filled + r.left = Qty[o]
    BY Totals DEF RowAdds, Ready
  <1>2. RowAdds(s, tr, o)
    BY <1>1 DEF RowAdds, Shelved
  <1>3. s.status = "pending" => s.on = c + 1 /\ s.on \in Bars /\ Session[s.on] = Session[c]
                                /\ s.date = Session[c]
    BY Calendar DEF Shelved, Ready
  <1>4. \A b \in Bars : tr[b] > 0 => b <= c /\ (s.filled > 0 => Session[b] = s.filledAt)
    BY DEF RowDays, Ready, Shelved
  <1>5. c \in Nat /\ \A b \in Bars : b \in Nat
    BY Calendar
  <1>6. RowDays(s, tr, o, c)
    <2>1. \A b \in Bars : tr[b] > 0 => Session[b] = Session[c] /\ b < c
      BY DEF Ready
    <2>2. s.status = "pending" =>
            /\ s.on \in Bars /\ Session[s.on] = s.date
            /\ \A b \in Bars : tr[b] > 0 => Session[b] = s.date /\ b < s.on
      <3>1. \A b \in Bars : b < c => b < c + 1
        BY <1>5
      <3> QED BY <1>3, <2>1, <3>1
    <2>3. /\ \A a \in Bars : tr[a] <= ParticipationCap(Qty[o], a)
          /\ \A a, b \in Bars : tr[a] > 0 /\ tr[b] > 0 => Session[a] = Session[b]
      BY DEF RowDays
    <2> QED BY <1>4, <2>2, <2>3 DEF RowDays
  <1> QED BY <1>2, <1>3, <1>6

\* Every row, in the committed tables and in what a match sees.
Sound(t, c) ==
    \A o \in Orders : RowAdds(t.row[o], t.traded[o], o) /\ RowDays(t.row[o], t.traded[o], o, c)

\* A match takes each order once, and nobody else touches the rows it has written.
Taking ==
    /\ \A o \in todo : o \notin locked /\ Ready(view.row[o], view.traded[o], clock)
    /\ \A o \in Orders \ locked : view.row[o] = db.row[o] /\ view.traded[o] = db.traded[o]
    /\ \A o \in locked : db.row[o].status \in {"pending", "canceled"}

RowsInv == Sound(db, clock) /\ (phase = "orders" => Sound(view, clock) /\ Taking)

\* What a step on one order does to the row and the trades.
LEMMA TryFillRows ==
  ASSUME TypeInv, RowsInv, NEW o \in Orders, TryFill(o)
  PROVE  /\ phase = "orders" /\ o \in todo /\ Took(o, view')
         /\ RowAdds(view'.row[o], view'.traded[o], o)
         /\ RowDays(view'.row[o], view'.traded[o], o, clock)
         /\ view'.row[o].status = "pending" => view'.row[o].on = clock + 1
         /\ \A p \in Orders \ {o} : view'.row[p] = view.row[p] /\ view'.traded[p] = view.traded[p]
  <1> DEFINE r == view.row[o]
             s == view'.row[o]
             tr == view.traded[o]
  <1>1. phase = "orders" /\ o \in todo
    BY DEF TryFill, Reject, Defer, BuySlice, SellSlice, Working
  <1>2. view' \in Tables /\ Took(o, view')
    BY <1>1, RowStep, BuyWritten, SellWritten DEF TryFill
  <1>3. /\ clock \in Bars /\ r \in Rows /\ s \in Rows /\ tr \in [Bars -> Nat]
        /\ view.row \in [Orders -> Rows] /\ view.traded \in [Orders -> [Bars -> Nat]]
        /\ ~last => ~LastOfSession(clock)
    BY <1>1, <1>2, ClockIs DEF TypeInv, HourlyTypeOK, BeforeTheEnd, Tables
  <1>4. RowAdds(r, tr, o) /\ RowDays(r, tr, o, clock) /\ Ready(r, tr, clock)
    BY <1>1 DEF RowsInv, Sound, Taking
  <1>5. CASE BuySlice(o) \/ SellSlice(o)
    <2> DEFINE q == Slice(o, clock)
    <2>1. /\ q \in Nat \ {0}
          /\ view'.row = Update(o, FilledRow(o, clock, q))
          /\ view'.traded = [view.traded EXCEPT ![o] = Plus(view.traded[o], clock, q)]
      BY <1>1, <1>5, BuyWritten, SellWritten
    <2>2. q <= r.left /\ q <= ParticipationCap(Qty[o], clock)
      <3>1. r.left \in Nat /\ r.filled \in Nat /\ r.left <= Qty[o]
        <4>1. r.filled + r.left = Qty[o] /\ r.left \in Nat /\ r.filled \in Nat
          BY <1>3, <1>4 DEF RowAdds, Ready, Rows
        <4> QED BY <4>1
      <3> QED BY <1>1, <3>1, Slices
    <2> HIDE DEF q
    <2>3. Sliced(r, s, q, clock, o)
      <3>1. CASE r.status = "canceled"
        <4>1. s = r
          BY <2>1, <3>1 DEF Update
        <4> QED BY <3>1, <4>1 DEF Sliced
      <3>2. CASE r.status = "pending"
        <4>1. s = FilledRow(o, clock, q)
          BY <1>3, <2>1, <3>2 DEF Update
        <4>2. \A left \in Nat : LET x == SliceFill(o, clock, q, left) IN
                 /\ x.status = IF left = 0 THEN "filled" ELSE "pending"
                 /\ x.filled = r.filled + q /\ x.left = left /\ x.filledAt = Session[clock]
                 /\ x.on = (IF left = 0 THEN r.on ELSE clock + 1) /\ x.date = r.date
          BY <1>3 DEF SliceFill, Rows
        <4>3. LET x == WholeFill(o, clock) IN
                 /\ x.status = "filled" /\ x.filled = Qty[o] /\ x.left = 0
                 /\ x.filledAt = Session[clock] /\ x.date = r.date
          BY <1>3 DEF WholeFill, Rows
        <4>4. (IF last THEN 0 ELSE r.left - q) \in Nat
          BY <1>3, <2>1, <2>2 DEF Rows
        <4> QED BY <3>2, <4>1, <4>2, <4>3, <4>4 DEF FilledRow, Sliced
      <3> QED BY <1>4, <3>1, <3>2 DEF Ready
    <2>4. view'.traded[o] = Plus(tr, clock, q)
      BY <1>3, <2>1
    <2>5. ASSUME NEW p \in Orders \ {o}
          PROVE  view'.row[p] = view.row[p] /\ view'.traded[p] = view.traded[p]
      BY <1>3, <2>1 DEF Update
    <2>6. /\ RowAdds(s, Plus(tr, clock, q), o) /\ RowDays(s, Plus(tr, clock, q), o, clock)
          /\ s.status = "pending" => s.on = clock + 1
      <3> HIDE DEF r, s, tr
      <3> QED BY <1>3, <1>4, <2>1, <2>2, <2>3, SlicedRow
    <2> QED BY <1>1, <1>2, <2>4, <2>5, <2>6
  <1>6. CASE Reject(o) \/ Defer(o)
    <2>1. PICK x \in Rows :
            /\ view'.row = Update(o, x) /\ view'.traded = view.traded
            /\ \/ x = Marked(o, "rejected")
               \/ ~last /\ x = MovedOn(o, clock)
               \/ view.row[o].filled > 0 /\ x = SliceFill(o, clock, 0, 0)
      BY <1>1, <1>6, RowStep
    <2>2. Shelved(r, s, clock)
      <3>1. CASE r.status = "canceled"
        <4>1. s = r
          BY <2>1, <3>1 DEF Update
        <4> QED BY <3>1, <4>1 DEF Shelved
      <3>2. CASE r.status = "pending"
        <4>1. s = x
          BY <1>3, <2>1, <3>2 DEF Update
        <4>2. CASE x = Marked(o, "rejected")
          <5>1. /\ s.status = "rejected" /\ s.left = r.left /\ s.filled = r.filled
                /\ s.filledAt = r.filledAt
            BY <1>3, <4>1, <4>2 DEF Marked, Rows
          <5> QED BY <5>1 DEF Shelved
        <4>3. CASE ~last /\ x = MovedOn(o, clock)
          <5>1. /\ s.status = "pending" /\ s.left = r.left /\ s.filled = r.filled
                /\ s.filledAt = r.filledAt /\ s.on = clock + 1 /\ s.date = Session[clock]
            BY <1>3, <3>2, <4>1, <4>3 DEF MovedOn, Rows
          <5> QED BY <4>3, <5>1 DEF Shelved
        <4>4. CASE view.row[o].filled > 0 /\ x = SliceFill(o, clock, 0, 0)
          <5>1. /\ s.status = "filled" /\ s.left = 0 /\ s.filled = r.filled + 0
                /\ s.filledAt = Session[clock]
            BY <1>3, <4>1, <4>4 DEF SliceFill, Rows
          <5>2. r.filled \in Nat
            BY <1>3 DEF Rows
          <5> QED BY <4>4, <5>1, <5>2 DEF Shelved
        <4> QED BY <2>1, <4>2, <4>3, <4>4
      <3> QED BY <1>4, <3>1, <3>2 DEF Ready
    <2>3. ASSUME NEW p \in Orders \ {o}
          PROVE  view'.row[p] = view.row[p] /\ view'.traded[p] = view.traded[p]
      BY <1>3, <2>1 DEF Update
    <2>4. RowAdds(s, tr, o) /\ RowDays(s, tr, o, clock) /\ (s.status = "pending" => s.on = clock + 1)
      <3> HIDE DEF r, s, tr
      <3> QED BY <1>3, <1>4, <2>2, ShelvedRow
    <2> QED BY <1>1, <1>2, <2>1, <2>3, <2>4
  <1> QED BY <1>5, <1>6 DEF TryFill

LEMMA RowsTry == ASSUME TypeInv, RowsInv, NEW o \in Orders, TryFill(o) PROVE RowsInv'
  <1>1. /\ phase = "orders" /\ o \in todo
        /\ UNCHANGED <<clock, db, phase>> /\ todo' = todo \ {o} /\ locked' = locked \cup {o}
        /\ RowAdds(view'.row[o], view'.traded[o], o)
        /\ RowDays(view'.row[o], view'.traded[o], o, clock)
        /\ view'.row[o].status = "pending" => view'.row[o].on = clock + 1
        /\ \A p \in Orders \ {o} : view'.row[p] = view.row[p] /\ view'.traded[p] = view.traded[p]
    BY TryFillRows DEF Took
  <1>2. Sound(db, clock) /\ Sound(view, clock) /\ Taking
    BY <1>1 DEF RowsInv
  <1>3. Sound(view', clock)
    BY <1>1, <1>2 DEF Sound
  <1>5. Taking'
    <2>1. ASSUME NEW p \in todo'
          PROVE  p \notin locked' /\ Ready(view'.row[p], view'.traded[p], clock)
      <3>1. p \in todo /\ p # o /\ p \in Orders
        BY <1>1, <2>1 DEF TypeInv, HourlyTypeOK
      <3> QED BY <1>1, <1>2, <3>1 DEF Taking
    <2>2. ASSUME NEW p \in Orders \ locked'
          PROVE  view'.row[p] = db.row[p] /\ view'.traded[p] = db.traded[p]
      BY <1>1, <1>2, <2>2 DEF Taking
    <2>3. ASSUME NEW p \in locked' PROVE db.row[p].status \in {"pending", "canceled"}
      <3>1. CASE p = o
        <4>1. o \notin locked /\ view.row[o].status \in {"pending", "canceled"}
          BY <1>1, <1>2 DEF Taking, Ready
        <4>2. view.row[o] = db.row[o]
          BY <1>2, <4>1 DEF Taking
        <4> QED BY <3>1, <4>1, <4>2
      <3>2. CASE p # o
        BY <1>1, <1>2, <2>3, <3>2 DEF Taking
      <3> QED BY <3>1, <3>2
    <2> QED BY <1>1, <2>1, <2>2, <2>3 DEF Taking
  <1> QED BY <1>1, <1>2, <1>3, <1>5 DEF RowsInv

LEMMA RowsBegin == ASSUME TypeInv, RowsInv, Begin PROVE RowsInv'
  <1>1. /\ clock \in Bars /\ phase' = "orders" /\ UNCHANGED <<clock, db>> /\ view' = db
        /\ locked' = {} /\ todo' = {o \in Orders : db.row[o].status = "pending"
                                                  /\ db.row[o].on = clock}
    BY ClockIs DEF Begin
  <1>2. Sound(db, clock)
    BY DEF RowsInv
  <1>3. ASSUME NEW o \in todo' PROVE Ready(db.row[o], db.traded[o], clock)
    <2>1. o \in Orders /\ db.row[o].status = "pending" /\ db.row[o].on = clock
      BY <1>1, <1>3
    <2> QED BY <1>2, <2>1 DEF Sound, RowAdds, RowDays, Ready
  <1> QED BY <1>1, <1>2, <1>3 DEF RowsInv, Taking

LEMMA RowsFinish == ASSUME TypeInv, RowsInv, Finish PROVE RowsInv'
  <1>1. /\ phase = "orders" /\ phase' = "record" /\ clock' = clock
        /\ db'.row = view.row /\ db'.traded = view.traded
    BY FinishWritten DEF Finish
  <1> QED BY <1>1 DEF RowsInv, Sound

LEMMA RowsMove == ASSUME TypeInv, RowsInv, Move PROVE RowsInv'
  <1>1. phase' # "orders" /\ db' = db /\ clock <= clock' /\ clock' \in Nat /\ clock \in Nat
    BY Moves, ClockIs
  <1>2. Sound(db, clock)
    BY DEF RowsInv
  <1>3. \A b \in Bars : b \in Nat
    BY Calendar
  <1>4. \A b \in Bars : b <= clock => b <= clock'
    BY <1>1, <1>3
  <1>5. ASSUME NEW o \in Orders PROVE RowDays(db.row[o], db.traded[o], o, clock')
    <2>1. RowDays(db.row[o], db.traded[o], o, clock)
      BY <1>2 DEF Sound
    <2> QED BY <1>4, <2>1 DEF RowDays
  <1>6. Sound(db', clock')
    BY <1>1, <1>2, <1>5 DEF Sound
  <1> QED BY <1>1, <1>6 DEF RowsInv

\* A new order has no trades yet.
LEMMA NewRow ==
  ASSUME NEW o \in Orders, NEW b \in Bars, NEW c \in Nat, NEW r \in Rows,
         NEW tr \in [Bars -> Nat], r.status = "none", RowAdds(r, tr, o)
  PROVE  RowAdds(New(o, b), tr, o) /\ RowDays(New(o, b), tr, o, c)
  <1>1. /\ New(o, b).status = "pending" /\ New(o, b).on = b /\ New(o, b).date = Session[b]
        /\ New(o, b).left = Qty[o] /\ New(o, b).filled = 0
    BY DEF New, NoRow
  <1>2. Total(tr) = 0 /\ Qty[o] \in Nat
    BY HourlyAssumption DEF RowAdds
  <1>3. \A a \in Bars : tr[a] = 0
    <2>1. \A a \in Bars : tr[a] <= 0 /\ tr[a] \in Nat
      BY <1>2, Totals
    <2> QED BY <2>1
  <1>4. \A a \in Bars : ParticipationCap(Qty[o], a) \in Nat
    BY <1>2, Caps
  <1> HIDE DEF New
  <1>6. RowAdds(New(o, b), tr, o)
    BY <1>1, <1>2 DEF RowAdds
  <1>7. \A a \in Bars : ~(tr[a] > 0) /\ tr[a] <= ParticipationCap(Qty[o], a)
    <2>1. ASSUME NEW a \in Bars PROVE tr[a] = 0 /\ ParticipationCap(Qty[o], a) \in Nat
      BY <1>3, <1>4
    <2> QED BY <2>1
  <1>9. RowDays(New(o, b), tr, o, c)
    <2> DEFINE s == New(o, b)
    <2>1. s.status = "pending" /\ s.on = b /\ s.date = Session[b]
      BY <1>1
    <2> HIDE DEF s
    <2>2. RowDays(s, tr, o, c)
      BY <1>7, <2>1 DEF RowDays
    <2> QED BY <2>2 DEF s
  <1> QED BY <1>6, <1>9

LEMMA CanceledRow ==
  ASSUME NEW o \in Orders, NEW c, NEW r \in Rows, NEW tr \in [Bars -> Nat],
         r.status = "pending", RowAdds(r, tr, o), RowDays(r, tr, o, c),
         NEW s, s = [r EXCEPT !.status = "canceled"]
  PROVE  RowAdds(s, tr, o) /\ RowDays(s, tr, o, c)
  <1>1. s.status = "canceled" /\ s.filled = r.filled /\ s.left = r.left /\ s.filledAt = r.filledAt
    BY DEF Rows
  <1>2. Total(tr) \in Nat
    BY Totals
  <1>3. RowAdds(s, tr, o)
    BY <1>1, <1>2 DEF RowAdds
  <1> QED BY <1>1, <1>3 DEF RowDays

LEMMA RowsRequest == ASSUME TypeInv, RowsInv, NEW o \in Orders, PlaceInsert(o) \/ Cancel(o) PROVE RowsInv'
  <1> DEFINE r(t, b) == IF PlaceInsert(o) THEN New(o, b) ELSE [t.row[o] EXCEPT !.status = "canceled"]
  <1>1. PICK b \in Bars :
            /\ db'.row = [db.row EXCEPT ![o] = r(db, b)] /\ db'.traded = db.traded
            /\ phase = "orders" => /\ view'.row = [view.row EXCEPT ![o] = r(view, b)]
                                   /\ view'.traded = view.traded
            /\ PlaceInsert(o) => db.row[o].status = "none"
            /\ ~PlaceInsert(o) => db.row[o].status = "pending" /\ o \notin locked
            /\ UNCHANGED <<clock, todo, locked, phase, last, dq, faults>>
    BY RequestStep
  <1>2. /\ db.row \in [Orders -> Rows] /\ db.traded \in [Orders -> [Bars -> Nat]]
        /\ view.row \in [Orders -> Rows] /\ clock \in Nat /\ b \in Nat
        /\ todo \subseteq Orders
    <2>1. clock \in Nat /\ b \in Nat
      BY ClockIs, Calendar
    <2> QED BY <2>1 DEF TypeInv, HourlyTypeOK, Tables
  <1>3. Sound(db, clock) /\ (phase = "orders" => Sound(view, clock) /\ Taking)
    BY DEF RowsInv
  <1>4. phase = "orders" => o \notin locked /\ view.row[o] = db.row[o] /\ view.traded[o] = db.traded[o]
    <2> SUFFICES ASSUME phase = "orders"
                 PROVE  o \notin locked /\ view.row[o] = db.row[o] /\ view.traded[o] = db.traded[o]
      OBVIOUS
    <2>1. o \notin locked
      BY <1>1, <1>3 DEF Taking
    <2> QED BY <1>3, <2>1 DEF Taking
  <1> DEFINE s == r(db, b)
  <1>5. phase = "orders" => r(view, b) = s
    BY <1>4
  <1>6. RowAdds(s, db.traded[o], o) /\ RowDays(s, db.traded[o], o, clock)
    <2>1. /\ RowAdds(db.row[o], db.traded[o], o) /\ RowDays(db.row[o], db.traded[o], o, clock)
          /\ db.row[o] \in Rows /\ db.traded[o] \in [Bars -> Nat]
      BY <1>2, <1>3 DEF Sound
    <2>2. CASE PlaceInsert(o)
      BY <1>1, <1>2, <2>1, <2>2, NewRow
    <2>3. CASE ~PlaceInsert(o)
      <3>1. s = [db.row[o] EXCEPT !.status = "canceled"] /\ db.row[o].status = "pending"
        BY <1>1, <2>3
      <3> HIDE DEF s
      <3> QED BY <2>1, <3>1, CanceledRow
    <2> QED BY <2>2, <2>3
  <1>7. /\ s.status = "pending" => PlaceInsert(o) /\ s.on = b
        /\ PlaceInsert(o) => s.status = "pending"
        /\ ~PlaceInsert(o) => s.status = "canceled" /\ s.filled = db.row[o].filled
                        /\ s.on = db.row[o].on /\ s.date = db.row[o].date
    <2>1. CASE PlaceInsert(o)
      BY <2>1 DEF New, NoRow
    <2>2. CASE ~PlaceInsert(o)
      <3>1. s = [db.row[o] EXCEPT !.status = "canceled"] /\ db.row[o] \in Rows
        BY <1>2, <2>2
      <3> HIDE DEF s
      <3> QED BY <2>2, <3>1 DEF Rows
    <2> QED BY <2>1, <2>2
  <1>8. /\ db'.row = [db.row EXCEPT ![o] = s]
        /\ phase = "orders" => view'.row = [view.row EXCEPT ![o] = s] /\ view'.traded = view.traded
    BY <1>1, <1>5
  <1> HIDE DEF r, s
  <1>9. Sound(db', clock)
    BY <1>1, <1>2, <1>3, <1>6, <1>8 DEF Sound
  <1>10. ASSUME phase = "orders" PROVE Sound(view', clock)
    BY <1>2, <1>3, <1>4, <1>6, <1>8, <1>10 DEF Sound
  <1>11. ASSUME phase = "orders" PROVE Taking'
    <2>1. ASSUME NEW p \in todo PROVE p \notin locked /\ Ready(view'.row[p], view'.traded[p], clock)
      <3>1. p \notin locked /\ Ready(view.row[p], view.traded[p], clock) /\ p \in Orders
        BY <1>2, <1>3, <1>11 DEF Taking
      <3>2. CASE p = o
        <4>1. ~PlaceInsert(o)
          <5>1. view.row[o].status \in {"pending", "canceled"}
            BY <3>1, <3>2 DEF Ready
          <5> QED BY <1>1, <1>4, <1>11, <5>1
        <4>2. view'.row[p] = s /\ view'.traded[p] = view.traded[p]
          BY <1>2, <1>8, <1>11, <3>1, <3>2
        <4> QED BY <1>4, <1>7, <1>11, <3>1, <3>2, <4>1, <4>2 DEF Ready
      <3>3. CASE p # o
        <4>1. view'.row[p] = view.row[p] /\ view'.traded[p] = view.traded[p]
          BY <1>2, <1>8, <1>11, <3>1, <3>3
        <4> QED BY <3>1, <4>1
      <3> QED BY <3>2, <3>3
    <2>2. ASSUME NEW p \in Orders \ locked
          PROVE  view'.row[p] = db'.row[p] /\ view'.traded[p] = db'.traded[p]
      <3>1. view.row[p] = db.row[p] /\ view.traded[p] = db.traded[p]
        BY <1>3, <1>11, <2>2 DEF Taking
      <3> QED BY <1>1, <1>2, <1>8, <1>11, <3>1
    <2>3. ASSUME NEW p \in locked PROVE db'.row[p].status \in {"pending", "canceled"}
      <3>1. p # o /\ db.row[p].status \in {"pending", "canceled"}
        BY <1>3, <1>4, <1>11, <2>3 DEF Taking
      <3>2. db'.row[p] = db.row[p]
        BY <1>2, <1>8, <3>1
      <3> QED BY <3>1, <3>2
    <2> QED BY <1>1, <1>11, <2>1, <2>2, <2>3 DEF Taking
  <1> QED BY <1>1, <1>9, <1>10, <1>11 DEF RowsInv

LEMMA RowsStep == ASSUME TypeInv, RowsInv, [HourlyNext]_hourlyVars PROVE RowsInv'
  <1>1. CASE Disqualify \/ UNCHANGED hourlyVars
    BY <1>1 DEF Disqualify, hourlyVars, RowsInv, Sound, Taking
  <1>2. ASSUME NEW o \in Orders, PlaceChoose(o) \/ PlaceDate(o) \/ PlaceFail(o) PROVE RowsInv'
    BY <1>2, PlaceSteps DEF Quiet, RowsInv, Sound, Taking
  <1> QED BY <1>1, <1>2, RowsTry, RowsBegin, RowsFinish, RowsMove, RowsRequest
          DEF HourlyNext, PlaceOrder, Move

LEMMA RowsAtFirst == HourlyInit => RowsInv
  <1> SUFFICES ASSUME HourlyInit PROVE RowsInv
    OBVIOUS
  <1>1. phase = "idle" /\ db = Empty /\ clock = 1
    BY DEF HourlyInit
  <1>2. ASSUME NEW o \in Orders
        PROVE  RowAdds(Empty.row[o], Empty.traded[o], o) /\ RowDays(Empty.row[o], Empty.traded[o], o, 1)
    <2> DEFINE tr == [b \in Bars |-> 0]
    <2>1. Empty.row[o] = NoRow /\ Empty.traded[o] = tr
      BY DEF Empty
    <2>2. Total(tr) = 0 /\ Qty[o] \in Nat
      BY FiniteSets, SumZero, HourlyAssumption DEF Total
    <2>3. NoRow.status = "none" /\ NoRow.filled = 0
      BY DEF NoRow
    <2>4. \A b \in Bars : tr[b] = 0 /\ ParticipationCap(Qty[o], b) \in Nat
      BY <2>2, Caps
    <2>5. \A b \in Bars : ~(tr[b] > 0) /\ tr[b] <= ParticipationCap(Qty[o], b)
      BY <2>4
    <2> HIDE DEF tr
    <2>6. RowAdds(NoRow, tr, o)
      BY <2>2, <2>3 DEF RowAdds
    <2>7. RowDays(NoRow, tr, o, 1)
      BY <2>3, <2>5 DEF RowDays
    <2> QED BY <2>1, <2>6, <2>7
  <1> QED BY <1>1, <1>2 DEF RowsInv, Sound

LEMMA RowsHold == HourlySpec => []RowsInv
  BY TypesHold, RowsAtFirst, RowsStep, PTL DEF HourlySpec

-----------------------------------------------------------------------------
(* The bar an order waits for *)

\* A request that no match ran beside has chosen a bar that is still to be matched.
Asked(o) ==
    /\ form[o].step # "none" => db.row[o].status = "none"
    /\ o \notin raced /\ form[o].step # "none" =>
          /\ phase \in {"idle", "done"}
          /\ form[o].step = "fills" => clock >= Frontier
          /\ form[o].step = "dated" => form[o].bar >= Frontier

Waits(r) == r.status = "pending" => r.on >= Frontier

\* An order that the match has taken, or that was not its to take.
Ahead(o) == o \notin raced /\ view.row[o].status = "pending" => view.row[o].on >= clock + 1

WaitsInv ==
    /\ \A o \in Orders : Asked(o) /\ (o \notin raced => Waits(db.row[o]))
    /\ phase = "orders" => \A o \in Orders \ todo : Ahead(o)

\* A row that says none is not one the match has written.
LEMMA Unwritten ==
  ASSUME RowsInv, phase = "orders", NEW o \in Orders, db.row[o].status = "none"
  PROVE  o \notin locked /\ view.row[o] = db.row[o]
  BY DEF RowsInv, Taking

LEMMA OnInt ==
  ASSUME TypeInv, NEW o \in Orders
  PROVE  db.row[o].on \in Int /\ view.row[o].on \in Int /\ form[o].bar \in Int
  BY HourlyAssumption DEF TypeInv, HourlyTypeOK, Tables, Rows, Forms

LEMMA WaitsTry ==
  ASSUME TypeInv, RowsInv, WaitsInv, NEW o \in Orders, TryFill(o) PROVE WaitsInv'
  <1>1. /\ phase = "orders" /\ o \in todo /\ todo' = todo \ {o}
        /\ UNCHANGED <<clock, matched, db, phase, form, raced>>
        /\ view'.row[o].status = "pending" => view'.row[o].on = clock + 1
        /\ \A p \in Orders \ {o} : view'.row[p] = view.row[p]
    BY TryFillRows DEF Took
  <1>2. clock \in Int
    BY ClockIs
  <1>3. ASSUME NEW p \in Orders \ todo' PROVE Ahead(p)'
    <2>1. CASE p = o
      BY <1>1, <1>2, <2>1 DEF Ahead
    <2>2. CASE p # o
      <3>1. Ahead(p)
        BY <1>1, <1>3, <2>2 DEF WaitsInv
      <3> QED BY <1>1, <2>2, <3>1 DEF Ahead
    <2> QED BY <2>1, <2>2
  <1>4. \A p \in Orders : Asked(p)' /\ (p \notin raced' => Waits(db.row[p])')
    BY <1>1 DEF WaitsInv, Asked, Waits, Frontier
  <1> QED BY <1>3, <1>4 DEF WaitsInv

LEMMA WaitsBegin == ASSUME TypeInv, RowsInv, WaitsInv, Begin PROVE WaitsInv'
  <1>1. /\ phase = "idle" /\ phase' = "orders" /\ UNCHANGED <<clock, matched, db, form>>
        /\ view' = db /\ raced' = (raced \ todo') \cup BeingPlaced
        /\ todo' = {o \in Orders : db.row[o].status = "pending" /\ db.row[o].on = clock}
    BY DEF Begin
  <1>2. Frontier = clock /\ Frontier' = clock /\ clock \in Int
    <2>1. matched = clock - 1 /\ clock \in Nat
      BY ClockIs DEF Begin, Matched
    <2> QED BY <1>1, <2>1 DEF Frontier
  <1>3. ASSUME NEW o \in Orders PROVE Asked(o)'
    <2>1. form[o].step # "none" => o \in raced'
      BY <1>1 DEF BeingPlaced
    <2> QED BY <1>1, <2>1 DEF WaitsInv, Asked
  <1>4. ASSUME NEW o \in Orders, o \notin raced'
        PROVE  Waits(db.row[o])' /\ (o \notin todo' => Ahead(o)')
    <2> DEFINE r == db.row[o]
    <2>1. CASE o \in todo'
      <3>1. r.on = clock /\ clock >= clock
        BY <1>1, <1>2, <2>1
      <3> QED BY <1>1, <1>2, <2>1, <3>1 DEF Waits
    <2>2. CASE o \notin todo'
      <3>1. o \notin raced
        BY <1>1, <1>4, <2>2
      <3>2. r.status = "pending" => r.on >= clock /\ r.on # clock
        BY <1>1, <1>2, <2>2, <3>1 DEF WaitsInv, Waits
      <3>3. r.on \in Int
        BY OnInt
      <3> HIDE DEF r
      <3>4. r.status = "pending" => r.on >= clock /\ r.on >= clock + 1
        BY <1>2, <3>2, <3>3
      <3> QED BY <1>1, <1>2, <3>4 DEF Waits, Ahead, r
    <2> QED BY <2>1, <2>2
  <1>5. \A o \in Orders : o \in raced' => Ahead(o)'
    BY DEF Ahead
  <1> QED BY <1>3, <1>4, <1>5 DEF WaitsInv

LEMMA WaitsFinish == ASSUME TypeInv, RowsInv, WaitsInv, Finish PROVE WaitsInv'
  <1>1. /\ phase = "orders" /\ phase' = "record" /\ todo = {} /\ db'.row = view.row
        /\ UNCHANGED <<clock, form, raced>>
    BY FinishWritten DEF Finish
  <1>2. Frontier' = clock + 1
    BY <1>1 DEF Frontier
  <1>3. ASSUME NEW o \in Orders PROVE Asked(o)'
    <2>1. Asked(o)
      BY DEF WaitsInv
    <2>2. form[o].step # "none" => o \in raced /\ view.row[o].status = "none"
      <3>1. form[o].step # "none" => db.row[o].status = "none" /\ o \in raced
        BY <1>1, <2>1 DEF Asked
      <3> QED BY <1>1, <3>1, Unwritten
    <2> QED BY <1>1, <2>2 DEF Asked
  <1>4. ASSUME NEW o \in Orders, o \notin raced' PROVE Waits(db.row[o])'
    <2>1. Ahead(o)
      BY <1>1 DEF WaitsInv
    <2> QED BY <1>1, <1>2, <1>4, <2>1 DEF Ahead, Waits
  <1> QED BY <1>1, <1>3, <1>4 DEF WaitsInv

LEMMA WaitsMove == ASSUME TypeInv, WaitsInv, Move PROVE WaitsInv'
  <1>1. /\ phase' \in {"idle", "done"} /\ clock <= clock' /\ db' = db
        /\ Frontier \in Int /\ Frontier' \in Int /\ Frontier' <= Frontier
        /\ clock \in Int /\ clock' \in Int
    BY Moves, ClockIs
  <1>2. \/ form' = form /\ raced' = raced
        \/ form' = [o \in Orders |-> NoForm] /\ raced' = raced \ BeingPlaced
    BY DEF Move, Tick, Record, Abort, Restart
  <1>3. ASSUME NEW o \in Orders PROVE Asked(o)' /\ (o \notin raced' => Waits(db.row[o])')
    <2>1. Asked(o) /\ (o \notin raced => Waits(db.row[o]))
          /\ db.row[o].on \in Int /\ form[o].bar \in Int
      BY OnInt DEF WaitsInv
    <2>2. CASE form' = form /\ raced' = raced
      <3>1. o \notin raced' => Waits(db.row[o])'
        BY <1>1, <2>1, <2>2 DEF Waits
      <3>2. Asked(o)'
        <4>1. form[o].step # "none" => db'.row[o].status = "none"
          BY <1>1, <2>1 DEF Asked
        <4>2. ASSUME o \notin raced, form[o].step # "none"
              PROVE  /\ form[o].step = "fills" => clock' >= Frontier'
                     /\ form[o].step = "dated" => form[o].bar >= Frontier'
          BY <1>1, <2>1, <4>2 DEF Asked
        <4> QED BY <1>1, <2>2, <4>1, <4>2 DEF Asked
      <3> QED BY <3>1, <3>2
    <2>3. CASE form' = [p \in Orders |-> NoForm] /\ raced' = raced \ BeingPlaced
      <3>1. form'[o].step = "none"
        BY <2>3 DEF NoForm
      <3>2. ASSUME o \notin raced' PROVE Waits(db.row[o])'
        <4>1. CASE o \in raced
          <5>1. db.row[o].status = "none"
            BY <2>1, <2>3, <3>2, <4>1 DEF Asked, BeingPlaced
          <5> QED BY <1>1, <5>1 DEF Waits
        <4>2. CASE o \notin raced
          BY <1>1, <2>1, <4>2 DEF Waits
        <4> QED BY <4>1, <4>2
      <3> QED BY <3>1, <3>2 DEF Asked
    <2> QED BY <1>2, <2>2, <2>3
  <1> QED BY <1>1, <1>3 DEF WaitsInv

\* The steps of a placement before its insert.
LEMMA WaitsPlace ==
  ASSUME TypeInv, RowsInv, WaitsInv, NEW o \in Orders,
         PlaceChoose(o) \/ PlaceDate(o) \/ PlaceFail(o)
  PROVE  WaitsInv'
  <1>1. /\ UNCHANGED <<clock, matched, db, view, todo, phase>> /\ Frontier' = Frontier
        /\ raced' \subseteq raced \cup {o} /\ raced \subseteq raced' \cup {o}
    BY PlaceSteps DEF Quiet, Frontier
  <1>2. PICK f \in Forms : form' = [form EXCEPT ![o] = f]
    BY PlaceSteps
  <1>3. \A p \in Orders : form'[p] = IF p = o THEN f ELSE form[p]
    BY <1>2 DEF TypeInv, HourlyTypeOK
  <1>4. ASSUME NEW p \in Orders \ {o}
        PROVE  Asked(p)' /\ (p \notin raced' => Waits(db.row[p])')
    <2>1. Asked(p) /\ (p \notin raced => Waits(db.row[p])) /\ (p \in raced' <=> p \in raced)
      BY <1>1 DEF WaitsInv
    <2> QED BY <1>1, <1>3, <2>1 DEF Asked, Waits
  <1>5. db.row[o].status = "none" /\ Asked(o)
    BY DEF WaitsInv, Asked, PlaceChoose, PlaceDate, PlaceFail
  <1>6. Waits(db.row[o])'
    BY <1>1, <1>5 DEF Waits
  <1>7. Asked(o)'
    <2>1. phase # "record" /\ clock \in Int /\ matched \in Int => Frontier = matched + 1
      BY DEF Frontier
    <2>2. CASE PlaceChoose(o)
      <3>1. /\ phase # "done" /\ form' = [form EXCEPT ![o].step = IF Matched THEN "next" ELSE "fills"]
            /\ raced' = IF phase = "idle" THEN raced ELSE raced \cup {o}
        BY <2>2 DEF PlaceChoose
      <3>2. form'[o].step = IF Matched THEN "next" ELSE "fills"
        BY <3>1 DEF TypeInv, HourlyTypeOK, Forms
      <3>3. o \notin raced' => phase = "idle"
        BY <3>1
      <3>4. phase = "idle" /\ form'[o].step = "fills" => clock >= Frontier
        BY <2>1, <3>2, ClockIs DEF Matched
      <3> QED BY <1>1, <1>5, <3>2, <3>3, <3>4 DEF Asked
    <2>3. CASE PlaceDate(o)
      <3> DEFINE b == IF form[o].step = "fills" THEN clock ELSE clock + 1
      <3>1. /\ form[o].step \in {"fills", "next"} /\ raced' = raced
            /\ form' = [form EXCEPT ![o] = [step |-> "dated", bar |-> b]]
        BY <2>3 DEF PlaceDate
      <3>2. form'[o].step = "dated" /\ form'[o].bar = b
        BY <3>1 DEF TypeInv, HourlyTypeOK
      <3>3. o \notin raced => phase \in {"idle", "done"} /\ b >= Frontier
        <4>1. ASSUME o \notin raced
              PROVE  phase \in {"idle", "done"} /\ (form[o].step = "fills" => clock >= Frontier)
          BY <1>5, <3>1, <4>1 DEF Asked
        <4>2. phase \in {"idle", "done"} => clock + 1 >= Frontier
          BY <2>1, ClockIs
        <4> QED BY <4>1, <4>2
      <3> HIDE DEF b
      <3> QED BY <1>1, <1>5, <3>1, <3>2, <3>3 DEF Asked
    <2>4. CASE PlaceFail(o)
      <3>1. form'[o].step = "none"
        BY <2>4 DEF PlaceFail, NoForm, TypeInv, HourlyTypeOK
      <3> QED BY <3>1 DEF Asked
    <2> QED BY <2>2, <2>3, <2>4
  <1>8. ASSUME phase = "orders", NEW p \in Orders \ todo PROVE Ahead(p)'
    <2>1. Ahead(p)
      BY <1>8 DEF WaitsInv
    <2>2. CASE p # o
      BY <1>1, <2>1, <2>2 DEF Ahead
    <2>3. CASE p = o
      <3>1. view.row[o].status = "none"
        BY <1>5, <1>8, Unwritten
      <3> QED BY <1>1, <2>3, <3>1 DEF Ahead
    <2> QED BY <2>2, <2>3
  <1> QED BY <1>1, <1>4, <1>6, <1>7, <1>8 DEF WaitsInv

LEMMA WaitsRequest ==
  ASSUME TypeInv, RowsInv, WaitsInv, NEW o \in Orders, PlaceInsert(o) \/ Cancel(o)
  PROVE  WaitsInv'
  <1>1. /\ UNCHANGED <<clock, matched, todo, phase>> /\ Frontier' = Frontier
        /\ \A p \in Orders \ {o} : /\ db'.row[p] = db.row[p] /\ form'[p] = form[p]
                                   /\ phase = "orders" => view'.row[p] = view.row[p]
                                   /\ p \in raced' <=> p \in raced
        /\ form'[o].step = "none"
    <2>1. /\ UNCHANGED <<clock, matched, todo, phase>>
          /\ \A p \in Orders \ {o} : /\ db'.row[p] = db.row[p]
                                     /\ phase = "orders" => view'.row[p] = view.row[p]
      <3> DEFINE r(t, b) == IF PlaceInsert(o) THEN New(o, b)
                            ELSE [t.row[o] EXCEPT !.status = "canceled"]
      <3>1. PICK b \in Bars :
              /\ db'.row = [db.row EXCEPT ![o] = r(db, b)]
              /\ phase = "orders" => view'.row = [view.row EXCEPT ![o] = r(view, b)]
              /\ UNCHANGED <<clock, matched, todo, phase>>
        BY RequestStep
      <3>2. db.row \in [Orders -> Rows] /\ view.row \in [Orders -> Rows]
        BY DEF TypeInv, HourlyTypeOK, Tables
      <3> HIDE DEF r
      <3> QED BY <3>1, <3>2
    <2>2. form \in [Orders -> Forms]
      BY DEF TypeInv, HourlyTypeOK
    <2>3. CASE PlaceInsert(o)
      <3>1. form' = [form EXCEPT ![o] = NoForm] /\ raced' = raced
        BY <2>3 DEF PlaceInsert
      <3> QED BY <2>1, <2>2, <3>1 DEF Frontier, NoForm
    <2>4. CASE Cancel(o)
      <3>1. form' = form /\ raced' = raced \ {o} /\ db.row[o].status = "pending"
        BY <2>4 DEF Cancel
      <3>2. form[o].step = "none"
        BY <3>1 DEF WaitsInv, Asked
      <3> QED BY <2>1, <3>1, <3>2 DEF Frontier
    <2> QED BY <2>3, <2>4
  <1>2. ASSUME NEW p \in Orders \ {o}
        PROVE  Asked(p)' /\ (p \notin raced' => Waits(db.row[p])')
    <2>1. Asked(p) /\ (p \notin raced => Waits(db.row[p]))
      BY DEF WaitsInv
    <2> QED BY <1>1, <2>1 DEF Asked, Waits
  <1>3. Asked(o)'
    BY <1>1 DEF Asked
  <1>4. ASSUME NEW p \in Orders \ ({o} \cup todo), phase = "orders" PROVE Ahead(p)'
    BY <1>1, <1>4 DEF WaitsInv, Ahead
  <1>5. o \notin raced' => Waits(db.row[o])' /\ (phase = "orders" => Ahead(o)')
    <2>1. CASE PlaceInsert(o)
      <3>1. PICK b \in Bars : /\ db'.row = [db.row EXCEPT ![o] = New(o, b)] /\ b = form[o].bar
                              /\ Placed(o)
        BY <2>1, RequestStep
      <3>2. db'.row[o].on = b
        BY <3>1 DEF New, NoRow, TypeInv, HourlyTypeOK, Tables
      <3>3. o \notin raced' => phase \in {"idle", "done"} /\ b >= Frontier
        BY <3>1 DEF WaitsInv, Asked, Placed
      <3> QED BY <1>1, <3>2, <3>3 DEF Waits
    <2>2. CASE ~PlaceInsert(o)
      <3>1. PICK b \in Bars :
              /\ db'.row = [db.row EXCEPT ![o] = [db.row[o] EXCEPT !.status = "canceled"]]
              /\ phase = "orders" =>
                    view'.row = [view.row EXCEPT ![o] = [view.row[o] EXCEPT !.status = "canceled"]]
        BY <2>2, RequestStep
      <3>2. db.row \in [Orders -> Rows] /\ view.row \in [Orders -> Rows]
        BY DEF TypeInv, HourlyTypeOK, Tables
      <3>3. db'.row[o].status = "canceled" /\ (phase = "orders" => view'.row[o].status = "canceled")
        BY <3>1, <3>2 DEF Rows
      <3> QED BY <3>3 DEF Waits, Ahead
    <2> QED BY <2>1, <2>2
  <1>6. o \in raced' => Ahead(o)'
    BY DEF Ahead
  <1> QED BY <1>1, <1>2, <1>3, <1>4, <1>5, <1>6 DEF WaitsInv

LEMMA WaitsStep ==
  ASSUME TypeInv, RowsInv, WaitsInv, [HourlyNext]_hourlyVars PROVE WaitsInv'
  <1>1. CASE Disqualify \/ UNCHANGED hourlyVars
    BY <1>1 DEF Disqualify, hourlyVars, WaitsInv, Asked, Waits, Ahead, Frontier
  <1> QED BY <1>1, WaitsTry, WaitsBegin, WaitsFinish, WaitsMove, WaitsPlace, WaitsRequest
          DEF HourlyNext, PlaceOrder, Move

LEMMA WaitsAtFirst == HourlyInit => WaitsInv
  BY DEF HourlyInit, WaitsInv, Asked, Waits, Empty, NoRow, NoForm

LEMMA WaitsHold == HourlySpec => []WaitsInv
  BY TypesHold, RowsHold, WaitsAtFirst, WaitsStep, PTL DEF HourlySpec

\* What a trade is, in the words of the properties.
LEMMA Words ==
  ASSUME TypeInv, NEW o \in Orders
  PROVE  Executed(o) = Total(db.traded[o])
  BY DEF Executed, TradedIn, Total

\* The row of an order tells what it traded, through any number of bars and of
\* failures, with the two exceptions of SlicesAddUp (ApplySliceFill, MarkFilled).
THEOREM SlicesKeepAddingUp == HourlySpec => []SlicesAddUp
  <1>1. ASSUME TypeInv, RowsInv PROVE SlicesAddUp
    <2>1. ASSUME NEW o \in Orders
          PROVE  LET r == db.row[o] IN
             /\ Executed(o) <= Qty[o]
             /\ r.status \in {"pending", "rejected"} =>
                   r.filled = Executed(o) /\ r.filled + r.left = Qty[o]
             /\ r.status = "canceled" => r.filled <= Executed(o) /\ r.filled + r.left = Qty[o]
             /\ r.status = "filled" => r.left = 0 /\ Executed(o) > 0
             /\ r.status = "filled" /\ r.filled # Executed(o) =>
                   r.filled = Qty[o] /\ Cardinality(TradedBars(o)) = 1
      <3>1. RowAdds(db.row[o], db.traded[o], o) /\ Executed(o) = Total(db.traded[o])
        BY <1>1, Words DEF RowsInv, Sound
      <3>2. ASSUME NEW b \in Bars, {a \in Bars : db.traded[o][a] > 0} = {b}
            PROVE  Cardinality(TradedBars(o)) = 1
        BY <3>2, FS_Singleton DEF TradedBars
      <3> QED BY <3>1, <3>2 DEF RowAdds
    <2> QED BY <2>1 DEF SlicesAddUp
  <1> QED BY <1>1, TypesHold, RowsHold, PTL

\* No order trades more at a bar than its share of the volume, however often the bar
\* is matched (ParticipationCap).
THEOREM ParticipationIsCapped == HourlySpec => []WithinParticipation
  <1>1. RowsInv => WithinParticipation
    BY DEF RowsInv, Sound, RowDays, WithinParticipation
  <1> QED BY <1>1, RowsHold, PTL

\* An order lives for one session, and the bar it waits for is of its date and still to
\* be matched, through moves, failures and restarts, unless a match ran while it was being
\* placed (UpdateMatchOnTs, day_order_expired, OrderFillsOnCurrentDate).
THEOREM OrdersLiveForADay == HourlySpec => []DayOrders
  <1>1. ASSUME TypeInv, RowsInv, WaitsInv PROVE DayOrders
    <2> SUFFICES ASSUME NEW o \in Orders
                 PROVE  LET r == db.row[o] IN
                        /\ \A a, b \in TradedBars(o) : Session[a] = Session[b]
                        /\ r.status = "pending" =>
                              /\ Session[r.on] = r.date
                              /\ \A b \in TradedBars(o) : Session[b] = r.date
                              /\ r.on > matched \/ o \in raced
      BY DEF DayOrders
    <2>1. RowDays(db.row[o], db.traded[o], o, clock)
      BY <1>1 DEF RowsInv, Sound
    <2>2. db.row[o].status = "pending" /\ o \notin raced => db.row[o].on > matched
      <3>1. db.row[o].status = "pending" /\ o \notin raced => db.row[o].on >= Frontier
        BY <1>1 DEF WaitsInv, Waits
      <3>2. Frontier > matched /\ Frontier \in Int /\ matched \in Int /\ db.row[o].on \in Int
        BY <1>1, ClockIs, OnInt DEF Frontier
      <3> QED BY <3>1, <3>2
    <2> QED BY <2>1, <2>2 DEF RowDays, TradedBars
  <1> QED BY <1>1, TypesHold, RowsHold, WaitsHold, PTL

-----------------------------------------------------------------------------
(* What a set of orders traded at a set of bars, from the trades of every order *)

In(f, o, bars) == SumFunctionOnSet(f[o], bars)
By(f, orders, bars) == SumFunctionOnSet([o \in Orders |-> In(f, o, bars)], orders)
NetOf(f, bars) == By(f, Buys, bars) - By(f, Orders \ Buys, bars)

Trades == [Orders -> [Bars -> Nat]]

LEMMA Subsets ==
  ASSUME NEW orders \in SUBSET Orders, NEW bars \in SUBSET Bars
  PROVE  IsFiniteSet(orders) /\ IsFiniteSet(bars)
  BY FiniteSets, FS_Subset

LEMMA ByType ==
  ASSUME NEW f \in Trades, NEW orders \in SUBSET Orders, NEW bars \in SUBSET Bars
  PROVE  /\ \A o \in Orders : In(f, o, bars) \in Nat
         /\ By(f, orders, bars) \in Nat /\ NetOf(f, bars) \in Int
  <1>1. ASSUME NEW o \in Orders PROVE In(f, o, bars) \in Nat
    <2>1. IsFiniteSet(bars) /\ \A b \in bars : f[o][b] \in Nat
      BY Subsets DEF Trades
    <2> QED BY <2>1, SumNat DEF In
  <1>2. ASSUME NEW some \in SUBSET Orders PROVE By(f, some, bars) \in Nat
    <2> DEFINE g == [o \in Orders |-> In(f, o, bars)]
    <2>1. IsFiniteSet(some) /\ \A o \in some : g[o] \in Nat
      BY <1>1, Subsets
    <2> HIDE DEF g
    <2>2. SumFunctionOnSet(g, some) \in Nat
      BY <2>1, SumNat
    <2> QED BY <2>2 DEF By, g
  <1>3. Buys \in SUBSET Orders /\ Orders \ Buys \in SUBSET Orders
    BY FiniteSets
  <1>4. By(f, Buys, bars) \in Nat /\ By(f, Orders \ Buys, bars) \in Nat
    BY <1>2, <1>3
  <1> QED BY <1>1, <1>2, <1>4 DEF NetOf

\* One trade more.
OneMore(f, o, b, q) == [f EXCEPT ![o] = Plus(f[o], b, q)]

LEMMA ByPlus ==
  ASSUME NEW f \in Trades, NEW o \in Orders, NEW b \in Bars, NEW q \in Nat,
         NEW e, e = OneMore(f, o, b, q),
         NEW orders \in SUBSET Orders, NEW bars \in SUBSET Bars
  PROVE  By(e, orders, bars) = By(f, orders, bars) + IF o \in orders /\ b \in bars THEN q ELSE 0
  <1> DEFINE n == IF b \in bars THEN q ELSE 0
             g == [p \in Orders |-> In(f, p, bars)]
             h == [p \in Orders |-> In(e, p, bars)]
  <1>1. IsFiniteSet(orders) /\ IsFiniteSet(bars)
    BY Subsets
  <1>2. /\ \A p \in Orders \ {o} : e[p] = f[p]
        /\ e[o] = Plus(f[o], b, q)
    BY DEF Trades, OneMore
  <1>3. In(e, o, bars) = In(f, o, bars) + n
    <2> DEFINE x == f[o]
               y == e[o]
    <2>1. \A a \in bars : x[a] \in Int /\ y[a] = IF a = b THEN x[a] + q ELSE x[a]
      BY <1>2 DEF Plus, Trades
    <2>2. q \in Int
      OBVIOUS
    <2>3. SumFunctionOnSet(x, bars) \in Int
      <3>1. \A a \in bars : x[a] \in Int
        BY <2>1
      <3> HIDE DEF x
      <3> QED BY <1>1, <3>1, SumType
    <2>4. CASE b \in bars
      <3> HIDE DEF x, y
      <3>1. SumFunctionOnSet(y, bars) = SumFunctionOnSet(x, bars) + q
        BY <1>1, <2>1, <2>2, <2>4, SumUpdate
      <3> QED BY <2>4, <3>1 DEF In, x, y
    <2>5. CASE b \notin bars
      <3>1. \A a \in bars : x[a] \in Int /\ y[a] = x[a]
        BY <2>1, <2>5
      <3> HIDE DEF x, y
      <3>2. SumFunctionOnSet(y, bars) = SumFunctionOnSet(x, bars)
        BY <1>1, <3>1, SumAgree
      <3>3. SumFunctionOnSet(y, bars) = SumFunctionOnSet(x, bars) + 0
        BY <2>3, <3>2
      <3> QED BY <2>5, <3>3 DEF In, x, y
    <2> QED BY <2>4, <2>5
  <1>4. \A p \in Orders : g[p] \in Int /\ h[p] = IF p = o THEN g[p] + n ELSE g[p]
    <2>1. \A p \in Orders : In(f, p, bars) \in Int
      BY ByType
    <2>2. \A p \in Orders \ {o} : In(e, p, bars) = In(f, p, bars)
      BY <1>2 DEF In
    <2> QED BY <1>3, <2>1, <2>2
  <1>5. n \in Int
    OBVIOUS
  <1>6. (o \in orders => n = IF o \in orders /\ b \in bars THEN q ELSE 0)
    OBVIOUS
  <1>7. By(f, orders, bars) = SumFunctionOnSet(g, orders)
        /\ By(e, orders, bars) = SumFunctionOnSet(h, orders)
    BY DEF By
  <1>8. By(f, orders, bars) \in Nat
    BY ByType
  <1>9. CASE o \in orders
    <2>1. SumFunctionOnSet(h, orders) = SumFunctionOnSet(g, orders) + n
      <3>1. \A p \in orders : g[p] \in Int /\ h[p] = IF p = o THEN g[p] + n ELSE g[p]
        BY <1>4
      <3> HIDE DEF g, h, n
      <3> QED BY <1>1, <1>5, <1>9, <3>1, SumUpdate
    <2> QED BY <1>6, <1>7, <1>9, <2>1
  <1>10. CASE o \notin orders
    <2>1. SumFunctionOnSet(h, orders) = SumFunctionOnSet(g, orders)
      <3>1. \A p \in orders : g[p] \in Int /\ h[p] = g[p]
        BY <1>4, <1>10
      <3> HIDE DEF g, h
      <3> QED BY <1>1, <3>1, SumAgree
    <2> QED BY <1>7, <1>8, <1>10, <2>1
  <1> QED BY <1>9, <1>10

LEMMA NetPlus ==
  ASSUME NEW f \in Trades, NEW o \in Orders, NEW b \in Bars, NEW q \in Nat,
         NEW e, e = OneMore(f, o, b, q), NEW bars \in SUBSET Bars
  PROVE  /\ b \in bars /\ o \in Buys => NetOf(e, bars) = NetOf(f, bars) + q
         /\ b \in bars /\ o \notin Buys => NetOf(e, bars) = NetOf(f, bars) - q
         /\ b \notin bars => NetOf(e, bars) = NetOf(f, bars)
  <1>1. Buys \in SUBSET Orders /\ Orders \ Buys \in SUBSET Orders
    BY FiniteSets
  <1>2. By(f, Buys, bars) \in Nat /\ By(f, Orders \ Buys, bars) \in Nat
    BY <1>1, ByType
  <1>3. \A orders \in SUBSET Orders :
          By(e, orders, bars) = By(f, orders, bars) + IF o \in orders /\ b \in bars THEN q ELSE 0
    <2> SUFFICES ASSUME NEW orders \in SUBSET Orders
                 PROVE  By(e, orders, bars)
                          = By(f, orders, bars) + IF o \in orders /\ b \in bars THEN q ELSE 0
      OBVIOUS
    <2> QED BY ByPlus
  <1>4. By(e, Buys, bars) = By(f, Buys, bars) + IF o \in Buys /\ b \in bars THEN q ELSE 0
    BY <1>1, <1>3
  <1>5. By(e, Orders \ Buys, bars)
          = By(f, Orders \ Buys, bars) + IF o \in Orders \ Buys /\ b \in bars THEN q ELSE 0
    BY <1>1, <1>3
  <1> QED BY <1>2, <1>4, <1>5 DEF NetOf

\* Bars without a trade may be left out.
LEMMA BySupport ==
  ASSUME NEW f \in Trades, NEW bars \in SUBSET Bars, NEW part \in SUBSET bars,
         \A o \in Orders : \A b \in bars \ part : f[o][b] = 0
  PROVE  /\ \A orders \in SUBSET Orders : By(f, orders, bars) = By(f, orders, part)
         /\ NetOf(f, bars) = NetOf(f, part)
  <1>1. ASSUME NEW o \in Orders PROVE In(f, o, bars) = In(f, o, part)
    <2> DEFINE x == f[o]
    <2>1. /\ IsFiniteSet(bars) /\ \A b \in bars : x[b] \in Int
          /\ \A b \in bars \ part : x[b] = 0
      <3>1. IsFiniteSet(bars)
        <4>1. Orders \in SUBSET Orders
          OBVIOUS
        <4> QED BY <4>1, Subsets
      <3>2. \A b \in bars : x[b] \in Int
        BY DEF Trades
      <3> QED BY <3>1, <3>2
    <2> HIDE DEF x
    <2>2. SumFunctionOnSet(x, bars) = SumFunctionOnSet(x, part)
      BY <2>1, SumSupport
    <2> QED BY <2>2 DEF In, x
  <1>2. [o \in Orders |-> In(f, o, bars)] = [o \in Orders |-> In(f, o, part)]
    BY <1>1
  <1> QED BY <1>2 DEF By, NetOf

LEMMA BySplit ==
  ASSUME NEW f \in Trades, NEW a \in SUBSET Bars, NEW b \in SUBSET Bars, a \cap b = {}
  PROVE  /\ \A orders \in SUBSET Orders :
               By(f, orders, a \cup b) = By(f, orders, a) + By(f, orders, b)
         /\ NetOf(f, a \cup b) = NetOf(f, a) + NetOf(f, b)
  <1>1. ASSUME NEW o \in Orders
        PROVE  In(f, o, a \cup b) = In(f, o, a) + In(f, o, b)
               /\ In(f, o, a) \in Int /\ In(f, o, b) \in Int
    <2> DEFINE x == f[o]
    <2>1. IsFiniteSet(a) /\ IsFiniteSet(b) /\ \A y \in a \cup b : x[y] \in Int
      <3>1. Orders \in SUBSET Orders
        OBVIOUS
      <3>2. IsFiniteSet(a) /\ IsFiniteSet(b)
        BY <3>1, Subsets
      <3>3. \A y \in a \cup b : x[y] \in Int
        BY DEF Trades
      <3> QED BY <3>2, <3>3
    <2> HIDE DEF x
    <2>2. SumFunctionOnSet(x, a \cup b) = SumFunctionOnSet(x, a) + SumFunctionOnSet(x, b)
      BY <2>1, SumSplit
    <2> QED BY <2>2, ByType DEF In, x
  <1>2. ASSUME NEW orders \in SUBSET Orders
        PROVE  By(f, orders, a \cup b) = By(f, orders, a) + By(f, orders, b)
    <2> DEFINE d == [o \in Orders |-> In(f, o, a \cup b)]
               x == [o \in Orders |-> In(f, o, a)]
               y == [o \in Orders |-> In(f, o, b)]
    <2>1. IsFiniteSet(orders) /\ \A o \in orders : x[o] \in Int /\ y[o] \in Int /\ d[o] = x[o] + y[o]
      BY <1>1, Subsets
    <2> HIDE DEF d, x, y
    <2>2. SumFunctionOnSet(d, orders) = SumFunctionOnSet(x, orders) + SumFunctionOnSet(y, orders)
      BY <2>1, SumPlus
    <2> QED BY <2>2 DEF By, d, x, y
  <1>3. Buys \in SUBSET Orders /\ Orders \ Buys \in SUBSET Orders
    BY FiniteSets
  <1>4. /\ By(f, Buys, a) \in Nat /\ By(f, Orders \ Buys, a) \in Nat
        /\ By(f, Buys, b) \in Nat /\ By(f, Orders \ Buys, b) \in Nat
    BY <1>3, ByType
  <1>5. /\ By(f, Buys, a \cup b) = By(f, Buys, a) + By(f, Buys, b)
        /\ By(f, Orders \ Buys, a \cup b) = By(f, Orders \ Buys, a) + By(f, Orders \ Buys, b)
    BY <1>2, <1>3
  <1>6. NetOf(f, a \cup b) = NetOf(f, a) + NetOf(f, b)
    BY <1>4, <1>5 DEF NetOf
  <1> QED BY <1>2, <1>6

-----------------------------------------------------------------------------
(* The position is what the orders traded *)

\* What the steps on one order make of the position and of the trades.
LEMMA TryFillTrades ==
  ASSUME TypeInv, NEW o \in Orders, TryFill(o)
  PROVE  /\ phase = "orders" /\ Took(o, view') /\ o \in todo /\ clock \in Bars
         /\ view'.snap = view.snap /\ view.traded \in Trades /\ view.held \in Nat
         /\ view'.traded \in Trades /\ view'.held \in Nat
         /\ \/ /\ view'.traded = view.traded /\ view'.held = view.held
               /\ view'.delivery = view.delivery
            \/ \E q \in Nat \ {0} :
                  /\ view'.traded = OneMore(view.traded, o, clock, q)
                  /\ \/ /\ o \in Buys /\ view'.held = view.held + q
                        /\ view'.delivery = view.delivery
                     \/ /\ o \notin Buys /\ view'.held = view.held - q
                        /\ view'.delivery = [view.delivery EXCEPT
                                               ![Session[clock]] = @ + DeliveryPart(clock, q)]
  <1>1. phase = "orders" /\ o \in todo
    BY DEF TryFill, Reject, Defer, BuySlice, SellSlice, Working
  <1>2. view' \in Tables /\ Took(o, view')
    BY <1>1, RowStep, BuyWritten, SellWritten DEF TryFill
  <1>3. /\ clock \in Bars /\ view.traded \in Trades /\ view.held \in Nat
        /\ view'.traded \in Trades /\ view'.held \in Nat
    BY <1>1, <1>2, ClockIs DEF TypeInv, HourlyTypeOK, Tables, Trades
  <1>4. CASE Reject(o) \/ Defer(o)
    BY <1>1, <1>2, <1>3, <1>4, RowStep
  <1> DEFINE q == Slice(o, clock)
  <1>5. CASE BuySlice(o)
    <2>1. /\ q \in Nat \ {0} /\ view'.held = view.held + q
          /\ view'.traded = [view.traded EXCEPT ![o] = Plus(view.traded[o], clock, q)]
          /\ view'.snap = view.snap /\ view'.delivery = view.delivery
      BY <1>1, <1>5, BuyWritten
    <2>2. o \in Buys
      BY <1>5 DEF BuySlice
    <2>3. view'.traded = OneMore(view.traded, o, clock, q)
      BY <2>1 DEF OneMore
    <2> HIDE DEF q
    <2> QED BY <1>1, <1>2, <1>3, <2>1, <2>2, <2>3
  <1>6. CASE SellSlice(o)
    <2>1. /\ q \in Nat \ {0} /\ view'.held = view.held - q
          /\ view'.traded = [view.traded EXCEPT ![o] = Plus(view.traded[o], clock, q)]
          /\ view'.snap = view.snap
          /\ view'.delivery = [view.delivery EXCEPT ![Session[clock]] = @ + DeliveryPart(clock, q)]
      BY <1>1, <1>6, SellWritten
    <2>2. o \notin Buys
      BY <1>6 DEF SellSlice
    <2>3. view'.traded = OneMore(view.traded, o, clock, q)
      BY <2>1 DEF OneMore
    <2> HIDE DEF q
    <2> QED BY <1>1, <1>2, <1>3, <2>1, <2>2, <2>3
  <1> QED BY <1>4, <1>5, <1>6 DEF TryFill

LEMMA RequestKeeps ==
  ASSUME TypeInv, NEW o \in Orders, PlaceInsert(o) \/ Cancel(o)
  PROVE  /\ db'.held = db.held /\ db'.traded = db.traded /\ db'.snap = db.snap
         /\ db'.delivery = db.delivery
         /\ phase = "orders" => /\ view'.held = view.held /\ view'.traded = view.traded
                                /\ view'.snap = view.snap /\ view'.delivery = view.delivery
         /\ UNCHANGED <<clock, matched, phase, dq, last>>
  BY RequestStep

HeldInv ==
    /\ db.held = NetOf(db.traded, Bars)
    /\ phase = "orders" => view.held = NetOf(view.traded, Bars)

LEMMA HeldStep ==
  ASSUME TypeInv, HeldInv, [HourlyNext]_hourlyVars PROVE HeldInv'
  <1>1. ASSUME NEW o \in Orders, TryFill(o) PROVE HeldInv'
    <2>1. /\ phase = "orders" /\ UNCHANGED <<db, phase>> /\ clock \in Bars
          /\ view.traded \in Trades /\ view.held \in Nat /\ view.held = NetOf(view.traded, Bars)
      BY <1>1, TryFillTrades DEF Took, HeldInv
    <2>2. CASE view'.traded = view.traded /\ view'.held = view.held
      BY <2>1, <2>2 DEF HeldInv
    <2>3. ASSUME NEW q \in Nat \ {0}, view'.traded = OneMore(view.traded, o, clock, q),
                 \/ o \in Buys /\ view'.held = view.held + q
                 \/ o \notin Buys /\ view'.held = view.held - q
          PROVE  view'.held = NetOf(view'.traded, Bars)
      <3> DEFINE e == view'.traded
                 f == view.traded
      <3>1. e = OneMore(f, o, clock, q) /\ f \in Trades /\ q \in Nat /\ Bars \in SUBSET Bars
        BY <2>1, <2>3
      <3> HIDE DEF e, f
      <3>2. /\ o \in Buys => NetOf(e, Bars) = NetOf(f, Bars) + q
            /\ o \notin Buys => NetOf(e, Bars) = NetOf(f, Bars) - q
        BY <2>1, <3>1, NetPlus
      <3> QED BY <2>1, <2>3, <3>2 DEF e, f
    <2>4. view'.held = NetOf(view'.traded, Bars)
      BY <1>1, <2>1, <2>2, <2>3, TryFillTrades
    <2> QED BY <2>1, <2>4 DEF HeldInv
  <1>2. CASE Begin
    BY <1>2 DEF Begin, HeldInv
  <1>3. CASE Finish
    <2>1. phase = "orders" /\ phase' = "record" /\ db' = Snapshots
      BY <1>3 DEF Finish, Over
    <2> QED BY <2>1, FinishWritten DEF HeldInv
  <1>4. CASE Move
    BY <1>4, Moves DEF HeldInv
  <1>5. ASSUME NEW o \in Orders, PlaceInsert(o) \/ Cancel(o) PROVE HeldInv'
    BY <1>5, RequestKeeps DEF HeldInv
  <1>6. CASE Disqualify \/ UNCHANGED hourlyVars
    BY <1>6 DEF Disqualify, hourlyVars, HeldInv
  <1>7. ASSUME NEW o \in Orders, PlaceChoose(o) \/ PlaceDate(o) \/ PlaceFail(o) PROVE HeldInv'
    BY <1>7, PlaceSteps DEF Quiet, HeldInv
  <1> QED BY <1>1, <1>2, <1>3, <1>4, <1>5, <1>6, <1>7 DEF HourlyNext, PlaceOrder, Move

LEMMA ByZero ==
  ASSUME NEW f, NEW orders \in SUBSET Orders, NEW bars \in SUBSET Bars,
         \A o \in Orders, b \in bars : f[o][b] = 0
  PROVE  By(f, orders, bars) = 0
  <1> DEFINE g == [o \in Orders |-> In(f, o, bars)]
  <1>1. ASSUME NEW o \in Orders PROVE In(f, o, bars) = 0
    <2> DEFINE x == f[o]
    <2>1. IsFiniteSet(bars) /\ \A b \in bars : x[b] = 0
      BY Subsets
    <2> HIDE DEF x
    <2> QED BY <2>1, SumZero DEF In, x
  <1>2. IsFiniteSet(orders) /\ \A o \in orders : g[o] = 0
    BY <1>1, Subsets
  <1> HIDE DEF g
  <1>3. SumFunctionOnSet(g, orders) = 0
    BY <1>2, SumZero
  <1> QED BY <1>3 DEF By, g

\* Before the first match nothing is traded.
LEMMA NothingTraded ==
  /\ Empty.traded \in Trades
  /\ \A bars \in SUBSET Bars : /\ By(Empty.traded, Orders \ Buys, bars) = 0
                               /\ NetOf(Empty.traded, bars) = 0
  <1> DEFINE f == Empty.traded
  <1>1. f \in Trades /\ \A o \in Orders, b \in Bars : f[o][b] = 0
    BY DEF Empty, Trades
  <1> HIDE DEF f
  <1>2. ASSUME NEW bars \in SUBSET Bars
        PROVE  By(f, Buys, bars) = 0 /\ By(f, Orders \ Buys, bars) = 0
    <2>1. Buys \in SUBSET Orders /\ Orders \ Buys \in SUBSET Orders
      BY FiniteSets
    <2>2. \A o \in Orders, b \in bars : f[o][b] = 0
      BY <1>1
    <2> QED BY <2>1, <2>2, ByZero
  <1>3. ASSUME NEW bars \in SUBSET Bars PROVE NetOf(f, bars) = 0
    BY <1>2 DEF NetOf
  <1> QED BY <1>1, <1>2, <1>3 DEF f

LEMMA HeldAtFirst == HourlyInit => HeldInv
  <1>1. Empty.held = 0 /\ NetOf(Empty.traded, Bars) = 0
    <2>1. Bars \in SUBSET Bars
      OBVIOUS
    <2> QED BY <2>1, NothingTraded DEF Empty
  <1> QED BY <1>1 DEF HourlyInit, HeldInv

LEMMA HeldHold == HourlySpec => []HeldInv
  BY TypesHold, HeldAtFirst, HeldStep, PTL DEF HourlySpec

-----------------------------------------------------------------------------
(* The snapshots *)

\* The sessions whose last match is over.
Closed(s) == \A b \in Of(s) : b < Frontier

SnapsOf(t) == \A s \in Sessions : Closed(s) => t.snap[s] = NetOf(t.traded, Until(s))

SnapInv == ~dq => SnapsOf(db) /\ (phase = "orders" => SnapsOf(view))

LEMMA AtMatch == ASSUME TypeInv, phase = "orders" PROVE Frontier = clock
  BY ClockIs DEF Frontier

\* The bar of the clock is in no session that is over, nor before one.
LEMMA ClosedIsBehind ==
  ASSUME TypeInv, phase = "orders", NEW s \in Sessions, Closed(s)
  PROVE  clock \notin Until(s) /\ Session[clock] # s
  <1>1. PICK b \in Bars : s = Session[b]
    BY DEF Sessions
  <1>0. Frontier = clock
    BY AtMatch
  <1>2. b < clock /\ b \in Nat /\ clock \in Nat
    BY <1>0, <1>1, Calendar, ClockIs DEF Closed, Of
  <1>3. s <= Session[clock] /\ s \in Nat /\ Session[clock] \in Nat
    <2>1. b <= clock /\ clock \in Bars
      BY <1>2, ClockIs
    <2> QED BY <1>1, <2>1, Calendar, HourlyAssumption
  <1>4. Session[clock] # s
    BY <1>0, <1>2, ClockIs DEF Closed, Of
  <1> QED BY <1>3, <1>4 DEF Until

LEMMA SnapsTry ==
  ASSUME TypeInv, SnapInv, NEW o \in Orders, TryFill(o) PROVE SnapInv'
  <1>1. /\ phase = "orders" /\ UNCHANGED <<clock, matched, db, phase, dq>> /\ clock \in Bars
        /\ view.traded \in Trades /\ view'.snap = view.snap
    BY TryFillTrades DEF Took
  <1>2. SUFFICES ASSUME ~dq PROVE SnapsOf(view')
    BY <1>1 DEF SnapInv, SnapsOf, Closed, Frontier
  <1>3. SnapsOf(view)
    BY <1>1, <1>2 DEF SnapInv
  <1>4. CASE view'.traded = view.traded
    BY <1>1, <1>3, <1>4 DEF SnapsOf
  <1>5. ASSUME NEW q \in Nat \ {0}, view'.traded = OneMore(view.traded, o, clock, q)
        PROVE  SnapsOf(view')
    <2>1. ASSUME NEW s \in Sessions, Closed(s)
          PROVE  NetOf(view'.traded, Until(s)) = NetOf(view.traded, Until(s))
      <3> DEFINE e == view'.traded
                 f == view.traded
      <3>1. e = OneMore(f, o, clock, q) /\ f \in Trades /\ q \in Nat /\ Until(s) \in SUBSET Bars
        BY <1>1, <1>5 DEF Until
      <3>2. clock \notin Until(s)
        BY <1>1, <2>1, ClosedIsBehind
      <3> HIDE DEF e, f
      <3>3. NetOf(e, Until(s)) = NetOf(f, Until(s))
        BY <1>1, <3>1, <3>2, NetPlus
      <3> QED BY <3>3 DEF e, f
    <2> QED BY <1>1, <1>3, <2>1 DEF SnapsOf
  <1> QED BY <1>4, <1>5, TryFillTrades

\* No trade is of a bar after the clock's.
LEMMA TradesAreBehind ==
  ASSUME TypeInv, RowsInv, phase = "orders", NEW bars \in SUBSET Bars,
         \A b \in Bars : b <= clock => b \in bars
  PROVE  NetOf(view.traded, Bars) = NetOf(view.traded, bars)
  <1> DEFINE f == view.traded
  <1>1. f \in Trades
    BY DEF TypeInv, HourlyTypeOK, Tables, Trades
  <1>2. ASSUME NEW o \in Orders, NEW b \in Bars \ bars PROVE f[o][b] = 0
    <2>1. ~(f[o][b] > 0)
      BY DEF RowsInv, Sound, RowDays
    <2>2. f[o][b] \in Nat
      BY <1>1 DEF Trades
    <2> QED BY <2>1, <2>2
  <1>3. Bars \in SUBSET Bars
    OBVIOUS
  <1> HIDE DEF f
  <1>4. NetOf(f, Bars) = NetOf(f, bars)
    BY <1>1, <1>2, <1>3, BySupport
  <1> QED BY <1>4 DEF f

LEMMA SnapsFinish ==
  ASSUME TypeInv, RowsInv, HeldInv, SnapInv, Finish PROVE SnapInv'
  <1>1. /\ phase = "orders" /\ phase' = "record" /\ db' = Snapshots /\ dq' = dq
        /\ Frontier' = clock + 1 /\ Frontier = clock
    <2>1. /\ phase = "orders" /\ phase' = "record" /\ db' = Snapshots /\ dq' = dq
          /\ clock' = clock
      BY DEF Finish
    <2> QED BY <2>1, AtMatch DEF Frontier
  <1>2. SUFFICES ASSUME ~dq PROVE SnapsOf(db)'
    BY <1>1 DEF SnapInv
  <1>3. /\ clock \in Bars /\ clock \in Nat /\ Session[clock] \in Sessions
        /\ view.snap \in [Sessions -> Nat \cup {-1}] /\ \A b \in Bars : b \in Nat
    BY <1>1, Calendar, ClockIs DEF TypeInv, HourlyTypeOK, Tables
  <1>4. /\ db'.traded = view.traded
        /\ ~last => db'.snap = view.snap
        /\ last => db'.snap = [view.snap EXCEPT ![Session[clock]] = view.held]
    BY <1>1, <1>2, FinishWritten
  <1>5. SnapsOf(view)
    BY <1>1, <1>2 DEF SnapInv
  <1>6. ASSUME NEW s \in Sessions, \A b \in Of(s) : b < clock + 1
        PROVE  db'.snap[s] = NetOf(view.traded, Until(s))
    <2>1. CASE Closed(s)
      <3>1. Session[clock] # s
        BY <1>1, <2>1, ClosedIsBehind
      <3>2. db'.snap[s] = view.snap[s]
        BY <1>3, <1>4, <3>1 DEF TypeInv, HourlyTypeOK
      <3> QED BY <1>5, <2>1, <3>2 DEF SnapsOf
    <2>2. CASE ~Closed(s)
      <3>1. PICK b \in Of(s) : ~(b < clock)
        BY <1>1, <2>2 DEF Closed
      <3>2. b = clock /\ s = Session[clock]
        <4>1. b < clock + 1 /\ b \in Bars /\ Session[b] = s
          BY <1>6 DEF Of
        <4>2. b \in Nat
          BY <1>3, <4>1
        <4>3. b = clock
          BY <1>3, <3>1, <4>1, <4>2
        <4> QED BY <4>1, <4>3
      <3>3. last
        <4>1. ASSUME ~LastOfSession(clock) PROVE FALSE
          <5>1. clock + 1 \in Of(s)
            BY <1>3, <3>2, <4>1, Calendar DEF Of
          <5>2. clock + 1 < clock + 1
            BY <1>6, <3>2, <5>1
          <5> QED BY <1>3, <5>2
        <4> QED BY <1>1, <4>1 DEF TypeInv, BeforeTheEnd
      <3>4. db'.snap[s] = view.held
        BY <1>3, <1>4, <3>2, <3>3
      <3>5. NetOf(view.traded, Bars) = NetOf(view.traded, Until(s))
        <4>1. \A c \in Bars : c <= clock => c \in Until(s)
          BY <1>3, <3>2, HourlyAssumption DEF Until
        <4>2. Until(s) \in SUBSET Bars
          BY DEF Until
        <4> QED BY <1>1, <4>1, <4>2, TradesAreBehind
      <3> QED BY <1>1, <3>4, <3>5 DEF HeldInv
    <2> QED BY <2>1, <2>2
  <1> QED BY <1>1, <1>4, <1>6 DEF SnapsOf, Closed

LEMMA SnapsStep ==
  ASSUME TypeInv, RowsInv, HeldInv, SnapInv, [HourlyNext]_hourlyVars PROVE SnapInv'
  <1>1. CASE Begin
    BY <1>1 DEF Begin, SnapInv, SnapsOf, Closed, Frontier
  <1>2. CASE Move
    <2>1. /\ phase' # "orders" /\ db' = db /\ dq' = dq
          /\ Frontier \in Int /\ Frontier' \in Int /\ Frontier' <= Frontier
      BY <1>2, Moves
    <2>2. ASSUME NEW s \in Sessions, Closed(s)' PROVE Closed(s)
      <3>1. ASSUME NEW b \in Of(s) PROVE b < Frontier
        <4>1. b < Frontier' /\ b \in Bars
          BY <2>2 DEF Closed, Of
        <4> QED BY <2>1, <4>1, Calendar
      <3> QED BY <3>1 DEF Closed
    <2> QED BY <2>1, <2>2 DEF SnapInv, SnapsOf
  <1>3. ASSUME NEW o \in Orders, PlaceInsert(o) \/ Cancel(o) PROVE SnapInv'
    BY <1>3, RequestKeeps DEF SnapInv, SnapsOf, Closed, Frontier
  <1>4. CASE Disqualify \/ UNCHANGED hourlyVars
    BY <1>4 DEF Disqualify, hourlyVars, SnapInv, SnapsOf, Closed, Frontier
  <1>5. ASSUME NEW o \in Orders, PlaceChoose(o) \/ PlaceDate(o) \/ PlaceFail(o) PROVE SnapInv'
    BY <1>5, PlaceSteps DEF Quiet, SnapInv, SnapsOf, Closed, Frontier
  <1> QED BY <1>1, <1>2, <1>3, <1>4, <1>5, SnapsTry, SnapsFinish
          DEF HourlyNext, PlaceOrder, Move

LEMMA SnapsAtFirst == HourlyInit => SnapInv
  <1> SUFFICES ASSUME HourlyInit, NEW s \in Sessions PROVE ~Closed(s)
    BY DEF HourlyInit, SnapInv, SnapsOf
  <1>1. PICK b \in Bars : s = Session[b]
    BY DEF Sessions
  <1>2. b \in Of(s) /\ b \in 1..B /\ Frontier = 1
    BY <1>1, Calendar DEF Of, HourlyInit, Frontier
  <1>3. ~(b < Frontier)
    BY <1>2
  <1> QED BY <1>2, <1>3 DEF Closed

LEMMA SnapsHold == HourlySpec => []SnapInv
  BY TypesHold, RowsHold, HeldHold, SnapsAtFirst, SnapsStep, PTL DEF HourlySpec

\* The words of the properties for what was traded.
LEMMA MoreWords ==
  /\ \A orders, bars : TradedBy(orders, bars) = By(db.traded, orders, bars)
  /\ \A bars : Net(bars) = NetOf(db.traded, bars)
  BY DEF Net, TradedBy, TradedIn, NetOf, By, In

\* The snapshot of a session that is over holds the shares of its close
\* (writeSessionSnapshots).
THEOREM SnapshotsAreOfTheClose == HourlySpec => []SessionSnapshots
  <1>1. ASSUME TypeInv, SnapInv PROVE SessionSnapshots
    <2>1. ASSUME NEW s \in Sessions, \A b \in Of(s) : b <= matched PROVE Closed(s)
      <3>1. ASSUME NEW b \in Of(s) PROVE b < Frontier
        <4>1. b <= matched /\ b \in Nat
          BY <2>1, Calendar DEF Of
        <4>2. matched < Frontier /\ matched \in Int /\ Frontier \in Int
          BY <1>1, ClockIs DEF Frontier
        <4> QED BY <4>1, <4>2
      <3> QED BY <3>1 DEF Closed
    <2> QED BY <1>1, <2>1, MoreWords DEF SnapInv, SnapsOf, SessionSnapshots
  <1> QED BY <1>1, TypesHold, SnapsHold, PTL

-----------------------------------------------------------------------------
(* Delivery STT *)

\* The shares on which delivery STT is due for a session: those sold, up to those
\* held at its open.
Due(f, s) == Min({By(f, Orders \ Buys, Of(s)), NetOf(f, Until(s) \ Of(s))})

ToldIn(t, o) == t.row[o].filled = Total(t.traded[o])

DeliveryOf(t) ==
    (\A o \in Buys : ToldIn(t, o)) => \A s \in Sessions : t.delivery[s] = Due(t.traded, s)

DeliveryInv == DeliveryOf(db) /\ (phase = "orders" => DeliveryOf(view))

LEMMA DueIs ==
  ASSUME NEW f \in Trades, NEW s
  PROVE  LET sold == By(f, Orders \ Buys, Of(s))
             open == NetOf(f, Until(s) \ Of(s)) IN
         /\ sold \in Nat /\ open \in Int
         /\ Due(f, s) = IF sold <= open THEN sold ELSE open
  <1> DEFINE sold == By(f, Orders \ Buys, Of(s))
             open == NetOf(f, Until(s) \ Of(s))
  <1>1. Of(s) \in SUBSET Bars /\ Until(s) \ Of(s) \in SUBSET Bars /\ Orders \ Buys \in SUBSET Orders
    BY DEF Of, Until
  <1>2. sold \in Nat /\ open \in Int
    BY <1>1, ByType
  <1>3. Due(f, s) = Min({sold, open}) /\ sold \in Int
    BY <1>2 DEF Due
  <1> HIDE DEF sold, open
  <1>4. Due(f, s) = IF sold <= open THEN sold ELSE open
    BY <1>2, <1>3, MinOfTwo
  <1> QED BY <1>2, <1>4 DEF sold, open

\* FilledBuyQtyOnSession is right when the rows of the buys are.
LEMMA BoughtIs ==
  ASSUME TypeInv, RowsInv, phase = "orders", \A o \in Buys : ToldIn(view, o)
  PROVE  BoughtToday(clock) = By(view.traded, Buys, Of(Session[clock]))
  <1> DEFINE S == Session[clock]
             f == [o \in Orders |-> view.row[o].filled]
             g == [o \in Orders |-> In(view.traded, o, Of(S))]
             today == {o \in Buys : view.row[o].filled > 0 /\ view.row[o].filledAt = S}
  <1>1. /\ IsFiniteSet(Buys) /\ Buys \subseteq Orders /\ today \in SUBSET Buys /\ IsFiniteSet(today)
        /\ view.traded \in Trades /\ Of(S) \in SUBSET Bars /\ Bars \in SUBSET Bars
        /\ IsFiniteSet(Bars)
    <2>1. IsFiniteSet(Buys) /\ Buys \subseteq Orders /\ IsFiniteSet(Bars)
      BY FiniteSets
    <2>2. today \in SUBSET Buys
      OBVIOUS
    <2>3. IsFiniteSet(today)
      <3> HIDE DEF today
      <3> QED BY <2>1, <2>2, FS_Subset
    <2>4. view.traded \in Trades /\ Of(S) \in SUBSET Bars
      BY DEF TypeInv, HourlyTypeOK, Tables, Trades, Of
    <2> QED BY <2>1, <2>2, <2>3, <2>4
  <1>2. ASSUME NEW o \in Buys
        PROVE  /\ g[o] \in Int
               /\ o \in today => g[o] = f[o]
               /\ o \notin today => g[o] = 0
    <2> DEFINE tr == view.traded[o]
               r == view.row[o]
    <2>1. o \in Orders /\ r \in Rows /\ tr \in [Bars -> Nat]
      BY <1>1 DEF TypeInv, HourlyTypeOK, Tables
    <2>2. r.filled = Total(tr) /\ r.filled \in Nat
      BY <2>1 DEF ToldIn, Rows
    <2>3. \A b \in Bars : tr[b] > 0 => r.filled > 0 /\ Session[b] = r.filledAt
      <3>1. \A b \in Bars : tr[b] <= Total(tr) /\ tr[b] \in Nat
        BY <2>1, Totals
      <3>2. \A b \in Bars : tr[b] > 0 => r.filled > 0
        BY <2>2, <3>1
      <3>3. \A b \in Bars : tr[b] > 0 /\ r.filled > 0 => Session[b] = r.filledAt
        BY <2>1 DEF RowsInv, Sound, RowDays
      <3> QED BY <3>2, <3>3
    <2>4. g[o] = SumFunctionOnSet(tr, Of(S))
      BY <2>1 DEF In
    <2>5. g[o] \in Int
      <3>1. Orders \in SUBSET Orders
        OBVIOUS
      <3>2. In(view.traded, o, Of(S)) \in Nat
        BY <1>1, <2>1, <3>1, ByType
      <3> QED BY <2>1, <3>2
    <2>6. ASSUME o \in today PROVE g[o] = f[o]
      <3>1. \A b \in Bars \ Of(S) : tr[b] = 0
        <4>1. ASSUME NEW b \in Bars \ Of(S) PROVE ~(tr[b] > 0) /\ tr[b] \in Nat
          BY <2>1, <2>3, <2>6 DEF Of
        <4> QED BY <4>1
      <3>2. \A b \in Bars : tr[b] \in Int
        BY <2>1
      <3> HIDE DEF tr, S, g
      <3>3. SumFunctionOnSet(tr, Bars) = SumFunctionOnSet(tr, Of(S))
        BY <1>1, <3>1, <3>2, SumSupport
      <3> QED BY <2>1, <2>2, <2>4, <3>3 DEF Total, tr
    <2>7. ASSUME o \notin today PROVE g[o] = 0
      <3>1. \A b \in Of(S) : tr[b] = 0
        <4>1. ASSUME NEW b \in Of(S) PROVE ~(tr[b] > 0) /\ tr[b] \in Nat
          BY <2>1, <2>3, <2>7 DEF Of
        <4> QED BY <4>1
      <3>2. IsFiniteSet(Of(S))
        BY <1>1, FS_Subset
      <3> HIDE DEF tr, S, g
      <3> QED BY <2>4, <3>1, <3>2, SumZero
    <2> QED BY <2>5, <2>6, <2>7
  <1>3. BoughtToday(clock) = SumFunctionOnSet(f, today)
    BY DEF BoughtToday
  <1>4. By(view.traded, Buys, Of(S)) = SumFunctionOnSet(g, Buys)
    BY DEF By
  <1>5. /\ \A o \in Buys : g[o] \in Int
        /\ \A o \in Buys \ today : g[o] = 0
        /\ \A o \in today : g[o] \in Int /\ f[o] = g[o]
    BY <1>1, <1>2
  <1> HIDE DEF f, g, today, S
  <1>6. SumFunctionOnSet(g, Buys) = SumFunctionOnSet(g, today)
    BY <1>1, <1>5, SumSupport
  <1>7. SumFunctionOnSet(f, today) = SumFunctionOnSet(g, today)
    BY <1>1, <1>5, SumAgree
  <1> QED BY <1>3, <1>4, <1>6, <1>7 DEF S

\* The position, from that at the open of the session.
LEMMA HeldSplits ==
  ASSUME TypeInv, RowsInv, HeldInv, phase = "orders"
  PROVE  LET S == Session[clock]
             f == view.traded IN
         view.held = NetOf(f, Until(S) \ Of(S)) + By(f, Buys, Of(S)) - By(f, Orders \ Buys, Of(S))
  <1> DEFINE S == Session[clock]
             f == view.traded
             a == Until(S) \ Of(S)
             b == Of(S)
  <1>1. clock \in Bars /\ S \in Nat /\ clock \in Nat
    BY Calendar, ClockIs
  <1>2. a \in SUBSET Bars /\ b \in SUBSET Bars /\ a \cap b = {} /\ a \cup b = Until(S)
    BY <1>1 DEF Until, Of
  <1>3. NetOf(f, Bars) = NetOf(f, Until(S))
    <2>1. \A c \in Bars : c <= clock => c \in Until(S)
      BY <1>1, HourlyAssumption DEF Until
    <2>2. Until(S) \in SUBSET Bars
      BY DEF Until
    <2> HIDE DEF S
    <2> QED BY <2>1, <2>2, TradesAreBehind
  <1>4. f \in Trades
    BY DEF TypeInv, HourlyTypeOK, Tables, Trades
  <1>5. view.held = NetOf(f, Bars)
    BY DEF HeldInv
  <1> HIDE DEF a, b, f, S
  <1>6. NetOf(f, a \cup b) = NetOf(f, a) + NetOf(f, b)
    BY <1>2, <1>4, BySplit
  <1>7. Buys \in SUBSET Orders /\ Orders \ Buys \in SUBSET Orders
    BY FiniteSets
  <1>8. By(f, Buys, b) \in Nat /\ By(f, Orders \ Buys, b) \in Nat /\ NetOf(f, a) \in Int
    BY <1>2, <1>4, <1>7, ByType
  <1>9. NetOf(f, b) = By(f, Buys, b) - By(f, Orders \ Buys, b)
    BY DEF NetOf
  <1>10. view.held = NetOf(f, a) + By(f, Buys, b) - By(f, Orders \ Buys, b)
    BY <1>2, <1>3, <1>5, <1>6, <1>8, <1>9
  <1> QED BY <1>10 DEF a, b, f, S

\* Nothing is traded in a later session yet.
LEMMA Later ==
  ASSUME TypeInv, RowsInv, HeldInv, phase = "orders", NEW s \in Sessions, Session[clock] < s
  PROVE  /\ By(view.traded, Orders \ Buys, Of(s)) = 0
         /\ NetOf(view.traded, Until(s) \ Of(s)) = view.held
         /\ clock \in Until(s) \ Of(s)
  <1> DEFINE f == view.traded
  <1>1. clock \in Bars /\ clock \in Nat /\ f \in Trades /\ s \in Nat
    <2>1. clock \in Bars /\ f \in Trades
      BY ClockIs DEF TypeInv, HourlyTypeOK, Tables, Trades
    <2>2. \A b \in Bars : Session[b] \in Nat /\ b \in Nat
      BY Calendar
    <2> QED BY <2>1, <2>2 DEF Sessions
  <1>2. ASSUME NEW b \in Bars, b <= clock PROVE b \in Until(s) \ Of(s)
    <2>1. Session[b] <= Session[clock] /\ Session[b] \in Nat /\ Session[clock] \in Nat
      BY <1>1, <1>2, Calendar, HourlyAssumption
    <2> QED BY <1>1, <2>1 DEF Until, Of
  <1>3. Until(s) \ Of(s) \in SUBSET Bars /\ Of(s) \in SUBSET Bars
    BY DEF Until, Of
  <1>4. NetOf(f, Bars) = NetOf(f, Until(s) \ Of(s))
    BY <1>2, <1>3, TradesAreBehind
  <1>5. ASSUME NEW o \in Orders, NEW b \in Of(s) PROVE f[o][b] = 0
    <2>1. b \in Bars /\ ~(b <= clock)
      BY <1>2 DEF Of
    <2>2. ~(f[o][b] > 0)
      BY <2>1 DEF RowsInv, Sound, RowDays
    <2>3. f[o][b] \in Nat
      BY <1>1, <2>1 DEF Trades
    <2> QED BY <2>2, <2>3
  <1>6. By(f, Orders \ Buys, Of(s)) = 0
    <2>1. Orders \ Buys \in SUBSET Orders
      OBVIOUS
    <2> HIDE DEF f
    <2> QED BY <1>3, <1>5, <2>1, ByZero
  <1>7. clock <= clock
    BY <1>1
  <1> QED BY <1>1, <1>2, <1>4, <1>6, <1>7 DEF HeldInv

\* What is due after one trade more at the bar of the clock.
LEMMA DueAfter ==
  ASSUME TypeInv, RowsInv, HeldInv, phase = "orders", NEW o \in Orders, NEW q \in Nat \ {0},
         NEW e \in Trades, e = OneMore(view.traded, o, clock, q), NEW s \in Sessions,
         o \in Buys \/ q <= view.held, \A p \in Buys : ToldIn(view, p)
  PROVE  Due(e, s) = Due(view.traded, s)
                     + IF o \notin Buys /\ s = Session[clock] THEN DeliveryPart(clock, q) ELSE 0
  <1> DEFINE f == view.traded
             S == Session[clock]
             sold == By(f, Orders \ Buys, Of(s))
             open == NetOf(f, Until(s) \ Of(s))
  <1>1. clock \in Bars /\ f \in Trades /\ view.held \in Nat /\ q \in Nat
    BY ClockIs DEF TypeInv, HourlyTypeOK, Tables, Trades
  <1>2. S \in Nat /\ s \in Nat
    <2>1. \A b \in Bars : Session[b] \in Nat
      BY Calendar
    <2> QED BY <1>1, <2>1 DEF Sessions
  <1>3. e = OneMore(f, o, clock, q)
    OBVIOUS
  <1>4. Of(s) \in SUBSET Bars /\ Until(s) \ Of(s) \in SUBSET Bars /\ Orders \ Buys \in SUBSET Orders
    BY DEF Of, Until
  <1>5. sold \in Nat /\ open \in Int /\ Due(f, s) = IF sold <= open THEN sold ELSE open
    BY <1>1, DueIs
  <1>6. By(e, Orders \ Buys, Of(s))
          = sold + IF o \in Orders \ Buys /\ clock \in Of(s) THEN q ELSE 0
    <2> HIDE DEF f
    <2>1. \A orders \in SUBSET Orders, bars \in SUBSET Bars :
            By(e, orders, bars)
              = By(f, orders, bars) + IF o \in orders /\ clock \in bars THEN q ELSE 0
      BY <1>1, <1>3, ByPlus
    <2> QED BY <1>4, <2>1
  <1>7. LET bars == Until(s) \ Of(s) IN
        /\ clock \in bars /\ o \in Buys => NetOf(e, bars) = open + q
        /\ clock \in bars /\ o \notin Buys => NetOf(e, bars) = open - q
        /\ clock \notin bars => NetOf(e, bars) = open
    <2> HIDE DEF f
    <2> QED BY <1>1, <1>3, <1>4, NetPlus
  <1>8. LET y == By(e, Orders \ Buys, Of(s))
            n == NetOf(e, Until(s) \ Of(s)) IN Due(e, s) = IF y <= n THEN y ELSE n
    BY DueIs
  <1>9. clock \in Of(s) <=> s = S
    BY <1>1 DEF Of
  <1>10. CASE s = S
    <2>1. clock \in Of(s) /\ clock \notin Until(s) \ Of(s)
      BY <1>9, <1>10
    <2>2. CASE o \in Buys
      BY <1>5, <1>6, <1>7, <1>8, <2>1, <2>2
    <2>3. CASE o \notin Buys
      <3> DEFINE bought == By(f, Buys, Of(s))
                 part == DeliveryPart(clock, q)
      <3>1. BoughtToday(clock) = bought /\ bought \in Int
        BY <1>10, BoughtIs, DeliveryType
      <3>2. view.held = open + bought - sold
        BY <1>10, HeldSplits
      <3>3. part = LET r == view.held - bought IN IF 0 >= r THEN 0 ELSE IF q <= r THEN q ELSE r
        BY <1>1, <3>1, DeliveryType
      <3>4. Due(e, s) = IF sold + q <= open THEN sold + q ELSE open
        BY <1>6, <1>7, <1>8, <2>1, <2>3
      <3> HIDE DEF sold, open, bought, part
      <3>5. view.held - bought = open - sold
        BY <1>5, <3>1, <3>2
      <3>6. part = IF 0 >= open - sold THEN 0 ELSE IF q <= open - sold THEN q ELSE open - sold
        BY <3>3, <3>5
      <3>7. Due(e, s) = Due(f, s) + part
        BY <1>1, <1>5, <3>4, <3>6
      <3> QED BY <1>10, <2>3, <3>7 DEF part
    <2> QED BY <2>2, <2>3
  <1>11. CASE S < s
    <2>1. sold = 0 /\ open = view.held /\ clock \in Until(s) \ Of(s) /\ clock \notin Of(s)
      BY <1>11, Later
    <2>2. By(e, Orders \ Buys, Of(s)) = 0
      BY <1>6, <2>1
    <2>3. NetOf(e, Until(s) \ Of(s)) \in Nat
      <3>1. o \in Buys => NetOf(e, Until(s) \ Of(s)) = view.held + q
        BY <1>7, <2>1
      <3>2. o \notin Buys => NetOf(e, Until(s) \ Of(s)) = view.held - q /\ q <= view.held
        BY <1>7, <2>1
      <3> HIDE DEF open, sold
      <3> QED BY <1>1, <3>1, <3>2
    <2>4. Due(e, s) = 0
      BY <1>8, <2>2, <2>3
    <2>5. Due(f, s) = 0
      BY <1>1, <1>5, <2>1
    <2>6. s # S
      BY <1>2, <1>11
    <2> QED BY <2>4, <2>5, <2>6
  <1>12. CASE s < S
    <2>1. clock \notin Of(s) /\ clock \notin Until(s) /\ s # S
      BY <1>2, <1>9, <1>12 DEF Until
    <2>2. Due(e, s) = Due(f, s)
      BY <1>5, <1>6, <1>7, <1>8, <2>1
    <2> QED BY <1>5, <2>1, <2>2
  <1> QED BY <1>2, <1>10, <1>11, <1>12

LEMMA DeliveryTry ==
  ASSUME TypeInv, RowsInv, HeldInv, DeliveryInv, NEW o \in Orders, TryFill(o)
  PROVE  DeliveryInv'
  <1>1. /\ phase = "orders" /\ UNCHANGED <<clock, db, phase>> /\ o \in todo /\ clock \in Bars
        /\ view.traded \in Trades /\ view'.traded \in Trades
        /\ view.held \in Nat /\ view'.held \in Nat
    BY TryFillTrades DEF Took
  <1>2. DeliveryOf(view)
    BY <1>1 DEF DeliveryInv
  <1>3. SUFFICES ASSUME \A p \in Buys : ToldIn(view', p), NEW s \in Sessions
                 PROVE  view'.delivery[s] = Due(view'.traded, s)
    BY <1>1 DEF DeliveryInv, DeliveryOf
  <1>4. ASSUME NEW p \in Buys PROVE ToldIn(view, p)
    <2>1. CASE p = o
      BY <1>1, <2>1 DEF RowsInv, Taking, Ready, ToldIn
    <2>2. CASE p # o
      <3>1. view'.row[p] = view.row[p] /\ view'.traded[p] = view.traded[p]
        BY <2>2, FiniteSets, TryFillRows
      <3>2. ToldIn(view', p)
        BY <1>3
      <3> QED BY <3>1, <3>2 DEF ToldIn
    <2> QED BY <2>1, <2>2
  <1>5. view.delivery[s] = Due(view.traded, s)
    BY <1>2, <1>4 DEF DeliveryOf
  <1>6. CASE view'.traded = view.traded /\ view'.delivery = view.delivery
    BY <1>5, <1>6
  <1>7. ASSUME NEW q \in Nat \ {0}, view'.traded = OneMore(view.traded, o, clock, q),
               \/ o \in Buys /\ view'.delivery = view.delivery
               \/ /\ o \notin Buys /\ view'.held = view.held - q
                  /\ view'.delivery = [view.delivery EXCEPT
                                         ![Session[clock]] = @ + DeliveryPart(clock, q)]
        PROVE  view'.delivery[s] = Due(view'.traded, s)
    <2>1. o \in Buys \/ q <= view.held
      BY <1>1, <1>7
    <2>2. Due(view'.traded, s) = Due(view.traded, s)
             + IF o \notin Buys /\ s = Session[clock] THEN DeliveryPart(clock, q) ELSE 0
      <3> DEFINE e == view'.traded
      <3>1. e \in Trades /\ e = OneMore(view.traded, o, clock, q)
        BY <1>1, <1>7
      <3> HIDE DEF e
      <3>2. Due(e, s) = Due(view.traded, s)
             + IF o \notin Buys /\ s = Session[clock] THEN DeliveryPart(clock, q) ELSE 0
        BY <1>1, <1>4, <2>1, <3>1, DueAfter
      <3> QED BY <3>2 DEF e
    <2>3. view.delivery \in [Sessions -> Nat] /\ view.delivery[s] \in Int
      BY DEF TypeInv, HourlyTypeOK, Tables
    <2>4. view'.delivery[s] = view.delivery[s]
             + IF o \notin Buys /\ s = Session[clock] THEN DeliveryPart(clock, q) ELSE 0
      BY <1>7, <2>3
    <2> QED BY <1>5, <2>2, <2>4
  <1>8. \/ view'.traded = view.traded /\ view'.delivery = view.delivery
        \/ \E q \in Nat \ {0} :
             /\ view'.traded = OneMore(view.traded, o, clock, q)
             /\ \/ o \in Buys /\ view'.delivery = view.delivery
                \/ /\ o \notin Buys /\ view'.held = view.held - q
                   /\ view'.delivery = [view.delivery EXCEPT
                                          ![Session[clock]] = @ + DeliveryPart(clock, q)]
    BY TryFillTrades
  <1> QED BY <1>6, <1>7, <1>8

\* A request leaves told what was told.
LEMMA DeliveryRequest ==
  ASSUME TypeInv, RowsInv, DeliveryInv, NEW o \in Orders, PlaceInsert(o) \/ Cancel(o)
  PROVE  DeliveryInv'
  <1> DEFINE r(t, b) == IF PlaceInsert(o) THEN New(o, b) ELSE [t.row[o] EXCEPT !.status = "canceled"]
  <1>1. PICK b \in Bars :
            /\ db'.row = [db.row EXCEPT ![o] = r(db, b)]
            /\ phase = "orders" => view'.row = [view.row EXCEPT ![o] = r(view, b)]
            /\ PlaceInsert(o) => db.row[o].status = "none"
            /\ ~PlaceInsert(o) => o \notin locked
            /\ UNCHANGED <<clock, todo, locked, phase, last, dq, faults>>
    BY RequestStep
  <1>2. db.row \in [Orders -> Rows] /\ view.row \in [Orders -> Rows]
    BY DEF TypeInv, HourlyTypeOK, Tables
  <1>3. PlaceInsert(o) /\ phase = "orders" => view.row[o] = db.row[o]
    BY <1>1 DEF RowsInv, Taking
  <1>4. ASSUME NEW t, t.row \in [Orders -> Rows], PlaceInsert(o) => t.row[o].status = "none",
               RowAdds(t.row[o], t.traded[o], o), NEW p \in Orders
        PROVE  [t.row EXCEPT ![o] = r(t, b)][p].filled = t.row[p].filled
    <2>1. CASE p # o
      BY <1>4, <2>1
    <2>2. CASE p = o /\ PlaceInsert(o)
      <3>1. New(o, b).filled = 0
        BY DEF New, NoRow
      <3>2. t.row[o].filled = 0
        BY <1>4, <2>2 DEF RowAdds
      <3>3. [t.row EXCEPT ![o] = r(t, b)][p] = New(o, b)
        BY <1>4, <2>2
      <3> QED BY <2>2, <3>1, <3>2, <3>3
    <2>3. CASE p = o /\ ~PlaceInsert(o)
      <3>1. [t.row EXCEPT ![o] = r(t, b)][p] = [t.row[o] EXCEPT !.status = "canceled"]
        BY <1>4, <2>3
      <3>2. t.row[o] \in Rows
        BY <1>4
      <3> HIDE DEF r
      <3>3. [t.row[o] EXCEPT !.status = "canceled"].filled = t.row[o].filled
        BY <3>2 DEF Rows
      <3> QED BY <2>3, <3>1, <3>3
    <2> QED BY <2>1, <2>2, <2>3
  <1> HIDE DEF r
  <1>5. \A p \in Orders : db'.row[p].filled = db.row[p].filled
    BY <1>1, <1>2, <1>4 DEF RowsInv, Sound
  <1>6. ASSUME phase = "orders" PROVE \A p \in Orders : view'.row[p].filled = view.row[p].filled
    BY <1>1, <1>2, <1>3, <1>4, <1>6 DEF RowsInv, Sound
  <1>7. /\ db'.traded = db.traded /\ db'.delivery = db.delivery /\ phase' = phase
        /\ phase = "orders" => view'.traded = view.traded /\ view'.delivery = view.delivery
    BY RequestKeeps
  <1>8. Buys \subseteq Orders
    BY FiniteSets
  <1> QED BY <1>5, <1>6, <1>7, <1>8 DEF DeliveryInv, DeliveryOf, ToldIn

LEMMA DeliveryStep ==
  ASSUME TypeInv, RowsInv, HeldInv, DeliveryInv, [HourlyNext]_hourlyVars PROVE DeliveryInv'
  <1>1. CASE Begin
    BY <1>1 DEF Begin, DeliveryInv, DeliveryOf, ToldIn
  <1>2. CASE Finish
    <2>1. phase = "orders" /\ phase' = "record" /\ db' = Snapshots
      BY <1>2 DEF Finish
    <2>2. db'.row = view.row /\ db'.traded = view.traded /\ db'.delivery = view.delivery
      BY <2>1, FinishWritten
    <2> QED BY <2>1, <2>2 DEF DeliveryInv, DeliveryOf, ToldIn
  <1>3. CASE Move
    BY <1>3, Moves DEF DeliveryInv, DeliveryOf, ToldIn
  <1>4. CASE Disqualify \/ UNCHANGED hourlyVars
    BY <1>4 DEF Disqualify, hourlyVars, DeliveryInv, DeliveryOf, ToldIn
  <1>5. ASSUME NEW o \in Orders, PlaceChoose(o) \/ PlaceDate(o) \/ PlaceFail(o) PROVE DeliveryInv'
    BY <1>5, PlaceSteps DEF Quiet, DeliveryInv, DeliveryOf, ToldIn
  <1> QED BY <1>1, <1>2, <1>3, <1>4, <1>5, DeliveryTry, DeliveryRequest
          DEF HourlyNext, PlaceOrder, Move

LEMMA DeliveryAtFirst == HourlyInit => DeliveryInv
  <1> SUFFICES ASSUME HourlyInit, NEW s \in Sessions PROVE Empty.delivery[s] = Due(Empty.traded, s)
    BY DEF HourlyInit, DeliveryInv, DeliveryOf
  <1> DEFINE f == Empty.traded
  <1>1. Of(s) \in SUBSET Bars /\ Until(s) \ Of(s) \in SUBSET Bars /\ f \in Trades
    BY NothingTraded DEF Of, Until
  <1>2. By(f, Orders \ Buys, Of(s)) = 0 /\ NetOf(f, Until(s) \ Of(s)) = 0
    BY <1>1, NothingTraded
  <1> HIDE DEF f
  <1>3. Due(f, s) = 0
    BY <1>1, <1>2, DueIs
  <1> QED BY <1>3 DEF f, Empty

LEMMA DeliveryHold == HourlySpec => []DeliveryInv
  BY TypesHold, RowsHold, HeldHold, DeliveryAtFirst, DeliveryStep, PTL DEF HourlySpec

\* Delivery STT falls on the shares held overnight, first sold first, however sales and
\* purchases of a session follow each other (hourlySellFees, FilledBuyQtyOnSession).
THEOREM DeliveryIsDueFirst == HourlySpec => []DeliveryFirst
  <1>1. ASSUME DeliveryInv PROVE DeliveryFirst
    <2>1. \A o \in Orders : Told(o) => ToldIn(db, o)
      BY DEF Told, ToldIn, Executed, TradedIn, Total
    <2>2. Buys \subseteq Orders
      BY FiniteSets
    <2>3. ASSUME NEW s \in Sessions, \A o \in Buys : Told(o)
          PROVE  db.delivery[s] = Due(db.traded, s)
      BY <1>1, <2>1, <2>2, <2>3 DEF DeliveryInv, DeliveryOf
    <2> QED BY <2>3, MoreWords DEF DeliveryFirst, Due
  <1> QED BY <1>1, DeliveryHold, PTL
=============================================================================
