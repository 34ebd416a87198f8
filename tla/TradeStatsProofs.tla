-------------------------- MODULE TradeStatsProofs --------------------------
(***************************************************************************)
(* Proofs about TradeStats, for every number of days, orders and           *)
(* transactions: the drawdown that MaxDrawdown folds out of the snapshots is*)
(* the worst fall between any two of them, and the trades that              *)
(* AnalyzeClosedTrades closes are the first-in first-out pairs of the shares*)
(* sold.                                                                   *)
(***************************************************************************)
EXTENDS TradeStats, MatchLedgerProofs, NumberLemmas

-----------------------------------------------------------------------------
(* ORDER BY *)

\* s lists S in the order R, a set of pairs.
Listing(s, S, R) ==
    /\ s \in [1..Cardinality(S) -> S]
    /\ \A i, j \in 1..Cardinality(S) : i < j => <<s[i], s[j]>> \in R

\* One more element, after the others, goes to the end.
LEMMA ListingGrows ==
  ASSUME NEW S, IsFiniteSet(S), NEW R, NEW m \in S, \A x \in S \ {m} : <<x, m>> \in R,
         NEW s, Listing(s, S \ {m}, R)
  PROVE  \E t : Listing(t, S, R)
  <1> DEFINE n == Cardinality(S)
             t == [i \in 1..n |-> IF i = n THEN m ELSE s[i]]
  <1>1. n \in Nat /\ Cardinality(S \ {m}) = n - 1
    BY FS_CardinalityType, FS_RemoveElement
  <1>2. s \in [1..(n - 1) -> S \ {m}] /\ \A i, j \in 1..(n - 1) : i < j => <<s[i], s[j]>> \in R
    BY <1>1 DEF Listing
  <1> HIDE DEF n
  <1>3. \A i \in 1..n : i # n => i \in 1..(n - 1)
    BY <1>1
  <1>4. t \in [1..n -> S]
    BY <1>2, <1>3
  <1>5. ASSUME NEW i \in 1..n, NEW j \in 1..n, i < j PROVE <<t[i], t[j]>> \in R
    <2>1. i \in 1..(n - 1) /\ t[i] = s[i] /\ s[i] \in S \ {m}
      BY <1>1, <1>2, <1>5
    <2>2. CASE j = n
      BY <2>1, <2>2
    <2>3. CASE j # n
      <3>1. j \in 1..(n - 1) /\ t[j] = s[j]
        BY <1>3, <2>3
      <3> QED BY <1>2, <1>5, <2>1, <3>1
    <2> QED BY <2>2, <2>3
  <1> HIDE DEF t
  <1>6. Listing(t, S, R)
    BY <1>4, <1>5 DEF Listing, n
  <1> QED BY <1>6

\* A finite set can be listed when each of its parts has a last element.
LEMMA ListingExists ==
  ASSUME NEW U, IsFiniteSet(U), NEW R,
         \A S \in SUBSET U : S # {} => \E m \in S : \A x \in S \ {m} : <<x, m>> \in R
  PROVE  \E s : Listing(s, U, R)
  <1> DEFINE Bad == {S \in SUBSET U : ~ \E s : Listing(s, S, R)}
  <1> SUFFICES ASSUME Bad # {} PROVE FALSE
    OBVIOUS
  <1>1. PICK S \in Bad : \A Q \in Bad : Cardinality(S) <= Cardinality(Q)
    <2>1. Bad \in SUBSET (SUBSET U)
      OBVIOUS
    <2> HIDE DEF Bad
    <2> QED BY <2>1, LeastSet
  <1>2. S \in SUBSET U /\ IsFiniteSet(S)
    <2>1. S \in SUBSET U
      OBVIOUS
    <2> HIDE DEF Bad
    <2> QED BY <2>1, FS_Subset
  <1>3. CASE S = {}
    <2> DEFINE s == [i \in 1..0 |-> 0]
    <2>1. Cardinality({}) = 0
      BY FS_EmptySet
    <2>2. s \in [1..0 -> {}] /\ \A i, j \in 1..0 : i < j => <<s[i], s[j]>> \in R
      OBVIOUS
    <2> HIDE DEF s
    <2>3. Listing(s, {}, R)
      BY <2>1, <2>2 DEF Listing
    <2> QED BY <1>3, <2>3
  <1>4. CASE S # {}
    <2>1. PICK m \in S : \A x \in S \ {m} : <<x, m>> \in R
      BY <1>2, <1>4
    <2>2. Cardinality(S \ {m}) = Cardinality(S) - 1 /\ Cardinality(S) \in Nat
      BY <1>2, FS_RemoveElement, FS_CardinalityType
    <2>3. S \ {m} \notin Bad
      <3>1. ~(Cardinality(S) <= Cardinality(S \ {m}))
        BY <2>2
      <3> QED BY <1>1, <3>1
    <2>4. PICK s : Listing(s, S \ {m}, R)
      BY <1>2, <2>3
    <2>5. \E t : Listing(t, S, R)
      BY <1>2, <2>1, <2>4, ListingGrows
    <2> QED BY <2>5
  <1> QED BY <1>3, <1>4

\* A listing has every element of its set, and once.
Once(s, S) ==
    /\ \A i, j \in 1..Cardinality(S) : s[i] = s[j] => i = j
    /\ \A x \in S : \E i \in 1..Cardinality(S) : s[i] = x

LEMMA ListingIsOnto ==
  ASSUME NEW S, IsFiniteSet(S), NEW R, NEW s, Listing(s, S, R), \A x \in S : <<x, x>> \notin R
  PROVE  Once(s, S)
  <1> DEFINE k == Cardinality(S)
  <1>1. k \in Nat /\ s \in [1..k -> S]
    BY FS_CardinalityType DEF Listing
  <1>2. ASSUME NEW i \in 1..k, NEW j \in 1..k, s[i] = s[j] PROVE i = j
    <2>1. s[i] \in S /\ s[j] \in S
      BY <1>1
    <2>2. ~(i < j) /\ ~(j < i)
      BY <1>2, <2>1 DEF Listing
    <2> QED BY <1>1, <2>2
  <1>3. s \in Injection(1..k, S)
    BY <1>1, <1>2 DEF Injection, IsInjective
  <1>4. s \in Surjection(1..k, S)
    <2>1. Cardinality(1..k) = k
      BY <1>1, FS_Interval
    <2> HIDE DEF k
    <2> QED BY <1>3, <2>1, FS_Injection DEF k
  <1> QED BY <1>2, <1>4 DEF Surjection, Once

LessThan(n) == {p \in (0..n) \X (0..n) : p[1] < p[2]}

\* The days in order, from the first one on.
LEMMA OrderedDays ==
  ASSUME NEW n \in Nat, NEW S \in SUBSET (0..n), 0 \in S
  PROVE  /\ Cardinality(S) \in Nat \ {0}
         /\ Ordered(S, <) \in [1..Cardinality(S) -> S] /\ Ordered(S, <)[1] = 0
  <1> DEFINE s == Ordered(S, <)
             k == Cardinality(S)
             R == LessThan(n)
  <1>1. IsFiniteSet(S)
    <2>1. IsFiniteSet(0..n)
      BY FS_Interval
    <2> QED BY <2>1, FS_Subset
  <1>2. k \in Nat /\ k # 0
    BY <1>1, FS_CardinalityType, FS_EmptySet
  <1>3. \A x, y \in S : <<x, y>> \in R <=> x < y
    BY DEF LessThan
  <1> HIDE DEF R
  <1>4. Listing(s, S, R)
    <2>1. \A Q \in SUBSET S : Q # {} => \E m \in Q : \A x \in Q \ {m} : <<x, m>> \in R
      <3> SUFFICES ASSUME NEW Q \in SUBSET S, Q # {}
                   PROVE  \E m \in Q : \A x \in Q \ {m} : <<x, m>> \in R
        OBVIOUS
      <3>1. PICK m \in Q : \A x \in Q : x <= m
        <4>1. Q \in SUBSET (0..n)
          OBVIOUS
        <4> QED BY <4>1, MaxIsGreatest
      <3>2. \A x \in Q \ {m} : x < m
        BY <3>1
      <3> QED BY <1>3, <3>2
    <2>2. PICK t : Listing(t, S, R)
      BY <1>1, <2>1, ListingExists
    <2>3. t \in [1..k -> S] /\ \A i, j \in DOMAIN t : i < j => t[i] < t[j]
      BY <1>3, <2>2 DEF Listing
    <2>4. s \in [1..k -> S] /\ \A i, j \in DOMAIN s : i < j => s[i] < s[j]
      BY <2>3 DEF Ordered
    <2> HIDE DEF s
    <2> QED BY <1>3, <2>4 DEF Listing
  <1> HIDE DEF s
  <1>5. PICK i \in 1..k : s[i] = 0
    <2>1. \A x \in S : <<x, x>> \notin R
      BY <1>3
    <2>2. Once(s, S)
      BY <1>1, <1>4, <2>1, ListingIsOnto
    <2> QED BY <2>2 DEF Once
  <1>6. s \in [1..k -> S] /\ \A j \in 1..k : s[j] \in S
    BY <1>4 DEF Listing
  <1>7. s[1] = 0
    <2>1. 1 \in 1..k /\ s[1] \in S
      BY <1>2, <1>6
    <2>2. CASE i # 1
      <3>1. 1 < i /\ s[i] \in S
        BY <1>6, <2>2
      <3>2. s[1] < s[i]
        BY <1>3, <1>4, <2>1, <3>1 DEF Listing
      <3>3. s[1] \in 0..n
        BY <2>1
      <3> QED BY <1>5, <3>2, <3>3
    <2> QED BY <1>5, <2>2
  <1> QED BY <1>2, <1>6, <1>7 DEF s

EarlierPairs == {p \in FilledOrders \X FilledOrders : Earlier(p[1], p[2])}

\* Earlier is a strict order of the filled orders.
LEMMA EarlierOrders ==
  ASSUME LedgerTypeOK
  PROVE  /\ \A o \in Orders : ~Earlier(o, o)
         /\ \A o, p \in Orders : o # p => Earlier(o, p) \/ Earlier(p, o)
         /\ \A o, p, q \in Orders : Earlier(o, p) /\ Earlier(p, q) => Earlier(o, q)
  <1>1. \A o \in Orders : o \in Nat /\ on[o] \in Nat
    BY LedgerAssumption DEF LedgerTypeOK, TableTypes, Days
  <1> QED BY <1>1 DEF Earlier

\* The leaderboard reads every filled order once, and in the order of Earlier.
LEMMA OrderedFills ==
  ASSUME LedgerTypeOK
  PROVE  LET n == Cardinality(FilledOrders) IN
         /\ n \in Nat /\ Fills \in [1..n -> FilledOrders]
         /\ \A i, j \in 1..n : Earlier(Fills[i], Fills[j]) <=> i < j
         /\ \A o \in FilledOrders : \E i \in 1..n : Fills[i] = o
  <1> DEFINE F == FilledOrders
             R == EarlierPairs
             n == Cardinality(F)
             s == Fills
  <1>1. F \subseteq Orders /\ IsFiniteSet(F) /\ n \in Nat
    BY LedgerAssumption, FS_Subset, FS_CardinalityType DEF FilledOrders
  <1>2. \A x, y \in F : <<x, y>> \in R <=> Earlier(x, y)
    BY DEF EarlierPairs
  <1>3. /\ \A x \in F : ~Earlier(x, x)
        /\ \A x, y \in F : x # y => Earlier(x, y) \/ Earlier(y, x)
        /\ \A x, y, z \in F : Earlier(x, y) /\ Earlier(y, z) => Earlier(x, z)
    BY <1>1, EarlierOrders
  <1> HIDE DEF R, F
  <1>4. Listing(s, F, R)
    <2>1. \A Q \in SUBSET F : Q # {} => \E m \in Q : \A x \in Q \ {m} : <<x, m>> \in R
      <3> DEFINE Bad == {Q \in SUBSET F : Q # {} /\ ~ \E m \in Q : \A x \in Q \ {m} : <<x, m>> \in R}
      <3> SUFFICES ASSUME Bad # {} PROVE FALSE
        OBVIOUS
      <3>1. PICK Q \in Bad : \A P \in Bad : Cardinality(Q) <= Cardinality(P)
        <4>1. Bad \in SUBSET (SUBSET F)
          OBVIOUS
        <4> HIDE DEF Bad
        <4> QED BY <1>1, <4>1, LeastSet
      <3>2. Q \in SUBSET F /\ Q # {} /\ IsFiniteSet(Q)
        <4>1. Q \in SUBSET F /\ Q # {}
          OBVIOUS
        <4> HIDE DEF Bad
        <4> QED BY <1>1, <4>1, FS_Subset
      <3>3. PICK q \in Q : TRUE
        BY <3>2
      <3> DEFINE P == Q \ {q}
      <3>4. P \notin Bad
        <4>1. Cardinality(P) = Cardinality(Q) - 1 /\ Cardinality(Q) \in Nat
          BY <3>2, FS_RemoveElement, FS_CardinalityType
        <4>2. ~(Cardinality(Q) <= Cardinality(P))
          BY <4>1
        <4> QED BY <3>1, <4>2
      <3>5. ~ \E m \in Q : \A x \in Q \ {m} : <<x, m>> \in R
        BY <3>1
      <3>6. P # {}
        BY <3>3, <3>5
      <3>7. PICK m \in P : \A x \in P \ {m} : <<x, m>> \in R
        BY <3>2, <3>4, <3>6
      <3> HIDE DEF Bad
      <3>8. CASE Earlier(q, m)
        <4>1. \A x \in Q \ {m} : <<x, m>> \in R
          BY <1>2, <3>2, <3>7, <3>8
        <4> QED BY <3>5, <3>7, <4>1
      <3>9. CASE Earlier(m, q)
        <4>1. \A x \in Q \ {q} : x = m \/ Earlier(x, m)
          BY <1>2, <3>2, <3>7
        <4>2. \A x \in Q \ {q} : Earlier(x, q)
          BY <1>3, <3>2, <3>7, <3>9, <4>1
        <4> QED BY <1>2, <3>2, <3>5, <4>2
      <3> QED BY <1>3, <3>2, <3>7, <3>8, <3>9
    <2>2. PICK t : Listing(t, F, R)
      BY <1>1, <2>1, ListingExists
    <2>3. t \in [1..n -> F] /\ \A i, j \in DOMAIN t : i < j => Earlier(t[i], t[j])
      BY <1>2, <2>2 DEF Listing
    <2>4. s \in [1..n -> F] /\ \A i, j \in DOMAIN s : i < j => Earlier(s[i], s[j])
      BY <2>3, Zenon DEF Fills, Ordered, F
    <2> HIDE DEF s
    <2> QED BY <1>2, <2>4 DEF Listing
  <1> HIDE DEF s
  <1>5. s \in [1..n -> F] /\ \A i, j \in 1..n : i < j => Earlier(s[i], s[j])
    BY <1>2, <1>4 DEF Listing
  <1>6. \A i, j \in 1..n : Earlier(s[i], s[j]) => i < j
    <2> SUFFICES ASSUME NEW i \in 1..n, NEW j \in 1..n, Earlier(s[i], s[j]), ~(i < j) PROVE FALSE
      OBVIOUS
    <2>1. s[i] \in F /\ s[j] \in F /\ (i = j \/ j < i)
      BY <1>1, <1>5
    <2> QED BY <1>3, <1>5, <2>1
  <1>7. \A x \in F : \E i \in 1..n : s[i] = x
    <2>1. \A x \in F : <<x, x>> \notin R
      BY <1>2, <1>3
    <2>2. Once(s, F)
      BY <1>1, <1>4, <2>1, ListingIsOnto
    <2> QED BY <2>2 DEF Once
  <1> QED BY <1>1, <1>5, <1>6, <1>7 DEF s, F

-----------------------------------------------------------------------------
(* Folding over a sequence *)

\* What the folds of TradeStats do with a value.
Step(kind, acc, v) ==
    CASE kind = "fall"  -> FallTo(acc, v)
      [] kind = "count" -> CountFill(acc, v)
      [] kind = "take"  -> TakeLot(acc, v)
      [] kind = "add"   -> AddLot(acc, v)

LEMMA StepIs ==
  ASSUME NEW acc, NEW v
  PROVE  /\ Step("fall", acc, v) = FallTo(acc, v) /\ Step("count", acc, v) = CountFill(acc, v)
         /\ Step("take", acc, v) = TakeLot(acc, v) /\ Step("add", acc, v) = AddLot(acc, v)
  BY DEF Step

\* The function the library's fold unfolds to: it takes the greatest index first.
Unfolds(kind, h, base, values, n) ==
    h = [R \in SUBSET (1..n) |->
           IF R = {} THEN base ELSE Step(kind, h[R \ {Max(R)}], values[Max(R)])]

\* What that function does at a set.
LEMMA UnfoldsAt ==
  ASSUME NEW kind, NEW h, NEW base, NEW values, NEW n, Unfolds(kind, h, base, values, n), NEW R \in SUBSET (1..n)
  PROVE  h[R] = IF R = {} THEN base ELSE Step(kind, h[R \ {Max(R)}], values[Max(R)])
  <1> DEFINE Value(g, Q) == IF Q = {} THEN base ELSE Step(kind, g[Q \ {Max(Q)}], values[Max(Q)])
  <1>1. h = [Q \in SUBSET (1..n) |-> Value(h, Q)]
    BY DEF Unfolds
  <1> HIDE DEF Value
  <1>2. h[R] = Value(h, R)
    BY <1>1
  <1> QED BY <1>2 DEF Value

\* It exists: one more index comes last.
LEMMA UnfoldsFurther ==
  ASSUME NEW kind, NEW base, NEW values, NEW n \in Nat, NEW g, Unfolds(kind, g, base, values, n)
  PROVE  \E h : Unfolds(kind, h, base, values, n + 1)
  <1> DEFINE m == n + 1
             Value(e, R) == IF R = {} THEN base ELSE Step(kind, e[R \ {Max(R)}], values[Max(R)])
             h == [R \in SUBSET (1..m) |-> IF m \in R THEN Step(kind, g[R \ {m}], values[m]) ELSE g[R]]
  <1>1. ASSUME NEW R \in SUBSET (1..m) PROVE R \ {m} \in SUBSET (1..n)
    OBVIOUS
  <1>2. ASSUME NEW R \in SUBSET (1..m) PROVE h[R] = Value(h, R)
    <2>1. CASE R = {}
      <3>1. m \notin R /\ h[R] = g[R] /\ R \in SUBSET (1..n)
        BY <2>1
      <3> HIDE DEF h
      <3>2. g[R] = base
        BY <2>1, <3>1, UnfoldsAt
      <3> QED BY <2>1, <3>1, <3>2
    <2>2. CASE R # {} /\ m \in R
      <3>1. Max(R) = m
        <4>1. R \in SUBSET (0..m) /\ m \in Nat
          OBVIOUS
        <4> HIDE DEF m
        <4>2. Max(R) \in R /\ \A y \in R : y <= Max(R)
          BY <2>2, <4>1, MaxIsGreatest
        <4>3. Max(R) \in 0..m
          BY <4>1, <4>2
        <4>4. m <= Max(R)
          BY <2>2, <4>2
        <4> QED BY <4>1, <4>3, <4>4
      <3>2. R \ {m} \in SUBSET (1..m) /\ m \notin R \ {m}
        OBVIOUS
      <3>3. h[R \ {m}] = g[R \ {m}] /\ h[R] = Step(kind, g[R \ {m}], values[m])
        BY <2>2, <3>2
      <3> HIDE DEF h, m
      <3> QED BY <2>2, <3>1, <3>3
    <2>3. CASE R # {} /\ m \notin R
      <3>1. R \in SUBSET (1..n) /\ h[R] = g[R]
        BY <1>1, <2>3
      <3>2. g[R] = Step(kind, g[R \ {Max(R)}], values[Max(R)])
        <4> HIDE DEF h, m
        <4>1. g[R] = IF R = {} THEN base ELSE Step(kind, g[R \ {Max(R)}], values[Max(R)])
          BY <3>1, UnfoldsAt
        <4> QED BY <2>3, <4>1
      <3>3. h[R \ {Max(R)}] = g[R \ {Max(R)}]
        <4>1. R \ {Max(R)} \in SUBSET (1..m) /\ m \notin R \ {Max(R)}
          BY <2>3
        <4> QED BY <4>1
      <3> HIDE DEF h
      <3> QED BY <2>3, <3>1, <3>2, <3>3
    <2> QED BY <2>1, <2>2, <2>3
  <1>3. h = [R \in SUBSET (1..m) |-> Value(h, R)]
    <2>1. h = [R \in SUBSET (1..m) |-> h[R]]
      OBVIOUS
    <2> HIDE DEF h, Value
    <2> QED BY <1>2, <2>1
  <1>4. Unfolds(kind, h, base, values, m)
    <2> HIDE DEF h
    <2> QED BY <1>3 DEF Unfolds
  <1> QED BY <1>4

LEMMA UnfoldsExists ==
  ASSUME NEW kind, NEW base, NEW values, NEW n \in Nat
  PROVE  \E h : Unfolds(kind, h, base, values, n)
  <1> DEFINE Bad == {k \in Nat : ~ \E h : Unfolds(kind, h, base, values, k)}
  <1> SUFFICES ASSUME Bad # {} PROVE FALSE
    OBVIOUS
  <1>1. PICK k \in Bad : \A j \in Bad : k <= j
    <2>1. Bad \in SUBSET Nat
      OBVIOUS
    <2> HIDE DEF Bad
    <2> QED BY <2>1, LeastNat
  <1>2. CASE k = 0
    <2> DEFINE h == [R \in SUBSET (1..0) |-> base]
    <2>1. \A R \in SUBSET (1..0) : R = {}
      OBVIOUS
    <2>2. Unfolds(kind, h, base, values, 0)
      BY <2>1 DEF Unfolds
    <2> QED BY <1>2, <2>2
  <1>3. CASE k # 0
    <2>1. k - 1 \in Nat /\ (k - 1) + 1 = k /\ k - 1 \notin Bad
      BY <1>1, <1>3
    <2>2. PICK g : Unfolds(kind, g, base, values, k - 1)
      BY <2>1
    <2>3. \E h : Unfolds(kind, h, base, values, (k - 1) + 1)
      BY <2>1, <2>2, UnfoldsFurther
    <2> QED BY <2>1, <2>3
  <1> QED BY <1>2, <1>3

\* Over the first indices it goes up by one.
LEMMA UnfoldsStepwise ==
  ASSUME NEW kind, NEW h, NEW base, NEW values, NEW n \in Nat, Unfolds(kind, h, base, values, n)
  PROVE  /\ h[1..0] = base
         /\ \A k \in 1..n : h[1..k] = Step(kind, h[1..(k - 1)], values[k])
  <1>1. h[1..0] = base
    <2>1. 1..0 = {} /\ {} \in SUBSET (1..n)
      OBVIOUS
    <2>2. h[{}] = base
      BY <2>1, UnfoldsAt
    <2> QED BY <2>1, <2>2
  <1>2. ASSUME NEW k \in 1..n PROVE h[1..k] = Step(kind, h[1..(k - 1)], values[k])
    <2> DEFINE R == 1..k
    <2>1. /\ R \in SUBSET (1..n) /\ R # {} /\ R \in SUBSET (0..k) /\ k \in Nat
          /\ R \ {k} = 1..(k - 1) /\ k \in R /\ \A y \in R : y <= k
      OBVIOUS
    <2> HIDE DEF R
    <2>2. Max(R) = k
      <3>1. Max(R) \in R /\ \A y \in R : y <= Max(R)
        BY <2>1, MaxIsGreatest
      <3>2. k <= Max(R) /\ Max(R) <= k /\ Max(R) \in 0..k
        BY <2>1, <3>1
      <3> QED BY <2>1, <3>2
    <2>3. h[R] = IF R = {} THEN base ELSE Step(kind, h[R \ {Max(R)}], values[Max(R)])
      BY <2>1, UnfoldsAt
    <2>4. h[R] = Step(kind, h[1..(k - 1)], values[k])
      BY <2>1, <2>2, <2>3
    <2> QED BY <2>4 DEF R
  <1> QED BY <1>1, <1>2

\* So a fold is reached step by step, from the first value to the last.
Stepwise(kind, acc, base, values, n) ==
    acc[0] = base /\ \A k \in 1..n : acc[k] = Step(kind, acc[k - 1], values[k])

LEMMA UnfoldedSteps ==
  ASSUME NEW kind, NEW h, NEW base, NEW values, NEW n \in Nat, Unfolds(kind, h, base, values, n)
  PROVE  \E acc : Stepwise(kind, acc, base, values, n) /\ acc[n] = h[1..n]
  <1> DEFINE acc == [k \in 0..n |-> h[1..k]]
  <1>1. h[1..0] = base /\ \A k \in 1..n : h[1..k] = Step(kind, h[1..(k - 1)], values[k])
    BY UnfoldsStepwise
  <1>2. \A k \in 0..n : acc[k] = h[1..k]
    OBVIOUS
  <1>3. 0 \in 0..n /\ n \in 0..n /\ \A k \in 1..n : k \in 0..n /\ k - 1 \in 0..n
    OBVIOUS
  <1> HIDE DEF acc
  <1>4. acc[0] = base /\ acc[n] = h[1..n]
    BY <1>1, <1>2, <1>3
  <1>5. ASSUME NEW k \in 1..n PROVE acc[k] = Step(kind, acc[k - 1], values[k])
    <2>1. acc[k] = h[1..k] /\ acc[k - 1] = h[1..(k - 1)]
      BY <1>2, <1>3
    <2> QED BY <1>1, <2>1
  <1>6. Stepwise(kind, acc, base, values, n)
    BY <1>4, <1>5 DEF Stepwise
  <1> QED BY <1>4, <1>6

Falls(base, values) == FoldLeft(FallTo, base, values)

LEMMA FallsStepwise ==
  ASSUME NEW base, NEW n \in Nat, NEW values, DOMAIN values = 1..n
  PROVE  \E acc : Stepwise("fall", acc, base, values, n) /\ Falls(base, values) = acc[n]
  <1> DEFINE h == CHOOSE e : e = [R \in SUBSET (1..n) |->
                 IF R = {} THEN base ELSE FallTo(e[R \ {Max(R)}], values[Max(R)])]
  <1>1. Falls(base, values) = h[1..n]
    BY Zenon DEF Falls, FoldLeft, MapThenFoldSet
  <1>2. \A acc, v : Step("fall", acc, v) = FallTo(acc, v)
    BY StepIs
  <1>3. Unfolds("fall", h, base, values, n)
    <2>1. \A e : Unfolds("fall", e, base, values, n)
                  <=> e = [R \in SUBSET (1..n) |->
                            IF R = {} THEN base ELSE FallTo(e[R \ {Max(R)}], values[Max(R)])]
      BY <1>2 DEF Unfolds
    <2>2. \E e : Unfolds("fall", e, base, values, n)
      BY UnfoldsExists
    <2> QED BY <2>1, <2>2
  <1> HIDE DEF h
  <1>4. PICK acc : Stepwise("fall", acc, base, values, n) /\ acc[n] = h[1..n]
    BY <1>3, UnfoldedSteps
  <1> QED BY <1>1, <1>4

Counted(base, values) == FoldLeft(CountFill, base, values)

LEMMA FillsStepwise ==
  ASSUME NEW base, NEW n \in Nat, NEW values, DOMAIN values = 1..n
  PROVE  \E acc : Stepwise("count", acc, base, values, n) /\ Counted(base, values) = acc[n]
  <1> DEFINE h == CHOOSE e : e = [R \in SUBSET (1..n) |->
                 IF R = {} THEN base ELSE CountFill(e[R \ {Max(R)}], values[Max(R)])]
  <1>1. Counted(base, values) = h[1..n]
    BY Zenon DEF Counted, FoldLeft, MapThenFoldSet
  <1>2. \A acc, v : Step("count", acc, v) = CountFill(acc, v)
    BY StepIs
  <1>3. Unfolds("count", h, base, values, n)
    <2>1. \A e : Unfolds("count", e, base, values, n)
                  <=> e = [R \in SUBSET (1..n) |->
                            IF R = {} THEN base ELSE CountFill(e[R \ {Max(R)}], values[Max(R)])]
      BY <1>2 DEF Unfolds
    <2>2. \E e : Unfolds("count", e, base, values, n)
      BY UnfoldsExists
    <2> QED BY <2>1, <2>2
  <1> HIDE DEF h
  <1>4. PICK acc : Stepwise("count", acc, base, values, n) /\ acc[n] = h[1..n]
    BY <1>3, UnfoldedSteps
  <1> QED BY <1>1, <1>4

Taken(base, values) == FoldLeft(TakeLot, base, values)

LEMMA LotsStepwise ==
  ASSUME NEW base, NEW n \in Nat, NEW values, DOMAIN values = 1..n
  PROVE  \E acc : Stepwise("take", acc, base, values, n) /\ Taken(base, values) = acc[n]
  <1> DEFINE h == CHOOSE e : e = [R \in SUBSET (1..n) |->
                 IF R = {} THEN base ELSE TakeLot(e[R \ {Max(R)}], values[Max(R)])]
  <1>1. Taken(base, values) = h[1..n]
    BY Zenon DEF Taken, FoldLeft, MapThenFoldSet
  <1>2. \A acc, v : Step("take", acc, v) = TakeLot(acc, v)
    BY StepIs
  <1>3. Unfolds("take", h, base, values, n)
    <2>1. \A e : Unfolds("take", e, base, values, n)
                  <=> e = [R \in SUBSET (1..n) |->
                            IF R = {} THEN base ELSE TakeLot(e[R \ {Max(R)}], values[Max(R)])]
      BY <1>2 DEF Unfolds
    <2>2. \E e : Unfolds("take", e, base, values, n)
      BY UnfoldsExists
    <2> QED BY <2>1, <2>2
  <1> HIDE DEF h
  <1>4. PICK acc : Stepwise("take", acc, base, values, n) /\ acc[n] = h[1..n]
    BY <1>3, UnfoldedSteps
  <1> QED BY <1>1, <1>4

Added(base, values) == FoldLeft(AddLot, base, values)

LEMMA AddedStepwise ==
  ASSUME NEW base, NEW n \in Nat, NEW values, DOMAIN values = 1..n
  PROVE  \E acc : Stepwise("add", acc, base, values, n) /\ Added(base, values) = acc[n]
  <1> DEFINE h == CHOOSE e : e = [R \in SUBSET (1..n) |->
                 IF R = {} THEN base ELSE AddLot(e[R \ {Max(R)}], values[Max(R)])]
  <1>1. Added(base, values) = h[1..n]
    BY Zenon DEF Added, FoldLeft, MapThenFoldSet
  <1>2. \A acc, v : Step("add", acc, v) = AddLot(acc, v)
    BY StepIs
  <1>3. Unfolds("add", h, base, values, n)
    <2>1. \A e : Unfolds("add", e, base, values, n)
                  <=> e = [R \in SUBSET (1..n) |->
                            IF R = {} THEN base ELSE AddLot(e[R \ {Max(R)}], values[Max(R)])]
      BY <1>2 DEF Unfolds
    <2>2. \E e : Unfolds("add", e, base, values, n)
      BY UnfoldsExists
    <2> QED BY <2>1, <2>2
  <1> HIDE DEF h
  <1>4. PICK acc : Stepwise("add", acc, base, values, n) /\ acc[n] = h[1..n]
    BY <1>3, UnfoldedSteps
  <1> QED BY <1>1, <1>4

-----------------------------------------------------------------------------
(* The worst fall *)

\* Fractions a/b, c/d and e/g compare as they should, also where b or g is 0.
LEMMA FractionsCompare ==
  ASSUME NEW a \in Int, NEW b \in Nat, NEW c \in Int, NEW d \in Nat \ {0}, NEW e \in Int, NEW g \in Nat,
         a * d <= c * b, c * g <= e * d
  PROVE  a * g <= e * b
  <1>1. \A x, y \in Int : \A z \in Nat : x <= y => x * z <= y * z
    OBVIOUS
  <1>2. \A x, y \in Int : \A z \in Nat \ {0} : x * z <= y * z => x <= y
    OBVIOUS
  <1>3. /\ a * d \in Int /\ c * b \in Int /\ c * g \in Int /\ e * d \in Int
        /\ a * g \in Int /\ e * b \in Int
    OBVIOUS
  <1>4. (a * d) * g <= (c * b) * g /\ (c * g) * b <= (e * d) * b
    BY <1>1, <1>3
  <1>5. /\ (a * d) * g = (a * g) * d /\ (e * d) * b = (e * b) * d
        /\ (c * b) * g = (c * g) * b
    OBVIOUS
  <1>6. (a * g) * d <= (e * b) * d
    BY <1>3, <1>4, <1>5
  <1> QED BY <1>2, <1>3, <1>6

LEMMA DeeperOrders ==
  ASSUME NEW f, f.fall \in Int, f.of \in Nat, NEW m, m.fall \in Int, m.of \in Nat \ {0},
         NEW b, b.fall \in Int, b.of \in Nat, ~Deeper(f, m), ~Deeper(m, b)
  PROVE  ~Deeper(f, b)
  <1> DEFINE x == f.fall
             xo == f.of
             y == m.fall
             yo == m.of
             z == b.fall
             zo == b.of
  <1>1. /\ x \in Int /\ y \in Int /\ z \in Int
        /\ xo \in Nat /\ yo \in Nat \ {0} /\ zo \in Nat
        /\ ~(x * yo > y * xo) /\ ~(y * zo > z * yo)
    BY DEF Deeper
  <1> HIDE DEF x, xo, y, yo, z, zo
  <1>2. x * yo <= y * xo /\ y * zo <= z * yo
    BY <1>1
  <1>3. x * zo <= z * xo
    BY <1>1, <1>2, FractionsCompare
  <1>4. ~(x * zo > z * xo)
    BY <1>1, <1>3
  <1> QED BY <1>4 DEF Deeper, x, xo, z, zo

FallFrom(values, i, j) == [fall |-> values[i] - values[j], of |-> values[i]]

\* What the fold has after the first k values.
Worst(values, a, k) ==
    /\ a.peak \in Nat \ {0} /\ a.max.fall \in Nat /\ a.max.of \in Nat \ {0}
    /\ (\E i \in 1..k : values[i] = a.peak) /\ \A i \in 1..k : values[i] <= a.peak
    /\ \A i, j \in 1..k : i <= j => ~Deeper(FallFrom(values, i, j), a.max)
    /\ \E i, j \in 1..k : i <= j /\ ~Deeper(a.max, FallFrom(values, i, j))

\* The first value.
LEMMA WorstAtFirst ==
  ASSUME NEW n \in Nat \ {0}, NEW values \in [1..n -> Nat], values[1] > 0
  PROVE  Worst(values, FallTo([peak |-> values[1], max |-> [fall |-> 0, of |-> 1]], values[1]), 1)
  <1> DEFINE v == values[1]
             a == FallTo([peak |-> v, max |-> [fall |-> 0, of |-> 1]], v)
  <1>1. v \in Nat \ {0} /\ \A i \in 1..1 : i = 1
    OBVIOUS
  <1>2. FallFrom(values, 1, 1) = [fall |-> 0, of |-> v]
    BY <1>1 DEF FallFrom
  <1> HIDE DEF v
  <1>3. ~Deeper([fall |-> v - v, of |-> v], [fall |-> 0, of |-> 1])
    BY <1>1 DEF Deeper
  <1>4. a = [peak |-> v, max |-> [fall |-> 0, of |-> 1]]
    BY <1>1, <1>3 DEF FallTo, NewPeak
  <1>5. a.peak = v /\ a.max.fall = 0 /\ a.max.of = 1 /\ a.max = [fall |-> 0, of |-> 1]
    BY <1>4
  <1>6. /\ ~Deeper([fall |-> 0, of |-> v], [fall |-> 0, of |-> 1])
        /\ ~Deeper([fall |-> 0, of |-> 1], [fall |-> 0, of |-> v])
    BY <1>1 DEF Deeper
  <1> HIDE DEF a
  <1>7. 1 \in 1..1 /\ 1 <= 1 /\ values[1] = v
    BY DEF v
  <1>8. Worst(values, a, 1)
    <2>1. \A i, j \in 1..1 : FallFrom(values, i, j) = [fall |-> 0, of |-> v]
      BY <1>1, <1>2
    <2>2. a.peak \in Nat \ {0} /\ a.max.fall \in Nat /\ a.max.of \in Nat \ {0}
      BY <1>1, <1>5
    <2>3. (\E i \in 1..1 : values[i] = a.peak) /\ \A i \in 1..1 : values[i] <= a.peak
      BY <1>1, <1>5, <1>7
    <2>4. \A i, j \in 1..1 : i <= j => ~Deeper(FallFrom(values, i, j), a.max)
      BY <1>5, <1>6, <2>1
    <2>5. \E i, j \in 1..1 : i <= j /\ ~Deeper(a.max, FallFrom(values, i, j))
      BY <1>2, <1>5, <1>6, <1>7
    <2> QED BY <2>2, <2>3, <2>4, <2>5 DEF Worst
  <1> QED BY <1>8 DEF a, v

\* Another value: the peak covers the falls that end at it.
LEMMA WorstGoesOn ==
  ASSUME NEW n \in Nat, NEW values \in [1..n -> Nat], NEW k \in 1..(n - 1),
         NEW a, Worst(values, a, k)
  PROVE  Worst(values, FallTo(a, values[k + 1]), k + 1)
  <1> DEFINE m == k + 1
             v == values[m]
             p == NewPeak(a.peak, v)
             dd == [fall |-> p - v, of |-> p]
             b == FallTo(a, v)
             best == IF Deeper(dd, a.max) THEN dd ELSE a.max
             F(i, j) == FallFrom(values, i, j)
  <1>1. /\ k \in Nat /\ m \in 1..n /\ v \in Nat /\ a.peak \in Nat \ {0}
        /\ \A i \in 1..m : i \in 1..n /\ values[i] \in Nat /\ (i \in 1..k \/ i = m)
        /\ 1..k \subseteq 1..m /\ m \in 1..m
    BY DEF Worst
  <1>2. b.peak = p /\ b.max = best
    BY DEF FallTo
  <1> HIDE DEF m, v, b
  <1>3. p \in Nat \ {0} /\ v <= p /\ a.peak <= p /\ p \in {a.peak, v}
    BY <1>1 DEF NewPeak
  <1> HIDE DEF p
  <1>4. \A i \in 1..m : values[i] <= p
    <2>1. \A i \in 1..k : values[i] <= a.peak
      BY DEF Worst
    <2> QED BY <1>1, <1>3, <2>1 DEF v
  <1>5. \E i \in 1..m : values[i] = p
    <2>1. \E i \in 1..k : values[i] = a.peak
      BY DEF Worst
    <2> QED BY <1>1, <1>3, <2>1 DEF v
  <1>6. /\ dd.fall \in Nat /\ dd.of \in Nat \ {0} /\ dd.fall = p - v /\ dd.of = p
        /\ a.max.fall \in Nat /\ a.max.of \in Nat \ {0}
    BY <1>1, <1>3 DEF Worst
  <1> HIDE DEF dd
  <1>7. /\ best.fall \in Nat /\ best.of \in Nat \ {0}
        /\ ~Deeper(dd, best) /\ ~Deeper(a.max, best)
    BY <1>6 DEF Deeper
  <1> HIDE DEF best
  <1>8. ASSUME NEW i \in 1..m, NEW j \in 1..m
        PROVE  F(i, j).fall \in Int /\ F(i, j).of \in Nat /\ F(i, j).of = values[i]
               /\ F(i, j).fall = values[i] - values[j]
    BY <1>1 DEF FallFrom
  <1> HIDE DEF F
  <1>9. ASSUME NEW i \in 1..m, NEW j \in 1..m, i <= j PROVE ~Deeper(F(i, j), best)
    <2>1. CASE j \in 1..k
      <3>1. i \in 1..k
        BY <1>1, <1>9, <2>1
      <3>2. ~Deeper(F(i, j), a.max)
        BY <1>9, <2>1, <3>1 DEF Worst, F
      <3> QED BY <1>6, <1>7, <1>8, <3>2, DeeperOrders
    <2>2. CASE j = m
      <3> DEFINE x == values[i]
      <3>1. x \in Nat /\ x <= p /\ values[j] = v
        BY <1>1, <1>4, <2>2 DEF v
      <3>2. F(i, j).fall = x - v /\ F(i, j).of = x
        BY <1>8, <3>1
      <3> HIDE DEF x
      <3>3. (x - v) * p <= (p - v) * x
        <4>1. v * x <= v * p
          BY <1>1, <1>3, <3>1
        <4>2. (x - v) * p = x * p - v * p /\ (p - v) * x = x * p - v * x
          BY <1>1, <1>3, <3>1
        <4>3. v * x \in Int /\ v * p \in Int /\ x * p \in Int
          BY <1>1, <1>3, <3>1
        <4> QED BY <4>1, <4>2, <4>3
      <3>4. ~Deeper(F(i, j), dd)
        BY <1>1, <1>3, <1>6, <3>1, <3>2, <3>3 DEF Deeper
      <3> QED BY <1>6, <1>7, <1>8, <3>4, DeeperOrders
    <2> QED BY <1>1, <2>1, <2>2
  <1>10. \E i, j \in 1..m : i <= j /\ ~Deeper(best, F(i, j))
    <2>1. CASE best = a.max
      <3>1. PICK i \in 1..k, j \in 1..k : i <= j /\ ~Deeper(a.max, FallFrom(values, i, j))
        BY DEF Worst
      <3> QED BY <1>1, <2>1, <3>1 DEF F
    <2>2. CASE best = dd
      <3>1. PICK i \in 1..m : values[i] = p
        BY <1>5
      <3>2. F(i, m) = dd /\ i <= m
        BY <1>1, <3>1 DEF F, FallFrom, dd, v
      <3>3. ~Deeper(dd, dd)
        BY <1>6 DEF Deeper
      <3> QED BY <1>1, <2>2, <3>2, <3>3
    <2> QED BY <2>1, <2>2 DEF best
  <1>11. Worst(values, b, m)
    BY <1>2, <1>3, <1>4, <1>5, <1>7, <1>9, <1>10 DEF Worst, F
  <1> QED BY <1>11 DEF b, v, m

\* MaxDrawdown is the worst fall of any sequence of values that begins with a capital.
LEMMA DrawdownOfValues ==
  ASSUME NEW n \in Nat \ {0}, NEW values \in [1..n -> Nat], values[1] > 0
  PROVE  /\ \A i, j \in 1..n : i <= j => ~Deeper(FallFrom(values, i, j), MaxDrawdown(values))
         /\ \E i, j \in 1..n : i <= j /\ ~Deeper(MaxDrawdown(values), FallFrom(values, i, j))
  <1> DEFINE base == [peak |-> values[1], max |-> [fall |-> 0, of |-> 1]]
  <1>1. DOMAIN values = 1..n /\ n \in Nat
    OBVIOUS
  <1> HIDE DEF base
  <1>2. PICK acc : Stepwise("fall", acc, base, values, n) /\ Falls(base, values) = acc[n]
    BY <1>1, FallsStepwise
  <1> DEFINE Bad == {k \in 1..n : ~Worst(values, acc[k], k)}
  <1>3. Bad = {}
    <2> SUFFICES ASSUME Bad # {} PROVE FALSE
      OBVIOUS
    <2>1. PICK k \in Bad : \A j \in Bad : k <= j
      <3>1. Bad \in SUBSET Nat
        OBVIOUS
      <3> HIDE DEF Bad
      <3> QED BY <3>1, LeastNat
    <2>2. CASE k = 1
      <3>1. 1 \in 1..n /\ 1 - 1 = 0
        OBVIOUS
      <3>2. acc[1] = FallTo(base, values[1])
        BY <1>2, <3>1, StepIs DEF Stepwise
      <3>3. Worst(values, acc[1], 1)
        BY <3>2, WorstAtFirst DEF base
      <3> QED BY <2>1, <2>2, <3>3
    <2>3. CASE k # 1
      <3> DEFINE j == k - 1
      <3>1. j \in 1..n /\ j \in 1..(n - 1) /\ k = j + 1 /\ k \in 1..n /\ ~(k <= j)
        BY <2>1, <2>3
      <3>2. Worst(values, acc[j], j)
        <4> HIDE DEF j
        <4>1. j \notin Bad
          BY <2>1, <3>1
        <4> QED BY <3>1, <4>1
      <3>3. acc[k] = FallTo(acc[j], values[k])
        BY <1>2, <3>1, StepIs DEF Stepwise
      <3> HIDE DEF j
      <3>4. Worst(values, FallTo(acc[j], values[j + 1]), j + 1)
        BY <3>1, <3>2, WorstGoesOn
      <3>5. Worst(values, acc[k], k)
        BY <3>1, <3>3, <3>4
      <3> QED BY <2>1, <3>5
    <2> QED BY <2>2, <2>3
  <1>4. Worst(values, acc[n], n)
    <2>1. n \in 1..n
      OBVIOUS
    <2> QED BY <1>3, <2>1
  <1>5. MaxDrawdown(values) = acc[n].max
    <2>1. MaxDrawdown(values) = Falls(base, values).max
      BY Zenon DEF MaxDrawdown, Falls, base
    <2> QED BY <1>2, <2>1
  <1> QED BY <1>4, <1>5 DEF Worst

-----------------------------------------------------------------------------
(* The snapshots *)

\* A total is never negative, written or about to be, and the first is the capital.
TotalsInv ==
    /\ snap[0].total = Capital /\ \A d \in 0..N : snap[d].total >= 0
    /\ \A t \in Txs : /\ row[t].total >= 0 /\ dSnap[t].total >= 0
                      /\ pc[t] = "snapheld" => seen[t] >= 0

LEMMA TotalsAtFirst == ASSUME LedgerInit PROVE TotalsInv
  BY LedgerAssumption DEF LedgerInit, TotalsInv, NoSnap

LEMMA TotalsSnap ==
  ASSUME LedgerTypeOK, SoundInv, TotalsInv, NEW t \in Txs, SnapSteps(t)
  PROVE  TotalsInv'
  <1> USE DEF tableVars, localVars, draftVars, recordVars, Goto
  <1>1. /\ pc \in [Txs -> Steps] /\ row \in [Txs -> Snapshots] /\ seen \in [Txs -> Int]
        /\ dSnap \in [Txs -> Snapshots] /\ snap \in [0..N -> Snapshots]
        /\ committed \subseteq Days /\ snap' = snap
    BY DEF LedgerTypeOK, LocalTypes, DraftTypes, TableTypes, RecordTypes, SnapSteps, SnapStatus,
           SnapLast, SnapCash, SnapHeld, SnapWrite
  <1>2. /\ CashSeen(t) \in Int /\ HeldSeen(t) \in Int /\ CashSeen(t) >= 0 /\ HeldSeen(t) >= 0
    BY SoundReads
  <1>3. CASE SnapStatus(t)
    BY <1>1, <1>3 DEF SnapStatus, TotalsInv
  <1>4. CASE SnapLast(t)
    <2>1. PICK d \in committed \cup {0} : row' = [row EXCEPT ![t] = snap[d]]
      BY <1>4 DEF SnapLast
    <2>2. d \in 0..N
      BY <1>1, <2>1, LedgerAssumption DEF Days
    <2>3. UNCHANGED <<dSnap, seen>> /\ pc' = [pc EXCEPT ![t] = "snapwrite"]
      BY <1>4 DEF SnapLast
    <2> QED BY <1>1, <2>1, <2>2, <2>3 DEF TotalsInv
  <1>5. CASE SnapCash(t)
    <2>1. /\ UNCHANGED <<dSnap, row>> /\ seen' = [seen EXCEPT ![t] = CashSeen(t)]
          /\ pc' = [pc EXCEPT ![t] = "snapheld"]
      BY <1>5 DEF SnapCash
    <2> QED BY <1>1, <1>2, <2>1 DEF TotalsInv
  <1>6. CASE SnapHeld(t)
    <2> DEFINE total == seen[t] + HeldSeen(t) * Close[day[t]]
    <2>1. /\ pc[t] = "snapheld" /\ dSnap' = dSnap /\ seen' = [seen EXCEPT ![t] = 0]
          /\ pc' = [pc EXCEPT ![t] = "snapwrite"]
          /\ row' = [row EXCEPT ![t] = [cash |-> seen[t], held |-> HeldSeen(t), total |-> total]]
      BY <1>6 DEF SnapHeld
    <2>2. total >= 0
      <3>1. day[t] \in Days
        BY <2>1 DEF LedgerTypeOK, Holds
      <3>2. Close[day[t]] \in Nat
        BY <3>1, LedgerAssumption
      <3>3. HeldSeen(t) * Close[day[t]] \in Nat
        BY <1>2, <3>2
      <3>4. seen[t] \in Int /\ seen[t] >= 0
        BY <1>1, <2>1 DEF TotalsInv
      <3> QED BY <3>3, <3>4
    <2> HIDE DEF total
    <2>3. /\ row'[t].total = total /\ \A u \in Txs \ {t} : row'[u] = row[u]
      BY <1>1, <2>1
    <2>4. \A u \in Txs : pc'[u] = "snapheld" => u # t /\ pc[u] = "snapheld" /\ seen'[u] = seen[u]
      BY <1>1, <2>1
    <2> QED BY <1>1, <2>1, <2>2, <2>3, <2>4 DEF TotalsInv
  <1>7. CASE SnapWrite(t)
    <2>1. /\ UNCHANGED <<row, seen>> /\ dSnap' = [dSnap EXCEPT ![t] = row[t]]
          /\ pc' = [pc EXCEPT ![t] = "commit"]
      BY <1>7 DEF SnapWrite
    <2> QED BY <1>1, <2>1 DEF TotalsInv
  <1> QED BY <1>3, <1>4, <1>5, <1>6, <1>7 DEF SnapSteps

LEMMA TotalsStep ==
  ASSUME LedgerTypeOK, SoundInv, TotalsInv, [LedgerNext]_ledgerVars
  PROVE  TotalsInv'
  <1> USE DEF tableVars, localVars, draftVars, recordVars, Goto
  <1>1. /\ pc \in [Txs -> Steps] /\ row \in [Txs -> Snapshots] /\ seen \in [Txs -> Int]
        /\ dSnap \in [Txs -> Snapshots] /\ snap \in [0..N -> Snapshots]
    BY DEF LedgerTypeOK, LocalTypes, DraftTypes, TableTypes
  <1>2. ASSUME NEW t \in Txs, NEW d \in Days, Begin(t, d) PROVE TotalsInv'
    <2>1. UNCHANGED <<snap, row, dSnap, seen>> /\ pc' = [pc EXCEPT ![t] = "order"]
      BY <1>2 DEF Begin
    <2> QED BY <1>1, <2>1 DEF TotalsInv
  <1>3. ASSUME NEW t \in Txs, NEW o \in Orders, FillSteps(t, o) PROVE TotalsInv'
    <2>1. UNCHANGED <<snap, row, dSnap>>
      BY <1>3 DEF FillSteps, Examine, BuyReadCash, SellReadHeld, SellReadCash, SetCash, SetHeld,
         MarkFilled, MarkRejected, Defer, Marked
    <2>2. ASSUME NEW u \in Txs, pc'[u] = "snapheld" PROVE pc[u] = "snapheld" /\ seen'[u] = seen[u]
      BY <1>1, <1>3, <2>2 DEF FillSteps, Examine, BuyReadCash, SellReadHeld, SellReadCash, SetCash,
         SetHeld, MarkFilled, MarkRejected, Defer, Marked, Working
    <2> QED BY <2>1, <2>2 DEF TotalsInv
  <1>4. ASSUME NEW t \in Txs, TxCommit(t) \/ TxAbort(t) PROVE TotalsInv'
    <2>1. /\ row' = [row EXCEPT ![t] = NoSnap] /\ dSnap' = [dSnap EXCEPT ![t] = NoSnap]
          /\ seen' = [seen EXCEPT ![t] = 0] /\ pc' = [pc EXCEPT ![t] = "idle"]
      BY <1>4 DEF TxCommit, TxAbort, Ended
    <2>2. snap'[0].total = Capital /\ \A d \in 0..N : snap'[d].total >= 0
      <3>1. CASE TxCommit(t)
        <4>1. day[t] \in Days /\ 0 \notin Days /\ snap' = [snap EXCEPT ![day[t]] = dSnap[t]]
          BY <3>1, LedgerAssumption DEF TxCommit, LedgerTypeOK, Holds, Days
        <4>2. 0 \in 0..N
          BY LedgerAssumption
        <4> QED BY <1>1, <4>1, <4>2 DEF TotalsInv
      <3>2. CASE TxAbort(t)
        BY <3>2 DEF TxAbort, TotalsInv
      <3> QED BY <1>4, <3>1, <3>2
    <2>3. \A u \in Txs : /\ row'[u].total >= 0 /\ dSnap'[u].total >= 0
                         /\ pc'[u] = "snapheld" => seen'[u] >= 0
      BY <1>1, <2>1 DEF TotalsInv, NoSnap
    <2> QED BY <2>2, <2>3 DEF TotalsInv
  <1>5. CASE Disqualify \/ (\E o \in Orders : Cancel(o)) \/ UNCHANGED ledgerVars
    BY <1>5 DEF Disqualify, Cancel, ledgerVars, TotalsInv
  <1>6. ASSUME NEW t \in Txs, SnapSteps(t) PROVE TotalsInv'
    BY <1>6, TotalsSnap
  <1> QED BY <1>2, <1>3, <1>4, <1>5, <1>6 DEF LedgerNext

\* The equity curve begins with the capital and has no negative value.
LEMMA EquityCurve ==
  ASSUME LedgerTypeOK, TotalsInv
  PROVE  \E n \in Nat \ {0} : Equity \in [1..n -> Nat] /\ Equity[1] > 0
  <1> DEFINE S == committed \cup {0}
             n == Cardinality(S)
             dates == Ordered(S, <)
  <1>1. S \in SUBSET (0..N) /\ 0 \in S /\ N \in Nat
    BY LedgerAssumption DEF LedgerTypeOK, RecordTypes, Days
  <1>2. Equity = [i \in DOMAIN dates |-> snap[dates[i]].total]
    BY Zenon DEF Equity
  <1> HIDE DEF S
  <1>3. n \in Nat \ {0} /\ dates \in [1..n -> S] /\ dates[1] = 0
    BY <1>1, OrderedDays
  <1>4. dates \in [1..n -> 0..N]
    BY <1>1, <1>3
  <1> HIDE DEF n, dates
  <1>5. snap \in [0..N -> Snapshots] /\ \A d \in 0..N : snap[d].total \in Nat
    BY DEF LedgerTypeOK, TableTypes, Snapshots, TotalsInv
  <1>6. Equity \in [1..n -> Nat]
    <2>1. DOMAIN dates = 1..n /\ \A i \in 1..n : dates[i] \in 0..N
      BY <1>4
    <2> QED BY <1>2, <1>5, <2>1
  <1>7. Equity[1] = Capital
    <2>1. 1 \in DOMAIN dates
      BY <1>3, <1>4
    <2>2. Equity[1] = snap[dates[1]].total
      BY <1>2, <2>1
    <2> QED BY <1>3, <2>2 DEF TotalsInv
  <1>8. Capital > 0
    BY LedgerAssumption
  <1> QED BY <1>3, <1>6, <1>7, <1>8

\* The drawdown on the leaderboard is the worst fall between any two snapshots, for
\* any number of days matched, also again and overlapping (MaxDrawdown, Build).
THEOREM DrawdownStaysWorst == LedgerSpec => []DrawdownIsWorst
  <1>1. LedgerInit => SoundInv /\ TotalsInv
    <2>1. LedgerInit => SoundInv
      BY LedgerAssumption DEF LedgerInit, SoundInv, Sound, Working
    <2> QED BY <2>1, TotalsAtFirst
  <1>2. LedgerTypeOK /\ SoundInv /\ TotalsInv /\ [LedgerNext]_ledgerVars => SoundInv' /\ TotalsInv'
    BY SoundStep, TotalsStep
  <1>3. LedgerTypeOK /\ TotalsInv => DrawdownIsWorst
    <2> SUFFICES ASSUME LedgerTypeOK, TotalsInv PROVE DrawdownIsWorst
      OBVIOUS
    <2> DEFINE values == Equity
               worst == MaxDrawdown(values)
    <2>1. PICK n \in Nat \ {0} : values \in [1..n -> Nat] /\ values[1] > 0
      BY EquityCurve
    <2>2. DOMAIN values = 1..n
      BY <2>1
    <2> HIDE DEF values
    <2>3. /\ \A i, j \in 1..n : i <= j => ~Deeper(FallFrom(values, i, j), worst)
          /\ \E i, j \in 1..n : i <= j /\ ~Deeper(worst, FallFrom(values, i, j))
      BY <2>1, DrawdownOfValues
    <2> HIDE DEF worst
    <2>4. /\ \A i, j \in DOMAIN values :
                 i <= j => ~Deeper([fall |-> values[i] - values[j], of |-> values[i]], worst)
          /\ \E i, j \in DOMAIN values :
                 i <= j /\ ~Deeper(worst, [fall |-> values[i] - values[j], of |-> values[i]])
      BY <2>2, <2>3 DEF FallFrom
    <2> QED BY <2>4, Zenon DEF DrawdownIsWorst, values, worst
  <1> QED BY <1>1, <1>2, <1>3, LedgerTypeCorrect, PTL DEF LedgerSpec

-----------------------------------------------------------------------------
(* The filled orders *)

Shares == [o \in Orders |-> IF o \in Buys THEN Qty[o] ELSE -Qty[o]]

\* The shares that orders of X have brought.
Net(X) == SumFunctionOnSet(Shares, X)

\* A filled order and those the leaderboard reads before it.
Through(o) == {p \in FilledOrders : p = o \/ Earlier(p, o)}

\* Matched days have no pending order, and only they have filled ones. What is held is
\* what these brought, and none of them, in the order of the leaderboard, sold more
\* than there was.
FilledInv ==
    ~overlapped =>
        /\ \A o \in Orders : state[o] = "pending" => on[o] \notin committed
        /\ \A o \in Orders : state[o] = "filled" => on[o] \in committed
        /\ offRecord = {} => /\ held = Net(FilledOrders)
                             /\ \A o \in FilledOrders : Net(Through(o)) >= 0

LEMMA SharesBalanced == ASSUME NEW start, NEW S PROVE Settlement!Balance(start, Settlement!Shares, S) = start + Net(S)
  <1>1. Settlement!Shares = Shares
    BY DEF Settlement!Shares, Shares
  <1> QED BY <1>1, SameBalance DEF Net

LEMMA NetTypes ==
  ASSUME NEW X \in SUBSET Orders
  PROVE  IsFiniteSet(X) /\ Net(X) \in Int /\ \A o \in X : Shares[o] \in Int
  <1>1. IsFiniteSet(X)
    BY LedgerAssumption, FS_Subset
  <1>2. \A o \in Orders : Qty[o] \in Nat
    BY LedgerAssumption
  <1>3. \A o \in X : Shares[o] \in Int
    BY <1>2 DEF Shares
  <1>4. SumFunctionOnSet(Shares, X) \in Int
    BY <1>1, <1>3, SumType
  <1> QED BY <1>1, <1>3, <1>4 DEF Net

LEMMA NetJoins ==
  ASSUME NEW X \in SUBSET Orders, NEW Y \in SUBSET Orders, X \cap Y = {}
  PROVE  Net(X \cup Y) = Net(X) + Net(Y)
  <1>1. IsFiniteSet(X) /\ IsFiniteSet(Y) /\ \A o \in X \cup Y : Shares[o] \in Int
    BY NetTypes
  <1> QED BY <1>1, SumSplit DEF Net

\* Nothing of it changes when no order is filled.
LEMMA FilledKept ==
  ASSUME FilledInv, ~overlapped, UNCHANGED <<held, committed>>, offRecord \subseteq offRecord',
         FilledOrders' = FilledOrders, \A o \in FilledOrders : on'[o] = on[o],
         \A o \in Orders : state'[o] = "pending" => state[o] = "pending" /\ on'[o] = on[o]
  PROVE  FilledInv'
  <1>1. /\ \A o \in Orders : state[o] = "pending" => on[o] \notin committed
        /\ \A o \in Orders : state[o] = "filled" => on[o] \in committed
    BY DEF FilledInv
  <1>2. \A o \in Orders : state'[o] = "pending" => on'[o] \notin committed'
    BY <1>1
  <1>3. \A o \in Orders : state'[o] = "filled" => on'[o] \in committed'
    BY <1>1 DEF FilledOrders
  <1>4. ASSUME offRecord' = {}
        PROVE  held' = Net(FilledOrders') /\ \A o \in FilledOrders' : Net(Through(o)') >= 0
    <2>1. held = Net(FilledOrders) /\ \A o \in FilledOrders : Net(Through(o)) >= 0
      BY <1>4 DEF FilledInv
    <2>2. ASSUME NEW o \in FilledOrders PROVE Through(o)' = Through(o)
      BY <2>2 DEF Through, Earlier
    <2> QED BY <2>1, <2>2
  <1> QED BY <1>2, <1>3, <1>4 DEF FilledInv, Net

\* A day settled for the first time: its fills come after all others.
LEMMA FilledSettles ==
  ASSUME LedgerTypeOK, InOrder, FilledInv, ~overlapped, NEW d \in 1..N, d \notin committed,
         NEW done \in SUBSET Orders, NEW later \in SUBSET Orders, Settlement!Settle(d, done, later)
  PROVE  FilledInv'
  <1> DEFINE F == FilledOrders
             due == Settlement!Due(d)
  <1>1. N \in Nat /\ Orders \subseteq Nat /\ state \in [Orders -> {"pending", "filled", "rejected", "canceled"}]
        /\ on \in [Orders -> Days] /\ held \in Int
    BY LedgerAssumption DEF LedgerTypeOK, TableTypes
  <1>2. committed = 1..(d - 1) /\ committed' = 1..d
    <2>1. PICK k \in 0..N : committed = 1..k
      BY DEF InOrder
    <2>2. 1..(d - 1) \subseteq committed /\ committed' = committed \cup {d}
      BY Zenon DEF Settlement!Settle
    <2>3. k = d - 1
      <3>1. ~(d <= k)
        BY <1>1, <2>1
      <3>2. d = 1 \/ d - 1 \in 1..(d - 1)
        BY <1>1
      <3>3. d = 1 \/ d - 1 <= k
        BY <1>1, <2>1, <2>2, <3>2
      <3> QED BY <1>1, <3>1, <3>3
    <2> QED BY <1>1, <2>1, <2>2, <2>3
  <1>3. /\ \A o \in done : on[o] = d
        /\ later \subseteq due \ done /\ due \subseteq Orders
        /\ \A o \in due : state[o] = "pending" /\ on[o] = d
        /\ \A o \in Orders : state[o] = "pending" /\ on[o] = d => o \in due
    BY DEF Settlement!Settle, Settlement!Due
  <1>4. /\ \A o \in Orders : on'[o] = IF o \in later THEN d + 1 ELSE on[o]
        /\ \A o \in Orders : state'[o] = CASE o \in due \cap done            -> "filled"
                                           [] o \in due \ (done \cup later) -> "rejected"
                                           [] OTHER                         -> state[o]
        /\ offRecord' = offRecord \cup (done \ due)
        /\ held' = held + Net(done)
    BY SharesBalanced DEF Settlement!Settle
  <1>5. \A o \in done : LET first == {p \in done : p <= o} IN held + Net(first) >= 0
    BY SharesBalanced DEF Settlement!Settle, Settlement!Covered
  <1>6. /\ \A o \in Orders : state[o] = "pending" => on[o] \notin committed
        /\ \A o \in Orders : state[o] = "filled" => on[o] \in committed
        /\ offRecord = {} => held = Net(F) /\ \A o \in F : Net(Through(o)) >= 0
    BY DEF FilledInv
  <1> HIDE DEF due
  <1>7. \A o \in Orders : state'[o] = "pending" => on'[o] \notin committed'
    BY <1>1, <1>2, <1>3, <1>4, <1>6
  <1>8. \A o \in Orders : state'[o] = "filled" => on'[o] \in committed'
    BY <1>1, <1>2, <1>3, <1>4, <1>6
  <1>9. ASSUME offRecord' = {}
        PROVE  held' = Net(FilledOrders') /\ \A o \in FilledOrders' : Net(Through(o)') >= 0
    <2>1. offRecord = {} /\ done \subseteq due
      BY <1>4, <1>9
    <2>2. held = Net(F) /\ \A o \in F : Net(Through(o)) >= 0
      BY <1>6, <2>1
    <2>3. F \subseteq Orders /\ F \cap done = {} /\ FilledOrders' = F \cup done
      <3>1. \A o \in Orders : state'[o] = "filled" <=> o \in done \/ state[o] = "filled"
        BY <1>3, <1>4, <2>1
      <3>2. \A o \in done : state[o] # "filled"
        BY <1>3, <2>1
      <3> QED BY <3>1, <3>2 DEF FilledOrders
    <2>4. /\ \A o \in F : o \in Orders /\ on'[o] = on[o] /\ on[o] \in 1..(d - 1)
          /\ \A o \in done : o \in Orders /\ on'[o] = d
      <3>1. \A o \in F : o \in Orders /\ state[o] = "filled"
        BY DEF FilledOrders
      <3> QED BY <1>2, <1>3, <1>4, <1>6, <3>1
    <2>5. held' = Net(FilledOrders')
      BY <1>4, <2>2, <2>3, NetJoins
    <2>6. ASSUME NEW o \in F PROVE Through(o)' = Through(o)
      <3>1. \A p \in F : Earlier(p, o)' <=> Earlier(p, o)
        BY <2>4 DEF Earlier
      <3>2. \A p \in done : ~Earlier(p, o)'
        BY <1>1, <2>4 DEF Earlier
      <3>3. o \notin done
        BY <2>3
      <3> QED BY <2>3, <3>1, <3>2, <3>3 DEF Through
    <2>7. ASSUME NEW o \in done PROVE Net(Through(o)') >= 0
      <3> DEFINE first == {p \in done : p <= o}
      <3>1. \A p \in F : Earlier(p, o)'
        BY <1>1, <2>4 DEF Earlier
      <3>2. \A p \in done : (p = o \/ Earlier(p, o)') <=> p <= o
        BY <1>1, <2>4 DEF Earlier
      <3>3. Through(o)' = F \cup first
        BY <2>3, <3>1, <3>2 DEF Through
      <3>4. held + Net(first) >= 0
        BY <1>5
      <3>5. first \in SUBSET Orders /\ F \cap first = {}
        BY <2>3
      <3> HIDE DEF first
      <3> QED BY <2>2, <2>3, <3>3, <3>4, <3>5, NetJoins
    <2> QED BY <2>2, <2>3, <2>5, <2>6, <2>7
  <1> QED BY <1>7, <1>8, <1>9 DEF FilledInv, Net

LEMMA FilledStep ==
  ASSUME LedgerTypeOK, InOrder, FilledInv, ~overlapped, [Settlement!Next]_Settlement!books
  PROVE  FilledInv'
  <1>1. held \in Int /\ \A o \in Orders : state[o] = "pending" => on[o] \notin committed
    BY DEF LedgerTypeOK, TableTypes, FilledInv
  <1>2. CASE UNCHANGED Settlement!books \/ Settlement!Disqualify
    <2>1. UNCHANGED <<held, state, on, committed, offRecord>>
      BY <1>2 DEF Settlement!books, Settlement!Disqualify
    <2>2. FilledOrders' = FilledOrders
      BY <2>1 DEF FilledOrders
    <2> QED BY <2>1, <2>2, FilledKept
  <1>3. ASSUME NEW o \in Orders, Settlement!Cancel(o) PROVE FilledInv'
    <2>1. /\ UNCHANGED <<held, on, committed, offRecord>>
          /\ state[o] = "pending" /\ state' = [state EXCEPT ![o] = "canceled"]
      BY <1>3 DEF Settlement!Cancel
    <2>2. state \in [Orders -> {"pending", "filled", "rejected", "canceled"}]
      BY DEF LedgerTypeOK, TableTypes
    <2>3. \A p \in Orders : state'[p] = IF p = o THEN "canceled" ELSE state[p]
      BY <2>1, <2>2
    <2>4. FilledOrders' = FilledOrders
      BY <2>1, <2>3 DEF FilledOrders
    <2> QED BY <2>1, <2>3, <2>4, FilledKept
  <1>4. ASSUME NEW d \in 1..N, NEW done \in SUBSET Orders, NEW later \in SUBSET Orders,
               Settlement!Settle(d, done, later)
        PROVE  FilledInv'
    <2>1. CASE d \notin committed
      BY <1>4, <2>1, FilledSettles
    <2>2. CASE d \in committed
      <3>1. Settlement!Due(d) = {}
        BY <1>1, <2>2 DEF Settlement!Due
      <3>2. /\ committed' = committed /\ later = {} /\ offRecord' = offRecord \cup done
            /\ held' = held + Net(done)
            /\ \A o \in Orders : on'[o] = on[o] /\ state'[o] = state[o]
        <4>1. later \subseteq {} /\ committed' = committed \cup {d}
          BY <1>4, <3>1 DEF Settlement!Settle
        <4>2. offRecord' = offRecord \cup done /\ held' = held + Net(done)
          BY <1>4, <3>1, SharesBalanced DEF Settlement!Settle
        <4>3. \A o \in Orders : on'[o] = on[o] /\ state'[o] = state[o]
          BY <1>4, <3>1, <4>1 DEF Settlement!Settle
        <4> QED BY <2>2, <4>1, <4>2, <4>3
      <3>3. FilledOrders' = FilledOrders
        BY <3>2 DEF FilledOrders
      <3>4. CASE done = {}
        <4>1. Net({}) = 0
          BY SumEmpty DEF Net
        <4>2. held' = held
          BY <1>1, <3>2, <3>4, <4>1
        <4> QED BY <3>2, <3>3, <4>2, FilledKept DEF FilledOrders
      <3>5. CASE done # {}
        <4>1. offRecord' # {}
          BY <3>2, <3>5
        <4>2. \A o \in Orders : state[o] = "filled" => on[o] \in committed
          BY DEF FilledInv
        <4> QED BY <1>1, <3>2, <4>1, <4>2 DEF FilledInv
      <3> QED BY <3>4, <3>5
    <2> QED BY <2>1, <2>2
  <1> QED BY <1>2, <1>3, <1>4 DEF Settlement!Next

LEMMA FilledAlways == LedgerSpec => []FilledInv
  <1>1. LedgerInit => FilledInv
    <2> SUFFICES ASSUME LedgerInit PROVE FilledInv
      OBVIOUS
    <2>1. held = 0 /\ committed = {} /\ \A o \in Orders : state[o] = "pending"
      BY DEF LedgerInit
    <2>2. FilledOrders = {} /\ Net({}) = 0
      BY <2>1, SumEmpty DEF FilledOrders, Net
    <2> QED BY <2>1, <2>2 DEF FilledInv
  <1>2. LedgerTypeOK /\ AtomicInv /\ FilledInv /\ [LedgerNext]_ledgerVars => FilledInv'
    <2> SUFFICES ASSUME LedgerTypeOK, AtomicInv, FilledInv, [LedgerNext]_ledgerVars, ~overlapped'
                 PROVE  FilledInv'
      BY DEF FilledInv
    <2>1. ~overlapped
      BY StillSingle
    <2>2. [Settlement!Next]_Settlement!books
      BY StepSettles
    <2> QED BY <2>1, <2>2, FilledStep DEF AtomicInv
  <1> QED BY <1>1, <1>2, LedgerTypeCorrect, AtomicAlways, PTL DEF LedgerSpec

-----------------------------------------------------------------------------
(* Numbering the shares *)

\* The first k filled orders, and the shares they bought and sold.
First(k)  == {Fills[i] : i \in 1..k}
Bought(k) == SumFunctionOnSet(Qty, First(k) \cap Buys)
Sold(k)   == SumFunctionOnSet(Qty, First(k) \ Buys)

LEMMA QtyTypes ==
  ASSUME NEW X \in SUBSET Orders
  PROVE  /\ IsFiniteSet(X) /\ SumFunctionOnSet(Qty, X) \in Nat
         /\ \A o \in X : Qty[o] \in Nat /\ Qty[o] > 0 /\ Qty[o] \in Int
  <1>1. IsFiniteSet(X)
    BY LedgerAssumption, FS_Subset
  <1>2. \A o \in X : Qty[o] \in Nat /\ Qty[o] > 0 /\ Qty[o] \in Int
    BY LedgerAssumption
  <1>3. SumFunctionOnSet(Qty, X) \in Nat
    BY <1>1, <1>2, SumNat
  <1> QED BY <1>1, <1>2, <1>3

LEMMA FirstGrows ==
  ASSUME LedgerTypeOK, NEW k \in 1..Cardinality(FilledOrders)
  PROVE  /\ First(k) = First(k - 1) \cup {Fills[k]} /\ Fills[k] \notin First(k - 1)
         /\ First(k) \subseteq FilledOrders /\ First(k - 1) \subseteq FilledOrders
         /\ Fills[k] \in FilledOrders /\ FilledOrders \subseteq Orders
         /\ First(k) = Through(Fills[k])
  <1> DEFINE n == Cardinality(FilledOrders)
  <1>1. /\ n \in Nat /\ Fills \in [1..n -> FilledOrders]
        /\ \A i, j \in 1..n : Earlier(Fills[i], Fills[j]) <=> i < j
        /\ \A o \in FilledOrders : \E i \in 1..n : Fills[i] = o
    BY OrderedFills
  <1> HIDE DEF n
  <1>2. k \in 1..n /\ k \in Nat /\ 1..k \subseteq 1..n /\ 1..(k - 1) \subseteq 1..n
        /\ 1..k = 1..(k - 1) \cup {k}
    BY <1>1 DEF n
  <1>3. First(k) = First(k - 1) \cup {Fills[k]}
    BY <1>2 DEF First
  <1>4. Fills[k] \notin First(k - 1)
    <2> SUFFICES ASSUME NEW i \in 1..(k - 1), Fills[i] = Fills[k] PROVE FALSE
      BY DEF First
    <2>1. i < k /\ i \in 1..n
      BY <1>2
    <2>2. Earlier(Fills[i], Fills[k]) /\ ~Earlier(Fills[k], Fills[k])
      BY <1>1, <1>2, <2>1
    <2> QED BY <2>2
  <1>5. First(k) \subseteq FilledOrders /\ First(k - 1) \subseteq FilledOrders /\ Fills[k] \in FilledOrders
    BY <1>1, <1>2 DEF First
  <1>6. First(k) = Through(Fills[k])
    <2>1. ASSUME NEW i \in 1..k PROVE Fills[i] \in Through(Fills[k])
      <3>1. i \in 1..n /\ (i = k \/ i < k)
        BY <1>2
      <3> QED BY <1>1, <1>2, <3>1 DEF Through
    <2>2. ASSUME NEW p \in Through(Fills[k]) PROVE p \in First(k)
      <3>1. p \in FilledOrders /\ (p = Fills[k] \/ Earlier(p, Fills[k]))
        BY <2>2 DEF Through
      <3>2. PICK i \in 1..n : Fills[i] = p
        BY <1>1, <3>1
      <3>3. i = k \/ i < k \/ p = Fills[k]
        BY <1>1, <1>2, <3>1, <3>2
      <3>4. p \in First(k) \/ i \in 1..k
        BY <1>2, <1>3, <3>3
      <3> QED BY <3>2, <3>4 DEF First
    <2> QED BY <2>1, <2>2 DEF First
  <1>7. FilledOrders \subseteq Orders
    BY DEF FilledOrders
  <1> QED BY <1>3, <1>4, <1>5, <1>6, <1>7

\* An order moves the count of its side by its quantity, and up to its last share.
LEMMA CountsGrow ==
  ASSUME LedgerTypeOK, NEW k \in 1..Cardinality(FilledOrders)
  PROVE  LET o == Fills[k] IN
         /\ Bought(k - 1) \in Nat /\ Sold(k - 1) \in Nat
         /\ o \in Buys => /\ Bought(k) = Bought(k - 1) + Qty[o] /\ Sold(k) = Sold(k - 1)
                          /\ Upto(o) = Bought(k)
         /\ o \notin Buys => /\ Sold(k) = Sold(k - 1) + Qty[o] /\ Bought(k) = Bought(k - 1)
                             /\ Upto(o) = Sold(k)
  <1> DEFINE o == Fills[k]
             A == First(k - 1) \cap Buys
             Z == First(k - 1) \ Buys
  <1>1. /\ First(k) = First(k - 1) \cup {o} /\ o \notin First(k - 1)
        /\ First(k - 1) \subseteq Orders /\ o \in Orders /\ First(k) = Through(o)
    BY FirstGrows
  <1>2. A \in SUBSET Orders /\ Z \in SUBSET Orders /\ o \notin A /\ o \notin Z
    BY <1>1
  <1>3. Upto(o) = SumFunctionOnSet(Qty, {p \in First(k) : (p \in Buys) = (o \in Buys)})
    <2>1. {p \in FilledOrders : (p \in Buys) = (o \in Buys) /\ (p = o \/ Earlier(p, o))}
            = {p \in First(k) : (p \in Buys) = (o \in Buys)}
      BY <1>1 DEF Through
    <2> HIDE DEF o
    <2> QED BY <2>1 DEF Upto
  <1>4. /\ o \in Buys => /\ First(k) \cap Buys = A \cup {o} /\ First(k) \ Buys = Z
                         /\ {p \in First(k) : (p \in Buys) = (o \in Buys)} = A \cup {o}
        /\ o \notin Buys => /\ First(k) \ Buys = Z \cup {o} /\ First(k) \cap Buys = A
                            /\ {p \in First(k) : (p \in Buys) = (o \in Buys)} = Z \cup {o}
    BY <1>1
  <1>5. Bought(k - 1) = SumFunctionOnSet(Qty, A) /\ Sold(k - 1) = SumFunctionOnSet(Qty, Z)
    BY DEF Bought, Sold
  <1> HIDE DEF A, Z, o
  <1>6. /\ SumFunctionOnSet(Qty, A) \in Nat /\ SumFunctionOnSet(Qty, Z) \in Nat
        /\ SumFunctionOnSet(Qty, A \cup {o}) = SumFunctionOnSet(Qty, A) + Qty[o]
        /\ SumFunctionOnSet(Qty, Z \cup {o}) = SumFunctionOnSet(Qty, Z) + Qty[o]
    <2>1. /\ IsFiniteSet(A) /\ IsFiniteSet(Z)
          /\ SumFunctionOnSet(Qty, A) \in Nat /\ SumFunctionOnSet(Qty, Z) \in Nat
      BY <1>2, QtyTypes
    <2>2. \A p \in Orders : Qty[p] \in Int
      BY LedgerAssumption
    <2>3. (\A p \in A \cup {o} : Qty[p] \in Int) /\ \A p \in Z \cup {o} : Qty[p] \in Int
      BY <1>1, <1>2, <2>2
    <2> QED BY <1>2, <2>1, <2>3, SumInsert
  <1> QED BY <1>3, <1>4, <1>5, <1>6 DEF Bought, Sold, o

\* Numbers that never fall from one to the next never fall.
LEMMA Monotone ==
  ASSUME NEW n \in Nat, NEW f, \A k \in 0..n : f[k] \in Int, \A k \in 1..n : f[k - 1] <= f[k]
  PROVE  \A i, j \in 0..n : i <= j => f[i] <= f[j]
  <1> SUFFICES ASSUME NEW i \in 0..n PROVE \A j \in 0..n : i <= j => f[i] <= f[j]
    OBVIOUS
  <1> DEFINE Bad == {j \in 0..n : i <= j /\ ~(f[i] <= f[j])}
  <1> SUFFICES ASSUME Bad # {} PROVE FALSE
    OBVIOUS
  <1>1. PICK j \in Bad : \A m \in Bad : j <= m
    <2>1. Bad \in SUBSET Nat
      OBVIOUS
    <2> HIDE DEF Bad
    <2> QED BY <2>1, LeastNat
  <1>2. j \in 0..n /\ i <= j /\ ~(f[i] <= f[j])
    BY <1>1
  <1>3. i # j /\ j - 1 \in 0..n /\ j \in 1..n /\ i <= j - 1
    BY <1>2
  <1>4. f[i] <= f[j - 1]
    <2>1. ~(j <= j - 1)
      BY <1>2
    <2>2. j - 1 \notin Bad
      BY <1>1, <2>1
    <2> QED BY <1>3, <2>2
  <1>5. f[j - 1] <= f[j] /\ f[i] \in Int /\ f[j] \in Int /\ f[j - 1] \in Int
    BY <1>2, <1>3
  <1> QED BY <1>2, <1>4, <1>5

LEMMA CountTypes ==
  ASSUME LedgerTypeOK
  PROVE  LET n == Cardinality(FilledOrders) IN
         /\ Bought(0) = 0 /\ Sold(0) = 0
         /\ \A k \in 0..n : Bought(k) \in Nat /\ Sold(k) \in Nat
         /\ \A i, j \in 0..n : i <= j => Bought(i) <= Bought(j)
  <1> DEFINE n == Cardinality(FilledOrders)
             f == [k \in 0..n |-> Bought(k)]
  <1>1. n \in Nat
    BY OrderedFills
  <1>2. Bought(0) = 0 /\ Sold(0) = 0
    <2>1. First(0) = {}
      BY DEF First
    <2>2. First(0) \cap Buys = {} /\ First(0) \ Buys = {}
      BY <2>1
    <2> QED BY <2>2, SumEmpty DEF Bought, Sold
  <1>3. \A k \in 1..n : LET o == Fills[k] IN
           /\ o \in Orders /\ Bought(k - 1) \in Nat /\ Sold(k - 1) \in Nat /\ Qty[o] \in Nat
           /\ (Bought(k) = Bought(k - 1) + Qty[o] /\ Sold(k) = Sold(k - 1))
                \/ (Sold(k) = Sold(k - 1) + Qty[o] /\ Bought(k) = Bought(k - 1))
    <2> SUFFICES ASSUME NEW k \in 1..n
                 PROVE  /\ Fills[k] \in Orders /\ Bought(k - 1) \in Nat /\ Sold(k - 1) \in Nat
                        /\ Qty[Fills[k]] \in Nat
                        /\ (Bought(k) = Bought(k - 1) + Qty[Fills[k]] /\ Sold(k) = Sold(k - 1))
                             \/ (Sold(k) = Sold(k - 1) + Qty[Fills[k]] /\ Bought(k) = Bought(k - 1))
      OBVIOUS
    <2>1. Fills[k] \in Orders
      BY FirstGrows
    <2>2. Qty[Fills[k]] \in Nat
      BY <2>1, LedgerAssumption
    <2> QED BY <2>1, <2>2, CountsGrow
  <1> HIDE DEF n
  <1>4. \A k \in 0..n : Bought(k) \in Nat /\ Sold(k) \in Nat
    <2> SUFFICES ASSUME NEW k \in 0..n PROVE Bought(k) \in Nat /\ Sold(k) \in Nat
      OBVIOUS
    <2>1. CASE k = 0
      BY <1>2, <2>1
    <2>2. CASE k # 0
      <3>1. k \in 1..n
        BY <1>1, <2>2
      <3> QED BY <1>3, <3>1
    <2> QED BY <2>1, <2>2
  <1>5. \A k \in 0..n : f[k] = Bought(k)
    OBVIOUS
  <1>6. ASSUME NEW k \in 1..n PROVE f[k - 1] <= f[k]
    <2>1. k - 1 \in 0..n /\ k \in 0..n
      BY <1>1
    <2> HIDE DEF f
    <2> QED BY <1>3, <1>5, <2>1
  <1> HIDE DEF f
  <1>7. \A i, j \in 0..n : i <= j => f[i] <= f[j]
    <2>1. \A k \in 0..n : f[k] \in Int
      BY <1>4, <1>5
    <2> QED BY <1>1, <1>6, <2>1, Monotone
  <1> QED BY <1>2, <1>4, <1>5, <1>7 DEF n

\* The shares of two buys do not overlap.
LEMMA BuysApart ==
  ASSUME LedgerTypeOK, NEW a \in FilledOrders \cap Buys, NEW b \in FilledOrders \cap Buys, a # b
  PROVE  Upto(a) # Upto(b) /\ (Upto(a) < Upto(b) => Upto(a) <= Upto(b) - Qty[b])
  <1> DEFINE n == Cardinality(FilledOrders)
  <1>1. n \in Nat /\ \A o \in FilledOrders : \E i \in 1..n : Fills[i] = o
    BY OrderedFills
  <1>2. PICK i \in 1..n : Fills[i] = a
    BY <1>1
  <1>3. PICK j \in 1..n : Fills[j] = b
    BY <1>1
  <1>4. /\ Upto(a) = Bought(i) /\ Upto(b) = Bought(j)
        /\ Bought(i) = Bought(i - 1) + Qty[a] /\ Bought(j) = Bought(j - 1) + Qty[b]
    BY <1>2, <1>3, CountsGrow
  <1>5. Qty[a] \in Nat /\ Qty[a] > 0 /\ Qty[b] \in Nat /\ Qty[b] > 0
    <2>1. a \in Orders /\ b \in Orders
      BY DEF FilledOrders
    <2> QED BY <2>1, LedgerAssumption
  <1>6. /\ i \in 0..n /\ j \in 0..n /\ i - 1 \in 0..n /\ j - 1 \in 0..n
        /\ (i <= j - 1 \/ j <= i - 1)
    BY <1>1, <1>2, <1>3
  <1>7. /\ Bought(i) \in Nat /\ Bought(j) \in Nat /\ Bought(i - 1) \in Nat /\ Bought(j - 1) \in Nat
        /\ Bought(i) <= Bought(j - 1) \/ Bought(j) <= Bought(i - 1)
    BY <1>6, CountTypes
  <1> QED BY <1>4, <1>5, <1>7

\* What orders brought is what they bought less what they sold.
LEMMA NetOfSides ==
  ASSUME NEW X \in SUBSET Orders
  PROVE  Net(X) = SumFunctionOnSet(Qty, X \cap Buys) - SumFunctionOnSet(Qty, X \ Buys)
  <1> DEFINE A == X \cap Buys
             Z == X \ Buys
             zero == [o \in Z |-> 0]
  <1>1. A \in SUBSET Orders /\ Z \in SUBSET Orders /\ A \cap Z = {} /\ A \cup Z = X
    OBVIOUS
  <1>2. \A o \in Orders : Qty[o] \in Int
    BY LedgerAssumption
  <1>3. /\ \A o \in A : Qty[o] \in Int /\ Shares[o] = Qty[o]
        /\ \A o \in Z : Qty[o] \in Int /\ Shares[o] \in Int /\ zero[o] = Qty[o] + Shares[o] /\ zero[o] = 0
    BY <1>2 DEF Shares
  <1> HIDE DEF A, Z, zero
  <1>4. IsFiniteSet(A) /\ IsFiniteSet(Z) /\ Net(A) \in Int /\ Net(Z) \in Int
    BY <1>1, NetTypes
  <1>5. Net(X) = Net(A) + Net(Z)
    BY <1>1, NetJoins
  <1>6. Net(A) = SumFunctionOnSet(Qty, A)
    BY <1>3, <1>4, SumAgree DEF Net
  <1>7. SumFunctionOnSet(zero, Z) = SumFunctionOnSet(Qty, Z) + SumFunctionOnSet(Shares, Z)
    BY <1>3, <1>4, SumPlus
  <1>8. SumFunctionOnSet(zero, Z) = 0
    BY <1>3, <1>4, SumZero
  <1>9. SumFunctionOnSet(Qty, Z) \in Nat
    BY <1>1, QtyTypes
  <1>10. Net(Z) = -SumFunctionOnSet(Qty, Z)
    BY <1>4, <1>7, <1>8, <1>9 DEF Net
  <1> QED BY <1>4, <1>5, <1>6, <1>9, <1>10 DEF A, Z

\* Never more sold than bought, and the difference is held.
LEMMA SoldOfBought ==
  ASSUME LedgerTypeOK, FilledInv, ~overlapped, offRecord = {}
  PROVE  LET n == Cardinality(FilledOrders) IN
         held = Bought(n) - Sold(n) /\ First(n) = FilledOrders /\ \A k \in 0..n : Sold(k) <= Bought(k)
  <1> DEFINE n == Cardinality(FilledOrders)
  <1>1. held = Net(FilledOrders) /\ \A o \in FilledOrders : Net(Through(o)) >= 0
    BY DEF FilledInv
  <1>2. /\ n \in Nat /\ Fills \in [1..n -> FilledOrders]
        /\ \A o \in FilledOrders : \E i \in 1..n : Fills[i] = o
    BY OrderedFills
  <1>3. First(n) = FilledOrders
    BY <1>2 DEF First
  <1>4. FilledOrders \in SUBSET Orders
    BY DEF FilledOrders
  <1>5. held = Bought(n) - Sold(n)
    BY <1>1, <1>3, <1>4, NetOfSides DEF Bought, Sold
  <1>6. ASSUME NEW k \in 0..n PROVE Sold(k) <= Bought(k)
    <2>1. Bought(0) = 0 /\ Sold(0) = 0 /\ Bought(k) \in Nat /\ Sold(k) \in Nat
      BY CountTypes
    <2>2. CASE k = 0
      BY <2>1, <2>2
    <2>3. CASE k # 0
      <3>1. k \in 1..n
        BY <1>2, <2>3
      <3>2. First(k) = Through(Fills[k]) /\ Fills[k] \in FilledOrders /\ First(k) \in SUBSET Orders
        BY <3>1, FirstGrows
      <3>3. Net(First(k)) >= 0
        BY <1>1, <3>2
      <3>4. Net(First(k)) = Bought(k) - Sold(k)
        BY <3>2, NetOfSides DEF Bought, Sold
      <3> QED BY <2>1, <3>3, <3>4
    <2> QED BY <2>2, <2>3
  <1> QED BY <1>3, <1>5, <1>6

-----------------------------------------------------------------------------
(* The lots that are left *)

Lots  == [of : Orders, qty : Int]
Sales == [of : Orders, remain : Int, lots : Seq(Lots), closed : Int, profitable : Int, holdSum : Int]
Stats == [lots : Seq(Lots), closed : Int, profitable : Int, holdSum : Int]

\* Lot i of L has the shares after e[i - 1] up to e[i], the last ones of its order; only
\* the first lot, after lo, may have lost some.
Chain(L, e, lo, hi) ==
    /\ L \in Seq(Lots) /\ e \in [0..Len(L) -> Int] /\ e[0] = lo /\ e[Len(L)] = hi
    /\ \A i \in 1..Len(L) :
          LET b == L[i].of IN
          /\ b \in FilledOrders \cap Buys /\ e[i] = Upto(b)
          /\ e[i - 1] < e[i] /\ L[i].qty = e[i] - e[i - 1]
          /\ Upto(b) - Qty[b] <= e[i - 1] /\ (e[i - 1] = lo \/ e[i - 1] = Upto(b) - Qty[b])

Chained(L, lo, hi) == \E e : Chain(L, e, lo, hi)

LEMMA NoLots == ASSUME NEW c \in Int PROVE Chained(<<>>, c, c)
  <1> DEFINE e == [i \in 0..0 |-> c]
  <1>1. e \in [0..0 -> Int] /\ e[0] = c /\ Len(<<>>) = 0 /\ <<>> \in Seq(Lots)
    OBVIOUS
  <1> HIDE DEF e
  <1>2. Chain(<<>>, e, c, c)
    BY <1>1 DEF Chain
  <1> QED BY <1>2 DEF Chained

\* One more lot.
LEMMA ChainGrows ==
  ASSUME NEW L, NEW lo, NEW hi, Chained(L, lo, hi), NEW lot \in Lots, NEW h \in Int,
         lot.of \in FilledOrders \cap Buys, h = Upto(lot.of), hi < h, lot.qty = h - hi,
         h - Qty[lot.of] <= hi, hi = lo \/ hi = h - Qty[lot.of]
  PROVE  Chained(Append(L, lot), lo, h)
  <1>1. PICK e : Chain(L, e, lo, hi)
    BY DEF Chained
  <1> DEFINE m == Len(L)
             M == Append(L, lot)
             g == [i \in 0..(m + 1) |-> IF i = m + 1 THEN h ELSE e[i]]
  <1>2. /\ L \in Seq(Lots) /\ e \in [0..m -> Int] /\ e[0] = lo /\ e[m] = hi /\ m \in Nat
    BY <1>1 DEF Chain
  <1>3. /\ M \in Seq(Lots) /\ Len(M) = m + 1 /\ M[m + 1] = lot
        /\ \A i \in 1..m : M[i] = L[i]
    BY <1>2
  <1> HIDE DEF M, m
  <1>4. /\ g \in [0..(m + 1) -> Int] /\ g[m + 1] = h /\ \A i \in 0..m : g[i] = e[i]
    BY <1>2
  <1> HIDE DEF g
  <1>5. g[0] = lo /\ g[m] = hi
    BY <1>2, <1>4
  <1>6. ASSUME NEW i \in 1..(m + 1)
        PROVE  LET b == M[i].of IN
               /\ b \in FilledOrders \cap Buys /\ g[i] = Upto(b)
               /\ g[i - 1] < g[i] /\ M[i].qty = g[i] - g[i - 1]
               /\ Upto(b) - Qty[b] <= g[i - 1] /\ (g[i - 1] = lo \/ g[i - 1] = Upto(b) - Qty[b])
    <2>1. CASE i = m + 1
      <3>1. i - 1 = m
        BY <1>2, <2>1
      <3> QED BY <1>3, <1>4, <1>5, <2>1, <3>1
    <2>2. CASE i # m + 1
      <3>1. i \in 1..m /\ i - 1 \in 0..m /\ i \in 0..m
        BY <1>2, <2>2
      <3>2. M[i] = L[i] /\ g[i] = e[i] /\ g[i - 1] = e[i - 1]
        BY <1>3, <1>4, <3>1
      <3> QED BY <1>1, <3>1, <3>2 DEF Chain, m
    <2> QED BY <2>1, <2>2
  <1>7. Chain(M, g, lo, h)
    BY <1>3, <1>4, <1>5, <1>6 DEF Chain
  <1> QED BY <1>7 DEF Chained, M

\* The ends of the lots rise.
LEMMA ChainRises ==
  ASSUME NEW L, NEW e, NEW lo, NEW hi, Chain(L, e, lo, hi)
  PROVE  /\ Len(L) \in Nat /\ \A i \in 0..Len(L) : e[i] \in Int
         /\ \A i, j \in 0..Len(L) : i < j => e[i] < e[j]
  <1> DEFINE m == Len(L)
  <1>1. m \in Nat /\ e \in [0..m -> Int] /\ \A i \in 1..m : e[i - 1] < e[i]
    <2>1. L \in Seq(Lots) /\ e \in [0..m -> Int]
      BY DEF Chain
    <2>2. \A i \in 1..m : e[i - 1] < e[i]
      BY Zenon DEF Chain
    <2> QED BY <2>1, <2>2
  <1> HIDE DEF m
  <1>2. \A i \in 0..m : e[i] \in Int
    BY <1>1
  <1>3. \A i \in 1..m : i \in 0..m /\ i - 1 \in 0..m
    BY <1>1
  <1>4. \A i, j \in 0..m : i <= j => e[i] <= e[j]
    <2>1. \A i \in 1..m : e[i - 1] <= e[i]
      BY <1>1, <1>2, <1>3
    <2> QED BY <1>1, <1>2, <2>1, Monotone
  <1>5. ASSUME NEW i \in 0..m, NEW j \in 0..m, i < j PROVE e[i] < e[j]
    <2>1. j \in 1..m /\ j - 1 \in 0..m /\ i <= j - 1
      BY <1>1, <1>5
    <2>2. e[i] <= e[j - 1] /\ e[j - 1] < e[j]
      BY <1>1, <1>4, <2>1
    <2> QED BY <1>2, <2>1, <2>2
  <1> QED BY <1>1, <1>2, <1>5 DEF m

\* What the lots have together.
LEMMA LotsAddUp ==
  ASSUME NEW L, NEW lo \in Int, NEW hi, Chained(L, lo, hi)
  PROVE  Added(0, L) = hi - lo
  <1>1. PICK e : Chain(L, e, lo, hi)
    BY DEF Chained
  <1> DEFINE m == Len(L)
  <1>2. /\ m \in Nat /\ DOMAIN L = 1..m /\ e[0] = lo /\ e[m] = hi
        /\ \A i \in 0..m : e[i] \in Int
        /\ \A i \in 1..m : L[i].qty = e[i] - e[i - 1]
    <2>1. L \in Seq(Lots) /\ e[0] = lo /\ e[m] = hi
      BY <1>1 DEF Chain
    <2>2. \A i \in 0..m : e[i] \in Int
      BY <1>1, ChainRises
    <2>3. \A i \in 1..m : L[i].qty = e[i] - e[i - 1]
      BY <1>1, Zenon DEF Chain
    <2> QED BY <2>1, <2>2, <2>3
  <1> HIDE DEF m
  <1>3. PICK acc : Stepwise("add", acc, 0, L, m) /\ Added(0, L) = acc[m]
    BY <1>2, AddedStepwise
  <1>4. acc[0] = 0 /\ \A k \in 1..m : acc[k] = acc[k - 1] + L[k].qty
    BY <1>3, StepIs DEF Stepwise, AddLot
  <1> DEFINE Bad == {k \in 0..m : acc[k] # e[k] - lo}
  <1>5. Bad = {}
    <2> SUFFICES ASSUME Bad # {} PROVE FALSE
      OBVIOUS
    <2>1. PICK k \in Bad : \A j \in Bad : k <= j
      <3>1. Bad \in SUBSET Nat
        OBVIOUS
      <3> HIDE DEF Bad
      <3> QED BY <3>1, LeastNat
    <2>2. k \in 0..m /\ acc[k] # e[k] - lo
      BY <2>1
    <2>3. CASE k = 0
      BY <1>2, <1>4, <2>2, <2>3
    <2>4. CASE k # 0
      <3>1. k \in 1..m /\ k - 1 \in 0..m /\ ~(k <= k - 1)
        BY <1>2, <2>2, <2>4
      <3>2. k - 1 \notin Bad
        BY <2>1, <3>1
      <3>3. acc[k - 1] = e[k - 1] - lo /\ e[k - 1] \in Int /\ e[k] \in Int
        BY <1>2, <2>2, <3>1, <3>2
      <3> QED BY <1>2, <1>4, <2>2, <3>1, <3>3
    <2> QED BY <2>3, <2>4
  <1>6. m \in 0..m /\ m \notin Bad
    BY <1>2, <1>5
  <1> QED BY <1>2, <1>3, <1>6

-----------------------------------------------------------------------------
(* Counting closed trades *)

\* The counters of x are those of the pairs in T.
Tally(x, T) ==
    /\ IsFiniteSet(T) /\ T \subseteq Orders \X Orders
    /\ x.closed = Cardinality(T)
    /\ x.profitable = Cardinality({p \in T : Profitable(p[1], p[2])})
    /\ x.holdSum = SumFunctionOnSet(HeldDays, T)

LEMMA TallyGrows ==
  ASSUME LedgerTypeOK, NEW x, NEW T, Tally(x, T), NEW b \in Orders, NEW s \in Orders, <<b, s>> \notin T,
         NEW y, y.closed = x.closed + 1, y.holdSum = x.holdSum + (on[s] - on[b]),
         y.profitable = x.profitable + (IF Profitable(b, s) THEN 1 ELSE 0)
  PROVE  Tally(y, T \cup {<<b, s>>})
  <1> DEFINE p == <<b, s>>
             U == T \cup {p}
             G(X) == {q \in X : Profitable(q[1], q[2])}
  <1>1. p \in Orders \X Orders /\ p[1] = b /\ p[2] = s /\ p \notin T
    OBVIOUS
  <1>2. IsFiniteSet(T) /\ T \subseteq Orders \X Orders /\ x.closed = Cardinality(T)
        /\ x.profitable = Cardinality(G(T)) /\ x.holdSum = SumFunctionOnSet(HeldDays, T)
    BY DEF Tally
  <1>3. \A q \in Orders \X Orders : HeldDays[q] \in Int
    <2>1. \A o \in Orders : on[o] \in Int
      BY LedgerAssumption DEF LedgerTypeOK, TableTypes, Days
    <2> QED BY <2>1 DEF HeldDays
  <1>4. HeldDays[p] = on[s] - on[b]
    BY <1>1 DEF HeldDays
  <1>5. IsFiniteSet(U) /\ Cardinality(U) = Cardinality(T) + 1
    BY <1>1, <1>2, FS_AddElement
  <1>6. Cardinality(G(U)) = Cardinality(G(T)) + (IF Profitable(b, s) THEN 1 ELSE 0)
    <2>1. IsFiniteSet(G(T)) /\ p \notin G(T)
      <3>1. G(T) \subseteq T
        OBVIOUS
      <3> QED BY <1>1, <1>2, <3>1, FS_Subset
    <2>2. CASE Profitable(b, s)
      <3>1. G(U) = G(T) \cup {p}
        BY <1>1, <2>2
      <3> HIDE DEF G, U, p
      <3> QED BY <2>1, <2>2, <3>1, FS_AddElement
    <2>3. CASE ~Profitable(b, s)
      <3>1. G(U) = G(T)
        BY <1>1, <2>3
      <3>2. Cardinality(G(T)) \in Nat
        BY <2>1, FS_CardinalityType
      <3> HIDE DEF G, U
      <3> QED BY <2>3, <3>1, <3>2
    <2> QED BY <2>2, <2>3
  <1> HIDE DEF p
  <1>7. SumFunctionOnSet(HeldDays, U) = SumFunctionOnSet(HeldDays, T) + HeldDays[p]
    <2>1. \A q \in T \cup {p} : HeldDays[q] \in Int
      BY <1>1, <1>2, <1>3
    <2>2. SumFunctionOnSet(HeldDays, T \cup {p}) = SumFunctionOnSet(HeldDays, T) + HeldDays[p]
      <3> HIDE DEF U, G
      <3>1. IsFiniteSet(T) /\ p \notin T
        BY <1>1, <1>2
      <3>2. \A f : (\A q \in T \cup {p} : f[q] \in Int)
                     => SumFunctionOnSet(f, T \cup {p}) = SumFunctionOnSet(f, T) + f[p]
        BY <3>1, SumInsert
      <3> QED BY <2>1, <3>2
    <2> QED BY <2>2
  <1>8. U \subseteq Orders \X Orders
    BY <1>1, <1>2
  <1> HIDE DEF U
  <1>9. Tally(y, U)
    BY <1>2, <1>4, <1>5, <1>6, <1>7, <1>8 DEF Tally
  <1> QED BY <1>9 DEF U, p

\* A sale that goes up to share c, and has looked at the lots up to share a.
Left(x, a, c) ==
    /\ x \in Sales
    /\ IF a < c THEN x.remain = c - a /\ x.lots = <<>>
                ELSE x.remain = 0 /\ Chained(x.lots, c, a)

LEMMA TakeLotLeft ==
  ASSUME LedgerTypeOK, NEW L, NEW e, NEW lo \in Int, NEW hi, Chain(L, e, lo, hi),
         NEW c \in Int, lo < c, NEW j \in 1..Len(L), NEW x, Left(x, e[j - 1], c)
  PROVE  Left(TakeLot(x, L[j]), e[j], c)
  <1> DEFINE lot == L[j]
             b == lot.of
             a == e[j - 1]
             h == e[j]
             m == Min({x.remain, lot.qty})
             y == TakeLot(x, lot)
  <1>1. /\ L \in Seq(Lots) /\ e \in [0..Len(L) -> Int]
        /\ b \in FilledOrders \cap Buys /\ h = Upto(b) /\ a < h /\ lot.qty = h - a
        /\ Upto(b) - Qty[b] <= a /\ (a = lo \/ a = Upto(b) - Qty[b])
    BY Zenon DEF Chain
  <1>2. lot \in Lots /\ a \in Int /\ h \in Int /\ b \in Orders /\ lot.qty \in Int
    <2>1. j \in 0..Len(L) /\ j - 1 \in 0..Len(L) /\ lot \in Lots
      BY <1>1
    <2> QED BY <1>1, <2>1 DEF Lots
  <1>3. /\ x \in Sales /\ x.of \in Orders /\ x.remain \in Int /\ x.lots \in Seq(Lots)
        /\ x.closed \in Int /\ x.profitable \in Int /\ x.holdSum \in Int
    BY DEF Left, Sales
  <1>4. on[x.of] \in Int /\ on[b] \in Int /\ Qty[b] \in Int
    <2>1. \A o \in Orders : on[o] \in Int
      BY LedgerAssumption DEF LedgerTypeOK, TableTypes, Days
    <2>2. Qty[b] \in Int
      BY <1>2, LedgerAssumption
    <2> HIDE DEF b
    <2> QED BY <1>2, <1>3, <2>1, <2>2
  <1>5. IF a < c THEN x.remain = c - a /\ x.lots = <<>> ELSE x.remain = 0 /\ Chained(x.lots, c, a)
    BY DEF Left
  <1> HIDE DEF lot, b, a, h
  <1>6. CASE ~(a < c)
    <2>1. x.remain = 0 /\ Chained(x.lots, c, a)
      BY <1>5, <1>6
    <2>2. y = [x EXCEPT !.lots = Append(@, lot)]
      BY <2>1 DEF TakeLot
    <2>3. y \in Sales /\ y.remain = 0 /\ y.lots = Append(x.lots, lot)
      <3>1. Append(x.lots, lot) \in Seq(Lots)
        BY <1>2, <1>3
      <3> DEFINE ap == Append(x.lots, lot)
      <3>2. y = [x EXCEPT !.lots = ap] /\ ap \in Seq(Lots)
        BY <2>2, <3>1
      <3> HIDE DEF ap, y, m
      <3>3. y \in Sales /\ y.remain = 0 /\ y.lots = ap
        BY <1>3, <2>1, <3>2 DEF Sales
      <3> QED BY <3>3 DEF ap
    <2>4. Chained(Append(x.lots, lot), c, h)
      <3>1. h - Qty[lot.of] <= a /\ (a = c \/ a = h - Qty[lot.of]) /\ lot.of = b
        BY <1>1, <1>2, <1>6 DEF b
      <3> HIDE DEF m, y
      <3> QED BY <1>1, <1>2, <2>1, <3>1, ChainGrows
    <2>5. ~(h < c)
      BY <1>1, <1>2, <1>6
    <2> HIDE DEF y
    <2>6. Left(y, h, c)
      BY <2>3, <2>4, <2>5 DEF Left
    <2> QED BY <2>6 DEF y, lot, h
  <1>7. CASE a < c
    <2>1. x.remain = c - a /\ x.remain # 0 /\ x.lots = <<>>
      BY <1>2, <1>5, <1>7
    <2>2. m = IF x.remain <= lot.qty THEN x.remain ELSE lot.qty
      BY <1>2, <1>3, MinOfTwo
    <2>3. m \in Int
      BY <1>2, <1>3, <2>2
    <2> DEFINE rest == [lot EXCEPT !.qty = @ - m]
    <2>4. y = [x EXCEPT !.remain     = @ - m,
                        !.lots       = IF lot.qty = m THEN @ ELSE Append(@, rest),
                        !.closed     = @ + 1,
                        !.profitable = @ + (IF Profitable(lot.of, x.of) THEN 1 ELSE 0),
                        !.holdSum    = @ + (on[x.of] - on[lot.of])]
      BY <2>1 DEF TakeLot
    <2>5. rest \in Lots /\ rest.of = b /\ rest.qty = lot.qty - m
      BY <1>2, <2>3 DEF Lots, b
    <2> HIDE DEF m, rest
    <2>6. /\ y \in Sales /\ y.remain = x.remain - m
          /\ y.lots = IF lot.qty = m THEN x.lots ELSE Append(x.lots, rest)
      <3>1. on[lot.of] \in Int
        BY <1>4 DEF b
      <3>2. (IF lot.qty = m THEN x.lots ELSE Append(x.lots, rest)) \in Seq(Lots)
        BY <1>3, <2>5
      <3>3. x.remain - m \in Int /\ x.closed + 1 \in Int /\ x.holdSum + (on[x.of] - on[lot.of]) \in Int
            /\ x.profitable + (IF Profitable(lot.of, x.of) THEN 1 ELSE 0) \in Int
        <4>1. x.remain - m \in Int /\ x.closed + 1 \in Int
          BY <1>3, <2>3
        <4>2. x.holdSum + (on[x.of] - on[lot.of]) \in Int
          BY <1>3, <1>4, <3>1
        <4>3. (IF Profitable(lot.of, x.of) THEN 1 ELSE 0) \in Int
          OBVIOUS
        <4> HIDE DEF y
        <4>4. x.profitable + (IF Profitable(lot.of, x.of) THEN 1 ELSE 0) \in Int
          BY <1>3, <4>3
        <4> QED BY <4>1, <4>2, <4>4
      <3> HIDE DEF y
      <3> QED BY <1>3, <2>4, <3>2, <3>3 DEF Sales
    <2> HIDE DEF y
    <2>7. CASE h <= c
      <3>1. m = lot.qty /\ y.lots = <<>> /\ y.remain = c - h
        BY <1>1, <1>2, <2>1, <2>2, <2>6, <2>7
      <3>2. CASE h < c
        BY <2>6, <3>1, <3>2 DEF Left, y, lot, h
      <3>3. CASE h = c
        <4>1. Chained(y.lots, c, h) /\ y.remain = 0 /\ ~(h < c)
          BY <1>2, <3>1, <3>3, NoLots
        <4>2. Left(y, h, c)
          BY <2>6, <4>1 DEF Left
        <4> QED BY <4>2 DEF y, lot, h
      <3> QED BY <1>2, <2>7, <3>2, <3>3
    <2>8. CASE ~(h <= c)
      <3>1. m = x.remain /\ lot.qty # m /\ y.lots = Append(<<>>, rest) /\ y.remain = 0 /\ rest.qty = h - c
        BY <1>1, <1>2, <2>1, <2>2, <2>5, <2>6, <2>8
      <3>2. Chained(Append(<<>>, rest), c, h)
        <4>1. Chained(<<>>, c, c)
          BY NoLots
        <4>2. h - Qty[rest.of] <= c /\ c < h /\ h = Upto(rest.of) /\ rest.of \in FilledOrders \cap Buys
          BY <1>1, <1>2, <1>4, <1>7, <2>5, <2>8
        <4> QED BY <1>2, <2>5, <3>1, <4>1, <4>2, ChainGrows
      <3>3. Left(y, h, c)
        <4>1. ~(h < c)
          BY <1>2, <2>8
        <4>2. Chained(y.lots, c, h)
          BY <3>1, <3>2
        <4> QED BY <2>6, <3>1, <4>1, <4>2 DEF Left
      <3> QED BY <3>3 DEF y, lot, h
    <2> QED BY <2>7, <2>8
  <1> QED BY <1>6, <1>7

\* What a sale counts at one lot.
LEMMA TakeLotTally ==
  ASSUME LedgerTypeOK, NEW x \in Sales, NEW lot \in Lots, NEW T, Tally(x, T),
         x.remain # 0 => <<lot.of, x.of>> \notin T
  PROVE  /\ TakeLot(x, lot).of = x.of
         /\ Tally(TakeLot(x, lot), IF x.remain = 0 THEN T ELSE T \cup {<<lot.of, x.of>>})
  <1> DEFINE y == TakeLot(x, lot)
             m == Min({x.remain, lot.qty})
             rest == IF lot.qty = m THEN x.lots ELSE Append(x.lots, [lot EXCEPT !.qty = @ - m])
  <1>1. CASE x.remain = 0
    <2>1. y = [x EXCEPT !.lots = Append(@, lot)]
      BY <1>1 DEF TakeLot
    <2> HIDE DEF y
    <2>2. y.of = x.of /\ y.closed = x.closed /\ y.profitable = x.profitable /\ y.holdSum = x.holdSum
      BY <2>1 DEF Sales
    <2>3. Tally(y, T)
      BY <2>2 DEF Tally
    <2> QED BY <1>1, <2>2, <2>3 DEF y
  <1>2. CASE x.remain # 0
    <2>1. y = [x EXCEPT !.remain     = @ - m,
                        !.lots       = rest,
                        !.closed     = @ + 1,
                        !.profitable = @ + (IF Profitable(lot.of, x.of) THEN 1 ELSE 0),
                        !.holdSum    = @ + (on[x.of] - on[lot.of])]
      BY <1>2 DEF TakeLot
    <2> HIDE DEF y, rest, m
    <2>2. /\ y.of = x.of /\ y.closed = x.closed + 1 /\ y.holdSum = x.holdSum + (on[x.of] - on[lot.of])
          /\ y.profitable = x.profitable + (IF Profitable(lot.of, x.of) THEN 1 ELSE 0)
      BY <2>1 DEF Sales
    <2>3. x.of \in Orders /\ lot.of \in Orders
      BY DEF Sales, Lots
    <2>4. Tally(y, T \cup {<<lot.of, x.of>>})
      BY <1>2, <2>2, <2>3, TallyGrows
    <2> QED BY <1>2, <2>2, <2>4 DEF y
  <1> QED BY <1>1, <1>2

\* The pairs that a sale up to share c makes with the first j lots.
Closes(L, e, c, o, j) == {<<L[i].of, o>> : i \in {i \in 1..j : e[i - 1] < c}}

\* A sale closes the lots that begin before its last share, and leaves the rest.
LEMMA SaleTakes ==
  ASSUME LedgerTypeOK, NEW o \in Orders, NEW stats \in Stats, NEW e, NEW lo \in Int, NEW hi \in Int,
         lo + Qty[o] <= hi, Chain(stats.lots, e, lo, hi),
         NEW T, Tally(stats, T), \A p \in T : p[2] # o
  PROVE  LET x == Taken(Sale(stats, o), stats.lots)
             c == lo + Qty[o]
         IN  /\ x \in Sales /\ Chained(x.lots, c, hi)
             /\ Tally(x, T \cup Closes(stats.lots, e, c, o, Len(stats.lots)))
  <1> DEFINE L == stats.lots
             m == Len(L)
             c == lo + Qty[o]
             base == Sale(stats, o)
             P(j) == Closes(L, e, c, o, j)
             Good(j, x) == x.of = o /\ Left(x, e[j], c) /\ Tally(x, T \cup P(j))
  <1>1. Qty[o] \in Nat /\ Qty[o] > 0 /\ c \in Int /\ lo < c
    BY LedgerAssumption
  <1>2. /\ m \in Nat /\ \A i \in 0..m : e[i] \in Int
        /\ \A i, j \in 0..m : i < j => e[i] < e[j]
    BY ChainRises
  <1>3. /\ e[0] = lo /\ e[m] = hi /\ L \in Seq(Lots)
        /\ \A i \in 1..m : e[i] = Upto(L[i].of)
    <2>1. e[0] = lo /\ e[m] = hi /\ L \in Seq(Lots)
      BY DEF Chain
    <2>2. \A i \in 1..m : e[i] = Upto(L[i].of)
      BY Zenon DEF Chain
    <2> QED BY <2>1, <2>2
  <1>4. DOMAIN L = 1..m /\ \A i \in 1..m : L[i] \in Lots
    BY <1>2, <1>3
  <1> HIDE DEF m, c, base
  <1>5. PICK acc : Stepwise("take", acc, base, L, m) /\ Taken(base, L) = acc[m]
    BY <1>2, <1>4, LotsStepwise
  <1>6. acc[0] = base /\ \A k \in 1..m : acc[k] = TakeLot(acc[k - 1], L[k])
    BY <1>5, StepIs DEF Stepwise
  <1>7. Good(0, acc[0])
    <2>1. /\ base = [of |-> o, remain |-> Qty[o], lots |-> <<>>, closed |-> stats.closed,
                     profitable |-> stats.profitable, holdSum |-> stats.holdSum]
          /\ stats.closed \in Int /\ stats.profitable \in Int /\ stats.holdSum \in Int
      BY DEF base, Sale, Stats
    <2>2. base \in Sales
      BY <1>1, <2>1 DEF Sales
    <2>3. base.of = o /\ base.remain = c - lo /\ base.lots = <<>>
      BY <1>1, <2>1 DEF c
    <2>4. Left(base, e[0], c)
      BY <1>1, <1>3, <2>2, <2>3 DEF Left
    <2>5. Tally(base, T)
      <3>1. base.closed = stats.closed /\ base.profitable = stats.profitable /\ base.holdSum = stats.holdSum
        BY <2>1
      <3> QED BY <3>1 DEF Tally
    <2>6. T \cup P(0) = T
      BY DEF Closes
    <2> QED BY <1>6, <2>3, <2>4, <2>5, <2>6
  <1>8. ASSUME NEW j \in 1..m, Good(j - 1, acc[j - 1]) PROVE Good(j, acc[j])
    <2> DEFINE x == acc[j - 1]
               p == <<L[j].of, o>>
    <2>1. x.of = o /\ Left(x, e[j - 1], c) /\ Tally(x, T \cup P(j - 1)) /\ acc[j] = TakeLot(x, L[j])
      BY <1>6, <1>8
    <2> HIDE DEF x
    <2>2. Left(acc[j], e[j], c)
      <3>1. Left(TakeLot(x, L[j]), e[j], c)
        BY <1>1, <2>1, TakeLotLeft DEF m
      <3> QED BY <2>1, <3>1
    <2>3. x \in Sales /\ (x.remain # 0 <=> e[j - 1] < c)
      <3>1. e[j - 1] \in Int
        BY <1>2
      <3> QED BY <1>1, <2>1, <3>1 DEF Left
    <2>4. p \notin T \cup P(j - 1)
      <3>1. p \notin T
        OBVIOUS
      <3>2. ASSUME NEW i \in 1..(j - 1), L[i].of = L[j].of PROVE FALSE
        <4>1. i \in 1..m /\ i \in 0..m /\ j \in 0..m /\ i < j
          BY <1>2
        <4>2. e[i] < e[j] /\ e[i] = e[j] /\ e[i] \in Int
          BY <1>2, <1>3, <3>2, <4>1
        <4> QED BY <4>2
      <3> QED BY <3>1, <3>2 DEF Closes
    <2>5. P(j) = IF e[j - 1] < c THEN P(j - 1) \cup {p} ELSE P(j - 1)
      <3>1. j \in Nat /\ 1..j = 1..(j - 1) \cup {j}
        BY <1>2
      <3> QED BY <3>1 DEF Closes
    <2> DEFINE U == T \cup P(j - 1)
    <2>6. T \cup P(j) = IF x.remain = 0 THEN U ELSE U \cup {p}
      BY <2>3, <2>5
    <2>7. p = <<L[j].of, x.of>> /\ p \notin U /\ L[j] \in Lots /\ Tally(x, U)
      BY <1>4, <2>1, <2>4
    <2> HIDE DEF p, U, P
    <2>8. acc[j].of = o /\ Tally(acc[j], T \cup P(j))
      <3>1. TakeLot(x, L[j]).of = x.of /\ Tally(TakeLot(x, L[j]), IF x.remain = 0 THEN U ELSE U \cup {p})
        BY <2>3, <2>7, TakeLotTally
      <3> QED BY <2>1, <2>6, <3>1
    <2> QED BY <2>2, <2>8
  <1> HIDE DEF Good
  <1> DEFINE Bad == {k \in 0..m : ~Good(k, acc[k])}
  <1>9. Bad = {}
    <2> SUFFICES ASSUME Bad # {} PROVE FALSE
      OBVIOUS
    <2>1. PICK k \in Bad : \A j \in Bad : k <= j
      <3>1. Bad \in SUBSET Nat
        OBVIOUS
      <3> HIDE DEF Bad
      <3> QED BY <3>1, LeastNat
    <2>2. k \in 0..m /\ ~Good(k, acc[k])
      BY <2>1
    <2>3. k \in 1..m /\ k - 1 \in 0..m /\ ~(k <= k - 1)
      BY <1>2, <1>7, <2>2
    <2>4. k - 1 \notin Bad
      BY <2>1, <2>3
    <2>5. Good(k - 1, acc[k - 1])
      BY <2>3, <2>4
    <2> QED BY <1>8, <2>2, <2>3, <2>5
  <1>10. Good(m, acc[m])
    <2>1. m \in 0..m
      BY <1>2
    <2> QED BY <1>9, <2>1
  <1>11. /\ Left(acc[m], hi, c) /\ Tally(acc[m], T \cup P(m)) /\ ~(hi < c)
    BY <1>1, <1>3, <1>10 DEF Good, c
  <1>12. acc[m] \in Sales /\ Chained(acc[m].lots, c, hi) /\ Tally(acc[m], T \cup P(m))
    BY <1>11 DEF Left
  <1> QED BY <1>5, <1>12, Zenon DEF base, m, c

-----------------------------------------------------------------------------
(* The closed trades *)

\* The pairs of the sales among the first k filled orders.
PairsUpTo(k) == {p \in ClosedPairs : p[2] \in First(k)}

\* The buys that share a number with a sale of the shares after lo up to c.
Meeting(lo, c) == {b \in FilledOrders \cap Buys : Upto(b) - Qty[b] < c /\ lo < Upto(b)}

LEMMA SalePairs ==
  ASSUME LedgerTypeOK, NEW k \in 1..Cardinality(FilledOrders), Fills[k] \notin Buys
  PROVE  PairsUpTo(k) = PairsUpTo(k - 1) \cup {<<b, Fills[k]>> : b \in Meeting(Sold(k - 1), Sold(k))}
  <1> DEFINE o == Fills[k]
             W == {<<b, o>> : b \in Meeting(Sold(k - 1), Sold(k))}
  <1>1. /\ First(k) = First(k - 1) \cup {o} /\ o \in FilledOrders /\ o \in Orders /\ o \notin Buys
    BY FirstGrows
  <1>2. /\ Sold(k - 1) \in Nat /\ Sold(k) = Sold(k - 1) + Qty[o] /\ Upto(o) = Sold(k) /\ Qty[o] \in Nat
    BY <1>1, CountsGrow, LedgerAssumption
  <1>3. Upto(o) - Qty[o] = Sold(k - 1)
    BY <1>2
  <1> HIDE DEF o
  <1>4. \A b \in FilledOrders \cap Buys :
           <<b, o>> \in ClosedPairs <=> b \in Meeting(Sold(k - 1), Sold(k))
    BY <1>1, <1>2, <1>3 DEF ClosedPairs, Meeting
  <1>5. ASSUME NEW p \in PairsUpTo(k) PROVE p \in PairsUpTo(k - 1) \cup W
    <2>1. p \in ClosedPairs /\ (p[2] \in First(k - 1) \/ p[2] = o)
      BY <1>1 DEF PairsUpTo
    <2>2. p = <<p[1], p[2]>> /\ p[1] \in FilledOrders \cap Buys
      BY <2>1 DEF ClosedPairs
    <2>3. CASE p[2] = o
      BY <1>4, <2>1, <2>2, <2>3
    <2> QED BY <2>1, <2>3 DEF PairsUpTo
  <1>6. ASSUME NEW b \in Meeting(Sold(k - 1), Sold(k)) PROVE <<b, o>> \in PairsUpTo(k)
    <2>1. b \in FilledOrders \cap Buys
      BY DEF Meeting
    <2> QED BY <1>1, <1>4, <2>1 DEF PairsUpTo
  <1>7. PairsUpTo(k - 1) \subseteq PairsUpTo(k)
    BY <1>1 DEF PairsUpTo
  <1> QED BY <1>5, <1>6, <1>7 DEF o

\* Those buys are the ones of the lots that begin before c.
LEMMA MeetingLots ==
  ASSUME LedgerTypeOK, NEW k \in 0..Cardinality(FilledOrders), NEW L, NEW e, NEW lo \in Int, NEW c \in Int,
         lo < c, c <= Bought(k), Chain(L, e, lo, Bought(k))
  PROVE  Meeting(lo, c) = {L[i].of : i \in {i \in 1..Len(L) : e[i - 1] < c}}
  <1> DEFINE n == Cardinality(FilledOrders)
             m == Len(L)
  <1>1. /\ m \in Nat /\ (\A i \in 0..m : e[i] \in Int) /\ \A i, j \in 0..m : i < j => e[i] < e[j]
    BY ChainRises
  <1>2. /\ e[0] = lo /\ e[m] = Bought(k)
    BY DEF Chain
  <1>3. ASSUME NEW i \in 1..m
        PROVE  /\ L[i].of \in FilledOrders \cap Buys /\ e[i] = Upto(L[i].of) /\ e[i - 1] < e[i]
               /\ Upto(L[i].of) - Qty[L[i].of] <= e[i - 1]
               /\ (e[i - 1] = lo \/ e[i - 1] = Upto(L[i].of) - Qty[L[i].of])
    BY DEF Chain
  <1> HIDE DEF m
  <1>4. ASSUME NEW b \in FilledOrders \cap Buys
        PROVE  Upto(b) \in Int /\ Qty[b] \in Int /\ (Upto(b) <= Bought(k) \/ Bought(k) <= Upto(b) - Qty[b])
    <2>1. n \in Nat /\ \A o \in FilledOrders : \E j \in 1..n : Fills[j] = o
      BY OrderedFills
    <2>2. PICK j \in 1..n : Fills[j] = b
      BY <2>1
    <2>3. b \in Orders /\ Qty[b] \in Nat
      BY LedgerAssumption DEF FilledOrders
    <2>4. Upto(b) = Bought(j) /\ Bought(j) = Bought(j - 1) + Qty[b]
      BY <2>2, CountsGrow
    <2>5. j \in 0..n /\ j - 1 \in 0..n /\ k \in 0..n /\ (j <= k \/ k <= j - 1)
      BY <2>1, <2>2
    <2> HIDE DEF n
    <2>6. /\ Bought(j) \in Nat /\ Bought(j - 1) \in Nat /\ Bought(k) \in Nat
          /\ Bought(j) <= Bought(k) \/ Bought(k) <= Bought(j - 1)
      BY <2>5, CountTypes DEF n
    <2> QED BY <2>3, <2>4, <2>6
  <1>5. ASSUME NEW i \in 1..m, e[i - 1] < c PROVE L[i].of \in Meeting(lo, c)
    <2> DEFINE b == L[i].of
    <2>1. i \in 0..m /\ i - 1 \in 0..m /\ 0 \in 0..m /\ (i - 1 = 0 \/ 0 < i - 1)
      BY <1>1
    <2>2. e[i - 1] \in Int /\ e[i] \in Int /\ lo <= e[i - 1]
      BY <1>1, <1>2, <2>1
    <2>3. b \in FilledOrders \cap Buys /\ e[i] = Upto(b) /\ e[i - 1] < e[i] /\ Upto(b) - Qty[b] <= e[i - 1]
      BY <1>3
    <2>4. Qty[b] \in Int
      BY <1>4, <2>3
    <2> HIDE DEF b
    <2>5. Upto(b) - Qty[b] < c /\ lo < Upto(b)
      BY <1>5, <2>2, <2>3, <2>4
    <2> QED BY <2>3, <2>5 DEF Meeting, b
  <1>6. ASSUME NEW b \in Meeting(lo, c) PROVE \E i \in 1..m : e[i - 1] < c /\ L[i].of = b
    <2>1. b \in FilledOrders \cap Buys /\ Upto(b) - Qty[b] < c /\ lo < Upto(b)
      BY DEF Meeting
    <2>2. Upto(b) \in Int /\ Qty[b] \in Int /\ (Upto(b) <= Bought(k) \/ Bought(k) <= Upto(b) - Qty[b])
      BY <1>4, <2>1
    <2>3. Upto(b) <= e[m] /\ Bought(k) \in Int
      <3>1. m \in 0..m
        BY <1>1
      <3> QED BY <1>1, <1>2, <2>1, <2>2, <3>1
    <2> DEFINE Past == {i \in 0..m : Upto(b) <= e[i]}
    <2>4. PICK i \in Past : \A j \in Past : i <= j
      <3>1. Past \in SUBSET Nat /\ m \in Past
        BY <1>1, <2>3
      <3> HIDE DEF Past
      <3> QED BY <3>1, LeastNat
    <2>5. i \in 0..m /\ Upto(b) <= e[i]
      BY <2>4
    <2>6. i \in 1..m /\ i - 1 \in 0..m /\ ~(i <= i - 1)
      <3>1. i # 0
        BY <1>2, <2>1, <2>2, <2>5
      <3> QED BY <1>1, <2>5, <3>1
    <2>7. e[i - 1] < Upto(b) /\ e[i - 1] \in Int /\ e[i] \in Int
      <3>1. i - 1 \notin Past
        BY <2>4, <2>6
      <3> QED BY <1>1, <2>2, <2>5, <2>6, <3>1
    <2> DEFINE d == L[i].of
    <2>8. /\ d \in FilledOrders \cap Buys /\ e[i] = Upto(d) /\ Upto(d) - Qty[d] <= e[i - 1]
          /\ (e[i - 1] = lo \/ e[i - 1] = Upto(d) - Qty[d])
      BY <1>3, <2>6
    <2> HIDE DEF d
    <2>9. d = b
      <3> SUFFICES ASSUME d # b PROVE FALSE
        OBVIOUS
      <3>1. Upto(b) # Upto(d) /\ (Upto(b) < Upto(d) => Upto(b) <= Upto(d) - Qty[d])
        BY <2>1, <2>8, BuysApart
      <3>2. Qty[d] \in Int
        BY <1>4, <2>8
      <3> QED BY <2>2, <2>5, <2>7, <2>8, <3>1, <3>2
    <2>10. e[i - 1] < c
      BY <2>1, <2>8, <2>9
    <2> QED BY <2>6, <2>9, <2>10 DEF d
  <1> QED BY <1>5, <1>6 DEF m

\* What AnalyzeClosedTrades has after k fills: the lots of the shares that are bought and
\* not sold, and the counters of the pairs so far.
Matched(k, x) ==
    x \in Stats /\ Chained(x.lots, Sold(k), Bought(k)) /\ Tally(x, PairsUpTo(k))

LEMMA FillMatches ==
  ASSUME LedgerTypeOK, NEW k \in 1..Cardinality(FilledOrders), Sold(k) <= Bought(k), NEW x, Matched(k - 1, x)
  PROVE  Matched(k, CountFill(x, Fills[k]))
  <1> DEFINE o == Fills[k]
             y == CountFill(x, o)
  <1>1. /\ o \in Orders /\ o \in FilledOrders /\ Qty[o] \in Nat /\ Qty[o] > 0
        /\ First(k) = First(k - 1) \cup {o}
    <2>1. o \in Orders /\ o \in FilledOrders /\ First(k) = First(k - 1) \cup {o}
      BY FirstGrows
    <2> HIDE DEF o
    <2>2. Qty[o] \in Nat /\ Qty[o] > 0
      BY <2>1, LedgerAssumption
    <2> QED BY <2>1, <2>2 DEF o
  <1>2. x \in Stats /\ Chained(x.lots, Sold(k - 1), Bought(k - 1)) /\ Tally(x, PairsUpTo(k - 1))
    BY DEF Matched
  <1>3. CASE o \in Buys
    <2>1. /\ Bought(k - 1) \in Nat /\ Bought(k) = Bought(k - 1) + Qty[o] /\ Sold(k) = Sold(k - 1)
          /\ Sold(k) \in Nat /\ Upto(o) = Bought(k)
      BY <1>3, CountsGrow
    <2>2. Lot(o) \in Lots /\ Lot(o).of = o /\ Lot(o).qty = Qty[o]
      BY <1>1 DEF Lot, Lots
    <2>3. y = [x EXCEPT !.lots = Append(@, Lot(o))]
      BY <1>3, Zenon DEF CountFill
    <2>4. PairsUpTo(k) = PairsUpTo(k - 1)
      <3>1. \A p \in ClosedPairs : p[2] # o
        BY <1>3 DEF ClosedPairs
      <3> HIDE DEF o
      <3> QED BY <1>1, <3>1 DEF PairsUpTo
    <2> DEFINE ap == Append(x.lots, Lot(o))
    <2>5. ap \in Seq(Lots)
      BY <1>2, <2>2 DEF Stats
    <2>6. y = [x EXCEPT !.lots = ap]
      BY <2>3
    <2> HIDE DEF o, y
    <2>7. Chained(ap, Sold(k), Bought(k))
      <3> DEFINE hi == Bought(k - 1)
                 h == Bought(k)
                 lot == Lot(o)
      <3>1. /\ h \in Int /\ lot \in Lots /\ lot.of = o /\ o \in FilledOrders \cap Buys /\ h = Upto(o)
            /\ hi < h /\ lot.qty = h - hi /\ h - Qty[o] <= hi /\ hi = h - Qty[o]
            /\ Chained(x.lots, Sold(k - 1), hi)
        BY <1>1, <1>2, <1>3, <2>1, <2>2
      <3> HIDE DEF hi, h, lot
      <3>2. Chained(Append(x.lots, lot), Sold(k - 1), h)
        BY <3>1, ChainGrows
      <3> QED BY <2>1, <3>2 DEF h, lot
    <2> HIDE DEF ap
    <2>8. y \in Stats /\ y.lots = ap /\ y.closed = x.closed /\ y.profitable = x.profitable
          /\ y.holdSum = x.holdSum
      BY <1>2, <2>5, <2>6 DEF Stats
    <2>9. Tally(y, PairsUpTo(k))
      BY <1>2, <2>4, <2>8 DEF Tally
    <2>10. Matched(k, y)
      BY <2>7, <2>8, <2>9 DEF Matched
    <2> QED BY <2>10 DEF y, o
  <1>4. CASE o \notin Buys
    <2> DEFINE lo == Sold(k - 1)
               hi == Bought(k)
               c == Sold(k)
               L == x.lots
    <2>1. /\ lo \in Nat /\ hi \in Nat /\ hi = Bought(k - 1) /\ c = lo + Qty[o] /\ c \in Nat
          /\ lo < c /\ c <= hi
      BY <1>1, <1>4, CountsGrow
    <2>2. PICK e : Chain(L, e, lo, hi)
      BY <1>2, <2>1 DEF Chained
    <2> DEFINE sale == Taken(Sale(x, o), L)
               P == Closes(L, e, c, o, Len(L))
    <2>3. y = [lots |-> sale.lots, closed |-> sale.closed,
               profitable |-> sale.profitable, holdSum |-> sale.holdSum]
      BY <1>4, Zenon DEF CountFill, Taken
    <2>4. PairsUpTo(k) = PairsUpTo(k - 1) \cup P
      <3>1. k \in 0..Cardinality(FilledOrders)
        BY FirstGrows
      <3>2. Meeting(lo, c) = {L[i].of : i \in {i \in 1..Len(L) : e[i - 1] < c}}
        <4> HIDE DEF L, c, lo, o
        <4> QED BY <2>1, <2>2, <3>1, MeetingLots DEF hi
      <3>3. PairsUpTo(k) = PairsUpTo(k - 1) \cup {<<b, o>> : b \in Meeting(lo, c)}
        BY <1>4, SalePairs
      <3> HIDE DEF L, c, lo, o
      <3>4. {<<b, o>> : b \in Meeting(lo, c)} = P
        BY <3>2 DEF Closes
      <3> QED BY <3>3, <3>4
    <2>5. \A p \in PairsUpTo(k - 1) : p[2] # o
      <3>1. o \notin First(k - 1)
        BY FirstGrows
      <3> QED BY <3>1 DEF PairsUpTo
    <2>6. sale \in Sales /\ Chained(sale.lots, c, hi) /\ Tally(sale, PairsUpTo(k - 1) \cup P)
      <3> DEFINE T == PairsUpTo(k - 1)
      <3>1. /\ o \in Orders /\ lo \in Int /\ hi \in Int /\ lo + Qty[o] <= hi /\ c = lo + Qty[o]
            /\ Tally(x, T) /\ (\A p \in T : p[2] # o) /\ Chain(x.lots, e, lo, hi) /\ x \in Stats
        BY <1>1, <1>2, <2>1, <2>2, <2>5
      <3> HIDE DEF T, o, lo, hi, c
      <3>2. LET z == Taken(Sale(x, o), x.lots)
                d == lo + Qty[o]
            IN  /\ z \in Sales /\ Chained(z.lots, d, hi)
                /\ Tally(z, T \cup Closes(x.lots, e, d, o, Len(x.lots)))
        BY <3>1, SaleTakes
      <3> QED BY <3>1, <3>2 DEF T
    <2> HIDE DEF o, y, sale, P, c, hi
    <2>7. y \in Stats /\ y.lots = sale.lots /\ y.closed = sale.closed /\ y.profitable = sale.profitable
          /\ y.holdSum = sale.holdSum
      BY <2>3, <2>6 DEF Stats, Sales
    <2>8. Tally(y, PairsUpTo(k))
      BY <2>4, <2>6, <2>7 DEF Tally
    <2>9. Matched(k, y)
      BY <2>6, <2>7, <2>8 DEF Matched, c, hi
    <2> QED BY <2>9 DEF y, o
  <1> QED BY <1>3, <1>4

LEMMA FillsMatched ==
  ASSUME LedgerTypeOK, NEW n, n = Cardinality(FilledOrders), \A k \in 0..n : Sold(k) <= Bought(k)
  PROVE  Matched(n, AnalyzeClosedTrades)
  <1>1. n \in Nat /\ DOMAIN Fills = 1..n
    BY OrderedFills
  <1>2. PICK acc : Stepwise("count", acc, NoTrades, Fills, n) /\ Counted(NoTrades, Fills) = acc[n]
    BY <1>1, FillsStepwise
  <1>3. acc[0] = NoTrades /\ \A k \in 1..n : acc[k] = CountFill(acc[k - 1], Fills[k])
    BY <1>2, StepIs DEF Stepwise
  <1>4. Matched(0, NoTrades)
    <2>1. NoTrades \in Stats /\ NoTrades.lots = <<>> /\ NoTrades.closed = 0 /\ NoTrades.profitable = 0
          /\ NoTrades.holdSum = 0
      <3>1. <<>> \in Seq(Lots)
        OBVIOUS
      <3> QED BY <3>1 DEF NoTrades, Stats
    <2>2. Bought(0) = 0 /\ Sold(0) = 0
      BY CountTypes
    <2>3. PairsUpTo(0) = {}
      BY DEF PairsUpTo, First
    <2>4. Chained(<<>>, 0, 0)
      BY NoLots
    <2>5. Tally(NoTrades, {})
      <3>1. IsFiniteSet({}) /\ Cardinality({}) = 0 /\ {p \in {} : Profitable(p[1], p[2])} = {}
        BY FS_EmptySet
      <3>2. SumFunctionOnSet(HeldDays, {}) = 0
        <4>1. \A f : SumFunctionOnSet(f, {}) = 0
          BY SumEmpty
        <4> QED BY <4>1
      <3> QED BY <2>1, <3>1, <3>2 DEF Tally
    <2> QED BY <2>1, <2>2, <2>3, <2>4, <2>5 DEF Matched
  <1>5. ASSUME NEW k \in 1..n, Matched(k - 1, acc[k - 1]) PROVE Matched(k, acc[k])
    <2>1. k \in 0..n /\ k \in 1..Cardinality(FilledOrders)
      BY <1>1
    <2> QED BY <1>3, <1>5, <2>1, FillMatches
  <1> DEFINE Bad == {k \in 0..n : ~Matched(k, acc[k])}
  <1>6. Bad = {}
    <2> SUFFICES ASSUME Bad # {} PROVE FALSE
      OBVIOUS
    <2>1. PICK k \in Bad : \A j \in Bad : k <= j
      <3>1. Bad \in SUBSET Nat
        OBVIOUS
      <3> HIDE DEF Bad
      <3> QED BY <3>1, LeastNat
    <2>2. k \in 0..n /\ ~Matched(k, acc[k])
      BY <2>1
    <2>3. k \in 1..n /\ k - 1 \in 0..n /\ ~(k <= k - 1)
      <3>1. k # 0
        BY <1>3, <1>4, <2>2
      <3> QED BY <1>1, <2>2, <3>1
    <2>4. k - 1 \notin Bad
      BY <2>1, <2>3
    <2> QED BY <1>5, <2>2, <2>3, <2>4
  <1>7. n \in 0..n
    BY <1>1
  <1>8. AnalyzeClosedTrades = acc[n]
    <2>1. AnalyzeClosedTrades = Counted(NoTrades, Fills)
      BY Zenon DEF AnalyzeClosedTrades, Counted
    <2> QED BY <1>2, <2>1
  <1> QED BY <1>6, <1>7, <1>8

\* As long as matches do not overlap and no canceled order has traded, the trades that the
\* leaderboard counts as closed are the first-in first-out pairs of the shares sold, with
\* their gains and holding days, and the lots that are left are the shares held
\* (loadTradeStats, AnalyzeClosedTrades).
THEOREM TradesStayFifo == LedgerSpec => []TradesAreFifo
  <1>1. LedgerTypeOK /\ FilledInv => TradesAreFifo
    <2> SUFFICES ASSUME LedgerTypeOK, FilledInv, ~overlapped, offRecord = {}
                 PROVE  LET stats == AnalyzeClosedTrades IN
                        /\ FoldLeft(AddLot, 0, stats.lots) = held
                        /\ stats.closed = Cardinality(ClosedPairs)
                        /\ stats.profitable = Cardinality({p \in ClosedPairs : Profitable(p[1], p[2])})
                        /\ stats.holdSum = SumFunctionOnSet(HeldDays, ClosedPairs)
      BY Zenon DEF TradesAreFifo
    <2> DEFINE n == Cardinality(FilledOrders)
               stats == AnalyzeClosedTrades
    <2>1. held = Bought(n) - Sold(n) /\ First(n) = FilledOrders /\ \A k \in 0..n : Sold(k) <= Bought(k)
      BY SoldOfBought
    <2>2. Matched(n, stats)
      BY <2>1, FillsMatched
    <2>3. Sold(n) \in Int
      <3>1. n \in Nat
        BY OrderedFills
      <3>2. n \in 0..n
        BY <3>1
      <3> QED BY <3>2, CountTypes
    <2> HIDE DEF stats
    <2>4. Chained(stats.lots, Sold(n), Bought(n)) /\ Tally(stats, PairsUpTo(n))
      BY <2>2 DEF Matched
    <2>5. Added(0, stats.lots) = held
      BY <2>1, <2>3, <2>4, LotsAddUp
    <2>6. PairsUpTo(n) = ClosedPairs
      <3>1. \A p \in ClosedPairs : p[2] \in FilledOrders
        BY DEF ClosedPairs
      <3> QED BY <2>1, <3>1 DEF PairsUpTo
    <2>7. FoldLeft(AddLot, 0, stats.lots) = held
      BY <2>5, Zenon DEF Added
    <2>8. /\ stats.closed = Cardinality(ClosedPairs)
          /\ stats.profitable = Cardinality({p \in ClosedPairs : Profitable(p[1], p[2])})
          /\ stats.holdSum = SumFunctionOnSet(HeldDays, ClosedPairs)
      BY <2>4, <2>6 DEF Tally
    <2> QED BY <2>7, <2>8, Zenon DEF stats
  <1> QED BY <1>1, FilledAlways, LedgerTypeCorrect, PTL
=============================================================================
