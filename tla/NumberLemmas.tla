---------------------------- MODULE NumberLemmas ----------------------------
(***************************************************************************)
(* Least and greatest numbers: what the proofs need where a model takes the *)
(* Min or the Max of a set, and in place of induction; and the sum of a     *)
(* function over a finite set, which the library defines and says nothing   *)
(* about.                                                                   *)
(***************************************************************************)
EXTENDS Integers, FiniteSetsExt, FiniteSetTheorems, NaturalsInduction, WellFoundedInduction, TLAPS

\* Every set of natural numbers has a least one.
LEMMA LeastNat ==
  ASSUME NEW T \in SUBSET Nat, T # {}
  PROVE  \E x \in T : \A y \in T : x <= y
  <1>1. \A x, y \in Nat : x < y => <<x, y>> \in OpToRel(<, Nat)
    BY DEF OpToRel
  <1>2. PICK R : IsWellFoundedOn(R, Nat) /\ \A x, y \in Nat : x < y => <<x, y>> \in R
    BY <1>1, NatLessThanWellFounded
  <1>3. PICK x \in T : \A y \in T : ~ (<<y, x>> \in R)
    <2>1. IsWellFoundedOn(R, Nat) /\ T \subseteq Nat /\ T # {}
      BY <1>2
    <2> QED BY <2>1, WFMin
  <1>4. ASSUME NEW y \in T PROVE x <= y
    <2>1. x \in Nat /\ y \in Nat
      OBVIOUS
    <2>2. ~(y < x)
      BY <1>2, <1>3, <2>1
    <2> QED BY <2>1, <2>2
  <1> QED BY <1>4

\* The Min of a set of natural numbers is its least one.
LEMMA MinIsLeast ==
  ASSUME NEW T \in SUBSET Nat, T # {}
  PROVE  Min(T) \in T /\ \A y \in T : Min(T) <= y
  BY LeastNat DEF Min

\* The Max of a bounded set of natural numbers is its greatest one.
LEMMA MaxIsGreatest ==
  ASSUME NEW n \in Nat, NEW T \in SUBSET (0..n), T # {}
  PROVE  Max(T) \in T /\ \A y \in T : y <= Max(T)
  <1> DEFINE U == {n - y : y \in T}
  <1>1. U \in SUBSET Nat
    <2>1. \A y \in T : n - y \in Nat
      OBVIOUS
    <2> QED BY <2>1
  <1>2. PICK u \in U : \A v \in U : u <= v
    <2>1. U # {}
      OBVIOUS
    <2> HIDE DEF U
    <2> QED BY <1>1, <2>1, LeastNat
  <1>3. PICK m \in T : u = n - m
    OBVIOUS
  <1>4. ASSUME NEW y \in T PROVE m >= y
    <2>1. n - y \in U
      OBVIOUS
    <2>2. n - m <= n - y
      BY <1>2, <1>3, <2>1
    <2> QED BY <2>2
  <1> QED BY <1>3, <1>4 DEF Max

-----------------------------------------------------------------------------
(* Sums over finite sets *)

\* A non-empty set of finite sets has one of least size.
LEMMA LeastSet ==
  ASSUME NEW S, IsFiniteSet(S), NEW T \in SUBSET (SUBSET S), T # {}
  PROVE  \E R \in T : \A Q \in T : Cardinality(R) <= Cardinality(Q)
  <1> DEFINE C == {Cardinality(R) : R \in T}
  <1>1. ASSUME NEW R \in T PROVE IsFiniteSet(R) /\ Cardinality(R) \in Nat
    <2>1. R \in SUBSET S
      OBVIOUS
    <2> QED BY <2>1, FS_Subset, FS_CardinalityType
  <1>2. PICK c \in C : \A d \in C : c <= d
    <2>1. C \in SUBSET Nat /\ C # {}
      BY <1>1
    <2> HIDE DEF C
    <2> QED BY <2>1, LeastNat
  <1> QED BY <1>2

\* What a sum over the subsets of S has to be.
Adds(f, S, g) ==
    /\ g \in [SUBSET S -> Int] /\ g[{}] = 0
    /\ \A R \in SUBSET S : \A x \in S \ R : g[R \cup {x}] = g[R] + f[x]

LEMMA AdditionGrows ==
  ASSUME NEW S, NEW x, x \notin S, NEW f, \A y \in S \cup {x} : f[y] \in Int,
         NEW h, Adds(f, S, h)
  PROVE  \E g : Adds(f, S \cup {x}, g)
  <1> DEFINE T == S \cup {x}
             g == [R \in SUBSET T |-> h[R \ {x}] + (IF x \in R THEN f[x] ELSE 0)]
  <1>1. ASSUME NEW R \in SUBSET T PROVE R \ {x} \in SUBSET S /\ h[R \ {x}] \in Int
    <2>1. R \ {x} \in SUBSET S
      OBVIOUS
    <2> QED BY <2>1 DEF Adds
  <1>2. g \in [SUBSET T -> Int]
    BY <1>1
  <1>5. \A R \in SUBSET T : g[R] = h[R \ {x}] + (IF x \in R THEN f[x] ELSE 0)
    OBVIOUS
  <1> HIDE DEF g
  <1>3. g[{}] = 0
    <2>1. {} \ {x} = {} /\ {} \in SUBSET T
      OBVIOUS
    <2>2. h[{}] = 0
      BY DEF Adds
    <2>3. g[{}] = h[{} \ {x}] + 0
      BY <1>5, <2>1
    <2> QED BY <2>1, <2>2, <2>3
  <1>4. ASSUME NEW R \in SUBSET T, NEW y \in T \ R PROVE g[R \cup {y}] = g[R] + f[y]
    <2>1. R \cup {y} \in SUBSET T
      OBVIOUS
    <2>2. CASE y = x
      <3>1. (R \cup {y}) \ {x} = R \ {x} /\ x \notin R /\ x \in R \cup {y}
        BY <1>4, <2>2
      <3>2. g[R \cup {y}] = h[R \ {x}] + f[x] /\ g[R] = h[R \ {x}] + 0
        BY <1>5, <2>1, <3>1
      <3>3. f[x] \in Int /\ h[R \ {x}] \in Int
        BY <1>1
      <3> QED BY <2>2, <3>2, <3>3
    <2>3. CASE y # x
      <3>1. (R \cup {y}) \ {x} = (R \ {x}) \cup {y} /\ (x \in R \cup {y} <=> x \in R)
        BY <2>3
      <3>2. R \ {x} \in SUBSET S /\ y \in S \ (R \ {x})
        BY <1>4, <2>3
      <3>3. h[(R \ {x}) \cup {y}] = h[R \ {x}] + f[y] /\ h[(R \ {x}) \cup {y}] \in Int
        BY <1>1, <2>1, <3>1, <3>2 DEF Adds
      <3>4. f[y] \in Int /\ f[x] \in Int
        BY <1>4
      <3>5. g[R \cup {y}] = h[(R \ {x}) \cup {y}] + (IF x \in R THEN f[x] ELSE 0)
        BY <1>5, <2>1, <3>1
      <3>6. g[R] = h[R \ {x}] + (IF x \in R THEN f[x] ELSE 0)
        BY <1>5
      <3> QED BY <1>1, <3>3, <3>4, <3>5, <3>6
    <2> QED BY <2>2, <2>3
  <1>6. Adds(f, T, g)
    <2> HIDE DEF T
    <2> QED BY <1>2, <1>3, <1>4 DEF Adds
  <1> QED BY <1>6

LEMMA AdditionExists ==
  ASSUME NEW S, IsFiniteSet(S), NEW f, \A x \in S : f[x] \in Int
  PROVE  \E g : Adds(f, S, g)
  <1> DEFINE Bad == {R \in SUBSET S : ~ \E g : Adds(f, R, g)}
  <1> SUFFICES ASSUME Bad # {} PROVE FALSE
    OBVIOUS
  <1>1. PICK R \in Bad : \A Q \in Bad : Cardinality(R) <= Cardinality(Q)
    <2>1. Bad \in SUBSET (SUBSET S)
      OBVIOUS
    <2> HIDE DEF Bad
    <2> QED BY <2>1, LeastSet
  <1>2. IsFiniteSet(R)
    BY FS_Subset
  <1>3. CASE R = {}
    <2> DEFINE g == [Q \in SUBSET {} |-> 0]
    <2>1. Adds(f, {}, g)
      BY DEF Adds
    <2> QED BY <1>3, <2>1
  <1>4. CASE R # {}
    <2>1. PICK x \in R : TRUE
      BY <1>4
    <2>2. Cardinality(R \ {x}) = Cardinality(R) - 1 /\ Cardinality(R) \in Nat
      BY <1>2, <2>1, FS_RemoveElement, FS_CardinalityType
    <2>3. R \ {x} \notin Bad
      <3>1. ~(Cardinality(R) <= Cardinality(R \ {x}))
        BY <2>2
      <3> QED BY <1>1, <3>1
    <2>4. PICK h : Adds(f, R \ {x}, h)
      BY <2>3
    <2>5. x \notin R \ {x} /\ (R \ {x}) \cup {x} = R /\ \A y \in R : f[y] \in Int
      BY <2>1
    <2>6. \E g : Adds(f, (R \ {x}) \cup {x}, g)
      <3> HIDE DEF Bad
      <3>1. x \notin R \ {x} /\ \A y \in (R \ {x}) \cup {x} : f[y] \in Int
        BY <2>5
      <3> QED BY <2>4, <3>1, AdditionGrows
    <2> QED BY <2>5, <2>6
  <1> QED BY <1>3, <1>4

\* The library's sum is that one.
LEMMA SumIsAddition ==
  ASSUME NEW S, IsFiniteSet(S), NEW f, \A x \in S : f[x] \in Int, NEW g, Adds(f, S, g)
  PROVE  SumFunctionOnSet(f, S) = g[S]
  <1> DEFINE Pick(R) == CHOOSE x \in R : TRUE
             Unfolds(h) == h = [R \in SUBSET S |->
                                  IF R = {} THEN 0 ELSE f[Pick(R)] + h[R \ {Pick(R)}]]
             sum == CHOOSE h : Unfolds(h)
  <1>1. SumFunctionOnSet(f, S) = sum[S]
    BY Zenon DEF SumFunctionOnSet, FoldFunctionOnSet, MapThenFoldSet
  <1>2. \A R \in SUBSET S : R # {} => Pick(R) \in R
    OBVIOUS
  <1> HIDE DEF Pick
  <1>3. ASSUME NEW R \in SUBSET S
        PROVE  g[R] = IF R = {} THEN 0 ELSE f[Pick(R)] + g[R \ {Pick(R)}]
    <2>1. CASE R # {}
      <3> DEFINE x == Pick(R)
      <3>1. x \in R /\ R \ {x} \in SUBSET S /\ x \in S \ (R \ {x}) /\ (R \ {x}) \cup {x} = R
        BY <1>2, <2>1
      <3> HIDE DEF x
      <3>2. g[R] = g[R \ {x}] + f[x] /\ g[R] \in Int /\ g[R \ {x}] \in Int
        BY <3>1 DEF Adds
      <3>3. f[x] \in Int
        BY <3>1
      <3>4. g[R] = f[x] + g[R \ {x}]
        BY <3>2, <3>3
      <3> QED BY <2>1, <3>4 DEF x
    <2>2. CASE R = {}
      BY <2>2 DEF Adds
    <2> QED BY <2>1, <2>2
  <1>4. Unfolds(g)
    <2>1. g = [R \in SUBSET S |-> g[R]]
      BY DEF Adds
    <2> QED BY <1>3, <2>1
  <1>5. Unfolds(sum)
    <2> HIDE DEF Unfolds
    <2> QED BY <1>4
  <1>6. ASSUME NEW R \in SUBSET S
        PROVE  sum[R] = IF R = {} THEN 0 ELSE f[Pick(R)] + sum[R \ {Pick(R)}]
    BY <1>5
  <1> HIDE DEF sum
  <1> DEFINE Bad == {R \in SUBSET S : sum[R] # g[R]}
  <1>7. Bad = {}
    <2> SUFFICES ASSUME Bad # {} PROVE FALSE
      OBVIOUS
    <2>1. PICK R \in Bad : \A Q \in Bad : Cardinality(R) <= Cardinality(Q)
      <3>1. Bad \in SUBSET (SUBSET S)
        OBVIOUS
      <3> HIDE DEF Bad
      <3> QED BY <3>1, LeastSet
    <2>2. R # {}
      BY <1>3, <1>6
    <2> DEFINE x == Pick(R)
    <2>3. x \in R
      BY <1>2, <2>2
    <2> HIDE DEF x
    <2>4. Cardinality(R \ {x}) = Cardinality(R) - 1 /\ Cardinality(R) \in Nat
      <3>1. IsFiniteSet(R)
        BY FS_Subset
      <3> QED BY <2>3, <3>1, FS_RemoveElement, FS_CardinalityType
    <2>5. R \ {x} \notin Bad
      <3>1. ~(Cardinality(R) <= Cardinality(R \ {x}))
        BY <2>4
      <3> QED BY <2>1, <3>1
    <2>6. sum[R \ {x}] = g[R \ {x}]
      BY <2>5
    <2> QED BY <1>3, <1>6, <2>2, <2>6 DEF x
  <1> QED BY <1>1, <1>7

\* The sum of nothing, and of one element more; no order of the elements matters.
LEMMA SumEmpty == ASSUME NEW f PROVE SumFunctionOnSet(f, {}) = 0
  <1>1. IsFiniteSet({}) /\ \A x \in {} : f[x] \in Int
    BY FS_EmptySet
  <1>2. PICK g : Adds(f, {}, g)
    BY <1>1, AdditionExists
  <1> QED BY <1>1, <1>2, SumIsAddition DEF Adds

LEMMA SumInsert ==
  ASSUME NEW S, IsFiniteSet(S), NEW x, x \notin S, NEW f, \A y \in S \cup {x} : f[y] \in Int
  PROVE  /\ SumFunctionOnSet(f, S) \in Int
         /\ SumFunctionOnSet(f, S \cup {x}) = SumFunctionOnSet(f, S) + f[x]
  <1> DEFINE T == S \cup {x}
  <1>1. IsFiniteSet(T) /\ S \in SUBSET T /\ T \in SUBSET T /\ x \in T \ S
    BY FS_AddElement
  <1>2. \A y \in T : f[y] \in Int
    OBVIOUS
  <1>3. PICK g : Adds(f, T, g)
    <2> HIDE DEF T
    <2> QED BY <1>1, <1>2, AdditionExists
  <1>4. SumFunctionOnSet(f, T) = g[T]
    <2> HIDE DEF T
    <2> QED BY <1>1, <1>2, <1>3, SumIsAddition
  <1>5. g[S] \in Int /\ g[T] = g[S] + f[x]
    BY <1>1, <1>3 DEF Adds
  <1>6. SumFunctionOnSet(f, S) = g[S]
    <2> DEFINE h == [R \in SUBSET S |-> g[R]]
    <2>1. Adds(f, S, h)
      <3>1. ASSUME NEW R \in SUBSET S PROVE R \in SUBSET T /\ g[R] \in Int
        <4>1. R \in SUBSET T
          OBVIOUS
        <4> QED BY <1>3, <4>1 DEF Adds
      <3>2. h \in [SUBSET S -> Int]
        BY <3>1
      <3>3. h[{}] = 0
        BY <1>3 DEF Adds
      <3>4. ASSUME NEW R \in SUBSET S, NEW y \in S \ R PROVE h[R \cup {y}] = h[R] + f[y]
        <4>1. R \cup {y} \in SUBSET S /\ R \in SUBSET T /\ y \in T \ R
          OBVIOUS
        <4>2. g[R \cup {y}] = g[R] + f[y]
          BY <1>3, <4>1 DEF Adds
        <4> QED BY <4>1, <4>2
      <3> HIDE DEF h
      <3> QED BY <3>2, <3>3, <3>4 DEF Adds
    <2> HIDE DEF h
    <2>2. SumFunctionOnSet(f, S) = h[S]
      BY <1>2, <2>1, SumIsAddition
    <2> QED BY <2>2 DEF h
  <1> QED BY <1>4, <1>5, <1>6

LEMMA SumType ==
  ASSUME NEW S, IsFiniteSet(S), NEW f, \A x \in S : f[x] \in Int
  PROVE  SumFunctionOnSet(f, S) \in Int
  <1>1. PICK g : Adds(f, S, g)
    BY AdditionExists
  <1>2. SumFunctionOnSet(f, S) = g[S]
    BY <1>1, SumIsAddition
  <1> QED BY <1>1, <1>2 DEF Adds

\* Only the values on the set count.
LEMMA SumAgree ==
  ASSUME NEW S, IsFiniteSet(S), NEW f, NEW e, \A x \in S : f[x] \in Int /\ e[x] = f[x]
  PROVE  SumFunctionOnSet(e, S) = SumFunctionOnSet(f, S)
  <1>1. (\A x \in S : f[x] \in Int) /\ \A x \in S : e[x] \in Int
    OBVIOUS
  <1>2. PICK g : Adds(f, S, g)
    BY <1>1, AdditionExists
  <1>3. Adds(e, S, g)
    BY <1>2 DEF Adds
  <1> QED BY <1>1, <1>2, <1>3, SumIsAddition

LEMMA SumZero ==
  ASSUME NEW S, IsFiniteSet(S), NEW f, \A x \in S : f[x] = 0
  PROVE  SumFunctionOnSet(f, S) = 0
  <1> DEFINE g == [R \in SUBSET S |-> 0]
  <1>1. Adds(f, S, g)
    BY DEF Adds
  <1>2. \A x \in S : f[x] \in Int
    OBVIOUS
  <1>3. SumFunctionOnSet(f, S) = g[S]
    <2> HIDE DEF g
    <2> QED BY <1>1, <1>2, SumIsAddition
  <1> QED BY <1>3

\* One element that changes changes the sum by as much.
LEMMA SumUpdate ==
  ASSUME NEW S, IsFiniteSet(S), NEW f, NEW e, NEW x \in S, NEW q \in Int,
         \A y \in S : f[y] \in Int /\ e[y] = IF y = x THEN f[y] + q ELSE f[y]
  PROVE  SumFunctionOnSet(e, S) = SumFunctionOnSet(f, S) + q
  <1> DEFINE R == S \ {x}
  <1>1. IsFiniteSet(R) /\ x \notin R /\ R \cup {x} = S
    BY FS_RemoveElement
  <1>2. /\ \A y \in R \cup {x} : f[y] \in Int /\ e[y] \in Int
        /\ \A y \in R : f[y] \in Int /\ e[y] = f[y]
    OBVIOUS
  <1>3. e[x] = f[x] + q /\ f[x] \in Int
    OBVIOUS
  <1> HIDE DEF R
  <1>4. SumFunctionOnSet(e, R) = SumFunctionOnSet(f, R)
    BY <1>1, <1>2, SumAgree
  <1>5. /\ SumFunctionOnSet(f, R) \in Int
        /\ SumFunctionOnSet(f, S) = SumFunctionOnSet(f, R) + f[x]
    BY <1>1, <1>2, SumInsert
  <1>6. SumFunctionOnSet(e, S) = SumFunctionOnSet(e, R) + e[x]
    BY <1>1, <1>2, SumInsert
  <1> QED BY <1>3, <1>4, <1>5, <1>6

\* What is zero may be left out.
LEMMA SumSupport ==
  ASSUME NEW S, IsFiniteSet(S), NEW T \in SUBSET S, NEW f,
         \A x \in S : f[x] \in Int, \A x \in S \ T : f[x] = 0
  PROVE  SumFunctionOnSet(f, S) = SumFunctionOnSet(f, T)
  <1>1. PICK g : Adds(f, S, g)
    BY AdditionExists
  <1>2. SumFunctionOnSet(f, S) = g[S]
    BY <1>1, SumIsAddition
  <1> DEFINE h == [R \in SUBSET S |-> g[R \cap T]]
             k == [R \in SUBSET T |-> g[R]]
  <1>3. ASSUME NEW R \in SUBSET S
        PROVE  R \cap T \in SUBSET S /\ g[R \cap T] \in Int
    <2>1. R \cap T \in SUBSET S
      OBVIOUS
    <2> QED BY <1>1, <2>1 DEF Adds
  <1>4. Adds(f, S, h)
    <2>1. h \in [SUBSET S -> Int]
      BY <1>3
    <2>2. h[{}] = 0
      <3>1. {} \cap T = {} /\ {} \in SUBSET S
        OBVIOUS
      <3> QED BY <1>1, <3>1 DEF Adds
    <2>3. ASSUME NEW R \in SUBSET S, NEW x \in S \ R PROVE h[R \cup {x}] = h[R] + f[x]
      <3>1. R \cup {x} \in SUBSET S /\ h[R \cup {x}] = g[(R \cup {x}) \cap T] /\ h[R] = g[R \cap T]
        OBVIOUS
      <3>2. CASE x \in T
        <4>1. (R \cup {x}) \cap T = (R \cap T) \cup {x} /\ x \in S \ (R \cap T)
          BY <3>2
        <4>2. g[(R \cap T) \cup {x}] = g[R \cap T] + f[x]
          BY <1>1, <1>3, <4>1 DEF Adds
        <4> QED BY <3>1, <4>1, <4>2
      <3>3. CASE x \notin T
        <4>1. (R \cup {x}) \cap T = R \cap T /\ f[x] = 0
          BY <3>3
        <4>2. g[R \cap T] \in Int
          BY <1>3
        <4>3. h[R \cup {x}] = g[R \cap T] /\ h[R] = g[R \cap T]
          BY <3>1, <4>1
        <4> HIDE DEF h
        <4> QED BY <4>1, <4>2, <4>3
      <3> QED BY <3>2, <3>3
    <2> HIDE DEF h
    <2> QED BY <2>1, <2>2, <2>3 DEF Adds
  <1>5. SumFunctionOnSet(f, S) = h[S]
    <2> HIDE DEF h
    <2> QED BY <1>4, SumIsAddition
  <1>6. Adds(f, T, k)
    <2>1. ASSUME NEW R \in SUBSET T PROVE R \in SUBSET S /\ g[R] \in Int
      <3>1. R \in SUBSET S
        OBVIOUS
      <3> QED BY <1>1, <3>1 DEF Adds
    <2>2. k \in [SUBSET T -> Int]
      BY <2>1
    <2>3. k[{}] = 0
      BY <1>1 DEF Adds
    <2>4. ASSUME NEW R \in SUBSET T, NEW x \in T \ R PROVE k[R \cup {x}] = k[R] + f[x]
      <3>1. R \cup {x} \in SUBSET T /\ R \in SUBSET S /\ x \in S \ R
        OBVIOUS
      <3>2. g[R \cup {x}] = g[R] + f[x]
        BY <1>1, <3>1 DEF Adds
      <3> QED BY <3>1, <3>2
    <2> HIDE DEF k
    <2> QED BY <2>2, <2>3, <2>4 DEF Adds
  <1>7. SumFunctionOnSet(f, T) = k[T]
    <2>1. IsFiniteSet(T) /\ \A x \in T : f[x] \in Int
      BY FS_Subset
    <2> HIDE DEF k
    <2> QED BY <1>6, <2>1, SumIsAddition
  <1>8. S \cap T = T
    OBVIOUS
  <1> QED BY <1>5, <1>7, <1>8

\* A sum of natural numbers is one, and each of them is at most the sum.
LEMMA SumNat ==
  ASSUME NEW S, IsFiniteSet(S), NEW f, \A x \in S : f[x] \in Nat
  PROVE  SumFunctionOnSet(f, S) \in Nat
  <1> DEFINE Bad == {R \in SUBSET S : SumFunctionOnSet(f, R) \notin Nat}
  <1>1. Bad = {}
    <2> SUFFICES ASSUME Bad # {} PROVE FALSE
      OBVIOUS
    <2>1. PICK R \in Bad : \A Q \in Bad : Cardinality(R) <= Cardinality(Q)
      <3>1. Bad \in SUBSET (SUBSET S)
        OBVIOUS
      <3> HIDE DEF Bad
      <3> QED BY <3>1, LeastSet
    <2>2. R # {}
      BY SumEmpty
    <2>3. PICK x \in R : TRUE
      BY <2>2
    <2> DEFINE Q == R \ {x}
    <2>4. Cardinality(Q) = Cardinality(R) - 1 /\ Cardinality(R) \in Nat /\ IsFiniteSet(Q)
      <3>1. IsFiniteSet(R)
        BY FS_Subset
      <3> QED BY <2>3, <3>1, FS_RemoveElement, FS_CardinalityType
    <2>5. Q \notin Bad
      <3>1. ~(Cardinality(R) <= Cardinality(Q))
        BY <2>4
      <3> QED BY <2>1, <3>1
    <2>6. SumFunctionOnSet(f, Q) \in Nat
      BY <2>5
    <2>7. x \notin Q /\ Q \cup {x} = R /\ f[x] \in Nat /\ \A y \in Q \cup {x} : f[y] \in Int
      BY <2>3
    <2> HIDE DEF Q
    <2>8. SumFunctionOnSet(f, Q \cup {x}) = SumFunctionOnSet(f, Q) + f[x]
      <3>1. x \notin Q /\ \A y \in Q \cup {x} : f[y] \in Int
        BY <2>7
      <3> QED BY <2>4, <3>1, SumInsert
    <2>9. SumFunctionOnSet(f, R) \in Nat
      <3>1. SumFunctionOnSet(f, R) = SumFunctionOnSet(f, Q) + f[x] /\ f[x] \in Nat
        BY <2>7, <2>8
      <3> QED BY <2>6, <3>1
    <2> QED BY <2>1, <2>9
  <1> QED BY <1>1

LEMMA SumMember ==
  ASSUME NEW S, IsFiniteSet(S), NEW f, \A x \in S : f[x] \in Nat, NEW x \in S
  PROVE  f[x] <= SumFunctionOnSet(f, S)
  <1> DEFINE R == S \ {x}
  <1>1. IsFiniteSet(R) /\ x \notin R /\ R \cup {x} = S /\ \A y \in R \cup {x} : f[y] \in Int
    BY FS_RemoveElement
  <1>2. \A y \in R : f[y] \in Nat
    OBVIOUS
  <1> HIDE DEF R
  <1>3. SumFunctionOnSet(f, S) = SumFunctionOnSet(f, R) + f[x]
    BY <1>1, SumInsert
  <1>4. SumFunctionOnSet(f, R) \in Nat /\ f[x] \in Nat
    BY <1>1, <1>2, SumNat
  <1> QED BY <1>3, <1>4

\* Sums of two functions, and over two sets.
LEMMA SumPlus ==
  ASSUME NEW S, IsFiniteSet(S), NEW f, NEW e, NEW d,
         \A x \in S : f[x] \in Int /\ e[x] \in Int /\ d[x] = f[x] + e[x]
  PROVE  SumFunctionOnSet(d, S) = SumFunctionOnSet(f, S) + SumFunctionOnSet(e, S)
  <1>1. (\A x \in S : f[x] \in Int) /\ (\A x \in S : e[x] \in Int) /\ \A x \in S : d[x] \in Int
    OBVIOUS
  <1>2. PICK g : Adds(f, S, g)
    BY <1>1, AdditionExists
  <1>3. PICK h : Adds(e, S, h)
    BY <1>1, AdditionExists
  <1> DEFINE k == [R \in SUBSET S |-> g[R] + h[R]]
  <1>4. Adds(d, S, k)
    <2>1. ASSUME NEW R \in SUBSET S PROVE g[R] \in Int /\ h[R] \in Int
      BY <1>2, <1>3 DEF Adds
    <2>2. k \in [SUBSET S -> Int]
      BY <2>1
    <2>3. k[{}] = 0
      BY <1>2, <1>3 DEF Adds
    <2>4. ASSUME NEW R \in SUBSET S, NEW x \in S \ R PROVE k[R \cup {x}] = k[R] + d[x]
      <3>1. R \cup {x} \in SUBSET S
        OBVIOUS
      <3>2. g[R \cup {x}] = g[R] + f[x] /\ h[R \cup {x}] = h[R] + e[x]
        BY <1>2, <1>3 DEF Adds
      <3>3. /\ g[R] \in Int /\ h[R] \in Int /\ f[x] \in Int /\ e[x] \in Int
            /\ d[x] = f[x] + e[x]
        BY <2>1
      <3>4. k[R \cup {x}] = g[R \cup {x}] + h[R \cup {x}] /\ k[R] = g[R] + h[R]
        BY <3>1
      <3> HIDE DEF k
      <3> QED BY <3>2, <3>3, <3>4
    <2> HIDE DEF k
    <2> QED BY <2>2, <2>3, <2>4 DEF Adds
  <1>5. SumFunctionOnSet(d, S) = k[S]
    <2> HIDE DEF k
    <2> QED BY <1>1, <1>4, SumIsAddition
  <1>6. SumFunctionOnSet(f, S) = g[S] /\ SumFunctionOnSet(e, S) = h[S]
    BY <1>1, <1>2, <1>3, SumIsAddition
  <1> QED BY <1>5, <1>6

LEMMA SumSplit ==
  ASSUME NEW S, IsFiniteSet(S), NEW T, IsFiniteSet(T), S \cap T = {}, NEW f,
         \A x \in S \cup T : f[x] \in Int
  PROVE  SumFunctionOnSet(f, S \cup T) = SumFunctionOnSet(f, S) + SumFunctionOnSet(f, T)
  <1> DEFINE U == S \cup T
             a == [x \in U |-> IF x \in S THEN f[x] ELSE 0]
             b == [x \in U |-> IF x \in S THEN 0 ELSE f[x]]
  <1>1. IsFiniteSet(U) /\ S \in SUBSET U /\ T \in SUBSET U
    BY FS_Union
  <1>2. \A x \in U : a[x] \in Int /\ b[x] \in Int /\ f[x] = a[x] + b[x]
    OBVIOUS
  <1>3. /\ \A x \in U \ S : a[x] = 0
        /\ \A x \in U \ T : b[x] = 0
        /\ \A x \in S : a[x] \in Int /\ f[x] = a[x]
        /\ \A x \in T : b[x] \in Int /\ f[x] = b[x]
    OBVIOUS
  <1>4. (\A x \in U : a[x] \in Int) /\ \A x \in U : b[x] \in Int
    BY <1>2
  <1> HIDE DEF a, b, U
  <1>5. SumFunctionOnSet(f, U) = SumFunctionOnSet(a, U) + SumFunctionOnSet(b, U)
    BY <1>1, <1>2, SumPlus
  <1>6. SumFunctionOnSet(a, U) = SumFunctionOnSet(a, S)
    BY <1>1, <1>3, <1>4, SumSupport
  <1>7. SumFunctionOnSet(b, U) = SumFunctionOnSet(b, T)
    BY <1>1, <1>3, <1>4, SumSupport
  <1>8. SumFunctionOnSet(f, S) = SumFunctionOnSet(a, S)
    BY <1>3, SumAgree
  <1>9. SumFunctionOnSet(f, T) = SumFunctionOnSet(b, T)
    BY <1>3, SumAgree
  <1> QED BY <1>5, <1>6, <1>7, <1>8, <1>9 DEF U

\* The lesser and the greater of two numbers.
LEMMA MinOfTwo == ASSUME NEW a \in Int, NEW b \in Int PROVE Min({a, b}) = IF a <= b THEN a ELSE b
  <1> DEFINE m == IF a <= b THEN a ELSE b
  <1>1. m \in {a, b} /\ \A y \in {a, b} : m <= y
    OBVIOUS
  <1>2. \A x \in {a, b} : (\A y \in {a, b} : x <= y) => x = m
    OBVIOUS
  <1> HIDE DEF m
  <1>3. Min({a, b}) = m
    BY <1>1, <1>2 DEF Min
  <1> QED BY <1>3 DEF m

LEMMA MaxOfTwo == ASSUME NEW a \in Int, NEW b \in Int PROVE Max({a, b}) = IF a >= b THEN a ELSE b
  <1> DEFINE m == IF a >= b THEN a ELSE b
  <1>1. m \in {a, b} /\ \A y \in {a, b} : m >= y
    OBVIOUS
  <1>2. \A x \in {a, b} : (\A y \in {a, b} : x >= y) => x = m
    OBVIOUS
  <1> HIDE DEF m
  <1>3. Max({a, b}) = m
    BY <1>1, <1>2 DEF Max
  <1> QED BY <1>3 DEF m
=============================================================================
