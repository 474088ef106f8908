--------------------------- MODULE BackoffProofs ---------------------------
(***************************************************************************)
(* Proofs about Backoff, for integers of any width, any delays and jitters *)
(* and any number of attempts.                                             *)
(***************************************************************************)
EXTENDS Backoff, FiniteSetTheorems, TLAPS

(***************************************************************************)
(* Powers of two are the sizes of the sets of subsets: from that they are  *)
(* positive, and grow with their exponent.                                 *)
(***************************************************************************)
LEMMA PowerIsSize ==
  ASSUME NEW n \in Nat
  PROVE  /\ IsFiniteSet(SUBSET (1..n))
         /\ Cardinality(SUBSET (1..n)) = 2 ^ n
<1>1. IsFiniteSet(1..n) /\ Cardinality(1..n) = n
  BY FS_Interval
<1> QED
  BY <1>1, FS_SUBSET

LEMMA PowerPositive ==
  ASSUME NEW n \in Nat
  PROVE  2 ^ n \in Nat /\ 2 ^ n >= 1
<1> DEFINE S == SUBSET (1..n)
<1>1. {} \in S
  OBVIOUS
<1>2. IsFiniteSet(S) /\ Cardinality(S) = 2 ^ n
  BY PowerIsSize
<1> HIDE DEF S
<1>3. Cardinality(S) \in Nat /\ Cardinality(S) # 0
  BY <1>1, <1>2, FS_CardinalityType, FS_EmptySet
<1> QED
  BY <1>2, <1>3

LEMMA PowerGrows ==
  ASSUME NEW n \in Nat, NEW m \in Nat, n <= m
  PROVE  2 ^ n <= 2 ^ m
<1> DEFINE S == SUBSET (1..n)
           T == SUBSET (1..m)
<1>1. S \subseteq T
  OBVIOUS
<1>2. IsFiniteSet(T) /\ Cardinality(S) = 2 ^ n /\ Cardinality(T) = 2 ^ m
  BY PowerIsSize
<1> HIDE DEF S, T
<1>3. Cardinality(S) <= Cardinality(T)
  BY <1>1, <1>2, FS_Subset
<1> QED
  BY <1>2, <1>3

LEMMA Products ==
  ASSUME NEW b \in Nat, NEW x \in Nat, NEW y \in Nat, b >= 1, x <= y
  PROVE  /\ b * x \in Nat /\ b * x <= b * y
         /\ x <= b * x /\ x >= 1 => b <= b * x
  OBVIOUS

\* The range of an integer holds the default delays.
LEMMA WidthHolds ==
  /\ MaxInt \in Nat /\ MinInt \in Int
  /\ MinInt < 0 /\ MaxInt = -MinInt - 1 /\ MaxInt >= 7
<1>1. 2 ^ 3 = 8
  BY SMT
<1>2. Width - 1 \in Nat /\ 3 <= Width - 1
  BY WidthAssumption
<1>3. 2 ^ (Width - 1) \in Nat /\ 8 <= 2 ^ (Width - 1)
  BY <1>1, <1>2, PowerPositive, PowerGrows
<1> QED
  BY <1>3 DEF MaxInt, MinInt

(***************************************************************************)
(* The delay without jitter: doubled exactly, or the cap.                  *)
(***************************************************************************)
Policy ==
  /\ base \in 1..MaxInt /\ max \in 1..MaxInt
  /\ jitter \in Nat
  /\ attempt \in Nat

Doubled(n) == base * 2 ^ n

LEMMA DoublingExact ==
  ASSUME Policy, NEW n \in Nat, n > 0, NEW d \in PlainDelays(n)
  PROVE  d = IF Doubled(n) <= max THEN Doubled(n) ELSE max
<1>1. PICK x \in AsDuration(base * Shifted(n)) : d = Capped(x)
  BY DEF PlainDelays
<1>2. /\ 2 ^ n \in Nat /\ 2 ^ n >= 1
      /\ Doubled(n) \in Nat /\ Doubled(n) >= 1 /\ 2 ^ n <= Doubled(n)
  BY PowerPositive, Products, WidthHolds DEF Policy, Doubled
<1>3. CASE n < Width
  <2>1. base * Shifted(n) = Doubled(n)
    BY <1>3 DEF Shifted, Doubled
  <2>2. CASE Doubled(n) <= MaxInt
    <3>1. x = Doubled(n)
      BY <1>1, <1>2, <2>1, <2>2, WidthHolds DEF AsDuration
    <3> QED
      BY <1>1, <1>2, <3>1, WidthHolds DEF Policy, Capped
  <2>3. CASE Doubled(n) > MaxInt
    <3>1. x \in {MinInt, MaxInt}
      BY <1>1, <1>2, <2>1, <2>3, WidthHolds DEF AsDuration
    <3> QED
      BY <1>1, <1>2, <2>3, <3>1, WidthHolds DEF Policy, Capped
  <2> QED
    BY <1>2, <2>2, <2>3, WidthHolds
<1>4. CASE n >= Width
  <2>1. base * Shifted(n) = 0
    BY <1>4, WidthAssumption, WidthHolds DEF Shifted, Policy
  <2>2. x = 0
    BY <1>1, <2>1, WidthHolds DEF AsDuration
  <2>3. d = max
    BY <1>1, <2>2 DEF Capped
  <2>4. 2 ^ (Width - 1) <= 2 ^ n
    BY <1>4, WidthAssumption, PowerGrows
  <2>5. Doubled(n) > MaxInt
    BY <1>2, <2>4, WidthAssumption, PowerPositive DEF MaxInt
  <2> QED
    BY <1>2, <2>3, <2>5, WidthHolds DEF Policy
<1> QED
  BY <1>3, <1>4, WidthAssumption

LEMMA PlainBounds ==
  ASSUME Policy, NEW n \in Nat, NEW d \in PlainDelays(n)
  PROVE  /\ d \in Nat /\ d >= 1
         /\ d >= base \/ d >= max
         /\ d <= base \/ d <= max
<1>1. CASE n = 0
  BY <1>1, WidthHolds DEF PlainDelays, Policy
<1>2. CASE n > 0
  <2>1. d = IF Doubled(n) <= max THEN Doubled(n) ELSE max
    BY <1>2, DoublingExact
  <2>2. Doubled(n) \in Nat /\ Doubled(n) >= base
    BY PowerPositive, Products, WidthHolds DEF Policy, Doubled
  <2> QED
    BY <2>1, <2>2, WidthHolds DEF Policy
<1> QED
  BY <1>1, <1>2

\* Jitter adds at most the delay itself, and takes away no more.
LEMMA JitterBounds ==
  ASSUME NEW d \in Nat, d >= 1, jitter \in Nat, 2 * d <= MaxInt,
         NEW x \in WithJitter(d)
  PROVE  x \in 0..(2 * d)
<1>1. CASE jitter = 0
  BY <1>1 DEF WithJitter
<1>2. CASE jitter # 0
  <2> DEFINE j == IF jitter > 4 THEN 4 ELSE jitter
  <2>1. j \in 1..4
    BY <1>2
  <2>2. /\ (d * (4 - j)) \div 4 \in Nat /\ (d * (4 + j)) \div 4 \in Nat
        /\ (d * (4 + j)) \div 4 <= 2 * d
    <3>1. CASE j = 1
      BY <3>1
    <3>2. CASE j = 2
      BY <3>2
    <3>3. CASE j = 3
      BY <3>3
    <3>4. CASE j = 4
      BY <3>4
    <3> QED
      BY <2>1, <3>1, <3>2, <3>3, <3>4
  <2>3. PICK y \in ((d * (4 - j)) \div 4)..((d * (4 + j)) \div 4) :
          x \in AsDuration(y)
    BY <1>2 DEF WithJitter
  <2>4. y \in 0..(2 * d)
    BY <2>2, <2>3
  <2>5. y \in MinInt..MaxInt
    BY <2>4, WidthHolds
  <2> QED
    BY <2>3, <2>4, <2>5 DEF AsDuration
<1> QED
  BY <1>1, <1>2

(***************************************************************************)
(* The invariant: the policy as normalised, and a delay that ForAttempt    *)
(* returned.                                                               *)
(***************************************************************************)
BInv == Policy /\ delay \in ForAttempt(attempt)

LEMMA InitBInv == Init => BInv
<1> SUFFICES ASSUME Init PROVE BInv
  OBVIOUS
<1>1. base \in 1..MaxInt /\ max \in 1..MaxInt
  BY DurationsAssumption, WidthHolds DEF Init, OrDefault, DefaultBase, DefaultMax
<1>2. jitter \in Nat
  BY JittersAssumption DEF Init, NormalJitter
<1> QED
  BY <1>1, <1>2 DEF Init, BInv, Policy

LEMMA StepBInv == BInv /\ [NextAttempt]_backoffVars => BInv'
<1> SUFFICES ASSUME BInv, [NextAttempt]_backoffVars PROVE BInv'
  OBVIOUS
<1>1. Policy'
  BY DEF BInv, Policy, NextAttempt, backoffVars
<1>2. \A n : ForAttempt(n)' = ForAttempt(n)
  BY DEF NextAttempt, backoffVars, ForAttempt, PlainDelays, WithJitter, Capped
<1>3. CASE NextAttempt
  BY <1>1, <1>2, <1>3 DEF NextAttempt, BInv
<1>4. CASE UNCHANGED backoffVars
  BY <1>1, <1>2, <1>4 DEF backoffVars, BInv
<1> QED
  BY <1>1, <1>3, <1>4

LEMMA BackoffInvariance == Spec => []BInv
  BY InitBInv, StepBInv, PTL DEF Spec

\* Without jitter the delay is a plain one.
LEMMA NoJitter ==
  ASSUME BInv, jitter = 0
  PROVE  delay \in PlainDelays(attempt)
  BY DEF BInv, ForAttempt, WithJitter

-----------------------------------------------------------------------------
\* Without jitter every repetition waits for at least the smaller of the two
\* configured delays, whatever overflowed: the loop of Do never gets busy.
THEOREM WaitsAlways == Spec => []NeverBusy
<1>1. BInv => NeverBusy
  BY NoJitter, PlainBounds DEF BInv, Policy, NeverBusy
<1> QED
  BY <1>1, BackoffInvariance, PTL

\* With jitter no delay is negative or more than twice the larger of the two,
\* as long as that is in range.
THEOREM JitterInBounds == Spec => []JitterBounded
<1>1. BInv => JitterBounded
  <2> SUFFICES ASSUME BInv, 2 * Larger(base, max) <= MaxInt
               PROVE  delay \in 0..(2 * Larger(base, max))
    BY DEF JitterBounded
  <2>1. PICK d \in PlainDelays(attempt) : delay \in WithJitter(d)
    BY DEF BInv, ForAttempt
  <2>2. /\ Larger(base, max) \in Nat
        /\ d \in Nat /\ d >= 1 /\ d <= Larger(base, max)
    BY <2>1, PlainBounds, WidthHolds DEF BInv, Policy, Larger
  <2>3. delay \in 0..(2 * d)
    BY <2>1, <2>2, JitterBounds, WidthHolds DEF BInv, Policy
  <2> QED
    BY <2>2, <2>3
<1> QED
  BY <1>1, BackoffInvariance, PTL

\* Without jitter the delay doubles exactly until MaxDelay is reached, through
\* the overflow of the shift and of the product.
THEOREM DoublesExactly == Spec => []DoublesUntilCapped
<1>1. BInv => DoublesUntilCapped
  BY NoJitter, DoublingExact DEF BInv, Policy, DoublesUntilCapped, Doubled
<1> QED
  BY <1>1, BackoffInvariance, PTL

\* Without jitter the delays never shrink, unless BaseDelay exceeds MaxDelay.
THEOREM DelaysGrow == Spec => NeverShrinks
<1>1. ASSUME BInv, BInv', NextAttempt, jitter = 0, base <= max
      PROVE  delay' >= delay
  <2> DEFINE n == attempt
             Plain(k) == IF Doubled(k) <= max THEN Doubled(k) ELSE max
  <2>1. /\ jitter' = 0 /\ attempt' = n + 1 /\ n \in Nat /\ n + 1 \in Nat
        /\ delay' \in PlainDelays(n + 1)
    <3>1. jitter' = jitter /\ attempt' = n + 1 /\ delay' \in ForAttempt(n + 1)
      BY <1>1 DEF NextAttempt
    <3> QED
      BY <1>1, <3>1 DEF ForAttempt, WithJitter, BInv, Policy
  <2>2. delay' = Plain(n + 1)
    BY <1>1, <2>1, DoublingExact DEF BInv
  <2>3. delay = Plain(n)
    <3>1. CASE n = 0
      <4>1. 2 ^ 0 = 1
        BY SMT
      <4>2. Doubled(0) = base
        BY <1>1, <4>1, WidthHolds DEF Doubled, BInv, Policy
      <4> QED
        BY <1>1, <3>1, <4>2, NoJitter DEF PlainDelays
    <3>2. CASE n > 0
      BY <1>1, <2>1, <3>2, NoJitter, DoublingExact DEF BInv
    <3> QED
      BY <2>1, <3>1, <3>2
  <2>4. /\ Doubled(n) \in Nat /\ Doubled(n + 1) \in Nat
        /\ Doubled(n) <= Doubled(n + 1)
    BY <1>1, <2>1, PowerPositive, PowerGrows, Products, WidthHolds
    DEF Doubled, BInv, Policy
  <2> QED
    BY <1>1, <2>2, <2>3, <2>4, WidthHolds DEF BInv, Policy
<1>2. BInv /\ BInv' /\ [NextAttempt]_backoffVars
      => [jitter = 0 /\ base <= max => delay' >= delay]_backoffVars
  BY <1>1
<1> QED
  BY <1>2, BackoffInvariance, PTL DEF Spec, NeverShrinks
=============================================================================
