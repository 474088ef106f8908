------------------------------ MODULE Backoff ------------------------------
(***************************************************************************)
(* internal/httpx/backoff.go: the delay before each repetition, in integer *)
(* arithmetic of Width bits, for the policies a caller can configure.      *)
(*                                                                         *)
(* A time.Duration is a signed integer of 64 bits, here of Width bits; the *)
(* shift of uint(1) is as wide.  float64 is taken for exact; its           *)
(* conversion to a Duration out of range, which Go leaves to the machine,  *)
(* yields either end of the range.                                         *)
(***************************************************************************)
EXTENDS Integers

CONSTANTS
  Width,       \* bits of an integer
  Durations,   \* the BaseDelays and MaxDelays configured
  Jitters,     \* the Jitters configured, in quarters
  LastAttempt  \* bound: the last attempt that is looked at

\* The default delays fit into an integer.
ASSUME WidthAssumption == Width \in Nat /\ Width >= 4

MaxInt == 2 ^ (Width - 1) - 1
MinInt == -(2 ^ (Width - 1))

ASSUME DurationsAssumption == Durations \subseteq MinInt..MaxInt
ASSUME JittersAssumption   == Jitters \subseteq Int

\* DefaultRetryPolicy's delays, of which only the order matters here.
DefaultBase == 1
DefaultMax  == 4

VARIABLES
  base,    \* BaseDelay of the Backoff
  max,     \* MaxDelay of the Backoff
  jitter,  \* Jitter of the Backoff
  attempt, \* the attempt that failed last
  delay    \* the delay after it

backoffVars == <<base, max, jitter, attempt, delay>>

\* NewClient and NewBackoff replace what is not positive by a default, and a
\* negative jitter by none.
OrDefault(d, default) == IF d <= 0 THEN default ELSE d
NormalJitter(j) == IF j < 0 THEN 0 ELSE j

\* time.Duration(x) of a float.
AsDuration(x) ==
  IF x \in MinInt..MaxInt THEN {x} ELSE {MinInt, MaxInt}

Shifted(n) == IF n < Width THEN 2 ^ n ELSE 0

\* Mutant: a product that overflowed is not replaced.
CappedAboveOnly(d) == IF d > max THEN max ELSE d

Capped(d) == IF d <= 0 \/ d > max THEN max ELSE d

\* Mutant: the first delay is doubled already.
DoubledAtOnce(n) == {Capped(d) : d \in AsDuration(base * Shifted(n + 1))}

\* The first delay is BaseDelay, whatever MaxDelay is.
PlainDelays(n) ==
  IF n = 0 THEN {base} ELSE {Capped(d) : d \in AsDuration(base * Shifted(n))}

\* Mutant: jitter is not limited to the whole delay.
UnboundedJitter(d) ==
  IF jitter = 0 \/ d <= 0 THEN {d}
  ELSE UNION {AsDuration(x) :
              x \in ((d * (4 - jitter)) \div 4)..((d * (4 + jitter)) \div 4)}

\* addJitter: a factor between 1 - j and 1 + j, where j is at most 1.
WithJitter(d) ==
  LET j == IF jitter > 4 THEN 4 ELSE jitter
  IN  IF jitter = 0 \/ d <= 0 THEN {d}
      ELSE UNION {AsDuration(x) :
                  x \in ((d * (4 - j)) \div 4)..((d * (4 + j)) \div 4)}

ForAttempt(n) == UNION {WithJitter(d) : d \in PlainDelays(n)}

Init ==
  /\ \E b \in Durations : base = OrDefault(b, DefaultBase)
  /\ \E m \in Durations : max = OrDefault(m, DefaultMax)
  /\ \E j \in Jitters : jitter = NormalJitter(j)
  /\ attempt = 0
  /\ delay \in ForAttempt(0)

\* The next attempt fails, too.
NextAttempt ==
  /\ attempt < LastAttempt
  /\ attempt' = attempt + 1
  /\ delay' \in ForAttempt(attempt + 1)
  /\ UNCHANGED <<base, max, jitter>>

Spec == Init /\ [][NextAttempt]_backoffVars

-----------------------------------------------------------------------------
Larger(a, b) == IF a > b THEN a ELSE b

\* Without jitter every repetition is preceded by a delay of at least the
\* smaller of BaseDelay and MaxDelay, also once the doubling has overflowed:
\* no sequence of failures turns the loop of Do into a busy one.
NeverBusy == jitter = 0 => delay >= base \/ delay >= max

\* With jitter a delay is at most twice the larger of BaseDelay and MaxDelay,
\* and none is negative, unless that double itself is out of range.
JitterBounded ==
  2 * Larger(base, max) <= MaxInt => delay \in 0..(2 * Larger(base, max))

\* Without jitter the delays never shrink, from the first attempt through the
\* overflow of the shift and of the product, unless BaseDelay exceeds MaxDelay.
NeverShrinks ==
  [][jitter = 0 /\ base <= max => delay' >= delay]_backoffVars

\* The doubling is exact until the cap: the attempt whose delay is capped
\* first is the one for which BaseDelay * 2^attempt exceeds MaxDelay.
DoublesUntilCapped ==
  jitter = 0 /\ attempt > 0 =>
    delay = IF base * 2 ^ attempt <= max THEN base * 2 ^ attempt ELSE max
=============================================================================
