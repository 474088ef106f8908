-------------------------- MODULE ValueCycleProofs --------------------------
(***************************************************************************)
(* Proofs about ValueCycle, for any number of layers of quotes and any     *)
(* number of rounds.                                                       *)
(***************************************************************************)
EXTENDS ValueCycle, Ratio1ResponseProofs

\* A value stays JSON, however often it is written and read back.
THEOREM StaysJSON == Spec => []ReadsBackJSON
<1>1. Init => ReadsBackJSON
  BY MaxQuotesAssumption DEF Init, ReadsBackJSON, JSONTexts, Texts
<1>2. ReadsBackJSON /\ [Cycle]_held => ReadsBackJSON'
  BY EnvelopeResult, UnwrappedType DEF ReadsBackJSON, Cycle, Payload
<1> QED
  BY <1>1, <1>2, PTL DEF Spec

\* A round trip takes quotes from a value or leaves it alone, whatever it was
\* and however often it has gone round.
THEOREM QuotesRunOut == Spec => OnlyQuotesAreLost
<1>1. ASSUME ReadsBackJSON, Cycle, held' # held
      PROVE  held'.core = held.core /\ held'.quotes < held.quotes
  <2>1. held' = Unwrapped(held)
    BY <1>1, EnvelopeResult DEF Cycle, Payload
  <2> QED
    BY <1>1, <2>1, UnwrappedShrinks DEF ReadsBackJSON
<1>2. ReadsBackJSON /\ [Cycle]_held
      => [held'.core = held.core /\ held'.quotes < held.quotes]_held
  BY <1>1
<1> QED
  BY <1>2, StaysJSON, PTL DEF Spec, OnlyQuotesAreLost

\* The values that come back as they were written stay what they are for
\* good: for them the round trip that pkg/cstore promises is exact.
THEOREM TransparentValuesStay ==
  Spec => [][Transparent(held) => UNCHANGED held]_held
<1>1. ASSUME ReadsBackJSON, Cycle, Transparent(held) PROVE UNCHANGED held
  BY <1>1, EnvelopeResult, UnwrappedFixpoint DEF ReadsBackJSON, Cycle, Payload
<1>2. ReadsBackJSON /\ [Cycle]_held
      => [Transparent(held) => UNCHANGED held]_held
  BY <1>1
<1> QED
  BY <1>2, StaysJSON, PTL DEF Spec

\* Exactly the transparent values survive a round trip.
THEOREM RoundTripExactly == Spec => []SurvivesIffTransparent
<1>1. ReadsBackJSON => SurvivesIffTransparent
  BY EnvelopeResult, UnwrappedFixpoint
  DEF ReadsBackJSON, SurvivesIffTransparent, Payload
<1> QED
  BY <1>1, StaysJSON, PTL
=============================================================================
