------------------------ MODULE Ratio1ResponseProofs ------------------------
(***************************************************************************)
(* Facts about ExtractResult for any number of layers of quotes, cited by  *)
(* the proofs about the modules that decode responses.                     *)
(***************************************************************************)
EXTENDS Ratio1Response, TLAPS

LEMMA StrippedType ==
  ASSUME NEW t \in Texts, NEW n \in Nat
  PROVE  /\ Stripped(t, n) \in Texts
         /\ Stripped(t, n).core = t.core
         /\ Stripped(t, n).quotes = IF t.quotes > n THEN t.quotes - n ELSE 0
  BY DEF Texts, Stripped

LEMMA UnwrappedType ==
  ASSUME NEW t \in JSONTexts
  PROVE  Unwrapped(t) \in JSONTexts
<1> DEFINE inner == Unquoted(Stripped(t, 1))
<1>1. t \in Texts /\ IsJSON(t)
  BY DEF JSONTexts
<1>2. Stripped(t, 1) \in Texts
  BY <1>1, StrippedType
<1>3. inner \in Texts
  BY <1>2, StrippedType DEF Unquoted, UnquoteLimit
<1> QED
  BY <1>1, <1>3 DEF Unwrapped, JSONTexts

\* Five layers are lost at once, and only if a document is left.
LEMMA UnwrappedFixpoint ==
  ASSUME NEW t \in JSONTexts
  PROVE  Unwrapped(t) = t <=> Transparent(t)
<1> DEFINE once  == Stripped(t, 1)
           inner == Unquoted(once)
<1>1. t \in Texts /\ t.quotes \in Nat /\ t.core \in Cores /\ IsJSON(t)
  BY DEF JSONTexts, Texts
<1>2. /\ once \in Texts /\ once.core = t.core
      /\ once.quotes = IF t.quotes > 1 THEN t.quotes - 1 ELSE 0
  BY <1>1, StrippedType
<1>3. /\ inner.core = t.core
      /\ inner.quotes = IF once.quotes > 4 THEN once.quotes - 4 ELSE 0
  BY <1>2, StrippedType DEF Unquoted, UnquoteLimit
<1>4. inner.quotes = IF t.quotes > 5 THEN t.quotes - 5 ELSE 0
  BY <1>1, <1>2, <1>3
<1>5. t.quotes > 0 => inner # t
  BY <1>1, <1>4
<1>6. IsJSON(inner) <=> t.quotes > 5 \/ t.core \in Atoms
  BY <1>1, <1>3, <1>4 DEF IsJSON
<1>7. t.core \in Words <=> t.core \notin Atoms
  BY <1>1 DEF Cores, Words, Atoms
<1> QED
  BY <1>1, <1>5, <1>6, <1>7 DEF Unwrapped, Transparent, UnquoteLimit

\* What changes keeps its core and loses quotes.
LEMMA UnwrappedShrinks ==
  ASSUME NEW t \in JSONTexts
  PROVE  \/ Unwrapped(t) = t
         \/ Unwrapped(t).core = t.core /\ Unwrapped(t).quotes < t.quotes
<1> DEFINE once  == Stripped(t, 1)
           inner == Unquoted(once)
<1>1. t \in Texts /\ t.quotes \in Nat
  BY DEF JSONTexts, Texts
<1>2. /\ once \in Texts /\ once.core = t.core
      /\ once.quotes = IF t.quotes > 1 THEN t.quotes - 1 ELSE 0
  BY <1>1, StrippedType
<1>3. /\ inner.core = t.core
      /\ inner.quotes = IF once.quotes > 4 THEN once.quotes - 4 ELSE 0
  BY <1>2, StrippedType DEF Unquoted, UnquoteLimit
<1>4. t.quotes > 0 => inner.quotes < t.quotes
  BY <1>1, <1>2, <1>3
<1> QED
  BY <1>3, <1>4 DEF Unwrapped

LEMMA EnvelopeResult ==
  ASSUME NEW t
  PROVE  ExtractResult(Envelope(t)) = Payload(Unwrapped(t))
  BY DEF ExtractResult, Envelope
=============================================================================
