-------------------------- MODULE Ratio1Response --------------------------
(***************************************************************************)
(* internal/ratio1api/response.go: what the SDK takes a response body to   *)
(* say, as operators shared by the modules of the clients.                 *)
(*                                                                         *)
(* A text is a core inside a number of layers of quotes: "42" between      *)
(* quotes is [quotes |-> 1, core |-> "number"], the JSON string whose       *)
(* content is the text 42.  Layers of JSON quoting and of Go quoting       *)
(* (strconv.Unquote) are not told apart.                                   *)
(***************************************************************************)
EXTENDS Integers

\* Cores that are JSON documents themselves ...
Atoms == {"null", "true", "false", "one", "zero", "number", "object"}
\* ... and cores that are not: T and F stand for the further words that
\* strconv.ParseBool knows.
Words == {"T", "F", "word"}
Cores == Atoms \cup Words

Texts == [quotes : Nat, core : Cores]

IsJSON(t) == t.quotes > 0 \/ t.core \in Atoms

JSONTexts == {t \in Texts : IsJSON(t)}

Stripped(t, n) ==
  [t EXCEPT !.quotes = IF t.quotes > n THEN t.quotes - n ELSE 0]

\* A body is blank, a text on its own, or an object whose field "result"
\* holds a JSON text.
BlankBody   == [kind |-> "blank"]
Bare(t)     == [kind |-> "bare", text |-> t]
Envelope(t) == [kind |-> "envelope", text |-> t]

NoPayload == [kind |-> "none"]
Payload(t) == [kind |-> "payload", text |-> t]

\* The loop that calls strconv.Unquote: four times, or until it fails.
UnquoteLimit == 4

\* Mutant: one round of the loop less.
UnquoteThrice(t) == Stripped(t, UnquoteLimit - 1)

Unquoted(t) == Stripped(t, UnquoteLimit)

\* Mutant: the content of a string is taken for a document unconditionally.
AlwaysUnwrap(t) ==
  IF t.quotes > 0 THEN Unquoted(Stripped(t, 1)) ELSE t

\* Mutant: the fallback encodes the string once more.
EncodedAgain(t) ==
  LET inner == Unquoted(Stripped(t, 1))
  IN  IF t.quotes = 0 \/ IsJSON(inner) THEN inner
      ELSE [t EXCEPT !.quotes = @ + 1]

\* A result that is a JSON string is replaced by the document found in it;
\* without one it stays as it is.
Unwrapped(t) ==
  LET inner == Unquoted(Stripped(t, 1))
  IN  IF t.quotes > 0 /\ IsJSON(inner) THEN inner ELSE t

ExtractResult(body) ==
  CASE body.kind = "blank"    -> NoPayload
    [] body.kind = "bare"     -> Payload(body.text)
    [] body.kind = "envelope" -> Payload(Unwrapped(body.text))

\* DecodeResult: no payload counts as null; a payload that is not JSON is an
\* error.
NullText == [quotes |-> 0, core |-> "null"]

DecodedText(body) ==
  IF body.kind = "blank" THEN NullText ELSE ExtractResult(body).text

Decodes(body) == IsJSON(DecodedText(body))

\* The texts that ExtractResult hands on unchanged.
Transparent(t) ==
  \/ t.quotes = 0
  \/ t.core \in Words /\ t.quotes <= UnquoteLimit + 1
=============================================================================
