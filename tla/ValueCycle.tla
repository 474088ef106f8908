----------------------------- MODULE ValueCycle -----------------------------
(***************************************************************************)
(* A value that is written with Set or HSet, read back with Get or HGet    *)
(* and written again, by one caller and on a network that fails nothing:   *)
(* what the response format alone does to it.  Upstream stores the JSON it *)
(* is sent and returns it in the field "result".                           *)
(***************************************************************************)
EXTENDS Ratio1Response

CONSTANT MaxQuotes  \* bound: layers of quotes around the first value

ASSUME MaxQuotesAssumption == MaxQuotes \in Nat

VARIABLE held  \* the JSON value the caller holds

Init ==
  \E q \in 0..MaxQuotes, core \in Cores :
    /\ IsJSON([quotes |-> q, core |-> core])
    /\ held = [quotes |-> q, core |-> core]

\* Set, then Get.
Cycle == held' = ExtractResult(Envelope(held)).text

Spec == Init /\ [][Cycle]_held

-----------------------------------------------------------------------------
\* Whatever the caller wrote, it reads back JSON, as the decoders of
\* pkg/cstore require, however often the value goes round.
ReadsBackJSON == held \in JSONTexts

\* The values that survive a round trip are exactly those that are not a JSON
\* string and the strings whose content, after at most five layers of quotes,
\* is not a JSON document (ExtractResult's loop and its fallback).
SurvivesIffTransparent ==
  Transparent(held) <=> ExtractResult(Envelope(held)) = Payload(held)

\* A round trip that changes a value takes quotes from it and nothing else:
\* the document inside is never lost, a string never gains a layer, and a
\* value that goes round often enough comes to rest.
OnlyQuotesAreLost ==
  [][held'.core = held.core /\ held'.quotes < held.quotes]_held

\* client.go of pkg/cstore: Get returns the stored value, as the round trips
\* of client_test.go expect of every primitive.
RoundTrip == [][UNCHANGED held]_held
=============================================================================
