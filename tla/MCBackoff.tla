----------------------------- MODULE MCBackoff -----------------------------
(***************************************************************************)
(* Every duration of five bits, and jitters up to beyond 100%.             *)
(***************************************************************************)
EXTENDS Backoff

AllDurations == -1..15
SomeJitters  == {-1, 0, 1, 4, 6}
=============================================================================
