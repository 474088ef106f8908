------------------------------ MODULE MCCStore ------------------------------
(***************************************************************************)
(* Values and symmetry for the runs of CStore.                             *)
(***************************************************************************)
EXTENDS CStore, TLC

\* A string that looks like a number, null, and a string that is neither.
Plain  == [quotes |-> 1, core |-> "word"]
Opaque == [quotes |-> 1, core |-> "number"]

PlainAndOpaque == {Plain, Opaque}
PlainAndNull   == {Plain, NullText}
OnlyPlain      == {Plain}

CallSymmetry == Permutations(Calls)
=============================================================================
