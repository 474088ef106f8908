-------------------------- MODULE MCCStoreOverHttp --------------------------
(***************************************************************************)
(* Values for the run of CStoreOverHttp.                                   *)
(***************************************************************************)
EXTENDS CStoreOverHttp

OnlyPlain == {[quotes |-> 1, core |-> "word"]}
=============================================================================
