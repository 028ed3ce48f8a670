------------------------------ MODULE MCPublish -----------------------------
(***************************************************************************)
(* Publish for TLC: with and without a draft somebody opened before.       *)
(***************************************************************************)
EXTENDS Publish

MCInitialPrs == {<<>>, <<NewPr(TRUE, FALSE)>>}
=============================================================================
