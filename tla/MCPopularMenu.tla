---------------------------- MODULE MCPopularMenu ---------------------------
(***************************************************************************)
(* PopularMenu for TLC: two instances, two menus and a short window,       *)
(* so that an order leaves the window while it is still in Redis.          *)
(***************************************************************************)
EXTENDS PopularMenu, TLC

CONSTANTS i1, i2

OneLegacyOrder == <<[menu |-> 1, at |-> 0]>>
NoLegacyOrder == <<>>

InstanceSymmetry == Permutations(Instance)
=============================================================================
