------------------------------ MODULE MCPayment -----------------------------
(***************************************************************************)
(* Payment for TLC: two users that share nothing, one unknown user id, one *)
(* unknown menu id, amounts that overflow and prices that are free.        *)
(***************************************************************************)
EXTENDS Payment, TLC

CONSTANTS t1, t2, i1, i2, u1, u2, ux, m1, mx

MCHost == [t \in Thread |-> IF t = t1 THEN i1 ELSE i2]
MCInitialBalance == [u \in User |-> 1]
MCInitialPrice == [m \in Menu |-> 1]
=============================================================================
