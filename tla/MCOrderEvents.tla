---------------------------- MODULE MCOrderEvents ---------------------------
(***************************************************************************)
(* OrderEvents for TLC: one key that all records share, so that they meet  *)
(* in one partition, and a second partition that other keys would use.     *)
(***************************************************************************)
EXTENDS OrderEvents, TLC

CONSTANTS i1, i2, u1, u2, p1, p2

OnePartition == [u \in User |-> p1]
TwoPartitions == [u \in User |-> IF u = u1 THEN p1 ELSE p2]
=============================================================================
