---------------------------- MODULE MCWorkQueue ----------------------------
(* Small instance of WorkQueue: two items with different intervals.         *)
EXTENDS WorkQueue

CONSTANTS i1, i2

MCInterval == [i \in Item |-> IF i = i1 THEN 1 ELSE 2]
=============================================================================
