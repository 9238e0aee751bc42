------------------------------ MODULE MCArming ------------------------------
(* Model-checking constants for Arming: all are given in the .cfg files.   *)
EXTENDS Arming
=============================================================================
