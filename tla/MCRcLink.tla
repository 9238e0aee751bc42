------------------------------ MODULE MCRcLink ------------------------------
(* Model-checking constants for RcLink: all are given in the .cfg files.   *)
EXTENDS RcLink
=============================================================================
