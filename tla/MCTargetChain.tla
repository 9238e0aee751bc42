--------------------------- MODULE MCTargetChain ---------------------------
(* Small instance of TargetChain.                                           *)
EXTENDS TargetChain
=============================================================================
