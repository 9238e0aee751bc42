---------------------------- MODULE MCParamStore ----------------------------
(* Model-checking constants for ParamStore: all are in the .cfg files.     *)
EXTENDS ParamStore
=============================================================================
