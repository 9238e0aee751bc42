------------------------- MODULE MCModuleLifecycle -------------------------
(* Small instance of ModuleLifecycle: two clients, instances and topics.    *)
EXTENDS ModuleLifecycle
=============================================================================
