---------------------------- MODULE MCTaskEngine ----------------------------
(* Small instances of TaskEngine for TLC.  Without failing appends a single *)
(* caller at a time is the discipline under which the engine is correct.    *)
EXTENDS TaskEngine
=============================================================================
