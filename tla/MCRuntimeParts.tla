--------------------------- MODULE MCRuntimeParts ---------------------------
(* A small instance for TLC of three parts of lib/runtime that share no     *)
(* state: TaskEngine with callers that keep apart, AuditJournal written     *)
(* by two processes and DeviceEffectScheduler with more submissions than    *)
(* its queue holds.  Each runs while the other two are at rest.             *)
EXTENDS TaskEngine, AuditJournal, DeviceEffectScheduler

PartsInit == Init /\ JournalInit /\ SchedInit

PartsNext ==
    \/ Next /\ Disjoint' /\ JournalInit /\ SchedInit /\ UNCHANGED <<journalVars, schedVars>>
    \/ JournalNext /\ Init /\ SchedInit /\ UNCHANGED <<vars, schedVars>>
    \/ SchedNext /\ Init /\ JournalInit /\ UNCHANGED <<vars, journalVars>>

PartsSpec ==
    PartsInit /\ [][PartsNext]_<<vars, journalVars, schedVars>> /\ SchedFairness
=============================================================================
