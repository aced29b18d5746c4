----------------------------- MODULE DurableLog -----------------------------
(***************************************************************************)
(* What the edge runtime asks of lib/runtime/audit_journal.dart: an append *)
(* that returns is in the log for good, one that throws may or may not be, *)
(* and the log only grows.  ToolGateway and TaskEngine are written against *)
(* this contract ("ok", "lost" and "late" appends); AuditJournal keeps it. *)
(***************************************************************************)
EXTENDS Sequences

CONSTANT Entries        \* each is appended at most once

VARIABLES log, result

logVars == <<log, result>>

LogInit ==
    /\ log = <<>>
    /\ result = [e \in Entries |-> "none"]

Begin(e) ==
    /\ result[e] = "none"
    /\ result' = [result EXCEPT ![e] = "pending"]
    /\ UNCHANGED log

Unlogged(e) == \A i \in DOMAIN log : log[i] # e

Commit(e) ==
    /\ result[e] = "pending" /\ Unlogged(e)
    /\ log' = Append(log, e)
    /\ UNCHANGED result

Acknowledge(e) ==
    /\ result[e] = "pending" /\ ~Unlogged(e)
    /\ result' = [result EXCEPT ![e] = "ok"]
    /\ UNCHANGED log

Throw(e) ==
    /\ result[e] = "pending"
    /\ result' = [result EXCEPT ![e] = "threw"]
    /\ \/ UNCHANGED log
       \/ Unlogged(e) /\ log' = Append(log, e)

LogNext == \E e \in Entries : Begin(e) \/ Commit(e) \/ Acknowledge(e) \/ Throw(e)

LogSpec == LogInit /\ [][LogNext]_logVars

=============================================================================
