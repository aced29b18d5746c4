---------------------------- MODULE AuditJournal ----------------------------
(***************************************************************************)
(* lib/runtime/audit_journal.dart, JsonlAuditJournal: records appended to  *)
(* a file, each naming its predecessor, and an authenticated checkpoint of *)
(* the head that is replaced after every append.  Processes share both     *)
(* files under an exclusive file lock; calls of one process already queue  *)
(* up in _processTails.  A process may die between any two steps, and any  *)
(* file operation may fail.                                                *)
(*                                                                         *)
(* Hashes are abstracted to the entry they identify.  The size of the file *)
(* and its change times identify its content, so a checkpoint agrees with  *)
(* the file's metadata iff it names the last record and no torn one        *)
(* follows.                                                                *)
(***************************************************************************)
EXTENDS Naturals, SequencesExt

CONSTANTS
    Processes, Entries,
    NoProcess, NoEntry,
    Missing,             \* no checkpoint file, no trusted head
    maximumRecordCount,
    MaxFaults            \* bound on failing file operations and process deaths

ASSUME JournalAssumption ==
    /\ maximumRecordCount \in Nat \ {0} /\ MaxFaults \in Nat
    /\ NoProcess \notin Processes /\ NoEntry \notin Entries /\ Missing \notin Nat

VARIABLES
    file,        \* the complete records
    torn,        \* an incomplete record follows them
    checkpoint,  \* the sequence number the checkpoint authenticates
    lock,        \* who holds the file lock
    pc, op,      \* per process, the step it is at and the entry it appends
    head,        \* the head its append continues from
    trusted,     \* _trustedHeads
    result,      \* what the append of each entry returned
    faults

journalVars == <<file, torn, checkpoint, lock, pc, op, head, trusted, result, faults>>

Record == [entry : Entries, sequence : Nat, previous : Entries \cup {NoEntry}]

Step == {"idle", "head", "sync", "resync", "write", "checkpoint", "replace"}

\* Types; whoever is inside a journal operation holds the lock.
JournalTypeOK ==
    /\ file \in Seq(Record)
    /\ torn \in BOOLEAN
    /\ checkpoint \in Nat \cup {Missing}
    /\ lock \in Processes \cup {NoProcess}
    /\ pc \in [Processes -> Step]
    /\ op \in [Processes -> Entries \cup {NoEntry}]
    /\ head \in [Processes -> [sequence : Nat, entry : Entries \cup {NoEntry}]]
    /\ trusted \in [Processes -> Nat \cup {Missing}]
    /\ result \in [Entries -> {"none", "pending", "ok", "threw"}]
    /\ faults \in 0..MaxFaults
    /\ \A p \in Processes : pc[p] # "idle" => lock = p

JournalInit ==
    /\ file = <<>> /\ torn = FALSE /\ checkpoint = Missing
    /\ lock = NoProcess
    /\ pc = [p \in Processes |-> "idle"]
    /\ op = [p \in Processes |-> NoEntry]
    /\ head = [p \in Processes |-> [sequence |-> 0, entry |-> NoEntry]]
    /\ trusted = [p \in Processes |-> Missing]
    /\ result = [e \in Entries |-> "none"]
    /\ faults = 0

-----------------------------------------------------------------------------
EntryAt(i) == IF i = 0 THEN NoEntry ELSE file[i].entry

\* verifyEntries
Chained ==
    \A i \in DOMAIN file : file[i].sequence = i /\ file[i].previous = EntryAt(i - 1)

\* _readAndVerifyUnlocked and _verifyCheckpointAnchor do not throw.
Verifies ==
    /\ ~torn
    /\ Len(file) <= maximumRecordCount
    /\ Chained
    /\ IF checkpoint = Missing THEN file = <<>> ELSE checkpoint <= Len(file)

CheckpointMatchesFile == checkpoint # Missing /\ checkpoint = Len(file) /\ ~torn

\* Faulty variant: the process relies on the head it saw last.
TrustsItsOwnHead(p) == trusted[p] # Missing

\* _appendHeadUnlocked: no need to read more than the terminal record.
FastPath(p) == CheckpointMatchesFile /\ trusted[p] = checkpoint

Fault == faults < MaxFaults /\ faults' = faults + 1

\* The operation throws: the trusted head is forgotten and the lock released.
Fail(p) ==
    /\ pc' = [pc EXCEPT ![p] = "idle"]
    /\ op' = [op EXCEPT ![p] = NoEntry]
    /\ trusted' = [trusted EXCEPT ![p] = Missing]
    /\ result' = IF op[p] = NoEntry THEN result ELSE [result EXCEPT ![op[p]] = "threw"]
    /\ lock' = NoProcess

\* It returns.
Return(p) ==
    /\ pc' = [pc EXCEPT ![p] = "idle"]
    /\ op' = [op EXCEPT ![p] = NoEntry]
    /\ result' = IF op[p] = NoEntry THEN result ELSE [result EXCEPT ![op[p]] = "ok"]
    /\ lock' = NoProcess

\* _exclusive: append of e, or initialize, verify and readAll (NoEntry).
Start(p, e) ==
    /\ pc[p] = "idle" /\ lock = NoProcess
    /\ IF e = NoEntry THEN result' = result
       ELSE result[e] = "none" /\ result' = [result EXCEPT ![e] = "pending"]
    /\ lock' = p
    /\ pc' = [pc EXCEPT ![p] = "head"]
    /\ op' = [op EXCEPT ![p] = e]
    /\ UNCHANGED <<file, torn, checkpoint, head, trusted, faults>>

\* The head is known: an append goes on to write, the others are done.
Proceed(p, n) ==
    IF op[p] = NoEntry THEN Return(p) /\ UNCHANGED head
    ELSE /\ head' = [head EXCEPT ![p] = [sequence |-> n, entry |-> EntryAt(n)]]
         /\ pc' = [pc EXCEPT ![p] = "write"]
         /\ UNCHANGED <<op, result, lock>>

\* _appendHeadUnlocked, the bounded path of append.
FastHead(p) ==
    /\ pc[p] = "head" /\ op[p] # NoEntry /\ FastPath(p)
    /\ Proceed(p, trusted[p])
    /\ UNCHANGED <<file, torn, checkpoint, trusted, faults>>

\* _fullVerifyAndSynchronizeCheckpointUnlocked
FullVerification(p) ==
    /\ pc[p] = "head" /\ ~(op[p] # NoEntry /\ FastPath(p))
    /\ \/ ~Verifies /\ Fail(p) /\ UNCHANGED head
       \/ /\ Verifies /\ CheckpointMatchesFile
          /\ trusted' = [trusted EXCEPT ![p] = checkpoint]
          /\ Proceed(p, Len(file))
       \/ /\ Verifies /\ ~CheckpointMatchesFile
          /\ pc' = [pc EXCEPT ![p] = "sync"]
          /\ UNCHANGED <<op, lock, head, trusted, result>>
    /\ UNCHANGED <<file, torn, checkpoint, faults>>

Full(n) == n >= maximumRecordCount

NewRecord(p) ==
    [entry |-> op[p], sequence |-> head[p].sequence + 1, previous |-> head[p].entry]

\* Faulty variant: a failing write is not noticed.
WriteUnflushed(p) ==
    /\ pc[p] = "write"
    /\ ~Full(head[p].sequence)
    /\ file' \in {file, Append(file, NewRecord(p))}
    /\ pc' = [pc EXCEPT ![p] = IF file' = file THEN "idle" ELSE "checkpoint"]
    /\ result' = IF file' = file THEN [result EXCEPT ![op[p]] = "ok"] ELSE result
    /\ lock' = IF file' = file THEN NoProcess ELSE lock
    /\ UNCHANGED <<torn, checkpoint, op, head, trusted, faults>>

\* The record is written and flushed; or part of it, all or nothing is written
\* and the append throws.
WriteRecord(p) ==
    /\ pc[p] = "write"
    /\ \/ Full(head[p].sequence) /\ Fail(p) /\ UNCHANGED <<file, torn, faults>>
       \/ /\ ~Full(head[p].sequence)
          /\ file' = Append(file, NewRecord(p))
          /\ pc' = [pc EXCEPT ![p] = "checkpoint"]
          /\ UNCHANGED <<torn, op, lock, trusted, result, faults>>
       \/ /\ ~Full(head[p].sequence)
          /\ Fault /\ Fail(p)
          /\ \/ torn' \in {torn, TRUE} /\ UNCHANGED file
             \/ file' = Append(file, NewRecord(p)) /\ UNCHANGED torn
    /\ UNCHANGED <<checkpoint, head>>

\* The checkpoint now names record n; the lock is released, which may fail too.
CheckpointWritten(p, n) ==
    /\ checkpoint' = n
    /\ \/ /\ trusted' = [trusted EXCEPT ![p] = n]
          /\ IF pc[p] \in {"sync", "resync"} THEN Proceed(p, n) ELSE Return(p) /\ UNCHANGED head
          /\ UNCHANGED faults
       \/ Fault /\ Fail(p) /\ UNCHANGED head

\* The sequence number that the checkpoint about to be written names.
NextCheckpoint(p) == IF pc[p] = "sync" THEN Len(file) ELSE head[p].sequence + 1

\* _writeCheckpointUnlocked: a temporary file is renamed over the old one; where
\* that fails, the old one is deleted first.
WriteCheckpoint(p) ==
    LET n == NextCheckpoint(p) IN
    /\ pc[p] \in {"sync", "checkpoint"}
    /\ \/ n = Len(file) /\ CheckpointWritten(p, n)
       \/ n # Len(file) /\ Fail(p) /\ UNCHANGED <<checkpoint, head, faults>>
       \/ Fault /\ Fail(p) /\ UNCHANGED <<checkpoint, head>>
       \/ /\ n = Len(file) /\ Fault
          /\ checkpoint' = Missing
          /\ pc' = [pc EXCEPT ![p] = IF @ = "sync" THEN "resync" ELSE "replace"]
          /\ UNCHANGED <<op, lock, head, trusted, result>>
    /\ UNCHANGED <<file, torn>>

\* The second rename.
ReplaceCheckpoint(p) ==
    /\ pc[p] \in {"resync", "replace"}
    /\ \/ CheckpointWritten(p, Len(file))
       \/ Fault /\ Fail(p) /\ UNCHANGED <<checkpoint, head>>
    /\ UNCHANGED <<file, torn>>

\* A process dies, in the middle of whatever it writes, and starts again.
Death(p) ==
    /\ Fault
    /\ IF pc[p] = "idle"
       THEN /\ trusted' = [trusted EXCEPT ![p] = Missing]
            /\ UNCHANGED <<file, torn, checkpoint, lock, pc, op, result>>
       ELSE /\ Fail(p)
            /\ \/ UNCHANGED <<file, torn, checkpoint>>
               \/ /\ pc[p] = "write" /\ ~Full(head[p].sequence)
                  /\ \/ torn' = TRUE /\ UNCHANGED file
                     \/ file' = Append(file, NewRecord(p)) /\ UNCHANGED torn
                  /\ UNCHANGED checkpoint
               \/ /\ pc[p] \in {"sync", "checkpoint"}
                  /\ checkpoint' = NextCheckpoint(p)
                  /\ UNCHANGED <<file, torn>>
    /\ UNCHANGED head

JournalNext ==
    \E p \in Processes :
        \/ \E e \in Entries \cup {NoEntry} : Start(p, e)
        \/ FastHead(p) \/ FullVerification(p)
        \/ WriteRecord(p) \/ WriteCheckpoint(p) \/ ReplaceCheckpoint(p)
        \/ Death(p)

JournalSpec == JournalInit /\ [][JournalNext]_journalVars

-----------------------------------------------------------------------------
(* Properties                                                              *)

\* The journal keeps the contract of an append-only durable log: an append that
\* returned is on disk for good, and nothing is removed or reordered.
Contract ==
    INSTANCE DurableLog WITH
        log <- [i \in DOMAIN file |-> file[i].entry]

ImplementsDurableLog == Contract!LogSpec

\* Concurrent writers, faults and deaths leave a journal that verifies: whoever
\* took the bounded path the chain of records is not forked and within capacity,
\* except for the two kinds of damage that fail closed: a torn final record and
\* a checkpoint deleted by the fallback of its replacement.
Recoverable == ~torn /\ (checkpoint # Missing \/ file = <<>>) => Verifies

=============================================================================
