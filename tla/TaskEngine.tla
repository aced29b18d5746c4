----------------------------- MODULE TaskEngine -----------------------------
(***************************************************************************)
(* lib/runtime/task_engine.dart: durable task state, one journal entry per *)
(* creation and per transition, rebuilt by replaying the journal.          *)
(*                                                                         *)
(* createTask and transition read the task maps, await the append and then *)
(* write the maps, with nothing that keeps another call from doing the     *)
(* same in between.  Callers are the concurrent calls.                     *)
(***************************************************************************)
EXTENDS Naturals, SequencesExt

CONSTANTS
    Callers,      \* concurrent callers of the engine
    Tasks,        \* task identifiers
    Keys,         \* idempotency keys
    NoTask,       \* absent from a map
    MaxEntries,   \* bound on the journal
    Outcomes,     \* how appends may end: "ok", "lost" (threw, not on disk),
                  \* "late" (threw after the entry was flushed)
    MaxLostAppends,    \* bound on failing appends
    MaxRestarts   \* bound on process deaths

VARIABLES
    tasks,        \* _tasks: the state of each task
    idempotency,  \* _idempotency, with _creationFingerprints: the fingerprint
                  \* of a creation is that of the task it names
    call,         \* per caller, the append it awaits
    up,           \* the process runs and recover() has succeeded
    journal, lostAppends, restarts

vars == <<tasks, idempotency, call, up, journal, lostAppends, restarts>>

ASSUME TaskAssumption ==
    /\ MaxEntries \in Nat /\ MaxLostAppends \in Nat /\ MaxRestarts \in Nat /\ NoTask \notin Tasks
    /\ Outcomes \subseteq {"ok", "lost", "late"}

TaskState == {"created", "validating", "waitingForContext", "waitingForApproval",
              "running", "waitingForExternal", "reconciling", "succeeded", "failed",
              "cancelled", "degraded"}

\* _allowedTransitions
AllowedTransitions ==
    [s \in TaskState |->
       CASE s = "created" -> {"validating", "cancelled", "failed"}
         [] s = "validating" -> {"waitingForContext", "waitingForApproval", "running",
                                 "cancelled", "failed"}
         [] s = "waitingForContext" -> {"validating", "cancelled", "failed"}
         [] s = "waitingForApproval" -> {"running", "cancelled", "failed"}
         [] s = "running" -> {"waitingForExternal", "reconciling", "succeeded", "failed",
                              "cancelled", "degraded"}
         [] s = "waitingForExternal" -> {"running", "reconciling", "failed", "cancelled",
                                         "degraded"}
         [] s = "reconciling" -> {"running", "succeeded", "failed", "cancelled", "degraded"}
         [] s = "degraded" -> {"reconciling", "failed", "cancelled"}
         [] OTHER -> {}]

Idle == [pc |-> "idle"]
Creation == [pc : {"create"}, task : Tasks, key : Keys]
Move == [pc : {"move"}, task : Tasks, from : TaskState, to : TaskState]

\* Types: what the Dart maps hold, with keys and task identifiers kept apart.
TypeOK ==
    /\ tasks \in [Tasks -> TaskState \cup {NoTask}]
    /\ idempotency \in [Keys -> Tasks \cup {NoTask}]
    /\ call \in [Callers -> {Idle} \cup Creation \cup Move]
    /\ up \in BOOLEAN
    /\ journal \in Seq(Creation \cup Move)
    /\ lostAppends \in 0..MaxLostAppends /\ restarts \in 0..MaxRestarts

Init ==
    /\ tasks = [t \in Tasks |-> NoTask]
    /\ idempotency = [k \in Keys |-> NoTask]
    /\ call = [p \in Callers |-> Idle]
    /\ up = TRUE
    /\ journal = <<>>
    /\ lostAppends = 0 /\ restarts = 0

-----------------------------------------------------------------------------
\* createTask up to its append.  A known key returns its task or throws and
\* changes nothing; so does a known task identifier.
Create(p, t, k) ==
    /\ up /\ call[p] = Idle /\ Len(journal) < MaxEntries
    /\ idempotency[k] = NoTask
    /\ tasks[t] = NoTask
    /\ call' = [call EXCEPT ![p] = [pc |-> "create", task |-> t, key |-> k]]
    /\ UNCHANGED <<tasks, idempotency, up, journal, lostAppends, restarts>>

\* transition, and cancel, up to the append.
Transition(p, t, next) ==
    /\ up /\ call[p] = Idle /\ Len(journal) < MaxEntries
    /\ tasks[t] # NoTask
    /\ next \in AllowedTransitions[tasks[t]]
    /\ call' = [call EXCEPT ![p] = [pc |-> "move", task |-> t, from |-> tasks[t], to |-> next]]
    /\ UNCHANGED <<tasks, idempotency, up, journal, lostAppends, restarts>>

\* The maps after an acknowledged append of e.
Apply(e) ==
    /\ tasks' = [tasks EXCEPT ![e.task] = IF e.pc = "create" THEN "created" ELSE e.to]
    /\ idempotency' = IF e.pc = "create" THEN [idempotency EXCEPT ![e.key] = e.task]
                      ELSE idempotency

\* An append that throws counts as a fault; unless lost, its entry is on disk.
AppendEnds(e, o) ==
    /\ o = "ok" \/ lostAppends < MaxLostAppends
    /\ lostAppends' = IF o = "ok" THEN lostAppends ELSE lostAppends + 1
    /\ journal' = IF o = "lost" THEN journal ELSE Append(journal, e)

\* The append completes; only an acknowledged one reaches the maps.
AppendReturns(p, o) ==
    /\ call[p] # Idle
    /\ AppendEnds(call[p], o)
    /\ IF o = "ok" THEN Apply(call[p]) ELSE UNCHANGED <<tasks, idempotency>>
    /\ call' = [call EXCEPT ![p] = Idle]
    /\ UNCHANGED <<up, restarts>>

-----------------------------------------------------------------------------
\* Faulty variant: idempotency keys are not restored.
ReplayWithoutKeys(st, e) ==
    [st EXCEPT !.tasks[e.task] = IF e.pc = "create" THEN "created" ELSE e.to]

\* recover(): entries are replayed in order and the first one that does not fit
\* makes it throw.
ReplayEntry(st, e) ==
    LET fits == IF e.pc = "create"
                THEN st.tasks[e.task] = NoTask /\ st.idempotency[e.key] = NoTask
                ELSE /\ st.tasks[e.task] = e.from
                     /\ e.to \in AllowedTransitions[e.from] IN
    IF ~st.ok \/ ~fits THEN [st EXCEPT !.ok = FALSE]
    ELSE IF e.pc = "create"
         THEN [st EXCEPT !.tasks[e.task] = "created", !.idempotency[e.key] = e.task]
         ELSE [st EXCEPT !.tasks[e.task] = e.to]

Replay(entries) ==
    LET after[i \in 0..Len(entries)] ==
            IF i = 0 THEN [ok |-> TRUE, tasks |-> [t \in Tasks |-> NoTask],
                           idempotency |-> [k \in Keys |-> NoTask]]
            ELSE ReplayEntry(after[i - 1], entries[i])
    IN  after[Len(entries)]

Crash ==
    /\ up /\ restarts < MaxRestarts
    /\ restarts' = restarts + 1
    /\ up' = FALSE
    /\ tasks' = [t \in Tasks |-> NoTask]
    /\ idempotency' = [k \in Keys |-> NoTask]
    /\ call' = [p \in Callers |-> Idle]
    /\ UNCHANGED <<journal, lostAppends>>

\* A throwing recover() leaves the engine unusable.
Recover ==
    /\ ~up
    /\ Replay(journal).ok
    /\ up' = TRUE
    /\ tasks' = Replay(journal).tasks
    /\ idempotency' = Replay(journal).idempotency
    /\ UNCHANGED <<call, journal, lostAppends, restarts>>

Next ==
    \/ \E p \in Callers, t \in Tasks, k \in Keys : Create(p, t, k)
    \/ \E p \in Callers, t \in Tasks, s \in TaskState : Transition(p, t, s)
    \/ \E p \in Callers, o \in Outcomes : AppendReturns(p, o)
    \/ Crash
    \/ Recover

Spec == Init /\ [][Next]_vars

-----------------------------------------------------------------------------
\* What keeps concurrent callers apart, which the engine leaves to them: no two
\* await appends about one task, or creations under one key.
Disjoint ==
    \A p, q \in Callers :
        p # q /\ call[p] # Idle /\ call[q] # Idle =>
            /\ call[p].task # call[q].task
            /\ call[p].pc = "create" /\ call[q].pc = "create" => call[p].key # call[q].key

\* The journal an engine writes is one that recover() accepts, so a restart
\* never finds its own history divergent.
ReplayAccepts == Replay(journal).ok

\* What a running engine answers from memory is what a restart would recover:
\* the journal replays to the end, to the same tasks under the same keys.
MemoryMatchesJournal ==
    up => Replay(journal) = [ok |-> TRUE, tasks |-> tasks, idempotency |-> idempotency]

=============================================================================
