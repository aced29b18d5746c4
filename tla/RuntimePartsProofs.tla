------------------------- MODULE RuntimePartsProofs -------------------------
(***************************************************************************)
(* Proofs about TaskEngine, AuditJournal and AssistantSession, which share *)
(* no state and no lemma.                                                  *)
(*                                                                         *)
(* TaskEngine, for any callers, tasks, keys and bounds: what a running     *)
(* engine answers from memory is what a restart would recover, as long as  *)
(* its callers keep apart and an append that throws leaves nothing behind. *)
(*                                                                         *)
(* AuditJournal, for every set of processes and entries, any capacity and  *)
(* any number of faults: what is left behind verifies, and the journal     *)
(* implements DurableLog.                                                  *)
(*                                                                         *)
(* AssistantSession, for any number of handlers, sessions and pages: no    *)
(* session is live but the last, none is left behind before its answer is  *)
(* shown, and what is completed after one answer was shown.                *)
(***************************************************************************)
EXTENDS TaskEngine, AuditJournal, AssistantSession, Iteration

-----------------------------------------------------------------------------
(* Task engine: replay, entry by entry                                     *)

Entry == Creation \cup Move
Recovered ==
    [ok : BOOLEAN, tasks : [Tasks -> TaskState \cup {NoTask}],
     idempotency : [Keys -> Tasks \cup {NoTask}]]
Blank ==
    [ok |-> TRUE, tasks |-> [t \in Tasks |-> NoTask], idempotency |-> [k \in Keys |-> NoTask]]

\* What recover() holds after each entry.
Course(f, entries) ==
    /\ f \in [0..Len(entries) -> Recovered]
    /\ f[0] = Blank
    /\ \A i \in 1..Len(entries) : f[i] = ReplayEntry(f[i - 1], entries[i])

LEMMA EntryTypes ==
    /\ \A e \in Entry : e.task \in Tasks
    /\ \A e \in Entry : e.pc = "create" => e.key \in Keys
    /\ \A e \in Entry : e.pc # "create" => e.pc = "move" /\ e.from \in TaskState /\ e.to \in TaskState
    /\ Idle \notin Entry
  BY DEF Entry, Creation, Move, Idle

LEMMA ReplayEntryTypes ==
    ASSUME NEW st \in Recovered, NEW e \in Entry
    PROVE  ReplayEntry(st, e) \in Recovered
  <1>1. e.task \in Tasks /\ (e.pc = "create" => e.key \in Keys) /\ (e.pc # "create" => e.to \in TaskState)
    BY EntryTypes
  <1>2. "created" \in TaskState
    BY DEF TaskState
  <1> QED BY <1>1, <1>2 DEF ReplayEntry, Recovered

LEMMA ReplayCourse ==
    ASSUME NEW entries \in Seq(Entry)
    PROVE  \E f : Course(f, entries) /\ Replay(entries) = f[Len(entries)]
  <1>1. Len(entries) \in Nat /\ \A i \in 1..Len(entries) : entries[i] \in Entry
    OBVIOUS
  <1>2. Blank \in Recovered
    BY DEF Blank, Recovered
  <1> DEFINE Body(f) == [i \in 0..Len(entries) |->
                           IF i = 0 THEN Blank ELSE ReplayEntry(f[i - 1], entries[i])]
  <1>3. PICK step \in [1..Len(entries) -> [Recovered -> Recovered]] :
               step = [i \in 1..Len(entries) |->
                         [st \in Recovered |-> ReplayEntry(st, entries[i])]]
    BY <1>1, ReplayEntryTypes
  <1>4. PICK f : Run(f, Recovered, Len(entries), Blank, step)
    BY <1>1, <1>2, Iterate
  <1>5. ASSUME NEW i \in 1..Len(entries) PROVE f[i] = ReplayEntry(f[i - 1], entries[i])
    <2>1. f[i - 1] \in Recovered
      BY <1>1, <1>4 DEF Run
    <2>2. f[i] = step[i][f[i - 1]]
      BY <1>4 DEF Run
    <2> QED BY <1>3, <2>1, <2>2, Zenon
  <1>6. f = Body(f)
    BY <1>1, <1>4, <1>5 DEF Run
  <1> DEFINE after == CHOOSE g : g = Body(g)
  <1>7. after = Body(after)
    <2> HIDE DEF Body
    <2> QED BY <1>6, Zenon
  <1>8. Replay(entries) = after[Len(entries)]
    BY DEF Replay, Blank
  <1> HIDE DEF after
  <1>9. \A i \in 0..Len(entries) : after[i] = f[i]
    <2> DEFINE A == {i \in 0..Len(entries) : after[i] = f[i]}
    <2>1. 0 \in A
      BY <1>1, <1>4, <1>7 DEF Run
    <2>2. ASSUME NEW i \in 0..Len(entries), i \in A, i < Len(entries) PROVE i + 1 \in A
      <3>1. after[i + 1] = ReplayEntry(after[i], entries[i + 1])
        BY <1>1, <1>7, <2>2
      <3>2. f[i + 1] = ReplayEntry(f[i], entries[i + 1])
        BY <1>1, <1>5, <2>2
      <3> QED BY <1>1, <2>2, <3>1, <3>2
    <2>3. \A i \in 0..Len(entries) : i \in A
      <3> HIDE DEF A
      <3> QED BY <1>1, <2>1, <2>2, BoundedInduction
    <2> QED BY <2>3
  <1> QED BY <1>1, <1>4, <1>5, <1>8, <1>9 DEF Course, Run

LEMMA CoursesAgree ==
    ASSUME NEW entries \in Seq(Entry), NEW more \in Seq(Entry), NEW f, NEW g,
           Course(f, entries), Course(g, more), Len(entries) <= Len(more),
           \A i \in 1..Len(entries) : more[i] = entries[i]
    PROVE  \A i \in 0..Len(entries) : g[i] = f[i]
  <1>1. Len(entries) \in Nat /\ Len(more) \in Nat
    OBVIOUS
  <1> DEFINE A == {i \in 0..Len(entries) : g[i] = f[i]}
  <1>2. 0 \in A
    BY <1>1 DEF Course
  <1>3. ASSUME NEW i \in 0..Len(entries), i \in A, i < Len(entries) PROVE i + 1 \in A
    <2>1. i + 1 \in 1..Len(entries) /\ i + 1 \in 1..Len(more) /\ i + 1 - 1 = i
      BY <1>1, <1>3
    <2>2. f[i + 1] = ReplayEntry(f[i], entries[i + 1]) /\ g[i + 1] = ReplayEntry(g[i], more[i + 1])
      BY <2>1 DEF Course
    <2> QED BY <1>3, <2>1, <2>2
  <1>4. \A i \in 0..Len(entries) : i \in A
    <2> HIDE DEF A
    <2> QED BY <1>1, <1>2, <1>3, BoundedInduction
  <1> QED BY <1>4

\* What a restart recovers after one more entry.
LEMMA ReplayOfAppend ==
    ASSUME NEW entries \in Seq(Entry), NEW e \in Entry
    PROVE  Replay(Append(entries, e)) = ReplayEntry(Replay(entries), e)
  <1>1. PICK more : more = Append(entries, e)
    OBVIOUS
  <1>2. /\ more \in Seq(Entry) /\ Len(entries) \in Nat /\ Len(more) = Len(entries) + 1
        /\ \A i \in 1..Len(entries) : more[i] = entries[i]
        /\ more[Len(more)] = e
    BY <1>1
  <1>3. PICK f : Course(f, entries) /\ Replay(entries) = f[Len(entries)]
    BY ReplayCourse
  <1>4. PICK g : Course(g, more) /\ Replay(more) = g[Len(more)]
    BY <1>2, ReplayCourse
  <1>5. g[Len(more)] = ReplayEntry(g[Len(entries)], e)
    BY <1>2, <1>4 DEF Course
  <1>6. g[Len(entries)] = f[Len(entries)]
    BY <1>2, <1>3, <1>4, CoursesAgree
  <1> QED BY <1>1, <1>3, <1>4, <1>5, <1>6

LEMMA ReplayOfNothing == Replay(<<>>) = Blank
  <1>1. <<>> \in Seq(Entry) /\ Len(<<>>) = 0
    OBVIOUS
  <1>2. PICK f : Course(f, <<>>) /\ Replay(<<>>) = f[0]
    BY <1>1, ReplayCourse
  <1> QED BY <1>2 DEF Course

LEMMA ReplayTypes ==
    ASSUME NEW entries \in Seq(Entry)
    PROVE  Replay(entries) \in Recovered
  <1>1. PICK f : Course(f, entries) /\ Replay(entries) = f[Len(entries)]
    BY ReplayCourse
  <1> QED BY <1>1 DEF Course

-----------------------------------------------------------------------------
(* Task engine: the inductive invariant                                    *)

\* A call that awaits its append still has the ground it was admitted on.
Grounded(p) ==
    LET c == call[p] IN
    /\ c.pc = "create" => tasks[c.task] = NoTask /\ idempotency[c.key] = NoTask
    /\ c.pc = "move" => tasks[c.task] = c.from /\ c.to \in AllowedTransitions[c.from]

\* The journal replays, to what a running engine holds; an engine that is down
\* awaits nothing.
TaskInvariant ==
    /\ TypeOK
    /\ Replay(journal).ok
    /\ MemoryMatchesJournal
    /\ ~up => \A p \in Callers : call[p] = Idle
    /\ \A p \in Callers : Grounded(p)

LEMMA InitSound == Init => TaskInvariant
  <1> SUFFICES ASSUME Init PROVE TaskInvariant
    OBVIOUS
  <1>1. TypeOK
    BY TaskAssumption DEF Init, TypeOK
  <1>2. Replay(journal) = [ok |-> TRUE, tasks |-> tasks, idempotency |-> idempotency]
    BY ReplayOfNothing DEF Init, Blank
  <1>3. \A p \in Callers : Grounded(p)
    BY DEF Init, Grounded, Idle
  <1> QED BY <1>1, <1>2, <1>3 DEF TaskInvariant, MemoryMatchesJournal, Init

\* A call is admitted.
LEMMA AdmissionKeeps ==
    ASSUME TaskInvariant, NEW p \in Callers, NEW c \in Entry,
           up, call' = [call EXCEPT ![p] = c],
           UNCHANGED <<tasks, idempotency, up, journal, lostAppends, restarts>>,
           c.pc = "create" => tasks[c.task] = NoTask /\ idempotency[c.key] = NoTask,
           c.pc = "move" => tasks[c.task] = c.from /\ c.to \in AllowedTransitions[c.from]
    PROVE  TaskInvariant'
  <1>1. call' \in [Callers -> {Idle} \cup Creation \cup Move]
    BY DEF TaskInvariant, TypeOK, Entry
  <1>2. call'[p] = c /\ \A q \in Callers \ {p} : call'[q] = call[q]
    BY DEF TaskInvariant, TypeOK
  <1>3. TypeOK'
    BY <1>1 DEF TaskInvariant, TypeOK
  <1>4. Replay(journal)' = Replay(journal) /\ MemoryMatchesJournal'
    BY DEF TaskInvariant, MemoryMatchesJournal
  <1>5. \A q \in Callers : Grounded(q)'
    BY <1>2 DEF TaskInvariant, Grounded
  <1> QED BY <1>3, <1>4, <1>5 DEF TaskInvariant

\* An acknowledged append is applied to the maps as its replay would be.
LEMMA ApplyIsReplay ==
    ASSUME TaskInvariant, NEW p \in Callers, call[p] # Idle, Apply(call[p])
    PROVE  ReplayEntry([ok |-> TRUE, tasks |-> tasks, idempotency |-> idempotency], call[p])
             = [ok |-> TRUE, tasks |-> tasks', idempotency |-> idempotency']
  <1>1. PICK e \in Entry : e = call[p]
    BY DEF TaskInvariant, TypeOK, Entry
  <1>2. Grounded(p)
    BY DEF TaskInvariant
  <1>3. CASE e.pc = "create"
    BY <1>1, <1>2, <1>3, EntryTypes DEF Grounded, Apply, ReplayEntry
  <1>4. CASE e.pc # "create"
    BY <1>1, <1>2, <1>4, EntryTypes DEF Grounded, Apply, ReplayEntry
  <1> QED BY <1>3, <1>4

LEMMA AppendKeeps ==
    ASSUME TaskInvariant, Disjoint, "late" \notin Outcomes,
           NEW p \in Callers, NEW o \in Outcomes, AppendReturns(p, o)
    PROVE  TaskInvariant'
  <1>1. PICK e \in Entry : e = call[p]
    BY DEF TaskInvariant, TypeOK, Entry, AppendReturns
  <1>2. o \in {"ok", "lost"}
    BY TaskAssumption
  <1>3. /\ call[p] # Idle /\ up /\ up' = up /\ restarts' = restarts
        /\ call' = [call EXCEPT ![p] = Idle]
    BY DEF AppendReturns, TaskInvariant
  <1>4. call' \in [Callers -> {Idle} \cup Creation \cup Move]
    BY <1>3 DEF TaskInvariant, TypeOK
  <1>5. lostAppends' \in 0..MaxLostAppends
    BY <1>2, TaskAssumption DEF AppendReturns, AppendEnds, TaskInvariant, TypeOK
  <1>6. call'[p] = Idle /\ \A q \in Callers \ {p} : call'[q] = call[q]
    BY <1>3 DEF TaskInvariant, TypeOK
  <1>7. CASE o = "lost"
    <2>1. UNCHANGED <<tasks, idempotency, journal>>
      BY <1>7 DEF AppendReturns, AppendEnds
    <2>2. TypeOK'
      BY <1>3, <1>4, <1>5, <2>1 DEF TaskInvariant, TypeOK
    <2>3. \A q \in Callers : Grounded(q)'
      BY <1>6, <2>1 DEF TaskInvariant, Grounded, Idle
    <2> QED BY <1>3, <2>1, <2>2, <2>3 DEF TaskInvariant, MemoryMatchesJournal
  <1>8. CASE o = "ok"
    <2>1. Apply(e) /\ journal' = Append(journal, e)
      BY <1>1, <1>8 DEF AppendReturns, AppendEnds
    <2>2. journal \in Seq(Entry) /\ journal' \in Seq(Entry)
      BY <1>1, <2>1 DEF TaskInvariant, TypeOK, Entry
    <2>3. Replay(journal)' = [ok |-> TRUE, tasks |-> tasks', idempotency |-> idempotency']
      <3>1. Replay(journal)' = ReplayEntry(Replay(journal), e)
        BY <2>1, <2>2, ReplayOfAppend
      <3>2. Replay(journal) = [ok |-> TRUE, tasks |-> tasks, idempotency |-> idempotency]
        BY <1>3 DEF TaskInvariant, MemoryMatchesJournal
      <3> QED BY <1>1, <1>3, <2>1, <3>1, <3>2, ApplyIsReplay
    <2>4. Replay(journal)' \in Recovered
      BY <2>2, ReplayTypes
    <2>5. TypeOK'
      BY <1>3, <1>4, <1>5, <2>2, <2>3, <2>4 DEF TaskInvariant, TypeOK, Recovered, Entry
    <2>6. ASSUME NEW q \in Callers \ {p} PROVE Grounded(q)'
      <3>1. CASE call[q] = Idle
        BY <1>6, <3>1 DEF Grounded, Idle
      <3>2. CASE call[q] # Idle
        <4>1. PICK c \in Entry : c = call[q] /\ c = call'[q]
          BY <1>6, <3>2 DEF TaskInvariant, TypeOK, Entry
        <4>2. /\ c.task # e.task
              /\ c.pc = "create" /\ e.pc = "create" => c.key # e.key
          BY <1>1, <1>3, <3>2, <4>1 DEF Disjoint
        <4>3. tasks'[c.task] = tasks[c.task]
          BY <2>1, <4>2, EntryTypes DEF Apply, TaskInvariant, TypeOK
        <4>4. c.pc = "create" => idempotency'[c.key] = idempotency[c.key]
          BY <2>1, <4>2, EntryTypes DEF Apply, TaskInvariant, TypeOK
        <4>5. Grounded(q)
          BY DEF TaskInvariant
        <4> QED BY <4>1, <4>3, <4>4, <4>5 DEF Grounded
      <3> QED BY <3>1, <3>2
    <2>7. Grounded(p)'
      BY <1>6 DEF Grounded, Idle
    <2> QED BY <1>3, <2>3, <2>5, <2>6, <2>7 DEF TaskInvariant, MemoryMatchesJournal
  <1> QED BY <1>2, <1>7, <1>8

LEMMA CrashKeeps ==
    ASSUME TaskInvariant, Crash
    PROVE  TaskInvariant'
  <1>1. TypeOK'
    <2>1. restarts' \in 0..MaxRestarts
      BY TaskAssumption DEF Crash, TaskInvariant, TypeOK
    <2> QED BY <2>1 DEF Crash, TaskInvariant, TypeOK
  <1>2. \A p \in Callers : Grounded(p)'
    BY DEF Crash, Grounded, Idle
  <1> QED BY <1>1, <1>2 DEF Crash, TaskInvariant, MemoryMatchesJournal

LEMMA RecoverKeeps ==
    ASSUME TaskInvariant, Recover
    PROVE  TaskInvariant'
  <1>1. journal \in Seq(Entry)
    BY DEF TaskInvariant, TypeOK, Entry
  <1>2. Replay(journal) \in Recovered
    BY <1>1, ReplayTypes
  <1>3. TypeOK'
    BY <1>2 DEF Recover, TaskInvariant, TypeOK, Recovered
  <1>4. Replay(journal) = [ok |-> TRUE, tasks |-> tasks', idempotency |-> idempotency']
    BY <1>2 DEF Recover, Recovered
  <1>5. \A p \in Callers : Grounded(p)'
    BY DEF Recover, TaskInvariant, Grounded, Idle
  <1> QED BY <1>3, <1>4, <1>5 DEF Recover, TaskInvariant, MemoryMatchesJournal

LEMMA TaskStep ==
    ASSUME TaskInvariant, Disjoint, "late" \notin Outcomes, [Next]_vars
    PROVE  TaskInvariant'
  <1>1. ASSUME NEW p \in Callers, NEW t \in Tasks, NEW k \in Keys, Create(p, t, k)
        PROVE  TaskInvariant'
    <2>1. PICK c \in Entry : c = [pc |-> "create", task |-> t, key |-> k]
      BY DEF Entry, Creation
    <2> QED BY <1>1, <2>1, AdmissionKeeps DEF Create
  <1>2. ASSUME NEW p \in Callers, NEW t \in Tasks, NEW s \in TaskState, Transition(p, t, s)
        PROVE  TaskInvariant'
    <2>1. tasks[t] \in TaskState
      BY <1>2 DEF Transition, TaskInvariant, TypeOK
    <2>2. PICK c \in Entry : c = [pc |-> "move", task |-> t, from |-> tasks[t], to |-> s]
      BY <2>1 DEF Entry, Move
    <2> QED BY <1>2, <2>2, AdmissionKeeps DEF Transition
  <1>3. CASE UNCHANGED vars
    BY <1>3 DEF vars, TaskInvariant, TypeOK, MemoryMatchesJournal, Grounded
  <1> QED BY <1>1, <1>2, <1>3, AppendKeeps, CrashKeeps, RecoverKeeps DEF Next

-----------------------------------------------------------------------------
(* Task engine: the theorems                                               *)

\* As long as appends that throw leave nothing behind and callers keep apart,
\* the engine answers from memory exactly what a restart would recover.
THEOREM MemoryIsTheJournal ==
    ASSUME "late" \notin Outcomes
    PROVE  Spec /\ []Disjoint => []MemoryMatchesJournal
  <1>1. TaskInvariant /\ Disjoint /\ [Next]_vars => TaskInvariant'
    BY TaskStep
  <1>2. TaskInvariant => MemoryMatchesJournal
    BY DEF TaskInvariant
  <1> QED BY <1>1, <1>2, InitSound, PTL DEF Spec

\* Under the same discipline no restart finds its own history divergent.
THEOREM RestartSucceeds ==
    ASSUME "late" \notin Outcomes
    PROVE  Spec /\ []Disjoint => []ReplayAccepts
  <1>1. TaskInvariant /\ Disjoint /\ [Next]_vars => TaskInvariant'
    BY TaskStep
  <1>2. TaskInvariant => ReplayAccepts
    BY DEF TaskInvariant, ReplayAccepts
  <1> QED BY <1>1, <1>2, InitSound, PTL DEF Spec

\* Callers one at a time keep apart.
THEOREM OneCallerSuffices ==
    ASSUME "late" \notin Outcomes, \A p, q \in Callers : p = q
    PROVE  Spec => []MemoryMatchesJournal
  <1>1. Disjoint
    BY DEF Disjoint
  <1>2. TaskInvariant /\ [Next]_vars => TaskInvariant'
    BY <1>1, TaskStep
  <1>3. TaskInvariant => MemoryMatchesJournal
    BY DEF TaskInvariant
  <1> QED BY <1>2, <1>3, InitSound, PTL DEF Spec

-----------------------------------------------------------------------------
(* Journal: the inductive invariant                                        *)

Logged(e) == \E i \in DOMAIN file : file[i].entry = e

\* What is on disk is one chain within capacity, and the checkpoint is not
\* ahead of it; what is logged was begun.
Sound ==
    /\ Chained
    /\ Len(file) <= maximumRecordCount
    /\ checkpoint # Missing => checkpoint <= Len(file)
    /\ \A e \in Entries : Logged(e) => result[e] # "none"

\* What the holder of the lock relies on without looking again.
Holder(p) ==
    /\ op[p] # NoEntry => pc[p] # "idle" /\ result[op[p]] = "pending"
    /\ pc[p] \in {"sync", "resync", "write", "checkpoint", "replace"} => ~torn
    /\ pc[p] = "write" =>
          /\ op[p] # NoEntry
          /\ checkpoint = Len(file)
          /\ head[p].sequence = Len(file) /\ head[p].entry = EntryAt(Len(file))
    /\ pc[p] \in {"checkpoint", "replace"} =>
          op[p] # NoEntry /\ Logged(op[p]) /\ head[p].sequence + 1 = Len(file)
    /\ pc[p] \in {"head", "sync", "resync", "write"} => ~Logged(op[p])

JournalInvariant == JournalTypeOK /\ Sound /\ \A p \in Processes : Holder(p)

\* No record holds NoEntry.
LEMMA RecordsNameEntries ==
    ASSUME JournalTypeOK
    PROVE  /\ ~Logged(NoEntry)
           /\ Len(file) \in Nat /\ DOMAIN file = 1..Len(file)
           /\ \A i \in DOMAIN file : file[i] \in Record /\ file[i].entry \in Entries
           /\ \A n \in Nat : n <= Len(file) => EntryAt(n) \in Entries \cup {NoEntry}
  <1>1. file \in Seq(Record)
    BY DEF JournalTypeOK
  <1>2. Len(file) \in Nat /\ DOMAIN file = 1..Len(file)
    BY <1>1
  <1>3. \A i \in DOMAIN file : file[i] \in Record /\ file[i].entry \in Entries
    <2>1. \A i \in DOMAIN file : file[i] \in Record
      BY <1>1
    <2>2. \A r \in Record : r.entry \in Entries
      BY DEF Record
    <2> QED BY <2>1, <2>2
  <1>4. ~Logged(NoEntry)
    BY <1>3, JournalAssumption DEF Logged
  <1>5. ASSUME NEW n \in Nat, n <= Len(file) PROVE EntryAt(n) \in Entries \cup {NoEntry}
    <2>1. CASE n = 0
      BY <2>1 DEF EntryAt
    <2>2. CASE n # 0
      <3>1. n \in DOMAIN file
        BY <1>2, <1>5, <2>2
      <3> QED BY <1>3, <2>2, <3>1 DEF EntryAt
    <2> QED BY <2>1, <2>2
  <1> QED BY <1>2, <1>3, <1>4, <1>5

\* While one process works on the journal the others are outside.
LEMMA OthersAreIdle ==
    ASSUME JournalInvariant, NEW p \in Processes, lock = p \/ lock = NoProcess
    PROVE  \A q \in Processes \ {p} : pc[q] = "idle" /\ op[q] = NoEntry
  BY JournalAssumption DEF JournalInvariant, JournalTypeOK, Holder

\* An idle process that a step leaves alone has nothing to rely on.
LEMMA OthersKeep ==
    ASSUME JournalInvariant, NEW p \in Processes, lock = p \/ lock = NoProcess,
           \A q \in Processes \ {p} : pc'[q] = pc[q] /\ op'[q] = op[q],
           file' \in Seq(Record)
    PROVE  \A q \in Processes \ {p} : Holder(q)'
  BY OthersAreIdle DEF Holder

\* The write of the record that continues from the head.
LEMMA WriteGrows ==
    ASSUME JournalInvariant, NEW p \in Processes, pc[p] = "write",
           ~Full(head[p].sequence), file' = Append(file, NewRecord(p))
    PROVE  /\ file' \in Seq(Record) /\ Chained'
           /\ Len(file') = Len(file) + 1 /\ Len(file') <= maximumRecordCount
           /\ \A e : Logged(e)' <=> Logged(e) \/ e = op[p]
           /\ [i \in DOMAIN file |-> file[i].entry]' =
                Append([i \in DOMAIN file |-> file[i].entry], op[p])
  <1>1. /\ Len(file) \in Nat /\ DOMAIN file = 1..Len(file) /\ file \in Seq(Record)
        /\ EntryAt(Len(file)) \in Entries \cup {NoEntry}
    BY RecordsNameEntries DEF JournalInvariant, JournalTypeOK
  <1>2. PICK r : r = NewRecord(p)
    OBVIOUS
  <1>3. /\ r.entry = op[p] /\ r.sequence = Len(file) + 1 /\ r.previous = EntryAt(Len(file))
        /\ r \in Record /\ Len(file) < maximumRecordCount
    <2>1. /\ op[p] \in Entries /\ head[p].sequence = Len(file)
          /\ head[p].entry = EntryAt(Len(file))
      BY DEF JournalInvariant, JournalTypeOK, Holder
    <2>2. r = [entry |-> op[p], sequence |-> Len(file) + 1, previous |-> EntryAt(Len(file))]
      BY <1>2, <2>1 DEF NewRecord
    <2>3. r \in Record
      BY <1>1, <2>1, <2>2 DEF Record
    <2> QED BY <1>1, <2>1, <2>2, <2>3, JournalAssumption DEF Full
  <1>4. /\ file' \in Seq(Record) /\ Len(file') = Len(file) + 1
        /\ DOMAIN file' = 1..(Len(file) + 1)
        /\ file'[Len(file) + 1] = r
        /\ \A i \in 1..Len(file) : file'[i] = file[i]
    BY <1>1, <1>2, <1>3
  <1>5. \A i \in DOMAIN file' : i \in 1..Len(file) \/ i = Len(file) + 1
    BY <1>1, <1>4
  <1>6. \A n \in Nat : n <= Len(file) => EntryAt(n)' = EntryAt(n)
    BY <1>1, <1>4 DEF EntryAt
  <1>7. Chained'
    <2> SUFFICES ASSUME NEW i \in DOMAIN file'
                 PROVE  file'[i].sequence = i /\ file'[i].previous = EntryAt(i - 1)'
      BY DEF Chained
    <2>1. CASE i \in 1..Len(file)
      <3>1. i - 1 \in Nat /\ i - 1 <= Len(file)
        BY <1>1, <2>1
      <3>2. file[i].sequence = i /\ file[i].previous = EntryAt(i - 1)
        BY <1>1, <2>1 DEF JournalInvariant, Sound, Chained
      <3> QED BY <1>4, <1>6, <2>1, <3>1, <3>2
    <2>2. CASE i = Len(file) + 1
      <3>1. i - 1 = Len(file)
        BY <1>1, <2>2
      <3> QED BY <1>1, <1>3, <1>4, <1>6, <2>2, <3>1
    <2> QED BY <1>5, <2>1, <2>2
  <1>8. Len(file') <= maximumRecordCount
    BY <1>1, <1>3, <1>4, JournalAssumption
  <1>9. ASSUME NEW e PROVE Logged(e)' <=> Logged(e) \/ e = op[p]
    <2>1. Logged(e)' => Logged(e) \/ e = op[p]
      BY <1>1, <1>3, <1>4, <1>5 DEF Logged
    <2>2. Logged(e) => Logged(e)'
      BY <1>1, <1>4 DEF Logged
    <2>3. e = op[p] => Logged(e)'
      BY <1>1, <1>3, <1>4 DEF Logged
    <2> QED BY <2>1, <2>2, <2>3
  <1>10. [i \in DOMAIN file' |-> file'[i].entry] =
           Append([i \in DOMAIN file |-> file[i].entry], op[p])
    <2>1. PICK log : log = [i \in DOMAIN file |-> file[i].entry]
      OBVIOUS
    <2>2. log = [i \in 1..Len(file) |-> file[i].entry] /\ log \in Seq(Entries) /\ Len(log) = Len(file)
      BY <1>1, <2>1, RecordsNameEntries DEF JournalInvariant
    <2>3. op[p] \in Entries
      BY DEF JournalInvariant, JournalTypeOK, Holder
    <2>4. PICK more : more = Append(log, op[p])
      OBVIOUS
    <2>5. /\ more \in Seq(Entries) /\ Len(more) = Len(file) + 1
          /\ \A i \in 1..Len(file) : more[i] = file[i].entry
          /\ more[Len(file) + 1] = op[p]
      BY <1>1, <2>2, <2>3, <2>4
    <2>6. more = [i \in 1..(Len(file) + 1) |-> more[i]]
      BY <2>5
    <2>7. \A i \in 1..(Len(file) + 1) : more[i] = file'[i].entry
      BY <1>3, <1>4, <1>5, <2>5
    <2> QED BY <1>4, <2>1, <2>4, <2>6, <2>7
  <1> QED BY <1>4, <1>7, <1>8, <1>9, <1>10

-----------------------------------------------------------------------------
(* Journal: steps of the log                                               *)

Log == [i \in DOMAIN file |-> file[i].entry]

\* A step of the journal as one of DurableLog's, or none.
LogStep ==
    \/ Log' = Log /\ result' = result
    \/ \E e \in Entries :
         \/ /\ result[e] = "none" /\ result' = [result EXCEPT ![e] = "pending"]
            /\ Log' = Log
         \/ /\ result[e] = "pending" /\ ~Logged(e)
            /\ Log' = Append(Log, e) /\ result' = result
         \/ /\ result[e] = "pending" /\ Logged(e)
            /\ result' = [result EXCEPT ![e] = "ok"] /\ Log' = Log
         \/ /\ result[e] = "pending" /\ result' = [result EXCEPT ![e] = "threw"]
            /\ Log' = Log \/ (~Logged(e) /\ Log' = Append(Log, e))

LEMMA LogStepIsContractStep ==
    ASSUME LogStep
    PROVE  [Contract!LogNext]_<<Log, result>>
  <1>1. \A e : Contract!Unlogged(e) <=> ~Logged(e)
    BY DEF Contract!Unlogged, Logged
  <1> QED
    BY <1>1 DEF LogStep, Log, Contract!LogNext, Contract!Begin, Contract!Commit,
                Contract!Acknowledge, Contract!Throw

\* Where a step may leave the checkpoint.
Anchored == checkpoint' = Missing \/ (checkpoint' \in Nat /\ checkpoint' <= Len(file'))

LEMMA SameAnchor ==
    ASSUME JournalInvariant, checkpoint' = checkpoint,
           Len(file') = Len(file) \/ Len(file') = Len(file) + 1
    PROVE  Anchored
  <1>1. Len(file) \in Nat /\ (checkpoint # Missing => checkpoint \in Nat /\ checkpoint <= Len(file))
    BY RecordsNameEntries DEF JournalInvariant, JournalTypeOK, Sound
  <1> QED BY <1>1 DEF Anchored

\* An operation throws, having written its record or not.
LEMMA FailKeeps ==
    ASSUME JournalInvariant, NEW p \in Processes, pc[p] # "idle", Fail(p), Anchored,
           torn' \in BOOLEAN, faults' \in 0..MaxFaults, head' = head,
           \/ file' = file
           \/ pc[p] = "write" /\ ~Full(head[p].sequence) /\ file' = Append(file, NewRecord(p))
    PROVE  JournalInvariant' /\ LogStep
  <1>1. lock = p /\ (op[p] # NoEntry => op[p] \in Entries /\ result[op[p]] = "pending")
    BY DEF JournalInvariant, JournalTypeOK, Holder
  <1>2. /\ file' \in Seq(Record) /\ Chained' /\ Len(file') <= maximumRecordCount
        /\ \A e \in Entries : Logged(e)' => Logged(e) \/ e = op[p]
    <2>1. CASE file' = file
      BY <2>1 DEF JournalInvariant, JournalTypeOK, Sound, Chained, EntryAt, Logged
    <2>2. CASE file' # file
      BY <2>2, WriteGrows
    <2> QED BY <2>1, <2>2
  <1>3. \A e \in Entries : result'[e] = "none" => result[e] = "none" /\ e # op[p]
    BY <1>1, JournalAssumption DEF Fail, JournalInvariant, JournalTypeOK
  <1>4. \A q \in Processes \ {p} : pc'[q] = pc[q] /\ op'[q] = op[q]
    BY DEF Fail, JournalInvariant, JournalTypeOK
  <1>5. pc'[p] = "idle" /\ op'[p] = NoEntry
    BY DEF Fail, JournalInvariant, JournalTypeOK
  <1>6. JournalTypeOK'
    <2>1. \A q \in Processes : pc'[q] = "idle"
      BY <1>1, <1>4, <1>5, OthersAreIdle
    <2>2. result' \in [Entries -> {"none", "pending", "ok", "threw"}]
      BY <1>1 DEF Fail, JournalInvariant, JournalTypeOK
    <2> QED BY <1>2, <2>1, <2>2 DEF Fail, Anchored, JournalInvariant, JournalTypeOK, Step
  <1>7. Sound'
    BY <1>2, <1>3, JournalAssumption DEF Anchored, Sound, JournalInvariant
  <1>8. \A q \in Processes : Holder(q)'
    <2>1. Holder(p)'
      BY <1>5 DEF Holder
    <2> QED BY <1>1, <1>2, <1>4, <2>1, OthersKeep
  <1>9. LogStep
    <2>1. CASE op[p] = NoEntry
      <3>1. file' = file /\ result' = result
        BY <2>1 DEF Fail, JournalInvariant, Holder
      <3> QED BY <3>1 DEF LogStep, Log
    <2>2. CASE op[p] # NoEntry
      <3>1. op[p] \in Entries /\ result[op[p]] = "pending"
            /\ result' = [result EXCEPT ![op[p]] = "threw"]
        BY <1>1, <2>2 DEF Fail
      <3>2. Log' = Log \/ (~Logged(op[p]) /\ Log' = Append(Log, op[p]))
        <4>1. CASE file' = file
          BY <4>1 DEF Log
        <4>2. CASE file' # file
          BY <4>2, WriteGrows DEF Log, JournalInvariant, Holder
        <4> QED BY <4>1, <4>2
      <3> QED BY <3>1, <3>2 DEF LogStep
    <2> QED BY <2>1, <2>2
  <1> QED BY <1>6, <1>7, <1>8, <1>9 DEF JournalInvariant

\* An operation returns: an append has its record in the file.
LEMMA ReturnKeeps ==
    ASSUME JournalInvariant, NEW p \in Processes, pc[p] # "idle", Return(p), Anchored,
           op[p] = NoEntry \/ Logged(op[p]),
           UNCHANGED <<file, torn, faults, head>>, trusted' \in [Processes -> Nat \cup {Missing}]
    PROVE  JournalInvariant' /\ LogStep
  <1>1. lock = p /\ (op[p] # NoEntry => op[p] \in Entries /\ result[op[p]] = "pending")
    BY DEF JournalInvariant, JournalTypeOK, Holder
  <1>2. \A q \in Processes \ {p} : pc'[q] = pc[q] /\ op'[q] = op[q]
    BY DEF Return, JournalInvariant, JournalTypeOK
  <1>3. pc'[p] = "idle" /\ op'[p] = NoEntry
    BY DEF Return, JournalInvariant, JournalTypeOK
  <1>4. /\ result' \in [Entries -> {"none", "pending", "ok", "threw"}]
        /\ \A e \in Entries : result'[e] = "none" => result[e] = "none"
    BY <1>1 DEF Return, JournalInvariant, JournalTypeOK
  <1>5. JournalTypeOK'
    <2>1. \A q \in Processes : pc'[q] = "idle"
      BY <1>1, <1>2, <1>3, OthersAreIdle
    <2> QED BY <1>4, <2>1 DEF Return, Anchored, JournalInvariant, JournalTypeOK, Step
  <1>6. Sound'
    BY <1>4, JournalAssumption DEF Anchored, Sound, JournalInvariant, Chained, EntryAt, Logged
  <1>7. \A q \in Processes : Holder(q)'
    <2>1. Holder(p)'
      BY <1>3 DEF Holder
    <2>2. file' \in Seq(Record)
      BY DEF JournalInvariant, JournalTypeOK
    <2> QED BY <1>1, <1>2, <2>1, <2>2, OthersKeep
  <1>8. LogStep
    <2>1. CASE op[p] = NoEntry
      BY <2>1 DEF LogStep, Log, Return
    <2>2. CASE op[p] # NoEntry
      BY <1>1, <2>2 DEF LogStep, Log, Return
    <2> QED BY <2>1, <2>2
  <1> QED BY <1>5, <1>6, <1>7, <1>8 DEF JournalInvariant

\* The holder of the lock goes on to its next step.
LEMMA MoveKeeps ==
    ASSUME JournalInvariant, NEW p \in Processes, pc[p] # "idle", Anchored,
           NEW s \in Step, pc' = [pc EXCEPT ![p] = s],
           UNCHANGED <<file, torn, op, lock, result>>, faults' \in 0..MaxFaults,
           head' \in [Processes -> [sequence : Nat, entry : Entries \cup {NoEntry}]],
           trusted' \in [Processes -> Nat \cup {Missing}], Holder(p)'
    PROVE  JournalInvariant' /\ LogStep
  <1>1. lock = p
    BY DEF JournalInvariant, JournalTypeOK
  <1>2. \A q \in Processes \ {p} : pc'[q] = pc[q] /\ op'[q] = op[q]
    BY DEF JournalInvariant, JournalTypeOK
  <1>3. JournalTypeOK'
    BY <1>1, <1>2 DEF Anchored, JournalInvariant, JournalTypeOK, Step
  <1>4. Sound'
    BY JournalAssumption DEF Anchored, Sound, JournalInvariant, Chained, EntryAt, Logged
  <1>5. \A q \in Processes : Holder(q)'
    <2>1. file' \in Seq(Record)
      BY DEF JournalInvariant, JournalTypeOK
    <2> QED BY <1>1, <1>2, <2>1, OthersKeep
  <1> QED BY <1>3, <1>4, <1>5 DEF JournalInvariant, LogStep, Log

-----------------------------------------------------------------------------
(* The actions                                                             *)

\* An operation begins: its entry is in no record, for it was never begun.
LEMMA StartKeeps ==
    ASSUME JournalInvariant, NEW p \in Processes, NEW e \in Entries \cup {NoEntry}, Start(p, e)
    PROVE  JournalInvariant' /\ LogStep
  <1>1. /\ pc[p] = "idle" /\ lock = NoProcess /\ lock' = p
        /\ UNCHANGED <<file, torn, checkpoint, head, trusted, faults>>
        /\ pc'[p] = "head" /\ op'[p] = e
        /\ \A q \in Processes \ {p} : pc'[q] = pc[q] /\ op'[q] = op[q]
    BY DEF Start, JournalInvariant, JournalTypeOK
  <1>2. CASE e = NoEntry
    <2>1. result' = result
      BY <1>2 DEF Start
    <2>2. JournalTypeOK'
      <3>1. \A q \in Processes \ {p} : pc'[q] = "idle"
        BY <1>1, OthersAreIdle
      <3>2. pc' \in [Processes -> Step] /\ op' \in [Processes -> Entries \cup {NoEntry}]
        BY DEF Start, JournalInvariant, JournalTypeOK, Step
      <3> QED BY <1>1, <2>1, <3>1, <3>2 DEF JournalInvariant, JournalTypeOK
    <2>3. Sound'
      BY <1>1, <2>1 DEF JournalInvariant, Sound, Chained, EntryAt, Logged
    <2>4. Holder(p)'
      <3>1. ~Logged(NoEntry)'
        BY <1>1, RecordsNameEntries DEF JournalInvariant, Logged
      <3> QED BY <1>1, <1>2, <3>1 DEF Holder
    <2>5. file' \in Seq(Record)
      BY <1>1 DEF JournalInvariant, JournalTypeOK
    <2>6. \A q \in Processes : Holder(q)'
      BY <1>1, <2>4, <2>5, OthersKeep
    <2> QED BY <1>1, <2>1, <2>2, <2>3, <2>6 DEF JournalInvariant, LogStep, Log
  <1>3. CASE e # NoEntry
    <2>1. /\ e \in Entries /\ result[e] = "none"
          /\ result' = [result EXCEPT ![e] = "pending"]
      BY <1>3 DEF Start
    <2>2. /\ result'[e] = "pending"
          /\ result' \in [Entries -> {"none", "pending", "ok", "threw"}]
          /\ \A f \in Entries : result'[f] = "none" => result[f] = "none"
      BY <2>1 DEF JournalInvariant, JournalTypeOK
    <2>3. JournalTypeOK'
      <3>1. \A q \in Processes \ {p} : pc'[q] = "idle"
        BY <1>1, OthersAreIdle
      <3>2. pc' \in [Processes -> Step] /\ op' \in [Processes -> Entries \cup {NoEntry}]
        BY DEF Start, JournalInvariant, JournalTypeOK, Step
      <3> QED BY <1>1, <2>2, <3>1, <3>2 DEF JournalInvariant, JournalTypeOK
    <2>4. Sound'
      BY <1>1, <2>2 DEF JournalInvariant, Sound, Chained, EntryAt, Logged
    <2>5. Holder(p)'
      <3>1. ~Logged(e)'
        BY <1>1, <2>1 DEF JournalInvariant, Sound, Logged
      <3> QED BY <1>1, <2>2, <3>1 DEF Holder
    <2>6. file' \in Seq(Record)
      BY <1>1 DEF JournalInvariant, JournalTypeOK
    <2>7. \A q \in Processes : Holder(q)'
      BY <1>1, <2>5, <2>6, OthersKeep
    <2> QED BY <1>1, <2>1, <2>3, <2>4, <2>7 DEF JournalInvariant, LogStep, Log
  <1> QED BY <1>2, <1>3

\* The head is the last record, and the checkpoint names it.
LEMMA ProceedKeeps ==
    ASSUME JournalInvariant, NEW p \in Processes, pc[p] \in {"head", "sync", "resync"}, ~torn,
           Proceed(p, Len(file)), checkpoint' = Len(file), UNCHANGED <<file, torn, faults>>,
           trusted' \in [Processes -> Nat \cup {Missing}]
    PROVE  JournalInvariant' /\ LogStep
  <1>1. Len(file) \in Nat /\ EntryAt(Len(file)) \in Entries \cup {NoEntry}
    BY RecordsNameEntries DEF JournalInvariant
  <1>2. Anchored
    BY <1>1 DEF Anchored
  <1>3. CASE op[p] = NoEntry
    BY <1>2, <1>3, ReturnKeeps DEF Proceed
  <1>4. CASE op[p] # NoEntry
    <2>1. /\ head' = [head EXCEPT ![p] = [sequence |-> Len(file), entry |-> EntryAt(Len(file))]]
          /\ pc' = [pc EXCEPT ![p] = "write"]
          /\ UNCHANGED <<op, result, lock>>
      BY <1>4 DEF Proceed
    <2>2. /\ head' \in [Processes -> [sequence : Nat, entry : Entries \cup {NoEntry}]]
          /\ head'[p].sequence = Len(file) /\ head'[p].entry = EntryAt(Len(file))
      BY <1>1, <2>1 DEF JournalInvariant, JournalTypeOK
    <2>3. pc'[p] = "write"
      BY <2>1 DEF JournalInvariant, JournalTypeOK
    <2>4. Holder(p) /\ EntryAt(Len(file))' = EntryAt(Len(file))
      BY DEF JournalInvariant, EntryAt
    <2>5. Holder(p)'
      BY <1>4, <2>1, <2>2, <2>3, <2>4 DEF Holder, Logged
    <2>6. "write" \in Step /\ faults' \in 0..MaxFaults
      BY DEF Step, JournalInvariant, JournalTypeOK
    <2> QED BY <1>2, <2>1, <2>2, <2>5, <2>6, MoveKeeps
  <1> QED BY <1>3, <1>4

LEMMA HeadKeeps ==
    ASSUME JournalInvariant, NEW p \in Processes, FastHead(p) \/ FullVerification(p)
    PROVE  JournalInvariant' /\ LogStep
  <1>1. pc[p] = "head" /\ UNCHANGED <<file, torn, checkpoint, faults>>
    BY DEF FastHead, FullVerification
  <1>2. Anchored
    BY <1>1, SameAnchor
  <1>3. CASE FastHead(p)
    <2>1. ~torn /\ trusted[p] = Len(file) /\ checkpoint = Len(file)
      BY <1>3 DEF FastHead, FastPath, CheckpointMatchesFile
    <2>2. Proceed(p, Len(file)) /\ trusted' \in [Processes -> Nat \cup {Missing}]
      BY <1>3, <2>1 DEF FastHead, JournalInvariant, JournalTypeOK
    <2> QED BY <1>1, <2>1, <2>2, ProceedKeeps
  <1>4. CASE ~Verifies /\ Fail(p) /\ UNCHANGED head
    <2>1. torn' \in BOOLEAN /\ faults' \in 0..MaxFaults
      BY <1>1 DEF JournalInvariant, JournalTypeOK
    <2> QED BY <1>1, <1>2, <1>4, <2>1, FailKeeps
  <1>5. CASE /\ Verifies /\ CheckpointMatchesFile
             /\ trusted' = [trusted EXCEPT ![p] = checkpoint]
             /\ Proceed(p, Len(file))
    <2>1. ~torn /\ checkpoint = Len(file)
      BY <1>5 DEF CheckpointMatchesFile
    <2>2. trusted' \in [Processes -> Nat \cup {Missing}]
      BY <1>5 DEF JournalInvariant, JournalTypeOK
    <2> QED BY <1>1, <1>5, <2>1, <2>2, ProceedKeeps
  <1>6. CASE /\ Verifies /\ ~CheckpointMatchesFile
             /\ pc' = [pc EXCEPT ![p] = "sync"]
             /\ UNCHANGED <<op, lock, head, trusted, result>>
    <2>1. pc'[p] = "sync" /\ "sync" \in Step /\ ~torn
      BY <1>6 DEF Step, Verifies, JournalInvariant, JournalTypeOK
    <2>2. Holder(p)'
      BY <1>1, <1>6, <2>1 DEF JournalInvariant, Holder, Logged
    <2>3. /\ head' \in [Processes -> [sequence : Nat, entry : Entries \cup {NoEntry}]]
          /\ trusted' \in [Processes -> Nat \cup {Missing}] /\ faults' \in 0..MaxFaults
      BY <1>1, <1>6 DEF JournalInvariant, JournalTypeOK
    <2> QED BY <1>1, <1>2, <1>6, <2>1, <2>2, <2>3, MoveKeeps
  <1> QED BY <1>3, <1>4, <1>5, <1>6 DEF FullVerification

LEMMA FaultTypes ==
    ASSUME JournalInvariant, Fault
    PROVE  faults' \in 0..MaxFaults
  BY JournalAssumption DEF Fault, JournalInvariant, JournalTypeOK

LEMMA WriteKeeps ==
    ASSUME JournalInvariant, NEW p \in Processes, WriteRecord(p)
    PROVE  JournalInvariant' /\ LogStep
  <1>1. pc[p] = "write" /\ checkpoint' = checkpoint /\ head' = head
    BY DEF WriteRecord
  <1>2. op[p] \in Entries /\ result[op[p]] = "pending" /\ ~Logged(op[p]) /\ ~torn
        /\ head[p].sequence = Len(file) /\ lock = p
    BY <1>1 DEF JournalInvariant, JournalTypeOK, Holder
  <1>3. CASE /\ ~Full(head[p].sequence)
             /\ file' = Append(file, NewRecord(p))
             /\ pc' = [pc EXCEPT ![p] = "checkpoint"]
             /\ UNCHANGED <<torn, op, lock, trusted, result, faults>>
    <2>1. /\ file' \in Seq(Record) /\ Chained'
          /\ Len(file') = Len(file) + 1 /\ Len(file') <= maximumRecordCount
          /\ \A e : Logged(e)' <=> Logged(e) \/ e = op[p]
          /\ Log' = Append(Log, op[p])
      BY <1>1, <1>3, WriteGrows DEF Log
    <2>2. Anchored
      BY <1>1, <2>1, SameAnchor
    <2>3. pc'[p] = "checkpoint" /\ \A q \in Processes \ {p} : pc'[q] = pc[q] /\ op'[q] = op[q]
      BY <1>3 DEF JournalInvariant, JournalTypeOK
    <2>4. JournalTypeOK'
      BY <1>1, <1>2, <1>3, <2>1, <2>3 DEF JournalInvariant, JournalTypeOK, Step
    <2>5. Sound'
      BY <1>1, <1>2, <1>3, <2>1, <2>2, JournalAssumption DEF JournalInvariant, Sound, Anchored
    <2>6. Holder(p)'
      BY <1>1, <1>2, <1>3, <2>1, <2>3, JournalAssumption DEF Holder
    <2>7. \A q \in Processes : Holder(q)'
      BY <1>2, <2>1, <2>3, <2>6, OthersKeep
    <2>8. LogStep
      BY <1>2, <1>3, <2>1 DEF LogStep
    <2> QED BY <2>4, <2>5, <2>7, <2>8 DEF JournalInvariant
  <1>4. CASE Fail(p) /\ (UNCHANGED faults \/ Fault)
             /\ \/ torn' \in {torn, TRUE} /\ file' = file
                \/ /\ ~Full(head[p].sequence)
                   /\ file' = Append(file, NewRecord(p)) /\ torn' = torn
    <2>1. torn' \in BOOLEAN /\ faults' \in 0..MaxFaults
      BY <1>4, FaultTypes DEF JournalInvariant, JournalTypeOK
    <2>2. Anchored
      BY <1>1, <1>4, WriteGrows, SameAnchor
    <2> QED BY <1>1, <1>4, <2>1, <2>2, FailKeeps
  <1> QED BY <1>3, <1>4 DEF WriteRecord

\* The checkpoint names the last record.
LEMMA CheckpointKeeps ==
    ASSUME JournalInvariant, NEW p \in Processes, UNCHANGED <<file, torn>>,
           pc[p] \in {"sync", "resync", "checkpoint", "replace"}, CheckpointWritten(p, Len(file))
    PROVE  JournalInvariant' /\ LogStep
  <1>1. checkpoint' = Len(file) /\ Len(file) \in Nat /\ ~torn
    BY RecordsNameEntries DEF CheckpointWritten, JournalInvariant, Holder
  <1>2. Anchored
    BY <1>1 DEF Anchored
  <1>3. trusted' = [trusted EXCEPT ![p] = Len(file)] => trusted' \in [Processes -> Nat \cup {Missing}]
    BY <1>1 DEF JournalInvariant, JournalTypeOK
  <1>4. CASE /\ trusted' = [trusted EXCEPT ![p] = Len(file)] /\ UNCHANGED faults
             /\ pc[p] \in {"sync", "resync"} /\ Proceed(p, Len(file))
    BY <1>1, <1>3, <1>4, ProceedKeeps
  <1>5. CASE /\ trusted' = [trusted EXCEPT ![p] = Len(file)] /\ UNCHANGED faults
             /\ pc[p] \in {"checkpoint", "replace"} /\ Return(p) /\ UNCHANGED head
    <2>1. Logged(op[p])
      BY <1>5 DEF JournalInvariant, Holder
    <2> QED BY <1>2, <1>3, <1>5, <2>1, ReturnKeeps
  <1>6. CASE Fault /\ Fail(p) /\ UNCHANGED head
    <2>1. torn' \in BOOLEAN
      BY DEF JournalInvariant, JournalTypeOK
    <2> QED BY <1>2, <1>6, <2>1, FaultTypes, FailKeeps
  <1> QED BY <1>4, <1>5, <1>6 DEF CheckpointWritten

LEMMA CheckpointStepsKeep ==
    ASSUME JournalInvariant, NEW p \in Processes, WriteCheckpoint(p) \/ ReplaceCheckpoint(p)
    PROVE  JournalInvariant' /\ LogStep
  <1>1. UNCHANGED <<file, torn>> /\ pc[p] \in {"sync", "resync", "checkpoint", "replace"}
    BY DEF WriteCheckpoint, ReplaceCheckpoint
  <1>2. CASE CheckpointWritten(p, Len(file))
    BY <1>1, <1>2, CheckpointKeeps
  <1>3. CASE Fail(p) /\ UNCHANGED <<checkpoint, head>> /\ (UNCHANGED faults \/ Fault)
    <2>1. torn' \in BOOLEAN /\ faults' \in 0..MaxFaults
      BY <1>1, <1>3, FaultTypes DEF JournalInvariant, JournalTypeOK
    <2> QED BY <1>1, <1>3, <2>1, SameAnchor, FailKeeps
  <1>4. CASE /\ Fault /\ checkpoint' = Missing /\ pc[p] \in {"sync", "checkpoint"}
             /\ pc' = [pc EXCEPT ![p] = IF pc[p] = "sync" THEN "resync" ELSE "replace"]
             /\ UNCHANGED <<op, lock, head, trusted, result>>
    <2>1. PICK s \in Step : /\ s = IF pc[p] = "sync" THEN "resync" ELSE "replace"
                            /\ pc' = [pc EXCEPT ![p] = s]
      BY <1>4 DEF Step
    <2>2. pc'[p] = s
      BY <2>1 DEF JournalInvariant, JournalTypeOK
    <2>3. Holder(p)'
      <3>1. CASE pc[p] = "sync"
        BY <1>1, <1>4, <2>1, <2>2, <3>1 DEF JournalInvariant, Holder, Logged
      <3>2. CASE pc[p] = "checkpoint"
        BY <1>1, <1>4, <2>1, <2>2, <3>2 DEF JournalInvariant, Holder, Logged
      <3> QED BY <1>4, <3>1, <3>2
    <2>4. /\ head' \in [Processes -> [sequence : Nat, entry : Entries \cup {NoEntry}]]
          /\ trusted' \in [Processes -> Nat \cup {Missing}] /\ faults' \in 0..MaxFaults
      BY <1>4, FaultTypes DEF JournalInvariant, JournalTypeOK
    <2> QED BY <1>1, <1>4, <2>1, <2>3, <2>4, MoveKeeps DEF Anchored
  <1> QED BY <1>2, <1>3, <1>4 DEF WriteCheckpoint, ReplaceCheckpoint

\* A death in the middle leaves what a failing operation may leave.
LEMMA DeathKeeps ==
    ASSUME JournalInvariant, NEW p \in Processes, Death(p)
    PROVE  JournalInvariant' /\ LogStep
  <1>1. faults' \in 0..MaxFaults /\ head' = head
    BY FaultTypes DEF Death
  <1>2. CASE pc[p] = "idle"
    <2>1. /\ UNCHANGED <<file, torn, checkpoint, lock, pc, op, result, head>>
          /\ trusted' \in [Processes -> Nat \cup {Missing}]
      BY <1>2 DEF Death, JournalInvariant, JournalTypeOK
    <2>2. JournalTypeOK' /\ Sound'
      BY <1>1, <2>1 DEF JournalInvariant, JournalTypeOK, Sound, Chained, EntryAt, Logged
    <2>3. \A q \in Processes : Holder(q)'
      BY <2>1 DEF JournalInvariant, Holder, EntryAt, Logged
    <2> QED BY <2>1, <2>2, <2>3 DEF JournalInvariant, LogStep, Log
  <1>3. CASE pc[p] # "idle"
    <2>1. Fail(p)
      BY <1>3 DEF Death
    <2>2. CASE checkpoint' = checkpoint
               /\ \/ torn' \in {torn, TRUE} /\ file' = file
                  \/ /\ pc[p] = "write" /\ ~Full(head[p].sequence)
                     /\ file' = Append(file, NewRecord(p)) /\ torn' = torn
      <3>1. torn' \in BOOLEAN
        BY <2>2 DEF JournalInvariant, JournalTypeOK
      <3>2. Anchored
        BY <2>2, WriteGrows, SameAnchor
      <3> QED BY <1>1, <1>3, <2>1, <2>2, <3>1, <3>2, FailKeeps
    <2>3. CASE /\ pc[p] \in {"sync", "checkpoint"}
               /\ checkpoint' = NextCheckpoint(p) /\ UNCHANGED <<file, torn>>
      <3>1. NextCheckpoint(p) = Len(file) /\ Len(file) \in Nat
        BY <2>3, RecordsNameEntries DEF NextCheckpoint, JournalInvariant, Holder
      <3>2. Anchored /\ torn' \in BOOLEAN
        BY <2>3, <3>1 DEF Anchored, JournalInvariant, JournalTypeOK
      <3> QED BY <1>1, <1>3, <2>1, <2>3, <3>2, FailKeeps
    <2> QED BY <1>3, <2>2, <2>3 DEF Death
  <1> QED BY <1>2, <1>3

-----------------------------------------------------------------------------
(* Journal: the theorems                                                   *)

LEMMA JournalStep ==
    ASSUME JournalInvariant, [JournalNext]_journalVars
    PROVE  JournalInvariant' /\ LogStep
  <1>1. CASE UNCHANGED journalVars
    <2>1. UNCHANGED <<file, torn, checkpoint, lock, pc, op, head, trusted, result, faults>>
      BY <1>1 DEF journalVars
    <2>2. JournalTypeOK' /\ Sound'
      BY <2>1 DEF JournalInvariant, JournalTypeOK, Sound, Chained, EntryAt, Logged
    <2>3. \A q \in Processes : Holder(q)'
      BY <2>1 DEF JournalInvariant, Holder, EntryAt, Logged
    <2> QED BY <2>1, <2>2, <2>3 DEF JournalInvariant, LogStep, Log
  <1>2. CASE JournalNext
    BY <1>2, StartKeeps, HeadKeeps, WriteKeeps, CheckpointStepsKeep, DeathKeeps DEF JournalNext
  <1> QED BY <1>1, <1>2

LEMMA JournalInvariantHolds == JournalSpec => []JournalInvariant
  <1>1. JournalInit => JournalInvariant
    <2> SUFFICES ASSUME JournalInit PROVE JournalInvariant
      OBVIOUS
    <2>1. file = <<>> /\ DOMAIN file = {} /\ Len(file) = 0 /\ file \in Seq(Record)
      BY DEF JournalInit
    <2>2. JournalTypeOK
      <3>1. head \in [Processes -> [sequence : Nat, entry : Entries \cup {NoEntry}]]
        BY DEF JournalInit
      <3>2. /\ pc \in [Processes -> Step] /\ op \in [Processes -> Entries \cup {NoEntry}]
            /\ trusted \in [Processes -> Nat \cup {Missing}]
            /\ result \in [Entries -> {"none", "pending", "ok", "threw"}]
            /\ \A p \in Processes : pc[p] = "idle"
        BY DEF JournalInit, Step
      <3>3. faults \in 0..MaxFaults
        BY JournalAssumption DEF JournalInit
      <3> QED BY <2>1, <3>1, <3>2, <3>3 DEF JournalInit, JournalTypeOK
    <2>3. Sound
      BY <2>1, JournalAssumption DEF JournalInit, Sound, Chained, Logged
    <2>4. \A p \in Processes : Holder(p)
      BY <2>1 DEF JournalInit, Holder
    <2> QED BY <2>2, <2>3, <2>4 DEF JournalInvariant
  <1>2. JournalInvariant /\ [JournalNext]_journalVars => JournalInvariant'
    BY JournalStep
  <1> QED BY <1>1, <1>2, PTL DEF JournalSpec

\* Whatever writers, faults and deaths there were, a journal whose last record is
\* whole and whose checkpoint is there verifies: the chain was never forked.
THEOREM JournalIsRecoverable == JournalSpec => []Recoverable
  <1>1. JournalInvariant => Recoverable
    BY DEF JournalInvariant, Sound, Recoverable, Verifies
  <1> QED BY <1>1, JournalInvariantHolds, PTL

\* The journal implements the contract the gateway and the task engine are
\* written against: an append that returned is in the log for good.
THEOREM JournalKeepsContract == JournalSpec => ImplementsDurableLog
  <1>1. JournalInit => Contract!LogInit
    BY DEF JournalInit, Contract!LogInit
  <1>2. JournalInvariant /\ [JournalNext]_journalVars => [Contract!LogNext]_Contract!logVars
    BY JournalStep, LogStepIsContractStep DEF Contract!logVars, Log
  <1> QED BY <1>1, <1>2, JournalInvariantHolds, PTL
          DEF JournalSpec, ImplementsDurableLog, Contract!LogSpec


-----------------------------------------------------------------------------
(* Assistant session: what always holds of it                              *)

\* While an answer is shown, its session is rendering or over.
OnScreen(g) == g \in Generations /\ g <= generation /\ state[g] \in {"rendering"} \cup Terminal

\* OnScreen after the step.
StaysOnScreen(g) ==
    g \in Generations /\ g <= generation' /\ state'[g] \in {"rendering"} \cup Terminal

PagesAreOfAnswers ==
    /\ \A f \in Flows : flow[f].pc \in {"first", "unsent", "pausing", "last", "autoPage"} =>
          OnScreen(flow[f].gen) /\ flow[f].reply \in 1..replies[flow[f].gen]
    /\ ai.pageTimer # 0 => OnScreen(ai.pageTimer) /\ replies[ai.pageTimer] >= 1

\* While a session has one answer, the pages that a handler finds in the
\* list are those of the answer it shows, or were cleared away.
OnlyAnswersFit ==
    /\ \A f \in Flows :
          flow[f].pc \in {"first", "unsent"} /\ IsCurrent(flow[f].gen) /\ replies[flow[f].gen] = 1
          => ai.pages \in {0, flow[f].pages}
    /\ \A f \in Flows :
          flow[f].pc \in {"pausing", "last"} /\ replies[flow[f].gen] = 1 => flow[f].pages = 1

\* What is completed was given an answer, and was shown it if it was the only
\* one.
CompletionsStand ==
    \A g \in Generations : state[g] = "completed" =>
        replies[g] >= 1 /\ (replies[g] = 1 => <<g, 1>> \in acked)

AssistantInv ==
    /\ AssistantTypeOK
    /\ ai.held \in {0, generation}
    /\ SupersededIsOver
    /\ SomeoneServesIt
    /\ PagesAreOfAnswers
    /\ OnlyAnswersFit
    /\ CompletionsStand

Live == {"acquiringAudio", "recording", "finalizingSpeech", "thinking", "rendering"}

\* The states and their order, one by one.
LEMMA LifecycleIs ==
    /\ DOMAIN Forward = Live
    /\ Lifecycle = Live \cup Terminal \cup {"idle"}
    /\ \A s \in Live : {"failed", "cancelled"} \subseteq Later(s)
    /\ "acquiringAudio" \in Later("idle") /\ "recording" \in Later("acquiringAudio")
    /\ "finalizingSpeech" \in Later("recording")
    /\ {"thinking", "rendering"} \subseteq Later("finalizingSpeech")
    /\ "rendering" \in Later("thinking") /\ "completed" \in Later("rendering")
    /\ "recording" \in Allowed("acquiringAudio") /\ "finalizingSpeech" \in Allowed("recording")
    /\ \A s : "recording" \in Allowed(s) => s = "acquiringAudio"
    /\ \A s : "finalizingSpeech" \in Allowed(s) => s = "recording"
    /\ \A s : "idle" \notin Later(s)
    /\ \A s \in Later("rendering") : s \in Terminal
    /\ \A s \in Live : "completed" \in Later(s) => s = "rendering"
<1>1. DOMAIN Forward = Live
  BY DEF Forward, Live
<1>2. /\ Forward["acquiringAudio"] = "recording" /\ Forward["recording"] = "finalizingSpeech"
      /\ Forward["finalizingSpeech"] = "thinking" /\ Forward["thinking"] = "rendering"
      /\ Forward["rendering"] = "completed"
  BY DEF Forward
<1>3. \A s : s \in Live => Allowed(s) = {Forward[s], "cancelled", "failed"}
  BY <1>1 DEF Allowed
<1>4. \A s : s \notin Live => Allowed(s) = {}
  BY <1>1 DEF Allowed
<1>5. \A s : Allowed(s) \subseteq Later(s)
  <2>1. \A s : s # "idle" /\ s # "finalizingSpeech" => Later(s) = Allowed(s)
    BY DEF Later
  <2>2. Later("finalizingSpeech") = Allowed("finalizingSpeech") \cup {"rendering"}
    BY DEF Later
  <2>3. Allowed("idle") = {}
    BY <1>4 DEF Live
  <2>4. QED
    BY <2>1, <2>2, <2>3
<1>6. "acquiringAudio" \in Later("idle") /\ "rendering" \in Later("finalizingSpeech")
  BY DEF Later
<1>7. \A s : "recording" \in Allowed(s) => s = "acquiringAudio"
  BY <1>2, <1>3, <1>4 DEF Live
<1>8. \A s : "finalizingSpeech" \in Allowed(s) => s = "recording"
  BY <1>2, <1>3, <1>4 DEF Live
<1>9. \A s : "idle" \notin Later(s)
  <2>1. \A s : "idle" \notin Allowed(s)
    BY <1>2, <1>3, <1>4 DEF Live
  <2>2. "idle" \notin Later("idle") /\ "idle" \notin Later("finalizingSpeech")
    BY <2>1 DEF Later
  <2>3. \A s : s # "idle" /\ s # "finalizingSpeech" => Later(s) = Allowed(s)
    BY DEF Later
  <2>4. QED
    BY <2>1, <2>2, <2>3
<1>10. \A s \in Later("rendering") : s \in Terminal
  <2>1. Later("rendering") = Allowed("rendering")
    BY DEF Later
  <2>2. QED
    BY <2>1, <1>2, <1>3 DEF Live, Terminal
<1>11. \A s \in Live : "completed" \in Later(s) => s = "rendering"
  <2>1. "completed" \notin Later("finalizingSpeech")
    BY <1>2, <1>3 DEF Later, Live
  <2>2. \A s \in Live : s # "finalizingSpeech" => Later(s) = Allowed(s)
    BY DEF Later, Live
  <2>3. QED
    BY <2>1, <2>2, <1>2, <1>3 DEF Live
<1>12. QED
  BY <1>1, <1>2, <1>3, <1>5, <1>6, <1>7, <1>8, <1>9, <1>10, <1>11 DEF Lifecycle, Live

-----------------------------------------------------------------------------
(* What a step does to the sessions                                        *)

\* Only the current session moves, and only on.
SessionsMove ==
    /\ generation' = generation
    /\ state' \in [Generations -> Lifecycle]
    /\ \A g \in Generations : state'[g] # state[g] =>
          g = generation /\ state[g] \in Live /\ state'[g] \in Later(state[g])

\* A session begins and the one before is over.
SessionBegins ==
    /\ generation < MaxGeneration /\ generation' = generation + 1
    /\ state' \in [Generations -> Lifecycle]
    /\ state'[generation + 1] = "acquiringAudio"
    /\ \A g \in Generations : g # generation + 1 /\ state'[g] # state[g] =>
          g = generation /\ state[g] \in Live /\ state'[g] = "cancelled"
    /\ \A g \in Generations : g = generation => state'[g] \in Terminal

LEMMA EndedMoves ==
    ASSUME AssistantTypeOK, NEW g \in 0..MaxGeneration, NEW s \in Terminal,
           generation' = generation, state' = Ended(g, s),
           s = "completed" => OnScreen(g)
    PROVE  SessionsMove /\ (g # 0 /\ g = generation => state'[g] \in Terminal)
<1>1. CASE g # 0 /\ g = generation /\ state[g] \notin Terminal
  <2>1. state' = [state EXCEPT ![g] = s] /\ g \in Generations
    BY <1>1 DEF Ended, IsCurrent, Over, Generations
  <2>2. state[g] \in Live
    BY <1>1, <2>1, LifecycleIs DEF AssistantTypeOK
  <2>3. s \in Later(state[g])
    BY <1>1, <2>2, LifecycleIs DEF OnScreen, Terminal
  <2>4. s \in Lifecycle
    BY LifecycleIs
  <2>5. QED
    BY <1>1, <2>1, <2>2, <2>3, <2>4 DEF SessionsMove, AssistantTypeOK
<1>2. CASE ~(g # 0 /\ g = generation /\ state[g] \notin Terminal)
  BY <1>2 DEF SessionsMove, AssistantTypeOK, Ended, IsCurrent, Over
<1>3. QED
  BY <1>1, <1>2

LEMMA StandingMoves ==
    ASSUME AssistantTypeOK, generation' = generation, state' = state
    PROVE  SessionsMove
BY DEF AssistantTypeOK, SessionsMove

LEMMA OnwardMoves ==
    ASSUME AssistantTypeOK, NEW g, NEW s \in Lifecycle, IsCurrent(g),
           generation' = generation, state' = [state EXCEPT ![g] = s],
           state[g] \in Live, s = state[g] \/ s \in Later(state[g])
    PROVE  SessionsMove /\ state'[g] = s
<1>1. g \in Generations /\ g = generation
  BY DEF AssistantTypeOK, IsCurrent, Generations
<1>2. QED
  BY <1>1 DEF SessionsMove, AssistantTypeOK

LEMMA BeginMoves ==
    ASSUME AssistantTypeOK, generation < MaxGeneration, generation' = generation + 1,
           state' = Begun
    PROVE  SessionBegins
<1>1. generation + 1 \in Generations /\ state[generation + 1] = "idle"
  BY AssistantAssumption DEF AssistantTypeOK, Generations
<1>2. \A g \in Generations : g = generation /\ ~Over(g) => state[g] \in Live
  BY LifecycleIs DEF AssistantTypeOK, Over
<1>3. "acquiringAudio" \in Lifecycle /\ "cancelled" \in Lifecycle
  BY LifecycleIs DEF Live, Terminal
<1>4. \A g \in Generations :
         Begun[g] = IF g = generation + 1 THEN "acquiringAudio"
                    ELSE IF IsCurrent(g) /\ ~Over(g) THEN "cancelled" ELSE state[g]
  BY DEF Begun
<1>5. Begun \in [Generations -> Lifecycle]
  BY <1>3 DEF Begun, AssistantTypeOK
<1>6. QED
  BY <1>1, <1>2, <1>4, <1>5, AssistantAssumption
  DEF SessionBegins, IsCurrent, AssistantTypeOK, Over, Generations, Terminal

-----------------------------------------------------------------------------
(* What a step of a handler does, and why that is enough                   *)

SessionsTurn == SessionsMove \/ SessionBegins

Showing == {"first", "unsent", "pausing", "last", "autoPage"}

HandlerTurns(f) ==
    /\ flow' \in [Flows -> FlowState] /\ \A h \in Flows \ {f} : flow'[h] = flow[h]
    /\ flow'[f].gen <= generation'
    /\ flow'[f].pc \in Showing =>
          StaysOnScreen(flow'[f].gen) /\ flow'[f].reply \in 1..replies'[flow'[f].gen]

\* Who takes a session further is replaced only when it has gone further.
ServiceGoesOn(f) ==
    \A g \in Generations : state'[g] \in DOMAIN Serving =>
        \/ flow'[f].gen = g /\ flow'[f].pc \in Serving[state'[g]]
        \/ /\ state'[g] = state[g]
           /\ ~(flow[f].gen = g /\ flow[f].pc \in Serving[state[g]])

ControllerTurns ==
    /\ ai' \in Controller /\ ai'.held \in {0, generation'}
    /\ ai'.pageTimer # 0 => StaysOnScreen(ai'.pageTimer) /\ replies'[ai'.pageTimer] >= 1

HistoryGrows ==
    /\ platform' = platform
    /\ replies' \in [Generations -> Nat] /\ \A g \in Generations : replies[g] <= replies'[g]
    /\ acked \subseteq acked' /\ acked' \subseteq Generations \X Nat

MayComplete(g) == replies'[g] >= 1 /\ (replies'[g] = 1 => <<g, 1>> \in acked')

CompletionsAreShown ==
    \A g \in Generations : state'[g] = "completed" /\ state[g] # "completed" => MayComplete(g)

\* The list is replaced by an answer only, and a handler waits for its page
\* to be sent again only after it found one page in the list.
PagesTurn(f) ==
    \/ /\ replies' = replies /\ ai'.pages \in {0, ai.pages}
       /\ flow'[f].pc \in {"first", "unsent"} => flow'[f] = flow[f]
       /\ flow'[f].pc \in {"pausing", "last"} =>
             /\ flow'[f].gen = flow[f].gen /\ flow'[f].pages = flow[f].pages
             /\ \/ flow[f].pc \in {"pausing", "last"}
                \/ flow[f].pc = "first" /\ IsCurrent(flow[f].gen) /\ ai.pages = 1
    \/ /\ generation' = generation /\ IsCurrent(flow'[f].gen)
       /\ replies' = [replies EXCEPT ![flow'[f].gen] = @ + 1]
       /\ flow'[f].pc \in {"first", "unsent"} /\ ai'.pages = flow'[f].pages

Effect(f) ==
    /\ SessionsTurn /\ HandlerTurns(f) /\ ServiceGoesOn(f)
    /\ ControllerTurns /\ HistoryGrows /\ CompletionsAreShown

LEMMA ScreenStays ==
    ASSUME AssistantTypeOK, SessionsTurn, NEW g, OnScreen(g)
    PROVE  StaysOnScreen(g)
<1>1. g \in Generations /\ g <= generation /\ state[g] \in {"rendering"} \cup Terminal
  BY DEF OnScreen
<1>2. CASE SessionsMove
  <2>1. state'[g] \in {"rendering"} \cup Terminal
    BY <1>1, <1>2, LifecycleIs DEF SessionsMove, Live, Terminal
  <2>2. QED
    BY <1>1, <1>2, <2>1 DEF SessionsMove, StaysOnScreen, Generations
<1>3. CASE SessionBegins
  <2>1. g # generation + 1 /\ g <= generation + 1
    BY <1>1, AssistantAssumption DEF AssistantTypeOK, Generations
  <2>2. state'[g] = state[g] \/ state'[g] = "cancelled"
    BY <1>1, <1>3, <2>1 DEF SessionBegins
  <2>3. QED
    BY <1>1, <1>3, <2>1, <2>2 DEF SessionBegins, StaysOnScreen, Terminal, Generations
<1>4. QED
  BY <1>2, <1>3 DEF SessionsTurn

LEMMA SessionsTurnWell ==
    ASSUME AssistantTypeOK, SupersededIsOver, SessionsTurn
    PROVE  /\ generation' \in 0..MaxGeneration /\ generation <= generation'
           /\ state' \in [Generations -> Lifecycle]
           /\ \A g \in Generations : state'[g] = "idle" <=> generation' < g
           /\ SupersededIsOver'
           /\ \A g \in Generations : state'[g] # state[g] => state'[g] \in Later(state[g])
<1>1. CASE SessionsMove
  <2>1. \A g \in Generations : state'[g] = "idle" <=> generation' < g
    BY <1>1, LifecycleIs DEF SessionsMove, AssistantTypeOK, Live
  <2>2. SupersededIsOver'
    BY <1>1 DEF SessionsMove, SupersededIsOver, Over, Generations
  <2>3. QED
    BY <1>1, <2>1, <2>2 DEF SessionsMove, AssistantTypeOK
<1>2. CASE SessionBegins
  <2>1. generation \in 0..MaxGeneration /\ generation + 1 \in 0..MaxGeneration
    BY <1>2, AssistantAssumption DEF SessionBegins, AssistantTypeOK
  <2>2. \A g \in Generations : state'[g] = "idle" <=> generation' < g
    BY <1>2, <2>1, AssistantAssumption DEF SessionBegins, AssistantTypeOK, Live, Generations
  <2>3. ASSUME NEW g \in Generations, g < generation + 1
        PROVE  state'[g] \in Terminal
    <3>1. CASE g = generation
      BY <1>2, <3>1 DEF SessionBegins
    <3>2. CASE g < generation
      <4>1. state[g] \in Terminal
        BY <3>2 DEF SupersededIsOver, Over
      <4>2. QED
        BY <1>2, <2>3, <2>1, <3>2, <4>1 DEF SessionBegins, Terminal, Generations
    <3>3. QED
      BY <2>1, <2>3, <3>1, <3>2 DEF Generations
  <2>4. QED
    BY <1>2, <2>1, <2>2, <2>3, LifecycleIs DEF SessionBegins, AssistantTypeOK, SupersededIsOver, Over, Generations
<1>3. QED
  BY <1>1, <1>2 DEF SessionsTurn

LEMMA OnlyAnswersStay ==
    ASSUME AssistantInv, NEW f \in Flows, HandlerTurns(f), HistoryGrows, PagesTurn(f),
           generation' \in Nat, generation <= generation'
    PROVE  OnlyAnswersFit'
<1>1. /\ AssistantTypeOK /\ PagesAreOfAnswers /\ OnlyAnswersFit /\ generation \in Nat
      /\ \A h \in Flows : flow[h].gen \in Nat /\ flow[h].gen <= generation
      /\ \A h \in Flows \ {f} : flow'[h] = flow[h]
  BY AssistantAssumption DEF AssistantInv, AssistantTypeOK, FlowState, HandlerTurns
<1>2. \A h \in Flows : flow[h].pc \in Showing =>
         flow[h].gen \in Generations /\ replies[flow[h].gen] \in Nat /\ replies[flow[h].gen] >= 1
  BY <1>1 DEF Showing, PagesAreOfAnswers, OnScreen, AssistantTypeOK
<1>3. \A g \in Generations : /\ replies[g] \in Nat /\ replies'[g] \in Nat
                             /\ replies[g] <= replies'[g]
  BY <1>1 DEF HistoryGrows, AssistantTypeOK
<1>4. ASSUME NEW h \in Flows, flow[h].pc \in Showing, replies'[flow[h].gen] = 1
      PROVE  replies[flow[h].gen] = 1
  BY <1>2, <1>3, <1>4
<1>5. ASSUME NEW h \in Flows, (IsCurrent(flow[h].gen))', flow'[h] = flow[h]
      PROVE  IsCurrent(flow[h].gen)
  BY <1>1, <1>5 DEF IsCurrent
<1>6. ASSUME NEW h \in Flows, flow'[h].pc \in {"first", "unsent"}, flow'[h] = flow[h],
             (IsCurrent(flow[h].gen))', replies'[flow[h].gen] = 1
      PROVE  ai'.pages \in {0, flow[h].pages}
  <2>1. IsCurrent(flow[h].gen) /\ replies[flow[h].gen] = 1
    BY <1>4, <1>5, <1>6 DEF Showing
  <2>2. ai.pages \in {0, flow[h].pages}
    BY <1>1, <1>6, <2>1 DEF OnlyAnswersFit
  <2>3. CASE ai'.pages \in {0, ai.pages}
    BY <2>2, <2>3
  <2>4. CASE /\ IsCurrent(flow'[f].gen) /\ replies' = [replies EXCEPT ![flow'[f].gen] = @ + 1]
    <3>1. flow'[f].gen = flow[h].gen /\ flow[h].gen \in Generations
      BY <1>2, <1>6, <2>1, <2>4 DEF IsCurrent, Showing
    <3>2. replies'[flow[h].gen] = 2
      BY <1>1, <2>1, <2>4, <3>1 DEF AssistantTypeOK
    <3>3. QED
      BY <1>6, <3>2
  <2>5. QED
    BY <2>3, <2>4 DEF PagesTurn
<1>7. ASSUME NEW h \in Flows, flow'[h].pc \in {"first", "unsent"},
             (IsCurrent(flow[h].gen))', replies'[flow'[h].gen] = 1
      PROVE  ai'.pages \in {0, flow'[h].pages}
  <2>1. flow'[h] = flow[h] \/ (h = f /\ ai'.pages = flow'[f].pages)
    BY <1>1, <1>7 DEF PagesTurn
  <2>2. QED
    BY <1>6, <1>7, <2>1
<1>8. ASSUME NEW h \in Flows, flow'[h].pc \in {"pausing", "last"}, replies'[flow'[h].gen] = 1
      PROVE  flow'[h].pages = 1
  <2>1. CASE flow'[h] = flow[h]
    <3>1. replies[flow[h].gen] = 1
      BY <1>4, <1>8, <2>1 DEF Showing
    <3>2. QED
      BY <1>1, <1>8, <2>1, <3>1 DEF OnlyAnswersFit
  <2>2. CASE h = f
    <3>1. /\ flow'[f].gen = flow[f].gen /\ flow'[f].pages = flow[f].pages
          /\ \/ flow[f].pc \in {"pausing", "last"}
             \/ flow[f].pc = "first" /\ IsCurrent(flow[f].gen) /\ ai.pages = 1
      BY <1>8, <2>2 DEF PagesTurn
    <3>2. replies[flow[f].gen] = 1
      BY <1>4, <1>8, <2>2, <3>1 DEF Showing
    <3>3. QED
      BY <1>1, <2>2, <3>1, <3>2 DEF OnlyAnswersFit
  <2>3. QED
    BY <1>1, <2>1, <2>2
<1>9. QED
  BY <1>7, <1>8 DEF OnlyAnswersFit, IsCurrent

LEMMA EffectIsEnough ==
    ASSUME AssistantInv, NEW f \in Flows, Effect(f), PagesTurn(f)
    PROVE  /\ AssistantInv'
           /\ \A g \in Generations : state'[g] # state[g] => state'[g] \in Later(state[g])
<1>1. /\ AssistantTypeOK /\ SupersededIsOver
      /\ SessionsTurn /\ HandlerTurns(f) /\ ServiceGoesOn(f)
      /\ ControllerTurns /\ HistoryGrows /\ CompletionsAreShown
  BY DEF AssistantInv, Effect
<1>2. /\ generation' \in 0..MaxGeneration /\ generation <= generation'
      /\ state' \in [Generations -> Lifecycle]
      /\ \A g \in Generations : state'[g] = "idle" <=> generation' < g
      /\ SupersededIsOver'
      /\ \A g \in Generations : state'[g] # state[g] => state'[g] \in Later(state[g])
  BY <1>1, SessionsTurnWell
<1>3. AssistantTypeOK'
  <2>1. flow' \in [Flows -> FlowState]
    BY <1>1 DEF HandlerTurns
  <2>2. \A h \in Flows : flow'[h].gen <= generation'
    <3>1. \A h \in Flows : flow[h] \in FlowState /\ flow[h].gen <= generation /\ flow[h].gen \in Nat
      BY <1>1, AssistantAssumption DEF AssistantTypeOK, FlowState
    <3>2. generation \in Nat /\ generation' \in Nat
      BY <1>1, <1>2, AssistantAssumption DEF AssistantTypeOK
    <3>3. QED
      BY <1>1, <1>2, <3>1, <3>2 DEF HandlerTurns
  <2>4. /\ platform' \in {"android", "ios"} /\ replies' \in [Generations -> Nat]
        /\ acked' \subseteq Generations \X Nat
    BY <1>1 DEF HistoryGrows, AssistantTypeOK
  <2>5. ai' \in Controller
    BY <1>1 DEF ControllerTurns
  <2>6. \A g \in Generations' : state'[g] = "idle" <=> generation' < g
    BY <1>2 DEF Generations
  <2>7. QED
    BY <1>2, <2>1, <2>2, <2>4, <2>5, <2>6
    DEF AssistantTypeOK, Generations, Lifecycle, Terminal, Forward, Controller, FlowState, Waits
<1>4. (ai.held \in {0, generation})'
  BY <1>1 DEF ControllerTurns
<1>5. OnlyAnswersFit'
  BY <1>1, <1>2, OnlyAnswersStay
<1>6. SomeoneServesIt'
  <2>1. SUFFICES ASSUME NEW g \in Generations, state'[g] \in DOMAIN Serving
                 PROVE  \E h \in Flows : flow'[h].gen = g /\ flow'[h].pc \in Serving[state'[g]]
    BY DEF SomeoneServesIt, Generations, Serving
  <2>2. CASE flow'[f].gen = g /\ flow'[f].pc \in Serving[state'[g]]
    BY <2>2
  <2>3. CASE /\ state'[g] = state[g]
             /\ ~(flow[f].gen = g /\ flow[f].pc \in Serving[state[g]])
    <3>1. PICK h \in Flows : flow[h].gen = g /\ flow[h].pc \in Serving[state[g]]
      BY <2>1, <2>3 DEF AssistantInv, SomeoneServesIt
    <3>2. h # f
      BY <2>3, <3>1
    <3>3. flow'[h] = flow[h]
      BY <1>1, <3>2 DEF HandlerTurns
    <3>4. QED
      BY <2>3, <3>1, <3>3
  <2>4. QED
    BY <1>1, <2>1, <2>2, <2>3 DEF ServiceGoesOn
<1>7. PagesAreOfAnswers'
  <2>1. ASSUME NEW h \in Flows, flow'[h].pc \in {"first", "unsent", "pausing", "last", "autoPage"}
        PROVE  StaysOnScreen(flow'[h].gen) /\ flow'[h].reply \in 1..replies'[flow'[h].gen]
    <3>1. CASE h = f
      BY <1>1, <2>1, <3>1 DEF HandlerTurns, Showing
    <3>2. CASE h # f
      <4>1. flow'[h] = flow[h]
        BY <1>1, <3>2 DEF HandlerTurns
      <4>2. OnScreen(flow[h].gen) /\ flow[h].reply \in 1..replies[flow[h].gen]
        BY <2>1, <4>1 DEF AssistantInv, PagesAreOfAnswers
      <4>3. StaysOnScreen(flow[h].gen)
        BY <1>1, <4>2, ScreenStays
      <4>4. flow[h].gen \in Generations
        BY <4>2 DEF OnScreen
      <4>5. /\ replies[flow[h].gen] <= replies'[flow[h].gen]
            /\ replies[flow[h].gen] \in Nat /\ replies'[flow[h].gen] \in Nat
        BY <1>1, <4>4 DEF HistoryGrows, AssistantTypeOK
      <4>6. QED
        BY <4>1, <4>2, <4>3, <4>5
    <3>3. QED
      BY <3>1, <3>2
  <2>2. ai'.pageTimer # 0 => StaysOnScreen(ai'.pageTimer) /\ replies'[ai'.pageTimer] >= 1
    BY <1>1 DEF ControllerTurns
  <2>3. QED
    BY <2>1, <2>2 DEF PagesAreOfAnswers, OnScreen, StaysOnScreen, Generations
<1>8. CompletionsStand'
  <2>1. SUFFICES ASSUME NEW g \in Generations, state'[g] = "completed"
                 PROVE  MayComplete(g)
    BY DEF CompletionsStand, MayComplete, Generations
  <2>2. CASE state[g] = "completed"
    <3>1. replies[g] >= 1 /\ (replies[g] = 1 => <<g, 1>> \in acked)
      BY <2>2 DEF AssistantInv, CompletionsStand
    <3>2. replies[g] <= replies'[g] /\ replies[g] \in Nat /\ replies'[g] \in Nat
      BY <1>1 DEF HistoryGrows, AssistantTypeOK
    <3>3. acked \subseteq acked'
      BY <1>1 DEF HistoryGrows
    <3>4. QED
      BY <3>1, <3>2, <3>3 DEF MayComplete
  <2>3. CASE state[g] # "completed"
    BY <1>1, <2>1, <2>3 DEF CompletionsAreShown
  <2>4. QED
    BY <2>2, <2>3
<1>9. QED
  BY <1>2, <1>3, <1>4, <1>5, <1>6, <1>7, <1>8 DEF AssistantInv

-----------------------------------------------------------------------------
(* What the steps are made of                                              *)

LEMMA ServingIs ==
    /\ DOMAIN Serving = {"acquiringAudio", "finalizingSpeech", "thinking"}
    /\ Serving["acquiringAudio"] = {"listening", "bootstrapping", "starting", "opening"}
    /\ Serving["finalizingSpeech"] = {"stopping", "transcribing"}
    /\ Serving["thinking"] = {"asking"}
BY DEF Serving

LEMMA ClearedIs ==
    ASSUME AssistantTypeOK
    PROVE  Cleared \in Controller /\ Cleared.held = 0 /\ Cleared.pageTimer = 0
<1>1. /\ Cleared = [Vacant EXCEPT !.sending = ai.sending]
      /\ ai.sending \in BOOLEAN
  BY DEF Cleared, AssistantTypeOK, Controller
<1>2. Vacant \in Controller /\ Vacant.held = 0 /\ Vacant.pageTimer = 0
  BY AssistantAssumption DEF Vacant, Controller
<1>3. QED
  BY <1>1, <1>2 DEF Controller

LEMMA RowTurns ==
    ASSUME AssistantInv, NEW f \in Flows, NEW r \in FlowState, flow' = [flow EXCEPT ![f] = r],
           r.gen <= generation',
           r.pc \in Showing => StaysOnScreen(r.gen) /\ r.reply \in 1..replies'[r.gen]
    PROVE  HandlerTurns(f) /\ flow'[f] = r
<1>1. flow \in [Flows -> FlowState]
  BY DEF AssistantInv, AssistantTypeOK
<1>2. flow'[f] = r
  BY <1>1
<1>3. flow' \in [Flows -> FlowState] /\ \A h \in Flows \ {f} : flow'[h] = flow[h]
  BY <1>1
<1>4. QED
  BY <1>2, <1>3 DEF HandlerTurns

LEMMA GenTypes ==
    ASSUME AssistantTypeOK
    PROVE  /\ generation \in Nat /\ generation <= MaxGeneration
           /\ \A f \in Flows : flow[f] \in FlowState /\ flow[f].gen \in 0..MaxGeneration
                               /\ flow[f].gen <= generation /\ flow[f].gen \in Nat
BY AssistantAssumption DEF AssistantTypeOK, FlowState

LEMMA GoesTurns ==
    ASSUME AssistantInv, SessionsTurn, HistoryGrows,
           NEW f \in Flows, NEW wait \in Waits, Goes(f, wait),
           wait \in Showing => flow[f].pc \in Showing
    PROVE  HandlerTurns(f) /\ flow'[f].pc = wait /\ flow'[f].gen = flow[f].gen
<1>1. AssistantTypeOK
  BY DEF AssistantInv
<1> DEFINE r == [flow[f] EXCEPT !.pc = wait]
<1>2. /\ flow[f] \in FlowState /\ flow[f].gen <= generation /\ flow[f].gen \in Nat
      /\ generation \in Nat
  BY <1>1, GenTypes
<1>3. r \in FlowState /\ r.pc = wait /\ r.gen = flow[f].gen /\ r.reply = flow[f].reply
  BY <1>2 DEF FlowState
<1>4. flow' = [flow EXCEPT ![f] = r]
  BY DEF Goes
<1>5. r.gen <= generation'
  <2>1. generation <= generation' /\ generation' \in Nat
    BY <1>1, SessionsTurnWell, AssistantAssumption DEF AssistantInv
  <2>2. QED
    BY <1>2, <1>3, <2>1
<1>6. ASSUME r.pc \in Showing
      PROVE  StaysOnScreen(r.gen) /\ r.reply \in 1..replies'[r.gen]
  <2>1. OnScreen(flow[f].gen) /\ flow[f].reply \in 1..replies[flow[f].gen]
    BY <1>3, <1>6 DEF Showing, AssistantInv, PagesAreOfAnswers
  <2>2. StaysOnScreen(flow[f].gen)
    BY <1>1, <2>1, ScreenStays
  <2>3. flow[f].gen \in Generations
    BY <2>1 DEF OnScreen
  <2>4. /\ replies[flow[f].gen] <= replies'[flow[f].gen]
        /\ replies[flow[f].gen] \in Nat /\ replies'[flow[f].gen] \in Nat
    BY <1>1, <2>3 DEF HistoryGrows, AssistantTypeOK
  <2>5. QED
    BY <1>3, <2>1, <2>2, <2>4
<1> HIDE DEF r
<1>7. QED
  BY <1>3, <1>4, <1>5, <1>6, RowTurns

LEMMA ReturnsTurns ==
    ASSUME AssistantInv, SessionsTurn, NEW f \in Flows, Returns(f)
    PROVE  HandlerTurns(f) /\ flow'[f].pc = "idle"
<1>1. AtRest \in FlowState /\ AtRest.pc = "idle" /\ AtRest.gen = 0
  BY AssistantAssumption DEF AtRest, FlowState
<1>2. generation' \in Nat
  BY SessionsTurnWell, AssistantAssumption DEF AssistantInv
<1>3. AtRest.gen <= generation'
  BY <1>1, <1>2
<1>4. AtRest.pc \notin Showing
  BY <1>1 DEF Showing
<1>5. flow' = [flow EXCEPT ![f] = AtRest]
  BY DEF Returns
<1>6. QED
  BY <1>1, <1>3, <1>4, <1>5, RowTurns

LEMMA ReplyEndsTurns ==
    ASSUME AssistantInv, SessionsTurn, HistoryGrows, NEW f \in Flows, ReplyEnds(f)
    PROVE  HandlerTurns(f)
<1>1. "failing" \in Waits /\ "failing" \notin Showing
  BY DEF Waits, Showing
<1>2. CASE flow[f].failing
  <2>1. Goes(f, "failing")
    BY <1>2 DEF ReplyEnds
  <2>2. QED
    BY <1>1, <2>1, GoesTurns
<1>3. CASE ~flow[f].failing
  <2>1. Returns(f)
    BY <1>3 DEF ReplyEnds
  <2>2. QED
    BY <2>1, ReturnsTurns
<1>4. QED
  BY <1>2, <1>3

LEMMA ControllerStays ==
    ASSUME AssistantInv, SessionsTurn, HistoryGrows, ai' \in Controller,
           ai'.held \in {0, generation'}, ai'.pageTimer \in {0, ai.pageTimer}
    PROVE  ControllerTurns
<1>1. AssistantTypeOK
  BY DEF AssistantInv
<1>2. ASSUME ai'.pageTimer # 0
      PROVE  StaysOnScreen(ai'.pageTimer) /\ replies'[ai'.pageTimer] >= 1
  <2>1. ai'.pageTimer = ai.pageTimer /\ OnScreen(ai.pageTimer) /\ replies[ai.pageTimer] >= 1
    BY <1>2 DEF AssistantInv, PagesAreOfAnswers
  <2>2. StaysOnScreen(ai.pageTimer)
    BY <1>1, <2>1, ScreenStays
  <2>3. ai.pageTimer \in Generations
    BY <2>1 DEF OnScreen
  <2>4. /\ replies[ai.pageTimer] <= replies'[ai.pageTimer]
        /\ replies[ai.pageTimer] \in Nat /\ replies'[ai.pageTimer] \in Nat
    BY <1>1, <2>3 DEF HistoryGrows, AssistantTypeOK
  <2>5. QED
    BY <2>1, <2>2, <2>4
<1>3. QED
  BY <1>2 DEF ControllerTurns

\* A step that leaves the sessions where they are.
LEMMA StandingEffect ==
    ASSUME AssistantInv, NEW f \in Flows,
           UNCHANGED <<generation, state>>, HistoryGrows,
           HandlerTurns(f), ServiceGoesOn(f), ControllerTurns
    PROVE  Effect(f)
<1>1. SessionsTurn
  BY StandingMoves DEF SessionsTurn, AssistantInv
<1>2. CompletionsAreShown
  BY DEF CompletionsAreShown
<1>3. QED
  BY <1>1, <1>2 DEF Effect

Servers == {"listening", "bootstrapping", "starting", "opening", "stopping", "transcribing", "asking"}

\* A handler whose session is over or went on, or that served none.
LEMMA ServedOn ==
    ASSUME AssistantInv, NEW f \in Flows,
           \A g \in Generations : state'[g] = state[g] \/ state'[g] \in Terminal,
           \/ flow[f].pc \notin Servers
           \/ \A g \in Generations : g = flow[f].gen => state'[g] \notin DOMAIN Serving
           \/ \A g \in Generations : g = flow[f].gen /\ flow[f].pc \in Serving[state'[g]] =>
                 flow'[f].gen = g /\ flow'[f].pc \in Serving[state'[g]]
    PROVE  ServiceGoesOn(f)
<1>1. ASSUME NEW g \in Generations, state'[g] \in DOMAIN Serving,
             ~(flow'[f].gen = g /\ flow'[f].pc \in Serving[state'[g]])
      PROVE  /\ state'[g] = state[g]
             /\ ~(flow[f].gen = g /\ flow[f].pc \in Serving[state[g]])
  <2>1. state'[g] = state[g]
    BY <1>1, ServingIs DEF Terminal
  <2>2. Serving[state[g]] \subseteq Servers
    BY <1>1, <2>1, ServingIs DEF Servers
  <2>3. QED
    BY <1>1, <2>1, <2>2
<1>2. QED
  BY <1>1 DEF ServiceGoesOn

\* A session that is not current has no use for its handler.
LEMMA NobodyServesThePast ==
    ASSUME AssistantInv, NEW g \in Generations, g <= generation, ~IsCurrent(g)
    PROVE  state[g] \in Terminal
<1>1. g # 0 /\ g < generation
  BY GenTypes DEF AssistantInv, IsCurrent, Generations
<1>2. QED
  BY <1>1 DEF AssistantInv, SupersededIsOver, Over

LEMMA EndedEffect ==
    ASSUME AssistantInv, NEW f \in Flows, NEW g \in 0..MaxGeneration, NEW s \in Terminal,
           generation' = generation, state' = Ended(g, s),
           s = "completed" => OnScreen(g) /\ MayComplete(g),
           HistoryGrows, HandlerTurns(f), ControllerTurns,
           \/ flow[f].pc \notin Servers
           \/ flow[f].gen = g
           \/ flow'[f].gen = flow[f].gen /\ \A h \in DOMAIN Serving : flow[f].pc \in Serving[h] => flow'[f].pc \in Serving[h]
    PROVE  Effect(f)
<1>1. AssistantTypeOK
  BY DEF AssistantInv
<1>2. SessionsMove /\ (g # 0 /\ g = generation => state'[g] \in Terminal)
  BY <1>1, EndedMoves
<1>3. \A h \in Generations : state'[h] = state[h] \/ (h = g /\ state'[h] = s)
  <2>1. state' = state \/ state' = [state EXCEPT ![g] = s]
    BY DEF Ended
  <2>2. \A h \in Generations : [state EXCEPT ![g] = s][h] = IF h = g THEN s ELSE state[h]
    BY <1>1 DEF AssistantTypeOK
  <2>3. QED
    BY <2>1, <2>2
<1>4. ServiceGoesOn(f)
  <2>1. ASSUME flow[f].gen = g, NEW h \in Generations, h = g
        PROVE  state'[h] \notin DOMAIN Serving
    <3>1. h <= generation /\ h # 0
      BY <1>1, <2>1, GenTypes DEF Generations
    <3>2. CASE h = generation
      BY <1>2, <2>1, <3>1, <3>2, ServingIs DEF Terminal
    <3>3. CASE h # generation
      <4>1. state[h] \in Terminal
        BY <3>1, <3>3, NobodyServesThePast DEF IsCurrent
      <4>2. QED
        BY <1>3, <4>1, ServingIs DEF Terminal
    <3>4. QED
      BY <3>2, <3>3
  <2>2. \A h \in Generations : state'[h] = state[h] \/ state'[h] \in Terminal
    BY <1>3
  <2>3. CASE flow[f].gen = g
    BY <2>1, <2>2, <2>3, ServedOn
  <2>4. CASE flow[f].pc \notin Servers
    BY <2>2, <2>4, ServedOn
  <2>5. CASE flow'[f].gen = flow[f].gen /\ \A h \in DOMAIN Serving : flow[f].pc \in Serving[h] => flow'[f].pc \in Serving[h]
    <3>1. ASSUME NEW h \in Generations, state'[h] \in DOMAIN Serving
          PROVE  \/ flow'[f].gen = h /\ flow'[f].pc \in Serving[state'[h]]
                 \/ /\ state'[h] = state[h]
                    /\ ~(flow[f].gen = h /\ flow[f].pc \in Serving[state[h]])
      <4>1. state'[h] = state[h]
        BY <2>2, <3>1, ServingIs DEF Terminal
      <4>2. QED
        BY <2>5, <3>1, <4>1
    <3>2. QED
      BY <3>1 DEF ServiceGoesOn
  <2>6. QED
    BY <2>3, <2>4, <2>5
<1>5. CompletionsAreShown
  BY <1>3 DEF CompletionsAreShown
<1>6. QED
  BY <1>2, <1>4, <1>5 DEF Effect, SessionsTurn

LEMMA HistoryStands ==
    ASSUME AssistantInv, UNCHANGED <<platform, history>>
    PROVE  HistoryGrows
<1>1. UNCHANGED <<platform, replies, acked>>
  BY DEF history
<1>2. replies \in [Generations -> Nat] /\ acked \subseteq Generations \X Nat
  BY DEF AssistantInv, AssistantTypeOK
<1>3. \A g \in Generations : replies[g] \in Nat /\ replies[g] <= replies[g]
  BY <1>2
<1>4. platform' = platform
  BY <1>1
<1>5. replies' \in [Generations -> Nat] /\ \A g \in Generations : replies[g] <= replies'[g]
  BY <1>1, <1>2, <1>3
<1>6. acked \subseteq acked' /\ acked' \subseteq Generations \X Nat
  BY <1>1, <1>2
<1>7. QED
  BY <1>4, <1>5, <1>6 DEF HistoryGrows

LEMMA ControllerCleared ==
    ASSUME AssistantInv, ai' = Cleared
    PROVE  ControllerTurns
BY ClearedIs DEF AssistantInv, ControllerTurns

LEMMA FailsAndClearsEffect ==
    ASSUME AssistantInv, NEW f \in Flows, FailsAndClears(f)
    PROVE  Effect(f)
<1>1. AssistantTypeOK /\ flow[f].gen \in 0..MaxGeneration
  BY GenTypes DEF AssistantInv
<1>2. /\ state' = Ended(flow[f].gen, "failed") /\ ai' = Cleared /\ Goes(f, "cleared")
      /\ generation' = generation /\ UNCHANGED <<platform, history>>
  BY DEF FailsAndClears
<1>3. "failed" \in Terminal /\ "cleared" \in Waits /\ "cleared" \notin Showing /\ "failed" # "completed"
  BY DEF Terminal, Waits, Showing
<1>4. HistoryGrows
  BY <1>2, HistoryStands
<1>5. SessionsTurn
  BY <1>1, <1>2, <1>3, EndedMoves DEF SessionsTurn
<1>6. HandlerTurns(f)
  BY <1>2, <1>3, <1>4, <1>5, GoesTurns
<1>7. ControllerTurns
  BY <1>2, ControllerCleared
<1>8. QED
  BY <1>1, <1>2, <1>3, <1>4, <1>6, <1>7, EndedEffect

LEMMA SessionsStand ==
    ASSUME AssistantInv, UNCHANGED <<generation, state>>
    PROVE  SessionsTurn
BY StandingMoves DEF SessionsTurn, AssistantInv

\* A handler that does not serve goes on alone.
LEMMA GoesOnAlone ==
    ASSUME AssistantInv, NEW f \in Flows, UNCHANGED <<generation, state, platform, history>>,
           flow[f].pc \notin Servers \/ ~IsCurrent(flow[f].gen),
           ControllerTurns,
           Returns(f) \/ ReplyEnds(f) \/ \E wait \in Waits \ Showing : Goes(f, wait)
    PROVE  Effect(f)
<1>1. HistoryGrows /\ SessionsTurn
  BY HistoryStands, SessionsStand
<1>2. HandlerTurns(f)
  BY <1>1, ReturnsTurns, ReplyEndsTurns, GoesTurns
<1>3. ServiceGoesOn(f)
  <2>1. CASE flow[f].pc \notin Servers
    BY <2>1, ServedOn
  <2>2. CASE ~IsCurrent(flow[f].gen)
    <3>1. \A g \in Generations : g = flow[f].gen => state[g] \in Terminal
      BY <2>2, GenTypes, NobodyServesThePast DEF AssistantInv
    <3>2. \A g \in Generations : g = flow[f].gen => state'[g] \notin DOMAIN Serving
      BY <3>1, ServingIs DEF Terminal
    <3>3. QED
      BY <3>2, ServedOn
  <2>3. QED
    BY <2>1, <2>2
<1>4. QED
  BY <1>1, <1>2, <1>3, StandingEffect

LEMMA ControllerStands ==
    ASSUME AssistantInv, UNCHANGED <<generation, state, platform, history>>,
           ai' \in Controller, ai'.held \in {0, ai.held}, ai'.pageTimer \in {0, ai.pageTimer}
    PROVE  ControllerTurns
<1>1. ai.held \in {0, generation'}
  BY DEF AssistantInv
<1>2. QED
  BY <1>1, HistoryStands, SessionsStand, ControllerStays

\* What moves a serving handler on, with its session, to the next wait.
LEMMA ServesOn ==
    ASSUME AssistantInv, NEW f \in Flows, NEW wait \in Waits \ Showing, Goes(f, wait),
           UNCHANGED <<generation, state, platform, history>>, ControllerTurns,
           \A s \in DOMAIN Serving : flow[f].pc \in Serving[s] => wait \in Serving[s]
    PROVE  Effect(f)
<1>1. HistoryGrows /\ SessionsTurn
  BY HistoryStands, SessionsStand
<1>2. HandlerTurns(f) /\ flow'[f].pc = wait /\ flow'[f].gen = flow[f].gen
  BY <1>1, GoesTurns
<1>3. ServiceGoesOn(f)
  BY <1>2 DEF ServiceGoesOn
<1>4. QED
  BY <1>1, <1>2, <1>3, StandingEffect

LEMMA ReplyEffect ==
    ASSUME AssistantInv, NEW f \in Flows, NEW g, NEW n \in 1..MaxPages, NEW failing \in BOOLEAN,
           NEW moved \in [Generations -> Lifecycle], Reply(f, g, n, failing, moved),
           IsCurrent(g), flow[f].gen = g,
           \A h \in Generations : h # g => moved[h] = state[h],
           moved[g] \in {"rendering"} \cup Terminal,
           moved[g] # state[g] => state[g] \in Live /\ moved[g] \in Later(state[g]),
           moved[g] = "completed" => state[g] = "completed"
    PROVE  Effect(f)
<1>1. AssistantTypeOK /\ g \in Generations /\ g = generation /\ g # 0
  BY DEF AssistantInv, AssistantTypeOK, IsCurrent, Generations
<1>2. generation' = generation /\ platform' = platform /\ acked' = acked
  BY DEF Reply
<1>3. /\ state' \in [Generations -> Lifecycle]
      /\ \A h \in Generations : h # g => state'[h] = state[h]
      /\ state'[g] \in {"rendering"} \cup Terminal
      /\ state'[g] # state[g] => state[g] \in Live /\ state'[g] \in Later(state[g])
      /\ state'[g] = "completed" => state[g] = "completed"
  BY DEF Reply
<1>4. SessionsTurn
  BY <1>1, <1>2, <1>3 DEF SessionsMove, SessionsTurn
<1>5. StaysOnScreen(g)
  BY <1>1, <1>2, <1>3 DEF StaysOnScreen, Generations
<1>6. HistoryGrows
  <2>1. replies \in [Generations -> Nat] /\ acked \subseteq Generations \X Nat
    BY <1>1 DEF AssistantTypeOK
  <2>2. replies' = [replies EXCEPT ![g] = @ + 1]
    BY DEF Reply
  <2>3. replies' \in [Generations -> Nat] /\ \A h \in Generations : replies[h] <= replies'[h]
    BY <1>1, <2>1, <2>2
  <2>4. QED
    BY <1>1, <1>2, <2>1, <2>3 DEF HistoryGrows
<1>7. HandlerTurns(f)
  <2> DEFINE wait == IF ai.running THEN "first" ELSE "unsent"
             r == [AtRest EXCEPT !.pc = wait, !.gen = g, !.failing = failing,
                                 !.reply = replies[g] + 1, !.pages = n]
  <2>1. flow' = [flow EXCEPT ![f] = r] /\ replies' = [replies EXCEPT ![g] = @ + 1]
    BY DEF Reply
  <2>2. replies[g] \in Nat /\ replies'[g] = replies[g] + 1
    BY <1>1, <2>1 DEF AssistantTypeOK
  <2>3. r \in FlowState /\ r.gen = g /\ r.reply = replies[g] + 1
    <3>1. AtRest \in FlowState
      BY AssistantAssumption DEF AtRest, FlowState
    <3>2. wait \in Waits /\ g \in 0..MaxGeneration /\ replies[g] + 1 \in Nat /\ n \in 0..MaxPages
      BY <1>1, <2>2, AssistantAssumption DEF Waits, Generations
    <3> HIDE DEF wait
    <3>3. QED
      BY <3>1, <3>2 DEF FlowState
  <2>4. r.gen <= generation' /\ r.reply \in 1..replies'[r.gen]
    BY <1>1, <1>2, <2>2, <2>3, GenTypes
  <2> HIDE DEF r
  <2>5. QED
    BY <1>5, <2>1, <2>3, <2>4, RowTurns
<1>8. ControllerTurns
  <2>1. ai' = [ai EXCEPT !.manual = FALSE, !.pages = n, !.page = 0]
    BY DEF Reply
  <2>2. ai \in Controller /\ n \in 0..MaxPages
    BY <1>1, AssistantAssumption DEF AssistantTypeOK
  <2>3. ai' \in Controller /\ ai'.held = ai.held /\ ai'.pageTimer = ai.pageTimer
    BY <2>1, <2>2 DEF Controller
  <2>4. ai.held \in {0, generation'}
    BY <1>2 DEF AssistantInv
  <2>5. QED
    BY <1>4, <1>6, <2>3, <2>4, ControllerStays
<1>9. ServiceGoesOn(f)
  <2>1. state'[g] \notin DOMAIN Serving
    BY <1>3, ServingIs DEF Terminal
  <2>2. QED
    BY <1>3, <2>1 DEF ServiceGoesOn
<1>10. CompletionsAreShown
  BY <1>3 DEF CompletionsAreShown
<1>11. QED
  BY <1>4, <1>6, <1>7, <1>8, <1>9, <1>10 DEF Effect

-----------------------------------------------------------------------------
(* Handler by handler                                                      *)

LEMMA ClearingSteps ==
    ASSUME AssistantInv, NEW f \in Flows, NativeStopped(f) \/ ClearEnds(f)
    PROVE  Effect(f)
<1>1. CASE ClearEnds(f)
  <2>1. ai' = [ai EXCEPT !.sending = FALSE] /\ flow[f].pc = "cleared" /\ ReplyEnds(f)
        /\ UNCHANGED <<generation, state, platform, history>>
    BY <1>1 DEF ClearEnds
  <2>2. ai' \in Controller /\ ai'.held = ai.held /\ ai'.pageTimer = ai.pageTimer
    BY <2>1 DEF AssistantInv, AssistantTypeOK, Controller
  <2>3. "cleared" \notin Servers
    BY DEF Servers
  <2>4. QED
    BY <2>1, <2>2, <2>3, ControllerStands, GoesOnAlone
<1>2. CASE NativeStopped(f)
  <2>1. /\ ai' = Cleared /\ flow[f].pc \in {"failing", "cancelling"}
        /\ flow' = [flow EXCEPT ![f] = [flow[f] EXCEPT !.pc = "cleared", !.failing = FALSE]]
        /\ UNCHANGED <<generation, state, platform, history>>
    BY <1>2 DEF NativeStopped
  <2> DEFINE r == [flow[f] EXCEPT !.pc = "cleared", !.failing = FALSE]
  <2>2. /\ flow[f] \in FlowState /\ flow[f].gen <= generation
    BY GenTypes DEF AssistantInv
  <2>3. r \in FlowState /\ r.gen = flow[f].gen /\ r.pc = "cleared"
    BY <2>2 DEF FlowState, Waits
  <2>4. r.gen <= generation' /\ r.pc \notin Showing
    BY <2>1, <2>2, <2>3 DEF Showing
  <2> HIDE DEF r
  <2>5. HandlerTurns(f)
    BY <2>1, <2>3, <2>4, RowTurns DEF r
  <2>6. ServiceGoesOn(f)
    BY <2>1, ServedOn DEF Servers
  <2>7. QED
    BY <2>1, <2>5, <2>6, HistoryStands, ControllerCleared, StandingEffect
<1>3. QED
  BY <1>1, <1>2

LEMMA FirstPageSteps ==
    ASSUME AssistantInv, NEW f \in Flows, FirstPage(f) \/ PauseEnds(f) \/ SendThrows(f)
    PROVE  Effect(f)
<1> DEFINE g == flow[f].gen
<1>1. /\ ai \in Controller /\ \A wait \in Showing : wait \notin Servers
      /\ {"first", "unsent", "pausing", "last"} \subseteq Showing /\ {"pausing", "last"} \subseteq Waits
  BY DEF AssistantInv, AssistantTypeOK, Servers, Showing, Waits
<1>2. CASE FirstPage(f)
  <2>0. flow[f].pc \in {"first", "unsent"}
    BY <1>2 DEF FirstPage
  <2>1. CASE ReplyEnds(f) /\ UNCHANGED <<generation, state, ai, platform, history>>
    BY <1>1, <2>0, <2>1, ControllerStands, GoesOnAlone
  <2>2. CASE Goes(f, "pausing") /\ UNCHANGED <<generation, state, ai, platform, history>>
    <3>1. HistoryGrows /\ SessionsTurn /\ ControllerTurns
      BY <1>1, <2>2, HistoryStands, SessionsStand, ControllerStands
    <3>2. HandlerTurns(f)
      BY <1>1, <2>0, <2>2, <3>1, GoesTurns DEF Showing
    <3>3. ServiceGoesOn(f)
      BY <1>1, <2>0, <2>2, ServedOn
    <3>4. QED
      BY <2>2, <3>1, <3>2, <3>3, StandingEffect
  <2>3. CASE /\ ai' = [ai EXCEPT !.pageTimer = g] /\ ReplyEnds(f)
             /\ UNCHANGED <<generation, state, platform, history>>
    <3>1. OnScreen(g) /\ flow[f].reply \in 1..replies[g]
      BY <1>1, <2>0 DEF AssistantInv, PagesAreOfAnswers
    <3>2. HistoryGrows /\ SessionsTurn
      BY <2>3, HistoryStands, SessionsStand
    <3>3. StaysOnScreen(g) /\ replies'[g] >= 1
      <4>1. StaysOnScreen(g)
        BY <3>1, <3>2, ScreenStays DEF AssistantInv
      <4>2. g \in Generations /\ replies[g] \in Nat
        BY <3>1 DEF OnScreen, AssistantInv, AssistantTypeOK
      <4>3. replies' = replies
        BY <2>3 DEF history
      <4>4. QED
        BY <3>1, <4>1, <4>2, <4>3
    <3>4. g \in 0..MaxGeneration
      BY GenTypes DEF AssistantInv
    <3> HIDE DEF g
    <3>5. ai' \in Controller /\ ai'.held = ai.held /\ ai'.pageTimer = g
      BY <1>1, <2>3, <3>4 DEF Controller
    <3>6. ControllerTurns
      BY <2>3, <3>3, <3>5 DEF ControllerTurns, AssistantInv
    <3>7. QED
      BY <1>1, <2>0, <2>3, <3>6, GoesOnAlone
  <2>4. CASE FailsAndClears(f)
    BY <2>4, FailsAndClearsEffect
  <2>5. QED
    BY <1>2, <2>1, <2>2, <2>3, <2>4 DEF FirstPage
<1>3. CASE PauseEnds(f)
  <2>1. flow[f].pc = "pausing" /\ UNCHANGED <<generation, state, ai, platform, history>>
    BY <1>3 DEF PauseEnds
  <2>2. CASE ReplyEnds(f)
    BY <1>1, <2>1, <2>2, ControllerStands, GoesOnAlone
  <2>3. CASE Goes(f, "last")
    <3>1. HistoryGrows /\ SessionsTurn /\ ControllerTurns
      BY <1>1, <2>1, HistoryStands, SessionsStand, ControllerStands
    <3>2. HandlerTurns(f)
      BY <1>1, <2>1, <2>3, <3>1, GoesTurns
    <3>3. ServiceGoesOn(f)
      BY <1>1, <2>1, ServedOn
    <3>4. QED
      BY <2>1, <3>1, <3>2, <3>3, StandingEffect
  <2>4. QED
    BY <1>3, <2>2, <2>3 DEF PauseEnds
<1>4. CASE SendThrows(f)
  <2>1. /\ flow[f].pc \in {"first", "last"} /\ ReplyEnds(f)
        /\ UNCHANGED <<generation, state, ai, platform, history>>
    BY <1>4 DEF SendThrows
  <2>2. QED
    BY <1>1, <2>1, ControllerStands, GoesOnAlone
<1>5. QED
  BY <1>2, <1>3, <1>4

\* What is acknowledged is a page of an answer of the session.
LEMMA ShownIs ==
    ASSUME AssistantInv, NEW f \in Flows, flow[f].pc \in Showing,
           Shown(f) \/ UNCHANGED acked, UNCHANGED <<platform, replies>>
    PROVE  /\ HistoryGrows /\ OnScreen(flow[f].gen) /\ replies'[flow[f].gen] >= 1
           /\ Shown(f) => MayComplete(flow[f].gen)
<1>1. OnScreen(flow[f].gen) /\ flow[f].reply \in 1..replies[flow[f].gen]
  BY DEF AssistantInv, PagesAreOfAnswers, Showing
<1>2. flow[f].gen \in Generations /\ flow[f].reply \in Nat
  BY <1>1, GenTypes DEF OnScreen, AssistantInv, FlowState
<1>3. replies \in [Generations -> Nat] /\ acked \subseteq Generations \X Nat
  BY DEF AssistantInv, AssistantTypeOK
<1>4. \A g \in Generations : replies[g] <= replies'[g]
  BY <1>3
<1>5. HistoryGrows
  BY <1>2, <1>3, <1>4 DEF HistoryGrows, Shown
<1>6. replies'[flow[f].gen] >= 1 /\ (replies'[flow[f].gen] = 1 => flow[f].reply = 1)
  BY <1>1, <1>2, <1>3
<1>7. QED
  BY <1>1, <1>5, <1>6 DEF MayComplete, Shown

\* Of an answer that is the only one there is no page but the one sent.
LEMMA LastPageSteps ==
    ASSUME AssistantInv, NEW f \in Flows, LastPage(f)
    PROVE  Effect(f)
<1> DEFINE g == flow[f].gen
<1>1. flow[f].pc = "last" /\ "last" \notin Servers /\ "last" \in Showing /\ ai \in Controller
  BY DEF LastPage, Servers, Showing, AssistantInv, AssistantTypeOK
<1>2. CASE /\ ReplyEnds(f) /\ state' = Ended(g, "completed")
           /\ IF flow[f].pages = 1 THEN Shown(f) ELSE UNCHANGED acked
           /\ UNCHANGED <<generation, ai, platform, replies>>
  <2>1. /\ HistoryGrows /\ OnScreen(g) /\ g \in 0..MaxGeneration /\ "completed" \in Terminal
        /\ replies'[g] >= 1 /\ (Shown(f) => MayComplete(g))
    BY <1>1, <1>2, ShownIs, GenTypes DEF AssistantInv, Terminal
  <2>2. MayComplete(g)
    <3>1. CASE Shown(f)
      BY <2>1, <3>1
    <3>2. CASE ~Shown(f)
      <4>1. flow[f].pages # 1
        BY <1>2, <3>2
      <4>2. replies[g] # 1
        BY <1>1, <4>1 DEF AssistantInv, OnlyAnswersFit
      <4>3. QED
        BY <1>2, <2>1, <4>2 DEF MayComplete
    <3>3. QED
      BY <3>1, <3>2
  <2>3. SessionsTurn
    <3> HIDE DEF g
    <3>1. QED
      BY <1>2, <2>1, EndedMoves DEF SessionsTurn, AssistantInv
  <2>4. HandlerTurns(f)
    BY <1>2, <2>1, <2>3, ReplyEndsTurns
  <2>5. ControllerTurns
    BY <1>1, <1>2, <2>1, <2>3, ControllerStays DEF AssistantInv
  <2> HIDE DEF g
  <2>6. QED
    BY <1>1, <1>2, <2>1, <2>2, <2>4, <2>5, EndedEffect
<1>3. CASE ReplyEnds(f) /\ UNCHANGED <<generation, state, ai, platform, history>>
  BY <1>1, <1>3, ControllerStands, GoesOnAlone
<1>4. CASE FailsAndClears(f)
  BY <1>4, FailsAndClearsEffect
<1>5. QED
  BY <1>2, <1>3, <1>4 DEF LastPage

LEMMA OsStartSteps ==
    ASSUME AssistantInv, NEW f \in Flows, OsStart(f)
    PROVE  Effect(f)
<1>1. /\ flow[f].pc = "idle" /\ ai' = Cleared /\ Goes(f, "clearing")
      /\ generation' = generation /\ UNCHANGED <<platform, history>>
  BY DEF OsStart
<1>2. state' = Ended(ai.held, "cancelled")
  BY DEF OsStart, Ended, IsCurrent
<1>3. /\ ai.held \in 0..MaxGeneration /\ "cancelled" \in Terminal /\ "cancelled" # "completed"
      /\ "clearing" \in Waits \ Showing /\ "idle" \notin Servers
  BY DEF AssistantInv, AssistantTypeOK, Controller, Terminal, Waits, Showing, Servers
<1>4. HistoryGrows /\ ControllerTurns
  BY <1>1, HistoryStands, ControllerCleared
<1>5. SessionsTurn
  BY <1>1, <1>2, <1>3, EndedMoves DEF SessionsTurn, AssistantInv
<1>6. HandlerTurns(f)
  BY <1>1, <1>3, <1>4, <1>5, GoesTurns
<1>7. QED
  BY <1>1, <1>2, <1>3, <1>4, <1>6, EndedEffect

LEMMA BeginSessionSteps ==
    ASSUME AssistantInv, NEW f \in Flows, BeginSession(f)
    PROVE  Effect(f)
<1>1. /\ flow[f].pc = "clearing" /\ "clearing" \notin Servers /\ ai \in Controller
      /\ AssistantTypeOK /\ generation \in Nat
  BY GenTypes DEF BeginSession, Servers, AssistantInv, AssistantTypeOK
<1>2. CASE /\ generation < MaxGeneration /\ generation' = generation + 1 /\ state' = Begun
           /\ ai' = [ai EXCEPT !.sending = FALSE, !.held = generation + 1]
           /\ flow' = [flow EXCEPT ![f] = [AtRest EXCEPT !.pc = "listening", !.gen = generation + 1]]
           /\ UNCHANGED <<platform, history>>
  <2>1. SessionBegins
    BY <1>1, <1>2, BeginMoves
  <2>2. SessionsTurn /\ HistoryGrows
    BY <1>2, <2>1, HistoryStands DEF SessionsTurn
  <2>3. generation + 1 \in 0..MaxGeneration
    BY <1>1, <1>2, AssistantAssumption
  <2> DEFINE r == [AtRest EXCEPT !.pc = "listening", !.gen = generation + 1]
  <2>4. r \in FlowState /\ r.pc = "listening" /\ r.gen = generation + 1
    <3>1. AtRest \in FlowState /\ "listening" \in Waits
      BY AssistantAssumption DEF AtRest, FlowState, Waits
    <3>2. QED
      BY <2>3, <3>1 DEF FlowState
  <2>5. r.gen <= generation' /\ r.pc \notin Showing
    BY <1>1, <1>2, <2>4 DEF Showing
  <2> HIDE DEF r
  <2>6. HandlerTurns(f) /\ flow'[f] = r
    BY <1>2, <2>4, <2>5, RowTurns DEF r
  <2>7. ai' \in Controller /\ ai'.held = generation + 1 /\ ai'.pageTimer = ai.pageTimer
    BY <1>1, <1>2, <2>3 DEF Controller
  <2>8. ControllerTurns
    BY <1>2, <2>2, <2>7, ControllerStays
  <2>9. ServiceGoesOn(f)
    <3>1. ASSUME NEW g \in Generations, state'[g] \in DOMAIN Serving
          PROVE  \/ flow'[f].gen = g /\ flow'[f].pc \in Serving[state'[g]]
                 \/ /\ state'[g] = state[g]
                    /\ ~(flow[f].gen = g /\ flow[f].pc \in Serving[state[g]])
      <4>1. CASE g = generation + 1
        BY <2>1, <2>4, <2>6, <4>1, ServingIs DEF SessionBegins
      <4>2. CASE g # generation + 1
        <5>1. state'[g] = state[g] /\ Serving[state[g]] \subseteq Servers
          BY <2>1, <3>1, <4>2, ServingIs DEF SessionBegins, Servers
        <5>2. QED
          BY <1>1, <5>1
      <4>3. QED
        BY <4>1, <4>2
    <3>2. QED
      BY <3>1 DEF ServiceGoesOn
  <2>10. CompletionsAreShown
    BY <2>1 DEF CompletionsAreShown, SessionBegins
  <2>11. QED
    BY <2>2, <2>6, <2>8, <2>9, <2>10 DEF Effect
<1>3. CASE /\ ai' = [ai EXCEPT !.sending = FALSE] /\ Returns(f)
           /\ UNCHANGED <<generation, state, platform, history>>
  <2>1. ai' \in Controller /\ ai'.held = ai.held /\ ai'.pageTimer = ai.pageTimer
    BY <1>1, <1>3 DEF Controller
  <2>2. QED
    BY <1>1, <1>3, <2>1, ControllerStands, GoesOnAlone
<1>4. QED
  BY <1>2, <1>3 DEF BeginSession

LEMMA StartingSteps ==
    ASSUME AssistantInv, NEW f \in Flows, Listening(f) \/ StartThrows(f) \/ Started(f)
    PROVE  Effect(f)
<1>1. /\ ai \in Controller /\ AssistantTypeOK
      /\ {"bootstrapping", "starting", "opening", "failing"} \subseteq Waits \ Showing
  BY DEF AssistantInv, AssistantTypeOK, Waits, Showing
<1>2. CASE Listening(f)
  <2>1. /\ flow[f].pc = "listening" /\ UNCHANGED <<generation, state, platform, history>>
        /\ ai' = [ai EXCEPT !.receiving = TRUE, !.running = TRUE, !.page = 0]
        /\ \E wait \in {"bootstrapping", "starting"} : Goes(f, wait)
    BY <1>2 DEF Listening
  <2>2. ai' \in Controller /\ ai'.held = ai.held /\ ai'.pageTimer = ai.pageTimer
    BY <1>1, <2>1 DEF Controller
  <2>3. ControllerTurns
    BY <2>1, <2>2, ControllerStands
  <2>4. PICK wait \in {"bootstrapping", "starting"} : Goes(f, wait)
    BY <2>1
  <2>5. \A s \in DOMAIN Serving : flow[f].pc \in Serving[s] => wait \in Serving[s]
    BY <2>1, ServingIs
  <2>6. QED
    BY <1>1, <2>1, <2>3, <2>4, <2>5, ServesOn
<1>3. CASE StartThrows(f)
  <2>1. /\ state' = Ended(flow[f].gen, "failed") /\ Goes(f, "failing")
        /\ generation' = generation /\ ai' = ai /\ UNCHANGED <<platform, history>>
    BY <1>3 DEF StartThrows
  <2>2. "failed" \in Terminal /\ flow[f].gen \in 0..MaxGeneration /\ "failed" # "completed"
    BY <1>1, GenTypes DEF Terminal
  <2>3. HistoryGrows /\ SessionsTurn
    BY <1>1, <2>1, <2>2, HistoryStands, EndedMoves DEF SessionsTurn
  <2>4. HandlerTurns(f)
    BY <1>1, <2>1, <2>3, GoesTurns
  <2>5. ControllerTurns
    BY <1>1, <2>1, <2>3, ControllerStays DEF AssistantInv
  <2>6. QED
    BY <2>1, <2>2, <2>3, <2>4, <2>5, EndedEffect
<1>4. CASE Started(f)
  <2>1. flow[f].pc \in {"bootstrapping", "starting"} /\ UNCHANGED <<generation, state, ai, platform, history>>
    BY <1>4 DEF Started
  <2>2. ControllerTurns
    BY <1>1, <2>1, ControllerStands
  <2>3. CASE \E wait \in {"opening", "starting"} : Goes(f, wait)
    <3>1. PICK wait \in {"opening", "starting"} : Goes(f, wait)
      BY <2>3
    <3>2. \A s \in DOMAIN Serving : flow[f].pc \in Serving[s] => wait \in Serving[s]
      BY <2>1, <3>1, ServingIs
    <3>3. QED
      BY <1>1, <2>1, <2>2, <3>1, <3>2, ServesOn
  <2>4. CASE ~IsCurrent(flow[f].gen) /\ Returns(f)
    BY <2>1, <2>2, <2>4, GoesOnAlone
  <2>5. QED
    BY <1>4, <2>3, <2>4 DEF Started
<1>5. QED
  BY <1>2, <1>3, <1>4

LEMMA MicAnswersSteps ==
    ASSUME AssistantInv, NEW f \in Flows, MicAnswers(f)
    PROVE  Effect(f)
<1> DEFINE g == flow[f].gen
<1>1. /\ flow[f].pc = "opening" /\ ai \in Controller /\ AssistantTypeOK
      /\ state \in [Generations -> Lifecycle] /\ g \in 0..MaxGeneration
      /\ "failing" \in Waits \ Showing /\ "failed" \in Terminal /\ "failed" # "completed"
  BY GenTypes DEF MicAnswers, AssistantInv, AssistantTypeOK, Waits, Showing, Terminal
<1>2. CASE ~IsCurrent(g) /\ Returns(f) /\ UNCHANGED <<generation, state, ai, platform, history>>
  BY <1>1, <1>2, ControllerStands, GoesOnAlone
<1>3. CASE /\ CanMove(g, "recording") /\ Returns(f) /\ state' = [state EXCEPT ![g] = "recording"]
           /\ ai' = [ai EXCEPT !.limit = g] /\ UNCHANGED <<generation, platform, history>>
  <2>1. IsCurrent(g) /\ state[g] \in {"acquiringAudio", "recording"}
    BY <1>3, LifecycleIs DEF CanMove
  <2>2. g \in Generations
    BY <1>1, <2>1 DEF IsCurrent, Generations
  <2>3. "recording" \in Lifecycle /\ state[g] \in Live
        /\ ("recording" = state[g] \/ "recording" \in Later(state[g]))
    BY <2>1, LifecycleIs DEF Live
  <2>4. SessionsMove /\ state'[g] = "recording"
    <3> HIDE DEF g
    <3>1. QED
      BY <1>1, <1>3, <2>1, <2>3, OnwardMoves
  <2>5. SessionsTurn /\ HistoryGrows
    BY <1>3, <2>4, HistoryStands DEF SessionsTurn
  <2>6. HandlerTurns(f)
    BY <1>3, <2>5, ReturnsTurns
  <2>7. ai' \in Controller /\ ai'.held = ai.held /\ ai'.pageTimer = ai.pageTimer
    <3> HIDE DEF g
    <3>1. QED
      BY <1>1, <1>3 DEF Controller
  <2>8. ControllerTurns
    BY <1>3, <2>5, <2>7, ControllerStays DEF AssistantInv
  <2>9. \A h \in Generations : h # g => state'[h] = state[h]
    BY <1>1, <1>3
  <2>10. ServiceGoesOn(f)
    BY <2>4, <2>9, ServingIs DEF ServiceGoesOn
  <2>11. CompletionsAreShown
    BY <2>4, <2>9 DEF CompletionsAreShown
  <2>12. QED
    BY <2>5, <2>6, <2>8, <2>10, <2>11 DEF Effect
<1>4. CASE /\ Goes(f, "failing") /\ state' = Ended(g, "failed")
           /\ UNCHANGED <<generation, ai, platform, history>>
  <2>1. HistoryGrows /\ SessionsTurn
    <3>1. HistoryGrows
      BY <1>4, HistoryStands
    <3> HIDE DEF g
    <3>2. QED
      BY <1>1, <1>4, <3>1, EndedMoves DEF SessionsTurn
  <2>2. HandlerTurns(f)
    BY <1>1, <1>4, <2>1, GoesTurns
  <2>3. ControllerTurns
    BY <1>1, <1>4, <2>1, ControllerStays DEF AssistantInv
  <2>4. QED
    BY <1>1, <1>4, <2>1, <2>2, <2>3, EndedEffect
<1>5. CASE IsCurrent(g) /\ Reply(f, g, 1, TRUE, Ended(g, "failed"))
  <2>1. /\ Ended(g, "failed") \in [Generations -> Lifecycle]
        /\ \A h \in Generations : h # g => Ended(g, "failed")[h] = state[h]
        /\ Ended(g, "failed")[g] = IF state[g] \in Terminal THEN state[g] ELSE "failed"
        /\ g \in Generations
    <3>1. g \in Generations /\ "failed" \in Lifecycle
      BY <1>1, <1>5 DEF IsCurrent, Generations, Lifecycle, Terminal
    <3>2. Ended(g, "failed") = IF state[g] \in Terminal THEN state ELSE [state EXCEPT ![g] = "failed"]
      BY <1>5 DEF Ended, Over
    <3> HIDE DEF g
    <3>3. QED
      BY <1>1, <3>1, <3>2
  <2>2. state[g] \in Terminal \/ (state[g] \in Live /\ "failed" \in Later(state[g]))
    <3>1. state[g] \in Lifecycle /\ state[g] # "idle"
      BY <1>1, <1>5, <2>1, GenTypes DEF AssistantTypeOK, IsCurrent
    <3>2. QED
      BY <3>1, LifecycleIs
  <2>3. 1 \in 1..MaxPages
    BY AssistantAssumption
  <2> DEFINE moved == Ended(g, "failed")
  <2>4. /\ moved[g] \in {"rendering"} \cup Terminal
        /\ moved[g] # state[g] => state[g] \in Live /\ moved[g] \in Later(state[g])
        /\ moved[g] = "completed" => state[g] = "completed"
    BY <1>1, <2>1, <2>2
  <2>5. Reply(f, g, 1, TRUE, moved) /\ moved \in [Generations -> Lifecycle]
        /\ \A h \in Generations : h # g => moved[h] = state[h]
    BY <1>5, <2>1
  <2> HIDE DEF moved
  <2>6. QED
    BY <1>5, <2>3, <2>4, <2>5, ReplyEffect
<1>6. QED
  BY <1>2, <1>3, <1>4, <1>5 DEF MicAnswers

LEMMA OsStopSteps ==
    ASSUME AssistantInv, NEW f \in Flows, OsStop(f)
    PROVE  Effect(f)
<1> DEFINE g == ai.held
<1>1. /\ flow[f].pc = "idle" /\ IsCurrent(g) /\ ai \in Controller /\ AssistantTypeOK
      /\ ai' = [ai EXCEPT !.receiving = FALSE, !.limit = 0] /\ UNCHANGED <<generation, platform, history>>
      /\ state \in [Generations -> Lifecycle] /\ "idle" \notin Servers
  BY DEF OsStop, AssistantInv, AssistantTypeOK, Servers
<1>2. ai' \in Controller /\ ai'.held = ai.held /\ ai'.pageTimer = ai.pageTimer
  <2>1. 0 \in 0..MaxGeneration /\ ai \in Controller
    BY <1>1, AssistantAssumption
  <2>2. ai' = [ai EXCEPT !.receiving = FALSE, !.limit = 0]
    BY <1>1
  <2>3. QED
    BY <2>1, <2>2 DEF Controller
<1>3. g \in Generations /\ g = generation
  BY <1>1 DEF IsCurrent, AssistantTypeOK, Generations
<1>4. CASE /\ CanMove(g, "finalizingSpeech") /\ state' = [state EXCEPT ![g] = "finalizingSpeech"]
           /\ flow' = [flow EXCEPT ![f] = [AtRest EXCEPT !.pc = "stopping", !.gen = g]]
  <2>1. state[g] \in {"recording", "finalizingSpeech"}
    BY <1>4, LifecycleIs DEF CanMove
  <2>2. "finalizingSpeech" \in Lifecycle /\ state[g] \in Live
        /\ ("finalizingSpeech" = state[g] \/ "finalizingSpeech" \in Later(state[g]))
    BY <2>1, LifecycleIs DEF Live
  <2>3. SessionsMove /\ state'[g] = "finalizingSpeech"
    <3> HIDE DEF g
    <3>1. QED
      BY <1>1, <1>4, <2>2, OnwardMoves
  <2>4. SessionsTurn /\ HistoryGrows
    BY <1>1, <2>3, HistoryStands DEF SessionsTurn
  <2> DEFINE r == [AtRest EXCEPT !.pc = "stopping", !.gen = g]
  <2>5. r \in FlowState /\ r.pc = "stopping" /\ r.gen = g
    <3>1. AtRest \in FlowState /\ "stopping" \in Waits /\ g \in 0..MaxGeneration
      BY <1>3, AssistantAssumption DEF AtRest, FlowState, Waits, Generations
    <3> HIDE DEF g
    <3>2. QED
      BY <3>1 DEF FlowState
  <2>6. r.gen <= generation' /\ r.pc \notin Showing
    BY <1>1, <1>3, <2>5, GenTypes DEF Showing
  <2> HIDE DEF r
  <2>7. HandlerTurns(f) /\ flow'[f] = r
    BY <1>4, <2>5, <2>6, RowTurns DEF r
  <2>8. ControllerTurns
    BY <1>1, <1>2, <2>4, ControllerStays DEF AssistantInv
  <2>9. \A h \in Generations : h # g => state'[h] = state[h]
    BY <1>1, <1>4
  <2>10. ServiceGoesOn(f)
    <3>1. \A s \in DOMAIN Serving : flow[f].pc \notin Serving[s]
      BY <1>1, ServingIs
    <3> HIDE DEF g
    <3>2. QED
      BY <2>3, <2>5, <2>7, <2>9, <3>1, ServingIs DEF ServiceGoesOn
  <2>11. CompletionsAreShown
    BY <2>3, <2>9 DEF CompletionsAreShown
  <2>12. QED
    BY <2>4, <2>7, <2>8, <2>10, <2>11 DEF Effect
<1>5. CASE UNCHANGED <<state, flow>>
  <2>1. HistoryGrows /\ SessionsTurn /\ ControllerTurns
    BY <1>1, <1>2, <1>5, HistoryStands, SessionsStand, ControllerStands
  <2>2. flow \in [Flows -> FlowState] /\ flow' = [flow EXCEPT ![f] = flow[f]] /\ flow[f].gen <= generation'
    BY <1>1, <1>5, GenTypes DEF AssistantTypeOK
  <2>3. HandlerTurns(f)
    BY <1>1, <2>2, RowTurns DEF Showing
  <2>4. ServiceGoesOn(f)
    BY <1>1, <1>5, ServedOn
  <2>5. QED
    BY <1>1, <1>5, <2>1, <2>3, <2>4, StandingEffect
<1>6. QED
  BY <1>4, <1>5 DEF OsStop

LEMMA AnsweringSteps ==
    ASSUME AssistantInv, NEW f \in Flows, SpeechStopped(f) \/ Transcribed(f) \/ Answered(f)
    PROVE  Effect(f)
<1> DEFINE g == flow[f].gen
           goesOn == IsCurrent(g) /\ state[g] \in {"finalizingSpeech", "thinking", "rendering"}
           moved == [state EXCEPT ![g] = "rendering"]
<1>1. /\ ai \in Controller /\ AssistantTypeOK /\ state \in [Generations -> Lifecycle]
      /\ "transcribing" \in Waits \ Showing /\ "asking" \in Waits \ Showing
  BY DEF AssistantInv, AssistantTypeOK, Waits, Showing
<1>2. ASSUME NEW n \in 1..MaxPages, goesOn, Reply(f, g, n, FALSE, moved)
      PROVE  Effect(f)
  <2>1. g \in Generations /\ "rendering" \in Lifecycle
    BY <1>1, <1>2, GenTypes, LifecycleIs DEF IsCurrent, Generations, Live
  <2>2. moved \in [Generations -> Lifecycle] /\ moved[g] = "rendering"
        /\ \A h \in Generations : h # g => moved[h] = state[h]
    <3> HIDE DEF g
    <3>1. QED
      BY <1>1, <2>1
  <2>3. moved[g] # state[g] => state[g] \in Live /\ moved[g] \in Later(state[g])
    BY <1>2, <2>2, LifecycleIs DEF Live
  <2>4. IsCurrent(g)
    BY <1>2
  <2> HIDE DEF moved
  <2>5. QED
    BY <1>2, <2>2, <2>3, <2>4, ReplyEffect
<1>3. ASSUME Returns(f), UNCHANGED <<generation, state, ai, platform, history>>,
             \A h \in Generations : h = g /\ IsCurrent(g) /\ state[h] \in DOMAIN Serving =>
                flow[f].pc \notin Serving[state[h]]
      PROVE  Effect(f)
  <2>1. HistoryGrows /\ SessionsTurn /\ ControllerTurns
    BY <1>1, <1>3, HistoryStands, SessionsStand, ControllerStands
  <2>2. HandlerTurns(f)
    BY <1>3, <2>1, ReturnsTurns
  <2>3. ServiceGoesOn(f)
    <3>1. CASE IsCurrent(g)
      BY <1>3, <3>1 DEF ServiceGoesOn
    <3>2. CASE ~IsCurrent(g)
      <4>1. \A h \in Generations : h = g => state[h] \in Terminal
        BY <3>2, GenTypes, NobodyServesThePast DEF AssistantInv
      <4>2. QED
        BY <1>3, <4>1, ServingIs DEF ServiceGoesOn, Terminal
    <3>3. QED
      BY <3>1, <3>2
  <2>4. QED
    BY <1>3, <2>1, <2>2, <2>3, StandingEffect
<1>4. CASE SpeechStopped(f)
  <2>1. CASE Goes(f, "transcribing") /\ UNCHANGED <<generation, state, ai, platform, history>>
    <3>1. flow[f].pc = "stopping"
      BY <1>4 DEF SpeechStopped
    <3>2. \A s \in DOMAIN Serving : flow[f].pc \in Serving[s] => "transcribing" \in Serving[s]
      BY <3>1, ServingIs
    <3>3. ControllerTurns
      BY <1>1, <2>1, ControllerStands
    <3>4. QED
      BY <1>1, <2>1, <3>2, <3>3, ServesOn
  <2>2. CASE FailsAndClears(f)
    BY <2>2, FailsAndClearsEffect
  <2>3. QED
    BY <1>4, <2>1, <2>2 DEF SpeechStopped
<1>5. CASE Transcribed(f)
  <2>0. flow[f].pc = "transcribing" /\ 1 \in 1..MaxPages
    BY <1>5, AssistantAssumption DEF Transcribed
  <2>1. CASE goesOn /\ Reply(f, g, 1, FALSE, moved)
    BY <1>2, <2>0, <2>1
  <2>2. CASE /\ IsCurrent(g) /\ state[g] \in {"finalizingSpeech", "thinking"} /\ Goes(f, "asking")
             /\ state' = [state EXCEPT ![g] = "thinking"] /\ UNCHANGED <<generation, ai, platform, history>>
    <3>1. g \in Generations /\ "thinking" \in Lifecycle /\ state[g] \in Live
          /\ ("thinking" = state[g] \/ "thinking" \in Later(state[g]))
      BY <1>1, <2>2, GenTypes, LifecycleIs DEF IsCurrent, Generations, Live
    <3>2. SessionsMove /\ state'[g] = "thinking"
      <4> HIDE DEF g
      <4>1. QED
        BY <1>1, <2>2, <3>1, OnwardMoves
    <3>3. SessionsTurn /\ HistoryGrows
      BY <2>2, <3>2, HistoryStands DEF SessionsTurn
    <3>4. HandlerTurns(f) /\ flow'[f].pc = "asking" /\ flow'[f].gen = g
      BY <1>1, <2>2, <3>3, GoesTurns
    <3>5. ControllerTurns
      BY <1>1, <2>2, <3>3, ControllerStays DEF AssistantInv
    <3>6. \A h \in Generations : h # g => state'[h] = state[h]
      BY <1>1, <2>2
    <3>7. ServiceGoesOn(f)
      <4> HIDE DEF g
      <4>1. \A h \in Generations : h # g => flow[f].gen # h
        BY DEF g
      <4>2. QED
        BY <3>2, <3>4, <3>6, <4>1, ServingIs DEF ServiceGoesOn
    <3>8. CompletionsAreShown
      BY <3>2, <3>6 DEF CompletionsAreShown
    <3>9. QED
      BY <3>3, <3>4, <3>5, <3>7, <3>8 DEF Effect
  <2>3. CASE /\ ~(IsCurrent(g) /\ state[g] \in {"finalizingSpeech", "thinking"}) /\ Returns(f)
             /\ UNCHANGED <<generation, state, ai, platform, history>>
    <3>1. \A h \in Generations : h = g /\ IsCurrent(g) /\ state[h] \in DOMAIN Serving =>
             flow[f].pc \notin Serving[state[h]]
      BY <2>0, <2>3, ServingIs
    <3>2. QED
      BY <1>3, <2>3, <3>1
  <2>4. QED
    BY <1>5, <2>1, <2>2, <2>3 DEF Transcribed
<1>6. CASE Answered(f)
  <2>0. flow[f].pc = "asking"
    BY <1>6 DEF Answered
  <2>1. CASE goesOn /\ \E n \in 1..MaxPages : Reply(f, g, n, FALSE, moved)
    BY <1>2, <2>1
  <2>2. CASE /\ ~(IsCurrent(g) /\ state[g] \in {"thinking", "rendering"}) /\ Returns(f)
             /\ UNCHANGED <<generation, state, ai, platform, history>>
    <3>1. \A h \in Generations : h = g /\ IsCurrent(g) /\ state[h] \in DOMAIN Serving =>
             flow[f].pc \notin Serving[state[h]]
      BY <2>0, <2>2, ServingIs
    <3>2. QED
      BY <1>3, <2>2, <3>1
  <2>3. QED
    BY <1>6, <2>1, <2>2 DEF Answered
<1>7. QED
  BY <1>4, <1>5, <1>6

LEMMA PageTickSteps ==
    ASSUME AssistantInv, NEW f \in Flows, PageTick(f)
    PROVE  Effect(f)
<1> DEFINE g == ai.pageTimer
<1>1. /\ flow[f].pc = "idle" /\ "idle" \notin Servers /\ "idle" \notin Showing /\ g # 0
      /\ ai \in Controller /\ AssistantTypeOK /\ UNCHANGED <<generation, state, platform, history>>
  BY DEF PageTick, Servers, Showing, AssistantInv, AssistantTypeOK
<1>2. ServiceGoesOn(f) /\ SessionsTurn
  BY <1>1, ServedOn, SessionsStand
<1>3. OnScreen(g) /\ replies[g] >= 1
  BY <1>1 DEF AssistantInv, PagesAreOfAnswers
<1>4. CASE ai' = [ai EXCEPT !.pageTimer = 0] /\ UNCHANGED flow
  <2>1. 0 \in 0..MaxGeneration /\ UNCHANGED <<platform, history>>
    BY <1>1, AssistantAssumption
  <2>2. ai' \in Controller /\ ai'.held = ai.held /\ ai'.pageTimer = 0
    BY <1>1, <1>4, <2>1 DEF Controller
  <2>3. ControllerTurns
    BY <1>1, <2>1, <2>2, ControllerStands
  <2>4. flow \in [Flows -> FlowState] /\ flow' = [flow EXCEPT ![f] = flow[f]] /\ flow[f].gen <= generation'
    BY <1>1, <1>4, GenTypes DEF AssistantTypeOK
  <2>5. HandlerTurns(f)
    BY <1>1, <2>4, RowTurns
  <2>6. QED
    BY <1>1, <1>2, <2>1, <2>3, <2>5, HistoryStands, StandingEffect
<1>5. CASE /\ ai' = [ai EXCEPT !.sending = TRUE, !.page = @ + 1]
           /\ flow' = [flow EXCEPT ![f] = [AtRest EXCEPT !.pc = "autoPage", !.gen = g,
                !.reply = replies[g], !.last = ai.page + 2 >= ai.pages]]
  <2>1. HistoryGrows
    BY <1>1, HistoryStands
  <2>2. ai' \in Controller /\ ai'.held = ai.held /\ ai'.pageTimer = ai.pageTimer
    <3>1. ai' = [ai EXCEPT !.sending = TRUE, !.page = ai.page + 1]
      BY <1>5
    <3>2. ai.page + 1 \in Nat
      BY <1>1 DEF Controller
    <3>3. QED
      BY <1>1, <3>1, <3>2 DEF Controller
  <2>3. ControllerTurns
    BY <1>1, <1>2, <2>1, <2>2, ControllerStays DEF AssistantInv
  <2>4. /\ StaysOnScreen(g) /\ g \in Generations /\ replies[g] \in Nat /\ g <= generation'
        /\ replies' = replies
    BY <1>1, <1>2, <1>3, ScreenStays DEF OnScreen, AssistantTypeOK, history
  <2> DEFINE r == [AtRest EXCEPT !.pc = "autoPage", !.gen = g,
                !.reply = replies[g], !.last = ai.page + 2 >= ai.pages]
  <2>5. r \in FlowState /\ r.gen = g /\ r.reply = replies[g]
    <3>1. AtRest \in FlowState /\ "autoPage" \in Waits /\ g \in 0..MaxGeneration
          /\ (ai.page + 2 >= ai.pages) \in BOOLEAN
      BY <2>4, AssistantAssumption DEF AtRest, FlowState, Waits, Generations
    <3>2. QED
      BY <2>4, <3>1 DEF FlowState
  <2>6. r.gen <= generation' /\ (r.pc \in Showing => StaysOnScreen(r.gen) /\ r.reply \in 1..replies'[r.gen])
    BY <1>3, <2>4, <2>5
  <2> HIDE DEF r
  <2>7. HandlerTurns(f)
    BY <1>5, <2>5, <2>6, RowTurns DEF r
  <2>8. QED
    BY <1>1, <1>2, <2>1, <2>3, <2>7, StandingEffect
<1>6. QED
  BY <1>4, <1>5 DEF PageTick

LEMMA AutoPageSteps ==
    ASSUME AssistantInv, NEW f \in Flows, AutoPage(f)
    PROVE  Effect(f)
<1> DEFINE g == flow[f].gen
           done == flow[f].last /\ IsCurrent(g)
<1>1. /\ flow[f].pc = "autoPage" /\ "autoPage" \notin Servers /\ "autoPage" \in Showing
      /\ ai \in Controller /\ AssistantTypeOK /\ 0 \in 0..MaxGeneration
  BY AssistantAssumption DEF AutoPage, Servers, Showing, AssistantInv, AssistantTypeOK
<1>2. CASE /\ ai' = [ai EXCEPT !.sending = FALSE, !.pageTimer = IF flow[f].last THEN 0 ELSE @]
           /\ state' = IF done THEN Ended(g, "completed") ELSE state
           /\ IF done THEN Shown(f) ELSE UNCHANGED acked
           /\ Returns(f)
           /\ UNCHANGED <<generation, platform, replies>>
  <2>1. ai' \in Controller /\ ai'.held = ai.held /\ ai'.pageTimer \in {0, ai.pageTimer}
    BY <1>1, <1>2 DEF Controller
  <2>2. CASE done
    <3>1. state' = Ended(g, "completed") /\ Shown(f) /\ IsCurrent(g)
      BY <1>2, <2>2
    <3>2. /\ HistoryGrows /\ OnScreen(g) /\ g \in 0..MaxGeneration /\ "completed" \in Terminal
          /\ MayComplete(g)
      BY <1>1, <1>2, <3>1, ShownIs, GenTypes DEF Terminal
    <3>3. SessionsTurn
      <4> HIDE DEF g
      <4>1. QED
        BY <1>1, <1>2, <3>1, <3>2, EndedMoves DEF SessionsTurn
    <3>4. HandlerTurns(f)
      BY <1>2, <3>3, ReturnsTurns
    <3>5. ControllerTurns
      BY <1>2, <2>1, <3>2, <3>3, ControllerStays DEF AssistantInv
    <3> HIDE DEF g
    <3>6. QED
      BY <1>1, <1>2, <3>1, <3>2, <3>4, <3>5, EndedEffect
  <2>3. CASE ~done
    <3>1. UNCHANGED <<generation, state, platform, history>>
      BY <1>2, <2>3 DEF history
    <3>2. ControllerTurns
      BY <2>1, <3>1, ControllerStands
    <3>3. QED
      BY <1>1, <1>2, <3>1, <3>2, GoesOnAlone
  <2>4. QED
    BY <2>2, <2>3
<1>3. CASE /\ ai' = [ai EXCEPT !.sending = FALSE] /\ Returns(f)
           /\ UNCHANGED <<generation, state, platform, history>>
  <2>1. ai' \in Controller /\ ai'.held = ai.held /\ ai'.pageTimer = ai.pageTimer
    BY <1>1, <1>3 DEF Controller
  <2>2. QED
    BY <1>1, <1>3, <2>1, ControllerStands, GoesOnAlone
<1>4. CASE FailsAndClears(f)
  BY <1>4, FailsAndClearsEffect
<1>5. QED
  BY <1>2, <1>3, <1>4 DEF AutoPage

LEMMA TouchpadSteps ==
    ASSUME AssistantInv, NEW f \in Flows, Touchpad(f) \/ TouchedPage(f)
    PROVE  Effect(f)
<1>1. ai \in Controller /\ AssistantTypeOK /\ 0 \in 0..MaxGeneration
  BY AssistantAssumption DEF AssistantInv, AssistantTypeOK
<1>2. CASE TouchedPage(f)
  <2>1. CASE FailsAndClears(f)
    BY <2>1, FailsAndClearsEffect
  <2>2. CASE /\ Returns(f) /\ UNCHANGED <<generation, state, platform, history>>
             /\ (ai' = [ai EXCEPT !.sending = FALSE] \/ ai' = ai)
    <3>1. ai' \in Controller /\ ai'.held = ai.held /\ ai'.pageTimer = ai.pageTimer
      BY <1>1, <2>2 DEF Controller
    <3>2. ControllerTurns
      BY <2>2, <3>1, ControllerStands
    <3>3. flow[f].pc \notin Servers
      BY <1>2 DEF TouchedPage, Servers
    <3>4. QED
      BY <2>2, <3>2, <3>3, GoesOnAlone
  <2>3. QED
    BY <1>2, <2>1, <2>2 DEF TouchedPage
<1>3. CASE Touchpad(f)
  <2> DEFINE g == ai.held
             manual == [ai EXCEPT !.manual = TRUE, !.pageTimer = 0]
             r(wait, page) == [AtRest EXCEPT !.pc = wait, !.gen = g, !.to = page]
  <2>1. /\ flow[f].pc = "idle" /\ "idle" \notin Servers /\ "idle" \notin Showing /\ IsCurrent(g)
        /\ UNCHANGED <<generation, state, platform, history>>
    BY <1>3 DEF Touchpad, Servers, Showing
  <2>2. ServiceGoesOn(f) /\ SessionsTurn
    BY <2>1, ServedOn, SessionsStand
  <2>3. manual \in Controller /\ manual.held = ai.held /\ manual.pageTimer = 0
    BY <1>1 DEF Controller
  <2>4. CASE ai' = manual /\ UNCHANGED flow
    <3>1. UNCHANGED <<platform, history>>
      BY <2>1
    <3>2. ControllerTurns
      <4> HIDE DEF manual
      <4>1. QED
        BY <2>1, <2>3, <2>4, <3>1, ControllerStands
    <3>3. flow \in [Flows -> FlowState] /\ flow' = [flow EXCEPT ![f] = flow[f]] /\ flow[f].gen <= generation'
      BY <1>1, <2>1, <2>4, GenTypes DEF AssistantTypeOK
    <3>4. HandlerTurns(f)
      BY <2>1, <3>3, RowTurns
    <3>5. QED
      BY <2>1, <2>2, <3>1, <3>2, <3>4, HistoryStands, StandingEffect
  <2>5. ASSUME NEW wait \in {"onePage", "manualPage"}, NEW page \in Nat,
               flow' = [flow EXCEPT ![f] = r(wait, page)],
               ai' = manual \/ ai' = [manual EXCEPT !.sending = TRUE, !.page = page]
        PROVE  Effect(f)
    <3>1. HistoryGrows
      BY <2>1, HistoryStands
    <3>2. ai' \in Controller /\ ai'.held = ai.held /\ ai'.pageTimer = 0
      <4> HIDE DEF manual
      <4>1. QED
        BY <2>3, <2>5 DEF Controller
    <3>3. ControllerTurns
      BY <2>1, <2>2, <3>1, <3>2, ControllerStays DEF AssistantInv
    <3>4. g \in 0..MaxGeneration /\ g <= generation'
      BY <1>1, <2>1, GenTypes DEF Controller, IsCurrent
    <3>5. r(wait, page) \in FlowState /\ r(wait, page).gen = g /\ r(wait, page).pc = wait
      <4>1. AtRest \in FlowState /\ wait \in Waits
        BY <2>5, AssistantAssumption DEF AtRest, FlowState, Waits
      <4> HIDE DEF g
      <4>2. QED
        BY <2>5, <3>4, <4>1 DEF FlowState
    <3>6. wait \notin Showing
      BY <2>5 DEF Showing
    <3>7. HandlerTurns(f)
      <4>1. PICK row \in FlowState : row = r(wait, page)
        BY <3>5
      <4>2. row.gen <= generation' /\ row.pc \notin Showing
        BY <3>4, <3>5, <3>6, <4>1
      <4>3. flow' = [flow EXCEPT ![f] = row]
        BY <2>5, <4>1
      <4>4. QED
        BY <4>2, <4>3, RowTurns
    <3>8. QED
      BY <2>1, <2>2, <3>1, <3>3, <3>7, StandingEffect
  <2>6. CASE /\ flow' = [flow EXCEPT ![f] = r("onePage", 0)] /\ ai' = manual
    BY <2>5, <2>6
  <2>7. CASE \E page \in {ai.page + 1, IF ai.page = 0 THEN 0 ELSE ai.page - 1} :
                /\ flow' = [flow EXCEPT ![f] = r("manualPage", page)]
                /\ ai' = [manual EXCEPT !.sending = TRUE, !.page = page]
    <3>1. PICK page \in {ai.page + 1, IF ai.page = 0 THEN 0 ELSE ai.page - 1} :
                /\ flow' = [flow EXCEPT ![f] = r("manualPage", page)]
                /\ ai' = [manual EXCEPT !.sending = TRUE, !.page = page]
      BY <2>7
    <3>2. page \in Nat
      BY <1>1, <3>1 DEF Controller
    <3>3. QED
      BY <2>5, <3>1, <3>2
  <2>8. QED
    BY <1>3, <2>4, <2>6, <2>7 DEF Touchpad
<1>4. QED
  BY <1>2, <1>3

LEMMA StopsSteps ==
    ASSUME AssistantInv, NEW f \in Flows, OsCancel(f) \/ RecordingLimit(f)
    PROVE  Effect(f)
<1>1. ai \in Controller /\ AssistantTypeOK /\ 0 \in 0..MaxGeneration /\ ai.limit \in 0..MaxGeneration
  BY AssistantAssumption DEF AssistantInv, AssistantTypeOK, Controller
<1>2. ASSUME NEW limit \in 0..MaxGeneration, Stops(f, limit)
      PROVE  Effect(f)
  <2> DEFINE g == ai.held
  <2>1. /\ flow[f].pc = "idle" /\ "idle" \notin Servers /\ generation' = generation
        /\ UNCHANGED <<platform, history>> /\ "cleared" \in Waits \ Showing
    BY <1>2 DEF Stops, Servers, Waits, Showing
  <2>2. CASE ~IsCurrent(g)
    <3>1. state' = state /\ ai' = Cleared /\ Goes(f, "cleared")
      BY <1>2, <2>2 DEF Stops
    <3>2. QED
      BY <2>1, <3>1, ControllerCleared, GoesOnAlone
  <2>3. CASE IsCurrent(g)
    <3> DEFINE r == [AtRest EXCEPT !.pc = "cancelling", !.gen = g]
    <3>1. state' = Ended(g, "cancelled") /\ ai' = [ai EXCEPT !.limit = limit]
          /\ flow' = [flow EXCEPT ![f] = r]
      BY <1>2, <2>3 DEF Stops
    <3>2. g \in 0..MaxGeneration /\ g <= generation' /\ "cancelled" \in Terminal /\ "cancelled" # "completed"
      BY <1>1, <2>1, <2>3, GenTypes DEF Controller, IsCurrent, Terminal
    <3>3. r \in FlowState /\ r.gen = g /\ r.pc \notin Showing
      <4>1. AtRest \in FlowState /\ "cancelling" \in Waits
        BY AssistantAssumption DEF AtRest, FlowState, Waits
      <4>2. r \in FlowState /\ r.gen = g /\ r.pc = "cancelling"
        <5> HIDE DEF g
        <5>1. QED
          BY <3>2, <4>1 DEF FlowState
      <4>3. QED
        BY <4>2 DEF Showing
    <3>4. ai' \in Controller /\ ai'.held = ai.held /\ ai'.pageTimer = ai.pageTimer
      BY <1>1, <1>2, <3>1 DEF Controller
    <3>5. HistoryGrows /\ SessionsTurn
      <4> HIDE DEF g
      <4>1. QED
        BY <1>1, <2>1, <3>1, <3>2, HistoryStands, EndedMoves DEF SessionsTurn
    <3>6. ControllerTurns
      BY <2>1, <3>4, <3>5, ControllerStays DEF AssistantInv
    <3>7. HandlerTurns(f)
      <4> HIDE DEF r
      <4>1. QED
        BY <3>1, <3>2, <3>3, RowTurns
    <3> HIDE DEF g
    <3>8. QED
      BY <2>1, <3>1, <3>2, <3>5, <3>6, <3>7, EndedEffect
  <2>4. QED
    BY <2>2, <2>3
<1>3. CASE OsCancel(f)
  BY <1>1, <1>2, <1>3 DEF OsCancel
<1>4. CASE RecordingLimit(f)
  <2>1. CASE Stops(f, 0)
    BY <1>1, <1>2, <2>1
  <2>2. CASE ai' = [ai EXCEPT !.limit = 0] /\ UNCHANGED <<generation, state, flow, platform, history>>
    <3>1. ai' \in Controller /\ ai'.held = ai.held /\ ai'.pageTimer = ai.pageTimer
      BY <1>1, <2>2 DEF Controller
    <3>2. HistoryGrows /\ SessionsTurn /\ ControllerTurns
      BY <2>2, <3>1, HistoryStands, SessionsStand, ControllerStands
    <3>3. /\ flow[f] \in FlowState /\ flow' = [flow EXCEPT ![f] = flow[f]] /\ flow[f].gen <= generation'
          /\ flow \in [Flows -> FlowState]
      BY <1>1, <2>2, GenTypes DEF AssistantTypeOK
    <3>4. /\ flow' \in [Flows -> FlowState] /\ \A h \in Flows \ {f} : flow'[h] = flow[h]
          /\ flow'[f] = flow[f]
      BY <2>2, <3>3
    <3>5. flow'[f].pc \in Showing => StaysOnScreen(flow'[f].gen) /\ flow'[f].reply \in 1..replies'[flow'[f].gen]
      <4>1. flow[f].pc \in Showing => OnScreen(flow[f].gen) /\ flow[f].reply \in 1..replies[flow[f].gen]
        BY DEF AssistantInv, PagesAreOfAnswers, Showing
      <4>2. replies' = replies
        BY <2>2 DEF history
      <4>3. OnScreen(flow[f].gen) => StaysOnScreen(flow[f].gen)
        BY <1>1, <3>2, ScreenStays
      <4>4. QED
        BY <3>4, <4>1, <4>2, <4>3
    <3>6. HandlerTurns(f)
      BY <3>3, <3>4, <3>5 DEF HandlerTurns
    <3>7. ServiceGoesOn(f)
      BY <2>2, <3>4 DEF ServiceGoesOn
    <3>8. QED
      BY <2>2, <3>2, <3>6, <3>7, StandingEffect
  <2>3. QED
    BY <1>4, <2>1, <2>2 DEF RecordingLimit
<1>5. QED
  BY <1>3, <1>4

-----------------------------------------------------------------------------
(* What a step does to the pages                                           *)

LEMMA RowIs ==
    ASSUME AssistantTypeOK, NEW f \in Flows
    PROVE  /\ \A wait \in Waits : Goes(f, wait) =>
                 flow'[f].pc = wait /\ flow'[f].gen = flow[f].gen /\ flow'[f].pages = flow[f].pages
           /\ Returns(f) => flow'[f].pc = "idle"
           /\ ReplyEnds(f) => flow'[f].pc \in {"idle", "failing"}
<1>1. flow \in [Flows -> FlowState] /\ flow[f] \in FlowState
  BY DEF AssistantTypeOK
<1>2. ASSUME NEW wait \in Waits, Goes(f, wait)
      PROVE  flow'[f].pc = wait /\ flow'[f].gen = flow[f].gen /\ flow'[f].pages = flow[f].pages
  BY <1>1, <1>2 DEF Goes, FlowState
<1>3. Returns(f) => flow'[f].pc = "idle"
  BY <1>1 DEF Returns, AtRest
<1>4. ReplyEnds(f) => flow'[f].pc \in {"idle", "failing"}
  BY <1>2, <1>3 DEF ReplyEnds, Waits
<1>5. QED
  BY <1>2, <1>3, <1>4

\* Most handlers touch neither the list nor a page of their own.
LEMMA PagesStand ==
    ASSUME AssistantTypeOK, NEW f \in Flows,
           UNCHANGED history, ai'.pages \in {0, ai.pages},
           \/ Returns(f) \/ ReplyEnds(f) \/ flow' = flow
           \/ \E wait \in Waits \ {"first", "unsent", "pausing", "last"} : Goes(f, wait)
           \/ flow'[f].pc \notin {"first", "unsent", "pausing", "last"}
    PROVE  PagesTurn(f)
<1>1. replies' = replies
  BY DEF history
<1>2. flow' = flow \/ flow'[f].pc \notin {"first", "unsent", "pausing", "last"}
  BY RowIs
<1>3. QED
  BY <1>1, <1>2 DEF PagesTurn

\* Clearing empties the list.
LEMMA FailsAndClearsPages ==
    ASSUME AssistantTypeOK, NEW f \in Flows, FailsAndClears(f)
    PROVE  PagesTurn(f)
<1>1. ai'.pages = 0
  BY DEF FailsAndClears, Cleared, Vacant
<1>2. Goes(f, "cleared") /\ UNCHANGED history /\ "cleared" \in Waits
  BY DEF FailsAndClears, Waits
<1>3. QED
  BY <1>1, <1>2, PagesStand

LEMMA ReplyPages ==
    ASSUME AssistantTypeOK, NEW f \in Flows, NEW g, NEW n \in Nat, NEW failing \in BOOLEAN, NEW moved,
           IsCurrent(g), Reply(f, g, n, failing, moved)
    PROVE  PagesTurn(f)
<1>1. flow \in [Flows -> FlowState] /\ ai \in Controller
  BY DEF AssistantTypeOK
<1>2. flow'[f] = [AtRest EXCEPT !.pc = IF ai.running THEN "first" ELSE "unsent", !.gen = g,
                    !.failing = failing, !.reply = replies[g] + 1, !.pages = n]
  BY <1>1 DEF Reply
<1>3. flow'[f].gen = g /\ flow'[f].pages = n /\ flow'[f].pc \in {"first", "unsent"}
  BY <1>2 DEF AtRest
<1>4. ai'.pages = n /\ generation' = generation /\ replies' = [replies EXCEPT ![g] = @ + 1]
  BY <1>1 DEF Reply, Controller
<1>5. QED
  BY <1>3, <1>4 DEF PagesTurn

LEMMA PagesTurnWell ==
    ASSUME AssistantTypeOK, NEW f \in Flows,
           \/ OsStart(f) \/ BeginSession(f) \/ Listening(f) \/ StartThrows(f) \/ Started(f)
           \/ MicAnswers(f) \/ NativeStopped(f) \/ ClearEnds(f)
           \/ OsStop(f) \/ SpeechStopped(f) \/ Transcribed(f) \/ Answered(f)
           \/ SendThrows(f) \/ FirstPage(f) \/ PauseEnds(f) \/ LastPage(f)
           \/ PageTick(f) \/ AutoPage(f) \/ Touchpad(f) \/ TouchedPage(f)
           \/ OsCancel(f) \/ RecordingLimit(f)
    PROVE  PagesTurn(f)
<1>1. /\ ai \in Controller /\ flow \in [Flows -> FlowState] /\ Cleared.pages = 0
      /\ {"clearing", "bootstrapping", "starting", "opening", "failing", "cleared",
          "transcribing", "asking", "pausing", "last"} \subseteq Waits
  BY DEF AssistantTypeOK, Cleared, Vacant, Waits
<1>2. CASE OsStart(f)
  BY <1>1, <1>2, PagesStand DEF OsStart
<1>3. CASE BeginSession(f)
  <2>1. ai'.pages = ai.pages /\ UNCHANGED history
    BY <1>1, <1>3 DEF BeginSession, Controller
  <2>2. Returns(f) \/ \E r : flow' = [flow EXCEPT ![f] = r] /\ r.pc = "listening"
    <3> DEFINE r == [AtRest EXCEPT !.pc = "listening", !.gen = generation + 1]
    <3>1. r.pc = "listening"
      BY DEF AtRest
    <3>2. Returns(f) \/ flow' = [flow EXCEPT ![f] = r]
      BY <1>3 DEF BeginSession
    <3> HIDE DEF r
    <3>3. QED
      BY <3>1, <3>2
  <2>3. QED
    BY <1>1, <2>1, <2>2, PagesStand
<1>4. CASE Listening(f)
  <2>1. ai'.pages = ai.pages /\ UNCHANGED history
    BY <1>1, <1>4 DEF Listening, Controller
  <2>2. Goes(f, "bootstrapping") \/ Goes(f, "starting")
    BY <1>4 DEF Listening
  <2>3. QED
    BY <1>1, <2>1, <2>2, PagesStand
<1>5. CASE StartThrows(f) \/ Started(f)
  <2>1. ai' = ai /\ UNCHANGED history
    BY <1>5 DEF StartThrows, Started
  <2>2. Goes(f, "failing") \/ Goes(f, "opening") \/ Goes(f, "starting") \/ Returns(f)
    BY <1>5 DEF StartThrows, Started
  <2>3. QED
    BY <1>1, <2>1, <2>2, PagesStand
<1>6. CASE MicAnswers(f)
  <2>1. CASE IsCurrent(flow[f].gen) /\ Reply(f, flow[f].gen, 1, TRUE, Ended(flow[f].gen, "failed"))
    BY <2>1, ReplyPages
  <2>2. CASE UNCHANGED history /\ (Returns(f) \/ Goes(f, "failing")) /\ ai'.pages = ai.pages
    BY <1>1, <2>2, PagesStand
  <2>3. QED
    BY <1>1, <1>6, <2>1, <2>2 DEF MicAnswers, Controller
<1>7. CASE NativeStopped(f) \/ ClearEnds(f)
  <2>1. ai'.pages \in {0, ai.pages} /\ UNCHANGED history
    BY <1>1, <1>7 DEF NativeStopped, ClearEnds, Controller
  <2>2. ReplyEnds(f) \/ flow'[f].pc = "cleared"
    <3>1. CASE ClearEnds(f)
      BY <3>1 DEF ClearEnds
    <3>2. CASE NativeStopped(f)
      <4>1. flow' = [flow EXCEPT ![f] = [flow[f] EXCEPT !.pc = "cleared", !.failing = FALSE]]
        BY <3>2 DEF NativeStopped
      <4>2. [flow[f] EXCEPT !.pc = "cleared", !.failing = FALSE].pc = "cleared"
        BY <1>1 DEF FlowState
      <4>3. QED
        BY <1>1, <4>1, <4>2
    <3>3. QED
      BY <1>7, <3>1, <3>2
  <2>3. QED
    BY <2>1, <2>2, PagesStand
<1>8. CASE OsStop(f)
  <2>1. ai'.pages = ai.pages /\ UNCHANGED history
    BY <1>1, <1>8 DEF OsStop, Controller
  <2>2. flow' = flow \/ flow'[f].pc = "stopping"
    BY <1>1, <1>8 DEF OsStop, AtRest
  <2>3. QED
    BY <2>1, <2>2, PagesStand
<1>9. CASE SpeechStopped(f)
  <2>1. CASE Goes(f, "transcribing") /\ UNCHANGED <<ai, history>>
    BY <1>1, <2>1, PagesStand
  <2>2. QED
    BY <1>9, <2>1, FailsAndClearsPages DEF SpeechStopped
<1>10. CASE Transcribed(f) \/ Answered(f)
  <2>1. CASE (Returns(f) \/ Goes(f, "asking")) /\ UNCHANGED <<ai, history>>
    BY <1>1, <2>1, PagesStand
  <2> DEFINE moved == [state EXCEPT ![flow[f].gen] = "rendering"]
  <2>2. ASSUME NEW n \in Nat, IsCurrent(flow[f].gen), Reply(f, flow[f].gen, n, FALSE, moved)
        PROVE  PagesTurn(f)
    <3> HIDE DEF moved
    <3>1. QED
      BY <2>2, ReplyPages
  <2>3. CASE Transcribed(f)
    <3>1. CASE IsCurrent(flow[f].gen) /\ Reply(f, flow[f].gen, 1, FALSE, moved)
      BY <2>2, <3>1
    <3>2. QED
      BY <2>1, <2>3, <3>1 DEF Transcribed
  <2>4. CASE Answered(f)
    <3>1. CASE IsCurrent(flow[f].gen) /\ \E n \in 1..MaxPages : Reply(f, flow[f].gen, n, FALSE, moved)
      <4>1. PICK n \in 1..MaxPages : Reply(f, flow[f].gen, n, FALSE, moved)
        BY <3>1
      <4>2. n \in Nat
        BY AssistantAssumption
      <4>3. QED
        BY <2>2, <3>1, <4>1, <4>2
    <3>2. QED
      BY <2>1, <2>4, <3>1 DEF Answered
  <2>5. QED
    BY <1>10, <2>3, <2>4
<1>11. CASE SendThrows(f)
  BY <1>11, PagesStand DEF SendThrows
<1>12. CASE FirstPage(f)
  <2>1. CASE ReplyEnds(f) /\ UNCHANGED history /\ ai'.pages = ai.pages
    BY <2>1, PagesStand
  <2>2. CASE /\ IsCurrent(flow[f].gen) /\ flow[f].pc = "first" /\ ai.pages = 1 /\ Goes(f, "pausing")
             /\ UNCHANGED <<ai, history>>
    BY <1>1, <2>2, RowIs DEF PagesTurn, history
  <2>3. QED
    BY <1>1, <1>12, <2>1, <2>2, FailsAndClearsPages DEF FirstPage, Controller
<1>13. CASE PauseEnds(f)
  <2>1. flow[f].pc = "pausing" /\ UNCHANGED <<ai, history>>
    BY <1>13 DEF PauseEnds
  <2>2. CASE ReplyEnds(f)
    BY <2>1, <2>2, PagesStand
  <2>3. CASE Goes(f, "last")
    BY <1>1, <2>1, <2>3, RowIs DEF PagesTurn, history
  <2>4. QED
    BY <1>13, <2>2, <2>3 DEF PauseEnds
<1>14. CASE LastPage(f) \/ AutoPage(f) \/ TouchedPage(f)
  <2>1. CASE FailsAndClears(f)
    BY <2>1, FailsAndClearsPages
  <2>2. CASE ~FailsAndClears(f)
    <3>1. replies' = replies /\ ai'.pages = ai.pages /\ (Returns(f) \/ ReplyEnds(f))
      BY <1>1, <1>14, <2>2 DEF LastPage, AutoPage, TouchedPage, history, Controller
    <3>2. QED
      BY <3>1, RowIs DEF PagesTurn
  <2>3. QED
    BY <2>1, <2>2
<1>15. CASE PageTick(f)
  <2>1. ai'.pages = ai.pages /\ UNCHANGED history
    BY <1>1, <1>15 DEF PageTick, Controller
  <2>2. flow' = flow \/ \E r : flow' = [flow EXCEPT ![f] = r] /\ r.pc = "autoPage"
    <3> DEFINE r == [AtRest EXCEPT !.pc = "autoPage", !.gen = ai.pageTimer,
                       !.reply = replies[ai.pageTimer], !.last = ai.page + 2 >= ai.pages]
    <3>1. r.pc = "autoPage"
      BY DEF AtRest
    <3>2. flow' = flow \/ flow' = [flow EXCEPT ![f] = r]
      BY <1>15 DEF PageTick
    <3> HIDE DEF r
    <3>3. QED
      BY <3>1, <3>2
  <2>3. QED
    BY <1>1, <2>1, <2>2, PagesStand
<1>16. CASE Touchpad(f)
  <2>1. ai'.pages = ai.pages /\ UNCHANGED history
    BY <1>1, <1>16 DEF Touchpad, Controller
  <2>2. flow' = flow \/ \E r : flow' = [flow EXCEPT ![f] = r] /\ r.pc \in {"onePage", "manualPage"}
    <3> DEFINE r(wait, page) == [AtRest EXCEPT !.pc = wait, !.gen = ai.held, !.to = page]
    <3>1. \A page : r("onePage", page).pc = "onePage" /\ r("manualPage", page).pc = "manualPage"
      BY DEF AtRest
    <3>2. flow' = flow \/ \E page : \/ flow' = [flow EXCEPT ![f] = r("onePage", page)]
                                    \/ flow' = [flow EXCEPT ![f] = r("manualPage", page)]
      BY <1>16 DEF Touchpad
    <3> HIDE DEF r
    <3>3. QED
      BY <3>1, <3>2
  <2>3. QED
    BY <1>1, <2>1, <2>2, PagesStand
<1>17. ASSUME NEW limit, Stops(f, limit)
       PROVE  PagesTurn(f)
  <2>1. ai'.pages \in {0, ai.pages} /\ UNCHANGED history
    BY <1>1, <1>17 DEF Stops, Controller
  <2>2. Goes(f, "cleared") \/ flow'[f].pc = "cancelling"
    BY <1>1, <1>17 DEF Stops, AtRest
  <2>3. QED
    BY <1>1, <2>1, <2>2, PagesStand
<1>18. CASE OsCancel(f)
  BY <1>17, <1>18 DEF OsCancel
<1>19. CASE RecordingLimit(f)
  <2>1. CASE ai' = [ai EXCEPT !.limit = 0] /\ UNCHANGED <<flow, history>>
    BY <1>1, <2>1, PagesStand DEF Controller
  <2>2. QED
    BY <1>17, <1>19, <2>1 DEF RecordingLimit
<1>20. QED
  BY <1>2, <1>3, <1>4, <1>5, <1>6, <1>7, <1>8, <1>9, <1>10, <1>11, <1>12, <1>13, <1>14, <1>15, <1>16,
     <1>18, <1>19

-----------------------------------------------------------------------------
(* The theorems                                                            *)

LEMMA AssistantInvInit == AssistantInit => AssistantInv
<1> SUFFICES ASSUME AssistantInit PROVE AssistantInv
  OBVIOUS
<1>1. /\ generation = 0 /\ state = [g \in Generations |-> "idle"] /\ ai = Vacant
      /\ flow = [f \in Flows |-> AtRest] /\ platform \in {"android", "ios"}
      /\ acked = {} /\ replies = [g \in Generations |-> 0]
  BY DEF AssistantInit
<1>2. /\ Vacant \in Controller /\ Vacant.held = 0 /\ Vacant.pageTimer = 0
      /\ AtRest \in FlowState /\ AtRest.gen = 0 /\ AtRest.pc = "idle"
  BY AssistantAssumption DEF Vacant, Controller, AtRest, FlowState
<1>3. "idle" \in Lifecycle /\ "idle" \notin DOMAIN Serving /\ 0 \in 0..MaxGeneration
      /\ \A g \in Generations : 0 < g
  BY ServingIs, AssistantAssumption DEF Lifecycle, Generations
<1>4. AssistantTypeOK
  BY <1>1, <1>2, <1>3 DEF AssistantTypeOK
<1>5. SupersededIsOver /\ SomeoneServesIt /\ CompletionsStand
  BY <1>1, <1>3 DEF SupersededIsOver, SomeoneServesIt, CompletionsStand, Generations
<1>6. PagesAreOfAnswers /\ OnlyAnswersFit /\ ai.held \in {0, generation}
  BY <1>1, <1>2 DEF PagesAreOfAnswers, OnlyAnswersFit
<1>7. QED
  BY <1>4, <1>5, <1>6 DEF AssistantInv

LEMMA AssistantInvStep ==
    ASSUME AssistantInv, [AssistantNext]_assistantVars
    PROVE  /\ AssistantInv'
           /\ \A g \in Generations : state'[g] # state[g] => state'[g] \in Later(state[g])
<1>1. CASE UNCHANGED assistantVars
  BY <1>1 DEF assistantVars, history, AssistantInv, AssistantTypeOK, SupersededIsOver, Over,
     SomeoneServesIt, PagesAreOfAnswers, OnScreen, OnlyAnswersFit, IsCurrent, CompletionsStand, Generations
<1>2. ASSUME NEW f \in Flows, Effect(f), PagesTurn(f)
      PROVE  /\ AssistantInv'
             /\ \A g \in Generations : state'[g] # state[g] => state'[g] \in Later(state[g])
  BY <1>2, EffectIsEnough
<1>3. CASE AssistantNext
  <2>1. PICK f \in Flows :
           \/ OsStart(f) \/ BeginSession(f) \/ Listening(f) \/ StartThrows(f) \/ Started(f)
           \/ MicAnswers(f) \/ NativeStopped(f) \/ ClearEnds(f)
           \/ OsStop(f) \/ SpeechStopped(f) \/ Transcribed(f) \/ Answered(f)
           \/ SendThrows(f) \/ FirstPage(f) \/ PauseEnds(f) \/ LastPage(f)
           \/ PageTick(f) \/ AutoPage(f) \/ Touchpad(f) \/ TouchedPage(f)
           \/ OsCancel(f) \/ RecordingLimit(f)
    BY <1>3 DEF AssistantNext
  <2>2. Effect(f)
    <3>1. CASE OsStart(f) \/ BeginSession(f) \/ Listening(f) \/ StartThrows(f) \/ Started(f) \/ MicAnswers(f)
      BY <3>1, OsStartSteps, BeginSessionSteps, StartingSteps, MicAnswersSteps
    <3>2. CASE NativeStopped(f) \/ ClearEnds(f) \/ OsCancel(f) \/ RecordingLimit(f)
      BY <3>2, ClearingSteps, StopsSteps
    <3>3. CASE OsStop(f) \/ SpeechStopped(f) \/ Transcribed(f) \/ Answered(f)
      BY <3>3, OsStopSteps, AnsweringSteps
    <3>4. CASE \/ SendThrows(f) \/ FirstPage(f) \/ PauseEnds(f) \/ LastPage(f)
               \/ PageTick(f) \/ AutoPage(f) \/ Touchpad(f) \/ TouchedPage(f)
      BY <3>4, FirstPageSteps, LastPageSteps, PageTickSteps, AutoPageSteps, TouchpadSteps
    <3>5. QED
      BY <2>1, <3>1, <3>2, <3>3, <3>4
  <2>3. PagesTurn(f)
    BY <2>1, PagesTurnWell DEF AssistantInv
  <2>4. QED
    BY <1>2, <2>2, <2>3
<1>4. QED
  BY <1>1, <1>3

LEMMA AssistantInvariant == AssistantSpec => []AssistantInv
<1>1. AssistantInv /\ [AssistantNext]_assistantVars => AssistantInv'
  BY AssistantInvStep
<1>2. QED
  BY AssistantInvInit, <1>1, PTL DEF AssistantSpec

\* The variables of the assistant stay within their types.
THEOREM AssistantTypeCorrect == AssistantSpec => []AssistantTypeOK
<1>1. AssistantInv => AssistantTypeOK
  BY DEF AssistantInv
<1>2. QED
  BY AssistantInvariant, <1>1, PTL

\* At most one session is live, whatever handlers of earlier ones return.
THEOREM SupersededSessionsAreOver == AssistantSpec => []SupersededIsOver
<1>1. AssistantInv => SupersededIsOver
  BY DEF AssistantInv
<1>2. QED
  BY AssistantInvariant, <1>1, PTL

\* A session that acquires audio, finalizes speech or awaits an answer has a
\* handler whose return takes it further.
THEOREM SessionsAreServed == AssistantSpec => []SomeoneServesIt
<1>1. AssistantInv => SomeoneServesIt
  BY DEF AssistantInv
<1>2. QED
  BY AssistantInvariant, <1>1, PTL

\* A session that was given one answer is completed only after the glasses
\* acknowledged the last page of it, though the page count is read from a list
\* that other handlers clear and fill.
THEOREM CompletionsWereShown == AssistantSpec => []CompletedWasShown
<1>1. AssistantInv => CompletedWasShown
  BY DEF AssistantInv, CompletionsStand, CompletedWasShown
<1>2. QED
  BY AssistantInvariant, <1>1, PTL

\* Sessions only move on, and not at all once they are over.
THEOREM SessionsMoveOn == AssistantSpec => LifecycleIsOrdered
<1>1. AssistantInv /\ [AssistantNext]_assistantVars
      => [\A g \in Generations : state'[g] # state[g] => state'[g] \in Later(state[g])]_assistantVars
  BY AssistantInvStep
<1>2. QED
  BY AssistantInvariant, <1>1, PTL DEF AssistantSpec, LifecycleIsOrdered
=============================================================================
