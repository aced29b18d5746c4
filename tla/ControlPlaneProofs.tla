------------------------ MODULE ControlPlaneProofs ------------------------
(***************************************************************************)
(* Proofs about the two ledgers of services/control_plane: first           *)
(* DurableCapabilities, for every set of operations, leases, subjects and  *)
(* read-backs and every budget; then DurableRealtime, for any sessions,    *)
(* tickets, remote sessions, budgets, concurrent calls and false answers   *)
(* of the provider.  The two share no state and no lemma.                  *)
(***************************************************************************)
EXTENDS DurableCapabilities, DurableRealtime, FiniteSetTheorems, TLAPS

-----------------------------------------------------------------------------
(* Capabilities: the inductive invariant                                   *)

Row == [state : State, conflict : BOOLEAN, lease : Leases \cup {NoLease}]

\* The types the arguments below rest on.
LedgerTypes ==
    /\ row \in [Keys -> Row]
    /\ caller \in [Keys -> {"idle", "reserved", "waiting"}]
    /\ worker \in [Keys -> {"idle", "queued", "admitted", "authorized", "sent"} \cup Outcome]
    /\ reader \in [Readers -> [pc : {"idle", "reserved", "asking"}, key : Keys \cup {NoKey}]]
    /\ sent \in [Keys -> Nat]
    /\ seen \in [Keys -> SUBSET Disposition]

\* Threads and read-backs exist only for operations that were admitted.
Admitted(k) == row[k].state \notin {"absent", "denied"}
OnlyAdmittedRun ==
    /\ \A k \in Keys : caller[k] # "idle" \/ worker[k] # "idle" => Admitted(k)
    /\ \A p \in Readers : reader[p].pc # "idle" => reader[p].key \in Keys /\ Admitted(reader[p].key)

\* Until its worker hands an operation on, the provider has not been called.
Unsent(k) ==
    ~Admitted(k) \/ caller[k] = "reserved" \/ worker[k] \in {"queued", "admitted", "authorized"}
SentLater ==
    /\ \A k \in Keys : Unsent(k) => sent[k] = 0
    /\ \A k \in Keys : caller[k] = "reserved" => worker[k] = "idle"

\* A terminal answer the ledger was given is the settled state or a conflict.
AnswersAreSettled ==
    \A k \in Keys :
        /\ row[k].conflict => row[k].state = "indeterminate"
        /\ "applied" \in seen[k] => row[k].conflict \/ row[k].state = "succeeded"
        /\ "not_applied" \in seen[k] => row[k].conflict \/ row[k].state = "failed"

LedgerInvariant ==
    /\ LedgerTypes
    /\ OnlyAdmittedRun
    /\ LeaseBindsOneOperation
    /\ SentLater /\ ProviderCalledOnce
    /\ AnswersAreSettled

-----------------------------------------------------------------------------
(* What transactions do to a row                                           *)

\* The last transaction of execute() and of reconcile() concerns one admitted
\* row, keeps its lease, and relates its outcome to the answers given.
LEMMA ConcludeOneRow ==
    ASSUME LedgerInvariant, NEW k \in Keys, Admitted(k),
           NEW v \in Outcome \cup {"timeout"}, Conclude(k, v)
    PROVE  /\ row' \in [Keys -> Row]
           /\ seen' \in [Keys -> SUBSET Disposition]
           /\ \A j \in Keys \ {k} : row'[j] = row[j] /\ seen'[j] = seen[j]
           /\ \A j \in Keys : row'[j].lease = row[j].lease
           /\ Admitted(k)'
           /\ AnswersAreSettled'
  <1>1. row[k] \in Row /\ row[k].state \in State \ {"absent", "denied"}
    BY DEF LedgerInvariant, LedgerTypes, Admitted, Row
  <1>2. seen' = [seen EXCEPT ![k] = @ \cup ({v} \cap Disposition)]
    BY DEF Conclude
  <1>3. seen' \in [Keys -> SUBSET Disposition] /\ seen'[k] = seen[k] \cup ({v} \cap Disposition)
        /\ \A j \in Keys \ {k} : seen'[j] = seen[j]
    BY <1>2 DEF LedgerInvariant, LedgerTypes
  <1> DEFINE open == row[k].state \notin Terminal /\ ~row[k].conflict
             settled == CASE v = "not_started" -> "failed" [] v = "applied" -> "succeeded"
                          [] v = "not_applied" -> "failed" [] OTHER -> "indeterminate"
             contradiction == \/ row[k].state = "failed" /\ v = "applied"
                              \/ row[k].state = "succeeded" /\ v = "not_applied"
  <1>4. CASE open
    <2>1. row' = [row EXCEPT ![k].state = settled]
      BY <1>4 DEF Conclude, Observe, Settle
    <2>2. settled \in State \ {"absent", "denied"}
      BY DEF State
    <2> HIDE DEF settled
    <2>3. row' \in [Keys -> Row] /\ \A j \in Keys \ {k} : row'[j] = row[j]
      BY <2>1, <2>2 DEF LedgerInvariant, LedgerTypes, Row
    <2>4. row'[k].state = settled /\ row'[k].conflict = row[k].conflict /\ row'[k].lease = row[k].lease
      BY <2>1 DEF LedgerInvariant, LedgerTypes, Row
    <2>5. seen[k] = {}
      BY <1>4 DEF LedgerInvariant, LedgerTypes, AnswersAreSettled, Terminal, Disposition
    <2>6. /\ "applied" \in seen'[k] => settled = "succeeded"
          /\ "not_applied" \in seen'[k] => settled = "failed"
      BY <1>3, <2>5 DEF settled, Disposition
    <2> QED
      BY <1>3, <1>4, <2>2, <2>3, <2>4, <2>6 DEF LedgerInvariant, AnswersAreSettled, Admitted
  <1>5. CASE ~open /\ contradiction
    <2>1. row' = [row EXCEPT ![k].state = "indeterminate", ![k].conflict = TRUE]
      BY <1>5 DEF Conclude, RecordConflict
    <2> DEFINE half == [row EXCEPT ![k].state = "indeterminate"]
    <2>2. /\ half \in [Keys -> Row]
          /\ half[k].state = "indeterminate" /\ half[k].lease = row[k].lease
          /\ \A j \in Keys \ {k} : half[j] = row[j]
      BY <1>1 DEF LedgerInvariant, LedgerTypes, Row, State
    <2>3. row' = [half EXCEPT ![k].conflict = TRUE]
      BY <2>1
    <2> HIDE DEF half
    <2>4. row' \in [Keys -> Row] /\ \A j \in Keys \ {k} : row'[j] = row[j]
      BY <2>2, <2>3 DEF Row
    <2>5. row'[k].state = "indeterminate" /\ row'[k].conflict = TRUE /\ row'[k].lease = row[k].lease
      BY <2>2, <2>3 DEF Row
    <2> QED
      BY <1>3, <2>4, <2>5 DEF LedgerInvariant, AnswersAreSettled, Admitted
  <1>6. CASE ~open /\ ~contradiction
    <2>1. row' = row
      BY <1>6 DEF Conclude, RecordConflict
    <2>2. /\ "applied" \in seen'[k] => row[k].conflict \/ row[k].state = "succeeded"
          /\ "not_applied" \in seen'[k] => row[k].conflict \/ row[k].state = "failed"
      BY <1>1, <1>3, <1>6 DEF LedgerInvariant, AnswersAreSettled, Terminal, State, Disposition
    <2> QED
      BY <1>3, <2>1, <2>2 DEF LedgerInvariant, LedgerTypes, AnswersAreSettled, Admitted
  <1> QED
    BY <1>4, <1>5, <1>6

\* A step that leaves leases alone keeps them apart.
LEMMA LeasesKept ==
    ASSUME LedgerInvariant, \A j \in Keys : row'[j].lease = row[j].lease
    PROVE  LeaseBindsOneOperation'
  BY DEF LedgerInvariant, LeaseBindsOneOperation

-----------------------------------------------------------------------------
(* Every step keeps the invariant                                          *)

LEMMA ReserveKeeps ==
    ASSUME LedgerInvariant, NEW k \in Keys, NEW l \in Leases \cup {NoLease}, Reserve(k, l)
    PROVE  LedgerInvariant'
  <1> USE DEF LedgerInvariant
  <1>1. /\ row[k].state = "absent" /\ caller[k] = "idle" /\ worker[k] = "idle"
        /\ seen[k] = {} /\ row[k].conflict = FALSE /\ sent[k] = 0
        /\ UNCHANGED <<worker, reader, sent, seen>>
    BY DEF Reserve, history, LedgerTypes, OnlyAdmittedRun, Admitted, AnswersAreSettled,
           SentLater, Unsent, Disposition, Row
  <1>2. CASE /\ Allowed(k, l)
             /\ row' = [row EXCEPT ![k] = [state |-> "dispatching", conflict |-> FALSE, lease |-> l]]
             /\ caller' = [caller EXCEPT ![k] = "reserved"]
    <2>1. LedgerTypes'
      BY <1>1, <1>2 DEF LedgerTypes, Row, State
    <2>2. /\ row'[k] = [state |-> "dispatching", conflict |-> FALSE, lease |-> l]
          /\ \A j \in Keys \ {k} : row'[j] = row[j]
          /\ caller'[k] = "reserved" /\ \A j \in Keys \ {k} : caller'[j] = caller[j]
      BY <1>2 DEF LedgerTypes
    <2>3. OnlyAdmittedRun'
      BY <1>1, <2>2 DEF OnlyAdmittedRun, Admitted
    <2>4. LeaseBindsOneOperation'
      <3>1. \A j \in Keys : row[j].lease = l => l = NoLease
        BY <1>2 DEF Allowed, ConsumedLeases
      <3> QED
        BY <2>2, <3>1 DEF LeaseBindsOneOperation
    <2>5. SentLater' /\ ProviderCalledOnce'
      BY <1>1, <2>2 DEF SentLater, Unsent, Admitted, ProviderCalledOnce
    <2>6. AnswersAreSettled'
      BY <1>1, <2>2 DEF AnswersAreSettled
    <2> QED
      BY <2>1, <2>3, <2>4, <2>5, <2>6
  <1>3. CASE row' = [row EXCEPT ![k].state = "denied"] /\ caller' = caller
    <2>1. LedgerTypes'
      <3>1. row[k] \in Row /\ "denied" \in State
        BY DEF LedgerTypes, State
      <3>2. [row[k] EXCEPT !.state = "denied"] \in Row
        BY <3>1 DEF Row
      <3> QED
        BY <1>1, <1>3, <3>2 DEF LedgerTypes
    <2>2. /\ row'[k].state = "denied" /\ row'[k].conflict = row[k].conflict
          /\ row'[k].lease = row[k].lease
          /\ \A j \in Keys \ {k} : row'[j] = row[j]
      BY <1>3 DEF LedgerTypes, Row
    <2>3. OnlyAdmittedRun' /\ SentLater' /\ ProviderCalledOnce' /\ AnswersAreSettled'
      BY <1>1, <1>3, <2>2 DEF OnlyAdmittedRun, Admitted, SentLater, Unsent, ProviderCalledOnce,
                              AnswersAreSettled
    <2>4. LeaseBindsOneOperation'
      BY <2>2, LeasesKept
    <2> QED
      BY <2>1, <2>3, <2>4
  <1> QED
    BY <1>2, <1>3 DEF Reserve

\* The steps of an operation's own threads that touch neither rows nor answers.
LEMMA ThreadKeeps ==
    ASSUME LedgerInvariant, NEW k \in Keys,
           \/ Run(k) \/ Authorize(k) \/ Send(k) \/ WorkerReturns(k) \/ Crash(k)
    PROVE  LedgerInvariant'
  <1> USE DEF LedgerInvariant
  <1>1. /\ UNCHANGED <<row, reader, seen>>
        /\ \A j \in Keys \ {k} : caller'[j] = caller[j] /\ worker'[j] = worker[j] /\ sent'[j] = sent[j]
        /\ caller' \in [Keys -> {"idle", "reserved", "waiting"}]
        /\ worker' \in [Keys -> {"idle", "queued", "admitted", "authorized", "sent"} \cup Outcome]
        /\ sent' \in [Keys -> Nat]
    BY DEF Run, Authorize, Send, WorkerReturns, Crash, ledger, history, LedgerTypes, Outcome, Disposition
  <1>2. /\ caller'[k] # "idle" \/ worker'[k] # "idle" => Admitted(k)
        /\ caller'[k] = "reserved" => worker'[k] = "idle"
        /\ Unsent(k)' => Unsent(k) /\ sent'[k] = sent[k]
        /\ sent'[k] <= 1
    <2>1. CASE Run(k)
      BY <2>1, <1>1 DEF Run, history, LedgerTypes, OnlyAdmittedRun, Admitted, SentLater, Unsent,
                        ProviderCalledOnce
    <2>2. CASE Authorize(k)
      BY <2>2, <1>1 DEF Authorize, history, LedgerTypes, OnlyAdmittedRun, Admitted, SentLater, Unsent,
                        ProviderCalledOnce
    <2>3. CASE Send(k)
      BY <2>3, <1>1 DEF Send, history, LedgerTypes, OnlyAdmittedRun, Admitted, SentLater, Unsent,
                        ProviderCalledOnce
    <2>4. CASE WorkerReturns(k)
      BY <2>4, <1>1 DEF WorkerReturns, Disposition, LedgerTypes, OnlyAdmittedRun, Admitted,
                        SentLater, Unsent, ProviderCalledOnce
    <2>5. CASE Crash(k)
      BY <2>5, <1>1 DEF Crash, history, LedgerTypes, OnlyAdmittedRun, Admitted, SentLater, Unsent,
                        ProviderCalledOnce
    <2> QED
      BY <2>1, <2>2, <2>3, <2>4, <2>5
  <1>3. LedgerTypes'
    BY <1>1 DEF LedgerTypes
  <1>4. OnlyAdmittedRun'
    BY <1>1, <1>2 DEF OnlyAdmittedRun, Admitted
  <1>5. SentLater' /\ ProviderCalledOnce'
    BY <1>1, <1>2 DEF SentLater, Unsent, Admitted, ProviderCalledOnce
  <1>6. LeaseBindsOneOperation' /\ AnswersAreSettled'
    BY <1>1, LeasesKept DEF AnswersAreSettled
  <1> QED
    BY <1>3, <1>4, <1>5, <1>6

LEMMA DispatchKeeps ==
    ASSUME LedgerInvariant, NEW k \in Keys, Dispatch(k)
    PROVE  LedgerInvariant'
  <1> USE DEF LedgerInvariant
  <1>1. /\ UNCHANGED <<caller, reader, sent, seen>>
        /\ worker[k] = "queued"
        /\ Admitted(k) /\ caller[k] # "reserved" /\ sent[k] = 0
    BY DEF Dispatch, history, OnlyAdmittedRun, SentLater, Unsent
  <1>2. /\ \A j \in Keys \ {k} : worker'[j] = worker[j]
        /\ worker'[k] \in {"none", "admitted", "error"}
        /\ worker' \in [Keys -> {"idle", "queued", "admitted", "authorized", "sent"} \cup Outcome]
    BY DEF Dispatch, LedgerTypes, Outcome
  <1>3. /\ row' \in [Keys -> Row]
        /\ \A j \in Keys \ {k} : row'[j] = row[j]
        /\ row'[k].lease = row[k].lease /\ row'[k].conflict = row[k].conflict
        /\ \/ row'[k].state = row[k].state
           \/ row[k].state = "dispatching" /\ row'[k].state = "failed"
    <2>1. CASE row' = row
      BY <2>1 DEF LedgerTypes
    <2>2. CASE row[k].state = "dispatching" /\ row' = [row EXCEPT ![k].state = "failed"]
      BY <2>2 DEF LedgerTypes, Row, State
    <2> QED
      BY <2>1, <2>2 DEF Dispatch, Settle
  <1>4. LedgerTypes'
    BY <1>1, <1>2, <1>3 DEF LedgerTypes
  <1>5. OnlyAdmittedRun'
    BY <1>1, <1>2, <1>3 DEF OnlyAdmittedRun, Admitted
  <1>6. SentLater' /\ ProviderCalledOnce'
    BY <1>1, <1>2, <1>3 DEF SentLater, Unsent, Admitted, ProviderCalledOnce
  <1>7. LeaseBindsOneOperation'
    BY <1>3, LeasesKept
  <1>8. AnswersAreSettled'
    BY <1>1, <1>3 DEF AnswersAreSettled
  <1> QED
    BY <1>4, <1>5, <1>6, <1>7, <1>8

\* What the two final transactions share: one conclusion, and threads that end.
LEMMA ConcludingKeeps ==
    ASSUME LedgerInvariant, NEW k \in Keys, Admitted(k),
           UNCHANGED <<row, seen>> \/ \E v \in Outcome \cup {"timeout"} : Conclude(k, v),
           UNCHANGED <<worker, sent>>,
           caller' \in [Keys -> {"idle", "reserved", "waiting"}],
           \A j \in Keys : caller'[j] \in {caller[j], "idle"},
           reader' \in [Readers -> [pc : {"idle", "reserved", "asking"}, key : Keys \cup {NoKey}]],
           \A p \in Readers : reader'[p].pc = "idle" \/ reader'[p] = reader[p]
    PROVE  LedgerInvariant'
  <1> USE DEF LedgerInvariant
  <1>1. /\ row' \in [Keys -> Row] /\ seen' \in [Keys -> SUBSET Disposition]
        /\ \A j \in Keys : row'[j].lease = row[j].lease
        /\ \A j \in Keys : Admitted(j)' <=> Admitted(j)
        /\ AnswersAreSettled'
    <2>1. CASE UNCHANGED <<row, seen>>
      BY <2>1 DEF LedgerTypes, Admitted, AnswersAreSettled
    <2>2. CASE \E v \in Outcome \cup {"timeout"} : Conclude(k, v)
      <3>1. PICK v \in Outcome \cup {"timeout"} : Conclude(k, v)
        BY <2>2
      <3> QED
        BY <3>1, ConcludeOneRow DEF Admitted
    <2> QED
      BY <2>1, <2>2
  <1>2. LedgerTypes'
    BY <1>1 DEF LedgerTypes
  <1>3. OnlyAdmittedRun'
    BY <1>1 DEF OnlyAdmittedRun
  <1>4. SentLater' /\ ProviderCalledOnce'
    BY <1>1 DEF SentLater, Unsent, ProviderCalledOnce
  <1>5. LeaseBindsOneOperation'
    BY <1>1, LeasesKept
  <1> QED
    BY <1>1, <1>2, <1>3, <1>4, <1>5

LEMMA FinalizeKeeps ==
    ASSUME LedgerInvariant, NEW k \in Keys, Finalize(k)
    PROVE  LedgerInvariant'
  <1>1. Admitted(k)
    BY DEF Finalize, LedgerInvariant, OnlyAdmittedRun
  <1>2. UNCHANGED <<row, seen>> \/ \E v \in Outcome \cup {"timeout"} : Conclude(k, v)
    BY DEF Finalize
  <1>3. /\ UNCHANGED <<worker, sent, reader>>
        /\ caller' \in [Keys -> {"idle", "reserved", "waiting"}]
        /\ \A j \in Keys : caller'[j] \in {caller[j], "idle"}
    BY DEF Finalize, LedgerInvariant, LedgerTypes
  <1> QED
    BY <1>1, <1>2, <1>3, ConcludingKeeps DEF LedgerInvariant, LedgerTypes

LEMMA ReadbackFinishKeeps ==
    ASSUME LedgerInvariant, NEW p \in Readers, ReadbackFinish(p)
    PROVE  LedgerInvariant'
  <1>0. PICK k \in Keys : k = reader[p].key
    BY DEF ReadbackFinish, LedgerInvariant, OnlyAdmittedRun
  <1>1. Admitted(k)
    BY <1>0 DEF ReadbackFinish, LedgerInvariant, OnlyAdmittedRun
  <1>2. UNCHANGED <<row, seen>> \/ \E v \in Outcome \cup {"timeout"} : Conclude(k, v)
    BY <1>0 DEF ReadbackFinish, Outcome
  <1>3. /\ UNCHANGED <<worker, sent, caller>>
        /\ reader' = [reader EXCEPT ![p] = IdleReader]
    BY DEF ReadbackFinish
  <1>4. /\ reader' \in [Readers -> [pc : {"idle", "reserved", "asking"}, key : Keys \cup {NoKey}]]
        /\ \A q \in Readers : reader'[q].pc = "idle" \/ reader'[q] = reader[q]
    BY <1>3 DEF IdleReader, LedgerInvariant, LedgerTypes
  <1> QED
    BY <1>1, <1>2, <1>3, <1>4, ConcludingKeeps DEF LedgerInvariant, LedgerTypes

LEMMA ReadbackBeginsKeeps ==
    ASSUME LedgerInvariant, NEW p \in Readers,
           ReadbackAsk(p) \/ \E k \in Keys : ReadbackReserve(p, k)
    PROVE  LedgerInvariant'
  <1> USE DEF LedgerInvariant
  <1>1. UNCHANGED <<row, caller, worker, sent, seen>>
    BY DEF ReadbackAsk, ReadbackReserve, ledger, history
  <1>2. /\ reader' \in [Readers -> [pc : {"idle", "reserved", "asking"}, key : Keys \cup {NoKey}]]
        /\ \A q \in Readers : reader'[q].pc # "idle" =>
               reader'[q].key \in Keys /\ Admitted(reader'[q].key)
    <2>1. CASE ReadbackAsk(p)
      BY <2>1 DEF ReadbackAsk, LedgerTypes, OnlyAdmittedRun
    <2>2. CASE \E k \in Keys : ReadbackReserve(p, k)
      <3>1. PICK k \in Keys : ReadbackReserve(p, k)
        BY <2>2
      <3> QED
        BY <3>1 DEF ReadbackReserve, LedgerTypes, OnlyAdmittedRun, Admitted
    <2> QED
      BY <2>1, <2>2
  <1>3. LedgerTypes' /\ OnlyAdmittedRun' /\ SentLater' /\ ProviderCalledOnce' /\ AnswersAreSettled'
    BY <1>1, <1>2 DEF LedgerTypes, OnlyAdmittedRun, SentLater, Unsent, Admitted,
                      ProviderCalledOnce, AnswersAreSettled
  <1>4. LeaseBindsOneOperation'
    BY <1>1, LeasesKept
  <1> QED
    BY <1>3, <1>4

\* Steps of the provider, of the clock and of revocations, and stuttering.
LEMMA OthersKeep ==
    ASSUME LedgerInvariant,
           UNCHANGED <<row, caller, worker, reader, sent, seen>>
    PROVE  LedgerInvariant'
  BY LeasesKept DEF LedgerInvariant, LedgerTypes, OnlyAdmittedRun, SentLater, Unsent, Admitted,
                    ProviderCalledOnce, AnswersAreSettled, LeaseBindsOneOperation

-----------------------------------------------------------------------------
LEMMA LedgerInvariantHolds == Spec => []LedgerInvariant
  <1>1. Init => LedgerInvariant
    BY DEF Init, LedgerInvariant, LedgerTypes, Row, State, Outcome, IdleReader, OnlyAdmittedRun,
           Admitted, LeaseBindsOneOperation, SentLater, Unsent, ProviderCalledOnce, AnswersAreSettled
  <1>2. LedgerInvariant /\ [Next]_vars => LedgerInvariant'
    <2> SUFFICES ASSUME LedgerInvariant, [Next]_vars PROVE LedgerInvariant'
      OBVIOUS
    <2>1. CASE \E k \in Keys, l \in Leases \cup {NoLease} : Reserve(k, l)
      BY <2>1, ReserveKeeps
    <2>2. CASE \E k \in Keys : Run(k) \/ Authorize(k) \/ Send(k) \/ WorkerReturns(k) \/ Crash(k)
      BY <2>2, ThreadKeeps
    <2>3. CASE \E k \in Keys : Dispatch(k)
      BY <2>3, DispatchKeeps
    <2>4. CASE \E k \in Keys : Finalize(k)
      BY <2>4, FinalizeKeeps
    <2>5. CASE \E p \in Readers : ReadbackFinish(p)
      BY <2>5, ReadbackFinishKeeps
    <2>6. CASE \E p \in Readers : ReadbackAsk(p) \/ \E k \in Keys : ReadbackReserve(p, k)
      BY <2>6, ReadbackBeginsKeeps
    <2>7. CASE \/ \E k \in Keys : ProviderApplies(k)
               \/ \E s \in Subjects : RevokeSubject(s)
               \/ Tick \/ UNCHANGED vars
      <3>1. UNCHANGED <<row, caller, worker, reader, sent, seen>>
        BY <2>7 DEF ProviderApplies, RevokeSubject, Tick, vars, ledger, history
      <3> QED
        BY <3>1, OthersKeep
    <2> QED
      BY <2>1, <2>2, <2>3, <2>4, <2>5, <2>6, <2>7 DEF Next
  <1> QED
    BY <1>1, <1>2, PTL DEF Spec

\* A single-use lease admits one operation, for good: the ledger of consumed
\* leases is only ever extended by the transaction that looks into it.
THEOREM LeaseIsBound == Spec => []LeaseBindsOneOperation
  <1>1. LedgerInvariant => LeaseBindsOneOperation
    BY DEF LedgerInvariant
  <1> QED
    BY <1>1, LedgerInvariantHolds, PTL

\* "No automatic dispatch on recovery": whatever dies or times out, an operation
\* reaches its provider at most once.
THEOREM DispatchedOnce == Spec => []ProviderCalledOnce
  <1>1. LedgerInvariant => ProviderCalledOnce
    BY DEF LedgerInvariant
  <1> QED
    BY <1>1, LedgerInvariantHolds, PTL

\* Two contradicting terminal answers leave a recorded conflict, in whatever
\* order executions and read-backs deliver them.
THEOREM ContradictionStays == Spec => []ContradictionIsKept
  <1>1. LedgerInvariant => ContradictionIsKept
    BY DEF LedgerInvariant, AnswersAreSettled, ContradictionIsKept, Disposition
  <1> QED
    BY <1>1, LedgerInvariantHolds, PTL

-----------------------------------------------------------------------------
(* Settled receipts are true.  The argument follows what the provider has  *)
(* been handed and what it has promised.                                   *)

Provider == {"unaware", "received", "applied", "refused"}
Untouched == {"unaware", "refused"}

\* Nothing was handed on before the adapter's call.
NotYetSent(k) ==
    Unsent(k) \/ worker[k] = "not_started"

\* A receipt, or an answer a worker brings back, repeats what the provider knows.
Truthful(k) ==
    /\ row[k].state = "succeeded" => provider[k] = "applied"
    /\ row[k].state \in {"failed", "denied"} =>
          /\ provider[k] \in Untouched
          /\ provider[k] = "unaware" => worker[k] \notin {"admitted", "authorized"}
    /\ worker[k] = "applied" => provider[k] = "applied"
    /\ worker[k] = "not_applied" => provider[k] = "refused"

TruthInvariant ==
    /\ provider \in [Keys -> Provider]
    /\ broken \subseteq Keys
    /\ \A k \in Keys : NotYetSent(k) => provider[k] \in Untouched
    /\ \A k \in Keys \ broken : Truthful(k)

\* An answer changes what the provider promises about one operation; a
\* truthful one repeats it.
LEMMA AnswerPromises ==
    ASSUME LedgerInvariant, TruthInvariant, NEW k \in Keys,
           NEW v \in Disposition \cup {"unknown"}, Answers(k, v)
    PROVE  /\ provider' \in [Keys -> Provider] /\ broken' \subseteq Keys
           /\ broken \subseteq broken'
           /\ \A j \in Keys \ {k} : provider'[j] = provider[j]
           /\ provider'[k] \in {provider[k], "refused"}
           /\ provider[k] = "applied" => provider'[k] = "applied"
           /\ k \notin broken' => /\ v = "applied" => provider'[k] = "applied"
                                  /\ v = "not_applied" => provider'[k] = "refused"
  BY DEF TruthInvariant, Answers, Disposition, Provider

\* A conclusion whose answer is the provider's promise is truthful.
LEMMA ConclusionTruthful ==
    ASSUME LedgerInvariant, TruthInvariant, NEW k \in Keys, Admitted(k), k \notin broken,
           NEW v \in Outcome \cup {"timeout"}, Conclude(k, v),
           worker' = worker,
           provider'[k] \in {provider[k], "refused"},
           provider[k] = "applied" => provider'[k] = "applied",
           v = "applied" => provider'[k] = "applied",
           v = "not_applied" => provider'[k] = "refused",
           v = "not_started" => worker[k] = "not_started"
    PROVE  Truthful(k)'
  <1>1. row[k] \in Row /\ row[k].state \in State \ {"absent", "denied"}
    BY DEF LedgerInvariant, LedgerTypes, Admitted, Row
  <1>2. Truthful(k) /\ provider[k] \in Provider
    BY DEF TruthInvariant
  <1>3. v = "not_started" => provider[k] \in Untouched
    BY DEF TruthInvariant, NotYetSent
  <1>4. provider[k] \in Untouched => provider'[k] \in Untouched
    BY DEF Untouched
  <1>5. CASE row' = row
    BY <1>2, <1>4, <1>5 DEF Truthful, Untouched, Provider
  <1>6. CASE row'[k].state = "indeterminate"
    BY <1>2, <1>6 DEF Truthful, Untouched, Provider
  <1>7. CASE row'[k].state = "succeeded" /\ v = "applied"
    BY <1>2, <1>7 DEF Truthful, Untouched, Provider
  <1>8. CASE row'[k].state = "failed" /\ v = "not_applied"
    BY <1>2, <1>8 DEF Truthful, Untouched, Provider
  <1>9. CASE row'[k].state = "failed" /\ v = "not_started"
    BY <1>2, <1>3, <1>4, <1>9 DEF Truthful, Untouched, Provider
  <1>10. \/ row' = row
         \/ row'[k].state = "indeterminate"
         \/ row'[k].state = "succeeded" /\ v = "applied"
         \/ row'[k].state = "failed" /\ v \in {"not_applied", "not_started"}
    <2>1. \A s \in State : row' = [row EXCEPT ![k].state = s] => row'[k].state = s
      BY DEF LedgerInvariant, LedgerTypes, Row
    <2>2. row' = [row EXCEPT ![k].state = "indeterminate", ![k].conflict = TRUE]
             => row'[k].state = "indeterminate"
      BY <1>1 DEF LedgerInvariant, LedgerTypes, Row
    <2> QED
      BY <2>1, <2>2 DEF Conclude, Observe, Settle, RecordConflict, State
  <1> QED
    BY <1>5, <1>6, <1>7, <1>8, <1>9, <1>10

\* A step that touches the provider's knowledge and threads of one operation
\* only, and of its row at most the state, keeps the rest truthful.
LEMMA OneOperation ==
    ASSUME LedgerInvariant, TruthInvariant, NEW k \in Keys,
           provider' \in [Keys -> Provider], broken' \subseteq Keys, broken \subseteq broken',
           \A j \in Keys \ {k} : /\ row'[j] = row[j] /\ provider'[j] = provider[j]
                                 /\ caller'[j] = caller[j] /\ worker'[j] = worker[j],
           NotYetSent(k)' => provider'[k] \in Untouched,
           k \notin broken' => Truthful(k)'
    PROVE  TruthInvariant'
  <1>1. \A j \in Keys : NotYetSent(j)' => provider'[j] \in Untouched
    BY DEF TruthInvariant, NotYetSent, Unsent, Admitted
  <1>2. \A j \in Keys \ broken' : Truthful(j)'
    BY DEF TruthInvariant, Truthful
  <1> QED
    BY <1>1, <1>2 DEF TruthInvariant

LEMMA ReserveTruthful ==
    ASSUME LedgerInvariant, TruthInvariant, NEW k \in Keys,
           NEW l \in Leases \cup {NoLease}, Reserve(k, l)
    PROVE  TruthInvariant'
  <1>1. /\ UNCHANGED <<worker, provider, broken>>
        /\ row[k].state = "absent" /\ worker[k] = "idle"
        /\ \A j \in Keys \ {k} : row'[j] = row[j] /\ caller'[j] = caller[j]
        /\ row'[k].state \in {"dispatching", "denied"}
    BY DEF Reserve, history, LedgerInvariant, LedgerTypes, OnlyAdmittedRun, Admitted, Row
  <1>2. provider[k] \in Untouched
    BY <1>1 DEF TruthInvariant, NotYetSent, Unsent, Admitted
  <1>3. Truthful(k)'
    BY <1>1, <1>2 DEF Truthful
  <1> QED
    BY <1>1, <1>2, <1>3, OneOperation DEF TruthInvariant

LEMMA ThreadTruthful ==
    ASSUME LedgerInvariant, TruthInvariant, NEW k \in Keys,
           Run(k) \/ Authorize(k) \/ Dispatch(k) \/ Send(k) \/ Crash(k)
    PROVE  TruthInvariant'
  <1>1. /\ UNCHANGED broken
        /\ \A j \in Keys \ {k} : /\ row'[j] = row[j] /\ provider'[j] = provider[j]
                                 /\ caller'[j] = caller[j] /\ worker'[j] = worker[j]
        /\ provider' \in [Keys -> Provider]
    <2>1. row' = row \/ row' = [row EXCEPT ![k].state = "failed"]
      BY DEF Run, Authorize, Dispatch, Send, Crash, Settle, ledger
    <2>2. provider' = provider \/ provider' = [provider EXCEPT ![k] = IF @ = "unaware" THEN "received" ELSE @]
      BY DEF Run, Authorize, Dispatch, Send, Crash
    <2>3. /\ UNCHANGED broken
          /\ \A j \in Keys \ {k} : caller'[j] = caller[j] /\ worker'[j] = worker[j]
      BY DEF Run, Authorize, Dispatch, Send, Crash, history, LedgerInvariant, LedgerTypes
    <2> QED
      BY <2>1, <2>2, <2>3 DEF LedgerInvariant, LedgerTypes, TruthInvariant, Provider
  <1>2. /\ NotYetSent(k)' => provider'[k] \in Untouched
        /\ Truthful(k) => Truthful(k)'
    <2>1. CASE Run(k)
      BY <2>1 DEF Run, ledger, LedgerInvariant, LedgerTypes, TruthInvariant, NotYetSent, Unsent,
                  Admitted, OnlyAdmittedRun, Truthful
    <2>2. CASE Authorize(k)
      BY <2>2 DEF Authorize, ledger, LedgerInvariant, LedgerTypes, TruthInvariant, NotYetSent, Unsent,
                  Admitted, OnlyAdmittedRun, Truthful
    <2>3. CASE Dispatch(k)
      <3>1. UNCHANGED <<provider, caller>> /\ provider[k] \in Untouched
        BY <2>3 DEF Dispatch, TruthInvariant, NotYetSent, Unsent
      <3>2. \/ worker'[k] \in {"none", "error"}
            \/ worker'[k] = "admitted" /\ row[k].state = "dispatching" /\ row' = row
        BY <2>3 DEF Dispatch, LedgerInvariant, LedgerTypes
      <3>3. row' = row \/ row'[k].state = "failed"
        BY <2>3 DEF Dispatch, Settle, LedgerInvariant, LedgerTypes, Row
      <3> QED
        BY <3>1, <3>2, <3>3 DEF Truthful
    <2>4. CASE Send(k)
      <3>1. /\ UNCHANGED <<row, caller>> /\ worker'[k] = "sent"
            /\ worker[k] \in {"admitted", "authorized"}
            /\ provider'[k] = IF provider[k] = "unaware" THEN "received" ELSE provider[k]
        BY <2>4 DEF Send, ledger, LedgerInvariant, LedgerTypes, TruthInvariant
      <3>2. ~NotYetSent(k)'
        BY <3>1 DEF NotYetSent, Unsent, Admitted, LedgerInvariant, OnlyAdmittedRun, SentLater
      <3> QED
        BY <3>1, <3>2 DEF Truthful, Untouched
    <2>5. CASE Crash(k)
      BY <2>5 DEF Crash, ledger, LedgerInvariant, LedgerTypes, TruthInvariant, NotYetSent, Unsent,
                  Admitted, OnlyAdmittedRun, Truthful
    <2> QED
      BY <2>1, <2>2, <2>3, <2>4, <2>5
  <1> QED
    BY <1>1, <1>2, OneOperation DEF TruthInvariant

LEMMA WorkerReturnsTruthful ==
    ASSUME LedgerInvariant, TruthInvariant, NEW k \in Keys, WorkerReturns(k)
    PROVE  TruthInvariant'
  <1>1. /\ UNCHANGED <<row, caller>>
        /\ \A j \in Keys \ {k} : worker'[j] = worker[j]
        /\ worker[k] \in {"admitted", "authorized", "sent"}
    BY DEF WorkerReturns, ledger, LedgerInvariant, LedgerTypes
  <1>2. Admitted(k) /\ caller[k] # "reserved"
    BY <1>1 DEF LedgerInvariant, OnlyAdmittedRun, SentLater
  <1>3. CASE \E v \in Disposition \cup {"unknown"} :
                Answers(k, v) /\ worker' = [worker EXCEPT ![k] = v]
    <2>1. PICK v \in Disposition \cup {"unknown"} :
                Answers(k, v) /\ worker' = [worker EXCEPT ![k] = v]
      BY <1>3
    <2>2. worker'[k] = v /\ v \notin {"queued", "admitted", "authorized", "not_started"}
      BY <2>1 DEF LedgerInvariant, LedgerTypes, Disposition
    <2>3. ~NotYetSent(k)'
      BY <1>1, <1>2, <2>2 DEF NotYetSent, Unsent, Admitted
    <2>4. k \notin broken' => Truthful(k)'
      BY <1>1, <2>1, <2>2, AnswerPromises DEF TruthInvariant, Truthful, Untouched
    <2> QED
      BY <1>1, <2>1, <2>3, <2>4, AnswerPromises, OneOperation
  <1>4. CASE worker' = [worker EXCEPT ![k] = "error"] /\ UNCHANGED <<provider, broken>>
    <2>1. worker'[k] = "error"
      BY <1>4 DEF LedgerInvariant, LedgerTypes
    <2>2. ~NotYetSent(k)'
      BY <1>1, <1>2, <2>1 DEF NotYetSent, Unsent, Admitted
    <2>3. k \notin broken => Truthful(k)'
      BY <1>1, <1>4, <2>1 DEF TruthInvariant, Truthful, Untouched
    <2> QED
      BY <1>1, <1>4, <2>2, <2>3, OneOperation DEF TruthInvariant
  <1> QED
    BY <1>3, <1>4 DEF WorkerReturns

LEMMA FinalizeTruthful ==
    ASSUME LedgerInvariant, TruthInvariant, NEW k \in Keys, Finalize(k)
    PROVE  TruthInvariant'
  <1>1. /\ UNCHANGED <<worker, provider, broken>>
        /\ caller[k] = "waiting" /\ caller'[k] = "idle"
        /\ \A j \in Keys \ {k} : caller'[j] = caller[j]
        /\ Admitted(k)
    BY DEF Finalize, LedgerInvariant, LedgerTypes, OnlyAdmittedRun
  <1>2. CASE UNCHANGED <<row, seen>>
    BY <1>1, <1>2, OneOperation DEF TruthInvariant, NotYetSent, Unsent, Admitted, Truthful
  <1>3. ASSUME NEW v \in Outcome \cup {"timeout"}, Conclude(k, v), v = worker[k] \/ v = "timeout"
        PROVE  TruthInvariant'
    <2>1. /\ \A j \in Keys \ {k} : row'[j] = row[j]
          /\ Admitted(k)'
      BY <1>1, <1>3, ConcludeOneRow
    <2>2. NotYetSent(k)' => provider'[k] \in Untouched
      BY <1>1, <2>1 DEF TruthInvariant, NotYetSent, Unsent
    <2>3. k \notin broken => Truthful(k)'
      BY <1>1, <1>3, ConclusionTruthful DEF TruthInvariant, Truthful
    <2> QED
      BY <1>1, <2>1, <2>2, <2>3, OneOperation DEF TruthInvariant
  <1> QED
    BY <1>2, <1>3 DEF Finalize

LEMMA ReadbackFinishTruthful ==
    ASSUME LedgerInvariant, TruthInvariant, NEW p \in Readers, ReadbackFinish(p)
    PROVE  TruthInvariant'
  <1>0. PICK k \in Keys : k = reader[p].key
    BY DEF ReadbackFinish, LedgerInvariant, OnlyAdmittedRun
  <1>1. Admitted(k) /\ UNCHANGED <<worker, caller>>
    BY <1>0 DEF ReadbackFinish, LedgerInvariant, OnlyAdmittedRun
  <1>2. \/ \E v \in Disposition \cup {"unknown"} : Answers(k, v) /\ Conclude(k, v)
        \/ Conclude(k, "timeout") /\ UNCHANGED <<provider, broken>>
        \/ UNCHANGED <<row, provider, broken>>
    BY <1>0 DEF ReadbackFinish
  <1>3. ASSUME NEW v \in Disposition \cup {"unknown"}, Answers(k, v), Conclude(k, v)
        PROVE  TruthInvariant'
    <2>1. v \in Outcome \cup {"timeout"} /\ v # "not_started"
      BY DEF Outcome, Disposition
    <2>2. /\ \A j \in Keys \ {k} : row'[j] = row[j]
          /\ Admitted(k)'
      BY <1>1, <1>3, <2>1, ConcludeOneRow
    <2>3. NotYetSent(k)' => provider'[k] \in Untouched
      BY <1>1, <1>3, <2>2, AnswerPromises DEF TruthInvariant, NotYetSent, Unsent, Untouched
    <2>4. k \notin broken' => Truthful(k)'
      BY <1>1, <1>3, <2>1, AnswerPromises, ConclusionTruthful
    <2> QED
      BY <1>1, <1>3, <2>2, <2>3, <2>4, AnswerPromises, OneOperation
  <1>4. CASE Conclude(k, "timeout") /\ UNCHANGED <<provider, broken>>
    <2>1. /\ \A j \in Keys \ {k} : row'[j] = row[j]
          /\ Admitted(k)'
      BY <1>1, <1>4, ConcludeOneRow
    <2>2. NotYetSent(k)' => provider'[k] \in Untouched
      BY <1>1, <1>4, <2>1 DEF TruthInvariant, NotYetSent, Unsent
    <2>3. k \notin broken => Truthful(k)'
      BY <1>1, <1>4, ConclusionTruthful
    <2> QED
      BY <1>1, <1>4, <2>1, <2>2, <2>3, OneOperation DEF TruthInvariant
  <1>5. CASE UNCHANGED <<row, provider, broken>>
    BY <1>1, <1>5 DEF TruthInvariant, NotYetSent, Unsent, Admitted, Truthful
  <1> QED
    BY <1>2, <1>3, <1>4, <1>5

LEMMA ProviderAppliesTruthful ==
    ASSUME LedgerInvariant, TruthInvariant, NEW k \in Keys, ProviderApplies(k)
    PROVE  TruthInvariant'
  <1>1. /\ UNCHANGED <<row, caller, worker, broken>>
        /\ provider[k] = "received" /\ provider'[k] = "applied"
        /\ provider' \in [Keys -> Provider]
        /\ \A j \in Keys \ {k} : provider'[j] = provider[j]
    BY DEF ProviderApplies, ledger, history, TruthInvariant, Provider
  <1>2. ~NotYetSent(k)'
    BY <1>1 DEF TruthInvariant, NotYetSent, Unsent, Admitted, Untouched
  <1>3. k \notin broken => Truthful(k)'
    BY <1>1 DEF TruthInvariant, Truthful, Untouched
  <1> QED
    BY <1>1, <1>2, <1>3, OneOperation DEF TruthInvariant

LEMMA TruthInvariantHolds == Spec => []TruthInvariant
  <1>1. Init => TruthInvariant
    BY DEF Init, TruthInvariant, Provider, Untouched, Truthful
  <1>2. LedgerInvariant /\ TruthInvariant /\ [Next]_vars => TruthInvariant'
    <2> SUFFICES ASSUME LedgerInvariant, TruthInvariant, [Next]_vars PROVE TruthInvariant'
      OBVIOUS
    <2>1. CASE \E k \in Keys, l \in Leases \cup {NoLease} : Reserve(k, l)
      BY <2>1, ReserveTruthful
    <2>2. CASE \E k \in Keys : Run(k) \/ Authorize(k) \/ Dispatch(k) \/ Send(k) \/ Crash(k)
      BY <2>2, ThreadTruthful
    <2>3. CASE \E k \in Keys : WorkerReturns(k)
      BY <2>3, WorkerReturnsTruthful
    <2>4. CASE \E k \in Keys : Finalize(k)
      BY <2>4, FinalizeTruthful
    <2>5. CASE \E p \in Readers : ReadbackFinish(p)
      BY <2>5, ReadbackFinishTruthful
    <2>6. CASE \E k \in Keys : ProviderApplies(k)
      BY <2>6, ProviderAppliesTruthful
    <2>7. CASE \/ \E p \in Readers : ReadbackAsk(p) \/ \E k \in Keys : ReadbackReserve(p, k)
               \/ \E s \in Subjects : RevokeSubject(s)
               \/ Tick \/ UNCHANGED vars
      <3>1. UNCHANGED <<row, caller, worker, provider, broken>>
        BY <2>7 DEF ReadbackAsk, ReadbackReserve, RevokeSubject, Tick, vars, ledger, history
      <3> QED
        BY <3>1 DEF TruthInvariant, NotYetSent, Unsent, Admitted, Truthful
    <2> QED
      BY <2>1, <2>2, <2>3, <2>4, <2>5, <2>6, <2>7 DEF Next
  <1> QED
    BY <1>1, <1>2, LedgerInvariantHolds, PTL DEF Spec

\* As long as the provider keeps its promises about an operation, a receipt that
\* says "succeeded", "failed" or "denied" is true for good.
THEOREM ReceiptsAreTrue == Spec => []SettledIsTrue
  <1>1. TruthInvariant => SettledIsTrue
    BY DEF TruthInvariant, Truthful, SettledIsTrue, Untouched
  <1> QED
    BY <1>1, TruthInvariantHolds, PTL

-----------------------------------------------------------------------------
(* Revocation                                                              *)

\* Whoever was told that a subject is fenced is right, for good.
FencesHold ==
    /\ \A s \in fenced : suspended \/ s \in revoked
    /\ worker \in [Keys -> {"idle", "queued", "admitted", "authorized", "sent"} \cup Outcome]

LEMMA FencesStayHeld == Spec => []FencesHold
  <1>1. Init => FencesHold
    BY DEF Init, FencesHold
  <1>2. FencesHold /\ [Next]_vars => FencesHold'
    <2> SUFFICES ASSUME FencesHold, [Next]_vars PROVE FencesHold'
      OBVIOUS
    <2>1. CASE \E s \in Subjects : RevokeSubject(s)
      BY <2>1 DEF RevokeSubject, FencesHold
    <2>2. CASE \E k \in Keys, l \in Leases \cup {NoLease} : Reserve(k, l)
      BY <2>2 DEF Reserve, history, FencesHold
    <2>3. CASE \E k \in Keys : Run(k) \/ Dispatch(k) \/ Authorize(k) \/ Send(k)
      BY <2>3 DEF Run, Dispatch, Authorize, Send, ledger, history, FencesHold, Outcome
    <2>4. CASE \E k \in Keys : ProviderApplies(k) \/ WorkerReturns(k) \/ Finalize(k) \/ Crash(k)
      BY <2>4 DEF ProviderApplies, WorkerReturns, Finalize, Crash, ledger, history, FencesHold,
          Outcome
    <2>5. CASE \/ \E p \in Readers, k \in Keys : ReadbackReserve(p, k)
               \/ \E p \in Readers : ReadbackAsk(p) \/ ReadbackFinish(p)
      BY <2>5 DEF ReadbackReserve, ReadbackAsk, ReadbackFinish, ledger, history, FencesHold
    <2>6. CASE Tick \/ UNCHANGED vars
      BY <2>6 DEF Tick, vars, ledger, history, FencesHold
    <2> QED BY <2>1, <2>2, <2>3, <2>4, <2>5, <2>6 DEF Next
  <1> QED BY <1>1, <1>2, PTL DEF Spec

\* Once revoke_subject() has ended, no operation of the subject is let through
\* to the provider any more: the last check before the call sees the fence.
THEOREM RevocationIsFinal == Spec => RevocationHolds
  <1>1. FencesHold /\ [Next]_vars =>
           [\A k \in Keys : Subject[k] \in fenced /\ MayMutate(k)' => MayMutate(k)]_vars
    <2> SUFFICES ASSUME FencesHold, Next, NEW k \in Keys, Subject[k] \in fenced, MayMutate(k)'
                 PROVE  MayMutate(k)
      OBVIOUS
    <2>1. Fenced(k)
      BY DEF FencesHold, Fenced
    <2>2. ASSUME NEW j \in Keys, Dispatch(j) PROVE MayMutate(k)
      BY <2>1, <2>2 DEF Dispatch, FencesHold, MayMutate
    <2>3. ASSUME NEW j \in Keys, Authorize(j) PROVE MayMutate(k)
      BY <2>1, <2>3 DEF Authorize, FencesHold, MayMutate
    <2>4. ASSUME NEW j \in Keys, Send(j) PROVE MayMutate(k)
      BY <2>4 DEF Send, FencesHold, MayMutate
    <2>5. ASSUME NEW j \in Keys, Run(j) \/ WorkerReturns(j) \/ Crash(j) PROVE MayMutate(k)
      BY <2>5 DEF Run, WorkerReturns, Crash, FencesHold, MayMutate, Disposition
    <2>6. CASE UNCHANGED worker
      BY <2>6 DEF MayMutate
    <2>7. CASE \/ \E j \in Keys, l \in Leases \cup {NoLease} : Reserve(j, l)
               \/ \E j \in Keys : ProviderApplies(j) \/ Finalize(j)
               \/ \E p \in Readers, j \in Keys : ReadbackReserve(p, j)
               \/ \E p \in Readers : ReadbackAsk(p) \/ ReadbackFinish(p)
               \/ \E s \in Subjects : RevokeSubject(s)
               \/ Tick
      BY <2>6, <2>7 DEF Reserve, ProviderApplies, Finalize, ReadbackReserve, ReadbackAsk,
          ReadbackFinish, RevokeSubject, Tick
    <2> QED BY <2>2, <2>3, <2>4, <2>5, <2>7 DEF Next
  <1> QED BY <1>1, FencesStayHeld, PTL DEF Spec, RevocationHolds

-----------------------------------------------------------------------------
(* The budget of read-backs                                                *)

\* The read-backs of operation k that are charged but not yet made.
Owing(k) == {p \in Readers : reader[p].pc = "reserved" /\ reader[p].key = k}

\* What was made and what is still to be made was charged.
AttemptsAreCharged ==
    /\ reader \in [Readers -> [pc : {"idle", "reserved", "asking"}, key : Keys \cup {NoKey}]]
    /\ readbacks \in [Keys -> Nat] /\ asked \in [Keys -> Nat]
    /\ \A p \in Readers : reader[p].pc # "idle" => reader[p].key \in Keys
    /\ \A k \in Keys :
          /\ readbacks[k] <= maximum_readbacks
          /\ IsFiniteSet(Owing(k))
          /\ asked[k] + Cardinality(Owing(k)) <= readbacks[k]

\* With fewer owed and nothing charged or made, the account still balances.
LEMMA FewerOwing ==
    ASSUME AttemptsAreCharged, NEW k \in Keys, Owing(k)' \in SUBSET Owing(k),
           readbacks'[k] = readbacks[k], asked'[k] = asked[k]
    PROVE  /\ readbacks'[k] <= maximum_readbacks
           /\ IsFiniteSet(Owing(k)')
           /\ asked'[k] + Cardinality(Owing(k)') <= readbacks'[k]
  <1>1. /\ IsFiniteSet(Owing(k)) /\ readbacks[k] \in Nat /\ asked[k] \in Nat
        /\ asked[k] + Cardinality(Owing(k)) <= readbacks[k]
        /\ readbacks[k] <= maximum_readbacks
    BY DEF AttemptsAreCharged
  <1>2. IsFiniteSet(Owing(k)') /\ Cardinality(Owing(k)') <= Cardinality(Owing(k))
    BY <1>1, FS_Subset
  <1>3. Cardinality(Owing(k)') \in Nat /\ Cardinality(Owing(k)) \in Nat
    BY <1>1, <1>2, FS_CardinalityType
  <1> QED BY <1>1, <1>2, <1>3

\* reconcile()'s first transaction charges what it owes.
LEMMA ReserveCharges ==
    ASSUME AttemptsAreCharged, NEW p \in Readers, NEW k \in Keys, ReadbackReserve(p, k)
    PROVE  AttemptsAreCharged'
  <1>1. /\ readbacks' = [readbacks EXCEPT ![k] = @ + 1] /\ asked' = asked
        /\ reader' = [reader EXCEPT ![p] = [pc |-> "reserved", key |-> k]]
        /\ reader[p].pc = "idle" /\ readbacks[k] < maximum_readbacks
    BY DEF ReadbackReserve, history
  <1>2. /\ reader' \in [Readers -> [pc : {"idle", "reserved", "asking"}, key : Keys \cup {NoKey}]]
        /\ readbacks' \in [Keys -> Nat] /\ asked' \in [Keys -> Nat]
        /\ \A q \in Readers : reader'[q].pc # "idle" => reader'[q].key \in Keys
    BY <1>1 DEF AttemptsAreCharged
  <1>3. ASSUME NEW j \in Keys, j # k
        PROVE  /\ readbacks'[j] <= maximum_readbacks
               /\ IsFiniteSet(Owing(j)')
               /\ asked'[j] + Cardinality(Owing(j)') <= readbacks'[j]
    <2>1. Owing(j)' \in SUBSET Owing(j) /\ readbacks'[j] = readbacks[j] /\ asked'[j] = asked[j]
      BY <1>1, <1>3 DEF AttemptsAreCharged, Owing
    <2> QED BY <2>1, FewerOwing
  <1>4. /\ readbacks'[k] <= maximum_readbacks
        /\ IsFiniteSet(Owing(k)')
        /\ asked'[k] + Cardinality(Owing(k)') <= readbacks'[k]
    <2>1. /\ IsFiniteSet(Owing(k)) /\ readbacks[k] \in Nat /\ asked[k] \in Nat
          /\ asked[k] + Cardinality(Owing(k)) <= readbacks[k] /\ readbacks'[k] = readbacks[k] + 1
      BY <1>1 DEF AttemptsAreCharged
    <2>2. Owing(k)' = Owing(k) \cup {p} /\ p \notin Owing(k)
      BY <1>1 DEF AttemptsAreCharged, Owing
    <2>3. IsFiniteSet(Owing(k) \cup {p}) /\ Cardinality(Owing(k) \cup {p}) = Cardinality(Owing(k)) + 1
      BY <2>1, <2>2, FS_AddElement
    <2>4. Cardinality(Owing(k)) \in Nat
      BY <2>1, FS_CardinalityType
    <2>5. maximum_readbacks \in Nat
      BY CapabilityAssumption
    <2> QED BY <1>1, <2>1, <2>2, <2>3, <2>4, <2>5
  <1> QED BY <1>2, <1>3, <1>4 DEF AttemptsAreCharged

\* The call turns one attempt that is owed into one that was made.
LEMMA AskingPays ==
    ASSUME AttemptsAreCharged, NEW p \in Readers, ReadbackAsk(p)
    PROVE  AttemptsAreCharged'
  <1>0. PICK k \in Keys : k = reader[p].key
    BY DEF ReadbackAsk, AttemptsAreCharged
  <1>1. /\ reader[p].pc = "reserved" /\ reader[p].key = k /\ readbacks' = readbacks
        /\ reader' = [reader EXCEPT ![p].pc = "asking"]
        /\ asked' = [asked EXCEPT ![k] = @ + 1]
    BY <1>0 DEF ReadbackAsk, ledger
  <1>2. /\ reader' \in [Readers -> [pc : {"idle", "reserved", "asking"}, key : Keys \cup {NoKey}]]
        /\ readbacks' \in [Keys -> Nat] /\ asked' \in [Keys -> Nat]
        /\ \A q \in Readers : reader'[q].pc # "idle" => reader'[q].key \in Keys
    BY <1>1 DEF AttemptsAreCharged
  <1>3. ASSUME NEW j \in Keys, j # k
        PROVE  /\ readbacks'[j] <= maximum_readbacks
               /\ IsFiniteSet(Owing(j)')
               /\ asked'[j] + Cardinality(Owing(j)') <= readbacks'[j]
    <2>1. Owing(j)' \in SUBSET Owing(j) /\ readbacks'[j] = readbacks[j] /\ asked'[j] = asked[j]
      BY <1>1, <1>3 DEF AttemptsAreCharged, Owing
    <2> QED BY <2>1, FewerOwing
  <1>4. /\ readbacks'[k] <= maximum_readbacks
        /\ IsFiniteSet(Owing(k)')
        /\ asked'[k] + Cardinality(Owing(k)') <= readbacks'[k]
    <2>1. /\ IsFiniteSet(Owing(k)) /\ readbacks[k] \in Nat /\ asked[k] \in Nat
          /\ asked[k] + Cardinality(Owing(k)) <= readbacks[k] /\ asked'[k] = asked[k] + 1
          /\ readbacks[k] <= maximum_readbacks
      BY <1>1 DEF AttemptsAreCharged
    <2>2. Owing(k)' = Owing(k) \ {p} /\ p \in Owing(k)
      BY <1>1 DEF AttemptsAreCharged, Owing
    <2>3. IsFiniteSet(Owing(k) \ {p}) /\ Cardinality(Owing(k) \ {p}) = Cardinality(Owing(k)) - 1
      BY <2>1, <2>2, FS_RemoveElement
    <2>4. Cardinality(Owing(k)) \in Nat
      BY <2>1, FS_CardinalityType
    <2> QED BY <1>1, <2>1, <2>2, <2>3, <2>4
  <1> QED BY <1>2, <1>3, <1>4 DEF AttemptsAreCharged

LEMMA AttemptsStayCharged == Spec => []AttemptsAreCharged
  <1>1. Init => AttemptsAreCharged
    <2> SUFFICES ASSUME Init PROVE AttemptsAreCharged
      OBVIOUS
    <2>1. \A k \in Keys : Owing(k) = {}
      BY DEF Init, IdleReader, Owing
    <2>2. IsFiniteSet({}) /\ Cardinality({}) = 0
      BY FS_EmptySet
    <2>3. \A k \in Keys : /\ readbacks[k] = 0 /\ asked[k] = 0
                          /\ IsFiniteSet(Owing(k)) /\ Cardinality(Owing(k)) = 0
      BY <2>1, <2>2 DEF Init
    <2>4. 0 + 0 = 0 /\ 0 <= maximum_readbacks
      BY CapabilityAssumption
    <2>5. \A k \in Keys : /\ readbacks[k] <= maximum_readbacks
                          /\ IsFiniteSet(Owing(k))
                          /\ asked[k] + Cardinality(Owing(k)) <= readbacks[k]
      BY <2>3, <2>4
    <2>6. /\ reader \in [Readers -> [pc : {"idle", "reserved", "asking"}, key : Keys \cup {NoKey}]]
          /\ readbacks \in [Keys -> Nat] /\ asked \in [Keys -> Nat]
          /\ \A p \in Readers : reader[p].pc = "idle"
      BY DEF Init, IdleReader
    <2> QED BY <2>5, <2>6 DEF AttemptsAreCharged
  <1>2. AttemptsAreCharged /\ [Next]_vars => AttemptsAreCharged'
    <2> SUFFICES ASSUME AttemptsAreCharged, [Next]_vars PROVE AttemptsAreCharged'
      OBVIOUS
    <2>1. CASE \E p \in Readers, k \in Keys : ReadbackReserve(p, k)
      BY <2>1, ReserveCharges
    <2>2. CASE \E p \in Readers : ReadbackAsk(p)
      BY <2>2, AskingPays
    <2>3. ASSUME NEW p \in Readers, ReadbackFinish(p) PROVE AttemptsAreCharged'
      <3>1. reader' = [reader EXCEPT ![p] = IdleReader] /\ UNCHANGED <<readbacks, asked>>
        BY <2>3 DEF ReadbackFinish
      <3>2. \A k \in Keys : Owing(k)' \in SUBSET Owing(k)
        BY <3>1 DEF AttemptsAreCharged, Owing, IdleReader
      <3>3. \A k \in Keys : /\ readbacks'[k] <= maximum_readbacks
                            /\ IsFiniteSet(Owing(k)')
                            /\ asked'[k] + Cardinality(Owing(k)') <= readbacks'[k]
        BY <3>1, <3>2, FewerOwing
      <3> QED BY <3>1, <3>3 DEF AttemptsAreCharged, IdleReader
    <2>4. CASE UNCHANGED <<reader, readbacks, asked>>
      BY <2>4 DEF AttemptsAreCharged, Owing
    <2>5. CASE \/ \E k \in Keys, l \in Leases \cup {NoLease} : Reserve(k, l)
               \/ \E k \in Keys : \/ Run(k) \/ Dispatch(k) \/ Authorize(k) \/ Send(k)
                                  \/ ProviderApplies(k) \/ WorkerReturns(k) \/ Finalize(k) \/ Crash(k)
               \/ \E s \in Subjects : RevokeSubject(s)
               \/ Tick \/ UNCHANGED vars
      BY <2>4, <2>5 DEF Reserve, Run, Dispatch, Authorize, Send, ProviderApplies, WorkerReturns,
          Finalize, Crash, RevokeSubject, Tick, vars, ledger, history
    <2> QED BY <2>1, <2>2, <2>3, <2>5 DEF Next
  <1> QED BY <1>1, <1>2, PTL DEF Spec

\* No operation is ever read back more often than its budget allows, however
\* many reconcile() calls overlap or die: each is charged before it is made.
THEOREM ReadbacksAreBudgeted == Spec => []ReadbackBudget
  <1>1. AttemptsAreCharged => ReadbackBudget
    <2> SUFFICES ASSUME AttemptsAreCharged, NEW k \in Keys PROVE asked[k] <= maximum_readbacks
      BY DEF ReadbackBudget
    <2>1. /\ asked[k] \in Nat /\ readbacks[k] \in Nat /\ readbacks[k] <= maximum_readbacks
          /\ asked[k] + Cardinality(Owing(k)) <= readbacks[k] /\ IsFiniteSet(Owing(k))
      BY DEF AttemptsAreCharged
    <2>2. Cardinality(Owing(k)) \in Nat
      BY <2>1, FS_CardinalityType
    <2>3. maximum_readbacks \in Nat
      BY CapabilityAssumption
    <2> QED BY <2>1, <2>2, <2>3
  <1> QED BY <1>1, AttemptsStayCharged, PTL

-----------------------------------------------------------------------------
(* Realtime sessions: the invariant                                        *)

Fresh(s) == session[s].state \in {"absent", "new"}
Ahead(s) == activation[s].worker \in {"queued", "admitted"}

TicketsNameSessions ==
    \A t \in Tickets : tickets[t].state # "unissued" => tickets[t].session \in Sessions

\* Nothing was done for a session before its activation; its one call is made
\* or still ahead; other calls are charged first.
CallsAreCharged ==
    /\ \A s \in Sessions : /\ Fresh(s) => activation[s] = Unused /\ activations[s] = 0
                           /\ Ahead(s) => activations[s] = 0
                           /\ activations[s] \in {0, 1}
                           /\ lookupsMade[s] <= lookupsUsed[s]
    /\ \A r \in Remotes : revokesMade[r] <= revokesUsed[r]

\* A job belongs to a revoked session, and only what has a job is ended.
JobsAreOwned ==
    /\ \A r \in Remotes :
          /\ job[r].owner \in Sessions <=> job[r].state # "absent"
          /\ job[r].owner \in Sessions => session[job[r].owner].state = "revoked"
          /\ job[r].state = "completed" => r \in closed
          /\ r \in closing \cup closed => job[r].state # "absent"
    /\ \A p \in Drainers : drainer[p] # NoRemote => job[drainer[p]].state # "absent"

ActiveIsNamed == \A s \in Sessions : session[s].state = "active" => session[s].remote \in Remotes

\* Unless the provider lied about it, what is on record for a session is the
\* one remote session it opened.
RecordIsTrue ==
    /\ \A s \in Sessions \ deceived :
          /\ session[s].remote # NoRemote => opened[session[s].remote] = s
          /\ \A q, r \in Remotes : opened[q] = s /\ opened[r] = s => q = r
    /\ \A r \in Remotes : opened[r] \in Sessions => activations[opened[r]] > 0

\* A revoked session that has or may yet get a remote session unknown to the
\* store is to be looked up.
LookupIsOwed ==
    \A s \in Sessions \ deceived :
        session[s].state = "revoked" /\ (activations[s] > 0 \/ Ahead(s)) =>
            lookupJob[s] = "pending" \/ \E r \in Remotes : opened[r] = s

RealtimeInvariant ==
    /\ RealtimeTypeOK /\ TicketsNameSessions /\ CallsAreCharged /\ JobsAreOwned
    /\ ActiveIsNamed /\ ActiveUnharmed /\ RecordIsTrue /\ LookupIsOwed /\ Custody

SessionRow == [state : {"absent", "new", "activating", "indeterminate", "active", "revoked"},
               generation : Nat, remote : Remotes \cup {NoRemote}]
JobRow == [owner : Sessions \cup {NoSession}, state : {"absent", "pending", "completed"}]
LookupState == {"absent", "pending", "completed"}

\* What custody of a remote session of s means.
Kept(s, r) ==
    \/ session[s].state = "active" /\ session[s].remote = r
    \/ Pending(s)
    \/ job[r].state = "pending" \/ lookupJob[s] = "pending"

\* What every transaction about one session s does to the store: other
\* sessions are left alone, states only move forward, jobs are only added and
\* only for a revoked session, only an unowned remote session becomes active,
\* and custody of what the provider opened for s is kept.
Handles(s) ==
    /\ session' \in [Sessions -> SessionRow]
    /\ job' \in [Remotes -> JobRow]
    /\ lookupJob' \in [Sessions -> LookupState]
    /\ \A o \in Sessions \ {s} : session'[o] = session[o] /\ lookupJob'[o] = lookupJob[o]
    /\ session'[s].state \in {"absent", "new"} => session[s].state = session'[s].state
    /\ session[s].state = "revoked" => session'[s].state = "revoked"
    /\ \A r \in Remotes : job'[r] # job[r] =>
          /\ job[r].state = "absent" /\ job'[r] = [owner |-> s, state |-> "pending"]
          /\ session'[s].state = "revoked" /\ ~OwnedElsewhere(s, r)
    /\ session'[s].state = "active" =>
          /\ session'[s].remote \in Remotes
          /\ \/ session[s].state = "active" /\ session'[s].remote = session[s].remote
             \/ session[s].state # "revoked" /\ ~OwnedElsewhere(s, session'[s].remote)
    /\ s \notin deceived' =>
          /\ session'[s].remote # NoRemote => opened[session'[s].remote] = s
          /\ session'[s].state = "revoked" /\ (activations[s] > 0 \/ Ahead(s)) =>
                lookupJob'[s] = "pending" \/ \E r \in Remotes : opened[r] = s
          /\ \A r \in Remotes : opened[r] = s /\ r \notin closed => Kept(s, r)'

-----------------------------------------------------------------------------
(* Rows                                                                    *)

LEMMA RevokedRow ==
    ASSUME RealtimeTypeOK, NEW s \in Sessions
    PROVE  /\ Revoked(s) \in [Sessions -> SessionRow]
           /\ Revoked(s)[s].state = "revoked" /\ Revoked(s)[s].remote = session[s].remote
           /\ \A o \in Sessions \ {s} : Revoked(s)[o] = session[o]
  <1> DEFINE g == IF session[s].state = "revoked" THEN session[s].generation
                  ELSE session[s].generation + 1
             updated == [session[s] EXCEPT !.state = "revoked", !.generation = g]
  <1>1. session \in [Sessions -> SessionRow] /\ session[s] \in SessionRow
    BY DEF RealtimeTypeOK, SessionRow
  <1>2. g \in Nat
    BY <1>1 DEF SessionRow
  <1>3. updated \in SessionRow /\ updated.state = "revoked" /\ updated.remote = session[s].remote
    <2> HIDE DEF g
    <2> QED BY <1>1, <1>2 DEF SessionRow
  <1>4. Revoked(s) = [session EXCEPT ![s] = updated]
    BY <1>1 DEF Revoked, SessionRow
  <1> HIDE DEF updated
  <1> QED BY <1>1, <1>3, <1>4

LEMMA NamedRow ==
    ASSUME RealtimeTypeOK, NEW s \in Sessions, NEW known \in Remotes \cup {NoRemote},
           NEW v \in {"active", "indeterminate"},
           session' = [session EXCEPT ![s].state = v, ![s].remote = known]
    PROVE  /\ session' \in [Sessions -> SessionRow]
           /\ session'[s].state = v /\ session'[s].remote = known
           /\ \A o \in Sessions \ {s} : session'[o] = session[o]
  <1> DEFINE updated == [session[s] EXCEPT !.state = v, !.remote = known]
  <1>1. session \in [Sessions -> SessionRow] /\ session[s] \in SessionRow
    BY DEF RealtimeTypeOK, SessionRow
  <1>2. updated \in SessionRow /\ updated.state = v /\ updated.remote = known
    BY <1>1 DEF SessionRow
  <1>3. session' = [session EXCEPT ![s] = updated]
    BY <1>1 DEF SessionRow
  <1> HIDE DEF updated
  <1> QED BY <1>1, <1>2, <1>3

LEMMA RevokedAndNamedRow ==
    ASSUME RealtimeTypeOK, NEW s \in Sessions, NEW known \in Remotes \cup {NoRemote},
           session' = [Revoked(s) EXCEPT ![s].remote = known]
    PROVE  /\ session' \in [Sessions -> SessionRow]
           /\ session'[s].state = "revoked" /\ session'[s].remote = known
           /\ \A o \in Sessions \ {s} : session'[o] = session[o]
  <1> DEFINE updated == [Revoked(s)[s] EXCEPT !.remote = known]
  <1>1. /\ Revoked(s) \in [Sessions -> SessionRow] /\ Revoked(s)[s] \in SessionRow
        /\ Revoked(s)[s].state = "revoked"
        /\ \A o \in Sessions \ {s} : Revoked(s)[o] = session[o]
    BY RevokedRow
  <1>2. updated \in SessionRow /\ updated.state = "revoked" /\ updated.remote = known
    BY <1>1 DEF SessionRow
  <1>3. session' = [Revoked(s) EXCEPT ![s] = updated]
    BY <1>1 DEF SessionRow
  <1> HIDE DEF updated
  <1> QED BY <1>1, <1>2, <1>3

LEMMA NotFreshIfOpened ==
    ASSUME RealtimeInvariant, NEW s \in Sessions, NEW r \in Remotes, opened[r] = s
    PROVE  ~Fresh(s)
  BY DEF RealtimeInvariant, RecordIsTrue, CallsAreCharged

\* A queued identity has a job that is pending or done, or is another's.
LEMMA QueuedRows ==
    ASSUME RealtimeTypeOK, JobsAreOwned, RealtimeAssumption, NEW s \in Sessions,
           NEW ids \in SUBSET Remotes, QueueJobs(s, ids)
    PROVE  /\ job' \in [Remotes -> JobRow]
           /\ \A r \in Remotes : job'[r] # job[r] =>
                 /\ job[r].state = "absent" /\ job'[r] = [owner |-> s, state |-> "pending"]
                 /\ ~OwnedElsewhere(s, r)
           /\ \A r \in ids : \/ job'[r].state = "pending" \/ r \in closed
                             \/ OwnedElsewhere(s, r)
  <1>1. \A r \in Remotes : job[r] \in JobRow
    BY DEF RealtimeTypeOK, JobRow
  <1>2. \A r \in Remotes : job[r].owner = NoSession => job[r].state = "absent"
    BY <1>1, RealtimeAssumption DEF JobsAreOwned, JobRow
  <1>3. ASSUME NEW r \in Remotes
        PROVE  /\ job'[r] \in JobRow
               /\ job'[r] # job[r] =>
                    /\ job[r].state = "absent" /\ job'[r] = [owner |-> s, state |-> "pending"]
                    /\ ~OwnedElsewhere(s, r)
    BY <1>1, <1>2 DEF QueueJobs, JobRow
  <1>4. ASSUME NEW r \in ids, ~OwnedElsewhere(s, r)
        PROVE  job'[r].state = "pending" \/ r \in closed
    <2>1. CASE job[r].owner = NoSession
      BY <2>1, <1>4 DEF QueueJobs
    <2>2. CASE job[r].owner # NoSession
      <3>1. job[r].owner = s
        BY <2>2, <1>1, <1>4 DEF OwnedElsewhere, JobRow
      <3>2. job[r].state \in {"pending", "completed"}
        BY <3>1, <1>1 DEF JobsAreOwned, JobRow
      <3>3. job'[r] = job[r]
        BY <2>2 DEF QueueJobs
      <3> QED BY <3>2, <3>3 DEF JobsAreOwned
    <2> QED BY <2>1, <2>2
  <1> QED BY <1>3, <1>4 DEF QueueJobs

LEMMA KnownIsOpened ==
    ASSUME RealtimeInvariant, NEW s \in Sessions
    PROVE  /\ Known(s) \subseteq Remotes
           /\ s \notin deceived => \A q \in Known(s) : opened[q] = s
  <1>1. session[s].remote \in Remotes \cup {NoRemote}
    BY DEF RealtimeInvariant, RealtimeTypeOK
  <1> QED BY <1>1 DEF RealtimeInvariant, RecordIsTrue, Known

\* Of a session that the provider was truthful about, every remote session is
\* among the identities known.
LEMMA OpenedIsNamed ==
    ASSUME RealtimeInvariant, NEW s \in Sessions, s \notin deceived, NEW r \in Remotes,
           opened[r] = s, NEW q \in Remotes, opened[q] = s
    PROVE  q = r
  BY DEF RealtimeInvariant, RecordIsTrue

\* Revoking a session and queuing what is known of it.
LEMMA QueueRevokeHandles ==
    ASSUME RealtimeInvariant, RealtimeAssumption, NEW s \in Sessions,
           session' = Revoked(s), QueueRevoke(s, Known(s)),
           s \in deceived => s \in deceived'
    PROVE  Handles(s)
  <1>1. /\ session' \in [Sessions -> SessionRow]
        /\ session'[s].state = "revoked" /\ session'[s].remote = session[s].remote
        /\ \A o \in Sessions \ {s} : session'[o] = session[o]
    BY RevokedRow DEF RealtimeInvariant
  <1>2. /\ Known(s) \subseteq Remotes
        /\ s \notin deceived => \A q \in Known(s) : opened[q] = s
    BY KnownIsOpened
  <1>3. QueueJobs(s, Known(s))
    BY DEF QueueRevoke
  <1>4. /\ job' \in [Remotes -> JobRow]
        /\ \A r \in Remotes : job'[r] # job[r] =>
                 /\ job[r].state = "absent" /\ job'[r] = [owner |-> s, state |-> "pending"]
                 /\ ~OwnedElsewhere(s, r)
        /\ \A r \in Known(s) : \/ job'[r].state = "pending" \/ r \in closed
                               \/ OwnedElsewhere(s, r)
    BY <1>2, <1>3, QueuedRows DEF RealtimeInvariant
  <1>5. /\ lookupJob' \in [Sessions -> LookupState]
        /\ \A o \in Sessions \ {s} : lookupJob'[o] = lookupJob[o]
        /\ Unresolved(s, Known(s)) => lookupJob'[s] = "pending"
    BY DEF QueueRevoke, RealtimeInvariant, RealtimeTypeOK, LookupState
  <1>6. ASSUME s \notin deceived'
        PROVE  /\ session'[s].remote # NoRemote => opened[session'[s].remote] = s
               /\ lookupJob'[s] = "pending" \/ \E r \in Remotes : opened[r] = s
               /\ \A r \in Remotes : opened[r] = s /\ r \notin closed => Kept(s, r)'
    <2>1. s \notin deceived
      BY <1>6
    <2>2. CASE Known(s) = {}
      <3>1. lookupJob'[s] = "pending"
        BY <2>2, <1>5 DEF Unresolved
      <3>2. session[s].remote = NoRemote
        BY <2>2 DEF Known
      <3> QED BY <3>1, <3>2, <1>1 DEF Kept
    <2>3. CASE Known(s) # {}
      <3>1. PICK q \in Known(s) : q = session[s].remote /\ q # NoRemote
        BY <2>3 DEF Known
      <3>2. q \in Remotes /\ opened[q] = s
        BY <1>2, <2>1
      <3>3. ASSUME NEW r \in Remotes, opened[r] = s, r \notin closed
            PROVE  Kept(s, r)'
        <4>1. r = q
          BY <3>2, <3>3, <2>1, OpenedIsNamed
        <4>2. job'[r].state = "pending" \/ OwnedElsewhere(s, r)
          BY <4>1, <1>4, <3>3
        <4>3. OwnedElsewhere(s, r) => lookupJob'[s] = "pending"
          BY <4>1, <1>5 DEF Unresolved
        <4> QED BY <4>2, <4>3 DEF Kept
      <3> QED BY <3>1, <3>2, <3>3, <1>1
    <2> QED BY <2>2, <2>3
  <1> QED BY <1>1, <1>4, <1>5, <1>6 DEF Handles

LEMMA RowsUnchanged ==
    ASSUME RealtimeTypeOK
    PROVE  /\ session \in [Sessions -> SessionRow]
           /\ job \in [Remotes -> JobRow]
           /\ lookupJob \in [Sessions -> LookupState]
  BY DEF RealtimeTypeOK, SessionRow, JobRow, LookupState

LEMMA NothingHandles ==
    ASSUME RealtimeInvariant, NEW s \in Sessions, UNCHANGED <<session, jobs>>,
           s \in deceived => s \in deceived'
    PROVE  Handles(s)
  <1>1. /\ session' = session /\ job' = job /\ lookupJob' = lookupJob
    BY DEF jobs
  <1>2. /\ session \in [Sessions -> SessionRow]
        /\ job \in [Remotes -> JobRow]
        /\ lookupJob \in [Sessions -> LookupState]
    BY RowsUnchanged DEF RealtimeInvariant
  <1>3. session[s].state = "active" => session[s].remote \in Remotes
    BY DEF RealtimeInvariant, ActiveIsNamed
  <1>4. ASSUME s \notin deceived'
        PROVE  /\ session[s].remote # NoRemote => opened[session[s].remote] = s
               /\ session[s].state = "revoked" /\ (activations[s] > 0 \/ Ahead(s)) =>
                     lookupJob[s] = "pending" \/ \E r \in Remotes : opened[r] = s
               /\ \A r \in Remotes : opened[r] = s /\ r \notin closed => Kept(s, r)
    <2>1. s \in Sessions \ deceived
      BY <1>4
    <2> QED BY <2>1 DEF RealtimeInvariant, RecordIsTrue, LookupIsOwed, Custody, Kept
  <1>5. ASSUME NEW r \in Remotes
        PROVE  Kept(s, r)' <=> Kept(s, r)
    BY <1>1 DEF Kept, Pending
  <1> QED BY <1>1, <1>2, <1>3, <1>4, <1>5 DEF Handles

\* A pending session that only changes its state or its remote session within
\* what it opened, and stays pending.
LEMMA StillPendingHandles ==
    ASSUME RealtimeInvariant, NEW s \in Sessions, Pending(s), UNCHANGED jobs,
           s \in deceived => s \in deceived',
           NEW known \in Remotes \cup {NoRemote},
           s \notin deceived' /\ known # NoRemote => opened[known] = s,
           session' = [session EXCEPT ![s].state = "indeterminate", ![s].remote = known]
    PROVE  Handles(s)
  <1>1. job' = job /\ lookupJob' = lookupJob
    BY DEF jobs
  <1>2. /\ session \in [Sessions -> SessionRow]
        /\ job \in [Remotes -> JobRow]
        /\ lookupJob \in [Sessions -> LookupState]
    BY RowsUnchanged DEF RealtimeInvariant
  <1>5. /\ session' \in [Sessions -> SessionRow]
        /\ session'[s].state = "indeterminate" /\ session'[s].remote = known
        /\ \A o \in Sessions \ {s} : session'[o] = session[o]
    BY NamedRow DEF RealtimeInvariant
  <1>6. session[s].state # "revoked"
    BY DEF Pending
  <1>7. ASSUME NEW r \in Remotes PROVE Kept(s, r)'
    BY <1>5 DEF Kept, Pending
  <1> QED BY <1>1, <1>2, <1>5, <1>6, <1>7 DEF Handles

LEMMA IndeterminateHandles ==
    ASSUME RealtimeInvariant, RealtimeAssumption, NEW s \in Sessions, Indeterminate(s),
           deceived' = deceived
    PROVE  Handles(s)
  <1>1. CASE /\ Pending(s)
             /\ session' = [session EXCEPT ![s].state = "indeterminate"]
             /\ UNCHANGED jobs
    <2>1. session \in [Sessions -> SessionRow]
      BY RowsUnchanged DEF RealtimeInvariant
    <2>2. session[s].remote \in Remotes \cup {NoRemote}
      BY <2>1 DEF SessionRow
    <2>3. session' = [session EXCEPT ![s].state = "indeterminate",
                                     ![s].remote = session[s].remote]
      <3> DEFINE updated == [session[s] EXCEPT !.state = "indeterminate"]
                 same == [updated EXCEPT !.remote = session[s].remote]
      <3>1. updated = same
        BY <2>1 DEF SessionRow
      <3>2. session' = [session EXCEPT ![s] = updated]
        BY <1>1, <2>1 DEF SessionRow
      <3>3. [session EXCEPT ![s].state = "indeterminate", ![s].remote = session[s].remote]
              = [session EXCEPT ![s] = same]
        BY <2>1 DEF SessionRow
      <3> QED BY <3>1, <3>2, <3>3
    <2>4. s \notin deceived' /\ session[s].remote # NoRemote => opened[session[s].remote] = s
      BY DEF RealtimeInvariant, RecordIsTrue
    <2> QED BY <1>1, <2>2, <2>3, <2>4, StillPendingHandles
  <1>2. CASE RevokePending(s)
    BY <1>2, QueueRevokeHandles DEF RevokePending
  <1>3. CASE UNCHANGED <<session, jobs>>
    BY <1>3, NothingHandles
  <1> QED BY <1>1, <1>2, <1>3 DEF Indeterminate

LEMMA ExpirePendingHandles ==
    ASSUME RealtimeInvariant, RealtimeAssumption, NEW s \in Sessions, ExpirePending(s),
           deceived' = deceived
    PROVE  Handles(s)
  <1>1. CASE RevokePending(s)
    BY <1>1, QueueRevokeHandles DEF RevokePending
  <1>2. CASE UNCHANGED <<session, jobs>>
    BY <1>2, NothingHandles
  <1> QED BY <1>1, <1>2 DEF ExpirePending

-----------------------------------------------------------------------------
(* Transactions of one session                                             *)

\* The session is revoked and every identity known is queued.
LEMMA CleanupHandles ==
    ASSUME RealtimeInvariant, RealtimeAssumption, NEW s \in Sessions, NEW r \in Remotes,
           Cleanup(s, r), s \in deceived => s \in deceived',
           s \notin deceived' => opened[r] = s,
           session' \in [Sessions -> SessionRow], session'[s].state = "revoked",
           session'[s].remote \in {session[s].remote, r},
           \A o \in Sessions \ {s} : session'[o] = session[o]
    PROVE  Handles(s)
  <1> DEFINE ids == {r} \cup Known(s)
  <1>1. ids \in SUBSET Remotes /\ (s \notin deceived' => \A q \in ids : opened[q] = s)
    BY KnownIsOpened
  <1>2. QueueJobs(s, ids)
    BY DEF Cleanup
  <1>3. /\ job' \in [Remotes -> JobRow]
        /\ \A q \in Remotes : job'[q] # job[q] =>
                 /\ job[q].state = "absent" /\ job'[q] = [owner |-> s, state |-> "pending"]
                 /\ ~OwnedElsewhere(s, q)
        /\ \A q \in ids : job'[q].state = "pending" \/ q \in closed \/ OwnedElsewhere(s, q)
    <2> HIDE DEF ids
    <2> QED BY <1>1, <1>2, QueuedRows DEF RealtimeInvariant
  <1>4. /\ lookupJob' \in [Sessions -> LookupState]
        /\ \A o \in Sessions \ {s} : lookupJob'[o] = lookupJob[o]
        /\ Unresolved(s, ids) => lookupJob'[s] = "pending"
    <2>1. lookupJob \in [Sessions -> LookupState]
      BY RowsUnchanged DEF RealtimeInvariant
    <2> QED BY <2>1 DEF Cleanup, LookupState
  <1>5. ASSUME s \notin deceived'
        PROVE  /\ session'[s].remote # NoRemote => opened[session'[s].remote] = s
               /\ \A q \in Remotes : opened[q] = s /\ q \notin closed => Kept(s, q)'
    <2>1. s \notin deceived /\ opened[r] = s
      BY <1>5
    <2>2. session'[s].remote # NoRemote => opened[session'[s].remote] = s
      BY <2>1 DEF RealtimeInvariant, RecordIsTrue
    <2>3. ASSUME NEW q \in Remotes, opened[q] = s, q \notin closed
          PROVE  Kept(s, q)'
      <3>1. q = r
        BY <2>1, <2>3, OpenedIsNamed
      <3>2. job'[q].state = "pending" \/ OwnedElsewhere(s, q)
        BY <3>1, <1>3, <2>3
      <3>3. OwnedElsewhere(s, q) => lookupJob'[s] = "pending"
        BY <3>1, <1>4 DEF Unresolved
      <3> QED BY <3>2, <3>3 DEF Kept
    <2> QED BY <2>2, <2>3
  <1> HIDE DEF ids
  <1> QED BY <1>3, <1>4, <1>5 DEF Handles

LEMMA CommitHandles ==
    ASSUME RealtimeInvariant, RealtimeAssumption, NEW s \in Sessions, NEW r \in Remotes,
           NEW same \in BOOLEAN, Commit(s, r, same), s \in deceived => s \in deceived',
           s \notin deceived' => opened[r] = s
    PROVE  Handles(s)
  <1>1. session[s].remote \in Remotes \cup {NoRemote}
    BY DEF RealtimeInvariant, RealtimeTypeOK
  <1>2. /\ Revoked(s) \in [Sessions -> SessionRow]
        /\ Revoked(s)[s].state = "revoked" /\ Revoked(s)[s].remote = session[s].remote
        /\ \A o \in Sessions \ {s} : Revoked(s)[o] = session[o]
    BY RevokedRow DEF RealtimeInvariant
  <1>3. s \notin deceived' /\ session[s].remote # NoRemote => opened[session[s].remote] = s
    BY DEF RealtimeInvariant, RecordIsTrue
  <1>4. CASE session' = Revoked(s) /\ Cleanup(s, r)
    BY <1>2, <1>4, CleanupHandles
  <1>5. CASE UNCHANGED <<session, jobs>>
    BY <1>5, NothingHandles
  <1>6. CASE /\ ~Conflicts(s, r, same) /\ Pending(s)
             /\ session' = [session EXCEPT ![s].state = "active", ![s].remote = r]
             /\ UNCHANGED jobs
    <2>1. /\ session' \in [Sessions -> SessionRow]
          /\ session'[s].state = "active" /\ session'[s].remote = r
          /\ \A o \in Sessions \ {s} : session'[o] = session[o]
      BY <1>6, NamedRow DEF RealtimeInvariant
    <2>2. /\ job' = job /\ job \in [Remotes -> JobRow]
          /\ lookupJob' = lookupJob /\ lookupJob \in [Sessions -> LookupState]
      BY <1>6, RowsUnchanged DEF RealtimeInvariant, jobs
    <2>3. session[s].state \notin {"revoked", "active"} /\ ~OwnedElsewhere(s, r)
      BY <1>6 DEF Pending, Conflicts
    <2>4. ASSUME s \notin deceived', NEW q \in Remotes, opened[q] = s
          PROVE  Kept(s, q)'
      <3>1. q = r
        BY <2>4, OpenedIsNamed
      <3> QED BY <3>1, <2>1 DEF Kept
    <2> QED BY <2>1, <2>2, <2>3, <2>4 DEF Handles
  <1>7. ASSUME Pending(s), NEW known \in {session[s].remote, r},
               session' = [session EXCEPT ![s].state = "indeterminate", ![s].remote = known],
               UNCHANGED jobs
        PROVE  Handles(s)
    BY <1>1, <1>3, <1>7, StillPendingHandles
  <1>8. ASSUME NEW known \in {session[s].remote, r}, Cleanup(s, r),
               session' = [Revoked(s) EXCEPT ![s].remote = known]
        PROVE  Handles(s)
    <2>1. /\ session' \in [Sessions -> SessionRow]
          /\ session'[s].state = "revoked" /\ session'[s].remote = known
          /\ \A o \in Sessions \ {s} : session'[o] = session[o]
      BY <1>1, <1>8, RevokedAndNamedRow DEF RealtimeInvariant
    <2> QED BY <2>1, <1>8, CleanupHandles
  <1>9. CASE UNCHANGED session /\ session[s].state = "revoked" /\ Cleanup(s, r)
    <2>1. session \in [Sessions -> SessionRow]
      BY RowsUnchanged DEF RealtimeInvariant
    <2> QED BY <2>1, <1>9, CleanupHandles
  <1> QED BY <1>4, <1>5, <1>6, <1>7, <1>8, <1>9 DEF Commit

LEMMA RevokeHandles ==
    ASSUME RealtimeInvariant, RealtimeAssumption, NEW s \in Sessions, NEW p \in Revokers,
           Revoke(p, s)
    PROVE  Handles(s)
  <1>1. deceived' = deceived
    BY DEF Revoke, remote
  <1>2. CASE QueueRevoke(s, Known(s))
    BY <1>1, <1>2, QueueRevokeHandles DEF Revoke
  <1>3. CASE Known(s) = {} /\ ~Pending(s) /\ UNCHANGED jobs
    <2>1. /\ session' \in [Sessions -> SessionRow]
          /\ session'[s].state = "revoked" /\ session'[s].remote = session[s].remote
          /\ \A o \in Sessions \ {s} : session'[o] = session[o]
      BY RevokedRow DEF RealtimeInvariant, Revoke
    <2>2. /\ job' = job /\ job \in [Remotes -> JobRow]
          /\ lookupJob' = lookupJob /\ lookupJob \in [Sessions -> LookupState]
      BY <1>3, RowsUnchanged DEF RealtimeInvariant, jobs
    <2>3. session[s].state \in {"new", "revoked", "active"} /\ session[s].remote = NoRemote
      BY <1>3 DEF RealtimeInvariant, RealtimeTypeOK, Revoke, Pending, Known
    <2>4. session[s].state # "active"
      BY <2>3, RealtimeAssumption DEF RealtimeInvariant, ActiveIsNamed
    <2>5. ASSUME s \notin deceived', activations[s] > 0 \/ Ahead(s)
          PROVE  lookupJob[s] = "pending" \/ \E r \in Remotes : opened[r] = s
      <3>1. session[s].state = "revoked"
        BY <2>3, <2>4, <2>5 DEF RealtimeInvariant, CallsAreCharged, Fresh, Ahead, Unused
      <3> QED BY <3>1, <2>5, <1>1 DEF RealtimeInvariant, LookupIsOwed
    <2>6. ASSUME s \notin deceived', NEW r \in Remotes, opened[r] = s, r \notin closed
          PROVE  Kept(s, r)'
      <3>1. Kept(s, r)
        BY <2>6, <1>1 DEF RealtimeInvariant, Custody, Kept
      <3>2. job[r].state = "pending" \/ lookupJob[s] = "pending"
        BY <3>1, <2>4, <1>3 DEF Kept
      <3> QED BY <3>2, <2>2 DEF Kept
    <2> QED BY <2>1, <2>2, <2>3, <2>5, <2>6 DEF Handles
  <1> QED BY <1>2, <1>3 DEF Revoke

\* What such a transaction leaves to do: nothing is opened, closed or called by
\* it, an attempt at most ends, look-ups are charged and tickets stay issued.
Quiet ==
    /\ UNCHANGED <<opened, closing, closed, drainer, activations, revokesUsed, revokesMade>>
    /\ deceived \subseteq deceived'
    /\ \A s \in Sessions :
          /\ activation'[s] = activation[s] \/ (activation[s] # Unused /\ (Ahead(s)' => Ahead(s)))
          /\ lookupsMade'[s] <= lookupsUsed'[s]
    /\ \A t \in Tickets : tickets[t].state = "unissued"
                              => tickets'[t] = tickets[t]
    /\ \A t \in Tickets : tickets[t].state # "unissued"
                              => tickets'[t].session = tickets[t].session

LEMMA HandledKeepsInvariant ==
    ASSUME RealtimeInvariant, RealtimeAssumption, NEW s \in Sessions, Handles(s), Quiet,
           RealtimeTypeOK'
    PROVE  RealtimeInvariant'
  <1>1. TicketsNameSessions'
    BY DEF RealtimeInvariant, TicketsNameSessions, Quiet
  <1>2. CallsAreCharged'
    <2>1. ASSUME NEW o \in Sessions
          PROVE  /\ Fresh(o)' => activation'[o] = Unused /\ activations'[o] = 0
                 /\ Ahead(o)' => activations'[o] = 0
                 /\ activations'[o] \in {0, 1}
                 /\ lookupsMade'[o] <= lookupsUsed'[o]
      <3>1. Fresh(o)' => Fresh(o)
        BY DEF Handles, Fresh
      <3>2. Ahead(o)' => Ahead(o)
        BY DEF Quiet, Ahead
      <3> QED BY <3>1, <3>2 DEF RealtimeInvariant, CallsAreCharged, Quiet
    <2>2. ASSUME NEW r \in Remotes PROVE revokesMade'[r] <= revokesUsed'[r]
      BY DEF RealtimeInvariant, CallsAreCharged, Quiet
    <2> QED BY <2>1, <2>2 DEF CallsAreCharged
  <1>3. \A r \in Remotes : \/ job'[r] = job[r]
                           \/ /\ job[r].state = "absent"
                              /\ job'[r] = [owner |-> s, state |-> "pending"]
                              /\ session'[s].state = "revoked" /\ ~OwnedElsewhere(s, r)
    BY DEF Handles
  <1>4. \A o \in Sessions : session[o].state = "revoked" => session'[o].state = "revoked"
    BY DEF Handles
  <1>5. JobsAreOwned'
    <2>1. ASSUME NEW r \in Remotes
          PROVE  /\ job'[r].owner \in Sessions <=> job'[r].state # "absent"
                 /\ job'[r].owner \in Sessions => session'[job'[r].owner].state = "revoked"
                 /\ job'[r].state = "completed" => r \in closed'
                 /\ r \in closing' \cup closed' => job'[r].state # "absent"
      BY <1>3, <1>4 DEF RealtimeInvariant, JobsAreOwned, Quiet
    <2>2. ASSUME NEW p \in Drainers, drainer'[p] # NoRemote
          PROVE  job'[drainer'[p]].state # "absent"
      <3>1. drainer'[p] \in Remotes
        BY <2>2 DEF RealtimeTypeOK
      <3> QED BY <3>1, <2>2, <1>3 DEF RealtimeInvariant, JobsAreOwned, Quiet
    <2> QED BY <2>1, <2>2 DEF JobsAreOwned
  <1>6. ActiveIsNamed'
    BY DEF RealtimeInvariant, ActiveIsNamed, Handles
  <1>7. ActiveUnharmed'
    <2> SUFFICES ASSUME NEW o \in Sessions, session'[o].state = "active"
                 PROVE  session'[o].remote \notin closing \cup closed
      BY DEF ActiveUnharmed, Quiet
    <2>1. CASE session'[o] = session[o]
      BY <2>1 DEF RealtimeInvariant, ActiveUnharmed
    <2>2. CASE o = s /\ session[s].state = "active" /\ session'[s].remote = session[s].remote
      BY <2>2 DEF RealtimeInvariant, ActiveUnharmed
    <2>3. CASE o = s /\ session[s].state # "revoked" /\ session'[s].remote \in Remotes
               /\ ~OwnedElsewhere(s, session'[s].remote)
      <3>1. job[session'[s].remote].owner \notin Sessions
        BY <2>3 DEF RealtimeInvariant, JobsAreOwned, OwnedElsewhere
      <3> QED BY <3>1, <2>3 DEF RealtimeInvariant, JobsAreOwned
    <2> QED BY <2>1, <2>2, <2>3 DEF Handles
  <1>8. RecordIsTrue'
    <2>1. ASSUME NEW o \in Sessions \ deceived'
          PROVE  /\ session'[o].remote # NoRemote => opened'[session'[o].remote] = o
                 /\ \A q, r \in Remotes : opened'[q] = o /\ opened'[r] = o => q = r
      <3>1. o \in Sessions \ deceived /\ opened' = opened
        BY DEF Quiet
      <3>2. CASE o = s
        BY <3>1, <3>2 DEF Handles, RealtimeInvariant, RecordIsTrue
      <3>3. CASE o # s
        BY <3>1, <3>3 DEF Handles, RealtimeInvariant, RecordIsTrue
      <3> QED BY <3>2, <3>3
    <2>2. \A r \in Remotes : opened'[r] \in Sessions => activations'[opened'[r]] > 0
      BY DEF Quiet, RealtimeInvariant, RecordIsTrue
    <2> QED BY <2>1, <2>2 DEF RecordIsTrue
  <1>9. LookupIsOwed'
    <2> SUFFICES ASSUME NEW o \in Sessions \ deceived', session'[o].state = "revoked",
                        activations'[o] > 0 \/ Ahead(o)'
                 PROVE  lookupJob'[o] = "pending" \/ \E r \in Remotes : opened'[r] = o
      BY DEF LookupIsOwed
    <2>1. o \in Sessions \ deceived /\ opened' = opened /\ (activations[o] > 0 \/ Ahead(o))
      BY DEF Quiet, Ahead
    <2>2. CASE o = s
      BY <2>1, <2>2 DEF Handles
    <2>3. CASE o # s
      BY <2>1, <2>3 DEF Handles, RealtimeInvariant, LookupIsOwed
    <2> QED BY <2>2, <2>3
  <1>10. Custody'
    <2> SUFFICES ASSUME NEW r \in Remotes, opened'[r] \in Sessions \ deceived', r \notin closed'
                 PROVE  \A o \in Sessions : o = opened'[r] => Kept(o, r)'
      BY DEF Custody, Kept, Pending
    <2> SUFFICES ASSUME NEW o \in Sessions, o = opened'[r]
                 PROVE  Kept(o, r)'
      OBVIOUS
    <2>1. o \in Sessions \ deceived' /\ o \notin deceived /\ opened[r] = o /\ r \notin closed
      BY DEF Quiet
    <2>2. CASE o = s
      BY <2>1, <2>2 DEF Handles
    <2>3. CASE o # s
      <3>1. Kept(o, r)
        BY <2>1 DEF RealtimeInvariant, Custody, Kept
      <3>2. session'[o] = session[o] /\ lookupJob'[o] = lookupJob[o]
        BY <2>3 DEF Handles
      <3>3. job[r].state = "pending" => job'[r].state = "pending"
        BY <1>3
      <3> QED BY <3>1, <3>2, <3>3 DEF Kept, Pending
    <2> QED BY <2>2, <2>3
  <1> QED BY <1>1, <1>2, <1>5, <1>6, <1>7, <1>8, <1>9, <1>10 DEF RealtimeInvariant

-----------------------------------------------------------------------------
(* Actions that are a transaction of one session                           *)

TicketRow == [session : Sessions \cup {NoSession},
              state : {"unissued", "issued", "superseded", "consumed", "revoked"}]

LEMMA InvalidatedRows ==
    ASSUME RealtimeTypeOK, RealtimeAssumption, TicketsNameSessions, NEW s \in Sessions,
           NEW v \in {"superseded", "revoked"}
    PROVE  /\ Invalidated(s, v) \in [Tickets -> TicketRow]
           /\ \A t \in Tickets : /\ Invalidated(s, v)[t].session = tickets[t].session
                                 /\ tickets[t].state = "unissued"
                                       => Invalidated(s, v)[t] = tickets[t]
  <1>1. tickets \in [Tickets -> TicketRow]
    BY DEF RealtimeTypeOK, TicketRow
  <1>2. ASSUME NEW t \in Tickets
        PROVE  /\ [tickets[t] EXCEPT !.state = v] \in TicketRow
               /\ [tickets[t] EXCEPT !.state = v].session = tickets[t].session
    BY <1>1 DEF TicketRow
  <1>3. ASSUME NEW t \in Tickets, tickets[t].state = "unissued"
        PROVE  Invalidated(s, v)[t] = tickets[t]
    BY <1>1, <1>3 DEF Invalidated
  <1> QED BY <1>1, <1>2, <1>3 DEF Invalidated

LEMMA StillQuietTickets ==
    ASSUME RealtimeTypeOK, RealtimeAssumption, TicketsNameSessions, NEW s \in Sessions,
           \/ tickets' = tickets
           \/ \E v \in {"superseded", "revoked"} : tickets' = Invalidated(s, v)
    PROVE  /\ tickets' \in [Tickets -> TicketRow]
           /\ \A t \in Tickets : /\ tickets'[t].session = tickets[t].session
                                 /\ tickets[t].state = "unissued" => tickets'[t] = tickets[t]
  <1>1. tickets \in [Tickets -> TicketRow]
    BY DEF RealtimeTypeOK, TicketRow
  <1> QED BY <1>1, InvalidatedRows

LEMMA NamesKeepsTypes ==
    ASSUME RealtimeTypeOK, RealtimeAssumption, NEW s \in Sessions, NEW r \in Remotes,
           NEW same \in BOOLEAN, Names(s, r, same)
    PROVE  /\ lies' \in 0..MaxLies /\ deceived' \subseteq Sessions
           /\ deceived \subseteq deceived' /\ (s \notin deceived' => opened[r] = s)
           /\ UNCHANGED <<opened, closing, closed>>
  BY DEF RealtimeTypeOK, RealtimeAssumption, Names

LEMMA CommitTickets ==
    ASSUME NEW s, NEW r, NEW same, Commit(s, r, same)
    PROVE  tickets' = tickets \/ tickets' = Invalidated(s, "revoked")
  BY DEF Commit

AttemptRow == [caller : {"idle", "waiting"}, worker : {"idle", "queued", "admitted", "sent"}]

LEMMA AttemptEnds ==
    ASSUME RealtimeTypeOK, NEW s \in Sessions, NEW updated \in AttemptRow,
           activation' = [activation EXCEPT ![s] = updated], activation[s] # Unused,
           updated.worker \in {"queued", "admitted"} => Ahead(s)
    PROVE  /\ activation' \in [Sessions -> AttemptRow]
           /\ \A o \in Sessions : \/ activation'[o] = activation[o]
                                  \/ activation[o] # Unused /\ (Ahead(o)' => Ahead(o))
  <1>1. activation \in [Sessions -> AttemptRow]
    BY DEF RealtimeTypeOK, AttemptRow
  <1> QED BY <1>1 DEF Ahead, AttemptRow

LEMMA GiveUpKeepsInvariant ==
    ASSUME RealtimeInvariant, RealtimeAssumption, NEW s \in Sessions, GiveUp(s)
    PROVE  RealtimeInvariant'
  <1> USE DEF GiveUp, remote, calls, budgets
  <1>1. Handles(s)
    BY IndeterminateHandles
  <1>2. activation[s] \in AttemptRow
    BY DEF RealtimeInvariant, RealtimeTypeOK, AttemptRow
  <1> DEFINE updated == [caller |-> "idle", worker |-> IF activation[s].worker = "admitted"
                                                   THEN "admitted" ELSE "idle"]
  <1>3. /\ updated \in AttemptRow /\ activation' = [activation EXCEPT ![s] = updated]
        /\ updated.worker \in {"queued", "admitted"} => Ahead(s)
        /\ activation[s] # Unused
    BY <1>2 DEF AttemptRow, Unused, Ahead
  <1> HIDE DEF updated
  <1>4. /\ activation' \in [Sessions -> AttemptRow]
        /\ \A o \in Sessions : \/ activation'[o] = activation[o]
                               \/ activation[o] # Unused /\ (Ahead(o)' => Ahead(o))
    BY <1>3, AttemptEnds DEF RealtimeInvariant
  <1>5. Quiet
    BY <1>4 DEF Quiet, RealtimeInvariant, CallsAreCharged
  <1>6. RealtimeTypeOK'
    BY <1>1, <1>4 DEF RealtimeInvariant, RealtimeTypeOK, Handles, AttemptRow, SessionRow,
                      JobRow, LookupState
  <1> QED BY <1>1, <1>5, <1>6, HandledKeepsInvariant

LEMMA ActivationAnsweredKeepsInvariant ==
    ASSUME RealtimeInvariant, RealtimeAssumption, NEW s \in Sessions, ActivationAnswered(s)
    PROVE  RealtimeInvariant'
  <1>1. PICK r \in Remotes, same \in BOOLEAN : Names(s, r, same) /\ Commit(s, r, same)
    BY DEF ActivationAnswered
  <1>2. /\ lies' \in 0..MaxLies /\ deceived' \subseteq Sessions
        /\ deceived \subseteq deceived' /\ (s \notin deceived' => opened[r] = s)
        /\ UNCHANGED <<opened, closing, closed>>
    BY <1>1, NamesKeepsTypes DEF RealtimeInvariant
  <1>3. Handles(s)
    BY <1>1, <1>2, CommitHandles
  <1>4. /\ tickets' \in [Tickets -> TicketRow]
        /\ \A t \in Tickets : /\ tickets'[t].session = tickets[t].session
                              /\ tickets[t].state = "unissued" => tickets'[t] = tickets[t]
    BY <1>1, CommitTickets, StillQuietTickets DEF RealtimeInvariant
  <1>5. /\ activation' \in [Sessions -> AttemptRow]
        /\ \A o \in Sessions : \/ activation'[o] = activation[o]
                               \/ activation[o] # Unused /\ (Ahead(o)' => Ahead(o))
    <2>1. Unused \in AttemptRow /\ Unused.worker = "idle"
      BY DEF Unused, AttemptRow
    <2>2. activation[s] # Unused /\ activation' = [activation EXCEPT ![s] = Unused]
      BY DEF ActivationAnswered, Unused
    <2> QED BY <2>1, <2>2, AttemptEnds DEF RealtimeInvariant
  <1>6. Quiet
    BY <1>2, <1>4, <1>5 DEF ActivationAnswered, Quiet, RealtimeInvariant, CallsAreCharged, calls,
                           budgets
  <1>7. RealtimeTypeOK'
    BY <1>2, <1>3, <1>4, <1>5
       DEF ActivationAnswered, RealtimeInvariant, RealtimeTypeOK, Handles, AttemptRow, SessionRow,
           JobRow, LookupState, TicketRow, calls, budgets
  <1> QED BY <1>3, <1>6, <1>7, HandledKeepsInvariant

LEMMA ReconcileKeepsInvariant ==
    ASSUME RealtimeInvariant, RealtimeAssumption, NEW s \in Sessions, NEW p \in Reconcilers,
           Reconcile(p, s)
    PROVE  RealtimeInvariant'
  <1> USE DEF Reconcile, remote
  <1>1. Handles(s)
    BY ExpirePendingHandles
  <1>2. /\ lookupsUsed' \in [Sessions -> 0..lookup_limit]
        /\ lookupsMade' \in [Sessions -> Nat]
        /\ reconciler' \in [Reconcilers -> Sessions \cup {NoSession}]
        /\ \A o \in Sessions : lookupsMade'[o] <= lookupsUsed'[o]
    <2>1. /\ lookup_limit \in Nat /\ lookupsUsed \in [Sessions -> 0..lookup_limit]
          /\ lookupsMade \in [Sessions -> Nat]
          /\ reconciler \in [Reconcilers -> Sessions \cup {NoSession}]
          /\ \A o \in Sessions : lookupsMade[o] <= lookupsUsed[o]
      BY DEF RealtimeInvariant, RealtimeTypeOK, CallsAreCharged, RealtimeAssumption
    <2>2. CASE /\ lookupsUsed[s] < lookup_limit
               /\ lookupsUsed' = [lookupsUsed EXCEPT ![s] = @ + 1]
               /\ reconciler' = [reconciler EXCEPT ![p] = s]
               /\ lookupsMade' = [lookupsMade EXCEPT ![s] = @ + 1]
      <3>1. lookupsUsed[s] + 1 \in 0..lookup_limit /\ lookupsMade[s] + 1 \in Nat
        BY <2>1, <2>2
      <3>2. ASSUME NEW o \in Sessions PROVE lookupsMade'[o] <= lookupsUsed'[o]
        BY <2>1, <2>2
      <3> QED BY <2>1, <2>2, <3>1, <3>2
    <2>3. CASE UNCHANGED <<lookupsUsed, reconciler, lookupsMade>>
      BY <2>1, <2>3
    <2> QED BY <2>2, <2>3
  <1>3. Quiet
    BY <1>2 DEF Quiet
  <1>4. RealtimeTypeOK'
    BY <1>1, <1>2 DEF RealtimeInvariant, RealtimeTypeOK, Handles, SessionRow, JobRow, LookupState
  <1> QED BY <1>1, <1>3, <1>4, HandledKeepsInvariant

LEMMA ReconcileEndsKeepsInvariant ==
    ASSUME RealtimeInvariant, RealtimeAssumption, NEW p \in Reconcilers, ReconcileEnds(p)
    PROVE  RealtimeInvariant'
  <1> DEFINE s == reconciler[p]
  <1>1. s \in Sessions
    BY DEF ReconcileEnds, RealtimeInvariant, RealtimeTypeOK
  <1> HIDE DEF s
  <1>2. /\ reconciler' \in [Reconcilers -> Sessions \cup {NoSession}]
        /\ activation' = activation /\ drainer' = drainer /\ revoker' = revoker
        /\ expired' = expired
        /\ UNCHANGED <<lookupsUsed, revokesUsed, activations, lookupsMade, revokesMade>>
    BY DEF ReconcileEnds, budgets, calls, RealtimeInvariant, RealtimeTypeOK
  <1>3. /\ Handles(s)
        /\ lies' \in 0..MaxLies /\ deceived' \subseteq Sessions /\ deceived \subseteq deceived'
        /\ UNCHANGED <<opened, closing, closed>>
        /\ tickets' = tickets \/ tickets' = Invalidated(s, "revoked")
    <2>1. CASE \E r \in Remotes, same \in BOOLEAN : Names(s, r, same) /\ Commit(s, r, same)
      <3>1. PICK r \in Remotes, same \in BOOLEAN : Names(s, r, same) /\ Commit(s, r, same)
        BY <2>1
      <3> QED BY <1>1, <3>1, NamesKeepsTypes, CommitHandles, CommitTickets DEF RealtimeInvariant
    <2>2. CASE Indeterminate(s) /\ UNCHANGED <<tickets, remote>>
      BY <1>1, <2>2, IndeterminateHandles DEF remote, RealtimeInvariant, RealtimeTypeOK
    <2>3. CASE UNCHANGED <<tickets, session, jobs, remote>>
      BY <1>1, <2>3, NothingHandles DEF remote, RealtimeInvariant, RealtimeTypeOK
    <2> QED BY <2>1, <2>2, <2>3 DEF ReconcileEnds, s
  <1>4. /\ tickets' \in [Tickets -> TicketRow]
        /\ \A t \in Tickets : /\ tickets'[t].session = tickets[t].session
                              /\ tickets[t].state = "unissued" => tickets'[t] = tickets[t]
    BY <1>1, <1>3, StillQuietTickets DEF RealtimeInvariant
  <1>5. Quiet
    BY <1>2, <1>3, <1>4 DEF Quiet, RealtimeInvariant, CallsAreCharged
  <1>6. RealtimeTypeOK'
    BY <1>2, <1>3, <1>4 DEF RealtimeInvariant, RealtimeTypeOK, Handles, SessionRow,
                           JobRow, LookupState, TicketRow
  <1> QED BY <1>1, <1>3, <1>5, <1>6, HandledKeepsInvariant

LEMMA RevokeKeepsInvariant ==
    ASSUME RealtimeInvariant, RealtimeAssumption, NEW s \in Sessions, NEW p \in Revokers,
           Revoke(p, s)
    PROVE  RealtimeInvariant'
  <1>1. Handles(s)
    BY RevokeHandles
  <1>2. /\ tickets' \in [Tickets -> TicketRow]
        /\ \A t \in Tickets : /\ tickets'[t].session = tickets[t].session
                              /\ tickets[t].state = "unissued" => tickets'[t] = tickets[t]
    BY StillQuietTickets DEF Revoke, RealtimeInvariant
  <1>3. Quiet
    BY <1>2 DEF Revoke, remote, budgets, calls, Quiet, RealtimeInvariant, CallsAreCharged
  <1>4. RealtimeTypeOK'
    BY <1>1, <1>2 DEF Revoke, remote, budgets, calls, RealtimeInvariant, RealtimeTypeOK, Handles,
                      SessionRow, JobRow, LookupState, TicketRow
  <1> QED BY <1>1, <1>3, <1>4, HandledKeepsInvariant

-----------------------------------------------------------------------------
(* The other actions                                                       *)

\* The thread of an attempt goes on or ends, and nothing else happens.
LEMMA AttemptKeepsInvariant ==
    ASSUME RealtimeInvariant, RealtimeAssumption, NEW s \in Sessions, NEW updated \in AttemptRow,
           activation' = [activation EXCEPT ![s] = updated], activation[s] # Unused,
           updated.worker \in {"queued", "admitted"} => Ahead(s),
           UNCHANGED <<tickets, session, jobs, budgets, reconciler, drainer, revoker, expired,
                       remote, calls>>
    PROVE  RealtimeInvariant'
  <1>1. Handles(s)
    BY NothingHandles DEF remote
  <1>2. /\ activation' \in [Sessions -> AttemptRow]
        /\ \A o \in Sessions : \/ activation'[o] = activation[o]
                               \/ activation[o] # Unused /\ (Ahead(o)' => Ahead(o))
    BY AttemptEnds DEF RealtimeInvariant
  <1>3. Quiet
    BY <1>2 DEF Quiet, remote, calls, budgets, RealtimeInvariant, CallsAreCharged
  <1>4. RealtimeTypeOK'
    BY <1>2 DEF RealtimeInvariant, RealtimeTypeOK, AttemptRow, remote, calls, budgets, jobs
  <1> QED BY <1>1, <1>3, <1>4, HandledKeepsInvariant

LEMMA AdmitKeepsInvariant ==
    ASSUME RealtimeInvariant, RealtimeAssumption, NEW s \in Sessions, Admit(s)
    PROVE  RealtimeInvariant'
  <1>1. activation \in [Sessions -> AttemptRow] /\ activation[s].worker = "queued"
    BY DEF RealtimeInvariant, RealtimeTypeOK, AttemptRow, Admit
  <1>2. ASSUME NEW w \in {"admitted", "idle"},
               activation' = [activation EXCEPT ![s].worker = w]
        PROVE  RealtimeInvariant'
    <2> DEFINE updated == [activation[s] EXCEPT !.worker = w]
    <2>1. updated \in AttemptRow /\ activation' = [activation EXCEPT ![s] = updated]
      BY <1>1, <1>2 DEF AttemptRow
    <2>2. activation[s] # Unused /\ Ahead(s)
      BY <1>1 DEF Unused, Ahead
    <2> HIDE DEF updated
    <2> QED BY <2>1, <2>2, AttemptKeepsInvariant DEF Admit
  <1> QED BY <1>2 DEF Admit

LEMMA DiesKeepsInvariant ==
    ASSUME RealtimeInvariant, RealtimeAssumption, NEW s \in Sessions, Dies(s)
    PROVE  RealtimeInvariant'
  <1>1. Unused \in AttemptRow /\ Unused.worker = "idle"
    BY DEF Unused, AttemptRow
  <1> QED BY <1>1, AttemptKeepsInvariant DEF Dies

LEMMA SendActivationKeepsInvariant ==
    ASSUME RealtimeInvariant, RealtimeAssumption, NEW s \in Sessions, SendActivation(s)
    PROVE  RealtimeInvariant'
  <1>1. activation \in [Sessions -> AttemptRow] /\ activation[s].worker = "admitted"
    BY DEF RealtimeInvariant, RealtimeTypeOK, AttemptRow, SendActivation
  <1>2. Ahead(s) /\ activations[s] = 0 /\ ~Fresh(s)
    BY <1>1 DEF Ahead, RealtimeInvariant, CallsAreCharged, Unused
  <1>3. UNCHANGED <<tickets, session, job, lookupJob, lookupsUsed, revokesUsed, reconciler, drainer,
                    revoker, expired, opened, closing, closed, lies, deceived, lookupsMade,
                    revokesMade>>
    BY DEF SendActivation, jobs, budgets, remote
  <1>4. /\ activation' \in [Sessions -> AttemptRow] /\ ~Ahead(s)'
        /\ \A o \in Sessions \ {s} : activation'[o] = activation[o]
    <2> DEFINE w == IF activation[s].caller = "waiting" THEN "sent" ELSE "idle"
               updated == [activation[s] EXCEPT !.worker = w]
    <2>1. updated \in AttemptRow /\ updated.worker \in {"sent", "idle"}
      BY <1>1 DEF AttemptRow
    <2>2. activation' = [activation EXCEPT ![s] = updated]
      BY <1>1 DEF SendActivation, AttemptRow
    <2> HIDE DEF updated
    <2> QED BY <2>1, <2>2, <1>1 DEF Ahead
  <1>5. /\ activations' \in [Sessions -> Nat] /\ activations'[s] = 1
        /\ \A o \in Sessions \ {s} : activations'[o] = activations[o]
    BY <1>2 DEF SendActivation, RealtimeInvariant, RealtimeTypeOK
  <1>6. RealtimeTypeOK'
    BY <1>3, <1>4, <1>5 DEF RealtimeInvariant, RealtimeTypeOK, AttemptRow
  <1>7. CallsAreCharged'
    <2>1. ASSUME NEW o \in Sessions
          PROVE  /\ Fresh(o)' => activation'[o] = Unused /\ activations'[o] = 0
                 /\ Ahead(o)' => activations'[o] = 0
                 /\ activations'[o] \in {0, 1}
                 /\ lookupsMade'[o] <= lookupsUsed'[o]
      <3>1. CASE o = s
        BY <3>1, <1>2, <1>3, <1>4, <1>5 DEF RealtimeInvariant, CallsAreCharged, Fresh
      <3>2. CASE o # s
        BY <3>2, <1>3, <1>4, <1>5 DEF RealtimeInvariant, CallsAreCharged, Fresh, Ahead
      <3> QED BY <3>1, <3>2
    <2> QED BY <2>1, <1>3 DEF RealtimeInvariant, CallsAreCharged
  <1>8. RecordIsTrue'
    <2>1. ASSUME NEW r \in Remotes, opened[r] \in Sessions PROVE activations'[opened[r]] > 0
      <3>1. activations[opened[r]] > 0
        BY <2>1 DEF RealtimeInvariant, RecordIsTrue
      <3> QED BY <2>1, <3>1, <1>5
    <2> QED BY <2>1, <1>3 DEF RealtimeInvariant, RecordIsTrue
  <1>9. LookupIsOwed'
    <2> SUFFICES ASSUME NEW o \in Sessions \ deceived, session[o].state = "revoked",
                        activations'[o] > 0 \/ Ahead(o)'
                 PROVE  lookupJob[o] = "pending" \/ \E r \in Remotes : opened[r] = o
      BY <1>3 DEF LookupIsOwed
    <2>1. activations[o] > 0 \/ Ahead(o)
      BY <1>2, <1>4, <1>5 DEF Ahead
    <2> QED BY <2>1 DEF RealtimeInvariant, LookupIsOwed
  <1> QED BY <1>3, <1>6, <1>7, <1>8, <1>9
          DEF RealtimeInvariant, TicketsNameSessions, JobsAreOwned, ActiveIsNamed,
              ActiveUnharmed, Custody, Pending

\* A session that nothing is done for yet, and its tickets.
LEMMA NewKeepsInvariant ==
    ASSUME RealtimeInvariant, RealtimeAssumption, NEW s \in Sessions, Fresh(s),
           NEW v \in {"new", "activating"}, session' = [session EXCEPT ![s].state = v],
           RealtimeTypeOK', TicketsNameSessions',
           \A o \in Sessions : \/ activation'[o] = activation[o]
                               \/ o = s /\ v = "activating",
           UNCHANGED <<jobs, budgets, drainer, remote, calls>>
    PROVE  RealtimeInvariant'
  <1>1. UNCHANGED <<job, lookupJob, lookupsUsed, revokesUsed, drainer, opened, closing, closed,
                    deceived, activations, lookupsMade, revokesMade>>
    BY DEF jobs, budgets, remote, calls
  <1>2. session \in [Sessions -> SessionRow]
    BY RowsUnchanged DEF RealtimeInvariant
  <1>3. /\ session'[s].state = v /\ session'[s].remote = session[s].remote
        /\ \A o \in Sessions \ {s} : session'[o] = session[o]
    BY <1>2 DEF SessionRow
  <1>4. activations[s] = 0 /\ activation[s] = Unused /\ \A r \in Remotes : opened[r] # s
    BY NotFreshIfOpened DEF RealtimeInvariant, CallsAreCharged
  <1>5. CallsAreCharged'
    <2>1. ASSUME NEW o \in Sessions
          PROVE  /\ Fresh(o)' => activation'[o] = Unused /\ activations'[o] = 0
                 /\ Ahead(o)' => activations'[o] = 0
                 /\ activations'[o] \in {0, 1}
                 /\ lookupsMade'[o] <= lookupsUsed'[o]
      <3>1. CASE o = s
        BY <3>1, <1>1, <1>3, <1>4 DEF RealtimeInvariant, CallsAreCharged, Fresh
      <3>2. CASE o # s
        BY <3>2, <1>1, <1>3 DEF RealtimeInvariant, CallsAreCharged, Fresh, Ahead
      <3> QED BY <3>1, <3>2
    <2> QED BY <2>1, <1>1 DEF RealtimeInvariant, CallsAreCharged
  <1>6. JobsAreOwned'
    <2>1. \A r \in Remotes : job[r].owner # s
      BY DEF RealtimeInvariant, JobsAreOwned, Fresh
    <2> QED BY <2>1, <1>1, <1>3 DEF RealtimeInvariant, JobsAreOwned
  <1>7. ActiveIsNamed' /\ ActiveUnharmed'
    BY <1>1, <1>3 DEF RealtimeInvariant, ActiveIsNamed, ActiveUnharmed
  <1>8. RecordIsTrue'
    BY <1>1, <1>3 DEF RealtimeInvariant, RecordIsTrue
  <1>9. LookupIsOwed'
    BY <1>1, <1>3 DEF RealtimeInvariant, LookupIsOwed, Ahead
  <1>10. Custody'
    BY <1>1, <1>3, <1>4 DEF RealtimeInvariant, Custody, Pending
  <1> QED BY <1>5, <1>6, <1>7, <1>8, <1>9, <1>10 DEF RealtimeInvariant

LEMMA StateRow ==
    ASSUME RealtimeTypeOK, NEW s \in Sessions, NEW v \in {"new", "activating"},
           session' = [session EXCEPT ![s].state = v]
    PROVE  session' \in [Sessions -> SessionRow]
  <1> DEFINE updated == [session[s] EXCEPT !.state = v]
  <1>1. session \in [Sessions -> SessionRow]
    BY RowsUnchanged
  <1>2. updated \in SessionRow /\ session' = [session EXCEPT ![s] = updated]
    BY <1>1 DEF SessionRow
  <1> HIDE DEF updated
  <1> QED BY <1>1, <1>2

LEMMA IssueTicketKeepsInvariant ==
    ASSUME RealtimeInvariant, RealtimeAssumption, NEW t \in Tickets, NEW s \in Sessions,
           IssueTicket(t, s)
    PROVE  RealtimeInvariant'
  <1>1. /\ Invalidated(s, "superseded") \in [Tickets -> TicketRow]
        /\ \A u \in Tickets : Invalidated(s, "superseded")[u].session = tickets[u].session
        /\ \A u \in Tickets : tickets[u].state = "unissued"
                                 => Invalidated(s, "superseded")[u] = tickets[u]
    BY InvalidatedRows DEF RealtimeInvariant
  <1>2. tickets' \in [Tickets -> TicketRow] /\ TicketsNameSessions'
    BY <1>1 DEF IssueTicket, TicketRow, RealtimeInvariant, TicketsNameSessions
  <1>3. Fresh(s) /\ session' = [session EXCEPT ![s].state = "new"]
    BY DEF IssueTicket, Fresh
  <1>4. UNCHANGED <<jobs, budgets, threads, expired, remote, calls>>
    BY DEF IssueTicket
  <1>5. session' \in [Sessions -> SessionRow]
    BY <1>3, StateRow DEF RealtimeInvariant
  <1>6. RealtimeTypeOK'
    BY <1>2, <1>4, <1>5 DEF RealtimeInvariant, RealtimeTypeOK, TicketRow, SessionRow, jobs, budgets,
                           threads, remote, calls
  <1>7. activation' = activation /\ drainer' = drainer
    BY <1>4 DEF threads
  <1> QED BY <1>2, <1>3, <1>4, <1>6, <1>7, NewKeepsInvariant

LEMMA ActivateKeepsInvariant ==
    ASSUME RealtimeInvariant, RealtimeAssumption, NEW t \in Tickets, Activate(t)
    PROVE  RealtimeInvariant'
  <1> DEFINE s == tickets[t].session
  <1>1. s \in Sessions /\ Fresh(s) /\ session' = [session EXCEPT ![s].state = "activating"]
    BY DEF Activate, RealtimeInvariant, TicketsNameSessions, Fresh
  <1>2. UNCHANGED <<jobs, budgets, reconciler, drainer, revoker, expired, remote, calls>>
    BY DEF Activate
  <1>3. /\ Invalidated(s, "superseded") \in [Tickets -> TicketRow]
        /\ \A u \in Tickets : Invalidated(s, "superseded")[u].session = tickets[u].session
        /\ \A u \in Tickets : tickets[u].state = "unissued"
                                 => Invalidated(s, "superseded")[u] = tickets[u]
    BY <1>1, InvalidatedRows DEF RealtimeInvariant
  <1>4. tickets' \in [Tickets -> TicketRow] /\ TicketsNameSessions'
    <2> DEFINE old == Invalidated(s, "superseded")
               updated == [old[t] EXCEPT !.state = "consumed"]
    <2>1. old[t] \in TicketRow
      BY <1>3
    <2>2. updated \in TicketRow /\ updated.session = tickets[t].session
      BY <2>1, <1>3 DEF TicketRow
    <2>3. tickets' = [old EXCEPT ![t] = updated]
      BY <1>3 DEF Activate, TicketRow
    <2> HIDE DEF old, updated
    <2> QED BY <1>1, <1>3, <2>2, <2>3 DEF RealtimeInvariant, TicketsNameSessions, old
  <1>5. /\ activation' \in [Sessions -> AttemptRow]
        /\ \A o \in Sessions \ {s} : activation'[o] = activation[o]
    <2>1. activation \in [Sessions -> AttemptRow]
      BY DEF RealtimeInvariant, RealtimeTypeOK, AttemptRow
    <2>2. PICK w \in {"queued", "idle"} :
              activation' = [activation EXCEPT ![s] = [caller |-> "waiting", worker |-> w]]
      BY DEF Activate
    <2> QED BY <1>1, <2>1, <2>2 DEF AttemptRow
  <1>6. session' \in [Sessions -> SessionRow]
    BY <1>1, StateRow DEF RealtimeInvariant
  <1> HIDE DEF s
  <1>7. RealtimeTypeOK'
    BY <1>2, <1>4, <1>5, <1>6 DEF RealtimeInvariant, RealtimeTypeOK, TicketRow, SessionRow,
                                 AttemptRow, jobs, budgets, remote, calls
  <1> QED BY <1>1, <1>2, <1>4, <1>5, <1>7, NewKeepsInvariant

LEMMA InterruptKeepsInvariant ==
    ASSUME RealtimeInvariant, RealtimeAssumption, NEW s \in Sessions, Interrupt(s)
    PROVE  RealtimeInvariant'
  <1> DEFINE updated == [session[s] EXCEPT !.generation = @ + 1]
  <1>1. session \in [Sessions -> SessionRow]
    BY RowsUnchanged DEF RealtimeInvariant
  <1>2. /\ updated \in SessionRow /\ session' = [session EXCEPT ![s] = updated]
        /\ updated.state = session[s].state /\ updated.remote = session[s].remote
    BY <1>1 DEF Interrupt, SessionRow
  <1> HIDE DEF updated
  <1>3. /\ session' \in [Sessions -> SessionRow]
        /\ \A o \in Sessions : /\ session'[o].state = session[o].state
                               /\ session'[o].remote = session[o].remote
    BY <1>1, <1>2
  <1>4. UNCHANGED <<tickets, job, lookupJob, lookupsUsed, revokesUsed, activation, reconciler,
                    drainer, revoker, expired, opened, closing, closed, lies, deceived,
                    activations, lookupsMade, revokesMade>>
    BY DEF Interrupt, jobs, budgets, threads, remote, calls
  <1>5. RealtimeTypeOK'
    BY <1>3, <1>4 DEF RealtimeInvariant, RealtimeTypeOK, SessionRow
  <1>6. TicketsNameSessions' /\ CallsAreCharged'
    BY <1>3, <1>4 DEF RealtimeInvariant, TicketsNameSessions, CallsAreCharged, Fresh, Ahead
  <1>7. JobsAreOwned' /\ ActiveIsNamed' /\ ActiveUnharmed'
    BY <1>3, <1>4 DEF RealtimeInvariant, JobsAreOwned, ActiveIsNamed, ActiveUnharmed
  <1>8. RecordIsTrue' /\ LookupIsOwed'
    BY <1>3, <1>4 DEF RealtimeInvariant, RecordIsTrue, LookupIsOwed, Ahead
  <1>9. Custody'
    BY <1>3, <1>4 DEF RealtimeInvariant, Custody, Pending
  <1> QED BY <1>5, <1>6, <1>7, <1>8, <1>9 DEF RealtimeInvariant

\* A step outside of the store and of what the invariant is about.
LEMMA ElsewhereKeepsInvariant ==
    ASSUME RealtimeInvariant, RealtimeTypeOK',
           UNCHANGED <<tickets, session, jobs, budgets, activation, drainer, opened, closing, closed,
                       deceived, calls>>
    PROVE  RealtimeInvariant'
  <1>1. UNCHANGED <<tickets, session, job, lookupJob, lookupsUsed, revokesUsed, activation, drainer,
                    opened, closing, closed, deceived, activations, lookupsMade, revokesMade>>
    BY DEF jobs, budgets, calls
  <1>2. TicketsNameSessions' /\ CallsAreCharged'
    BY <1>1 DEF RealtimeInvariant, TicketsNameSessions, CallsAreCharged, Fresh, Ahead
  <1>3. JobsAreOwned' /\ ActiveIsNamed' /\ ActiveUnharmed'
    BY <1>1 DEF RealtimeInvariant, JobsAreOwned, ActiveIsNamed, ActiveUnharmed
  <1>4. RecordIsTrue' /\ LookupIsOwed'
    BY <1>1 DEF RealtimeInvariant, RecordIsTrue, LookupIsOwed, Ahead
  <1>5. Custody'
    BY <1>1 DEF RealtimeInvariant, Custody, Pending
  <1> QED BY <1>2, <1>3, <1>4, <1>5 DEF RealtimeInvariant

LEMMA RevokeEndsKeepsInvariant ==
    ASSUME RealtimeInvariant, RealtimeAssumption, NEW p \in Revokers, RevokeEnds(p)
    PROVE  RealtimeInvariant'
  <1> DEFINE RevokerRow == [session : Sessions \cup {NoSession}, returned : BOOLEAN]
             updated == [revoker[p] EXCEPT !.returned = TRUE]
  <1>1. revoker \in [Revokers -> RevokerRow] /\ NoRevoke \in RevokerRow
    BY DEF RealtimeInvariant, RealtimeTypeOK, NoRevoke
  <1>2. updated \in RevokerRow /\ [revoker EXCEPT ![p].returned = TRUE] = [revoker EXCEPT ![p] = updated]
    BY <1>1
  <1>3. revoker' \in [Revokers -> RevokerRow]
    <2> HIDE DEF updated, RevokerRow
    <2> QED BY <1>1, <1>2 DEF RevokeEnds
  <1>4. RealtimeTypeOK'
    BY <1>3 DEF RevokeEnds, RealtimeInvariant, RealtimeTypeOK, jobs, budgets, remote, calls
  <1> QED BY <1>4, ElsewhereKeepsInvariant DEF RevokeEnds, remote

LEMMA TicketExpiresKeepsInvariant ==
    ASSUME RealtimeInvariant, NEW t \in Tickets, TicketExpires(t)
    PROVE  RealtimeInvariant'
  <1>1. RealtimeTypeOK'
    BY DEF TicketExpires, RealtimeInvariant, RealtimeTypeOK, jobs, budgets, threads, remote, calls
  <1> QED BY <1>1, ElsewhereKeepsInvariant DEF TicketExpires, threads, remote

\* The provider is asked to end a session only with a pending job, and nobody
\* active uses it: the owner of the job is revoked, and no other one has it.
LEMMA DrainKeepsInvariant ==
    ASSUME RealtimeInvariant, RealtimeAssumption, NEW p \in Drainers, NEW r \in Remotes,
           Drain(p, r)
    PROVE  RealtimeInvariant'
  <1>1. UNCHANGED <<tickets, session, job, lookupJob, lookupsUsed, activation, reconciler, revoker,
                    expired, opened, closed, lies, deceived, activations, lookupsMade>>
    BY DEF Drain, jobs
  <1>2. /\ lookupsUsed \in [Sessions -> 0..lookup_limit]
        /\ revokesUsed \in [Remotes -> 0..revoke_limit] /\ revoke_limit \in Nat
        /\ drainer \in [Drainers -> Remotes \cup {NoRemote}]
        /\ closing \subseteq Remotes /\ revokesMade \in [Remotes -> Nat]
        /\ \A q \in Remotes : revokesMade[q] <= revokesUsed[q]
    BY DEF RealtimeInvariant, RealtimeTypeOK, RealtimeAssumption, CallsAreCharged
  <1>3. /\ revokesUsed' \in [Remotes -> 0..revoke_limit] /\ revokesUsed'[r] = revokesUsed[r] + 1
        /\ \A q \in Remotes \ {r} : revokesUsed'[q] = revokesUsed[q]
    BY <1>2 DEF Drain
  <1>4. CASE OwnedElsewhere(job[r].owner, r)
    <2>1. UNCHANGED <<drainer, closing, revokesMade>>
      BY <1>4 DEF Drain
    <2>2. RealtimeTypeOK'
      BY <1>1, <1>3, <2>1 DEF RealtimeInvariant, RealtimeTypeOK
    <2>3. CallsAreCharged'
      <3>1. ASSUME NEW q \in Remotes PROVE revokesMade'[q] <= revokesUsed'[q]
        BY <1>2, <1>3, <2>1
      <3> QED BY <3>1, <1>1 DEF RealtimeInvariant, CallsAreCharged, Fresh, Ahead
    <2>4. TicketsNameSessions' /\ ActiveIsNamed' /\ ActiveUnharmed' /\ JobsAreOwned'
      BY <1>1, <2>1
         DEF RealtimeInvariant, TicketsNameSessions, ActiveIsNamed, ActiveUnharmed, JobsAreOwned
    <2>5. RecordIsTrue' /\ LookupIsOwed' /\ Custody'
      BY <1>1 DEF RealtimeInvariant, RecordIsTrue, LookupIsOwed, Ahead, Custody, Pending
    <2> QED BY <2>2, <2>3, <2>4, <2>5 DEF RealtimeInvariant
  <1>5. CASE ~OwnedElsewhere(job[r].owner, r)
    <2>1. /\ drainer' = [drainer EXCEPT ![p] = r] /\ closing' = closing \cup {r}
          /\ revokesMade' = [revokesMade EXCEPT ![r] = @ + 1]
      BY <1>5 DEF Drain
    <2>2. RealtimeTypeOK'
      BY <1>1, <1>2, <1>3, <2>1 DEF RealtimeInvariant, RealtimeTypeOK
    <2>3. CallsAreCharged'
      <3>1. ASSUME NEW q \in Remotes PROVE revokesMade'[q] <= revokesUsed'[q]
        BY <1>2, <1>3, <2>1
      <3> QED BY <3>1, <1>1 DEF RealtimeInvariant, CallsAreCharged, Fresh, Ahead
    <2>4. job[r].state = "pending"
      BY DEF Drain
    <2>5. JobsAreOwned'
      <3>1. ASSUME NEW d \in Drainers, drainer'[d] # NoRemote
            PROVE  job[drainer'[d]].state # "absent"
        BY <3>1, <1>2, <2>1, <2>4 DEF RealtimeInvariant, JobsAreOwned
      <3> QED BY <3>1, <1>1, <2>1, <2>4 DEF RealtimeInvariant, JobsAreOwned
    <2>6. ActiveUnharmed'
      <3> SUFFICES ASSUME NEW s \in Sessions, session[s].state = "active", session[s].remote = r
                   PROVE  FALSE
        BY <1>1, <2>1 DEF RealtimeInvariant, ActiveUnharmed
      <3>1. s = job[r].owner
        BY <1>5 DEF OwnedElsewhere
      <3> QED BY <3>1 DEF RealtimeInvariant, JobsAreOwned
    <2>7. TicketsNameSessions' /\ ActiveIsNamed'
      BY <1>1 DEF RealtimeInvariant, TicketsNameSessions, ActiveIsNamed
    <2>8. RecordIsTrue' /\ LookupIsOwed' /\ Custody'
      BY <1>1 DEF RealtimeInvariant, RecordIsTrue, LookupIsOwed, Ahead, Custody, Pending
    <2> QED BY <2>2, <2>3, <2>5, <2>6, <2>7, <2>8 DEF RealtimeInvariant
  <1> QED BY <1>4, <1>5

LEMMA DrainEndsKeepsInvariant ==
    ASSUME RealtimeInvariant, NEW p \in Drainers, DrainEnds(p)
    PROVE  RealtimeInvariant'
  <1> DEFINE r == drainer[p]
  <1>1. r \in Remotes
    BY DEF DrainEnds, RealtimeInvariant, RealtimeTypeOK
  <1>2. UNCHANGED <<tickets, session, lookupJob, lookupsUsed, revokesUsed, activation, reconciler,
                    revoker, expired, opened, closing, closed, lies, deceived, activations,
                    lookupsMade, revokesMade>>
    BY DEF DrainEnds, budgets, remote, calls
  <1>3. /\ drainer' \in [Drainers -> Remotes \cup {NoRemote}]
        /\ \A d \in Drainers : drainer'[d] \in {drainer[d], NoRemote}
    BY DEF DrainEnds, RealtimeInvariant, RealtimeTypeOK
  <1>4. /\ job' \in [Remotes -> JobRow]
        /\ \A q \in Remotes :
              \/ job'[q] = job[q]
              \/ /\ q \in closed /\ job[q].state # "absent"
                 /\ job'[q].owner = job[q].owner /\ job'[q].state = "completed"
    <2>1. job \in [Remotes -> JobRow] /\ job[r].state # "absent"
      BY <1>1, RowsUnchanged DEF DrainEnds, RealtimeInvariant, JobsAreOwned
    <2>2. CASE r \in closed /\ job' = [job EXCEPT ![r].state = "completed"]
      <3> DEFINE updated == [job[r] EXCEPT !.state = "completed"]
      <3>1. updated \in JobRow /\ updated.owner = job[r].owner /\ updated.state = "completed"
        BY <1>1, <2>1 DEF JobRow
      <3>2. job' = [job EXCEPT ![r] = updated]
        BY <1>1, <2>1, <2>2 DEF JobRow
      <3> HIDE DEF updated, r
      <3> QED BY <1>1, <2>1, <2>2, <3>1, <3>2
    <2>3. CASE job' = job
      BY <2>1, <2>3
    <2> QED BY <2>2, <2>3 DEF DrainEnds
  <1> HIDE DEF r
  <1>5. RealtimeTypeOK'
    BY <1>2, <1>3, <1>4 DEF RealtimeInvariant, RealtimeTypeOK, JobRow
  <1>6. JobsAreOwned'
    <2>1. ASSUME NEW q \in Remotes
          PROVE  /\ job'[q].owner \in Sessions <=> job'[q].state # "absent"
                 /\ job'[q].owner \in Sessions => session[job'[q].owner].state = "revoked"
                 /\ job'[q].state = "completed" => q \in closed
                 /\ q \in closing \cup closed => job'[q].state # "absent"
      BY <1>4 DEF RealtimeInvariant, JobsAreOwned
    <2>2. ASSUME NEW d \in Drainers, drainer'[d] # NoRemote
          PROVE  job'[drainer'[d]].state # "absent"
      <3>1. drainer'[d] = drainer[d] /\ drainer[d] \in Remotes
        BY <2>2, <1>3 DEF RealtimeInvariant, RealtimeTypeOK
      <3> QED BY <3>1, <2>2, <1>4 DEF RealtimeInvariant, JobsAreOwned
    <2> QED BY <2>1, <2>2, <1>2 DEF JobsAreOwned
  <1>7. Custody'
    BY <1>2, <1>4 DEF RealtimeInvariant, Custody, Pending
  <1>8. TicketsNameSessions' /\ CallsAreCharged'
    BY <1>2 DEF RealtimeInvariant, TicketsNameSessions, CallsAreCharged, Fresh, Ahead
  <1>9. ActiveIsNamed' /\ ActiveUnharmed'
    BY <1>2 DEF RealtimeInvariant, ActiveIsNamed, ActiveUnharmed
  <1>10. RecordIsTrue' /\ LookupIsOwed'
    BY <1>2 DEF RealtimeInvariant, RecordIsTrue, LookupIsOwed, Ahead
  <1> QED BY <1>5, <1>6, <1>7, <1>8, <1>9, <1>10 DEF RealtimeInvariant

\* A remote session that opens late is in custody: its session is pending, or
\* was revoked with a look-up owed.
LEMMA ProviderOpensKeepsInvariant ==
    ASSUME RealtimeInvariant, RealtimeAssumption, NEW s \in Sessions, NEW r \in Remotes,
           ProviderOpens(s, r)
    PROVE  RealtimeInvariant'
  <1>1. UNCHANGED <<tickets, session, job, lookupJob, lookupsUsed, revokesUsed, activation,
                    reconciler, revoker, drainer, expired, closing, closed, activations,
                    lookupsMade, revokesMade>>
    BY DEF ProviderOpens, jobs, budgets, threads, calls
  <1>2. /\ opened' \in [Remotes -> Sessions \cup {NoSession}]
        /\ opened[r] = NoSession /\ opened'[r] = s /\ activations[s] > 0
        /\ \A q \in Remotes \ {r} : opened'[q] = opened[q]
        /\ lies' \in 0..MaxLies /\ deceived' \subseteq Sessions /\ deceived \subseteq deceived'
        /\ s \notin deceived' => \A q \in Remotes : opened[q] # s
    BY DEF ProviderOpens, RealtimeInvariant, RealtimeTypeOK, RealtimeAssumption
  <1>3. RealtimeTypeOK'
    BY <1>1, <1>2 DEF RealtimeInvariant, RealtimeTypeOK
  <1>4. RecordIsTrue'
    <2>1. ASSUME NEW o \in Sessions \ deceived'
          PROVE  /\ session[o].remote # NoRemote => opened'[session[o].remote] = o
                 /\ \A p, q \in Remotes : opened'[p] = o /\ opened'[q] = o => p = q
      <3>1. o \in Sessions \ deceived /\ session[o].remote \in Remotes \cup {NoRemote}
        BY <1>2 DEF RealtimeInvariant, RealtimeTypeOK
      <3>2. session[o].remote # NoRemote => opened[session[o].remote] = o
        BY <3>1 DEF RealtimeInvariant, RecordIsTrue
      <3>3. session[o].remote # NoRemote => opened'[session[o].remote] = o
        BY <3>1, <3>2, <1>2, RealtimeAssumption DEF RealtimeAssumption
      <3>4. ASSUME NEW p \in Remotes, NEW q \in Remotes, opened'[p] = o, opened'[q] = o
            PROVE  p = q
        <4>1. CASE o = s
          BY <4>1, <3>4, <1>2
        <4>2. CASE o # s
          BY <4>2, <3>4, <3>1, <1>2 DEF RealtimeInvariant, RecordIsTrue
        <4> QED BY <4>1, <4>2
      <3> QED BY <3>3, <3>4
    <2>2. \A q \in Remotes : opened'[q] \in Sessions => activations[opened'[q]] > 0
      BY <1>2 DEF RealtimeInvariant, RecordIsTrue
    <2> QED BY <2>1, <2>2, <1>1 DEF RecordIsTrue
  <1>5. LookupIsOwed'
    <2> SUFFICES ASSUME NEW o \in Sessions \ deceived', session[o].state = "revoked",
                        activations[o] > 0 \/ Ahead(o), lookupJob[o] # "pending"
                 PROVE  \E q \in Remotes : opened'[q] = o
      BY <1>1 DEF LookupIsOwed, Ahead
    <2>1. PICK q \in Remotes : opened[q] = o
      BY <1>2 DEF RealtimeInvariant, LookupIsOwed
    <2>2. q # r
      BY <2>1, <1>2, RealtimeAssumption DEF RealtimeAssumption
    <2> QED BY <2>1, <2>2, <1>2
  <1>6. Custody'
    <2> SUFFICES ASSUME NEW q \in Remotes, NEW o \in Sessions \ deceived', o = opened'[q],
                        q \notin closed
                 PROVE  Kept(o, q)
      BY <1>1 DEF Custody, Kept, Pending
    <2>1. CASE q # r
      BY <2>1, <1>2 DEF RealtimeInvariant, Custody, Kept
    <2>2. CASE q = r
      <3>1. o = s /\ o \notin deceived /\ \A u \in Remotes : opened[u] # o
        BY <2>2, <1>2
      <3>2. ~Fresh(o)
        BY <3>1, <1>2 DEF RealtimeInvariant, CallsAreCharged
      <3>3. session[o].state # "active"
        <4> SUFFICES ASSUME session[o].state = "active" PROVE FALSE
          OBVIOUS
        <4>1. session[o].remote \in Remotes
          BY DEF RealtimeInvariant, ActiveIsNamed
        <4>2. opened[session[o].remote] = o
          BY <3>1, <4>1, RealtimeAssumption DEF RealtimeInvariant, RecordIsTrue, RealtimeAssumption
        <4> QED BY <3>1, <4>1, <4>2
      <3>4. session[o].state = "revoked" => lookupJob[o] = "pending"
        BY <3>1, <1>2 DEF RealtimeInvariant, LookupIsOwed
      <3> QED BY <3>2, <3>3, <3>4 DEF RealtimeInvariant, RealtimeTypeOK, Fresh, Kept, Pending
    <2> QED BY <2>1, <2>2
  <1>7. TicketsNameSessions' /\ CallsAreCharged'
    BY <1>1 DEF RealtimeInvariant, TicketsNameSessions, CallsAreCharged, Fresh, Ahead
  <1>8. JobsAreOwned' /\ ActiveIsNamed' /\ ActiveUnharmed'
    BY <1>1 DEF RealtimeInvariant, JobsAreOwned, ActiveIsNamed, ActiveUnharmed
  <1> QED BY <1>3, <1>4, <1>5, <1>6, <1>7, <1>8 DEF RealtimeInvariant

LEMMA ProviderClosesKeepsInvariant ==
    ASSUME RealtimeInvariant, NEW r \in Remotes, ProviderCloses(r)
    PROVE  RealtimeInvariant'
  <1>1. UNCHANGED <<tickets, session, job, lookupJob, lookupsUsed, revokesUsed, activation,
                    reconciler, revoker, drainer, expired, opened, lies, deceived, activations,
                    lookupsMade, revokesMade>>
    BY DEF ProviderCloses, jobs, budgets, threads, calls
  <1>2. /\ closing' \cup closed' = closing \cup closed
        /\ closed \subseteq closed' /\ closing' \subseteq Remotes /\ closed' \subseteq Remotes
    BY DEF ProviderCloses, RealtimeInvariant, RealtimeTypeOK
  <1>3. RealtimeTypeOK'
    BY <1>1, <1>2 DEF RealtimeInvariant, RealtimeTypeOK
  <1>4. TicketsNameSessions' /\ CallsAreCharged'
    BY <1>1 DEF RealtimeInvariant, TicketsNameSessions, CallsAreCharged, Fresh, Ahead
  <1>5. JobsAreOwned' /\ ActiveIsNamed' /\ ActiveUnharmed'
    BY <1>1, <1>2 DEF RealtimeInvariant, JobsAreOwned, ActiveIsNamed, ActiveUnharmed
  <1>6. RecordIsTrue' /\ LookupIsOwed' /\ Custody'
    BY <1>1, <1>2 DEF RealtimeInvariant, RecordIsTrue, LookupIsOwed, Ahead, Custody, Pending
  <1> QED BY <1>3, <1>4, <1>5, <1>6 DEF RealtimeInvariant

-----------------------------------------------------------------------------
(* Theorems                                                                *)

LEMMA InitEstablishesInvariant == RealtimeAssumption /\ RealtimeInit => RealtimeInvariant
  <1> SUFFICES ASSUME RealtimeAssumption, RealtimeInit PROVE RealtimeInvariant
    OBVIOUS
  <1> USE DEF RealtimeInit
  <1>1. RealtimeTypeOK
    BY DEF RealtimeTypeOK, RealtimeAssumption, Unused, NoRevoke
  <1>2. TicketsNameSessions /\ CallsAreCharged
    BY DEF TicketsNameSessions, CallsAreCharged, Ahead, Unused
  <1>3. JobsAreOwned /\ ActiveIsNamed /\ ActiveUnharmed
    BY DEF RealtimeAssumption, JobsAreOwned, ActiveIsNamed, ActiveUnharmed
  <1>4. RecordIsTrue /\ LookupIsOwed /\ Custody
    BY DEF RealtimeAssumption, RecordIsTrue, LookupIsOwed, Custody
  <1> QED BY <1>1, <1>2, <1>3, <1>4 DEF RealtimeInvariant

LEMMA NextKeepsInvariant ==
    ASSUME RealtimeInvariant, RealtimeAssumption, [RealtimeNext]_realtimeVars
    PROVE  RealtimeInvariant'
  <1>1. CASE UNCHANGED realtimeVars
    <2>1. RealtimeTypeOK'
      BY <1>1 DEF RealtimeInvariant, RealtimeTypeOK, realtimeVars, jobs, budgets, threads, remote,
                  calls
    <2> QED BY <1>1, <2>1, ElsewhereKeepsInvariant DEF realtimeVars, threads, remote
  <1>2. ASSUME NEW t \in Tickets, Activate(t) PROVE RealtimeInvariant'
    BY <1>2, ActivateKeepsInvariant
  <1>3. ASSUME NEW t \in Tickets, TicketExpires(t) PROVE RealtimeInvariant'
    BY <1>3, TicketExpiresKeepsInvariant
  <1>4. ASSUME NEW t \in Tickets, NEW s \in Sessions, IssueTicket(t, s) PROVE RealtimeInvariant'
    BY <1>4, IssueTicketKeepsInvariant
  <1>5. ASSUME NEW s \in Sessions, Admit(s) \/ SendActivation(s) \/ Dies(s)
        PROVE  RealtimeInvariant'
    BY <1>5, AdmitKeepsInvariant, SendActivationKeepsInvariant, DiesKeepsInvariant
  <1>6. ASSUME NEW s \in Sessions, GiveUp(s) \/ ActivationAnswered(s) \/ Interrupt(s)
        PROVE  RealtimeInvariant'
    BY <1>6, GiveUpKeepsInvariant, ActivationAnsweredKeepsInvariant, InterruptKeepsInvariant
  <1>7. ASSUME NEW p \in Reconcilers, ReconcileEnds(p) PROVE RealtimeInvariant'
    BY <1>7, ReconcileEndsKeepsInvariant
  <1>8. ASSUME NEW p \in Reconcilers, NEW s \in Sessions, Reconcile(p, s)
        PROVE  RealtimeInvariant'
    BY <1>8, ReconcileKeepsInvariant
  <1>9. ASSUME NEW p \in Revokers, RevokeEnds(p) PROVE RealtimeInvariant'
    BY <1>9, RevokeEndsKeepsInvariant
  <1>10. ASSUME NEW p \in Revokers, NEW s \in Sessions, Revoke(p, s) PROVE RealtimeInvariant'
    BY <1>10, RevokeKeepsInvariant
  <1>11. ASSUME NEW p \in Drainers, DrainEnds(p) PROVE RealtimeInvariant'
    BY <1>11, DrainEndsKeepsInvariant
  <1>12. ASSUME NEW p \in Drainers, NEW r \in Remotes, Drain(p, r) PROVE RealtimeInvariant'
    BY <1>12, DrainKeepsInvariant
  <1>13. ASSUME NEW r \in Remotes, ProviderCloses(r) PROVE RealtimeInvariant'
    BY <1>13, ProviderClosesKeepsInvariant
  <1>14. ASSUME NEW r \in Remotes, NEW s \in Sessions, ProviderOpens(s, r)
         PROVE  RealtimeInvariant'
    BY <1>14, ProviderOpensKeepsInvariant
  <1> QED BY <1>1, <1>2, <1>3, <1>4, <1>5, <1>6, <1>7, <1>8, <1>9, <1>10, <1>11, <1>12, <1>13, <1>14
          DEF RealtimeNext

\* The inductive invariant holds throughout: the types, and how tickets,
\* sessions, jobs, attempts and what the provider has opened belong together.
THEOREM RealtimeInvariantHolds == RealtimeSpec => []RealtimeInvariant
  <1>1. RealtimeInit => RealtimeInvariant
    BY InitEstablishesInvariant, RealtimeAssumption
  <1>2. RealtimeInvariant /\ [RealtimeNext]_realtimeVars => RealtimeInvariant'
    BY NextKeepsInvariant, RealtimeAssumption
  <1> QED BY <1>1, <1>2, PTL DEF RealtimeSpec

\* No remote session is forgotten, however late it opens and whatever died:
\* _queue_revoke and _commit_activation leave a session, a job or a look-up
\* that accounts for it.
THEOREM CustodyIsKept == RealtimeSpec => []Custody
  <1>1. RealtimeInvariant => Custody
    BY DEF RealtimeInvariant
  <1> QED BY <1>1, RealtimeInvariantHolds, PTL

\* Nothing an active session uses is ever ended, whatever the provider
\* answers: _remote_owned_elsewhere.
THEOREM ActiveIsUnharmed == RealtimeSpec => []ActiveUnharmed
  <1>1. RealtimeInvariant => ActiveUnharmed
    BY DEF RealtimeInvariant
  <1> QED BY <1>1, RealtimeInvariantHolds, PTL

\* No timeout, death or retry makes more calls than the store has charged.
THEOREM BudgetsHold == RealtimeSpec => []CallsAreBudgeted
  <1>1. RealtimeInvariant => CallsAreBudgeted
    <2> SUFFICES ASSUME RealtimeInvariant PROVE CallsAreBudgeted
      OBVIOUS
    <2>1. lookup_limit \in Nat /\ revoke_limit \in Nat
      BY RealtimeAssumption DEF RealtimeAssumption
    <2>2. ASSUME NEW s \in Sessions
          PROVE  activations[s] <= 1 /\ lookupsMade[s] <= lookup_limit
      <3>1. /\ activations[s] \in {0, 1} /\ lookupsMade[s] <= lookupsUsed[s]
            /\ lookupsUsed[s] \in 0..lookup_limit /\ lookupsMade[s] \in Nat
        BY DEF RealtimeInvariant, RealtimeTypeOK, CallsAreCharged
      <3> QED BY <2>1, <3>1
    <2>3. ASSUME NEW r \in Remotes PROVE revokesMade[r] <= revoke_limit
      <3>1. /\ revokesMade[r] <= revokesUsed[r] /\ revokesMade[r] \in Nat
            /\ revokesUsed[r] \in 0..revoke_limit
        BY DEF RealtimeInvariant, RealtimeTypeOK, CallsAreCharged
      <3> QED BY <2>1, <3>1
    <2> QED BY <2>2, <2>3 DEF CallsAreBudgeted
  <1> QED BY <1>1, RealtimeInvariantHolds, PTL

\* A step that is a transaction of one session, or leaves states alone or makes
\* them new ones, does not bring a revoked session back; and only an activating
\* session is admitted.
LEMMA RevokedStays ==
    ASSUME RealtimeInvariant, RealtimeAssumption, RealtimeNext, NEW s \in Sessions,
           session[s].state = "revoked"
    PROVE  /\ session'[s].state = "revoked"
           /\ activation'[s].worker = "admitted" => activation[s].worker = "admitted"
  <1> DEFINE Stays == /\ session'[s].state = "revoked"
                      /\ activation'[s].worker = "admitted" => activation[s].worker = "admitted"
  <1>1. /\ session \in [Sessions -> SessionRow] /\ activation \in [Sessions -> AttemptRow]
    BY RowsUnchanged DEF RealtimeInvariant, RealtimeTypeOK, AttemptRow
  <1>2. ASSUME NEW t \in Tickets, Activate(t) PROVE Stays
    <2>1. tickets[t].session # s
      BY <1>2 DEF Activate
    <2> QED BY <1>1, <1>2, <2>1 DEF Activate
  <1>3. ASSUME NEW t \in Tickets, TicketExpires(t) PROVE Stays
    BY <1>3 DEF TicketExpires, threads
  <1>4. ASSUME NEW t \in Tickets, NEW o \in Sessions, IssueTicket(t, o) PROVE Stays
    <2>1. o # s
      BY <1>4 DEF IssueTicket
    <2> QED BY <1>1, <1>4, <2>1 DEF IssueTicket, threads
  <1>5. ASSUME NEW o \in Sessions, Admit(o) \/ SendActivation(o) \/ Dies(o) PROVE Stays
    <2>1. session' = session
      BY <1>5 DEF Admit, SendActivation, Dies
    <2>2. CASE o # s
      BY <1>1, <1>5, <2>1, <2>2 DEF Admit, SendActivation, Dies
    <2>3. CASE o = s
      BY <1>1, <1>5, <2>1, <2>3 DEF Admit, SendActivation, Dies, Unused, AttemptRow
    <2> QED BY <2>2, <2>3
  <1>6. ASSUME NEW o \in Sessions, GiveUp(o) PROVE Stays
    <2>1. Handles(o)
      BY <1>6, IndeterminateHandles DEF GiveUp, remote
    <2> QED BY <1>1, <1>6, <2>1 DEF GiveUp, Handles, AttemptRow
  <1>7. ASSUME NEW o \in Sessions, ActivationAnswered(o) PROVE Stays
    <2>1. PICK r \in Remotes, same \in BOOLEAN : Names(o, r, same) /\ Commit(o, r, same)
      BY <1>7 DEF ActivationAnswered
    <2>2. Handles(o)
      BY <2>1, NamesKeepsTypes, CommitHandles DEF RealtimeInvariant
    <2> QED BY <1>1, <1>7, <2>2 DEF ActivationAnswered, Handles, AttemptRow, Unused
  <1>8. ASSUME NEW o \in Sessions, Interrupt(o) PROVE Stays
    <2>1. o # s
      BY <1>8 DEF Interrupt
    <2> QED BY <1>1, <1>8, <2>1 DEF Interrupt, threads
  <1>9. ASSUME NEW p \in Reconcilers, ReconcileEnds(p) PROVE Stays
    <2> DEFINE o == reconciler[p]
    <2>1. o \in Sessions /\ activation' = activation
      BY <1>9 DEF ReconcileEnds, RealtimeInvariant, RealtimeTypeOK
    <2> HIDE DEF o
    <2>2. CASE \E r \in Remotes, same \in BOOLEAN : Names(o, r, same) /\ Commit(o, r, same)
      <3>1. PICK r \in Remotes, same \in BOOLEAN : Names(o, r, same) /\ Commit(o, r, same)
        BY <2>2
      <3>2. Handles(o)
        BY <2>1, <3>1, NamesKeepsTypes, CommitHandles DEF RealtimeInvariant
      <3> QED BY <2>1, <3>2 DEF Handles
    <2>3. CASE Indeterminate(o) /\ UNCHANGED remote
      BY <2>1, <2>3, IndeterminateHandles DEF Handles, remote
    <2>4. CASE UNCHANGED session
      BY <2>1, <2>4
    <2> QED BY <1>9, <2>2, <2>3, <2>4 DEF ReconcileEnds, o
  <1>10. ASSUME NEW p \in Reconcilers, NEW o \in Sessions, Reconcile(p, o) PROVE Stays
    <2>1. Handles(o)
      BY <1>10, ExpirePendingHandles DEF Reconcile, remote
    <2> QED BY <1>10, <2>1 DEF Reconcile, Handles
  <1>11. ASSUME NEW p \in Revokers, RevokeEnds(p) PROVE Stays
    BY <1>11 DEF RevokeEnds
  <1>12. ASSUME NEW p \in Revokers, NEW o \in Sessions, Revoke(p, o) PROVE Stays
    <2>1. Handles(o)
      BY <1>12, RevokeHandles
    <2> QED BY <1>12, <2>1 DEF Revoke, Handles
  <1>13. ASSUME NEW p \in Drainers, DrainEnds(p) \/ \E r \in Remotes : Drain(p, r) PROVE Stays
    BY <1>13 DEF DrainEnds, Drain
  <1>14. ASSUME NEW r \in Remotes,
                ProviderCloses(r) \/ \E o \in Sessions : ProviderOpens(o, r)
         PROVE  Stays
    BY <1>14 DEF ProviderCloses, ProviderOpens, threads
  <1> QED BY <1>2, <1>3, <1>4, <1>5, <1>6, <1>7, <1>8, <1>9, <1>10, <1>11, <1>12, <1>13, <1>14
          DEF RealtimeNext

\* Revocation is monotonic through every late result and retry, and dispatch()
\* admits no attempt of a revoked session.
THEOREM RevocationIsForGood == RealtimeSpec => RevokedForGood
  <1>1. RealtimeInvariant /\ [RealtimeNext]_realtimeVars =>
            [\A s \in Sessions : session[s].state = "revoked" =>
                /\ session'[s].state = "revoked"
                /\ activation'[s].worker = "admitted" => activation[s].worker = "admitted"
            ]_realtimeVars
    BY RevokedStays, RealtimeAssumption
  <1> QED BY <1>1, RealtimeInvariantHolds, PTL DEF RealtimeSpec, RevokedForGood

\* revoke() returns only with every known remote session of its session closed.
THEOREM RevokeTellsTheTruth == RealtimeSpec => RevokeIsTrue
  <1>1. RealtimeInvariant /\ [RealtimeNext]_realtimeVars =>
            [\A p \in Revokers : revoker'[p].returned /\ ~revoker[p].returned =>
                \A r \in Remotes : job[r].owner = revoker[p].session => r \in closed
            ]_realtimeVars
    <2> SUFFICES ASSUME RealtimeInvariant, RealtimeNext, NEW p \in Revokers,
                        revoker'[p].returned, ~revoker[p].returned,
                        NEW r \in Remotes, job[r].owner = revoker[p].session
                 PROVE  r \in closed
      OBVIOUS
    <2> DEFINE RevokerRow == [session : Sessions \cup {NoSession}, returned : BOOLEAN]
    <2>1. revoker \in [Revokers -> RevokerRow]
      BY DEF RealtimeInvariant, RealtimeTypeOK
    <2>2. revoker' # revoker
      OBVIOUS
    <2>3. PICK q \in Revokers : RevokeEnds(q) \/ \E s \in Sessions : Revoke(q, s)
      BY <2>2 DEF RealtimeNext, Activate, TicketExpires, IssueTicket, Admit, SendActivation, GiveUp,
                  ActivationAnswered, Dies, Interrupt, ReconcileEnds, Reconcile, DrainEnds, Drain,
                  ProviderCloses, ProviderOpens, threads
    <2>4. CASE \E s \in Sessions : Revoke(q, s)
      BY <2>1, <2>4 DEF Revoke
    <2>5. CASE RevokeEnds(q)
      <3>1. /\ q = p /\ revoker[p].session # NoSession
            /\ \A u \in Remotes : job[u].owner = revoker[p].session => job[u].state # "pending"
        BY <2>1, <2>5 DEF RevokeEnds, NoRevoke
      <3>2. revoker[p].session \in Sessions
        BY <2>1, <3>1
      <3>3. job[r].state \in {"pending", "completed"}
        BY <3>2 DEF RealtimeInvariant, RealtimeTypeOK, JobsAreOwned
      <3> QED BY <3>1, <3>3 DEF RealtimeInvariant, JobsAreOwned
    <2> QED BY <2>3, <2>4, <2>5
  <1> QED BY <1>1, RealtimeInvariantHolds, PTL DEF RealtimeSpec, RevokeIsTrue

=============================================================================
