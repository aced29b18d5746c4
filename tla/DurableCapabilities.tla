------------------------ MODULE DurableCapabilities ------------------------
(***************************************************************************)
(* services/control_plane/durable_capabilities.py with bounded_calls.py    *)
(* and capability_suspension.py: mutations of an external provider, each   *)
(* reserved in a SQLite ledger before it is dispatched.                    *)
(*                                                                         *)
(* Processes share the ledger; every transaction is one step (BEGIN        *)
(* IMMEDIATE serialises them) and no call of the provider happens inside   *)
(* one.  An operation is called by a thread that gives up waiting at its   *)
(* deadline and carried out by a worker thread that does not.              *)
(*                                                                         *)
(* Ledger        row, readbacks, revoked, suspended                        *)
(* Threads       caller, worker of an operation; reader of a read-back     *)
(* Environment   provider, breaches, now                                   *)
(* History       sent      requests of an operation handed to the provider *)
(*               asked     read-backs made                                 *)
(*               seen      terminal dispositions committed transactions    *)
(*                         have been given                                 *)
(*               fenced    subjects whose revoke_subject() has ended       *)
(*               broken    operations about which the provider answered    *)
(*                         against its contract                            *)
(***************************************************************************)
EXTENDS Naturals, FiniteSets

CONSTANTS
    Keys,                \* (subject, idempotency key) of an operation
    Subjects, Subject,   \* whose operation a key is
    Checked,             \* keys whose adapter offers execute_authorized
    Leases, NoLease,
    Fits,                \* the pairs of a key and a lease bound to its request
    Deadline,            \* of a key's request, and of a lease
    maximum_operations, maximum_readbacks,
    Readers,             \* concurrent reconcile() calls
    NoKey,
    MaxTime,             \* bound on the clock
    MaxBreaches          \* bound on answers that break the provider's contract

VARIABLES row, readbacks, revoked, suspended, caller, worker, reader,
          provider, breaches, now, sent, asked, seen, fenced, broken

ledger == <<row, readbacks, revoked, suspended>>
history == <<sent, asked, seen, fenced, broken>>
vars == <<ledger, caller, worker, reader, provider, breaches, now, history>>

ASSUME CapabilityAssumption ==
    /\ Subject \in [Keys -> Subjects]
    /\ Checked \subseteq Keys
    /\ Fits \subseteq Keys \X Leases
    /\ Deadline \in [Keys \cup Leases -> Nat]
    /\ NoLease \notin Leases /\ NoKey \notin Keys
    /\ maximum_operations \in Nat \ {0} /\ maximum_readbacks \in Nat \ {0}
    /\ MaxTime \in Nat /\ MaxBreaches \in Nat

State == {"absent", "dispatching", "indeterminate", "succeeded", "failed", "denied"}
Terminal == {"succeeded", "failed", "denied"}
Disposition == {"applied", "not_applied"}

\* What an adapter's call ends with: a terminal observation, anything that is
\* not one, an error, or (execute only) a dispatch that was called off.
Outcome == Disposition \cup {"unknown", "error", "none", "not_started"}

TypeOK ==
    /\ row \in [Keys -> [state : State, conflict : BOOLEAN, lease : Leases \cup {NoLease}]]
    /\ readbacks \in [Keys -> 0..maximum_readbacks]
    /\ revoked \subseteq Subjects /\ suspended \in BOOLEAN
    /\ caller \in [Keys -> {"idle", "reserved", "waiting"}]
    /\ worker \in [Keys -> {"idle", "queued", "admitted", "authorized", "sent"} \cup Outcome]
    /\ reader \in [Readers -> [pc : {"idle", "reserved", "asking"}, key : Keys \cup {NoKey}]]
    /\ provider \in [Keys -> {"unaware", "received", "applied", "refused"}]
    /\ breaches \in 0..MaxBreaches /\ now \in 0..MaxTime
    /\ sent \in [Keys -> Nat] /\ asked \in [Keys -> Nat]
    /\ seen \in [Keys -> SUBSET Disposition]
    /\ fenced \subseteq Subjects /\ broken \subseteq Keys

IdleReader == [pc |-> "idle", key |-> NoKey]

Init ==
    /\ row = [k \in Keys |-> [state |-> "absent", conflict |-> FALSE, lease |-> NoLease]]
    /\ readbacks = [k \in Keys |-> 0]
    /\ revoked = {} /\ suspended = FALSE
    /\ caller = [k \in Keys |-> "idle"]
    /\ worker = [k \in Keys |-> "idle"]
    /\ reader = [p \in Readers |-> IdleReader]
    /\ provider = [k \in Keys |-> "unaware"]
    /\ breaches = 0 /\ now = 0
    /\ sent = [k \in Keys |-> 0] /\ asked = [k \in Keys |-> 0]
    /\ seen = [k \in Keys |-> {}]
    /\ fenced = {} /\ broken = {}

-----------------------------------------------------------------------------
(* Admission                                                               *)

Operations == {k \in Keys : row[k].state # "absent"}
ConsumedLeases == {row[k].lease : k \in Keys} \ {NoLease}

\* _denial returns None
Allowed(k, l) ==
    /\ Subject[k] \notin revoked
    /\ now < Deadline[k]
    /\ <<k, l>> \in Fits
    /\ now < Deadline[l]
    /\ l \notin ConsumedLeases

\* Faulty variant: an operation found unfinished is dispatched again with its lease.
ReserveUnfinished(k, l) ==
    /\ \/ /\ row[k].state = "absent" /\ Allowed(k, l)
          /\ row' = [row EXCEPT ![k] = [state |-> "dispatching", conflict |-> FALSE, lease |-> l]]
       \/ /\ row[k].state = "dispatching" /\ row[k].lease = l
          /\ caller[k] = "idle" /\ worker[k] = "idle"
          /\ UNCHANGED row
    /\ caller' = [caller EXCEPT ![k] = "reserved"]
    /\ UNCHANGED <<readbacks, revoked, suspended, worker, reader, provider, breaches, now,
                   history>>

\* execute(), first transaction: the intent and the spent lease, or a denial.
\* A key the ledger knows is replayed and changes nothing.
Reserve(k, l) ==
    /\ row[k].state = "absent"
    /\ ~suspended
    /\ Cardinality(Operations) < maximum_operations
    /\ \/ /\ Allowed(k, l)
          /\ row' = [row EXCEPT ![k] = [state |-> "dispatching", conflict |-> FALSE, lease |-> l]]
          /\ caller' = [caller EXCEPT ![k] = "reserved"]
       \/ /\ ~Allowed(k, l)
          /\ row' = [row EXCEPT ![k].state = "denied"]
          /\ UNCHANGED caller
    /\ UNCHANGED <<readbacks, revoked, suspended, worker, reader, provider, breaches, now,
                   history>>

\* BoundedCalls.run: a worker thread starts, or (no permit, no thread, no time
\* left) the call is not started.  An unreadable clock makes execute() throw.
Run(k) ==
    /\ caller[k] = "reserved"
    /\ \/ /\ caller' = [caller EXCEPT ![k] = "waiting"]
          /\ \E w \in {"queued", "not_started"} : worker' = [worker EXCEPT ![k] = w]
       \/ caller' = [caller EXCEPT ![k] = "idle"] /\ UNCHANGED worker
    /\ UNCHANGED <<ledger, reader, provider, breaches, now, history>>

\* min(request.deadline, lease.expires_at) has passed
Expired(k) == now >= Deadline[k] \/ now >= Deadline[row[k].lease]
Fenced(k) == suspended \/ Subject[k] \in revoked

\* _finish
Settle(k, state) == row' = [row EXCEPT ![k].state = state]

\* dispatch(), its own transaction.  The caller's time may be up, or the clock
\* unreadable, at any moment.
Dispatch(k) ==
    /\ worker[k] = "queued"
    /\ \/ row[k].state # "dispatching"
          /\ worker' = [worker EXCEPT ![k] = "none"] /\ UNCHANGED row
       \/ /\ row[k].state = "dispatching"
          /\ Settle(k, "failed")                      \* dispatch_authority_expired
          /\ worker' = [worker EXCEPT ![k] = "none"]
       \/ /\ row[k].state = "dispatching" /\ ~Fenced(k) /\ ~Expired(k)
          /\ worker' = [worker EXCEPT ![k] = "admitted"] /\ UNCHANGED row
       \/ worker' = [worker EXCEPT ![k] = "error"] /\ UNCHANGED row
    /\ UNCHANGED <<readbacks, revoked, suspended, caller, reader, provider, breaches, now,
                   history>>

\* Faulty variant: the authority is checked before the credentials are acquired only.
AuthorizeAlways(k) ==
    /\ worker[k] = "admitted" /\ k \in Checked
    /\ worker' = [worker EXCEPT ![k] = "authorized"]
    /\ UNCHANGED <<ledger, caller, reader, provider, breaches, now, history>>

\* authorize(), called back by execute_authorized right before the mutation.
Authorize(k) ==
    /\ worker[k] = "admitted" /\ k \in Checked
    /\ \/ /\ row[k].state = "dispatching" /\ ~Fenced(k) /\ ~Expired(k)
          /\ worker' = [worker EXCEPT ![k] = "authorized"]
       \/ worker' = [worker EXCEPT ![k] = "error"]
    /\ UNCHANGED <<ledger, caller, reader, provider, breaches, now, history>>

\* The adapter hands the mutation to the provider; one that the provider has
\* refused for good stays refused.
Send(k) ==
    /\ worker[k] = IF k \in Checked THEN "authorized" ELSE "admitted"
    /\ worker' = [worker EXCEPT ![k] = "sent"]
    /\ provider' = [provider EXCEPT ![k] = IF @ = "unaware" THEN "received" ELSE @]
    /\ sent' = [sent EXCEPT ![k] = @ + 1]
    /\ UNCHANGED <<ledger, caller, reader, breaches, now, asked, seen, fenced, broken>>

-----------------------------------------------------------------------------
(* The provider.  Its terminal answers are promises: "applied" that it was *)
(* applied, "not_applied" that it never will be.                           *)

ProviderApplies(k) ==
    /\ provider[k] = "received"
    /\ provider' = [provider EXCEPT ![k] = "applied"]
    /\ UNCHANGED <<ledger, caller, worker, reader, breaches, now, history>>

\* The provider says v of operation k.
Answers(k, v) ==
    \/ v = "unknown" /\ UNCHANGED <<provider, breaches, broken>>
    \/ v = "applied" /\ provider[k] = "applied" /\ UNCHANGED <<provider, breaches, broken>>
    \/ /\ v = "not_applied" /\ provider[k] # "applied"
       /\ provider' = [provider EXCEPT ![k] = "refused"]
       /\ UNCHANGED <<breaches, broken>>
    \/ /\ \/ v = "applied" /\ provider[k] # "applied"
          \/ v = "not_applied" /\ provider[k] = "applied"
       /\ breaches < MaxBreaches
       /\ breaches' = breaches + 1
       /\ broken' = broken \cup {k}
       /\ UNCHANGED provider

\* The adapter's call of a worker ends.
WorkerReturns(k) ==
    /\ \/ \E v \in Disposition \cup {"unknown"} :
             /\ worker[k] = "sent"
             /\ Answers(k, v)
             /\ worker' = [worker EXCEPT ![k] = v]
       \/ /\ worker[k] \in {"admitted", "authorized", "sent"}
          /\ worker' = [worker EXCEPT ![k] = "error"]
          /\ UNCHANGED <<provider, breaches, broken>>
    /\ UNCHANGED <<ledger, caller, reader, now, sent, asked, seen, fenced>>

-----------------------------------------------------------------------------
(* Observations                                                            *)

\* Faulty variant: whatever ends a call without an answer means that it failed.
ObserveErrorAsFailure(k, v) ==
    Settle(k, CASE v = "applied" -> "succeeded" [] v = "unknown" -> "indeterminate"
                [] OTHER -> "failed")

\* _observe: only a terminal observation settles an operation.
Observe(k, v) ==
    Settle(k, CASE v = "applied" -> "succeeded" [] v = "not_applied" -> "failed"
                [] OTHER -> "indeterminate")

\* _record_conflict: a terminal answer that contradicts the settled state.
RecordConflict(k, v) ==
    IF \/ row[k].state = "failed" /\ v = "applied"
       \/ row[k].state = "succeeded" /\ v = "not_applied"
    THEN row' = [row EXCEPT ![k].state = "indeterminate", ![k].conflict = TRUE]
    ELSE UNCHANGED row

\* The last transaction of execute() and of reconcile(), given outcome v.
Conclude(k, v) ==
    /\ IF row[k].state \notin Terminal /\ ~row[k].conflict
       THEN IF v = "not_started" THEN Settle(k, "failed") ELSE Observe(k, v)
       ELSE RecordConflict(k, v)
    /\ seen' = [seen EXCEPT ![k] = @ \cup ({v} \cap Disposition)]

\* The caller has its outcome, or gives up; an unreadable clock rolls back.
Finalize(k) ==
    /\ caller[k] = "waiting"
    /\ caller' = [caller EXCEPT ![k] = "idle"]
    /\ \/ worker[k] \in Outcome /\ Conclude(k, worker[k])
       \/ Conclude(k, "timeout")
       \/ UNCHANGED <<row, seen>>
    /\ UNCHANGED <<readbacks, revoked, suspended, worker, reader, provider, breaches, now,
                   sent, asked, fenced, broken>>

\* The process that executes k dies; what it sent is on its way.
Crash(k) ==
    /\ caller[k] # "idle" \/ worker[k] \in {"queued", "admitted", "authorized", "sent"}
    /\ caller' = [caller EXCEPT ![k] = "idle"]
    /\ worker' = [worker EXCEPT ![k] = "idle"]
    /\ UNCHANGED <<ledger, reader, provider, breaches, now, history>>

-----------------------------------------------------------------------------
(* reconcile()                                                             *)

\* The first transaction: the attempt is charged before it is made.
ReadbackReserve(p, k) ==
    /\ reader[p].pc = "idle"
    /\ row[k].state \in {"dispatching", "indeterminate"} /\ ~row[k].conflict
    /\ readbacks[k] < maximum_readbacks
    /\ readbacks' = [readbacks EXCEPT ![k] = @ + 1]
    /\ reader' = [reader EXCEPT ![p] = [pc |-> "reserved", key |-> k]]
    /\ UNCHANGED <<row, revoked, suspended, caller, worker, provider, breaches, now, history>>

ReadbackAsk(p) ==
    /\ reader[p].pc = "reserved"
    /\ reader' = [reader EXCEPT ![p].pc = "asking"]
    /\ asked' = [asked EXCEPT ![reader[p].key] = @ + 1]
    /\ UNCHANGED <<ledger, caller, worker, provider, breaches, now, sent, seen, fenced, broken>>

\* The answer and the second transaction; or no answer in time, or no worker.
ReadbackFinish(p) ==
    LET k == reader[p].key IN
    /\ reader[p].pc # "idle"
    /\ reader' = [reader EXCEPT ![p] = IdleReader]
    /\ \/ /\ reader[p].pc = "asking"
          /\ \E v \in Disposition \cup {"unknown"} : Answers(k, v) /\ Conclude(k, v)
       \/ Conclude(k, "timeout") /\ UNCHANGED <<provider, breaches, broken>>
       \/ UNCHANGED <<row, seen, provider, breaches, broken>>     \* the process dies
    /\ UNCHANGED <<readbacks, revoked, suspended, caller, worker, now, sent, asked, fenced>>

-----------------------------------------------------------------------------
\* Faulty variant: a revocation that cannot be recorded is only reported.
RevokeBestEffort(s) ==
    /\ \/ revoked' = (IF suspended THEN revoked ELSE revoked \cup {s})
       \/ UNCHANGED revoked
    /\ fenced' = fenced \cup {s}
    /\ UNCHANGED <<row, readbacks, suspended, caller, worker, reader, provider, breaches, now,
                   sent, asked, seen, broken>>

\* revoke_subject: the subject is denied, or (no room, no clock) everybody is.
RevokeSubject(s) ==
    /\ \/ (suspended \/ s \in revoked) /\ UNCHANGED <<revoked, suspended>>
       \/ /\ ~suspended /\ s \notin revoked
          /\ Cardinality(revoked) < maximum_operations
          /\ revoked' = revoked \cup {s} /\ UNCHANGED suspended
       \/ ~suspended /\ s \notin revoked /\ suspended' = TRUE /\ UNCHANGED revoked
    /\ fenced' = fenced \cup {s}
    /\ UNCHANGED <<row, readbacks, caller, worker, reader, provider, breaches, now,
                   sent, asked, seen, broken>>

Tick ==
    /\ now < MaxTime
    /\ now' = now + 1
    /\ UNCHANGED <<ledger, caller, worker, reader, provider, breaches, history>>

Next ==
    \/ \E k \in Keys, l \in Leases \cup {NoLease} : Reserve(k, l)
    \/ \E k \in Keys :
          \/ Run(k) \/ Dispatch(k) \/ Authorize(k) \/ Send(k)
          \/ ProviderApplies(k) \/ WorkerReturns(k) \/ Finalize(k) \/ Crash(k)
    \/ \E p \in Readers, k \in Keys : ReadbackReserve(p, k)
    \/ \E p \in Readers : ReadbackAsk(p) \/ ReadbackFinish(p)
    \/ \E s \in Subjects : RevokeSubject(s)
    \/ Tick

Spec == Init /\ [][Next]_vars

-----------------------------------------------------------------------------
(* Properties                                                              *)

\* A receipt that says whether the effect occurred is right, for good, as long
\* as the provider keeps its promises: after "failed" or "denied" the mutation
\* has not been and never will be applied, after "succeeded" it has been.
SettledIsTrue ==
    \A k \in Keys \ broken :
        /\ row[k].state = "succeeded" => provider[k] = "applied"
        /\ row[k].state \in {"failed", "denied"} =>
              /\ provider[k] \in {"unaware", "refused"}
              /\ provider[k] = "unaware" => worker[k] \notin {"admitted", "authorized"}

\* "No automatic dispatch on recovery": an operation reaches the provider at
\* most once, through replays, read-backs, timeouts and process deaths.
ProviderCalledOnce == \A k \in Keys : sent[k] <= 1

\* A single-use lease admits one operation, for good.
LeaseBindsOneOperation ==
    \A j, k \in Keys : row[j].lease = row[k].lease /\ row[j].lease # NoLease => j = k

\* Contradicting terminal answers are never resolved in favour of either: once
\* both were given to the ledger the operation stays a recorded conflict.
ContradictionIsKept ==
    \A k \in Keys : seen[k] = Disposition => row[k].conflict /\ row[k].state = "indeterminate"

\* Once revoke_subject() has ended, also when it ended with an error, no
\* operation of the subject is admitted to the provider any more.
MayMutate(k) ==
    worker[k] \in IF k \in Checked THEN {"authorized", "sent"} ELSE {"admitted", "sent"}
RevocationHolds ==
    [][\A k \in Keys : Subject[k] \in fenced /\ MayMutate(k)' => MayMutate(k)]_vars

\* The read-back budget of an operation covers its whole life, crashes included.
ReadbackBudget == \A k \in Keys : asked[k] <= maximum_readbacks

=============================================================================
