---------------------------- MODULE ToolGateway ----------------------------
(***************************************************************************)
(* lib/runtime/tool_gateway.dart: the admission, idempotency and recovery  *)
(* boundary of every mutation of the edge runtime.                         *)
(*                                                                         *)
(* Each `await` of the Dart code is a point where other calls, the clock,  *)
(* a journal fault or the death of the process may come between, so each   *)
(* stretch of code between two awaits is one action.                       *)
(*                                                                         *)
(* Implementation state                                                    *)
(*   up        the process runs and recover() has completed                *)
(*   receipts  _receipts with _fingerprints and _envelopes                 *)
(*   live      the keys of _requests                                       *)
(*   pc, cur   _inFlight: where the operation of a key stands, its call    *)
(*   out       the receipt that operation is about to record               *)
(*   recon     concurrent reconcile() calls                                *)
(*   journal   the durable audit journal, split by idempotency key         *)
(*             (recover() never relates entries of different keys)         *)
(* Environment                                                             *)
(*   work      the tool handler of a key's mutation; it survives the       *)
(*             caller's timeout and, being a write already handed to the   *)
(*             radio or to a provider, the process                         *)
(*   faults, crashes   count the failures that have happened               *)
(* History                                                                 *)
(*   effects   physical effects performed under a key                      *)
(*   invoked   mutating handler invocations under a key                    *)
(*   spent     mutating handler invocations a lease has authorised         *)
(*   read      reading handler invocations a lease has authorised          *)
(*   denied    keys whose caller was told that no effect occurred          *)
(*   confirmed keys whose caller was told that the mutation succeeded      *)
(***************************************************************************)
EXTENDS PolicyEngine, Sequences, FiniteSetsExt

CONSTANTS
    Keys,            \* idempotency keys
    Fingerprints,    \* request fingerprints
    Reconcilers,     \* concurrent callers of reconcile()
    NoCall, NoReceipt,
    MaxTime,         \* bound on the clock
    MaxFaults,       \* bound on failing journal appends
    MaxCrashes,      \* bound on process deaths
    MaxEntries       \* bound on the entries of a key before another reconcile

VARIABLES up, receipts, live, pc, cur, out, recon, journal,
          work, faults, crashes, effects, invoked, spent, read, denied, confirmed

memory  == <<consumed, up, receipts, live, pc, cur, out, recon>>
history == <<effects, invoked, spent, read, denied, confirmed>>
vars == <<now, memory, journal, work, faults, crashes, history>>

Call == [key : Keys, fp : Fingerprints, mutating : BOOLEAN, deadline : Nat,
         registered : BOOLEAN, ctx : Context, lease : Lease \cup {NoLease}]

Status == {"rejected", "succeeded", "failed", "indeterminate"}

Receipt == [fp : Fingerprints, mutating : BOOLEAN, status : Status,
            effectMay : BOOLEAN]

Entry == [type : {"decision", "prepared"}, call : Calls]
         \cup [type : {"terminal"}, receipt : Receipt]

\* An idempotency key is derived from the action it names, and the registered
\* ToolSpec of an action fixes whether it mutates.
ASSUME CallAssumption ==
    /\ Calls \subseteq Call
    /\ NoCall \notin Calls
    /\ NoLease \notin Lease
    /\ NoReceipt \notin Receipt
    /\ \A c, d \in Calls : c.key = d.key => c.mutating = d.mutating

ASSUME BoundAssumption ==
    MaxTime \in Nat /\ MaxFaults \in Nat /\ MaxCrashes \in Nat /\ MaxEntries \in Nat

IdleReconcile == [pc |-> "idle", key |-> NoCall, live |-> FALSE, receipt |-> NoReceipt]

Reconcile ==
    [pc : {"query"}, key : Keys, live : BOOLEAN, receipt : {NoReceipt}]
    \cup [pc : {"record"}, key : Keys, live : BOOLEAN, receipt : Receipt]
    \cup {IdleReconcile}

TypeOK ==
    /\ now \in Nat
    /\ consumed \subseteq LeaseIds
    /\ up \in BOOLEAN
    /\ receipts \in [Keys -> Receipt \cup {NoReceipt}]
    /\ live \subseteq Keys
    /\ pc \in [Keys -> {"idle", "denying", "allowing", "preparing", "starting",
                        "handling", "recording"}]
    /\ cur \in [Keys -> Calls \cup {NoCall}]
    /\ out \in [Keys -> Receipt \cup {NoReceipt}]
    /\ recon \in [Reconcilers -> Reconcile]
    /\ journal \in [Keys -> Seq(Entry)]
    /\ work \in [Keys -> {"none", "running", "applied", "over"}]
    /\ faults \in Nat /\ crashes \in Nat
    /\ effects \in [Keys -> Nat]
    /\ invoked \in [Keys -> Nat]
    /\ spent \in [LeaseIds -> Nat]
    /\ read \in [LeaseIds -> Nat]
    /\ denied \subseteq Keys /\ confirmed \subseteq Keys

-----------------------------------------------------------------------------
(* Receipts.  A succeeded receipt of a handler says nothing about          *)
(* effect_may_have_occurred, which is read as "it may".                    *)

ReceiptOf(c, status, effectMay) ==
    [fp |-> c.fp, mutating |-> c.mutating, status |-> status, effectMay |-> effectMay]

Rejected(c)      == ReceiptOf(c, "rejected", FALSE)
BeforeWrite(c)   == ReceiptOf(c, "failed", FALSE)
\* Faulty variant: any failure is reported as having had no effect.
FailedIsSafe(c)  == ReceiptOf(c, "failed", FALSE)
Failed(c)        == ReceiptOf(c, "failed", c.mutating)
Indeterminate(c) == ReceiptOf(c, "indeterminate", TRUE)
Succeeded(c)     == ReceiptOf(c, "succeeded", TRUE)

\* terminal_journal_write_failed, and a prepared entry without a terminal one
Uncertain(r) == ReceiptOf(r, "indeterminate", TRUE)

\* Faulty variant: every answer of a reconciler is taken for a confirmation.
AnyAnswerConfirms(prior, authoritative) == ReceiptOf(prior, "succeeded", FALSE)

\* The receipt of a reconciliation.
ReconciledReceipt(prior, authoritative) ==
    IF authoritative THEN ReceiptOf(prior, "succeeded", FALSE)
    ELSE ReceiptOf(prior, "indeterminate", TRUE)

Denies(r) == r.status # "succeeded" /\ ~r.effectMay

-----------------------------------------------------------------------------
(* The journal.  An append is acknowledged ("ok"), throws with nothing on  *)
(* disk ("lost"), or throws after the record was flushed because the       *)
(* checkpoint could not be replaced ("late").                              *)

AppendEntry(k, e, o) ==
    /\ o = "ok" \/ faults < MaxFaults
    /\ faults' = IF o = "ok" THEN faults ELSE faults + 1
    /\ journal' = IF o = "lost" THEN journal ELSE [journal EXCEPT ![k] = Append(@, e)]

PreparedAt(k) == {i \in DOMAIN journal[k] : journal[k][i].type = "prepared"}
TerminalAt(k) == {i \in DOMAIN journal[k] : journal[k][i].type = "terminal"}

\* Faulty variant: recovery looks at terminal entries only.
RecoveredTerminalsOnly(k) ==
    IF TerminalAt(k) # {} THEN journal[k][Max(TerminalAt(k))].receipt ELSE NoReceipt

\* _cacheRecovered: the last terminal entry, else an uncertain preparation.
RecoveredReceipt(k) ==
    IF TerminalAt(k) # {} THEN journal[k][Max(TerminalAt(k))].receipt
    ELSE IF PreparedAt(k) # {} THEN Indeterminate(journal[k][Max(PreparedAt(k))].call)
    ELSE NoReceipt

\* Faulty variant: recovery forgets which leases were spent.
RestoreNoLeases == {}

\* The lease identifiers that recover() passes to restoreConsumed.
JournaledLeases ==
    {l \in LeaseIds : \E k \in Keys : \E i \in PreparedAt(k) :
        journal[k][i].call.lease # NoLease /\ journal[k][i].call.lease.id = l}

-----------------------------------------------------------------------------
Init ==
    /\ now = 0
    /\ consumed = {}
    /\ up = TRUE
    /\ receipts = [k \in Keys |-> NoReceipt]
    /\ live = {}
    /\ pc = [k \in Keys |-> "idle"]
    /\ cur = [k \in Keys |-> NoCall]
    /\ out = [k \in Keys |-> NoReceipt]
    /\ recon = [p \in Reconcilers |-> IdleReconcile]
    /\ journal = [k \in Keys |-> <<>>]
    /\ work = [k \in Keys |-> "none"]
    /\ faults = 0 /\ crashes = 0
    /\ effects = [k \in Keys |-> 0]
    /\ invoked = [k \in Keys |-> 0]
    /\ spent = [l \in LeaseIds |-> 0]
    /\ read = [l \in LeaseIds |-> 0]
    /\ denied = {} /\ confirmed = {}

-----------------------------------------------------------------------------
(* execute().  A key with a receipt replays it or refuses another          *)
(* fingerprint, a key in flight is joined or refused: neither changes any  *)
(* state, so only the first call of a free key is an action.               *)

\* The key's operation goes on to record receipt r.
GoRecord(k, r) ==
    /\ pc' = [pc EXCEPT ![k] = "recording"]
    /\ out' = [out EXCEPT ![k] = r]

\* The future of key k completes; _inFlight forgets it.
Finish(k) ==
    /\ pc' = [pc EXCEPT ![k] = "idle"]
    /\ cur' = [cur EXCEPT ![k] = NoCall]
    /\ out' = [out EXCEPT ![k] = NoReceipt]

\* _executeOnce up to its first await: deadline, registration, policy, consume.
Execute(c) ==
    LET k == c.key
        admitted == now < c.deadline /\ c.registered IN
    /\ up
    /\ receipts[k] = NoReceipt
    /\ pc[k] = "idle"
    /\ cur' = [cur EXCEPT ![k] = c]
    /\ \/ /\ ~admitted
          /\ GoRecord(k, Rejected(c))
          /\ UNCHANGED consumed
       \/ /\ admitted /\ Allowed(c)
          /\ Consume(c)
          /\ pc' = [pc EXCEPT ![k] = "allowing"]
          /\ UNCHANGED out
       \/ /\ admitted /\ ~Allowed(c)
          /\ pc' = [pc EXCEPT ![k] = "denying"]
          /\ UNCHANGED <<consumed, out>>
    /\ UNCHANGED <<now, up, receipts, live, recon, journal, work, faults, crashes, history>>

\* await append('tool.decision'); a throw leaves no receipt.
RecordDecision(k, o) ==
    /\ pc[k] \in {"denying", "allowing"}
    /\ AppendEntry(k, [type |-> "decision", call |-> cur[k]], o)
    /\ \/ o # "ok" /\ Finish(k)
       \/ o = "ok" /\ pc[k] = "denying" /\ GoRecord(k, Rejected(cur[k])) /\ UNCHANGED cur
       \/ /\ o = "ok" /\ pc[k] = "allowing"
          /\ pc' = [pc EXCEPT ![k] = IF cur[k].mutating THEN "preparing" ELSE "starting"]
          /\ UNCHANGED <<cur, out>>
    /\ UNCHANGED <<now, consumed, up, receipts, live, recon, work, crashes, history>>

\* Faulty variant: a failing preparation append is ignored.
PreparedBestEffort(k, o) ==
    /\ pc[k] = "preparing"
    /\ AppendEntry(k, [type |-> "prepared", call |-> cur[k]], o)
    /\ pc' = [pc EXCEPT ![k] = "starting"]
    /\ UNCHANGED <<now, consumed, up, receipts, live, cur, out, recon, work, crashes, history>>

\* await append('tool.prepared'), mutating requests only.
RecordPrepared(k, o) ==
    /\ pc[k] = "preparing"
    /\ AppendEntry(k, [type |-> "prepared", call |-> cur[k]], o)
    /\ \/ o # "ok" /\ Finish(k)
       \/ o = "ok" /\ pc' = [pc EXCEPT ![k] = "starting"] /\ UNCHANGED <<cur, out>>
    /\ UNCHANGED <<now, consumed, up, receipts, live, recon, work, crashes, history>>

\* The deadline is read again and the handler is invoked.
StartHandler(k) ==
    LET c == cur[k] IN
    /\ pc[k] = "starting"
    /\ \/ /\ now >= c.deadline
          /\ GoRecord(k, Indeterminate(c))
          /\ UNCHANGED <<work, invoked, spent, read>>
       \/ /\ now < c.deadline
          /\ pc' = [pc EXCEPT ![k] = "handling"]
          /\ work' = IF c.mutating THEN [work EXCEPT ![k] = "running"] ELSE work
          /\ invoked' = IF c.mutating THEN [invoked EXCEPT ![k] = @ + 1] ELSE invoked
          /\ spent' = [l \in LeaseIds |->
                         IF c.mutating /\ l \in SingleUseLeases(c) THEN spent[l] + 1 ELSE spent[l]]
          /\ read' = [l \in LeaseIds |->
                         IF ~c.mutating /\ l \in SingleUseLeases(c) THEN read[l] + 1 ELSE read[l]]
          /\ UNCHANGED out
    /\ UNCHANGED <<now, consumed, up, receipts, live, cur, recon, journal,
                   faults, crashes, effects, denied, confirmed>>

\* The handler reaches the physical write, its caller waiting or long gone.
PerformEffect(k) ==
    /\ work[k] = "running"
    /\ work' = [work EXCEPT ![k] = "applied"]
    /\ effects' = [effects EXCEPT ![k] = @ + 1]
    /\ UNCHANGED <<now, memory, journal, faults, crashes, invoked, spent, read, denied, confirmed>>

\* The handler answers: it returns a result only once the effect is applied,
\* throws RejectedToolEffect only before the write, and anything else at will.
HandlerReturns(k) ==
    LET c == cur[k] IN
    /\ pc[k] = "handling"
    /\ \/ /\ c.mutating => work[k] = "applied"
          /\ GoRecord(k, Succeeded(c))
          /\ UNCHANGED work
       \/ /\ c.mutating => work[k] = "running"
          /\ GoRecord(k, BeforeWrite(c))
          /\ work' = IF c.mutating THEN [work EXCEPT ![k] = "over"] ELSE work
       \/ GoRecord(k, Indeterminate(c)) /\ UNCHANGED work
       \/ GoRecord(k, Failed(c)) /\ UNCHANGED work
    /\ UNCHANGED <<now, consumed, up, receipts, live, cur, recon, journal,
                   faults, crashes, history>>

\* Faulty variant: the handler is awaited without a timeout.
NoHandlerTimeout(k) == FALSE /\ k \in Keys /\ UNCHANGED vars

\* .timeout(remaining): the caller stops waiting, the handler does not stop.
HandlerTimeout(k) ==
    /\ pc[k] = "handling"
    /\ now >= cur[k].deadline
    /\ GoRecord(k, Indeterminate(cur[k]))
    /\ UNCHANGED <<now, consumed, up, receipts, live, cur, recon, journal, work,
                   faults, crashes, history>>

\* What the caller of key k learns from the receipt r it is handed.
Tell(k, r) ==
    /\ denied' = IF Denies(r) THEN denied \cup {k} ELSE denied
    /\ confirmed' = IF r.mutating /\ r.status = "succeeded"
                    THEN confirmed \cup {k} ELSE confirmed

\* _cacheLive
CacheLive(k, r) ==
    /\ receipts' = [receipts EXCEPT ![k] = r]
    /\ live' = live \cup {k}
    /\ Tell(k, r)

\* _recordTerminal of an execution.  A read whose terminal append throws gets
\* no receipt; a successful one is first recorded as failed, because that
\* throw is caught by the handler's own try block.
RecordTerminal(k, o) ==
    LET c == cur[k]
        r == out[k] IN
    /\ pc[k] = "recording"
    /\ AppendEntry(k, [type |-> "terminal", receipt |-> r], o)
    /\ \/ o = "ok" /\ CacheLive(k, r) /\ Finish(k)
       \/ o # "ok" /\ c.mutating /\ CacheLive(k, Uncertain(r)) /\ Finish(k)
       \/ /\ o # "ok" /\ ~c.mutating /\ r.status = "succeeded"
          /\ GoRecord(k, Failed(c))
          /\ UNCHANGED <<receipts, live, cur, denied, confirmed>>
       \/ /\ o # "ok" /\ ~c.mutating /\ r.status # "succeeded"
          /\ Finish(k)
          /\ UNCHANGED <<receipts, live, denied, confirmed>>
    /\ UNCHANGED <<now, consumed, up, recon, work, crashes, effects, invoked, spent, read>>

-----------------------------------------------------------------------------
(* reconcile().  Settled receipts are replayed and change nothing.         *)

NeedsReconcile(k) == receipts[k] # NoReceipt /\ receipts[k].status = "indeterminate"

ReconcileBegin(p, k) ==
    /\ up
    /\ recon[p].pc = "idle"
    /\ NeedsReconcile(k)
    /\ Len(journal[k]) < MaxEntries
    /\ recon' = [recon EXCEPT ![p] = [pc |-> "query", key |-> k, live |-> k \in live,
                                      receipt |-> NoReceipt]]
    /\ UNCHANGED <<now, consumed, up, receipts, live, pc, cur, out, journal, work,
                   faults, crashes, history>>

\* The reconciler answers.  It claims to be authoritative only about an effect
\* that has been performed; it may also throw.
ReconcileAnswer(p) ==
    LET k == recon[p].key
        answer(authoritative) ==
            [pc |-> "record", key |-> k, live |-> recon[p].live,
             receipt |-> ReconciledReceipt(receipts[k], authoritative)] IN
    /\ recon[p].pc = "query"
    /\ \/ /\ receipts[k].mutating => effects[k] > 0
          /\ recon' = [recon EXCEPT ![p] = answer(TRUE)]
       \/ recon' = [recon EXCEPT ![p] = answer(FALSE)]
       \/ recon' = [recon EXCEPT ![p] = IdleReconcile]
    /\ UNCHANGED <<now, consumed, up, receipts, live, pc, cur, out, journal, work,
                   faults, crashes, history>>

\* append('tool.reconciled'), then the cache.  Only the path that still holds
\* the live request turns a failing append into an uncertain receipt.
ReconcileRecord(p, o) ==
    LET k == recon[p].key
        r == recon[p].receipt
        hides == recon[p].live /\ r.mutating IN
    /\ recon[p].pc = "record"
    /\ AppendEntry(k, [type |-> "terminal", receipt |-> r], o)
    /\ recon' = [recon EXCEPT ![p] = IdleReconcile]
    /\ \/ /\ o = "ok"
          /\ receipts' = [receipts EXCEPT ![k] = r]
          /\ Tell(k, r)
       \/ /\ o # "ok" /\ hides
          /\ receipts' = [receipts EXCEPT ![k] = Uncertain(r)]
          /\ Tell(k, Uncertain(r))
       \/ o # "ok" /\ ~hides /\ UNCHANGED <<receipts, denied, confirmed>>
    /\ UNCHANGED <<now, consumed, up, live, pc, cur, out, work, crashes,
                   effects, invoked, spent, read>>

-----------------------------------------------------------------------------
(* Process death and recover().                                            *)

Crash ==
    /\ up
    /\ crashes < MaxCrashes
    /\ crashes' = crashes + 1
    /\ up' = FALSE
    /\ consumed' = {}
    /\ receipts' = [k \in Keys |-> NoReceipt]
    /\ live' = {}
    /\ pc' = [k \in Keys |-> "idle"]
    /\ cur' = [k \in Keys |-> NoCall]
    /\ out' = [k \in Keys |-> NoReceipt]
    /\ recon' = [p \in Reconcilers |-> IdleReconcile]
    /\ UNCHANGED <<now, journal, work, faults, history>>

Recover ==
    /\ ~up
    /\ up' = TRUE
    /\ receipts' = [k \in Keys |-> RecoveredReceipt(k)]
    /\ consumed' = consumed \cup JournaledLeases
    /\ UNCHANGED <<now, live, pc, cur, out, recon, journal, work, faults, crashes, history>>

Tick ==
    /\ now < MaxTime
    /\ now' = now + 1
    /\ UNCHANGED <<memory, journal, work, faults, crashes, history>>

-----------------------------------------------------------------------------
AppendOutcome == {"ok", "lost", "late"}

Next ==
    \/ \E c \in Calls : Execute(c)
    \/ \E k \in Keys, o \in AppendOutcome :
          RecordDecision(k, o) \/ RecordPrepared(k, o) \/ RecordTerminal(k, o)
    \/ \E k \in Keys :
          StartHandler(k) \/ PerformEffect(k) \/ HandlerReturns(k) \/ HandlerTimeout(k)
    \/ \E p \in Reconcilers, k \in Keys : ReconcileBegin(p, k)
    \/ \E p \in Reconcilers : ReconcileAnswer(p)
    \/ \E p \in Reconcilers, o \in AppendOutcome : ReconcileRecord(p, o)
    \/ Crash \/ Recover \/ Tick

Spec == Init /\ [][Next]_vars

(***************************************************************************)
(* Appends complete (each is bounded by its file lock and record size) and *)
(* the event loop runs ready continuations and due timers.  Nothing is     *)
(* assumed of handlers, reconcilers or callers.                            *)
(***************************************************************************)
Fairness ==
    /\ WF_vars(Tick)
    /\ WF_vars(Recover)
    /\ \A k \in Keys :
          /\ WF_vars(\E o \in AppendOutcome : RecordDecision(k, o))
          /\ WF_vars(\E o \in AppendOutcome : RecordPrepared(k, o))
          /\ WF_vars(\E o \in AppendOutcome : RecordTerminal(k, o))
          /\ WF_vars(StartHandler(k))
          /\ WF_vars(HandlerTimeout(k))

FairSpec == Spec /\ Fairness

-----------------------------------------------------------------------------
(* Properties                                                              *)

\* "journaled before effect": a physical effect under a key is preceded by a
\* durable tool.prepared entry, whatever append faults and crashes happened.
JournalBeforeEffect == \A k \in Keys : effects[k] > 0 => PreparedAt(k) # {}

\* Idempotency: through retries, journal faults, timeouts with a handler still
\* running, process deaths and reconciliations, a key's mutation is handed to
\* its handler at most once.
AtMostOnce == \A k \in Keys : invoked[k] <= 1

\* A single-use lease authorises at most one mutating handler invocation, also
\* when two keys race for it and when the process restarts.
LeaseSpentOnce == \A l \in LeaseIds : spent[l] <= 1

\* Who was told, or would be told by a replay, that no effect occurred is right
\* for good: no effect was performed under the key and no handler still may.
NoFalseDenial ==
    \A k \in Keys :
        k \in denied \/ (receipts[k] # NoReceipt /\ Denies(receipts[k]))
            => effects[k] = 0 /\ work[k] # "running"

\* Who was told that a mutation succeeded can rely on it: the effect was
\* performed, and the running gateway still holds a receipt for the key that
\* does not contradict it, so the key is never executed again.
SuccessIsRemembered ==
    \A k \in confirmed :
        /\ effects[k] > 0
        /\ up => receipts[k] # NoReceipt /\ ~Denies(receipts[k])

\* A running gateway never drops a receipt or hands it to another request, and
\* never revises one that says the mutation was rejected or failed.  (A reconcile
\* that found a receipt indeterminate may still overwrite the success that a
\* concurrent reconcile recorded meanwhile.)
ReceiptStable ==
    [][\A k \in Keys :
         receipts[k] # NoReceipt /\ up' /\ receipts'[k] # receipts[k] =>
            /\ receipts'[k] # NoReceipt
            /\ receipts'[k].fp = receipts[k].fp
            /\ receipts[k].status \in {"indeterminate", "succeeded"}]_vars

\* Every accepted execution ends, also when its handler never answers.
ExecutionEnds == \A k \in Keys : pc[k] # "idle" ~> pc[k] = "idle"

\* Recovery "restores consumed leases": a single-use lease never authorises two
\* handler invocations, of whatever kind.
AnyLeaseSpentOnce == \A l \in LeaseIds : spent[l] + read[l] <= 1

=============================================================================
