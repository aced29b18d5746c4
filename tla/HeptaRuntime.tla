---------------------------- MODULE HeptaRuntime ----------------------------
(***************************************************************************)
(* lib/runtime/hepta_runtime.dart: the device tools of the edge runtime.   *)
(* ToolGateway admits and records, DeviceEffectScheduler runs; every       *)
(* handler is applyDeviceEffect, which hands a native device effect to the *)
(* scheduler and translates its outcome for the gateway.                   *)
(*                                                                         *)
(* Two waits are nested: the gateway waits for the handler until the       *)
(* request's deadline, the handler waits for the scheduler, which starts   *)
(* the effect's own timer only when the effect begins.                     *)
(*                                                                         *)
(* Submissions to the scheduler are identified by their idempotency key.   *)
(***************************************************************************)
EXTENDS ToolGateway, DeviceEffectScheduler, Integers

ASSUME RuntimeAssumption ==
    /\ Effects = Keys
    /\ \A c \in Calls : c.mutating      \* the six registered tools

VARIABLES
    timer,          \* executionTimeout while queued, then when it fires
    disposition,    \* how the device effect ended
    orphans         \* device operations a dead process had begun

runtimeVars == <<timer, disposition, orphans>>
allVars == <<vars, schedVars, runtimeVars>>

Disposition == {"none", "committed", "rejectedBeforeWrite", "indeterminate"}

\* Types; an effect that has begun has an armed timer.
RuntimeTypeOK ==
    /\ TypeOK /\ SchedTypeOK
    /\ timer \in [Keys -> Nat] /\ \A k \in physical : timer[k] > 0
    /\ disposition \in [Keys -> Disposition]
    /\ orphans \subseteq Keys

RuntimeInit ==
    /\ Init /\ SchedInit
    /\ timer = [k \in Keys |-> 0]
    /\ disposition = [k \in Keys |-> "none"]
    /\ orphans = {}

-----------------------------------------------------------------------------
\* The gateway's own steps, which the scheduler does not see.
GatewayStep ==
    /\ \/ \E c \in Calls : Execute(c)
       \/ \E k \in Keys, o \in AppendOutcome :
             RecordDecision(k, o) \/ RecordPrepared(k, o) \/ RecordTerminal(k, o)
       \/ \E k \in Keys : HandlerTimeout(k)
       \/ \E p \in Reconcilers, k \in Keys : ReconcileBegin(p, k)
       \/ \E p \in Reconcilers, o \in AppendOutcome : ReconcileRecord(p, o)
       \/ Recover \/ Tick
    /\ UNCHANGED <<schedVars, runtimeVars>>

\* The registered reconcilers have no readback and are never authoritative.
UnavailableReconciliation(p) ==
    /\ recon[p].pc = "query"
    /\ recon' = [recon EXCEPT ![p] = [pc |-> "record", key |-> @.key, live |-> @.live,
                                      receipt |-> ReconciledReceipt(receipts[@.key], FALSE)]]
    /\ UNCHANGED <<now, consumed, up, receipts, live, pc, cur, out, journal, work,
                   faults, crashes, history, schedVars, runtimeVars>>

\* request.deadline.difference(clock.now())
Remaining(k) == cur[k].deadline - now

\* The handler is invoked: invalid arguments throw at once, otherwise the
\* effect is scheduled with the remaining time as its execution timeout.
InvokeHandler(k) ==
    /\ StartHandler(k)
    /\ \/ UNCHANGED <<schedVars, timer>>
       \/ /\ pc'[k] = "handling"
          /\ Schedule(k)
          /\ timer' = [timer EXCEPT ![k] = IF draining THEN Remaining(k)
                                           ELSE now + Remaining(k)]
    /\ UNCHANGED <<disposition, orphans>>

\* A queued effect begins and its timer is armed, or all queued are rejected.
SchedulerTurn ==
    /\ Drain
    /\ timer' = IF current' = NoEffect THEN timer
                ELSE [timer EXCEPT ![current'] = now + @]
    /\ UNCHANGED <<vars, disposition, orphans>>

\* The native operation writes to the glasses.
DeviceWrites(k) ==
    /\ k \in physical \cup orphans
    /\ PerformEffect(k)
    /\ UNCHANGED <<schedVars, runtimeVars>>

\* The native effect adapter ends: committed after the write was acknowledged,
\* rejectedBeforeWrite when nothing was written, indeterminate or an exception
\* whenever it cannot tell.
DeviceEnds(k, d) ==
    /\ d = "committed" => work[k] = "applied"
    /\ d = "rejectedBeforeWrite" => work[k] = "running"
    /\ \/ EffectEnds(k, IF d = "none" THEN "error" ELSE "ok")
       \/ d = "none" /\ EffectThrowsTimeout(k)
       \/ d # "none" /\ DetachedEnds(k)
    /\ disposition' = [disposition EXCEPT ![k] = d]
    /\ UNCHANGED <<vars, timer, orphans>>

TimerFires(k) ==
    /\ now >= timer[k]
    /\ ExecutionTimeout(k)
    /\ UNCHANGED <<vars, runtimeVars>>

\* Faulty variant: an effect that outlived its timer counts as not written.
TimeoutMeansRejected(k) ==
    LET c == cur[k] IN
    CASE answer[k] = "ok" /\ disposition[k] = "committed" -> Succeeded(c)
      [] answer[k] = "ok" /\ disposition[k] = "rejectedBeforeWrite" -> BeforeWrite(c)
      [] answer[k] = "ok" /\ disposition[k] = "indeterminate" -> Indeterminate(c)
      [] answer[k] = "timeout" -> BeforeWrite(c)
      [] OTHER -> Failed(c)

\* applyDeviceEffect: what the handler returns or throws, as the receipt that
\* _executeOnce makes of it.  Refusals of the scheduler are not told apart from
\* failures of the effect.
HandlerReceipt(k) ==
    LET c == cur[k] IN
    CASE answer[k] = "ok" /\ disposition[k] = "committed" -> Succeeded(c)
      [] answer[k] = "ok" /\ disposition[k] = "rejectedBeforeWrite" -> BeforeWrite(c)
      [] answer[k] = "ok" /\ disposition[k] = "indeterminate" -> Indeterminate(c)
      [] answer[k] = "timeout" -> Indeterminate(c)
      [] OTHER -> Failed(c)

HandlerCompletes(k) ==
    /\ pc[k] = "handling"
    /\ answer[k] # "pending"
    /\ GoRecord(k, HandlerReceipt(k))
    /\ work' = IF Denies(HandlerReceipt(k)) THEN [work EXCEPT ![k] = "over"] ELSE work
    /\ UNCHANGED <<now, consumed, up, receipts, live, cur, recon, journal, faults, crashes,
                   history, schedVars, runtimeVars>>

\* The process dies: a new one starts with an empty scheduler and a closed
\* circuit; operations already handed to the radio are not taken back.
ProcessDeath ==
    /\ Crash
    /\ queue' = <<>> /\ draining' = FALSE
    /\ current' = NoEffect /\ circuit' = NoEffect
    /\ answer' = [k \in Keys |-> "none"]
    /\ physical' = {}
    /\ accepted' = <<>> /\ started' = <<>>
    /\ timer' = [k \in Keys |-> 0]
    /\ disposition' = [k \in Keys |-> "none"]
    /\ orphans' = orphans \cup physical
    /\ UNCHANGED <<closed, closing>>

RuntimeNext ==
    \/ GatewayStep
    \/ \E p \in Reconcilers : UnavailableReconciliation(p)
    \/ \E k \in Keys : InvokeHandler(k) \/ DeviceWrites(k) \/ TimerFires(k) \/ HandlerCompletes(k)
    \/ \E k \in Keys, d \in Disposition : DeviceEnds(k, d)
    \/ SchedulerTurn
    \/ ProcessDeath

RuntimeSpec == RuntimeInit /\ [][RuntimeNext]_allVars

-----------------------------------------------------------------------------
\* The runtime is a tool gateway: applyDeviceEffect over the scheduler keeps the
\* contract the gateway has with its handlers (a result only after the effect,
\* RejectedToolEffect only if nothing was and will be written).
ImplementsToolGateway == Spec

\* No caller holds a settled answer about an effect that is yet to touch the
\* glasses: what waits in the scheduler or runs has no receipt or one that says
\* it may have occurred, and so has, for good, what a dead process left running.
PendingEffectIsUncertain ==
    up => /\ \A k \in Keys :
                 receipts[k] # NoReceipt /\ (k \in physical \/ Contains(queue, k))
                     => ~Denies(receipts[k]) /\ receipts[k].status # "succeeded"
          /\ \A k \in orphans : receipts[k] # NoReceipt /\ ~Denies(receipts[k])

=============================================================================
