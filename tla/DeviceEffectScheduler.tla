----------------------- MODULE DeviceEffectScheduler -----------------------
(***************************************************************************)
(* lib/runtime/device_effect_scheduler.dart: one physical device effect at *)
(* a time, in submission order, over a bounded queue.  An effect that      *)
(* outlives its execution timeout is detached and opens the circuit for    *)
(* the rest of the process.                                                *)
(*                                                                         *)
(* An effect is submitted at most once: Effects are the submissions.       *)
(***************************************************************************)
EXTENDS Naturals, SequencesExt

CONSTANTS
    Effects,      \* submissions to schedule()
    NoEffect,     \* no effect runs, the circuit is closed
    maxPending    \* capacity, counting the effect that runs

ASSUME SchedulerAssumption == maxPending \in Nat \ {0} /\ NoEffect \notin Effects

VARIABLES
    queue,        \* _queue
    draining,     \* _draining
    current,      \* the effect item.run() awaits
    circuit,      \* _indeterminateOperation
    closed,       \* _closed
    closing,      \* close(): "no", "waiting" for idle, "done" or "stuck"
    answer,       \* what the completer of each submission holds
    physical,     \* effects whose device operation has begun and not ended
    accepted, started   \* history: admission order and start order

schedVars == <<queue, draining, current, circuit, closed, closing, answer, physical,
               accepted, started>>

Answer == {"none", "pending", "ok", "error", "timeout", "circuit_open", "closed", "full"}

\* Types of the scheduler's state; _queue never holds maxPending effects.
SchedTypeOK ==
    /\ queue \in Seq(Effects) /\ Len(queue) < maxPending
    /\ draining \in BOOLEAN
    /\ current \in Effects \cup {NoEffect}
    /\ circuit \in Effects \cup {NoEffect}
    /\ closed \in BOOLEAN
    /\ closing \in {"no", "waiting", "done", "stuck"}
    /\ answer \in [Effects -> Answer]
    /\ physical \subseteq Effects
    /\ accepted \in Seq(Effects) /\ started \in Seq(Effects)

SchedInit ==
    /\ queue = <<>>
    /\ draining = FALSE
    /\ current = NoEffect
    /\ circuit = NoEffect
    /\ closed = FALSE
    /\ closing = "no"
    /\ answer = [e \in Effects |-> "none"]
    /\ physical = {}
    /\ accepted = <<>> /\ started = <<>>

\* get pending
pending == Len(queue) + IF draining THEN 1 ELSE 0

-----------------------------------------------------------------------------
\* item.run(): the device operation begins.
Begin(e) ==
    /\ current' = e
    /\ physical' = physical \cup {e}
    /\ started' = Append(started, e)

Refusal ==
    IF closed THEN "closed"
    ELSE IF circuit # NoEffect THEN "circuit_open"
    ELSE IF pending >= maxPending THEN "full"
    ELSE "pending"

\* schedule(): refused, or queued; an idle scheduler starts it at once.
Schedule(e) ==
    /\ answer[e] = "none"
    /\ answer' = [answer EXCEPT ![e] = Refusal]
    /\ IF Refusal # "pending"
       THEN UNCHANGED <<queue, draining, current, physical, accepted, started>>
       ELSE /\ accepted' = Append(accepted, e)
            /\ draining' = TRUE
            /\ IF draining
               THEN queue' = Append(queue, e) /\ UNCHANGED <<current, physical, started>>
               ELSE Begin(e) /\ UNCHANGED queue
    /\ UNCHANGED <<circuit, closed, closing>>

\* The operation in progress ends and its caller gets the result or the error.
EffectEnds(e, result) ==
    /\ current = e /\ e \in physical
    /\ answer' = [answer EXCEPT ![e] = result]
    /\ current' = NoEffect
    /\ physical' = physical \ {e}
    /\ UNCHANGED <<queue, draining, circuit, closed, closing, accepted, started>>

\* An operation that itself ends with a TimeoutException is taken for one that
\* outlived its timeout: the circuit opens although nothing is detached.
EffectThrowsTimeout(e) ==
    /\ current = e /\ e \in physical
    /\ answer' = [answer EXCEPT ![e] = "timeout"]
    /\ current' = NoEffect
    /\ circuit' = IF circuit = NoEffect THEN e ELSE circuit
    /\ physical' = physical \ {e}
    /\ UNCHANGED <<queue, draining, closed, closing, accepted, started>>

\* Faulty variant: a timeout releases the queue like any other error.
TimeoutKeepsCircuit(e) ==
    /\ current = e
    /\ current' = NoEffect
    /\ answer' = [answer EXCEPT ![e] = "timeout"]
    /\ UNCHANGED <<queue, draining, circuit, closed, closing, physical, accepted, started>>

\* Faulty variant: the caller of a detached effect is told that the circuit is open.
TimeoutReportedAsRefusal(e) ==
    /\ current = e
    /\ current' = NoEffect
    /\ circuit' = IF circuit = NoEffect THEN e ELSE circuit
    /\ answer' = [answer EXCEPT ![e] = "circuit_open"]
    /\ UNCHANGED <<queue, draining, closed, closing, physical, accepted, started>>

\* .timeout(timeout): the operation is detached and the circuit opens.
ExecutionTimeout(e) ==
    /\ current = e
    /\ current' = NoEffect
    /\ circuit' = IF circuit = NoEffect THEN e ELSE circuit
    /\ answer' = [answer EXCEPT ![e] = "timeout"]
    /\ UNCHANGED <<queue, draining, closed, closing, physical, accepted, started>>

\* A detached operation ends on its own; nobody is told.
DetachedEnds(e) ==
    /\ e \in physical /\ current # e
    /\ physical' = physical \ {e}
    /\ UNCHANGED <<queue, draining, current, circuit, closed, closing, answer, accepted, started>>

\* Faulty variant: queued effects are dropped when the circuit opens.
DrainDroppingQueue ==
    /\ draining /\ current = NoEffect
    /\ IF queue # <<>> /\ circuit = NoEffect
       THEN Begin(Head(queue)) /\ queue' = Tail(queue) /\ UNCHANGED draining
       ELSE draining' = FALSE /\ queue' = <<>> /\ UNCHANGED <<current, physical, started>>
    /\ UNCHANGED <<circuit, closed, closing, answer, accepted>>

\* One turn of the _drain loop, its finally block included.
Drain ==
    /\ draining /\ current = NoEffect
    /\ IF queue # <<>> /\ circuit = NoEffect
       THEN Begin(Head(queue)) /\ queue' = Tail(queue) /\ UNCHANGED <<draining, answer>>
       ELSE /\ draining' = FALSE
            /\ queue' = <<>>
            /\ answer' = [e \in Effects |-> IF Contains(queue, e) THEN "circuit_open" ELSE answer[e]]
            /\ UNCHANGED <<current, physical, started>>
    /\ UNCHANGED <<circuit, closed, closing, accepted>>

\* close(): no new work, then wait for idle with a timeout.
Close ==
    /\ closing = "no"
    /\ closed' = TRUE
    /\ closing' = IF draining THEN "waiting" ELSE "done"
    /\ UNCHANGED <<queue, draining, current, circuit, answer, physical, accepted, started>>

CloseReturns ==
    /\ closing = "waiting"
    /\ \/ ~draining /\ closing' = "done"
       \/ draining /\ closing' = "stuck"
    /\ UNCHANGED <<queue, draining, current, circuit, closed, answer, physical, accepted, started>>

-----------------------------------------------------------------------------
SchedNext ==
    \/ \E e \in Effects :
          \/ Schedule(e)
          \/ \E result \in {"ok", "error"} : EffectEnds(e, result)
          \/ EffectThrowsTimeout(e)
          \/ ExecutionTimeout(e)
          \/ DetachedEnds(e)
    \/ Drain
    \/ Close
    \/ CloseReturns

\* The event loop runs due timers and ready continuations.  Device operations
\* are not assumed to end.
SchedFairness ==
    /\ WF_schedVars(Drain)
    /\ WF_schedVars(CloseReturns)
    /\ \A e \in Effects : WF_schedVars(ExecutionTimeout(e))

SchedSpec == SchedInit /\ [][SchedNext]_schedVars /\ SchedFairness

-----------------------------------------------------------------------------
\* Physical effects never overlap, a detached one included.
NoOverlap == \A d, e \in physical : d = e

\* Effects begin in the order in which they were admitted.
SubmissionOrder == IsPrefix(started, accepted)

\* Never more than maxPending admitted effects await their turn or their end.
WithinCapacity == Cardinality({e \in Effects : answer[e] = "pending"}) <= maxPending

\* Who was refused or rejected was never started; who got an outcome was.
HonestAnswer ==
    \A e \in Effects :
        /\ answer[e] \in {"circuit_open", "closed", "full"} => ~Contains(started, e)
        /\ answer[e] \in {"ok", "error", "timeout"} => Contains(started, e)

\* Every admitted caller is answered even if device operations hang for ever.
EveryoneAnswered == \A e \in Effects : answer[e] = "pending" ~> answer[e] # "pending"

\* close() reports idle only when nothing admitted is left unanswered.
CloseMeansIdle ==
    closing = "done" => \A e \in Effects : answer[e] # "pending"

=============================================================================
