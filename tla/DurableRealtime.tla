-------------------------- MODULE DurableRealtime --------------------------
(***************************************************************************)
(* services/control_plane/durable_realtime.py with realtime_recovery.py    *)
(* and bounded_calls.py: realtime sessions of an external provider, each   *)
(* opened with a one-time ticket, and the revocation of the remote         *)
(* sessions that nobody uses.                                              *)
(*                                                                         *)
(* Processes share the SQLite store; every transaction is one step and no  *)
(* call of the provider happens inside one.  A caller gives up waiting at  *)
(* its deadline, its worker thread does not.  A session is activated at    *)
(* most once, so its attempt needs no identifier; its subject is part of   *)
(* the session.  The clock may be unreadable at any moment.                *)
(*                                                                         *)
(* Store         tickets, session, job, lookupJob, lookupsUsed,            *)
(*               revokesUsed                                               *)
(* Threads       activation (caller and worker), reconciler, drainer,      *)
(*               revoker (and whether its revoke() returned)               *)
(* Environment   expired (tickets), opened, closing, closed, lies          *)
(* History       activations, lookupsMade, revokesMade: provider calls     *)
(*               deceived: sessions the provider answered falsely about    *)
(***************************************************************************)
EXTENDS Naturals, FiniteSets

CONSTANTS
    Tickets, Sessions, NoSession,
    Remotes, NoRemote,      \* provider_session_id
    maximum_records,
    lookup_limit, revoke_limit,
    Reconcilers, Revokers, Drainers,  \* concurrent calls
    MaxInterrupts,          \* bound on interrupt()
    MaxLies                 \* bound on false answers of the provider

ASSUME RealtimeAssumption ==
    /\ NoSession \notin Sessions /\ NoRemote \notin Remotes
    /\ maximum_records \in Nat \ {0}
    /\ lookup_limit \in Nat \ {0} /\ revoke_limit \in Nat \ {0}
    /\ MaxInterrupts \in Nat /\ MaxLies \in Nat

VARIABLES tickets, session, job, lookupJob, lookupsUsed, revokesUsed,
          activation, reconciler, revoker, drainer,
          expired, opened, closing, closed, lies,
          activations, lookupsMade, revokesMade, deceived

jobs == <<job, lookupJob>>
budgets == <<lookupsUsed, revokesUsed>>
threads == <<activation, reconciler, revoker, drainer>>
remote == <<opened, closing, closed, lies, deceived>>
calls == <<activations, lookupsMade, revokesMade>>
realtimeVars == <<tickets, session, jobs, budgets, threads, expired, remote, calls>>

RealtimeTypeOK ==
    /\ tickets \in [Tickets -> [session : Sessions \cup {NoSession},
                                state : {"unissued", "issued", "superseded", "consumed",
                                         "revoked"}]]
    /\ session \in [Sessions -> [state : {"absent", "new", "activating", "indeterminate",
                                          "active", "revoked"},
                                 generation : Nat, remote : Remotes \cup {NoRemote}]]
    /\ job \in [Remotes -> [owner : Sessions \cup {NoSession},
                            state : {"absent", "pending", "completed"}]]
    /\ lookupJob \in [Sessions -> {"absent", "pending", "completed"}]
    /\ lookupsUsed \in [Sessions -> 0..lookup_limit]
    /\ revokesUsed \in [Remotes -> 0..revoke_limit]
    /\ activation \in [Sessions -> [caller : {"idle", "waiting"},
                                    worker : {"idle", "queued", "admitted", "sent"}]]
    /\ reconciler \in [Reconcilers -> Sessions \cup {NoSession}]
    /\ drainer \in [Drainers -> Remotes \cup {NoRemote}]
    /\ revoker \in [Revokers -> [session : Sessions \cup {NoSession}, returned : BOOLEAN]]
    /\ expired \subseteq Tickets
    /\ opened \in [Remotes -> Sessions \cup {NoSession}]
    /\ closing \subseteq Remotes /\ closed \subseteq Remotes
    /\ lies \in 0..MaxLies /\ deceived \subseteq Sessions
    /\ activations \in [Sessions -> Nat] /\ lookupsMade \in [Sessions -> Nat]
    /\ revokesMade \in [Remotes -> Nat]

Unused == [caller |-> "idle", worker |-> "idle"]
NoRevoke == [session |-> NoSession, returned |-> FALSE]

RealtimeInit ==
    /\ tickets = [t \in Tickets |-> [session |-> NoSession, state |-> "unissued"]]
    /\ session = [s \in Sessions |-> [state |-> "absent", generation |-> 1, remote |-> NoRemote]]
    /\ job = [r \in Remotes |-> [owner |-> NoSession, state |-> "absent"]]
    /\ lookupJob = [s \in Sessions |-> "absent"]
    /\ lookupsUsed = [s \in Sessions |-> 0] /\ revokesUsed = [r \in Remotes |-> 0]
    /\ activation = [s \in Sessions |-> Unused]
    /\ reconciler = [p \in Reconcilers |-> NoSession]
    /\ drainer = [p \in Drainers |-> NoRemote]
    /\ revoker = [p \in Revokers |-> NoRevoke]
    /\ expired = {}
    /\ opened = [r \in Remotes |-> NoSession]
    /\ closing = {} /\ closed = {} /\ lies = 0 /\ deceived = {}
    /\ activations = [s \in Sessions |-> 0] /\ lookupsMade = [s \in Sessions |-> 0]
    /\ revokesMade = [r \in Remotes |-> 0]

-----------------------------------------------------------------------------
TicketsOf(s) == {t \in Tickets : tickets[t].session = s}
Attempted(s) == \E t \in TicketsOf(s) : tickets[t].state = "consumed"
Pending(s) == session[s].state \in {"activating", "indeterminate"}

\* _attempt_expiry and _window: the clock is before the attempt's expiry.
TimeLeft(s) == \E t \in TicketsOf(s) : tickets[t].state = "consumed" /\ t \notin expired

\* The session's issued tickets become v.
Invalidated(s, v) ==
    [t \in Tickets |-> IF tickets[t] = [session |-> s, state |-> "issued"]
                       THEN [tickets[t] EXCEPT !.state = v] ELSE tickets[t]]

Revoked(s) ==
    [session EXCEPT ![s].state = "revoked",
                    ![s].generation = IF session[s].state = "revoked" THEN @ ELSE @ + 1]

\* Faulty variant: clean-up jobs are not looked at.
OwnedByActive(s, r) == \E o \in Sessions \ {s} : session[o].remote = r

\* _remote_owned_elsewhere
OwnedElsewhere(s, r) ==
    \E o \in Sessions \ {s} : session[o].remote = r \/ job[r].owner = o

\* _queue_revoke of several identities: a job for each remote session, except
\* one that is another session's, ...
QueueJobs(s, ids) ==
    job' = [r \in Remotes |-> IF r \in ids /\ ~OwnedElsewhere(s, r) /\ job[r].owner = NoSession
                              THEN [owner |-> s, state |-> "pending"] ELSE job[r]]
\* ... for which, as for an unknown one, the session is to be looked up again.
Unresolved(s, ids) == ids = {} \/ \E r \in ids : OwnedElsewhere(s, r)

QueueRevoke(s, ids) ==
    /\ QueueJobs(s, ids)
    /\ lookupJob' = [lookupJob EXCEPT ![s] = IF Unresolved(s, ids) THEN "pending" ELSE @]

Known(s) == {session[s].remote} \ {NoRemote}

\* Revocation of a session the store knows no end of.
RevokePending(s) ==
    /\ Pending(s)
    /\ session' = Revoked(s)
    /\ QueueRevoke(s, Known(s))

\* _expire_pending
ExpirePending(s) ==
    \/ (Pending(s) => TimeLeft(s)) /\ UNCHANGED <<session, jobs>>
    \/ RevokePending(s)

\* _indeterminate
Indeterminate(s) ==
    \/ /\ Pending(s) /\ TimeLeft(s)
       /\ session' = [session EXCEPT ![s].state = "indeterminate"]
       /\ UNCHANGED jobs
    \/ RevokePending(s)
    \/ ~Pending(s) /\ UNCHANGED <<session, jobs>>

-----------------------------------------------------------------------------
(* Tickets and activation                                                  *)

IssueTicket(t, s) ==
    /\ tickets[t].state = "unissued" /\ session[s].state \in {"absent", "new"}
    /\ Cardinality({u \in Tickets : tickets[u].state # "unissued"}) < maximum_records
    /\ tickets' = [Invalidated(s, "superseded") EXCEPT ![t] = [session |-> s, state |-> "issued"]]
    /\ session' = [session EXCEPT ![s].state = "new"]
    /\ UNCHANGED <<jobs, budgets, threads, expired, remote, calls>>

\* activate(), first transaction; then a worker is started, or not.
Activate(t) ==
    LET s == tickets[t].session IN
    /\ tickets[t].state = "issued" /\ t \notin expired /\ session[s].state = "new"
    /\ tickets' = [Invalidated(s, "superseded") EXCEPT ![t].state = "consumed"]
    /\ session' = [session EXCEPT ![s].state = "activating"]
    /\ \E w \in {"queued", "idle"} :
          activation' = [activation EXCEPT ![s] = [caller |-> "waiting", worker |-> w]]
    /\ UNCHANGED <<jobs, budgets, reconciler, drainer, revoker, expired, remote, calls>>

\* dispatch(), its transaction
Admit(s) ==
    /\ activation[s].worker = "queued"
    /\ \/ /\ session[s].state = "activating" /\ TimeLeft(s)
          /\ activation' = [activation EXCEPT ![s].worker = "admitted"]
       \/ activation' = [activation EXCEPT ![s].worker = "idle"]
    /\ UNCHANGED <<tickets, session, jobs, budgets, reconciler, drainer, revoker, expired,
                   remote, calls>>

\* provider.activate is called, whatever has happened since; nobody hears of
\* what it returns when the caller has gone.
SendActivation(s) ==
    /\ activation[s].worker = "admitted"
    /\ activation' = [activation EXCEPT ![s].worker = IF activation[s].caller = "waiting"
                                                     THEN "sent" ELSE "idle"]
    /\ activations' = [activations EXCEPT ![s] = @ + 1]
    /\ UNCHANGED <<tickets, session, jobs, budgets, reconciler, drainer, revoker, expired,
                   remote, lookupsMade, revokesMade>>

\* No outcome, an error, or a malformed answer; a worker that is not admitted
\* by now has no time left either.
GiveUp(s) ==
    /\ activation[s].caller = "waiting"
    /\ activation' = [activation EXCEPT ![s] =
                        [caller |-> "idle", worker |-> IF @.worker = "admitted" THEN "admitted"
                                                       ELSE "idle"]]
    /\ Indeterminate(s)
    /\ UNCHANGED <<tickets, budgets, reconciler, drainer, revoker, expired, remote, calls>>

-----------------------------------------------------------------------------
(* _commit_activation: r is what the provider says it opened for s, and    *)
(* same says whether it comes with the receipt on record.                  *)

\* Every identity known is queued; if all are s's own no look-up is owed.
Cleanup(s, r) ==
    LET ids == {r} \cup Known(s) IN
    /\ QueueJobs(s, ids)
    /\ lookupJob' = [lookupJob EXCEPT ![s] =
                       IF Unresolved(s, ids) THEN "pending"
                       ELSE IF @ = "absent" THEN @ ELSE "completed"]

Conflicts(s, r, same) ==
    OwnedElsewhere(s, r) \/ (Known(s) # {} /\ (session[s].remote # r \/ ~same))

Commit(s, r, same) ==
    \/ /\ Conflicts(s, r, same)
       /\ session' = Revoked(s)
       /\ tickets' = Invalidated(s, "revoked")
       /\ Cleanup(s, r)
    \/ /\ ~Conflicts(s, r, same) /\ session[s].state = "active"
       /\ UNCHANGED <<tickets, session, jobs>>
    \/ /\ ~Conflicts(s, r, same) /\ Pending(s) /\ TimeLeft(s)
       /\ session' = [session EXCEPT ![s].state = "active", ![s].remote = r]
       /\ UNCHANGED <<tickets, jobs>>
    \/ /\ ~Conflicts(s, r, same) /\ Pending(s) /\ TimeLeft(s)  \* realtime_deadline_expired
       /\ \E known \in {session[s].remote, r} :
             session' = [session EXCEPT ![s].state = "indeterminate", ![s].remote = known]
       /\ UNCHANGED <<tickets, jobs>>
    \/ /\ ~Conflicts(s, r, same) /\ Pending(s)                 \* no readable time left
       /\ \E known \in {session[s].remote, r} : session' = [Revoked(s) EXCEPT ![s].remote = known]
       /\ UNCHANGED tickets
       /\ Cleanup(s, r)
    \/ /\ ~Conflicts(s, r, same) /\ session[s].state = "revoked"
       /\ UNCHANGED <<tickets, session>>
       /\ Cleanup(s, r)

\* The provider names a remote session; falsely, another's or another receipt.
Names(s, r, same) ==
    /\ opened[r] # NoSession
    /\ \/ opened[r] = s /\ same /\ UNCHANGED <<lies, deceived>>
       \/ /\ opened[r] # s \/ ~same
          /\ lies < MaxLies /\ lies' = lies + 1 /\ deceived' = deceived \cup {s}
    /\ UNCHANGED <<opened, closing, closed>>

ActivationAnswered(s) ==
    /\ activation[s] = [caller |-> "waiting", worker |-> "sent"]
    /\ \E r \in Remotes, same \in BOOLEAN : Names(s, r, same) /\ Commit(s, r, same)
    /\ activation' = [activation EXCEPT ![s] = Unused]
    /\ UNCHANGED <<budgets, reconciler, drainer, revoker, expired, calls>>

\* The process that activates s dies.
Dies(s) ==
    /\ activation[s] # Unused
    /\ activation' = [activation EXCEPT ![s] = Unused]
    /\ UNCHANGED <<tickets, session, jobs, budgets, reconciler, drainer, revoker, expired,
                   remote, calls>>

-----------------------------------------------------------------------------
(* reconcile()                                                             *)

\* The first transaction, and the call if the budget allows it.
Reconcile(p, s) ==
    /\ reconciler[p] = NoSession
    /\ Attempted(s) /\ (Pending(s) \/ session[s].state = "revoked")
    /\ ExpirePending(s)
    /\ \/ /\ lookupsUsed[s] < lookup_limit
          /\ lookupsUsed' = [lookupsUsed EXCEPT ![s] = @ + 1]
          /\ reconciler' = [reconciler EXCEPT ![p] = s]
          /\ lookupsMade' = [lookupsMade EXCEPT ![s] = @ + 1]
       \/ lookupsUsed[s] = lookup_limit /\ UNCHANGED <<lookupsUsed, reconciler, lookupsMade>>
    /\ UNCHANGED <<tickets, revokesUsed, activation, drainer, revoker, expired, remote,
                   activations, revokesMade>>

\* What it found is committed; or nothing was found in time; or it dies.
ReconcileEnds(p) ==
    LET s == reconciler[p] IN
    /\ s # NoSession
    /\ reconciler' = [reconciler EXCEPT ![p] = NoSession]
    /\ \/ \E r \in Remotes, same \in BOOLEAN : Names(s, r, same) /\ Commit(s, r, same)
       \/ Indeterminate(s) /\ UNCHANGED <<tickets, remote>>
       \/ UNCHANGED <<tickets, session, jobs, remote>>
    /\ UNCHANGED <<budgets, activation, drainer, revoker, expired, calls>>

-----------------------------------------------------------------------------
(* interrupt(), revoke() and the clean-up jobs                             *)

Interrupt(s) ==
    /\ session[s].state = "active" /\ session[s].generation <= MaxInterrupts
    /\ session' = [session EXCEPT ![s].generation = @ + 1]
    /\ UNCHANGED <<tickets, jobs, budgets, threads, expired, remote, calls>>

\* revoke(), its transaction; the known jobs are then drained.
Revoke(p, s) ==
    /\ revoker[p].session = NoSession \/ revoker[p].returned
    /\ session[s].state # "absent"
    /\ session' = Revoked(s)
    /\ tickets' = Invalidated(s, "revoked")
    /\ IF Known(s) # {} \/ Pending(s) THEN QueueRevoke(s, Known(s)) ELSE UNCHANGED jobs
    /\ revoker' = [revoker EXCEPT ![p] = [session |-> s, returned |-> FALSE]]
    /\ UNCHANGED <<budgets, activation, reconciler, drainer, expired, remote, calls>>

\* Faulty variant: only the remote session on record has to be closed.
RevokeEndsEarly(p) ==
    /\ revoker[p].session # NoSession /\ ~revoker[p].returned
    /\ \/ /\ \A r \in Known(revoker[p].session) : job[r].state # "pending"
          /\ revoker' = [revoker EXCEPT ![p].returned = TRUE]
       \/ revoker' = [revoker EXCEPT ![p] = NoRevoke]
    /\ UNCHANGED <<tickets, session, jobs, budgets, activation, reconciler, drainer, expired,
                   remote, calls>>

\* It returns when no known job is pending, and throws or dies otherwise.
RevokeEnds(p) ==
    /\ revoker[p].session # NoSession /\ ~revoker[p].returned
    /\ \/ /\ \A r \in Remotes : job[r].owner = revoker[p].session => job[r].state # "pending"
          /\ revoker' = [revoker EXCEPT ![p].returned = TRUE]
       \/ revoker' = [revoker EXCEPT ![p] = NoRevoke]
    /\ UNCHANGED <<tickets, session, jobs, budgets, activation, reconciler, drainer, expired,
                   remote, calls>>

\* _drain_known, called by drain_revocations(), revoke() and _commit_activation:
\* an attempt is charged and the provider asked to end the remote session.
Drain(p, r) ==
    /\ drainer[p] = NoRemote
    /\ job[r].state = "pending" /\ revokesUsed[r] < revoke_limit
    /\ revokesUsed' = [revokesUsed EXCEPT ![r] = @ + 1]
    /\ IF OwnedElsewhere(job[r].owner, r)
       THEN UNCHANGED <<drainer, closing, revokesMade>>
       ELSE /\ drainer' = [drainer EXCEPT ![p] = r]
            /\ closing' = closing \cup {r}
            /\ revokesMade' = [revokesMade EXCEPT ![r] = @ + 1]
    /\ UNCHANGED <<tickets, session, jobs, lookupsUsed, activation, reconciler, revoker, expired,
                   opened, closed, lies, deceived, activations, lookupsMade>>

\* Faulty variant: a provider that does not answer is believed to have complied.
DrainEndsAnyway(p) ==
    /\ drainer[p] # NoRemote
    /\ drainer' = [drainer EXCEPT ![p] = NoRemote]
    /\ job' = [job EXCEPT ![drainer[p]].state = "completed"]
    /\ UNCHANGED <<tickets, session, lookupJob, budgets, activation, reconciler, revoker, expired,
                   remote, calls>>

\* The provider confirms; or it does not in time, or the process dies.
DrainEnds(p) ==
    /\ drainer[p] # NoRemote
    /\ drainer' = [drainer EXCEPT ![p] = NoRemote]
    /\ \/ drainer[p] \in closed /\ job' = [job EXCEPT ![drainer[p]].state = "completed"]
       \/ UNCHANGED job
    /\ UNCHANGED <<tickets, session, lookupJob, budgets, activation, reconciler, revoker, expired,
                   remote, calls>>

-----------------------------------------------------------------------------
(* The provider and time                                                   *)

\* An activation opens one remote session; a second one is a broken contract.
ProviderOpens(s, r) ==
    /\ activations[s] > 0 /\ opened[r] = NoSession /\ r \notin closed
    /\ opened' = [opened EXCEPT ![r] = s]
    /\ \/ (\A q \in Remotes : opened[q] # s) /\ UNCHANGED <<lies, deceived>>
       \/ /\ \E q \in Remotes : opened[q] = s
          /\ lies < MaxLies /\ lies' = lies + 1 /\ deceived' = deceived \cup {s}
    /\ UNCHANGED <<tickets, session, jobs, budgets, threads, expired, closing, closed, calls>>

ProviderCloses(r) ==
    /\ r \in closing
    /\ closing' = closing \ {r} /\ closed' = closed \cup {r}
    /\ UNCHANGED <<tickets, session, jobs, budgets, threads, expired, opened, lies, deceived,
                   calls>>

\* Nothing asks for the expiry of other tickets.
TicketExpires(t) ==
    /\ t \notin expired
    /\ \/ tickets[t].state = "issued"
       \/ tickets[t].state = "consumed" /\ Pending(tickets[t].session)
    /\ expired' = expired \cup {t}
    /\ UNCHANGED <<tickets, session, jobs, budgets, threads, remote, calls>>

RealtimeNext ==
    \/ \E t \in Tickets : \/ Activate(t) \/ TicketExpires(t)
                         \/ \E s \in Sessions : IssueTicket(t, s)
    \/ \E s \in Sessions : \/ Admit(s) \/ SendActivation(s) \/ GiveUp(s)
                           \/ ActivationAnswered(s) \/ Dies(s)
                           \/ Interrupt(s)
    \/ \E p \in Reconcilers : ReconcileEnds(p) \/ \E s \in Sessions : Reconcile(p, s)
    \/ \E p \in Revokers : RevokeEnds(p) \/ \E s \in Sessions : Revoke(p, s)
    \/ \E p \in Drainers : DrainEnds(p) \/ \E r \in Remotes : Drain(p, r)
    \/ \E r \in Remotes : ProviderCloses(r) \/ \E s \in Sessions : ProviderOpens(s, r)

RealtimeSpec == RealtimeInit /\ [][RealtimeNext]_realtimeVars

-----------------------------------------------------------------------------
(* Properties                                                              *)

\* "No custody is lost": a remote session that is open is the one of an active
\* session, or its session's outcome is unknown, or the outbox still owes its
\* end or a look-up; also when it opens after its session was revoked.
Custody ==
    \A r \in Remotes :
        /\ opened[r] \in Sessions \ deceived /\ r \notin closed
        => LET s == opened[r] IN
           \/ session[s].state = "active" /\ session[s].remote = r
           \/ Pending(s)
           \/ job[r].state = "pending" \/ lookupJob[s] = "pending"

\* "An ID already bound to another local session is not ours to revoke": what
\* an active session uses is never closed, whatever the provider answers.
ActiveUnharmed ==
    \A s \in Sessions : session[s].state = "active" => session[s].remote \notin closing \cup closed

\* Calls of the provider are counted before they are made, through timeouts and
\* deaths: one activation of a session, and look-ups and revocations within
\* their budgets ("Reserve BEFORE network work").
CallsAreBudgeted ==
    /\ \A s \in Sessions : activations[s] <= 1 /\ lookupsMade[s] <= lookup_limit
    /\ \A r \in Remotes : revokesMade[r] <= revoke_limit

\* "Monotonic revocation": a revoked session stays revoked, and an activation of
\* it that was not yet admitted never is.
RevokedForGood ==
    [][\A s \in Sessions : session[s].state = "revoked" =>
          /\ session'[s].state = "revoked"
          /\ activation'[s].worker = "admitted" => activation[s].worker = "admitted"]_realtimeVars

\* revoke() returns only when every remote session known to be the session's is
\* closed, not only the one on record.
RevokeIsTrue ==
    [][\A p \in Revokers : revoker'[p].returned /\ ~revoker[p].returned =>
          \A r \in Remotes : job[r].owner = revoker[p].session => r \in closed]_realtimeVars

=============================================================================
