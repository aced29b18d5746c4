------------------------- MODULE MutationAuthority -------------------------
(***************************************************************************)
(* services/control_plane/mutation_authority.py: a call presents an access *)
(* token and an intent and is granted a lease, the right to carry out that *)
(* intent once, for a while.                                               *)
(*                                                                         *)
(* Who the caller is, and until when, is decided by the identity verifier  *)
(* the authority is given (a Protocol).  It is not part of this module:    *)
(* it may name any principal, for any time, at each call.  authorize()     *)
(* then reads the clock, waits for a lock and runs one transaction; calls  *)
(* of revoke() and of authorize() commit in between.                       *)
(*                                                                         *)
(* Database   lease, tombstones                                            *)
(* Calls      call                                                         *)
(*                                                                         *)
(* Scopes, risk tiers and presence only decide whether a call goes on: a   *)
(* call may stop anywhere.  A fingerprint is what it digests.  The clock   *)
(* is any callable: nothing relates two readings of it.                    *)
(***************************************************************************)
EXTENDS Naturals, FiniteSets

CONSTANTS
    Calls,                  \* concurrent calls of authorize()
    Leases,                 \* lease identifiers that may be drawn
    Principals,             \* subject, device_id and session_id the verifier may name
    Tasks,                  \* task, action, risk, arguments and policy hash
    LastSecond,             \* bound on the clock's readings, deadlines and ends
    maximum_lease_seconds,
    maximum_records

ASSUME MutationAssumption ==
    LastSecond \in Nat /\ maximum_lease_seconds \in Nat \ {0} /\ maximum_records \in Nat \ {0}

VARIABLES lease, tombstones, call

mutationVars == <<lease, tombstones, call>>

Seconds == 0..LastSecond

\* The subject, the device and the session of a principal, by kind.
Holders(p) == {<<"subject", p.subject>>, <<"device", p.device_id>>, <<"session", p.session_id>>}

\* What revoke() may be asked for and concerns any of the principals.
Targets == UNION {Holders(p) : p \in Principals}

Fingerprint == [principal : Principals, task : Tasks, deadline : Seconds]

NoLease == [state |-> "absent"]
IdleCall == [pc |-> "idle"]

LeaseRow ==
    {NoLease} \cup [state : {"issued", "revoked"}, fingerprint : Fingerprint,
                    issued_at : Nat, expires_at : Nat]
AuthorizeCall ==
    {IdleCall} \cup [pc : {"admitted"}, fingerprint : Fingerprint, until : Seconds, now : Seconds]
    \cup [pc : {"granted"}, fingerprint : Fingerprint, lease : Leases]

\* The types of the database and of the calls.
MutationTypeOK ==
    /\ lease \in [Leases -> LeaseRow]
    /\ tombstones \subseteq Targets
    /\ call \in [Calls -> AuthorizeCall]

MutationInit ==
    /\ lease = [l \in Leases |-> NoLease] /\ tombstones = {}
    /\ call = [a \in Calls |-> IdleCall]

-----------------------------------------------------------------------------
(* authorize()                                                             *)

Earliest(times) == CHOOSE x \in times : \A y \in times : x <= y

\* When a lease ends that is granted to a call.
LeaseEnd(c) == Earliest({c.fingerprint.deadline, c.until, c.now + maximum_lease_seconds})

\* The verifier names a principal and the end of its authority, and the clock
\* is read, once and before the lock.
Admit(a, f, until, time) ==
    LET c == [pc |-> "admitted", fingerprint |-> f, until |-> until, now |-> time] IN
    /\ call[a].pc = "idle"
    /\ time < until /\ time < LeaseEnd(c)
    /\ call' = [call EXCEPT ![a] = c]
    /\ UNCHANGED <<lease, tombstones>>

\* Faulty variant: only the subject is looked up.
SubjectNotRevoked(p) == <<"subject", p.subject>> \notin tombstones

\* _deny_if_revoked() does not throw
NotRevoked(p) == Holders(p) \cap tombstones = {}

LeaseOf(f) == {l \in Leases : lease[l].state # "absent" /\ lease[l].fingerprint = f}

\* Faulty variant: a repetition is given a new lease when the first has ended.
UnlessEnded(c) == \A l \in LeaseOf(c.fingerprint) : lease[l].expires_at <= c.now

Unused(c) == LeaseOf(c.fingerprint) = {}

\* The transaction: the lease there is, unless it ended before the clock was
\* read, or a new one.
Grant(a, l) ==
    LET c == call[a]
        f == c.fingerprint IN
    /\ c.pc = "admitted"
    /\ NotRevoked(f.principal)
    /\ \/ /\ l \in LeaseOf(f) /\ lease[l].state = "issued" /\ c.now < lease[l].expires_at
          /\ UNCHANGED lease
       \/ /\ Unused(c) /\ lease[l].state = "absent"
          /\ Cardinality({k \in Leases : lease[k].state # "absent"}) < maximum_records
          /\ lease' = [lease EXCEPT ![l] = [state |-> "issued", fingerprint |-> f,
                                            issued_at |-> c.now, expires_at |-> LeaseEnd(c)]]
    /\ call' = [call EXCEPT ![a] = [pc |-> "granted", fingerprint |-> f, lease |-> l]]
    /\ UNCHANGED tombstones

\* The call was refused, its answer was taken or its thread is gone.
CallEnds(a) ==
    /\ call[a].pc # "idle"
    /\ call' = [call EXCEPT ![a] = IdleCall]
    /\ UNCHANGED <<lease, tombstones>>

-----------------------------------------------------------------------------
(* revoke()                                                                *)

\* Faulty variant: the leases that are revoked are deleted.
DeleteLeases(x) ==
    lease' = [l \in Leases |->
        IF lease[l].state = "issued" /\ x \in Holders(lease[l].fingerprint.principal)
        THEN NoLease ELSE lease[l]]

\* The leases that are out are marked.
MarkLeases(x) ==
    lease' = [l \in Leases |->
        IF lease[l].state = "issued" /\ x \in Holders(lease[l].fingerprint.principal)
        THEN [lease[l] EXCEPT !.state = "revoked"] ELSE lease[l]]

\* The tombstone and the leases, in one transaction.
RevokeLeases(x) ==
    /\ tombstones' = tombstones \cup {x}
    /\ MarkLeases(x)
    /\ UNCHANGED call

AuthorityNext ==
    \/ \E a \in Calls, f \in Fingerprint, until, time \in Seconds : Admit(a, f, until, time)
    \/ \E a \in Calls : CallEnds(a) \/ \E l \in Leases : Grant(a, l)
    \/ \E x \in Targets : RevokeLeases(x)

AuthoritySpec == MutationInit /\ [][AuthorityNext]_mutationVars

-----------------------------------------------------------------------------
\* No lease outlives the revocation of its subject, device or session in this
\* database, whichever of a grant and a revocation commits first.
RevokedHoldsNoLease ==
    \A l \in Leases : lease[l].state = "issued" =>
        Holders(lease[l].fingerprint.principal) \cap tombstones = {}

\* A lease ends after it begins, and no later than the request's deadline and
\* than its maximum allow, although it is written after the clock was read.
LeaseFitsRequest ==
    \A l \in Leases : lease[l].state # "absent" =>
        /\ lease[l].issued_at < lease[l].expires_at
        /\ lease[l].expires_at <= lease[l].fingerprint.deadline
        /\ lease[l].expires_at <= lease[l].issued_at + maximum_lease_seconds

\* Calls that repeat an intent share a lease, at any time and in any order.
OneLeasePerIntent ==
    /\ \A k, l \in Leases :
          lease[k].state # "absent" /\ lease[l].state # "absent"
          /\ lease[k].fingerprint = lease[l].fingerprint => k = l
    /\ \A a, b \in Calls :
          call[a].pc = "granted" /\ call[b].pc = "granted"
          /\ call[a].fingerprint = call[b].fingerprint => call[a].lease = call[b].lease

\* A lease is never extended, reissued or forgotten, one that was revoked
\* stays so, and no tombstone goes away: revoking leaves the intent spent.
LeaseRevocationIsFinal ==
    [][/\ tombstones \subseteq tombstones'
       /\ \A l \in Leases : lease[l].state # "absent" =>
             /\ lease'[l] = [lease[l] EXCEPT !.state = lease'[l].state]
             /\ lease[l].state = "revoked" => lease'[l].state = "revoked"
      ]_mutationVars

=============================================================================
