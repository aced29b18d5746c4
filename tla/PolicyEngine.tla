---------------------------- MODULE PolicyEngine ----------------------------
(***************************************************************************)
(* lib/runtime/policy_engine.dart: the admission rule of the edge runtime  *)
(* and the only state it keeps, the set of consumed lease identifiers.     *)
(*                                                                         *)
(* A call is what ToolGateway.execute receives: the tool request, the      *)
(* policy context and the optional decision lease.  Identity comparisons   *)
(* (subject, task, device, action, policy hash, digests) are abstracted to *)
(* their outcome; times stay numbers because they decide interleavings.    *)
(***************************************************************************)
EXTENDS Naturals

CONSTANTS
    Calls,      \* the calls that callers may make
    LeaseIds,   \* identifiers of decision leases
    NoLease     \* a call that carries no lease

VARIABLES
    now,        \* Clock.now()
    consumed    \* _consumedLeaseIds

RiskTier == {"r0", "r1", "r2", "r3", "r4"}

Lease == [id : LeaseIds, singleUse : BOOLEAN, issuedAt : Nat, expiresAt : Nat,
          bound : BOOLEAN, argumentMatch : BOOLEAN]

\* The part of a call the policy reads.
Context == [authenticated : BOOLEAN, contractMatch : BOOLEAN, riskTier : RiskTier,
            untrusted : BOOLEAN, confirmed : BOOLEAN,
            userPresent : BOOLEAN, biometricVerified : BOOLEAN]

(***************************************************************************)
(* evaluate returns on the first failing check; only whether one fails is  *)
(* visible to the gateway, so the checks are a conjunction.                *)
(***************************************************************************)
ReadOnlyAllowed(c) ==
    /\ c.ctx.authenticated
    /\ c.ctx.contractMatch
    /\ ~c.mutating
    /\ c.ctx.riskTier \in {"r0", "r1"}

LeaseAuthorized(c) ==
    /\ c.ctx.authenticated
    /\ c.ctx.contractMatch
    /\ c.ctx.riskTier # "r4"
    /\ c.lease # NoLease
    /\ c.mutating => c.lease.singleUse
    /\ c.lease.id \notin consumed
    /\ c.lease.issuedAt <= now
    /\ now < c.lease.expiresAt
    /\ c.lease.bound
    /\ c.lease.argumentMatch
    /\ c.ctx.untrusted => c.ctx.confirmed
    /\ c.ctx.riskTier = "r2" => c.ctx.userPresent
    /\ c.ctx.riskTier = "r3" => c.ctx.userPresent /\ c.ctx.biometricVerified

Allowed(c) == ReadOnlyAllowed(c) \/ LeaseAuthorized(c)

\* The lease identifiers that consume(lease) adds.
SingleUseLeases(c) ==
    IF c.lease # NoLease /\ c.lease.singleUse THEN {c.lease.id} ELSE {}

\* consume(lease)
Consume(c) == consumed' = consumed \cup SingleUseLeases(c)

=============================================================================
