--------------------------- MODULE MCToolGateway ---------------------------
(* Small instances of ToolGateway for TLC.                                 *)
EXTENDS ToolGateway

CONSTANTS k1, k2, l1, l2, fpA, fpB

ctx(tier) == [authenticated |-> TRUE, contractMatch |-> TRUE, riskTier |-> tier,
              untrusted |-> FALSE, confirmed |-> FALSE,
              userPresent |-> TRUE, biometricVerified |-> FALSE]

lease(l) == [id |-> l, singleUse |-> TRUE, issuedAt |-> 0, expiresAt |-> 2,
             bound |-> TRUE, argumentMatch |-> TRUE]

call(k, f, mut, tier, le, d) ==
    [key |-> k, fp |-> f, mutating |-> mut, deadline |-> d, registered |-> TRUE,
     ctx |-> ctx(tier), lease |-> le]

\* Two mutations race for lease l1; the first may be repeated under a fresh
\* lease, and its key reused for another request.
MutationCalls ==
    {call(k1, fpA, TRUE, "r1", lease(l1), 2),
     call(k1, fpA, TRUE, "r1", lease(l2), 2),
     call(k1, fpB, TRUE, "r1", NoLease, 1),
     call(k2, fpB, TRUE, "r2", lease(l1), 1)}

\* A read that needs a lease, a read that needs none, and a mutation.
ReadCalls ==
    {call(k1, fpA, FALSE, "r2", lease(l1), 2),
     call(k1, fpB, FALSE, "r1", NoLease, 1),
     call(k2, fpB, TRUE, "r1", lease(l1), 2)}

=============================================================================
