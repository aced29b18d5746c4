--------------------------- MODULE MCHeptaRuntime ---------------------------
(* Small instances of HeptaRuntime for TLC.                                *)
EXTENDS HeptaRuntime

CONSTANTS k1, k2, l1, l2, fp

lease(l) == [id |-> l, singleUse |-> TRUE, issuedAt |-> 0, expiresAt |-> 3,
             bound |-> TRUE, argumentMatch |-> TRUE]

ctx == [authenticated |-> TRUE, contractMatch |-> TRUE, riskTier |-> "r1",
        untrusted |-> FALSE, confirmed |-> FALSE,
        userPresent |-> TRUE, biometricVerified |-> FALSE]

call(k, l, d) ==
    [key |-> k, fp |-> fp, mutating |-> TRUE, deadline |-> d, registered |-> TRUE,
     ctx |-> ctx, lease |-> lease(l)]

\* A bitmap with a long deadline and a short display update behind it.
DeviceCalls == {call(k1, l1, 2), call(k2, l2, 1)}
=============================================================================
