--------------------------- MODULE MCControlPlane ---------------------------
(* A small instance for TLC of the two ledgers of services/control_plane    *)
(* that dispatch to external providers.  They share no state and each runs  *)
(* while the other is at rest.                                              *)
(*                                                                          *)
(* DurableCapabilities: operations of two subjects compete for one lease;   *)
(* only the first one's adapter checks its authority again before it        *)
(* mutates.  DurableRealtime: two tickets for one session or for two, one   *)
(* provider answer that is false, one call of a kind at a time.             *)
EXTENDS DurableCapabilities, DurableRealtime, TLC

CONSTANTS k1, k2, u1, u2, l1

OwnSubject == [k \in Keys |-> IF k = k1 THEN u1 ELSE u2]
SharedLease == {<<k1, l1>>, <<k2, l1>>}
Deadlines == [x \in Keys \cup Leases |-> 1]
Symmetry == Permutations(Remotes) \cup Permutations(Tickets) \cup Permutations(Sessions)

PlaneInit == Init /\ RealtimeInit

PlaneNext ==
    \/ RealtimeInit /\ Next /\ UNCHANGED realtimeVars
    \/ Init /\ RealtimeNext /\ UNCHANGED vars

PlaneSpec == PlaneInit /\ [][PlaneNext]_<<vars, realtimeVars>>
=============================================================================
