------------------------ MODULE MCDualLegCoordinator ------------------------
(* Small instances of DualLegCoordinator for TLC: two overlapping sends of  *)
(* one key with different bytes and a reconcile of it, while the glasses    *)
(* reconnect and lose a leg; the authority table holds two entries.  One    *)
(* response of the left leg may be misread in the instance that reconnects. *)
EXTENDS DualLegCoordinator, TLC

CONSTANTS c1, c2, r1, k1, b1, b2

SameKey == [c \in Sends |-> k1]
OtherBytes == c1 :> b1 @@ c2 :> b2
ReconcileKey == [r \in Reconciles |-> k1]

\* Bound: only the left leg's responses in the first connection are misread.
FirstLeft == {s \in Scope : s.generation = 1 /\ s.side = "L"}
=============================================================================
