------------------------- MODULE DualLegCoordinator -------------------------
(***************************************************************************)
(* lib/runtime/dual_leg_coordinator.dart over EvenG1Transport: the same    *)
(* bytes are sent to the left leg and then to the right, each with a few   *)
(* attempts, and the pair of outcomes is kept under the caller's key,      *)
(* whatever the connection.  sendMirrored() and reconcile() read that      *)
(* receipt, wait for the legs and only then write it, so that overlapping  *)
(* calls of one key interleave at every leg.                               *)
(***************************************************************************)
EXTENDS G1Transport

CONSTANTS
    Sends,         \* calls of sendMirrored()
    KeyOf, BytesOf,
    Reconciles,    \* calls of reconcile(), each of one of the keys
    ReconciledKey,
    MaxAttempts,
    NoIdentity, NoReceipt

ASSUME DualLegAssumption ==
    /\ KeyOf \in [Sends -> Keys] /\ BytesOf \in [Sends -> Bytes]
    /\ ReconciledKey \in [Reconciles -> Keys]
    /\ MaxAttempts \in Nat \ {0}
    /\ NoIdentity \notin Identity

Ack == {"accepted", "uncertain", "refused", "disconnected"}
DualLegReceipt == [left : Ack, right : Ack, bytes : Bytes]

VARIABLES
    phase,       \* where each sendMirrored() stands: the leg it is at
    attempt,     \* _sendWithRetry: the attempt it makes
    waitsFor,    \* the operation of the transport it awaits
    got,         \* the acknowledgement it received for the leg
    left,        \* the outcome of its left leg
    dualReceipts,\* _receipts, with the bytes the legs were sent
    fingerprints,\* _fingerprints
    resolving    \* each reconcile(): the receipt it works on and its progress

sends == <<phase, attempt, waitsFor, got, left>>
dualVars == <<g1Vars, sends, dualReceipts, fingerprints, resolving>>

DualInit ==
    /\ G1Init
    /\ phase = [c \in Sends |-> "new"]
    /\ attempt = [c \in Sends |-> 0]
    /\ waitsFor = [c \in Sends |-> NoIdentity]
    /\ got = [c \in Sends |-> "none"]
    /\ left = [c \in Sends |-> "none"]
    /\ dualReceipts = [k \in Keys |-> NoReceipt]
    /\ fingerprints = [k \in Keys |-> NoBytes]
    /\ resolving = [r \in Reconciles |-> [step |-> "new", receipt |-> NoReceipt]]

-----------------------------------------------------------------------------
SideOf(c) == IF phase[c] = "left" THEN "L" ELSE "R"

\* The locals of a call that returns or throws.
Return(c) ==
    /\ attempt' = [attempt EXCEPT ![c] = 0]
    /\ got' = [got EXCEPT ![c] = "none"]
    /\ left' = [left EXCEPT ![c] = "none"]

\* sendMirrored(): a receipt of the key is replayed, or refused for other bytes.
SendMirrored(c) ==
    /\ phase[c] = "new"
    /\ phase' = [phase EXCEPT ![c] =
                   IF dualReceipts[KeyOf[c]] = NoReceipt THEN "left"
                   ELSE IF fingerprints[KeyOf[c]] = BytesOf[c] THEN "done" ELSE "threw"]
    /\ attempt' = [attempt EXCEPT ![c] = IF dualReceipts[KeyOf[c]] = NoReceipt THEN 1 ELSE 0]
    /\ UNCHANGED <<g1Vars, waitsFor, got, left, dualReceipts, fingerprints, resolving>>

\* _sendWithRetry calls the transport for the leg it is at.
SendLeg(c) ==
    LET side == SideOf(c)
        key == KeyOf[c]
        bytes == BytesOf[c]
        id == IdentityNow(side, key, bytes) IN
    /\ phase[c] \in {"left", "right"} /\ waitsFor[c] = NoIdentity /\ got[c] = "none"
    /\ \/ /\ ThrowsNow(side, key, bytes)
          /\ phase' = [phase EXCEPT ![c] = "threw"]
          /\ Return(c)
          /\ UNCHANGED <<g1Vars, waitsFor>>
       \/ /\ \/ /\ RejectsNow(side)
                /\ got' = [got EXCEPT ![c] = IF HasAuthoritativeIdentity THEN "disconnected"
                                             ELSE "refused"]
             \/ RepliesNow(side, key, bytes) /\ got' = [got EXCEPT ![c] = receipts[id]]
             \/ /\ AdmitsNow(side, key, bytes) /\ FullNow(side, key)
                /\ got' = [got EXCEPT ![c] = "refused"]
          /\ UNCHANGED <<g1Vars, phase, waitsFor, attempt, left>>
       \/ /\ \/ JoinsNow(side, key, bytes) /\ UNCHANGED g1Vars
             \/ Start(side, key, bytes)
          /\ waitsFor' = [waitsFor EXCEPT ![c] = id]
          /\ UNCHANGED <<phase, got, attempt, left>>
    /\ UNCHANGED <<dualReceipts, fingerprints, resolving>>

\* An operation of the transport completes: all who wait for it hear of it.
LegAnswer(id, ack) ==
    /\ Finish(id, ack)
    /\ got' = [c \in Sends |-> IF waitsFor[c] = id THEN ack ELSE got[c]]
    /\ waitsFor' = [c \in Sends |-> IF waitsFor[c] = id THEN NoIdentity ELSE waitsFor[c]]
    /\ UNCHANGED <<phase, attempt, left, dualReceipts, fingerprints, resolving>>

\* retrySafe of the acknowledgement
RetrySafe(ack) == ack \in {"refused", "disconnected"}

TryAgain(c) ==
    /\ got[c] # "none"
    /\ RetrySafe(got[c]) /\ got[c] # "disconnected" /\ attempt[c] < MaxAttempts
    /\ attempt' = [attempt EXCEPT ![c] = @ + 1]
    /\ got' = [got EXCEPT ![c] = "none"]
    /\ UNCHANGED <<g1Vars, phase, waitsFor, left, dualReceipts, fingerprints, resolving>>

LegDecided(c) ==
    /\ got[c] # "none"
    /\ ~RetrySafe(got[c]) \/ got[c] = "disconnected" \/ attempt[c] = MaxAttempts

LeftDecided(c) ==
    /\ phase[c] = "left" /\ LegDecided(c)
    /\ left' = [left EXCEPT ![c] = got[c]]
    /\ phase' = [phase EXCEPT ![c] = "right"]
    /\ attempt' = [attempt EXCEPT ![c] = 1]
    /\ got' = [got EXCEPT ![c] = "none"]
    /\ UNCHANGED <<g1Vars, waitsFor, dualReceipts, fingerprints, resolving>>

\* Faulty variant: the receipt is that of the first leg, mirrored.
RightDecidedMirrors(c) ==
    /\ phase[c] = "right" /\ LegDecided(c)
    /\ fingerprints' = [fingerprints EXCEPT ![KeyOf[c]] = BytesOf[c]]
    /\ dualReceipts' = [dualReceipts EXCEPT ![KeyOf[c]] =
                          [left |-> left[c], right |-> left[c], bytes |-> BytesOf[c]]]
    /\ phase' = [phase EXCEPT ![c] = "done"]
    /\ Return(c)
    /\ UNCHANGED <<g1Vars, waitsFor, resolving>>

\* Both legs are decided: the fingerprint and the receipt are stored.
RightDecided(c) ==
    /\ phase[c] = "right" /\ LegDecided(c)
    /\ fingerprints' = [fingerprints EXCEPT ![KeyOf[c]] = BytesOf[c]]
    /\ dualReceipts' = [dualReceipts EXCEPT ![KeyOf[c]] =
                          [left |-> left[c], right |-> got[c], bytes |-> BytesOf[c]]]
    /\ phase' = [phase EXCEPT ![c] = "done"]
    /\ Return(c)
    /\ UNCHANGED <<g1Vars, waitsFor, resolving>>

-----------------------------------------------------------------------------
HasEffect(side, key, bytes) ==
    \E id \in Identity : /\ id.scope.side = side /\ id.scope.key = key /\ id.bytes = bytes
                         /\ id \in applied

\* The caller's read of a leg may fail; otherwise it tells what the leg shows.
ReconcilerAnswers(side, key, ack, bytes) ==
    IF ack # "uncertain" THEN {ack}
    ELSE {"uncertain", IF HasEffect(side, key, bytes) THEN "accepted" ELSE "refused"}

\* reconcile() up to its first wait: the prior receipt is captured.
ReconcileBegin(r) ==
    LET prior == dualReceipts[ReconciledKey[r]] IN
    /\ resolving[r].step = "new" /\ prior # NoReceipt
    /\ resolving' = [resolving EXCEPT ![r] = [step |-> "left", receipt |-> prior]]
    /\ UNCHANGED <<g1Vars, sends, dualReceipts, fingerprints>>

ReconcileLeft(r) ==
    LET receipt == resolving[r].receipt IN
    /\ resolving[r].step = "left"
    /\ \E ack \in ReconcilerAnswers("L", ReconciledKey[r], receipt.left, receipt.bytes) :
          resolving' = [resolving EXCEPT ![r] =
                          [step |-> "right", receipt |-> [receipt EXCEPT !.left = ack]]]
    /\ UNCHANGED <<g1Vars, sends, dualReceipts, fingerprints>>

\* The second answer: the updated receipt replaces whatever is stored by now.
ReconcileRight(r) ==
    LET receipt == resolving[r].receipt IN
    /\ resolving[r].step = "right"
    /\ \E ack \in ReconcilerAnswers("R", ReconciledKey[r], receipt.right, receipt.bytes) :
          dualReceipts' = [dualReceipts EXCEPT ![ReconciledKey[r]] = [receipt EXCEPT !.right = ack]]
    /\ resolving' = [resolving EXCEPT ![r] = [step |-> "done", receipt |-> NoReceipt]]
    /\ UNCHANGED <<g1Vars, sends, fingerprints>>

-----------------------------------------------------------------------------
DualNext ==
    \/ \E c \in Sends : \/ SendMirrored(c) \/ SendLeg(c) \/ TryAgain(c)
                        \/ LeftDecided(c) \/ RightDecided(c)
    \/ \E id \in Identity, ack \in {"accepted", "uncertain", "refused"} : LegAnswer(id, ack)
    \/ \E r \in Reconciles : ReconcileBegin(r) \/ ReconcileLeft(r) \/ ReconcileRight(r)
    \/ ConnectionNext /\ UNCHANGED <<sends, dualReceipts, fingerprints, resolving>>

DualSpec == DualInit /\ [][DualNext]_dualVars

-----------------------------------------------------------------------------
(* Properties                                                              *)

\* A leg is reported as done only if the bytes of that receipt took effect on
\* it: through retries, replays, joined operations and overlapping reconciles.
ReceiptIsTrue ==
    \A k \in Keys : LET receipt == dualReceipts[k] IN
        receipt # NoReceipt =>
            /\ receipt.left = "accepted" => HasEffect("L", k, receipt.bytes)
            /\ receipt.right = "accepted" => HasEffect("R", k, receipt.bytes)

\* A key names one write: "Idempotency key was reused with different device
\* bytes."
KeyNamesOneWrite ==
    \A i, j \in Identity :
        i.scope.key = j.scope.key /\ i \in applied /\ j \in applied => i.bytes = j.bytes

=============================================================================
