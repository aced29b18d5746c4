---------------------------- MODULE RuntimeProofs ----------------------------
(***************************************************************************)
(* Proofs about ToolGateway, DeviceEffectScheduler and the HeptaRuntime    *)
(* they make together, for every set of calls, keys and leases and every   *)
(* bound.                                                                  *)
(*                                                                         *)
(* First ToolGateway alone: what its journal, its receipts and its leases  *)
(* say of each other, and the properties that follow.                      *)
(*                                                                         *)
(* Then DeviceEffectScheduler.  One sequence orders everything: accepted.  *)
(* What was started is its beginning and what is queued follows, so an     *)
(* effect that runs is never also queued, and the answer of a caller can   *)
(* be read off the place of its effect.                                    *)
(*                                                                         *)
(* Then the runtime: it implements ToolGateway, so all that is proved of   *)
(* the gateway holds of it, and no answer runs ahead of the device.  This  *)
(* rests on the invariants of both parts.  What relates the two is the     *)
(* place an effect has: not submitted, queued or on the device, answered,  *)
(* or left behind by a dead process.                                       *)
(***************************************************************************)
EXTENDS HeptaRuntime, WellFoundedInduction, FiniteSetTheorems, SequenceTheorems, TLAPS

-----------------------------------------------------------------------------
(* Arithmetic and journal facts                                            *)

\* A non-empty set of positions of a sequence has a last one.
LEMMA MaxOfPositions ==
    ASSUME NEW n \in Nat, NEW S, S \subseteq 1..n, S # {}
    PROVE  Max(S) \in S
  <1> DEFINE T == {n - i : i \in S}
  <1>1. \A i \in S : n - i \in Nat /\ n - i \in T
    OBVIOUS
  <1>2. T \subseteq Nat /\ T # {}
    BY <1>1
  <1>3. PICK x \in T : \A y \in T : ~(<<y, x>> \in OpToRel(<, Nat))
    BY <1>2, NatLessThanWellFounded, WFMin, Zenon
  <1>4. \A y \in T : ~(y < x)
    BY <1>2, <1>3 DEF OpToRel
  <1>5. PICK m \in S : x = n - m
    OBVIOUS
  <1>6. \A j \in S : m >= j
    <2> SUFFICES ASSUME NEW j \in S PROVE m >= j
      OBVIOUS
    <2>1. n - j \in T
      OBVIOUS
    <2>2. ~(n - j < n - m)
      BY <2>1, <1>4, <1>5
    <2> QED
      BY <2>2
  <1> QED
    BY <1>6 DEF Max

\* The last position of an entry kind is a position of that kind.
LEMMA LastEntry ==
    ASSUME TypeOK, NEW k \in Keys
    PROVE  /\ TerminalAt(k) # {} => Max(TerminalAt(k)) \in TerminalAt(k)
           /\ PreparedAt(k) # {} => Max(PreparedAt(k)) \in PreparedAt(k)
  <1>1. journal[k] \in Seq(Entry)
    BY DEF TypeOK
  <1>2. Len(journal[k]) \in Nat /\ DOMAIN journal[k] = 1..Len(journal[k])
    BY <1>1
  <1>3. TerminalAt(k) \subseteq 1..Len(journal[k]) /\ PreparedAt(k) \subseteq 1..Len(journal[k])
    BY <1>2 DEF TerminalAt, PreparedAt
  <1> QED
    BY <1>2, <1>3, MaxOfPositions

\* What a journal position holds.
LEMMA EntryKinds ==
    ASSUME TypeOK, NEW k \in Keys
    PROVE  /\ \A i \in TerminalAt(k) : journal[k][i].receipt \in Receipt
           /\ \A i \in PreparedAt(k) : journal[k][i].call \in Calls
  <1>1. journal[k] \in Seq(Entry)
    BY DEF TypeOK
  <1>2. \A i \in DOMAIN journal[k] : journal[k][i] \in Entry
    BY <1>1
  <1>3. \A e \in Entry : (e.type = "terminal" => e.receipt \in Receipt)
                         /\ (e.type = "prepared" => e.call \in Calls)
    BY DEF Entry
  <1> QED
    BY <1>2, <1>3 DEF TerminalAt, PreparedAt

-----------------------------------------------------------------------------
(* Type correctness                                                        *)

\* Every receipt the gateway builds for a call is a receipt.
LEMMA ReceiptTypes ==
    ASSUME NEW c \in Calls
    PROVE  /\ Rejected(c) \in Receipt
           /\ BeforeWrite(c) \in Receipt
           /\ Failed(c) \in Receipt
           /\ Indeterminate(c) \in Receipt
           /\ Succeeded(c) \in Receipt
  <1>1. c.fp \in Fingerprints /\ c.mutating \in BOOLEAN
    BY CallAssumption DEF Call
  <1> QED
    BY <1>1 DEF Receipt, Status, ReceiptOf, Rejected, BeforeWrite, Failed,
                Indeterminate, Succeeded

\* Revising a receipt yields a receipt.
LEMMA RevisedTypes ==
    ASSUME NEW r \in Receipt, NEW a \in BOOLEAN
    PROVE  /\ Uncertain(r) \in Receipt
           /\ ReconciledReceipt(r, a) \in Receipt
  BY DEF Receipt, Status, Uncertain, ReconciledReceipt, ReceiptOf

\* An append, acknowledged or not, keeps the journal a journal.
LEMMA AppendTypes ==
    ASSUME TypeOK, NEW k \in Keys, NEW e \in Entry, NEW o, AppendEntry(k, e, o)
    PROVE  journal' \in [Keys -> Seq(Entry)] /\ faults' \in Nat
  <1>1. Append(journal[k], e) \in Seq(Entry)
    BY DEF TypeOK
  <1> QED
    BY <1>1 DEF TypeOK, AppendEntry

\* What recover() puts in the cache is a receipt or nothing.
LEMMA RecoveredTypes ==
    ASSUME TypeOK, NEW k \in Keys
    PROVE  RecoveredReceipt(k) \in Receipt \cup {NoReceipt}
  BY LastEntry, EntryKinds, ReceiptTypes DEF RecoveredReceipt

(***************************************************************************)
(* TypeOK is not inductive by itself: a step that records needs the call   *)
(* and the receipt of the operation in flight.  Shape adds what the code   *)
(* relies on without checking it.                                          *)
(***************************************************************************)

\* A key in flight has its call and no receipt yet; only a running process has
\* operations in flight.
InFlight ==
    \A k \in Keys : pc[k] # "idle" =>
        /\ up
        /\ receipts[k] = NoReceipt
        /\ cur[k] \in Calls
        /\ cur[k].key = k
        /\ pc[k] = "recording" => out[k] \in Receipt /\ out[k].mutating = cur[k].mutating

\* A reconcile() in progress is about a key that has a receipt.
Reconciling ==
    \A p \in Reconcilers : recon[p].pc # "idle" => up /\ receipts[recon[p].key] # NoReceipt

\* A dead process has no receipts in memory.
Down == ~up => \A k \in Keys : receipts[k] = NoReceipt

Shape == TypeOK /\ InFlight /\ Reconciling /\ Down

Stage == {"idle", "denying", "allowing", "preparing", "starting", "handling", "recording"}

\* The types of what an operation in flight moves, apart from the rest.
LEMMA OperationTypes ==
    ASSUME Shape
    PROVE  /\ pc \in [Keys -> Stage]
           /\ cur \in [Keys -> Calls \cup {NoCall}]
           /\ out \in [Keys -> Receipt \cup {NoReceipt}]
           /\ work \in [Keys -> {"none", "running", "applied", "over"}]
           /\ invoked \in [Keys -> Nat]
           /\ effects \in [Keys -> Nat]
           /\ spent \in [LeaseIds -> Nat]
           /\ read \in [LeaseIds -> Nat]
  BY DEF Shape, TypeOK, Stage

\* The facts about the parameters that the steps below use.
LEMMA CallFields ==
    ASSUME NEW c \in Calls
    PROVE  /\ c.key \in Keys
           /\ c.mutating \in BOOLEAN
           /\ SingleUseLeases(c) \subseteq LeaseIds
           /\ [type |-> "decision", call |-> c] \in Entry
           /\ [type |-> "prepared", call |-> c] \in Entry
  BY CallAssumption DEF Call, SingleUseLeases, Lease, Entry

LEMMA TerminalEntry ==
    ASSUME NEW r \in Receipt
    PROVE  [type |-> "terminal", receipt |-> r] \in Entry
  BY DEF Entry

\* Moving one key's operation keeps InFlight when its own clause holds after.
LEMMA InFlightOneKey ==
    ASSUME Shape, NEW k \in Keys,
           \A j \in Keys \ {k} : pc'[j] = pc[j] /\ cur'[j] = cur[j] /\ out'[j] = out[j],
           up' = up, receipts' = receipts,
           pc'[k] # "idle" =>
             /\ up
             /\ receipts[k] = NoReceipt
             /\ cur'[k] \in Calls
             /\ cur'[k].key = k
             /\ pc'[k] = "recording" => out'[k] \in Receipt /\ out'[k].mutating = cur'[k].mutating
    PROVE  InFlight'
  BY DEF Shape, InFlight

LEMMA ShapeExecute ==
    ASSUME Shape, NEW c \in Calls, Execute(c)
    PROVE  Shape'
  <1>1. Rejected(c) \in Receipt /\ Rejected(c).mutating = c.mutating
    BY ReceiptTypes DEF Rejected, ReceiptOf
  <1>2. TypeOK'
    <2>1. consumed' \subseteq LeaseIds
      BY CallFields DEF Shape, TypeOK, Execute, Consume
    <2>2. /\ cur' \in [Keys -> Calls \cup {NoCall}]
          /\ out' \in [Keys -> Receipt \cup {NoReceipt}]
      <3>1. cur' = [cur EXCEPT ![c.key] = c]
        BY DEF Execute
      <3>2. out' = out \/ out' = [out EXCEPT ![c.key] = Rejected(c)]
        BY DEF Execute, GoRecord
      <3>3. cur' \in [Keys -> Calls \cup {NoCall}]
        BY <3>1, CallFields, OperationTypes
      <3>4. out' \in [Keys -> Receipt \cup {NoReceipt}]
        BY <1>1, <3>2, CallFields, OperationTypes
      <3> QED
        BY <3>3, <3>4
    <2>3. pc' \in [Keys -> Stage]
      BY CallFields, OperationTypes DEF Execute, GoRecord, Stage
    <2> QED
      BY <2>1, <2>2, <2>3 DEF Shape, TypeOK, Execute, history, Stage
  <1>3. InFlight'
    <2>1. c.key \in Keys /\ up /\ receipts[c.key] = NoReceipt /\ up' = up /\ receipts' = receipts
      BY CallFields DEF Execute
    <2>2. cur' = [cur EXCEPT ![c.key] = c]
      BY DEF Execute
    <2>3. \/ GoRecord(c.key, Rejected(c))
          \/ pc' \in {[pc EXCEPT ![c.key] = "allowing"], [pc EXCEPT ![c.key] = "denying"]} /\ out' = out
      BY DEF Execute
    <2>4. /\ \A j \in Keys \ {c.key} : pc'[j] = pc[j] /\ cur'[j] = cur[j] /\ out'[j] = out[j]
          /\ cur'[c.key] = c
          /\ pc'[c.key] = "recording" => out'[c.key] = Rejected(c)
      BY <2>1, <2>2, <2>3, OperationTypes DEF GoRecord
    <2> QED
      BY <1>1, <2>1, <2>4, InFlightOneKey
  <1>4. Reconciling' /\ Down'
    BY DEF Shape, Reconciling, Down, Execute
  <1> QED
    BY <1>2, <1>3, <1>4 DEF Shape

LEMMA ShapeRecordDecision ==
    ASSUME Shape, NEW k \in Keys, NEW o, RecordDecision(k, o)
    PROVE  Shape'
  <1>1. cur[k] \in Calls /\ cur[k].key = k
    BY DEF Shape, InFlight, RecordDecision
  <1>2. Rejected(cur[k]) \in Receipt /\ Rejected(cur[k]).mutating = cur[k].mutating
    BY <1>1, ReceiptTypes DEF Rejected, ReceiptOf
  <1>3. journal' \in [Keys -> Seq(Entry)] /\ faults' \in Nat
    BY <1>1, CallFields, AppendTypes DEF Shape, RecordDecision
  <1>4. TypeOK'
    <2>1. /\ cur' \in [Keys -> Calls \cup {NoCall}]
          /\ out' \in [Keys -> Receipt \cup {NoReceipt}]
      <3>1. cur' = cur \/ cur' = [cur EXCEPT ![k] = NoCall]
        BY DEF RecordDecision, Finish
      <3>2. \/ out' = out
            \/ out' = [out EXCEPT ![k] = NoReceipt]
            \/ out' = [out EXCEPT ![k] = Rejected(cur[k])]
        BY DEF RecordDecision, Finish, GoRecord
      <3> QED
        BY <1>2, <3>1, <3>2, OperationTypes
    <2>2. pc' \in [Keys -> Stage]
      BY OperationTypes DEF RecordDecision, Finish, GoRecord, Stage
    <2> QED
      BY <1>3, <2>1, <2>2 DEF Shape, TypeOK, RecordDecision, history, Stage
  <1>5. InFlight'
    <2>1. up /\ receipts[k] = NoReceipt /\ pc[k] # "recording"
      BY DEF Shape, InFlight, RecordDecision
    <2> QED
      BY <1>1, <1>2, <2>1, InFlightOneKey DEF Shape, TypeOK, RecordDecision, Finish, GoRecord
  <1>6. Reconciling' /\ Down'
    BY DEF Shape, Reconciling, Down, RecordDecision
  <1> QED
    BY <1>4, <1>5, <1>6 DEF Shape

LEMMA ShapeRecordPrepared ==
    ASSUME Shape, NEW k \in Keys, NEW o, RecordPrepared(k, o)
    PROVE  Shape'
  <1>1. cur[k] \in Calls /\ cur[k].key = k
    BY DEF Shape, InFlight, RecordPrepared
  <1>2. journal' \in [Keys -> Seq(Entry)] /\ faults' \in Nat
    BY <1>1, CallFields, AppendTypes DEF Shape, RecordPrepared
  <1>3. TypeOK'
    BY <1>1, <1>2 DEF Shape, TypeOK, RecordPrepared, Finish, history
  <1>4. InFlight'
    BY <1>1 DEF Shape, InFlight, TypeOK, RecordPrepared, Finish
  <1>5. Reconciling' /\ Down'
    BY DEF Shape, Reconciling, Down, RecordPrepared
  <1> QED
    BY <1>3, <1>4, <1>5 DEF Shape

LEMMA ShapeStartHandler ==
    ASSUME Shape, NEW k \in Keys, StartHandler(k)
    PROVE  Shape'
  <1>1. cur[k] \in Calls /\ cur[k].key = k
    BY DEF Shape, InFlight, StartHandler
  <1>2. Indeterminate(cur[k]) \in Receipt /\ Indeterminate(cur[k]).mutating = cur[k].mutating
    BY <1>1, ReceiptTypes DEF Indeterminate, ReceiptOf
  <1>3. TypeOK'
    <2>1. /\ out' \in [Keys -> Receipt \cup {NoReceipt}]
          /\ pc' \in [Keys -> Stage]
      BY <1>2, OperationTypes DEF StartHandler, GoRecord, Stage
    <2>2. /\ work' \in [Keys -> {"none", "running", "applied", "over"}]
          /\ invoked' \in [Keys -> Nat]
      <3>1. work' = work \/ work' = [work EXCEPT ![k] = "running"]
        BY DEF StartHandler
      <3>2. invoked' = invoked \/ invoked' = [invoked EXCEPT ![k] = @ + 1]
        BY DEF StartHandler
      <3> QED
        BY <3>1, <3>2, OperationTypes
    <2>3. spent' \in [LeaseIds -> Nat] /\ read' \in [LeaseIds -> Nat]
      BY OperationTypes DEF StartHandler
    <2> QED
      BY <2>1, <2>2, <2>3 DEF Shape, TypeOK, StartHandler, Stage
  <1>4. InFlight'
    BY <1>1, <1>2 DEF Shape, InFlight, TypeOK, StartHandler, GoRecord
  <1>5. Reconciling' /\ Down'
    BY DEF Shape, Reconciling, Down, StartHandler
  <1> QED
    BY <1>3, <1>4, <1>5 DEF Shape

LEMMA ShapePerformEffect ==
    ASSUME Shape, NEW k \in Keys, PerformEffect(k)
    PROVE  Shape'
  BY DEF Shape, TypeOK, InFlight, Reconciling, Down, PerformEffect, memory

LEMMA ShapeHandlerReturns ==
    ASSUME Shape, NEW k \in Keys, HandlerReturns(k) \/ HandlerTimeout(k)
    PROVE  Shape'
  <1>1. cur[k] \in Calls /\ cur[k].key = k
    BY DEF Shape, InFlight, HandlerReturns, HandlerTimeout
  <1> DEFINE answers == {Succeeded(cur[k]), BeforeWrite(cur[k]), Indeterminate(cur[k]), Failed(cur[k])}
  <1>2. \A r \in answers : r \in Receipt /\ r.mutating = cur[k].mutating
    <2>1. \A r \in answers : r \in Receipt
      BY <1>1, ReceiptTypes
    <2>2. \A r \in answers : r.mutating = cur[k].mutating
      BY DEF Succeeded, BeforeWrite, Indeterminate, Failed, ReceiptOf
    <2> QED
      BY <2>1, <2>2
  <1>3. PICK r \in answers : GoRecord(k, r)
    BY DEF HandlerReturns, HandlerTimeout
  <1>4. work' \in [Keys -> {"none", "running", "applied", "over"}]
    <2>1. work' = work \/ work' = [work EXCEPT ![k] = "over"]
      BY DEF HandlerReturns, HandlerTimeout
    <2> QED
      BY <2>1, OperationTypes
  <1>5. UNCHANGED <<now, consumed, up, receipts, live, cur, recon, journal,
                    faults, crashes, history>>
    BY DEF HandlerReturns, HandlerTimeout
  <1> HIDE DEF answers
  <1>6. TypeOK'
    BY <1>2, <1>3, <1>4, <1>5 DEF Shape, TypeOK, GoRecord, history
  <1>7. InFlight'
    <2>1. up /\ receipts[k] = NoReceipt
      BY DEF Shape, InFlight, HandlerReturns, HandlerTimeout
    <2> QED
      BY <1>1, <1>2, <1>3, <1>5, <2>1, InFlightOneKey DEF Shape, TypeOK, GoRecord
  <1>8. Reconciling' /\ Down'
    BY <1>5 DEF Shape, Reconciling, Down
  <1> QED
    BY <1>6, <1>7, <1>8 DEF Shape

\* Writing a receipt for a key that no operation holds, or whose operation ends,
\* keeps InFlight, Reconciling and Down.
LEMMA ShapeCache ==
    ASSUME Shape, up, up' = up, NEW k \in Keys, NEW r \in Receipt,
           receipts' = [receipts EXCEPT ![k] = r],
           pc'[k] = "idle",
           \A j \in Keys \ {k} : pc'[j] = pc[j] /\ cur'[j] = cur[j] /\ out'[j] = out[j],
           \A p \in Reconcilers : recon'[p] = recon[p] \/ recon'[p] = IdleReconcile
    PROVE  InFlight' /\ Reconciling' /\ Down'
  <1>1. r # NoReceipt
    BY CallAssumption
  <1>2. receipts \in [Keys -> Receipt \cup {NoReceipt}] /\ recon \in [Reconcilers -> Reconcile]
    BY DEF Shape, TypeOK
  <1>3. \A j \in Keys : receipts'[j] = IF j = k THEN r ELSE receipts[j]
    BY <1>2
  <1>4. InFlight'
    BY <1>3 DEF Shape, InFlight
  <1>5. Reconciling'
    <2> SUFFICES ASSUME NEW p \in Reconcilers, recon'[p].pc # "idle"
                 PROVE  up' /\ receipts'[recon'[p].key] # NoReceipt
      BY DEF Reconciling
    <2>1. recon'[p] = recon[p]
      BY DEF IdleReconcile
    <2>2. recon[p].key \in Keys /\ receipts[recon[p].key] # NoReceipt
      BY <1>2, <2>1 DEF Shape, Reconciling, Reconcile, IdleReconcile
    <2> QED
      BY <1>1, <1>3, <2>1, <2>2
  <1> QED
    BY <1>4, <1>5 DEF Down

LEMMA ShapeRecordTerminal ==
    ASSUME Shape, NEW k \in Keys, NEW o, RecordTerminal(k, o)
    PROVE  Shape'
  <1>1. /\ cur[k] \in Calls /\ cur[k].key = k /\ up /\ receipts[k] = NoReceipt
        /\ out[k] \in Receipt /\ out[k].mutating = cur[k].mutating
    BY DEF Shape, InFlight, RecordTerminal
  <1>2. Failed(cur[k]) \in Receipt /\ Failed(cur[k]).mutating = cur[k].mutating
    BY <1>1, ReceiptTypes DEF Failed, ReceiptOf
  <1>3. journal' \in [Keys -> Seq(Entry)] /\ faults' \in Nat
    BY <1>1, TerminalEntry, AppendTypes DEF Shape, RecordTerminal
  <1>4. Uncertain(out[k]) \in Receipt
    BY <1>1, RevisedTypes
  <1>5. UNCHANGED <<now, consumed, up, recon, work, crashes, effects, invoked, spent, read>>
    BY DEF RecordTerminal
  <1>6. CASE \E r \in {out[k], Uncertain(out[k])} : CacheLive(k, r) /\ Finish(k)
    <2>1. PICK r \in Receipt : CacheLive(k, r) /\ Finish(k)
      BY <1>1, <1>4, <1>6
    <2>2. pc' \in [Keys -> Stage] /\ cur' \in [Keys -> Calls \cup {NoCall}]
          /\ out' \in [Keys -> Receipt \cup {NoReceipt}]
      BY <2>1, OperationTypes DEF Finish, Stage
    <2>3. receipts' \in [Keys -> Receipt \cup {NoReceipt}] /\ live' \subseteq Keys
      BY <2>1 DEF CacheLive, Shape, TypeOK
    <2>4. denied' \subseteq Keys /\ confirmed' \subseteq Keys
      BY <2>1 DEF CacheLive, Tell, Shape, TypeOK
    <2>5. TypeOK'
      BY <1>3, <1>5, <2>2, <2>3, <2>4 DEF Shape, TypeOK, Stage
    <2>6. /\ pc'[k] = "idle"
          /\ \A j \in Keys \ {k} : pc'[j] = pc[j] /\ cur'[j] = cur[j] /\ out'[j] = out[j]
      BY <2>1, OperationTypes DEF Finish
    <2>7. InFlight' /\ Reconciling' /\ Down'
      BY <1>1, <1>5, <2>1, <2>6, ShapeCache DEF CacheLive
    <2> QED
      BY <2>5, <2>7 DEF Shape
  <1>7. CASE /\ (GoRecord(k, Failed(cur[k])) /\ cur' = cur) \/ Finish(k)
             /\ UNCHANGED <<receipts, live, denied, confirmed>>
    <2>1. pc' \in [Keys -> Stage]
      BY <1>7, OperationTypes DEF GoRecord, Finish, Stage
    <2>2. cur' \in [Keys -> Calls \cup {NoCall}] /\ out' \in [Keys -> Receipt \cup {NoReceipt}]
      BY <1>2, <1>7, OperationTypes DEF GoRecord, Finish
    <2>3. TypeOK'
      BY <1>3, <1>5, <1>7, <2>1, <2>2 DEF Shape, TypeOK, Stage
    <2>4. /\ \A j \in Keys \ {k} : pc'[j] = pc[j] /\ cur'[j] = cur[j] /\ out'[j] = out[j]
          /\ pc'[k] # "idle" => cur'[k] = cur[k] /\ out'[k] = Failed(cur[k])
      BY <1>7, OperationTypes DEF GoRecord, Finish
    <2>5. InFlight'
      BY <1>1, <1>2, <1>5, <1>7, <2>4, InFlightOneKey
    <2>6. Reconciling' /\ Down'
      BY <1>5, <1>7 DEF Shape, Reconciling, Down
    <2> QED
      BY <2>3, <2>5, <2>6 DEF Shape
  <1> QED
    BY <1>6, <1>7 DEF RecordTerminal

LEMMA ShapeReconcileBegin ==
    ASSUME Shape, NEW p \in Reconcilers, NEW k \in Keys, ReconcileBegin(p, k)
    PROVE  Shape'
  <1> DEFINE q == [pc |-> "query", key |-> k, live |-> k \in live, receipt |-> NoReceipt]
  <1>1. q \in Reconcile
    BY DEF Reconcile
  <1>2. recon' = [recon EXCEPT ![p] = q] /\ up /\ receipts[k] # NoReceipt
    BY DEF ReconcileBegin, NeedsReconcile
  <1>3. UNCHANGED <<now, consumed, up, receipts, live, pc, cur, out, journal, work,
                    faults, crashes, history>>
    BY DEF ReconcileBegin
  <1>4. recon' \in [Reconcilers -> Reconcile]
    BY <1>1, <1>2 DEF Shape, TypeOK
  <1>5. TypeOK' /\ InFlight' /\ Down'
    BY <1>3, <1>4 DEF Shape, TypeOK, InFlight, Down, history
  <1>6. recon \in [Reconcilers -> Reconcile]
    BY DEF Shape, TypeOK
  <1>7. Reconciling'
    BY <1>2, <1>3, <1>6 DEF Shape, Reconciling
  <1> QED
    BY <1>5, <1>7 DEF Shape

LEMMA ShapeReconcileAnswer ==
    ASSUME Shape, NEW p \in Reconcilers, ReconcileAnswer(p)
    PROVE  Shape'
  <1> DEFINE k == recon[p].key
             a(b) == [pc |-> "record", key |-> k, live |-> recon[p].live,
                      receipt |-> ReconciledReceipt(receipts[k], b)]
  <1>1. recon \in [Reconcilers -> Reconcile] /\ receipts \in [Keys -> Receipt \cup {NoReceipt}]
    BY DEF Shape, TypeOK
  <1>2. k \in Keys /\ recon[p].live \in BOOLEAN /\ recon[p].pc = "query"
    BY <1>1 DEF ReconcileAnswer, Reconcile, IdleReconcile
  <1>3. up /\ receipts[k] \in Receipt /\ receipts[k] # NoReceipt
    BY <1>1, <1>2 DEF Shape, Reconciling
  <1>4. a(TRUE) \in Reconcile /\ a(FALSE) \in Reconcile
    BY <1>2, <1>3, RevisedTypes DEF Reconcile
  <1>5. PICK n \in {a(TRUE), a(FALSE), IdleReconcile} : recon' = [recon EXCEPT ![p] = n]
    BY DEF ReconcileAnswer
  <1>6. UNCHANGED <<now, consumed, up, receipts, live, pc, cur, out, journal, work,
                    faults, crashes, history>>
    BY DEF ReconcileAnswer
  <1>7. n \in Reconcile /\ (n.pc # "idle" => n.key = k)
    <2>1. IdleReconcile \in Reconcile /\ IdleReconcile.pc = "idle"
      BY DEF IdleReconcile, Reconcile
    <2>2. a(TRUE).key = k /\ a(FALSE).key = k
      OBVIOUS
    <2> QED
      BY <1>4, <2>1, <2>2
  <1>8. recon' \in [Reconcilers -> Reconcile]
    BY <1>1, <1>5, <1>7
  <1>9. TypeOK' /\ InFlight' /\ Down'
    BY <1>6, <1>8 DEF Shape, TypeOK, InFlight, Down, history
  <1>10. Reconciling'
    BY <1>1, <1>3, <1>5, <1>6, <1>7 DEF Shape, Reconciling
  <1> QED
    BY <1>9, <1>10 DEF Shape

LEMMA ShapeReconcileRecord ==
    ASSUME Shape, NEW p \in Reconcilers, NEW o, ReconcileRecord(p, o)
    PROVE  Shape'
  <1> DEFINE k == recon[p].key
             r == recon[p].receipt
  <1>1. recon \in [Reconcilers -> Reconcile] /\ receipts \in [Keys -> Receipt \cup {NoReceipt}]
    BY DEF Shape, TypeOK
  <1>2. k \in Keys /\ r \in Receipt /\ recon[p].pc = "record"
    BY <1>1 DEF ReconcileRecord, Reconcile, IdleReconcile
  <1>3. up /\ receipts[k] # NoReceipt /\ pc[k] = "idle"
    BY <1>2 DEF Shape, Reconciling, InFlight
  <1>4. journal' \in [Keys -> Seq(Entry)] /\ faults' \in Nat
    BY <1>2, TerminalEntry, AppendTypes DEF Shape, ReconcileRecord
  <1>5. recon' = [recon EXCEPT ![p] = IdleReconcile]
    BY DEF ReconcileRecord
  <1>6. recon' \in [Reconcilers -> Reconcile]
    BY <1>1, <1>5 DEF Reconcile
  <1>7. UNCHANGED <<now, consumed, up, live, pc, cur, out, work, crashes,
                    effects, invoked, spent, read>>
    BY DEF ReconcileRecord
  <1>8. denied' \subseteq Keys /\ confirmed' \subseteq Keys
    BY <1>2 DEF ReconcileRecord, Tell, Shape, TypeOK
  <1>9. \/ receipts' = receipts
        \/ \E t \in Receipt : receipts' = [receipts EXCEPT ![k] = t]
    BY <1>2, RevisedTypes DEF ReconcileRecord
  <1>10. receipts' \in [Keys -> Receipt \cup {NoReceipt}]
    BY <1>1, <1>9
  <1>11. TypeOK'
    BY <1>4, <1>6, <1>7, <1>8, <1>10 DEF Shape, TypeOK
  <1>12. \A q \in Reconcilers : recon'[q] = recon[q] \/ recon'[q] = IdleReconcile
    BY <1>1, <1>5
  <1>13. CASE receipts' = receipts
    BY <1>7, <1>11, <1>12, <1>13 DEF Shape, InFlight, Reconciling, Down, IdleReconcile
  <1>14. CASE \E t \in Receipt : receipts' = [receipts EXCEPT ![k] = t]
    <2>1. PICK t \in Receipt : receipts' = [receipts EXCEPT ![k] = t]
      BY <1>14
    <2>2. InFlight' /\ Reconciling' /\ Down'
      BY <1>2, <1>3, <1>7, <1>12, <2>1, ShapeCache
    <2> QED
      BY <1>11, <2>2 DEF Shape
  <1> QED
    BY <1>9, <1>13, <1>14

LEMMA ShapeCrashRecoverTick ==
    ASSUME Shape, Crash \/ Recover \/ Tick
    PROVE  Shape'
  <1>1. CASE Crash
    <2>1. /\ recon' \in [Reconcilers -> Reconcile]
          /\ \A p \in Reconcilers : recon'[p].pc = "idle"
      BY <1>1 DEF Crash, Reconcile, IdleReconcile
    <2>2. /\ receipts' \in [Keys -> Receipt \cup {NoReceipt}]
          /\ out' \in [Keys -> Receipt \cup {NoReceipt}]
          /\ cur' \in [Keys -> Calls \cup {NoCall}]
          /\ pc' \in [Keys -> Stage]
      BY <1>1 DEF Crash, Stage
    <2>3. TypeOK'
      <3>1. consumed' \subseteq LeaseIds /\ live' \subseteq Keys /\ up' \in BOOLEAN
        BY <1>1 DEF Crash
      <3>2. crashes' \in Nat
        BY <1>1 DEF Crash, Shape, TypeOK
      <3>3. UNCHANGED <<now, journal, work, faults, effects, invoked, spent, read, denied, confirmed>>
        BY <1>1 DEF Crash, history
      <3> QED
        BY <2>1, <2>2, <3>1, <3>2, <3>3 DEF Shape, TypeOK, Stage
    <2>4. InFlight' /\ Reconciling' /\ Down'
      BY <1>1, <2>1 DEF Crash, InFlight, Reconciling, Down
    <2> QED
      BY <2>3, <2>4 DEF Shape
  <1>2. CASE Recover
    <2>1. receipts' \in [Keys -> Receipt \cup {NoReceipt}]
      BY <1>2, RecoveredTypes DEF Recover, Shape
    <2>2. consumed' \subseteq LeaseIds
      BY <1>2 DEF Recover, JournaledLeases, Shape, TypeOK
    <2>3. TypeOK'
      BY <1>2, <2>1, <2>2 DEF Recover, Shape, TypeOK, history
    <2>4. InFlight' /\ Reconciling' /\ Down'
      BY <1>2 DEF Recover, Shape, InFlight, Reconciling, Down
    <2> QED
      BY <2>3, <2>4 DEF Shape
  <1>3. CASE Tick
    BY <1>3 DEF Tick, Shape, TypeOK, InFlight, Reconciling, Down, memory, history
  <1> QED
    BY <1>1, <1>2, <1>3

LEMMA ShapeInit == Init => Shape
  BY DEF Init, Shape, TypeOK, InFlight, Reconciling, Down, Reconcile, IdleReconcile

LEMMA ShapeNext == Shape /\ [Next]_vars => Shape'
  <1> SUFFICES ASSUME Shape, [Next]_vars PROVE Shape'
    OBVIOUS
  <1>1. CASE UNCHANGED vars
    BY <1>1 DEF vars, memory, history, Shape, TypeOK, InFlight, Reconciling, Down
  <1>2. CASE Next
    BY <1>2, ShapeExecute, ShapeRecordDecision, ShapeRecordPrepared, ShapeRecordTerminal,
       ShapeStartHandler, ShapePerformEffect, ShapeHandlerReturns, ShapeReconcileBegin,
       ShapeReconcileAnswer, ShapeReconcileRecord, ShapeCrashRecoverTick DEF Next
  <1> QED
    BY <1>1, <1>2

LEMMA ShapeAlways == Spec => []Shape
  BY ShapeInit, ShapeNext, PTL DEF Spec

\* The gateway's memory, journal and history keep their types through every
\* step of execute(), reconcile(), the handlers, crashes and recover().
THEOREM TypeCorrect == Spec => []TypeOK
  <1>1. Shape => TypeOK
    BY DEF Shape
  <1> QED
    BY <1>1, ShapeAlways, PTL

-----------------------------------------------------------------------------
(***************************************************************************)
(* At most one mutating invocation per key.  AtMostOnce alone is not       *)
(* inductive: what stops a second invocation is the receipt cached when    *)
(* the first one ended, and after a restart the prepared entry from which  *)
(* recover() rebuilds that receipt.  Accounting says so.                   *)
(***************************************************************************)

\* A mutation was prepared on disk before its handler could be invoked.
PreparedFirst ==
    \A k \in Keys : invoked[k] > 0 \/ (pc[k] = "starting" /\ cur[k].mutating)
                        => PreparedAt(k) # {}

\* A running gateway has not forgotten an invoked mutation: it holds a receipt
\* or the operation is still under way, past the invocation.
Accounted ==
    \A k \in Keys : up /\ invoked[k] > 0 =>
        \/ receipts[k] # NoReceipt
        \/ pc[k] \in {"handling", "recording"} /\ cur[k].mutating

\* Effects come from invoked handlers only.
EffectsInvoked ==
    \A k \in Keys : effects[k] > 0 \/ work[k] = "running" => invoked[k] > 0

Accounting == PreparedFirst /\ Accounted /\ EffectsInvoked /\ AtMostOnce

\* An append never removes a prepared entry, and leaves the entry it flushed.
LEMMA AppendPrepared ==
    ASSUME TypeOK, NEW k \in Keys, NEW e \in Entry, NEW o, AppendEntry(k, e, o)
    PROVE  /\ \A j \in Keys : PreparedAt(j) # {} => PreparedAt(j)' # {}
           /\ o # "lost" /\ e.type = "prepared" => PreparedAt(k)' # {}
  <1>1. journal \in [Keys -> Seq(Entry)]
    BY DEF TypeOK
  <1>2. CASE o = "lost"
    BY <1>2 DEF AppendEntry, PreparedAt
  <1>3. CASE o # "lost"
    <2>1. journal' = [journal EXCEPT ![k] = Append(journal[k], e)]
      BY <1>3 DEF AppendEntry
    <2>2. journal[k] \in Seq(Entry)
      BY <1>1
    <2>3. /\ DOMAIN Append(journal[k], e) = 1..(Len(journal[k]) + 1)
          /\ Append(journal[k], e)[Len(journal[k]) + 1] = e
          /\ \A i \in 1..Len(journal[k]) : Append(journal[k], e)[i] = journal[k][i]
          /\ DOMAIN journal[k] = 1..Len(journal[k])
          /\ Len(journal[k]) \in Nat
      BY <2>2
    <2>4. journal'[k] = Append(journal[k], e) /\ \A j \in Keys \ {k} : journal'[j] = journal[j]
      BY <1>1, <2>1
    <2>5. \A j \in Keys : PreparedAt(j) # {} => PreparedAt(j)' # {}
      <3> SUFFICES ASSUME NEW j \in Keys, NEW i \in PreparedAt(j) PROVE i \in PreparedAt(j)'
        OBVIOUS
      <3>1. CASE j = k
        <4>1. i \in 1..Len(journal[k]) /\ journal[k][i].type = "prepared"
          BY <2>3, <3>1 DEF PreparedAt
        <4>2. i \in DOMAIN journal'[k] /\ journal'[k][i].type = "prepared"
          BY <2>3, <2>4, <4>1
        <4> QED
          BY <3>1, <4>2 DEF PreparedAt
      <3>2. CASE j # k
        BY <2>4, <3>2 DEF PreparedAt
      <3> QED
        BY <3>1, <3>2
    <2>6. ASSUME e.type = "prepared" PROVE PreparedAt(k)' # {}
      <3>1. Len(journal[k]) + 1 \in DOMAIN journal'[k]
        BY <2>3, <2>4
      <3>2. journal'[k][Len(journal[k]) + 1].type = "prepared"
        BY <2>3, <2>4, <2>6
      <3> QED
        BY <3>1, <3>2 DEF PreparedAt
    <2> QED
      BY <2>5, <2>6
  <1> QED
    BY <1>2, <1>3

\* A step of one key that invokes no handler keeps Accounting when it keeps the
\* key's own clauses.
LEMMA AccountingFrame ==
    ASSUME Accounting, NEW k \in Keys,
           invoked' = invoked, up' = up,
           \A j \in Keys : PreparedAt(j) # {} => PreparedAt(j)' # {},
           \A j \in Keys : effects'[j] > 0 \/ work'[j] = "running"
                             => effects[j] > 0 \/ work[j] = "running",
           \A j \in Keys : receipts[j] # NoReceipt => receipts'[j] # NoReceipt,
           \A j \in Keys \ {k} : pc'[j] = pc[j] /\ cur'[j] = cur[j],
           pc'[k] = "starting" /\ cur'[k].mutating => PreparedAt(k)' # {},
           up /\ invoked[k] > 0 =>
             receipts'[k] # NoReceipt \/ (pc'[k] \in {"handling", "recording"} /\ cur'[k].mutating)
    PROVE  Accounting'
  <1>1. PreparedFirst'
    BY DEF Accounting, PreparedFirst
  <1>2. Accounted'
    BY DEF Accounting, Accounted
  <1>3. EffectsInvoked' /\ AtMostOnce'
    BY DEF Accounting, EffectsInvoked, AtMostOnce
  <1> QED
    BY <1>1, <1>2, <1>3 DEF Accounting

\* An operation before its handler's invocation belongs to a key never invoked.
LEMMA NotYetInvoked ==
    ASSUME Shape, Accounting, NEW k \in Keys, up, receipts[k] = NoReceipt,
           pc[k] \notin {"handling", "recording"}
    PROVE  invoked[k] = 0
  BY DEF Shape, TypeOK, Accounting, Accounted

LEMMA AccountingExecute ==
    ASSUME Shape, Accounting, NEW c \in Calls, Execute(c)
    PROVE  Accounting'
  <1>1. c.key \in Keys
    BY CallFields
  <1>2. invoked[c.key] = 0
    BY <1>1, NotYetInvoked DEF Execute
  <1>3. /\ UNCHANGED <<up, receipts, journal, work, effects, invoked>>
        /\ cur' = [cur EXCEPT ![c.key] = c]
    BY DEF Execute, history
  <1>4. pc' = [pc EXCEPT ![c.key] = pc'[c.key]]
    BY <1>1, OperationTypes DEF Execute, GoRecord
  <1>5. pc'[c.key] # "starting"
    BY <1>1, OperationTypes DEF Execute, GoRecord
  <1>6. \A j \in Keys \ {c.key} : pc'[j] = pc[j] /\ cur'[j] = cur[j]
    BY <1>3, <1>4, OperationTypes
  <1>7. \A j \in Keys : PreparedAt(j) # {} => PreparedAt(j)' # {}
    BY <1>3 DEF PreparedAt
  <1> QED
    BY <1>1, <1>2, <1>3, <1>5, <1>6, <1>7, AccountingFrame

LEMMA AccountingRecordDecision ==
    ASSUME Shape, Accounting, NEW k \in Keys, NEW o, RecordDecision(k, o)
    PROVE  Accounting'
  <1>1. cur[k] \in Calls /\ up /\ receipts[k] = NoReceipt
    BY DEF Shape, InFlight, RecordDecision
  <1>2. invoked[k] = 0
    BY <1>1, NotYetInvoked DEF RecordDecision
  <1>3. UNCHANGED <<up, receipts, work, effects, invoked>>
    BY DEF RecordDecision, history
  <1>4. \A j \in Keys : PreparedAt(j) # {} => PreparedAt(j)' # {}
    BY <1>1, CallFields, AppendPrepared DEF Shape, RecordDecision
  <1>5. \A j \in Keys \ {k} : pc'[j] = pc[j] /\ cur'[j] = cur[j]
    BY OperationTypes DEF RecordDecision, Finish, GoRecord
  <1>6. pc'[k] = "starting" => ~cur'[k].mutating
    BY OperationTypes DEF RecordDecision, Finish, GoRecord
  <1> QED
    BY <1>2, <1>3, <1>4, <1>5, <1>6, AccountingFrame

LEMMA AccountingRecordPrepared ==
    ASSUME Shape, Accounting, NEW k \in Keys, NEW o, RecordPrepared(k, o)
    PROVE  Accounting'
  <1>1. cur[k] \in Calls /\ up /\ receipts[k] = NoReceipt
    BY DEF Shape, InFlight, RecordPrepared
  <1>2. invoked[k] = 0
    BY <1>1, NotYetInvoked DEF RecordPrepared
  <1>3. UNCHANGED <<up, receipts, work, effects, invoked>>
    BY DEF RecordPrepared, history
  <1>4. /\ \A j \in Keys : PreparedAt(j) # {} => PreparedAt(j)' # {}
        /\ o # "lost" => PreparedAt(k)' # {}
    BY <1>1, CallFields, AppendPrepared DEF Shape, RecordPrepared
  <1>5. \A j \in Keys \ {k} : pc'[j] = pc[j] /\ cur'[j] = cur[j]
    BY OperationTypes DEF RecordPrepared, Finish
  <1>6. pc'[k] = "starting" => o = "ok"
    BY OperationTypes DEF RecordPrepared, Finish
  <1> QED
    BY <1>2, <1>3, <1>4, <1>5, <1>6, AccountingFrame

LEMMA AccountingStartHandler ==
    ASSUME Shape, Accounting, NEW k \in Keys, StartHandler(k)
    PROVE  Accounting'
  <1>1. cur[k] \in Calls /\ up /\ receipts[k] = NoReceipt /\ pc[k] = "starting"
    BY DEF Shape, InFlight, StartHandler
  <1>2. invoked[k] = 0
    BY <1>1, NotYetInvoked
  <1>3. UNCHANGED <<up, receipts, journal, cur, effects>>
    BY DEF StartHandler
  <1>4. \A j \in Keys : PreparedAt(j)' = PreparedAt(j)
    BY <1>3 DEF PreparedAt
  <1>5. /\ \A j \in Keys \ {k} : pc'[j] = pc[j] /\ cur'[j] = cur[j]
        /\ pc'[k] \in {"handling", "recording"}
    BY <1>3, OperationTypes DEF StartHandler, GoRecord
  <1>6. CASE invoked' = invoked /\ work' = work
    BY <1>2, <1>3, <1>4, <1>5, <1>6, AccountingFrame
  <1>7. CASE /\ cur[k].mutating
             /\ invoked' = [invoked EXCEPT ![k] = @ + 1]
             /\ work' = [work EXCEPT ![k] = "running"]
    <2>1. /\ invoked'[k] = 1
          /\ \A j \in Keys \ {k} : invoked'[j] = invoked[j] /\ work'[j] = work[j]
      BY <1>2, <1>7, OperationTypes
    <2>2. PreparedAt(k) # {}
      BY <1>1, <1>7 DEF Accounting, PreparedFirst
    <2>3. PreparedFirst'
      BY <1>4, <1>5, <2>1, <2>2 DEF Accounting, PreparedFirst
    <2>4. Accounted'
      BY <1>3, <1>5, <1>7, <2>1 DEF Accounting, Accounted
    <2>5. EffectsInvoked' /\ AtMostOnce'
      BY <1>3, <2>1 DEF Accounting, EffectsInvoked, AtMostOnce
    <2> QED
      BY <2>3, <2>4, <2>5 DEF Accounting
  <1>8. \/ invoked' = invoked /\ work' = work
        \/ /\ cur[k].mutating
           /\ invoked' = [invoked EXCEPT ![k] = @ + 1]
           /\ work' = [work EXCEPT ![k] = "running"]
    BY DEF StartHandler
  <1> QED
    BY <1>6, <1>7, <1>8

LEMMA AccountingPerformEffect ==
    ASSUME Shape, Accounting, NEW k \in Keys, PerformEffect(k)
    PROVE  Accounting'
  <1>1. UNCHANGED <<up, receipts, pc, cur, journal, invoked>>
    BY DEF PerformEffect, memory
  <1>2. \A j \in Keys : effects'[j] > 0 \/ work'[j] = "running"
                          => effects[j] > 0 \/ work[j] = "running"
    BY OperationTypes DEF PerformEffect
  <1>3. \A j \in Keys : PreparedAt(j)' = PreparedAt(j)
    BY <1>1 DEF PreparedAt
  <1>4. PreparedFirst' /\ Accounted' /\ AtMostOnce'
    BY <1>1, <1>3 DEF Accounting, PreparedFirst, Accounted, AtMostOnce
  <1>5. EffectsInvoked'
    BY <1>1, <1>2 DEF Accounting, EffectsInvoked
  <1> QED
    BY <1>4, <1>5 DEF Accounting

LEMMA AccountingHandlerReturns ==
    ASSUME Shape, Accounting, NEW k \in Keys, HandlerReturns(k) \/ HandlerTimeout(k)
    PROVE  Accounting'
  <1>1. UNCHANGED <<up, receipts, cur, journal, effects, invoked>>
    BY DEF HandlerReturns, HandlerTimeout, history
  <1>2. /\ \A j \in Keys \ {k} : pc'[j] = pc[j] /\ cur'[j] = cur[j]
        /\ pc[k] = "handling" /\ pc'[k] = "recording"
    BY <1>1, OperationTypes DEF HandlerReturns, HandlerTimeout, GoRecord
  <1>3. \A j \in Keys : work'[j] = "running" => work[j] = "running"
    BY OperationTypes DEF HandlerReturns, HandlerTimeout
  <1>4. \A j \in Keys : PreparedAt(j) # {} => PreparedAt(j)' # {}
    BY <1>1 DEF PreparedAt
  <1>5. up /\ invoked[k] > 0 => receipts'[k] # NoReceipt \/ cur'[k].mutating
    BY <1>1 DEF Accounting, Accounted
  <1> QED
    BY <1>1, <1>2, <1>3, <1>4, <1>5, AccountingFrame

LEMMA AccountingRecordTerminal ==
    ASSUME Shape, Accounting, NEW k \in Keys, NEW o, RecordTerminal(k, o)
    PROVE  Accounting'
  <1>1. cur[k] \in Calls /\ up /\ receipts[k] = NoReceipt /\ out[k] \in Receipt
    BY DEF Shape, InFlight, RecordTerminal
  <1>2. UNCHANGED <<up, work, effects, invoked>>
    BY DEF RecordTerminal
  <1>3. \A j \in Keys : PreparedAt(j) # {} => PreparedAt(j)' # {}
    BY <1>1, TerminalEntry, AppendPrepared DEF Shape, RecordTerminal
  <1>4. out[k] # NoReceipt /\ Uncertain(out[k]) # NoReceipt
    BY <1>1, RevisedTypes, CallAssumption
  <1>5. receipts \in [Keys -> Receipt \cup {NoReceipt}]
    BY DEF Shape, TypeOK
  <1>6. /\ \A j \in Keys : receipts[j] # NoReceipt => receipts'[j] # NoReceipt
        /\ cur[k].mutating => receipts'[k] # NoReceipt
    BY <1>4, <1>5 DEF RecordTerminal, CacheLive
  <1>7. /\ \A j \in Keys \ {k} : pc'[j] = pc[j] /\ cur'[j] = cur[j]
        /\ pc'[k] # "starting"
    BY OperationTypes DEF RecordTerminal, Finish, GoRecord
  <1>8. up /\ invoked[k] > 0 => cur[k].mutating
    BY <1>1 DEF Accounting, Accounted
  <1> QED
    BY <1>2, <1>3, <1>6, <1>7, <1>8, AccountingFrame

LEMMA AccountingReconcile ==
    ASSUME Shape, Accounting, NEW p \in Reconcilers, NEW o,
           (\E k \in Keys : ReconcileBegin(p, k)) \/ ReconcileAnswer(p) \/ ReconcileRecord(p, o)
    PROVE  Accounting'
  <1>1. UNCHANGED <<up, pc, cur, work, effects, invoked>>
    BY DEF ReconcileBegin, ReconcileAnswer, ReconcileRecord, history
  <1>2. /\ \A j \in Keys : PreparedAt(j) # {} => PreparedAt(j)' # {}
        /\ \A j \in Keys : receipts[j] # NoReceipt => receipts'[j] # NoReceipt
    <2>1. CASE (\E k \in Keys : ReconcileBegin(p, k)) \/ ReconcileAnswer(p)
      BY <2>1 DEF ReconcileBegin, ReconcileAnswer, PreparedAt
    <2>2. CASE ReconcileRecord(p, o)
      <3> DEFINE k == recon[p].key
                 r == recon[p].receipt
      <3>1. /\ recon \in [Reconcilers -> Reconcile]
            /\ receipts \in [Keys -> Receipt \cup {NoReceipt}]
        BY DEF Shape, TypeOK
      <3>2. k \in Keys /\ r \in Receipt
        BY <2>2, <3>1 DEF ReconcileRecord, Reconcile, IdleReconcile
      <3>3. r # NoReceipt /\ Uncertain(r) # NoReceipt
        BY <3>2, RevisedTypes, CallAssumption
      <3>4. \A j \in Keys : PreparedAt(j) # {} => PreparedAt(j)' # {}
        BY <2>2, <3>2, TerminalEntry, AppendPrepared DEF Shape, ReconcileRecord
      <3>5. \A j \in Keys : receipts[j] # NoReceipt => receipts'[j] # NoReceipt
        BY <2>2, <3>1, <3>2, <3>3 DEF ReconcileRecord
      <3> QED
        BY <3>4, <3>5
    <2> QED
      BY <2>1, <2>2
  <1>3. PreparedFirst' /\ Accounted'
    BY <1>1, <1>2 DEF Accounting, PreparedFirst, Accounted
  <1>4. EffectsInvoked' /\ AtMostOnce'
    BY <1>1 DEF Accounting, EffectsInvoked, AtMostOnce
  <1> QED
    BY <1>3, <1>4 DEF Accounting

LEMMA AccountingCrashRecoverTick ==
    ASSUME Shape, Accounting, Crash \/ Recover \/ Tick
    PROVE  Accounting'
  <1>1. UNCHANGED <<journal, work, effects, invoked>>
    BY DEF Crash, Recover, Tick, history
  <1>2. \A j \in Keys : PreparedAt(j)' = PreparedAt(j)
    BY <1>1 DEF PreparedAt
  <1>3. PreparedFirst'
    <2>1. \A j \in Keys : pc'[j] = "starting" => pc[j] = "starting" /\ cur'[j] = cur[j]
      BY DEF Crash, Recover, Tick, memory
    <2> QED
      BY <1>1, <1>2, <2>1 DEF Accounting, PreparedFirst
  <1>4. EffectsInvoked' /\ AtMostOnce'
    BY <1>1 DEF Accounting, EffectsInvoked, AtMostOnce
  <1>5. Accounted'
    <2>1. CASE Crash
      BY <2>1 DEF Crash, Accounted
    <2>2. CASE Recover
      <3> SUFFICES ASSUME NEW k \in Keys, invoked[k] > 0 PROVE receipts'[k] # NoReceipt
        BY <1>1 DEF Accounted
      <3>1. PreparedAt(k) # {}
        BY DEF Accounting, PreparedFirst
      <3>2. RecoveredReceipt(k) \in Receipt
        BY <3>1, LastEntry, EntryKinds, ReceiptTypes DEF RecoveredReceipt, Shape
      <3> QED
        BY <2>2, <3>2, CallAssumption DEF Recover
    <2>3. CASE Tick
      BY <1>1, <2>3 DEF Tick, memory, Accounting, Accounted
    <2> QED
      BY <2>1, <2>2, <2>3
  <1> QED
    BY <1>3, <1>4, <1>5 DEF Accounting

LEMMA AccountingNext == Shape /\ Accounting /\ [Next]_vars => Accounting'
  <1> SUFFICES ASSUME Shape, Accounting, [Next]_vars PROVE Accounting'
    OBVIOUS
  <1>1. CASE UNCHANGED vars
    BY <1>1 DEF vars, memory, history, Accounting, PreparedFirst, Accounted,
                EffectsInvoked, AtMostOnce, PreparedAt
  <1>2. CASE Next
    BY <1>2, AccountingExecute, AccountingRecordDecision, AccountingRecordPrepared,
       AccountingRecordTerminal, AccountingStartHandler, AccountingPerformEffect,
       AccountingHandlerReturns, AccountingReconcile, AccountingCrashRecoverTick DEF Next
  <1> QED
    BY <1>1, <1>2

LEMMA AccountingInit == Init => Accounting
  BY DEF Init, Accounting, PreparedFirst, Accounted, EffectsInvoked, AtMostOnce

LEMMA AccountingAlways == Spec => []Accounting
  BY AccountingInit, AccountingNext, ShapeAlways, PTL DEF Spec

\* Whatever calls are made, appends fail, handlers hang and processes die, the
\* handler of a key's mutation is invoked at most once.
THEOREM EffectAtMostOnce == Spec => []AtMostOnce
  <1>1. Accounting => AtMostOnce
    BY DEF Accounting
  <1> QED
    BY <1>1, AccountingAlways, PTL

\* No physical effect precedes its durable tool.prepared entry.
THEOREM EffectIsJournaled == Spec => []JournalBeforeEffect
  <1>1. Accounting => JournalBeforeEffect
    BY DEF Accounting, PreparedFirst, EffectsInvoked, JournalBeforeEffect
  <1> QED
    BY <1>1, AccountingAlways, PTL

-----------------------------------------------------------------------------
(* The journal only grows                                                  *)

LEMMA JournalGrows ==
    ASSUME TypeOK, NEW k \in Keys, NEW e \in Entry, NEW o, AppendEntry(k, e, o)
    PROVE  /\ \A j \in Keys \ {k} : journal'[j] = journal[j]
           /\ \A i \in DOMAIN journal[k] :
                 i \in DOMAIN journal'[k] /\ journal'[k][i] = journal[k][i]
           /\ \A i \in DOMAIN journal'[k] :
                 i \in DOMAIN journal[k] \/ (o # "lost" /\ journal'[k][i] = e)
           /\ o # "lost" => \E i \in DOMAIN journal'[k] : journal'[k][i] = e
  <1>1. journal \in [Keys -> Seq(Entry)] /\ journal[k] \in Seq(Entry)
    BY DEF TypeOK
  <1>2. CASE o = "lost"
    BY <1>2 DEF AppendEntry
  <1>3. CASE o # "lost"
    <2>1. /\ journal'[k] = Append(journal[k], e)
          /\ \A j \in Keys \ {k} : journal'[j] = journal[j]
      BY <1>1, <1>3 DEF AppendEntry
    <2>2. /\ DOMAIN Append(journal[k], e) = 1..(Len(journal[k]) + 1)
          /\ Append(journal[k], e)[Len(journal[k]) + 1] = e
          /\ \A i \in 1..Len(journal[k]) : Append(journal[k], e)[i] = journal[k][i]
          /\ DOMAIN journal[k] = 1..Len(journal[k])
          /\ Len(journal[k]) \in Nat
      BY <1>1
    <2>3. \A i \in 1..(Len(journal[k]) + 1) : i \in 1..Len(journal[k]) \/ i = Len(journal[k]) + 1
      BY <2>2
    <2>4. /\ Len(journal[k]) + 1 \in 1..(Len(journal[k]) + 1)
          /\ \A i \in 1..Len(journal[k]) : i \in 1..(Len(journal[k]) + 1)
      BY <2>2
    <2> QED BY <1>3, <2>1, <2>2, <2>3, <2>4
  <1> QED BY <1>2, <1>3

\* What recover() would restore is never less, and more by a preparation.
LEMMA LeasesGrow ==
    ASSUME TypeOK, NEW k \in Keys, NEW e \in Entry, NEW o, AppendEntry(k, e, o)
    PROVE  /\ JournaledLeases \subseteq JournaledLeases'
           /\ o # "lost" /\ e.type = "prepared" => SingleUseLeases(e.call) \subseteq JournaledLeases'
  <1>1. ASSUME NEW l \in JournaledLeases PROVE l \in JournaledLeases'
    <2>0. PICK j \in Keys : \E i \in PreparedAt(j) :
             journal[j][i].call.lease # NoLease /\ journal[j][i].call.lease.id = l
      BY DEF JournaledLeases
    <2>1. PICK i \in PreparedAt(j) :
             journal[j][i].call.lease # NoLease /\ journal[j][i].call.lease.id = l
      BY <2>0
    <2>2. i \in PreparedAt(j)' /\ journal'[j][i] = journal[j][i]
      BY <2>1, JournalGrows DEF PreparedAt
    <2> QED BY <2>1, <2>2 DEF JournaledLeases
  <1>2. ASSUME o # "lost", e.type = "prepared", NEW l \in SingleUseLeases(e.call)
        PROVE  l \in JournaledLeases'
    <2>1. PICK i \in DOMAIN journal'[k] : journal'[k][i] = e
      BY <1>2, JournalGrows
    <2>2. i \in PreparedAt(k)'
      BY <1>2, <2>1 DEF PreparedAt
    <2>3. e.call \in Calls
      BY <1>2 DEF Entry
    <2>4. l \in LeaseIds /\ e.call.lease # NoLease /\ e.call.lease.id = l
      BY <1>2, <2>3, CallFields DEF SingleUseLeases
    <2> QED BY <2>1, <2>2, <2>4 DEF JournaledLeases
  <1> QED BY <1>1, <1>2

\* Terminal entries stay, and the only new one is the one appended.
LEMMA TerminalsGrow ==
    ASSUME TypeOK, NEW k \in Keys, NEW e \in Entry, NEW o, AppendEntry(k, e, o)
    PROVE  /\ \A j \in Keys : TerminalAt(j) # {} => TerminalAt(j)' # {}
           /\ o # "lost" /\ e.type = "terminal" => TerminalAt(k)' # {}
           /\ \A j \in Keys : \A i \in TerminalAt(j)' :
                 \/ i \in TerminalAt(j) /\ journal'[j][i] = journal[j][i]
                 \/ j = k /\ o # "lost" /\ e.type = "terminal" /\ journal'[j][i] = e
  <1>1. ASSUME NEW j \in Keys, NEW i \in TerminalAt(j) PROVE i \in TerminalAt(j)'
    BY JournalGrows DEF TerminalAt
  <1>2. ASSUME o # "lost", e.type = "terminal" PROVE TerminalAt(k)' # {}
    BY <1>2, JournalGrows DEF TerminalAt
  <1>3. ASSUME NEW j \in Keys, NEW i \in TerminalAt(j)'
        PROVE  \/ i \in TerminalAt(j) /\ journal'[j][i] = journal[j][i]
               \/ j = k /\ o # "lost" /\ e.type = "terminal" /\ journal'[j][i] = e
    <2>1. CASE j # k
      BY <2>1, JournalGrows DEF TerminalAt
    <2>2. CASE j = k
      BY <2>2, JournalGrows DEF TerminalAt
    <2> QED BY <2>1, <2>2
  <1> QED BY <1>1, <1>2, <1>3

-----------------------------------------------------------------------------
(***************************************************************************)
(* Leases of mutations.  A running gateway knows the spent ones from its   *)
(* memory, a restarted one from the prepared entries; in between, the      *)
(* operations admitted with a lease and still ahead of their handler must  *)
(* be unique to it.                                                        *)
(***************************************************************************)

\* The operation of key k was admitted with lease l and has not used it yet.
Ahead(k, l) ==
    /\ pc[k] \in {"allowing", "preparing", "starting"}
    /\ cur[k].mutating /\ l \in SingleUseLeases(cur[k])

LeasesAreKept ==
    /\ \A l \in LeaseIds : spent[l] > 0 => l \in JournaledLeases /\ (up => l \in consumed)
    /\ \A k \in Keys, l \in LeaseIds : Ahead(k, l) =>
          /\ l \in consumed /\ spent[l] = 0
          /\ pc[k] = "starting" => l \in JournaledLeases
    /\ \A j, k \in Keys, l \in LeaseIds : Ahead(j, l) /\ Ahead(k, l) => j = k
    /\ LeaseSpentOnce

\* A step that spends nothing and brings nobody ahead.
LEMMA LeasesFrame ==
    ASSUME LeasesAreKept, spent' = spent, up' = up, consumed \subseteq consumed',
           JournaledLeases \subseteq JournaledLeases',
           \A j \in Keys, l \in LeaseIds : Ahead(j, l)' =>
              /\ Ahead(j, l)
              /\ pc'[j] = "starting" => pc[j] = "starting" \/ l \in JournaledLeases'
    PROVE  LeasesAreKept'
  BY DEF LeasesAreKept, LeaseSpentOnce

\* An admitted mutation takes a lease nobody has used or is about to use.
LEMMA LeasesExecute ==
    ASSUME Shape, LeasesAreKept, NEW c \in Calls, Execute(c)
    PROVE  LeasesAreKept'
  <1>1. PICK k \in Keys : k = c.key
    BY CallFields
  <1>2. /\ up /\ cur' = [cur EXCEPT ![k] = c]
        /\ UNCHANGED <<up, journal, spent>>
    BY <1>1 DEF Execute, history
  <1>3. JournaledLeases' = JournaledLeases
    BY <1>2 DEF JournaledLeases, PreparedAt
  <1>4. /\ \A j \in Keys \ {k} : pc'[j] = pc[j] /\ cur'[j] = cur[j]
        /\ cur'[k] = c
    BY <1>1, <1>2, OperationTypes DEF Execute, GoRecord
  <1>5. \A j \in Keys \ {k}, l \in LeaseIds : Ahead(j, l)' <=> Ahead(j, l)
    BY <1>4 DEF Ahead
  <1>6. CASE pc'[k] # "allowing"
    <2>1. pc'[k] \in {"recording", "denying"} /\ consumed' = consumed
      BY <1>1, <1>6, OperationTypes DEF Execute, GoRecord
    <2>2. \A l \in LeaseIds : ~Ahead(k, l)'
      BY <2>1 DEF Ahead
    <2> QED BY <1>2, <1>3, <1>4, <1>5, <2>1, <2>2, LeasesFrame
  <1>7. CASE pc'[k] = "allowing"
    <2>1. Allowed(c) /\ consumed' = consumed \cup SingleUseLeases(c)
      BY <1>1, <1>7, OperationTypes DEF Execute, GoRecord, Consume
    <2>2. ASSUME NEW l \in LeaseIds, Ahead(k, l)' PROVE l \in SingleUseLeases(c) /\ l \notin consumed
      <3>1. c.mutating /\ l \in SingleUseLeases(c)
        BY <1>4, <2>2 DEF Ahead
      <3>2. LeaseAuthorized(c)
        BY <2>1, <3>1 DEF Allowed, ReadOnlyAllowed
      <3> QED BY <3>1, <3>2 DEF LeaseAuthorized, SingleUseLeases
    <2>3. ASSUME NEW l \in LeaseIds, Ahead(k, l)'
          PROVE  /\ l \in consumed' /\ spent[l] = 0
                 /\ \A j \in Keys \ {k} : ~Ahead(j, l)
      <3>1. l \in SingleUseLeases(c) /\ l \notin consumed
        BY <2>2, <2>3
      <3>2. ~(spent[l] > 0) /\ spent[l] \in Nat
        BY <1>2, <3>1, OperationTypes DEF LeasesAreKept
      <3> QED BY <2>1, <3>1, <3>2 DEF LeasesAreKept
    <2>4. \A j \in Keys, l \in LeaseIds : Ahead(j, l)' =>
             /\ l \in consumed' /\ spent'[l] = 0
             /\ pc'[j] = "starting" => l \in JournaledLeases'
      BY <1>2, <1>3, <1>4, <1>5, <1>7, <2>1, <2>3 DEF LeasesAreKept
    <2>5. \A i, j \in Keys, l \in LeaseIds : Ahead(i, l)' /\ Ahead(j, l)' => i = j
      BY <1>5, <2>3 DEF LeasesAreKept
    <2> QED BY <1>2, <1>3, <2>1, <2>4, <2>5 DEF LeasesAreKept, LeaseSpentOnce
  <1> QED BY <1>6, <1>7

LEMMA LeasesDecision ==
    ASSUME Shape, LeasesAreKept, NEW k \in Keys, NEW o, RecordDecision(k, o)
    PROVE  LeasesAreKept'
  <1>1. cur[k] \in Calls
    BY DEF Shape, InFlight, RecordDecision
  <1>2. UNCHANGED <<up, consumed, spent>>
    BY DEF RecordDecision, history
  <1>3. JournaledLeases \subseteq JournaledLeases'
    BY <1>1, CallFields, LeasesGrow DEF Shape, RecordDecision
  <1>4. \A j \in Keys \ {k} : pc'[j] = pc[j] /\ cur'[j] = cur[j]
    BY OperationTypes DEF RecordDecision, Finish, GoRecord
  <1>5. pc'[k] \in {"preparing", "starting"} =>
           /\ pc[k] = "allowing" /\ cur' = cur
           /\ pc'[k] = "starting" => ~cur[k].mutating
    BY OperationTypes DEF RecordDecision, Finish, GoRecord
  <1>6. pc'[k] # "allowing"
    BY OperationTypes DEF RecordDecision, Finish, GoRecord
  <1>7. \A j \in Keys, l \in LeaseIds : Ahead(j, l)' =>
           /\ Ahead(j, l)
           /\ pc'[j] = "starting" => pc[j] = "starting"
    BY <1>4, <1>5, <1>6 DEF Ahead
  <1> QED BY <1>2, <1>3, <1>7, LeasesFrame

\* The preparation makes the lease of the mutation durable before its handler.
LEMMA LeasesPrepared ==
    ASSUME Shape, LeasesAreKept, NEW k \in Keys, NEW o, RecordPrepared(k, o)
    PROVE  LeasesAreKept'
  <1>1. cur[k] \in Calls /\ pc[k] = "preparing"
    BY DEF Shape, InFlight, RecordPrepared
  <1>2. UNCHANGED <<up, consumed, spent>>
    BY DEF RecordPrepared, history
  <1>3. /\ JournaledLeases \subseteq JournaledLeases'
        /\ o # "lost" => SingleUseLeases(cur[k]) \subseteq JournaledLeases'
    BY <1>1, CallFields, LeasesGrow DEF Shape, RecordPrepared
  <1>4. \A j \in Keys \ {k} : pc'[j] = pc[j] /\ cur'[j] = cur[j]
    BY OperationTypes DEF RecordPrepared, Finish
  <1>5. pc'[k] = "idle" \/ (pc'[k] = "starting" /\ o = "ok" /\ cur' = cur)
    BY OperationTypes DEF RecordPrepared, Finish
  <1>6. \A j \in Keys, l \in LeaseIds : Ahead(j, l)' =>
           /\ Ahead(j, l)
           /\ pc'[j] = "starting" => pc[j] = "starting" \/ l \in JournaledLeases'
    BY <1>1, <1>3, <1>4, <1>5 DEF Ahead
  <1> QED BY <1>2, <1>3, <1>6, LeasesFrame

\* The invocation spends the lease, durable by now, and leaves the handler's
\* operation with nothing ahead of it.
LEMMA LeasesStart ==
    ASSUME Shape, LeasesAreKept, NEW k \in Keys, StartHandler(k)
    PROVE  LeasesAreKept'
  <1>1. cur[k] \in Calls /\ up /\ pc[k] = "starting"
    BY DEF Shape, InFlight, StartHandler
  <1>2. UNCHANGED <<up, consumed, cur, journal>>
    BY DEF StartHandler
  <1>3. JournaledLeases' = JournaledLeases
    BY <1>2 DEF JournaledLeases, PreparedAt
  <1>4. /\ \A j \in Keys \ {k} : pc'[j] = pc[j]
        /\ pc'[k] \in {"handling", "recording"}
    BY OperationTypes DEF StartHandler, GoRecord
  <1>5. \A j \in Keys, l \in LeaseIds : Ahead(j, l)' =>
           Ahead(j, l) /\ j # k /\ pc'[j] = pc[j]
    BY <1>2, <1>4 DEF Ahead
  <1>6. CASE spent' = spent
    BY <1>2, <1>3, <1>5, <1>6, LeasesFrame
  <1>7. CASE spent' # spent
    <2>1. \A l \in LeaseIds : spent'[l] = IF cur[k].mutating /\ l \in SingleUseLeases(cur[k])
                                         THEN spent[l] + 1 ELSE spent[l]
      BY <1>7 DEF StartHandler
    <2>2. \A l \in LeaseIds : spent'[l] = spent[l] \/ (Ahead(k, l) /\ spent'[l] = spent[l] + 1)
      BY <1>1, <2>1 DEF Ahead
    <2>3. ASSUME NEW l \in LeaseIds
          PROVE  spent'[l] <= 1 /\ (spent'[l] > 0 => l \in JournaledLeases /\ l \in consumed)
      <3>1. CASE spent'[l] = spent[l]
        BY <1>1, <3>1 DEF LeasesAreKept, LeaseSpentOnce
      <3>2. CASE Ahead(k, l) /\ spent'[l] = spent[l] + 1
        BY <1>1, <3>2 DEF LeasesAreKept
      <3> QED BY <2>2, <3>1, <3>2
    <2>4. \A j \in Keys, l \in LeaseIds : Ahead(j, l)' =>
             l \in consumed /\ spent'[l] = 0 /\ (pc'[j] = "starting" => l \in JournaledLeases)
      <3> SUFFICES ASSUME NEW j \in Keys, NEW l \in LeaseIds, Ahead(j, l)'
                   PROVE  l \in consumed /\ spent'[l] = 0
                          /\ (pc'[j] = "starting" => l \in JournaledLeases)
        OBVIOUS
      <3>1. Ahead(j, l) /\ j # k /\ pc'[j] = pc[j]
        BY <1>5
      <3>2. ~Ahead(k, l)
        BY <3>1 DEF LeasesAreKept
      <3>3. spent'[l] = spent[l]
        BY <2>2, <3>2
      <3> QED BY <3>1, <3>3 DEF LeasesAreKept
    <2>5. \A i, j \in Keys, l \in LeaseIds : Ahead(i, l)' /\ Ahead(j, l)' => i = j
      BY <1>5 DEF LeasesAreKept
    <2> QED BY <1>2, <1>3, <2>3, <2>4, <2>5 DEF LeasesAreKept, LeaseSpentOnce
  <1> QED BY <1>6, <1>7

\* The steps past the invocation, and those of the reconcilers, put nobody ahead.
LEMMA LeasesLater ==
    ASSUME Shape, LeasesAreKept,
           \/ \E k \in Keys : PerformEffect(k) \/ HandlerReturns(k) \/ HandlerTimeout(k)
           \/ \E k \in Keys, o \in AppendOutcome : RecordTerminal(k, o)
           \/ \E p \in Reconcilers, k \in Keys : ReconcileBegin(p, k)
           \/ \E p \in Reconcilers : ReconcileAnswer(p)
           \/ \E p \in Reconcilers, o \in AppendOutcome : ReconcileRecord(p, o)
           \/ Tick
    PROVE  LeasesAreKept'
  <1>1. UNCHANGED <<up, consumed, spent>>
    BY DEF PerformEffect, HandlerReturns, HandlerTimeout, RecordTerminal, ReconcileBegin,
           ReconcileAnswer, ReconcileRecord, Tick, memory, history
  <1>2. JournaledLeases \subseteq JournaledLeases'
    <2>1. CASE journal' = journal
      BY <2>1 DEF JournaledLeases, PreparedAt
    <2>2. ASSUME NEW k \in Keys, NEW o \in AppendOutcome, RecordTerminal(k, o)
          PROVE  JournaledLeases \subseteq JournaledLeases'
      <3>1. out[k] \in Receipt
        BY <2>2 DEF Shape, InFlight, RecordTerminal
      <3> QED BY <2>2, <3>1, TerminalEntry, LeasesGrow DEF Shape, RecordTerminal
    <2>3. ASSUME NEW p \in Reconcilers, NEW o \in AppendOutcome, ReconcileRecord(p, o)
          PROVE  JournaledLeases \subseteq JournaledLeases'
      <3>1. recon[p].key \in Keys /\ recon[p].receipt \in Receipt
        BY <2>3 DEF Shape, TypeOK, ReconcileRecord, Reconcile, IdleReconcile
      <3> QED BY <2>3, <3>1, TerminalEntry, LeasesGrow DEF Shape, ReconcileRecord
    <2> QED
      BY <2>1, <2>2, <2>3 DEF PerformEffect, HandlerReturns, HandlerTimeout, ReconcileBegin,
         ReconcileAnswer, Tick
  <1>3. \A j \in Keys : pc'[j] \in {"allowing", "preparing", "starting"} =>
           pc'[j] = pc[j] /\ cur'[j] = cur[j]
    <2>1. CASE UNCHANGED <<pc, cur>>
      BY <2>1
    <2>2. ASSUME NEW k \in Keys, HandlerReturns(k) \/ HandlerTimeout(k)
          PROVE  <1>3!:
      BY <2>2, OperationTypes DEF HandlerReturns, HandlerTimeout, GoRecord
    <2>3. ASSUME NEW k \in Keys, NEW o \in AppendOutcome, RecordTerminal(k, o)
          PROVE  <1>3!:
      BY <2>3, OperationTypes DEF RecordTerminal, Finish, GoRecord
    <2> QED
      BY <2>1, <2>2, <2>3 DEF PerformEffect, ReconcileBegin, ReconcileAnswer, ReconcileRecord,
         Tick, memory
  <1>4. \A j \in Keys, l \in LeaseIds : Ahead(j, l)' => Ahead(j, l) /\ pc'[j] = pc[j]
    BY <1>3 DEF Ahead
  <1> QED BY <1>1, <1>2, <1>4, LeasesFrame

\* A restart brings back every lease that a prepared mutation may have used.
LEMMA LeasesRestart ==
    ASSUME Shape, LeasesAreKept, Crash \/ Recover
    PROVE  LeasesAreKept'
  <1>1. UNCHANGED <<journal, spent>>
    BY DEF Crash, Recover, history
  <1>2. JournaledLeases' = JournaledLeases
    BY <1>1 DEF JournaledLeases, PreparedAt
  <1>3. CASE Crash
    <2>1. ~up' /\ \A j \in Keys : pc'[j] = "idle"
      BY <1>3 DEF Crash
    <2>2. \A j \in Keys, l \in LeaseIds : ~Ahead(j, l)'
      BY <2>1 DEF Ahead
    <2> QED BY <1>1, <1>2, <2>1, <2>2 DEF LeasesAreKept, LeaseSpentOnce
  <1>4. CASE Recover
    <2>1. ~up /\ UNCHANGED <<pc, cur>> /\ consumed' = consumed \cup JournaledLeases
      BY <1>4 DEF Recover
    <2>2. \A j \in Keys : pc[j] = "idle"
      BY <2>1 DEF Shape, InFlight
    <2>3. \A j \in Keys, l \in LeaseIds : ~Ahead(j, l)'
      BY <2>1, <2>2 DEF Ahead
    <2> QED BY <1>1, <1>2, <2>1, <2>3 DEF LeasesAreKept, LeaseSpentOnce
  <1> QED BY <1>3, <1>4

\* A single-use lease authorises at most one mutating handler invocation,
\* whatever keys race for it, appends fail and processes die.
THEOREM LeaseAuthorisesOnce == Spec => []LeaseSpentOnce
  <1>1. Init => LeasesAreKept
    BY DEF Init, LeasesAreKept, LeaseSpentOnce, Ahead
  <1>2. Shape /\ LeasesAreKept /\ [Next]_vars => LeasesAreKept'
    <2> SUFFICES ASSUME Shape, LeasesAreKept, [Next]_vars PROVE LeasesAreKept'
      OBVIOUS
    <2>1. CASE UNCHANGED vars
      <3>1. UNCHANGED <<up, consumed, pc, cur, spent, journal>>
        BY <2>1 DEF vars, memory, history
      <3> QED BY <3>1 DEF LeasesAreKept, LeaseSpentOnce, Ahead, JournaledLeases, PreparedAt
    <2>2. CASE Next
      BY <2>2, LeasesExecute, LeasesDecision, LeasesPrepared, LeasesStart, LeasesLater,
         LeasesRestart DEF Next
    <2> QED BY <2>1, <2>2
  <1>3. LeasesAreKept => LeaseSpentOnce
    BY DEF LeasesAreKept
  <1> QED BY <1>1, <1>2, <1>3, ShapeAlways, PTL DEF Spec

-----------------------------------------------------------------------------
(***************************************************************************)
(* What callers were told.  A denial and a confirmation outlive the step   *)
(* that made them: every place one is kept (the receipt about to be        *)
(* recorded, the receipt in memory, a terminal entry, the caller) is tied  *)
(* to the effects of its key, and a terminal entry of a mutation to the    *)
(* receipt that stops another execution.                                   *)
(***************************************************************************)

Mutating(k) == \E c \in Calls : c.key = k /\ c.mutating

Harmless(k) == effects[k] = 0 /\ work[k] # "running"

Confirms(r) == r.mutating /\ r.status = "succeeded"

Worked(k) ==
    /\ invoked[k] > 0 => Mutating(k)
    /\ work[k] = "running" => effects[k] = 0
    /\ work[k] = "applied" => effects[k] > 0

Told(k) ==
    /\ pc[k] = "recording" =>
          (Denies(out[k]) => Harmless(k)) /\ (Confirms(out[k]) => effects[k] > 0)
    /\ receipts[k] # NoReceipt /\ Denies(receipts[k]) => Harmless(k)
    /\ \A i \in TerminalAt(k) : Denies(journal[k][i].receipt) => Harmless(k)
    /\ k \in denied => Harmless(k) /\ (Mutating(k) => TerminalAt(k) # {})
    /\ k \in confirmed => effects[k] > 0 /\ TerminalAt(k) # {}

Held(k) == TerminalAt(k) # {} /\ Mutating(k) /\ up => receipts[k] # NoReceipt

Reconciled(p) ==
    recon[p].pc = "record" =>
        /\ ~Denies(recon[p].receipt)
        /\ Confirms(recon[p].receipt) => effects[recon[p].key] > 0

Answers ==
    /\ \A k \in Keys : Worked(k) /\ Told(k) /\ Held(k)
    /\ \A p \in Reconcilers : Reconciled(p)

\* Which of the receipts the gateway builds deny or confirm.
LEMMA ReceiptMeanings ==
    ASSUME NEW c \in Calls
    PROVE  /\ ~Confirms(Rejected(c)) /\ ~Confirms(BeforeWrite(c))
           /\ ~Confirms(Failed(c)) /\ ~Confirms(Indeterminate(c))
           /\ ~Denies(Indeterminate(c)) /\ ~Denies(Succeeded(c))
           /\ Denies(Failed(c)) => ~c.mutating
           /\ Confirms(Succeeded(c)) => c.mutating
  BY CallFields DEF Confirms, Denies, Rejected, BeforeWrite, Failed, Indeterminate, Succeeded, ReceiptOf

LEMMA RevisedMeanings ==
    ASSUME NEW r \in Receipt, NEW a \in BOOLEAN
    PROVE  /\ ~Denies(Uncertain(r)) /\ ~Confirms(Uncertain(r))
           /\ ~Denies(ReconciledReceipt(r, a))
           /\ Confirms(ReconciledReceipt(r, a)) => a /\ r.mutating
  BY DEF Confirms, Denies, Uncertain, ReconciledReceipt, ReceiptOf

\* A key whose handler was never invoked is harmless, and so is one whose
\* calls only read.
LEMMA NeverInvoked ==
    ASSUME Shape, Accounting, Answers, NEW k \in Keys,
           invoked[k] = 0 \/ (\E c \in Calls : c.key = k /\ ~c.mutating)
    PROVE  invoked[k] = 0 /\ Harmless(k)
  <1>1. invoked[k] = 0
    BY CallAssumption, OperationTypes DEF Answers, Worked, Mutating
  <1>2. ~(effects[k] > 0) /\ work[k] # "running" /\ effects[k] \in Nat
    BY <1>1, OperationTypes DEF Accounting, EffectsInvoked
  <1> QED BY <1>1, <1>2 DEF Harmless

\* A key that a step leaves alone keeps its clauses.
LEMMA AnswersFrame ==
    ASSUME NEW k \in Keys, Worked(k), Told(k), Held(k),
           UNCHANGED <<pc[k], out[k], receipts[k], journal[k], work[k], effects[k], invoked[k]>>,
           k \in denied' <=> k \in denied, k \in confirmed' <=> k \in confirmed, up' = up
    PROVE  Worked(k)' /\ Told(k)' /\ Held(k)'
  BY DEF Worked, Told, Held, Harmless, TerminalAt, Mutating

\* An append to the key's journal, whatever its outcome, when it adds no terminal
\* entry.
LEMMA AnswersAppend ==
    ASSUME TypeOK, NEW k \in Keys, Worked(k), Told(k), Held(k),
           NEW e \in Entry, NEW o, AppendEntry(k, e, o), e.type # "terminal",
           UNCHANGED <<receipts, up, work, effects, invoked, denied, confirmed>>,
           pc'[k] = "recording" =>
              (Denies(out'[k]) => Harmless(k)) /\ (Confirms(out'[k]) => effects[k] > 0)
    PROVE  Worked(k)' /\ Told(k)' /\ Held(k)'
  <1>1. /\ TerminalAt(k) # {} <=> TerminalAt(k)' # {}
        /\ \A i \in TerminalAt(k)' : i \in TerminalAt(k) /\ journal'[k][i] = journal[k][i]
    BY TerminalsGrow
  <1> QED BY <1>1 DEF Worked, Told, Held, Harmless, Mutating

LEMMA AnswersExecute ==
    ASSUME Shape, Accounting, Answers, NEW c \in Calls, Execute(c)
    PROVE  Answers'
  <1>1. PICK k \in Keys : k = c.key
    BY CallFields
  <1>2. /\ up /\ receipts[k] = NoReceipt /\ pc[k] = "idle"
        /\ UNCHANGED <<up, receipts, recon, journal, work, effects, invoked, denied, confirmed>>
    BY <1>1 DEF Execute, history
  <1>3. Harmless(k)
    BY <1>2, NotYetInvoked, NeverInvoked
  <1>4. /\ \A j \in Keys \ {k} : pc'[j] = pc[j] /\ out'[j] = out[j]
        /\ pc'[k] = "recording" => out'[k] = Rejected(c)
    BY <1>1, OperationTypes DEF Execute, GoRecord
  <1>5. ASSUME NEW j \in Keys \ {k} PROVE Worked(j)' /\ Told(j)' /\ Held(j)'
    BY <1>2, <1>4, AnswersFrame DEF Answers
  <1>6. Worked(k)' /\ Told(k)' /\ Held(k)'
    <2>1. Worked(k) /\ Told(k) /\ Held(k)
      BY DEF Answers
    <2>2. ~Confirms(Rejected(c))
      BY ReceiptMeanings
    <2> QED BY <1>2, <1>3, <1>4, <2>1, <2>2 DEF Worked, Told, Held, Harmless, TerminalAt, Mutating
  <1>7. \A p \in Reconcilers : Reconciled(p)'
    BY <1>2 DEF Answers, Reconciled
  <1> QED BY <1>5, <1>6, <1>7 DEF Answers

LEMMA AnswersDecision ==
    ASSUME Shape, Accounting, Answers, NEW k \in Keys, NEW o,
           RecordDecision(k, o) \/ RecordPrepared(k, o)
    PROVE  Answers'
  <1>1. /\ cur[k] \in Calls /\ up /\ receipts[k] = NoReceipt
        /\ pc[k] \in {"denying", "allowing", "preparing"}
    BY DEF Shape, InFlight, RecordDecision, RecordPrepared
  <1>2. UNCHANGED <<up, receipts, recon, work, effects, invoked, denied, confirmed>>
    BY DEF RecordDecision, RecordPrepared, history
  <1>3. Harmless(k)
    BY <1>1, NotYetInvoked, NeverInvoked
  <1>4. PICK e \in Entry : e.type # "terminal" /\ AppendEntry(k, e, o)
    BY <1>1, CallFields DEF RecordDecision, RecordPrepared
  <1>5. /\ \A j \in Keys \ {k} : pc'[j] = pc[j] /\ out'[j] = out[j]
        /\ pc'[k] = "recording" => out'[k] = Rejected(cur[k])
    BY <1>1, OperationTypes DEF RecordDecision, RecordPrepared, Finish, GoRecord
  <1>6. \A j \in Keys \ {k} : journal'[j] = journal[j]
    BY <1>4, JournalGrows DEF Shape
  <1>7. ASSUME NEW j \in Keys \ {k} PROVE Worked(j)' /\ Told(j)' /\ Held(j)'
    BY <1>2, <1>5, <1>6, AnswersFrame DEF Answers
  <1>8. Worked(k)' /\ Told(k)' /\ Held(k)'
    <2>1. Worked(k) /\ Told(k) /\ Held(k) /\ TypeOK
      BY DEF Answers, Shape
    <2>2. ~Confirms(Rejected(cur[k]))
      BY <1>1, ReceiptMeanings
    <2> QED BY <1>2, <1>3, <1>4, <1>5, <2>1, <2>2, AnswersAppend
  <1>9. \A p \in Reconcilers : Reconciled(p)'
    BY <1>2 DEF Answers, Reconciled
  <1> QED BY <1>7, <1>8, <1>9 DEF Answers

\* An invocation: the key has no receipt, so no terminal entry, so nobody was
\* told anything about it.
LEMMA AnswersStart ==
    ASSUME Shape, Accounting, Answers, NEW k \in Keys, StartHandler(k)
    PROVE  Answers'
  <1>1. /\ cur[k] \in Calls /\ cur[k].key = k /\ up /\ receipts[k] = NoReceipt
        /\ pc[k] = "starting"
    BY DEF Shape, InFlight, StartHandler
  <1>2. UNCHANGED <<up, receipts, recon, journal, effects, denied, confirmed>>
    BY DEF StartHandler
  <1>3. /\ \A j \in Keys \ {k} : pc'[j] = pc[j] /\ out'[j] = out[j]
                                 /\ work'[j] = work[j] /\ invoked'[j] = invoked[j]
        /\ pc'[k] = "recording" => out'[k] = Indeterminate(cur[k])
    BY <1>1, OperationTypes DEF StartHandler, GoRecord
  <1>4. ASSUME NEW j \in Keys \ {k} PROVE Worked(j)' /\ Told(j)' /\ Held(j)'
    BY <1>2, <1>3, AnswersFrame DEF Answers
  <1>5. Worked(k) /\ Told(k) /\ Held(k)
    BY DEF Answers
  <1>6. ~Denies(Indeterminate(cur[k])) /\ ~Confirms(Indeterminate(cur[k]))
    BY <1>1, ReceiptMeanings
  <1>7. TerminalAt(k)' = TerminalAt(k)
    BY <1>2 DEF TerminalAt
  <1>8. Worked(k)' /\ Told(k)' /\ Held(k)'
    <2>1. CASE work' = work /\ invoked' = invoked
      BY <1>2, <1>3, <1>5, <1>6, <1>7, <2>1 DEF Worked, Told, Held, Harmless, Mutating
    <2>2. CASE cur[k].mutating /\ work' = [work EXCEPT ![k] = "running"]
      <3>1. Mutating(k)
        BY <1>1, <2>2 DEF Mutating
      <3>2. TerminalAt(k) = {} /\ k \notin denied /\ k \notin confirmed
        BY <1>1, <1>5, <3>1 DEF Told, Held
      <3>3. effects[k] = 0
        BY <1>1, NotYetInvoked, NeverInvoked DEF Harmless
      <3>4. work'[k] = "running"
        BY <2>2, OperationTypes
      <3> QED BY <1>1, <1>2, <1>3, <1>6, <1>7, <3>1, <3>2, <3>3, <3>4
              DEF Worked, Told, Held, Mutating
    <2> QED BY <2>1, <2>2 DEF StartHandler
  <1>9. \A p \in Reconcilers : Reconciled(p)'
    BY <1>2 DEF Answers, Reconciled
  <1> QED BY <1>4, <1>8, <1>9 DEF Answers

\* A running handler's key is not harmless, so nobody was told that it is.
LEMMA AnswersEffect ==
    ASSUME Shape, Answers, NEW k \in Keys, PerformEffect(k)
    PROVE  Answers'
  <1>1. /\ UNCHANGED <<up, receipts, recon, journal, pc, out, invoked, denied, confirmed>>
        /\ work[k] = "running" /\ work'[k] = "applied" /\ effects'[k] > 0
        /\ \A j \in Keys \ {k} : work'[j] = work[j] /\ effects'[j] = effects[j]
        /\ \A j \in Keys : effects[j] > 0 => effects'[j] > 0
    BY OperationTypes DEF PerformEffect, memory
  <1>2. ASSUME NEW j \in Keys \ {k} PROVE Worked(j)' /\ Told(j)' /\ Held(j)'
    BY <1>1, AnswersFrame DEF Answers
  <1>3. Worked(k)' /\ Told(k)' /\ Held(k)'
    <2>1. Worked(k) /\ Told(k) /\ Held(k) /\ ~Harmless(k) /\ TerminalAt(k)' = TerminalAt(k)
      BY <1>1 DEF Answers, Harmless, TerminalAt
    <2> QED BY <1>1, <2>1 DEF Worked, Told, Held, Mutating
  <1>4. \A p \in Reconcilers : Reconciled(p)'
    <2>1. \A p \in Reconcilers : recon[p].pc = "record" => recon[p].key \in Keys
      BY DEF Shape, TypeOK, Reconcile, IdleReconcile
    <2> QED BY <1>1, <2>1 DEF Answers, Reconciled
  <1> QED BY <1>2, <1>3, <1>4 DEF Answers

\* The handler confirms what it applied, and denies only before its write.
LEMMA AnswersReturn ==
    ASSUME Shape, Accounting, Answers, NEW k \in Keys, HandlerReturns(k) \/ HandlerTimeout(k)
    PROVE  Answers'
  <1>1. cur[k] \in Calls /\ cur[k].key = k /\ pc[k] = "handling" /\ cur[k].mutating \in BOOLEAN
    BY CallFields DEF Shape, InFlight, HandlerReturns, HandlerTimeout
  <1>2. UNCHANGED <<up, receipts, recon, journal, effects, invoked, denied, confirmed>>
    BY DEF HandlerReturns, HandlerTimeout, history
  <1>3. \A j \in Keys \ {k} : pc'[j] = pc[j] /\ out'[j] = out[j] /\ work'[j] = work[j]
    BY OperationTypes DEF HandlerReturns, HandlerTimeout, GoRecord
  <1>4. ASSUME NEW j \in Keys \ {k} PROVE Worked(j)' /\ Told(j)' /\ Held(j)'
    BY <1>2, <1>3, AnswersFrame DEF Answers
  <1>5. Worked(k) /\ Told(k) /\ Held(k)
    BY DEF Answers
  <1>6. ~cur[k].mutating => Harmless(k)
    BY <1>1, NeverInvoked
  <1>7. \/ work' = work /\ out'[k] = Succeeded(cur[k]) /\ (cur[k].mutating => work[k] = "applied")
        \/ /\ out'[k] = BeforeWrite(cur[k])
           /\ cur[k].mutating => work[k] = "running" /\ work'[k] = "over"
           /\ ~cur[k].mutating => work' = work
        \/ work' = work /\ out'[k] \in {Indeterminate(cur[k]), Failed(cur[k])}
    BY <1>1, OperationTypes DEF HandlerReturns, HandlerTimeout, GoRecord
  <1>8. /\ work'[k] = "running" => work[k] = "running"
        /\ work'[k] = "applied" => work[k] = "applied"
    BY <1>1, <1>7
  <1>9. Harmless(k) => Harmless(k)'
    BY <1>2, <1>8 DEF Harmless
  <1>10. (Denies(out'[k]) => Harmless(k)') /\ (Confirms(out'[k]) => effects[k] > 0)
    <2>1. CASE out'[k] = Succeeded(cur[k]) /\ (cur[k].mutating => work[k] = "applied")
      BY <1>1, <1>5, <2>1, ReceiptMeanings DEF Worked
    <2>2. CASE /\ out'[k] = BeforeWrite(cur[k])
               /\ cur[k].mutating => work[k] = "running" /\ work'[k] = "over"
      <3>1. cur[k].mutating => Harmless(k)'
        BY <1>2, <1>5, <2>2 DEF Worked, Harmless
      <3> QED BY <1>1, <1>6, <1>9, <2>2, <3>1, ReceiptMeanings
    <2>3. CASE out'[k] \in {Indeterminate(cur[k]), Failed(cur[k])}
      BY <1>1, <1>6, <1>9, <2>3, ReceiptMeanings
    <2> QED BY <1>7, <2>1, <2>2, <2>3
  <1>11. Worked(k)' /\ Told(k)' /\ Held(k)'
    <2>1. TerminalAt(k)' = TerminalAt(k)
      BY <1>2 DEF TerminalAt
    <2> QED BY <1>2, <1>5, <1>8, <1>9, <1>10, <2>1 DEF Worked, Told, Held, Mutating
  <1>12. \A p \in Reconcilers : Reconciled(p)'
    BY <1>2 DEF Answers, Reconciled
  <1> QED BY <1>4, <1>11, <1>12 DEF Answers

\* A receipt is told about key k: put in memory, handed to the caller, and, when
\* it denies or confirms, backed by a terminal entry.
LEMMA AnswersTold ==
    ASSUME Shape, Answers, NEW k \in Keys, NEW e \in Entry, NEW o, AppendEntry(k, e, o),
           e.type = "terminal", up, UNCHANGED <<up, work, effects, invoked>>,
           (Denies(e.receipt) => Harmless(k)) /\ (Confirms(e.receipt) => effects[k] > 0),
           NEW r \in Receipt, r = e.receipt \/ (~Denies(r) /\ ~Confirms(r)),
           Denies(r) \/ Confirms(r) => o # "lost",
           receipts' = [receipts EXCEPT ![k] = r], Tell(k, r),
           pc'[k] # "recording",
           \A j \in Keys \ {k} : pc'[j] = pc[j] /\ out'[j] = out[j],
           \A p \in Reconcilers : recon'[p] = recon[p] \/ recon'[p] = IdleReconcile
    PROVE  Answers'
  <1>1. /\ receipts'[k] = r /\ r # NoReceipt
        /\ \A j \in Keys \ {k} : receipts'[j] = receipts[j]
    BY CallAssumption DEF Shape, TypeOK
  <1>2. \A j \in Keys \ {k} : journal'[j] = journal[j]
    BY JournalGrows DEF Shape
  <1>3. /\ k \in denied' => Denies(r) \/ k \in denied
        /\ k \in confirmed' => Confirms(r) \/ k \in confirmed
        /\ \A j \in Keys \ {k} : (j \in denied' <=> j \in denied)
                                 /\ (j \in confirmed' <=> j \in confirmed)
    BY DEF Tell, Confirms
  <1>4. ASSUME NEW j \in Keys \ {k} PROVE Worked(j)' /\ Told(j)' /\ Held(j)'
    BY <1>1, <1>2, <1>3, <1>4, AnswersFrame DEF Answers
  <1>5. Worked(k)' /\ Told(k)' /\ Held(k)'
    <2>1. Worked(k) /\ Told(k)
      BY DEF Answers
    <2>2. /\ TerminalAt(k) # {} => TerminalAt(k)' # {}
          /\ o # "lost" => TerminalAt(k)' # {}
          /\ \A i \in TerminalAt(k)' : (i \in TerminalAt(k) /\ journal'[k][i] = journal[k][i])
                                       \/ journal'[k][i] = e
      BY TerminalsGrow DEF Shape
    <2>3. (Denies(r) => Harmless(k)) /\ (Confirms(r) => effects[k] > 0)
      OBVIOUS
    <2>4. Worked(k)' /\ Held(k)'
      BY <1>1, <2>1 DEF Worked, Held
    <2>5. Told(k)'
      BY <1>1, <1>3, <2>1, <2>2, <2>3 DEF Told, Harmless, Mutating
    <2> QED BY <2>4, <2>5
  <1>6. \A p \in Reconcilers : Reconciled(p)'
    BY DEF Answers, Reconciled, IdleReconcile
  <1> QED BY <1>4, <1>5, <1>6 DEF Answers

LEMMA AnswersTerminal ==
    ASSUME Shape, Accounting, Answers, NEW k \in Keys, NEW o, RecordTerminal(k, o)
    PROVE  Answers'
  <1>1. /\ cur[k] \in Calls /\ cur[k].key = k /\ up /\ receipts[k] = NoReceipt
        /\ pc[k] = "recording" /\ out[k] \in Receipt /\ out[k].mutating = cur[k].mutating
    BY DEF Shape, InFlight, RecordTerminal
  <1>2. UNCHANGED <<up, recon, work, effects, invoked>>
    BY DEF RecordTerminal
  <1>3. PICK e \in Entry : /\ e.type = "terminal" /\ e.receipt = out[k] /\ AppendEntry(k, e, o)
    BY <1>1, TerminalEntry DEF RecordTerminal
  <1>4. (Denies(out[k]) => Harmless(k)) /\ (Confirms(out[k]) => effects[k] > 0)
    BY <1>1 DEF Answers, Told
  <1>5. \A j \in Keys \ {k} : pc'[j] = pc[j] /\ out'[j] = out[j]
    BY OperationTypes DEF RecordTerminal, Finish, GoRecord
  <1>6. CASE \/ o = "ok" /\ CacheLive(k, out[k]) /\ Finish(k)
             \/ o # "ok" /\ cur[k].mutating /\ CacheLive(k, Uncertain(out[k])) /\ Finish(k)
    <2>1. PICK r \in Receipt :
             /\ (r = out[k] /\ o = "ok") \/ r = Uncertain(out[k])
             /\ CacheLive(k, r) /\ Finish(k)
      BY <1>1, <1>6, RevisedTypes
    <2>2. ~Denies(Uncertain(out[k])) /\ ~Confirms(Uncertain(out[k]))
      BY <1>1, RevisedMeanings
    <2>3. /\ receipts' = [receipts EXCEPT ![k] = r] /\ Tell(k, r)
          /\ pc'[k] # "recording"
      BY <2>1, OperationTypes DEF CacheLive, Finish
    <2> QED BY <1>1, <1>2, <1>3, <1>4, <1>5, <2>1, <2>2, <2>3, AnswersTold
  <1>7. CASE /\ ~cur[k].mutating
             /\ UNCHANGED <<receipts, denied, confirmed>>
             /\ GoRecord(k, Failed(cur[k])) \/ Finish(k)
    <2>1. Harmless(k) /\ ~Mutating(k)
      BY <1>1, <1>7, NeverInvoked, CallAssumption DEF Mutating
    <2>2. \A j \in Keys \ {k} : journal'[j] = journal[j]
      BY <1>3, JournalGrows DEF Shape
    <2>3. ASSUME NEW j \in Keys \ {k} PROVE Worked(j)' /\ Told(j)' /\ Held(j)'
      BY <1>2, <1>5, <1>7, <2>2, AnswersFrame DEF Answers
    <2>4. Worked(k)' /\ Told(k)' /\ Held(k)'
      <3>1. Worked(k) /\ Told(k) /\ (TerminalAt(k) # {} => TerminalAt(k)' # {})
        BY <1>3, TerminalsGrow DEF Answers, Shape
      <3>2. pc'[k] = "recording" => ~Confirms(out'[k])
        BY <1>1, <1>7, OperationTypes, ReceiptMeanings DEF GoRecord, Finish
      <3> QED BY <1>2, <1>7, <2>1, <3>1, <3>2 DEF Worked, Told, Held, Harmless, Mutating
    <2>5. \A p \in Reconcilers : Reconciled(p)'
      BY <1>2 DEF Answers, Reconciled
    <2> QED BY <2>3, <2>4, <2>5 DEF Answers
  <1> QED BY <1>6, <1>7 DEF RecordTerminal

\* What an answer leaves for reconcile() to record.
LEMMA AnswerConfirms ==
    ASSUME Shape, NEW p \in Reconcilers, ReconcileAnswer(p), recon'[p].pc # "idle"
    PROVE  \E a \in BOOLEAN :
             /\ recon'[p].key = recon[p].key
             /\ recon'[p].receipt = ReconciledReceipt(receipts[recon[p].key], a)
             /\ a /\ receipts[recon[p].key].mutating => effects[recon[p].key] > 0
  <1> DEFINE k == recon[p].key
             Answered(a) == [pc |-> "record", key |-> k, live |-> recon[p].live,
                           receipt |-> ReconciledReceipt(receipts[k], a)]
  <1>1. \A v : recon' = [recon EXCEPT ![p] = v] => recon'[p] = v
    BY DEF Shape, TypeOK
  <1>2. \/ /\ receipts[k].mutating => effects[k] > 0
           /\ recon' = [recon EXCEPT ![p] = Answered(TRUE)]
        \/ recon' = [recon EXCEPT ![p] = Answered(FALSE)]
        \/ recon' = [recon EXCEPT ![p] = IdleReconcile]
    BY Zenon DEF ReconcileAnswer
  <1>3. IdleReconcile.pc = "idle"
    BY DEF IdleReconcile
  <1>4. \A a : Answered(a).key = k /\ Answered(a).receipt = ReconciledReceipt(receipts[k], a)
    OBVIOUS
  <1>5. \/ (receipts[k].mutating => effects[k] > 0) /\ recon'[p] = Answered(TRUE)
        \/ recon'[p] = Answered(FALSE)
    BY <1>1, <1>2, <1>3
  <1> QED BY <1>4, <1>5

\* A reconciliation never denies, and confirms only what the device confirms.
LEMMA AnswersReconcile ==
    ASSUME Shape, Answers, NEW p \in Reconcilers,
           (\E k \in Keys : ReconcileBegin(p, k)) \/ ReconcileAnswer(p)
    PROVE  Answers'
  <1>1. UNCHANGED <<up, receipts, pc, out, journal, work, effects, invoked, denied, confirmed>>
    BY DEF ReconcileBegin, ReconcileAnswer, history
  <1>2. \A k \in Keys : Worked(k)' /\ Told(k)' /\ Held(k)'
    BY <1>1, AnswersFrame DEF Answers
  <1>3. \A q \in Reconcilers \ {p} : recon'[q] = recon[q]
    BY DEF Shape, TypeOK, ReconcileBegin, ReconcileAnswer
  <1>4. Reconciled(p)'
    <2>1. recon \in [Reconcilers -> Reconcile]
      BY DEF Shape, TypeOK
    <2>2. CASE recon'[p].pc # "record"
      BY <2>2 DEF Reconciled
    <2>3. CASE recon'[p].pc = "record"
      <3>1. ReconcileAnswer(p)
        BY <2>1, <2>3 DEF ReconcileBegin
      <3>2. /\ recon[p].key \in Keys
            /\ receipts[recon[p].key] \in Receipt
        BY <2>1, <3>1 DEF Shape, TypeOK, Reconciling, ReconcileAnswer, Reconcile, IdleReconcile
      <3>3. PICK a \in BOOLEAN :
               /\ recon'[p].key = recon[p].key
               /\ recon'[p].receipt = ReconciledReceipt(receipts[recon[p].key], a)
               /\ a /\ receipts[recon[p].key].mutating => effects[recon[p].key] > 0
        BY <2>3, <3>1, AnswerConfirms
      <3> QED BY <1>1, <3>2, <3>3, RevisedMeanings DEF Reconciled
    <2> QED BY <2>2, <2>3
  <1>5. \A q \in Reconcilers : Reconciled(q)'
    BY <1>1, <1>3, <1>4 DEF Answers, Reconciled
  <1> QED BY <1>2, <1>5 DEF Answers

LEMMA AnswersReconcileRecord ==
    ASSUME Shape, Answers, NEW p \in Reconcilers, NEW o, ReconcileRecord(p, o)
    PROVE  Answers'
  <1>1. recon \in [Reconcilers -> Reconcile]
    BY DEF Shape, TypeOK
  <1>2. PICK k \in Keys, r \in Receipt : k = recon[p].key /\ r = recon[p].receipt
    BY <1>1 DEF ReconcileRecord, Reconcile, IdleReconcile
  <1>3. /\ up /\ receipts[k] # NoReceipt
        /\ ~Denies(r) /\ (Confirms(r) => effects[k] > 0)
    BY <1>2 DEF Shape, Reconciling, ReconcileRecord, Answers, Reconciled
  <1>4. /\ UNCHANGED <<up, pc, out, work, effects, invoked>>
        /\ \A q \in Reconcilers : recon'[q] = recon[q] \/ recon'[q] = IdleReconcile
    BY <1>1 DEF ReconcileRecord
  <1>5. PICK e \in Entry : e.type = "terminal" /\ e.receipt = r /\ AppendEntry(k, e, o)
    BY <1>2, TerminalEntry DEF ReconcileRecord
  <1>6. pc[k] # "recording"
    BY <1>3 DEF Shape, InFlight
  <1>7. CASE \/ /\ o = "ok"
                /\ receipts' = [receipts EXCEPT ![k] = r]
                /\ Tell(k, r)
             \/ /\ receipts' = [receipts EXCEPT ![k] = Uncertain(r)]
                /\ Tell(k, Uncertain(r))
    <2>1. PICK s \in Receipt :
             /\ (s = r /\ o = "ok") \/ s = Uncertain(r)
             /\ receipts' = [receipts EXCEPT ![k] = s] /\ Tell(k, s)
      BY <1>7, RevisedTypes
    <2>2. ~Denies(Uncertain(r)) /\ ~Confirms(Uncertain(r))
      BY RevisedMeanings
    <2> QED BY <1>3, <1>4, <1>5, <1>6, <2>1, <2>2, AnswersTold
  <1>8. CASE UNCHANGED <<receipts, denied, confirmed>>
    <2>1. \A j \in Keys \ {k} : journal'[j] = journal[j]
      BY <1>5, JournalGrows DEF Shape
    <2>2. ASSUME NEW j \in Keys \ {k} PROVE Worked(j)' /\ Told(j)' /\ Held(j)'
      BY <1>4, <1>8, <2>1, AnswersFrame DEF Answers
    <2>3. Worked(k)' /\ Told(k)' /\ Held(k)'
      <3>1. /\ Worked(k) /\ Told(k)
            /\ TerminalAt(k) # {} => TerminalAt(k)' # {}
            /\ \A i \in TerminalAt(k)' : (i \in TerminalAt(k) /\ journal'[k][i] = journal[k][i])
                                         \/ journal'[k][i] = e
        BY <1>5, TerminalsGrow DEF Answers, Shape
      <3> QED BY <1>3, <1>4, <1>5, <1>6, <1>8, <3>1 DEF Worked, Told, Held, Harmless, Mutating
    <2>4. \A q \in Reconcilers : Reconciled(q)'
      BY <1>4 DEF Answers, Reconciled, IdleReconcile
    <2> QED BY <2>2, <2>3, <2>4 DEF Answers
  <1> QED BY <1>2, <1>7, <1>8 DEF ReconcileRecord

\* A restart hands out again the last terminal entry, or an uncertain receipt.
LEMMA AnswersRestart ==
    ASSUME Shape, Answers, Crash \/ Recover \/ Tick
    PROVE  Answers'
  <1>1. UNCHANGED <<journal, work, effects, invoked, denied, confirmed>>
    BY DEF Crash, Recover, Tick, history
  <1>2. \A k \in Keys : TerminalAt(k)' = TerminalAt(k)
    BY <1>1 DEF TerminalAt
  <1>3. CASE Crash
    BY <1>1, <1>2, <1>3 DEF Crash, Answers, Worked, Told, Held, Harmless, Mutating,
                            Reconciled, IdleReconcile
  <1>4. CASE Recover
    <2>1. /\ ~up /\ UNCHANGED <<pc, out, recon>>
          /\ \A k \in Keys : receipts'[k] = RecoveredReceipt(k)
      BY <1>4 DEF Recover
    <2>2. ASSUME NEW k \in Keys
          PROVE  /\ RecoveredReceipt(k) # NoReceipt /\ Denies(RecoveredReceipt(k)) => Harmless(k)
                 /\ TerminalAt(k) # {} => RecoveredReceipt(k) # NoReceipt
      <3>1. CASE TerminalAt(k) # {}
        <4>1. PICK i \in TerminalAt(k) : RecoveredReceipt(k) = journal[k][i].receipt
          BY <3>1, LastEntry DEF Shape, RecoveredReceipt
        <4>2. RecoveredReceipt(k) \in Receipt
          BY <4>1, EntryKinds DEF Shape
        <4> QED BY <4>1, <4>2, CallAssumption DEF Answers, Told
      <3>2. CASE TerminalAt(k) = {} /\ PreparedAt(k) # {}
        <4>1. PICK i \in PreparedAt(k) : RecoveredReceipt(k) = Indeterminate(journal[k][i].call)
          BY <3>2, LastEntry DEF Shape, RecoveredReceipt
        <4>2. ~Denies(RecoveredReceipt(k))
          BY <4>1, EntryKinds, ReceiptMeanings DEF Shape
        <4> QED BY <3>2, <4>2
      <3>3. CASE TerminalAt(k) = {} /\ PreparedAt(k) = {}
        BY <3>3 DEF RecoveredReceipt
      <3> QED BY <3>1, <3>2, <3>3
    <2>3. \A k \in Keys : Worked(k)' /\ Told(k)' /\ Held(k)'
      BY <1>1, <1>2, <2>1, <2>2 DEF Answers, Worked, Told, Held, Harmless, Mutating
    <2>4. \A p \in Reconcilers : Reconciled(p)'
      BY <1>1, <2>1 DEF Answers, Reconciled
    <2> QED BY <2>3, <2>4 DEF Answers
  <1>5. CASE Tick
    <2>1. UNCHANGED <<up, receipts, pc, out, recon>>
      BY <1>5 DEF Tick, memory
    <2> QED BY <1>1, <1>2, <2>1 DEF Answers, Worked, Told, Held, Harmless, Mutating, Reconciled
  <1> QED BY <1>3, <1>4, <1>5

LEMMA AnswersInit == Init => Answers
  <1> SUFFICES ASSUME Init PROVE Answers
    OBVIOUS
  <1>1. \A k \in Keys : TerminalAt(k) = {}
    BY DEF Init, TerminalAt
  <1> QED BY <1>1 DEF Init, Answers, Worked, Told, Held, Reconciled, IdleReconcile

LEMMA AnswersNext == Shape /\ Accounting /\ Answers /\ [Next]_vars => Answers'
  <1> SUFFICES ASSUME Shape, Accounting, Answers, [Next]_vars PROVE Answers'
    OBVIOUS
  <1>1. CASE UNCHANGED vars
    <2>1. UNCHANGED <<up, receipts, pc, out, recon, journal, work, effects, invoked,
                      denied, confirmed>>
      BY <1>1 DEF vars, memory, history
    <2> QED BY <2>1 DEF Answers, Worked, Told, Held, Harmless, Mutating, Reconciled, TerminalAt
  <1>2. CASE Next
    BY <1>2, AnswersExecute, AnswersDecision, AnswersStart, AnswersEffect, AnswersReturn,
       AnswersTerminal, AnswersReconcile, AnswersReconcileRecord, AnswersRestart DEF Next
  <1> QED BY <1>1, <1>2

LEMMA AnswersAlways == Spec => []Answers
  BY AnswersInit, AnswersNext, ShapeAlways, AccountingAlways, PTL DEF Spec

\* Whoever was told that no effect occurred is right for good, whatever
\* handlers, journal faults, reconcilers and restarts come after.
THEOREM DenialsAreRight == Spec => []NoFalseDenial
  <1>1. Answers => NoFalseDenial
    BY DEF Answers, Told, Harmless, NoFalseDenial
  <1> QED BY <1>1, AnswersAlways, PTL

\* Whoever was told that a mutation succeeded can rely on it: the effect is
\* there, and a running gateway holds a receipt that does not deny it.
THEOREM SuccessesAreRemembered == Spec => []SuccessIsRemembered
  <1>1. Shape /\ Accounting /\ Answers => SuccessIsRemembered
    <2> SUFFICES ASSUME Shape, Accounting, Answers, NEW k \in confirmed
                 PROVE  /\ effects[k] > 0
                        /\ up => receipts[k] # NoReceipt /\ ~Denies(receipts[k])
      BY DEF SuccessIsRemembered
    <2>1. k \in Keys
      BY DEF Shape, TypeOK
    <2>2. Worked(k) /\ Told(k) /\ Held(k)
      BY <2>1 DEF Answers
    <2>3. effects[k] > 0 /\ TerminalAt(k) # {}
      BY <2>2 DEF Told
    <2>4. Mutating(k)
      BY <2>1, <2>2, <2>3 DEF Accounting, EffectsInvoked, Worked
    <2>5. up => receipts[k] # NoReceipt
      BY <2>2, <2>3, <2>4 DEF Held
    <2>6. ~Harmless(k)
      BY <2>3 DEF Harmless
    <2> QED BY <2>2, <2>3, <2>5, <2>6 DEF Told
  <1> QED BY <1>1, ShapeAlways, AccountingAlways, AnswersAlways, PTL

-----------------------------------------------------------------------------
(***************************************************************************)
(* Receipts only settle.  A reconcile() may answer long after it read the  *)
(* receipt: what it is about to overwrite must still be one that a         *)
(* reconciliation may revise, of the same request.                         *)
(***************************************************************************)

Revisable(r) == r.status \in {"indeterminate", "succeeded"}

Settling ==
    \A p \in Reconcilers : recon[p].pc # "idle" =>
        LET held == receipts[recon[p].key] IN
        /\ Revisable(held)
        /\ recon[p].pc = "record" =>
              Revisable(recon[p].receipt) /\ recon[p].receipt.fp = held.fp

\* Receipt s may replace receipt r.
Settles(r, s) == s = r \/ (s # NoReceipt /\ s.fp = r.fp /\ Revisable(r) /\ Revisable(s))

LEMMA ReceiptsSettle ==
    ASSUME Shape, Settling, Next, up'
    PROVE  \A k \in Keys : receipts[k] # NoReceipt => Settles(receipts[k], receipts'[k])
  <1> SUFFICES ASSUME NEW k \in Keys, receipts[k] # NoReceipt
               PROVE  Settles(receipts[k], receipts'[k])
    OBVIOUS
  <1>1. CASE receipts' = receipts
    BY <1>1 DEF Settles
  <1>2. ASSUME NEW j \in Keys, NEW o \in AppendOutcome, RecordTerminal(j, o)
        PROVE  Settles(receipts[k], receipts'[k])
    <2>1. j # k
      BY <1>2 DEF Shape, InFlight, RecordTerminal
    <2>2. receipts'[k] = receipts[k]
      BY <1>2, <2>1 DEF Shape, TypeOK, RecordTerminal, CacheLive
    <2> QED BY <2>2 DEF Settles
  <1>3. ASSUME NEW p \in Reconcilers, NEW o \in AppendOutcome, ReconcileRecord(p, o)
        PROVE  Settles(receipts[k], receipts'[k])
    <2>1. receipts \in [Keys -> Receipt \cup {NoReceipt}]
      BY DEF Shape, TypeOK
    <2>2. PICK r \in Receipt : r = recon[p].receipt
      BY <1>3 DEF Shape, TypeOK, ReconcileRecord, Reconcile, IdleReconcile
    <2>3. PICK s : /\ receipts' = receipts \/ receipts' = [receipts EXCEPT ![recon[p].key] = s]
                   /\ s = r \/ s = Uncertain(r)
      BY <1>3, <2>2 DEF ReconcileRecord
    <2>4. CASE receipts'[k] = receipts[k]
      BY <2>4 DEF Settles
    <2>5. CASE recon[p].key = k /\ receipts'[k] = s
      <3>1. Revisable(receipts[k]) /\ Revisable(r) /\ r.fp = receipts[k].fp
        BY <1>3, <2>2, <2>5 DEF Settling, ReconcileRecord
      <3>2. Uncertain(r) \in Receipt
        BY RevisedTypes
      <3>3. Uncertain(r).fp = r.fp /\ Revisable(Uncertain(r))
        BY DEF Uncertain, ReceiptOf, Revisable
      <3>4. s \in Receipt /\ s.fp = r.fp /\ Revisable(s)
        BY <2>3, <3>1, <3>2, <3>3
      <3> QED BY <2>5, <3>1, <3>4, CallAssumption DEF Settles
    <2> QED BY <2>1, <2>3, <2>4, <2>5
  <1>4. CASE Recover
    BY <1>4 DEF Recover, Shape, Down
  <1> QED
    BY <1>1, <1>2, <1>3, <1>4 DEF Next, Execute, RecordDecision, RecordPrepared, StartHandler,
       PerformEffect, HandlerReturns, HandlerTimeout, ReconcileBegin, ReconcileAnswer, Crash,
       Tick, memory

\* Only its own steps, and a death, move a reconcile().
LEMMA ReconMoves ==
    ASSUME Shape, Next, NEW p \in Reconcilers, recon'[p] # recon[p]
    PROVE  \/ \E k \in Keys : ReconcileBegin(p, k)
           \/ ReconcileAnswer(p)
           \/ \E o \in AppendOutcome : ReconcileRecord(p, o)
           \/ Crash
  <1>1. \/ recon' = recon
        \/ \E q \in Reconcilers, k \in Keys : ReconcileBegin(q, k)
        \/ \E q \in Reconcilers : ReconcileAnswer(q)
        \/ \E q \in Reconcilers, o \in AppendOutcome : ReconcileRecord(q, o)
        \/ Crash
    BY DEF Next, Execute, RecordDecision, RecordPrepared, RecordTerminal, StartHandler,
           PerformEffect, HandlerReturns, HandlerTimeout, Recover, Tick, memory
  <1>2. \A q \in Reconcilers \ {p} : \A v : recon' = [recon EXCEPT ![q] = v] => recon'[p] = recon[p]
    BY DEF Shape, TypeOK
  <1>3. ASSUME NEW q \in Reconcilers \ {p}
        PROVE  /\ \A k \in Keys : ~ReconcileBegin(q, k)
               /\ ~ReconcileAnswer(q)
               /\ \A o \in AppendOutcome : ~ReconcileRecord(q, o)
    <2>1. \A v : recon' # [recon EXCEPT ![q] = v]
      BY <1>2
    <2>2. \A k \in Keys : ~ReconcileBegin(q, k)
      BY <2>1 DEF ReconcileBegin
    <2>3. ~ReconcileAnswer(q)
      BY <2>1, Zenon DEF ReconcileAnswer
    <2>4. \A o \in AppendOutcome : ~ReconcileRecord(q, o)
      BY <2>1 DEF ReconcileRecord
    <2> QED BY <2>2, <2>3, <2>4
  <1> QED BY <1>1, <1>3

LEMMA SettlingNext ==
    ASSUME Shape, Settling, Next
    PROVE  Settling'
  <1> SUFFICES ASSUME NEW p \in Reconcilers, recon'[p].pc # "idle"
               PROVE  /\ Revisable(receipts'[recon'[p].key])
                      /\ recon'[p].pc = "record" =>
                            /\ Revisable(recon'[p].receipt)
                            /\ recon'[p].receipt.fp = receipts'[recon'[p].key].fp
    BY DEF Settling
  <1>1. recon \in [Reconcilers -> Reconcile] /\ up \in BOOLEAN
    BY DEF Shape, TypeOK
  <1>2. up' /\ (recon'[p] = recon[p] => up)
    <2>1. ~Crash
      BY DEF Crash, IdleReconcile
    <2>2. recon'[p] = recon[p] => up
      BY DEF Shape, Reconciling
    <2>3. Recover => recon' = recon /\ ~up
      BY DEF Recover
    <2>4. up' = up \/ Recover
      BY <2>1 DEF Next, Execute, RecordDecision, RecordPrepared, RecordTerminal, StartHandler,
         PerformEffect, HandlerReturns, HandlerTimeout, ReconcileBegin, ReconcileAnswer,
         ReconcileRecord, Tick, memory
    <2>5. CASE recon'[p] = recon[p]
      BY <2>2, <2>3, <2>4, <2>5
    <2>6. CASE recon'[p] # recon[p]
      <3>1. \/ \E k \in Keys : ReconcileBegin(p, k)
            \/ ReconcileAnswer(p)
            \/ \E o \in AppendOutcome : ReconcileRecord(p, o)
        BY <2>1, <2>6, ReconMoves
      <3>2. recon[p].pc # "idle" \/ up
        BY <3>1 DEF ReconcileBegin, ReconcileAnswer, ReconcileRecord
      <3>3. up
        BY <3>2 DEF Shape, Reconciling
      <3> QED BY <2>3, <2>4, <2>6, <3>3
    <2> QED BY <2>5, <2>6
  <1>3. CASE recon'[p] = recon[p]
    <2>1. /\ recon[p].key \in Keys /\ receipts[recon[p].key] # NoReceipt
          /\ Revisable(receipts[recon[p].key])
          /\ recon[p].pc = "record" =>
                /\ Revisable(recon[p].receipt)
                /\ recon[p].receipt.fp = receipts[recon[p].key].fp
      BY <1>1, <1>3 DEF Shape, Reconciling, Reconcile, IdleReconcile, Settling
    <2>2. Settles(receipts[recon[p].key], receipts'[recon[p].key])
      BY <1>2, <2>1, ReceiptsSettle
    <2> QED BY <1>3, <2>1, <2>2 DEF Settles
  <1>4. ASSUME NEW k \in Keys, ReconcileBegin(p, k)
        PROVE  /\ Revisable(receipts'[recon'[p].key]) /\ recon'[p].pc = "query"
    BY <1>1, <1>4 DEF ReconcileBegin, NeedsReconcile, Revisable
  <1>5. CASE ReconcileAnswer(p)
    <2>1. /\ recon[p].key \in Keys /\ receipts[recon[p].key] \in Receipt
          /\ Revisable(receipts[recon[p].key]) /\ receipts' = receipts
      BY <1>1, <1>5 DEF Shape, TypeOK, Reconciling, Reconcile, IdleReconcile, Settling,
                        ReconcileAnswer
    <2>2. PICK a \in BOOLEAN :
             /\ recon'[p].key = recon[p].key
             /\ recon'[p].receipt = ReconciledReceipt(receipts[recon[p].key], a)
      BY <1>5, AnswerConfirms
    <2> QED BY <2>1, <2>2 DEF ReconciledReceipt, ReceiptOf, Revisable
  <1> QED
    <2>1. CASE recon'[p] # recon[p]
      <3>1. \/ \E k \in Keys : ReconcileBegin(p, k)
            \/ ReconcileAnswer(p)
            \/ \E o \in AppendOutcome : ReconcileRecord(p, o)
            \/ Crash
        BY <2>1, ReconMoves
      <3>2. ~Crash /\ \A o : ~ReconcileRecord(p, o)
        BY <1>1 DEF Crash, ReconcileRecord, IdleReconcile
      <3> QED BY <1>4, <1>5, <3>1, <3>2
    <2> QED BY <1>3, <2>1

\* A running gateway never drops a receipt, never hands it to another request and
\* never revises one that says the mutation was rejected or failed.
THEOREM ReceiptsAreStable == Spec => ReceiptStable
  <1>1. Init => Settling
    BY DEF Init, Settling, IdleReconcile
  <1>2. Shape /\ Settling /\ [Next]_vars => Settling'
    <2> SUFFICES ASSUME Shape, Settling, [Next]_vars PROVE Settling'
      OBVIOUS
    <2>1. CASE UNCHANGED vars
      BY <2>1 DEF vars, memory, Settling
    <2> QED BY <2>1, SettlingNext
  <1>3. Shape /\ Settling /\ [Next]_vars =>
           [\A k \in Keys :
              receipts[k] # NoReceipt /\ up' /\ receipts'[k] # receipts[k] =>
                 /\ receipts'[k] # NoReceipt
                 /\ receipts'[k].fp = receipts[k].fp
                 /\ receipts[k].status \in {"indeterminate", "succeeded"}]_vars
    BY ReceiptsSettle DEF Settles, Revisable
  <1> QED BY <1>1, <1>2, <1>3, ShapeAlways, PTL DEF Spec, ReceiptStable

-----------------------------------------------------------------------------
(* Scheduler: the invariant                                                *)

\* The device is used by the effect that runs or by the one that opened the
\* circuit, and the queue is only left to itself when it is empty.
OneUsesDevice ==
    /\ current # NoEffect => circuit = NoEffect /\ draining
    /\ \A d \in physical : d = current \/ d = circuit
    /\ ~draining => queue = <<>>

\* Admission is the order of everything: what was started comes first in it,
\* then what is queued, unless the circuit has emptied the queue.
QueueFollowsStarted ==
    /\ \A i, j \in 1..Len(accepted) : accepted[i] = accepted[j] => i = j
    /\ Len(started) <= Len(accepted)
    /\ \A i \in 1..Len(started) : started[i] = accepted[i]
    /\ circuit = NoEffect \/ draining => Len(accepted) = Len(started) + Len(queue)
    /\ \A i \in 1..Len(queue) : queue[i] = accepted[Len(started) + i]

\* A caller waits exactly while its effect is queued or runs.
AnswersMatch ==
    \A e \in Effects :
        /\ answer[e] = "pending" <=> Contains(queue, e) \/ e = current
        /\ Contains(started, e) <=> answer[e] \in {"ok", "error", "timeout"} \/ e = current
        /\ Contains(accepted, e) => answer[e] \notin {"none", "closed", "full"}

\* close() is over only with nothing left to drain, and nothing is admitted
\* after it.
ClosedIsIdle ==
    /\ closing # "no" => closed
    /\ closing = "done" => ~draining

SchedInvariant ==
    SchedTypeOK /\ OneUsesDevice /\ QueueFollowsStarted /\ AnswersMatch /\ ClosedIsIdle

-----------------------------------------------------------------------------
(* Sequences                                                               *)

\* What Append adds is at the end and nowhere else.
LEMMA Appended ==
    ASSUME NEW S, NEW s \in Seq(S), NEW e \in S
    PROVE  /\ Append(s, e) \in Seq(S)
           /\ Len(Append(s, e)) = Len(s) + 1
           /\ Append(s, e)[Len(s) + 1] = e
           /\ \A i \in 1..Len(s) : Append(s, e)[i] = s[i]
           /\ \A d : Contains(Append(s, e), d) <=> Contains(s, d) \/ d = e
  <1>1. /\ Append(s, e) \in Seq(S)
        /\ Len(Append(s, e)) = Len(s) + 1
        /\ Append(s, e)[Len(s) + 1] = e
        /\ \A i \in 1..Len(s) : Append(s, e)[i] = s[i]
        /\ Len(s) \in Nat
    BY LenProperties
  <1>2. \A i \in 1..Len(s) + 1 : i \in 1..Len(s) \/ i = Len(s) + 1
    BY <1>1
  <1>3. 1..Len(s) \subseteq 1..Len(s) + 1 /\ Len(s) + 1 \in 1..Len(s) + 1
    BY <1>1
  <1> QED BY <1>1, <1>2, <1>3 DEF Contains

\* What runs or ran is not queued: the two hold different places of accepted.
LEMMA StartedIsNotQueued ==
    ASSUME SchedInvariant, NEW e \in Effects, Contains(started, e)
    PROVE  ~Contains(queue, e)
  <1>1. /\ Len(started) \in Nat /\ Len(queue) \in Nat /\ Len(accepted) \in Nat
    BY LenProperties DEF SchedInvariant, SchedTypeOK
  <1> SUFFICES ASSUME Contains(queue, e) PROVE FALSE
    OBVIOUS
  <1>2. PICK i \in 1..Len(started) : started[i] = e
    BY DEF Contains
  <1>3. PICK j \in 1..Len(queue) : queue[j] = e
    BY DEF Contains
  <1>4. draining
    BY <1>1, <1>3, EmptySeq DEF SchedInvariant, OneUsesDevice
  <1>5. Len(accepted) = Len(started) + Len(queue)
    BY <1>4 DEF SchedInvariant, QueueFollowsStarted
  <1>6. accepted[i] = e /\ accepted[Len(started) + j] = e
    BY <1>2, <1>3 DEF SchedInvariant, QueueFollowsStarted
  <1>7. /\ i \in 1..Len(accepted) /\ Len(started) + j \in 1..Len(accepted)
        /\ i # Len(started) + j
    BY <1>1, <1>5
  <1> QED BY <1>6, <1>7 DEF SchedInvariant, QueueFollowsStarted

\* A sequence of n places and one place more hold at most n + 1 elements.
LEMMA QueueAndOneMore ==
    ASSUME NEW S, NEW q \in Seq(S), NEW c, NEW W \in SUBSET ({e \in S : Contains(q, e)} \cup {c})
    PROVE  Cardinality(W) \in Nat /\ Cardinality(W) <= Len(q) + 1
  <1>1. Len(q) \in Nat /\ q \in [1..Len(q) -> S]
    BY LenProperties
  <1>2. PICK T : T = {e \in S : Contains(q, e)}
    OBVIOUS
  <1>3. q \in Surjection(1..Len(q), T)
    <2>1. \A i \in 1..Len(q) : q[i] \in T
      BY <1>1, <1>2 DEF Contains
    <2>2. \A t \in T : \E i \in 1..Len(q) : q[i] = t
      BY <1>2 DEF Contains
    <2>3. q \in [1..Len(q) -> T]
      BY <1>1, <2>1
    <2> QED BY <2>2, <2>3 DEF Surjection
  <1>4. IsFiniteSet(1..Len(q)) /\ Cardinality(1..Len(q)) = Len(q)
    BY <1>1, FS_Interval
  <1>5. IsFiniteSet(T) /\ Cardinality(T) <= Len(q)
    BY <1>3, <1>4, FS_Surjection
  <1>6. Cardinality(T) \in Nat
    BY <1>5, FS_CardinalityType
  <1>7. IsFiniteSet(T \cup {c}) /\ Cardinality(T \cup {c}) <= Cardinality(T) + 1
    <2>1. /\ IsFiniteSet(T \cup {c})
          /\ Cardinality(T \cup {c}) = IF c \in T THEN Cardinality(T) ELSE Cardinality(T) + 1
      BY <1>5, FS_AddElement
    <2> QED BY <1>6, <2>1
  <1>8. W \in SUBSET (T \cup {c})
    BY <1>2
  <1>9. IsFiniteSet(W) /\ Cardinality(W) <= Cardinality(T \cup {c})
    BY <1>7, <1>8, FS_Subset
  <1>10. Cardinality(W) \in Nat /\ Cardinality(T \cup {c}) \in Nat
    BY <1>7, <1>9, FS_CardinalityType
  <1> QED BY <1>1, <1>5, <1>6, <1>7, <1>9, <1>10

-----------------------------------------------------------------------------
(* The steps                                                               *)

\* The invariant holds of a new scheduler.
LEMMA InvariantAtStart == SchedInit => SchedInvariant
  <1> SUFFICES ASSUME SchedInit PROVE SchedInvariant
    OBVIOUS
  <1>1. /\ <<>> \in Seq(Effects) /\ Len(<<>>) = 0
        /\ \A e : ~Contains(<<>>, e)
    BY EmptySeq DEF Contains
  <1>2. 1..0 = {} /\ 0 < maxPending /\ 0 + 0 = 0
    BY SchedulerAssumption
  <1>3. SchedTypeOK
    BY <1>1, <1>2 DEF SchedInit, SchedTypeOK, Answer
  <1>4. OneUsesDevice /\ ClosedIsIdle
    BY DEF SchedInit, OneUsesDevice, ClosedIsIdle
  <1>5. QueueFollowsStarted
    BY <1>1, <1>2 DEF SchedInit, QueueFollowsStarted
  <1>6. AnswersMatch
    BY <1>1, SchedulerAssumption DEF SchedInit, AnswersMatch
  <1> QED BY <1>3, <1>4, <1>5, <1>6 DEF SchedInvariant

\* The three ways in which the effect that runs stops running.
LEMMA CurrentStops ==
    ASSUME SchedInvariant, NEW e \in Effects, current = e, current' = NoEffect,
           NEW result \in {"ok", "error", "timeout"},
           answer' = [answer EXCEPT ![e] = result],
           circuit' \in {circuit, e}, physical' \subseteq physical,
           e \in physical' => circuit' = e,
           UNCHANGED <<queue, draining, closed, closing, accepted, started>>
    PROVE  SchedInvariant'
  <1>1. circuit = NoEffect /\ draining /\ e # NoEffect
    BY SchedulerAssumption DEF SchedInvariant, OneUsesDevice
  <1>2. Contains(started, e)
    BY DEF SchedInvariant, AnswersMatch
  <1>3. ~Contains(queue, e)
    BY <1>2, StartedIsNotQueued
  <1>4. SchedTypeOK'
    BY DEF SchedInvariant, SchedTypeOK, Answer
  <1>5. OneUsesDevice'
    BY <1>1 DEF SchedInvariant, SchedTypeOK, OneUsesDevice
  <1>6. QueueFollowsStarted'
    BY <1>1 DEF SchedInvariant, QueueFollowsStarted
  <1>7. AnswersMatch'
    <2> SUFFICES ASSUME NEW d \in Effects
                 PROVE  /\ answer'[d] = "pending" <=> Contains(queue, d) \/ d = current'
                        /\ Contains(started, d) <=> answer'[d] \in {"ok", "error", "timeout"} \/ d = current'
                        /\ Contains(accepted, d) => answer'[d] \notin {"none", "closed", "full"}
      BY DEF AnswersMatch
    <2>1. answer'[d] = IF d = e THEN result ELSE answer[d]
      BY DEF SchedInvariant, SchedTypeOK
    <2>2. d # NoEffect
      BY SchedulerAssumption
    <2> QED BY <1>2, <1>3, <2>1, <2>2 DEF SchedInvariant, AnswersMatch
  <1>8. ClosedIsIdle'
    BY DEF SchedInvariant, ClosedIsIdle
  <1> QED BY <1>4, <1>5, <1>6, <1>7, <1>8 DEF SchedInvariant

\* An effect whose operation begins is the next one of accepted.
LEMMA Begins ==
    ASSUME SchedInvariant, NEW e \in Effects, current = NoEffect, circuit = NoEffect,
           Begin(e)
    PROVE  /\ current' = e /\ physical' = {e}
           /\ started' \in Seq(Effects) /\ Len(started') = Len(started) + 1
           /\ started'[Len(started) + 1] = e
           /\ \A i \in 1..Len(started) : started'[i] = started[i]
           /\ \A d : Contains(started', d) <=> Contains(started, d) \/ d = e
  <1>1. physical = {}
    BY SchedulerAssumption DEF SchedInvariant, SchedTypeOK, OneUsesDevice
  <1>2. started \in Seq(Effects)
    BY DEF SchedInvariant, SchedTypeOK
  <1> QED BY <1>1, <1>2, Appended DEF Begin

\* A refusal leaves everything but the caller's answer.
LEMMA RefusedKeeps ==
    ASSUME SchedInvariant, NEW e \in Effects, Schedule(e), Refusal # "pending"
    PROVE  SchedInvariant'
  <1>1. /\ answer[e] = "none" /\ Refusal \in {"closed", "circuit_open", "full"}
        /\ answer' = [answer EXCEPT ![e] = Refusal]
        /\ UNCHANGED <<queue, draining, current, circuit, closed, closing, physical,
                       accepted, started>>
    BY DEF Schedule, Refusal
  <1>2. SchedTypeOK' /\ OneUsesDevice' /\ QueueFollowsStarted' /\ ClosedIsIdle'
    BY <1>1 DEF SchedInvariant, SchedTypeOK, Answer, OneUsesDevice, QueueFollowsStarted,
        ClosedIsIdle
  <1>3. AnswersMatch'
    <2> SUFFICES ASSUME NEW d \in Effects
                 PROVE  /\ answer'[d] = "pending" <=> Contains(queue, d) \/ d = current
                        /\ Contains(started, d) <=> answer'[d] \in {"ok", "error", "timeout"} \/ d = current
                        /\ Contains(accepted, d) => answer'[d] \notin {"none", "closed", "full"}
      BY <1>1 DEF AnswersMatch
    <2>1. answer'[d] = IF d = e THEN Refusal ELSE answer[d]
      BY <1>1 DEF SchedInvariant, SchedTypeOK
    <2> QED BY <1>1, <2>1 DEF SchedInvariant, AnswersMatch
  <1> QED BY <1>2, <1>3 DEF SchedInvariant

\* An admitted effect is the last of accepted, behind the queue or running.
LEMMA AdmittedKeeps ==
    ASSUME SchedInvariant, NEW e \in Effects, Schedule(e), Refusal = "pending"
    PROVE  SchedInvariant'
  <1>1. /\ answer[e] = "none" /\ ~closed /\ circuit = NoEffect /\ pending < maxPending
        /\ answer' = [answer EXCEPT ![e] = "pending"]
        /\ accepted' = Append(accepted, e) /\ draining'
        /\ UNCHANGED <<circuit, closed, closing>>
    <2>1. ~closed /\ circuit = NoEffect /\ ~(pending >= maxPending)
      BY DEF Refusal
    <2>2. pending \in Nat /\ maxPending \in Nat
      BY LenProperties, SchedulerAssumption DEF pending, SchedInvariant, SchedTypeOK
    <2>3. /\ answer[e] = "none" /\ answer' = [answer EXCEPT ![e] = "pending"]
          /\ accepted' = Append(accepted, e) /\ draining'
          /\ UNCHANGED <<circuit, closed, closing>>
      BY DEF Schedule
    <2> QED BY <2>1, <2>2, <2>3
  <1>2. /\ accepted \in Seq(Effects) /\ started \in Seq(Effects) /\ queue \in Seq(Effects)
        /\ Len(accepted) \in Nat /\ Len(started) \in Nat /\ Len(queue) \in Nat
    BY LenProperties DEF SchedInvariant, SchedTypeOK
  <1>3. /\ accepted' \in Seq(Effects) /\ Len(accepted') = Len(accepted) + 1
        /\ accepted'[Len(accepted) + 1] = e
        /\ \A i \in 1..Len(accepted) : accepted'[i] = accepted[i]
        /\ \A d : Contains(accepted', d) <=> Contains(accepted, d) \/ d = e
    BY <1>1, <1>2, Appended
  <1>4. ~Contains(accepted, e) /\ ~Contains(queue, e) /\ ~Contains(started, e) /\ e # current
    BY <1>1 DEF SchedInvariant, AnswersMatch
  <1>5. ClosedIsIdle'
    BY <1>1 DEF SchedInvariant, ClosedIsIdle
  <1>6. Len(accepted) = Len(started) + Len(queue)
    BY <1>1 DEF SchedInvariant, QueueFollowsStarted
  <1>7. \A i, j \in 1..Len(accepted') : accepted'[i] = accepted'[j] => i = j
    <2> SUFFICES ASSUME NEW i \in 1..Len(accepted'), NEW j \in 1..Len(accepted'),
                        accepted'[i] = accepted'[j]
                 PROVE  i = j
      OBVIOUS
    <2>1. \A k \in 1..Len(accepted') : k \in 1..Len(accepted) \/ k = Len(accepted) + 1
      BY <1>2, <1>3
    <2>2. \A k \in 1..Len(accepted) : accepted'[k] # e
      BY <1>3, <1>4 DEF Contains
    <2> QED BY <1>3, <2>1, <2>2 DEF SchedInvariant, QueueFollowsStarted
  <1>8. \A d \in Effects : answer'[d] = IF d = e THEN "pending" ELSE answer[d]
    BY <1>1 DEF SchedInvariant, SchedTypeOK
  <1>9. CASE draining
    <2>1. queue' = Append(queue, e) /\ UNCHANGED <<current, physical, started>>
      BY <1>9 DEF Schedule
    <2>2. /\ queue' \in Seq(Effects) /\ Len(queue') = Len(queue) + 1
          /\ queue'[Len(queue) + 1] = e
          /\ \A i \in 1..Len(queue) : queue'[i] = queue[i]
          /\ \A d : Contains(queue', d) <=> Contains(queue, d) \/ d = e
      BY <1>2, <2>1, Appended
    <2>3. SchedTypeOK'
      BY <1>1, <1>2, <1>3, <1>9, <2>1, <2>2, SchedulerAssumption
         DEF SchedInvariant, SchedTypeOK, Answer, pending
    <2>4. OneUsesDevice'
      BY <1>1, <1>9, <2>1 DEF SchedInvariant, OneUsesDevice
    <2>5. QueueFollowsStarted'
      <3>1. \A i \in 1..Len(queue') : i \in 1..Len(queue) \/ i = Len(queue) + 1
        BY <1>2, <2>2
      <3>2. \A i \in 1..Len(queue) : Len(started) + i \in 1..Len(accepted)
        BY <1>2, <1>6
      <3>3. \A i \in 1..Len(queue') : queue'[i] = accepted'[Len(started) + i]
        <4> SUFFICES ASSUME NEW i \in 1..Len(queue') PROVE queue'[i] = accepted'[Len(started) + i]
          OBVIOUS
        <4>1. CASE i \in 1..Len(queue)
          BY <1>3, <2>2, <3>2, <4>1 DEF SchedInvariant, QueueFollowsStarted
        <4>2. CASE i = Len(queue) + 1
          <5>1. Len(started) + i = Len(accepted) + 1
            BY <1>2, <1>6, <4>2
          <5> QED BY <1>3, <2>2, <4>2, <5>1
        <4> QED BY <3>1, <4>1, <4>2
      <3>4. \A i \in 1..Len(started) : i \in 1..Len(accepted)
        BY <1>2, <1>6
      <3>5. \A i \in 1..Len(started) : started[i] = accepted'[i]
        BY <1>3, <3>4 DEF SchedInvariant, QueueFollowsStarted
      <3>6. /\ Len(accepted') = Len(started) + Len(queue')
            /\ Len(started) <= Len(accepted')
        BY <1>2, <1>3, <1>6, <2>2
      <3> QED BY <1>7, <2>1, <3>3, <3>5, <3>6 DEF QueueFollowsStarted
    <2>6. AnswersMatch'
      BY <1>3, <1>4, <1>8, <2>1, <2>2 DEF SchedInvariant, AnswersMatch
    <2> QED BY <1>5, <2>3, <2>4, <2>5, <2>6 DEF SchedInvariant
  <1>10. CASE ~draining
    <2>1. Begin(e) /\ queue' = queue /\ queue = <<>> /\ current = NoEffect
      BY <1>10 DEF Schedule, SchedInvariant, OneUsesDevice
    <2>2. /\ current' = e /\ physical' = {e}
          /\ started' \in Seq(Effects) /\ Len(started') = Len(started) + 1
          /\ started'[Len(started) + 1] = e
          /\ \A i \in 1..Len(started) : started'[i] = started[i]
          /\ \A d : Contains(started', d) <=> Contains(started, d) \/ d = e
      BY <1>1, <2>1, Begins
    <2>3. Len(queue) = 0 /\ \A d : ~Contains(queue, d)
      BY <2>1, EmptySeq DEF Contains
    <2>4. SchedTypeOK'
      BY <1>1, <1>3, <2>1, <2>2 DEF SchedInvariant, SchedTypeOK, Answer
    <2>5. OneUsesDevice'
      BY <1>1, <2>2 DEF OneUsesDevice
    <2>6. QueueFollowsStarted'
      <3>1. /\ Len(accepted) = Len(started) /\ Len(accepted') = Len(started') + Len(queue')
            /\ Len(started') <= Len(accepted') /\ 1..Len(queue') = {}
        BY <1>2, <1>3, <1>6, <2>1, <2>2, <2>3
      <3>2. \A i \in 1..Len(started') : i \in 1..Len(started) \/ i = Len(started) + 1
        BY <1>2, <2>2
      <3>3. \A i \in 1..Len(started') : started'[i] = accepted'[i]
        BY <1>3, <2>2, <3>1, <3>2 DEF SchedInvariant, QueueFollowsStarted
      <3> QED BY <1>7, <3>1, <3>3 DEF QueueFollowsStarted
    <2>7. AnswersMatch'
      BY <1>3, <1>4, <1>8, <2>1, <2>2, <2>3, SchedulerAssumption DEF SchedInvariant, AnswersMatch
    <2> QED BY <1>5, <2>4, <2>5, <2>6, <2>7 DEF SchedInvariant
  <1> QED BY <1>9, <1>10

\* The drain loop starts the head of the queue.
LEMMA DrainStartsKeeps ==
    ASSUME SchedInvariant, Drain, queue # <<>>, circuit = NoEffect
    PROVE  SchedInvariant'
  <1> DEFINE e == Head(queue)
  <1>1. /\ draining /\ current = NoEffect /\ Begin(e) /\ queue' = Tail(queue)
        /\ UNCHANGED <<draining, answer, circuit, closed, closing, accepted>>
    BY DEF Drain
  <1>2. /\ accepted \in Seq(Effects) /\ started \in Seq(Effects) /\ queue \in Seq(Effects)
        /\ Len(accepted) \in Nat /\ Len(started) \in Nat /\ Len(queue) \in Nat \ {0}
    BY LenProperties, EmptySeq DEF SchedInvariant, SchedTypeOK
  <1>3. /\ e \in Effects /\ e = queue[1] /\ queue' \in Seq(Effects)
        /\ Len(queue') = Len(queue) - 1
        /\ \A i \in 1..Len(queue') : queue'[i] = queue[i + 1]
    BY <1>1, <1>2, HeadTailProperties
  <1>4. \A d : Contains(queue, d) <=> Contains(queue', d) \/ d = e
    <2>1. \A i \in 1..Len(queue) : i = 1 \/ (i - 1 \in 1..Len(queue') /\ queue'[i - 1] = queue[i])
      <3> SUFFICES ASSUME NEW i \in 1..Len(queue), i # 1
                   PROVE  i - 1 \in 1..Len(queue') /\ queue'[i - 1] = queue[i]
        OBVIOUS
      <3>1. i - 1 \in 1..Len(queue') /\ i - 1 + 1 = i
        BY <1>2, <1>3
      <3> QED BY <1>3, <3>1
    <2>2. 1 \in 1..Len(queue) /\ \A i \in 1..Len(queue') : i + 1 \in 1..Len(queue)
      BY <1>2, <1>3
    <2> QED BY <1>3, <2>1, <2>2 DEF Contains
  <1>5. /\ current' = e /\ physical' = {e}
        /\ started' \in Seq(Effects) /\ Len(started') = Len(started) + 1
        /\ started'[Len(started) + 1] = e
        /\ \A i \in 1..Len(started) : started'[i] = started[i]
        /\ \A d : Contains(started', d) <=> Contains(started, d) \/ d = e
    BY <1>1, <1>3, Begins
  <1>6. SchedTypeOK'
    BY <1>1, <1>2, <1>3, <1>5, SchedulerAssumption DEF SchedInvariant, SchedTypeOK, Answer
  <1>7. OneUsesDevice' /\ ClosedIsIdle'
    BY <1>1, <1>5 DEF SchedInvariant, OneUsesDevice, ClosedIsIdle
  <1>8. QueueFollowsStarted'
    <2>1. Len(accepted) = Len(started) + Len(queue) /\ e = accepted[Len(started) + 1]
      BY <1>1, <1>2, <1>3 DEF SchedInvariant, QueueFollowsStarted
    <2>2. Len(accepted) = Len(started') + Len(queue') /\ Len(started') <= Len(accepted)
      BY <1>2, <1>3, <1>5, <2>1
    <2>3. \A i \in 1..Len(started') : i \in 1..Len(started) \/ i = Len(started) + 1
      BY <1>2, <1>5
    <2>4. \A i \in 1..Len(started') : started'[i] = accepted[i]
      BY <1>5, <2>1, <2>3 DEF SchedInvariant, QueueFollowsStarted
    <2>5. \A i \in 1..Len(queue') : i + 1 \in 1..Len(queue) /\ Len(started) + (i + 1) = Len(started') + i
      BY <1>2, <1>3, <1>5
    <2>6. \A i \in 1..Len(queue') : queue'[i] = accepted[Len(started') + i]
      BY <1>3, <2>5 DEF SchedInvariant, QueueFollowsStarted
    <2> QED BY <1>1, <2>2, <2>4, <2>6 DEF SchedInvariant, QueueFollowsStarted
  <1>9. AnswersMatch'
    <2>1. answer[e] = "pending" /\ ~Contains(started, e)
      BY <1>3, <1>4, StartedIsNotQueued DEF SchedInvariant, AnswersMatch
    <2>2. \A d \in Effects : d # NoEffect
      BY SchedulerAssumption
    <2> QED BY <1>1, <1>4, <1>5, <2>1, <2>2 DEF SchedInvariant, AnswersMatch
  <1> QED BY <1>6, <1>7, <1>8, <1>9 DEF SchedInvariant

\* The drain loop ends: whatever is still queued is rejected.
LEMMA DrainEndsKeeps ==
    ASSUME SchedInvariant, Drain, ~(queue # <<>> /\ circuit = NoEffect)
    PROVE  SchedInvariant'
  <1>1. /\ draining /\ current = NoEffect /\ ~draining' /\ draining' \in BOOLEAN /\ queue' = <<>>
        /\ answer' = [e \in Effects |-> IF Contains(queue, e) THEN "circuit_open" ELSE answer[e]]
        /\ UNCHANGED <<current, physical, started, circuit, closed, closing, accepted>>
    BY DEF Drain
  <1>2. <<>> \in Seq(Effects) /\ Len(<<>>) = 0 /\ 1..0 = {} /\ \A e : ~Contains(<<>>, e)
    BY EmptySeq DEF Contains
  <1>3. 0 < maxPending
    BY SchedulerAssumption
  <1>4. \A d \in Effects : answer'[d] = IF Contains(queue, d) THEN "circuit_open" ELSE answer[d]
    BY <1>1
  <1>5. SchedTypeOK'
    <2>1. answer' \in [Effects -> Answer]
      BY <1>1 DEF SchedInvariant, SchedTypeOK, Answer
    <2> QED BY <1>1, <1>2, <1>3, <2>1 DEF SchedInvariant, SchedTypeOK
  <1>6. OneUsesDevice' /\ ClosedIsIdle'
    BY <1>1 DEF SchedInvariant, OneUsesDevice, ClosedIsIdle
  <1>7. QueueFollowsStarted'
    <2>1. circuit = NoEffect => queue = <<>>
      OBVIOUS
    <2> QED BY <1>1, <1>2, <2>1 DEF SchedInvariant, QueueFollowsStarted
  <1>8. AnswersMatch'
    <2> SUFFICES ASSUME NEW d \in Effects
                 PROVE  /\ answer'[d] # "pending" /\ ~Contains(queue', d) /\ d # current'
                        /\ Contains(started, d) <=> answer'[d] \in {"ok", "error", "timeout"} \/ d = current'
                        /\ Contains(accepted, d) => answer'[d] \notin {"none", "closed", "full"}
      BY <1>1 DEF AnswersMatch
    <2>1. d # NoEffect
      BY SchedulerAssumption
    <2>2. Contains(queue, d) => ~Contains(started, d)
      BY StartedIsNotQueued
    <2> QED BY <1>1, <1>2, <1>4, <2>1, <2>2 DEF SchedInvariant, AnswersMatch
  <1> QED BY <1>5, <1>6, <1>7, <1>8 DEF SchedInvariant

\* Every step of the scheduler keeps the invariant.
LEMMA StepKeepsInvariant == SchedInvariant /\ [SchedNext]_schedVars => SchedInvariant'
  <1> SUFFICES ASSUME SchedInvariant, [SchedNext]_schedVars PROVE SchedInvariant'
    OBVIOUS
  <1>1. ASSUME NEW e \in Effects, Schedule(e) PROVE SchedInvariant'
    BY <1>1, RefusedKeeps, AdmittedKeeps
  <1>2. ASSUME NEW e \in Effects, NEW result \in {"ok", "error"}, EffectEnds(e, result)
        PROVE  SchedInvariant'
    BY <1>2, CurrentStops DEF EffectEnds
  <1>3. ASSUME NEW e \in Effects, EffectThrowsTimeout(e) PROVE SchedInvariant'
    BY <1>3, CurrentStops DEF EffectThrowsTimeout
  <1>4. ASSUME NEW e \in Effects, ExecutionTimeout(e) PROVE SchedInvariant'
    <2>1. circuit = NoEffect
      BY <1>4, SchedulerAssumption DEF ExecutionTimeout, SchedInvariant, OneUsesDevice
    <2> QED BY <1>4, <2>1, CurrentStops DEF ExecutionTimeout
  <1>5. ASSUME NEW e \in Effects, DetachedEnds(e) PROVE SchedInvariant'
    BY <1>5 DEF DetachedEnds, SchedInvariant, SchedTypeOK, OneUsesDevice, QueueFollowsStarted,
        AnswersMatch, ClosedIsIdle
  <1>6. CASE Drain
    BY <1>6, DrainStartsKeeps, DrainEndsKeeps
  <1>7. CASE Close
    BY <1>7 DEF Close, SchedInvariant, SchedTypeOK, OneUsesDevice, QueueFollowsStarted,
        AnswersMatch, ClosedIsIdle
  <1>8. CASE CloseReturns
    BY <1>8 DEF CloseReturns, SchedInvariant, SchedTypeOK, OneUsesDevice, QueueFollowsStarted,
        AnswersMatch, ClosedIsIdle
  <1>9. CASE UNCHANGED schedVars
    BY <1>9 DEF schedVars, SchedInvariant, SchedTypeOK, OneUsesDevice, QueueFollowsStarted,
        AnswersMatch, ClosedIsIdle
  <1> QED BY <1>1, <1>2, <1>3, <1>4, <1>5, <1>6, <1>7, <1>8, <1>9 DEF SchedNext

-----------------------------------------------------------------------------
(* Theorems                                                                *)

\* The state of the scheduler stays well typed and accepted orders it.
THEOREM SchedInvariantHolds == SchedSpec => []SchedInvariant
  BY InvariantAtStart, StepKeepsInvariant, PTL DEF SchedSpec

\* No two effects use the device at once, the one that was detached when its
\* execution timeout fired included.
THEOREM EffectsNeverOverlap == SchedSpec => []NoOverlap
  <1>1. SchedInvariant => NoOverlap
    BY SchedulerAssumption DEF SchedInvariant, SchedTypeOK, OneUsesDevice, NoOverlap
  <1> QED BY <1>1, SchedInvariantHolds, PTL

\* Effects begin in the order in which schedule() admitted them.
THEOREM OrderIsKept == SchedSpec => []SubmissionOrder
  <1>1. SchedInvariant => SubmissionOrder
    <2> SUFFICES ASSUME SchedInvariant PROVE SubmissionOrder
      OBVIOUS
    <2> DEFINE n == Len(started)
    <2>1. /\ started \in Seq(Effects) /\ accepted \in Seq(Effects)
          /\ n \in Nat /\ Len(accepted) \in Nat /\ n <= Len(accepted)
          /\ \A i \in 1..n : started[i] = accepted[i]
      BY LenProperties DEF SchedInvariant, SchedTypeOK, QueueFollowsStarted
    <2>2. \A i \in 1..n : started[i] \in Effects /\ accepted[i] \in Effects
      BY <2>1, ElementOfSeq
    <2>3. SubSeq(started, 1, n) = started
      BY <2>1, SubSeqFull
    <2>4. /\ SubSeq(accepted, 1, n) \in Seq(Effects)
          /\ Len(SubSeq(accepted, 1, n)) = n
          /\ \A i \in 1..n : SubSeq(accepted, 1, n)[i] = accepted[i]
      <3>1. /\ SubSeq(accepted, 1, n) \in Seq(Effects)
            /\ Len(SubSeq(accepted, 1, n)) = IF 1 <= n THEN n - 1 + 1 ELSE 0
            /\ \A i \in 1..n - 1 + 1 : SubSeq(accepted, 1, n)[i] = accepted[1 + i - 1]
        BY <2>1, <2>2, SubSeqProperties
      <3>2. n - 1 + 1 = n /\ \A i \in 1..n : 1 + i - 1 = i
        BY <2>1
      <3> QED BY <2>1, <3>1, <3>2
    <2>5. started = SubSeq(accepted, 1, n)
      BY <2>1, <2>4, SeqEqual
    <2> QED BY <2>1, <2>3, <2>5 DEF SubmissionOrder, IsPrefix
  <1> QED BY <1>1, SchedInvariantHolds, PTL

\* Who is told that its effect was refused or rejected can rely on it: the
\* effect never began; who is told of an outcome had it begin.
THEOREM AnswersAreHonest == SchedSpec => []HonestAnswer
  <1>1. SchedInvariant => HonestAnswer
    <2> SUFFICES ASSUME SchedInvariant, NEW e \in Effects
                 PROVE  /\ answer[e] \in {"circuit_open", "closed", "full"} => ~Contains(started, e)
                        /\ answer[e] \in {"ok", "error", "timeout"} => Contains(started, e)
      BY DEF HonestAnswer
    <2> QED BY DEF SchedInvariant, AnswersMatch
  <1> QED BY <1>1, SchedInvariantHolds, PTL

\* close() reports an idle scheduler only when no admitted caller waits.
THEOREM CloseIsIdle == SchedSpec => []CloseMeansIdle
  <1>1. SchedInvariant => CloseMeansIdle
    <2> SUFFICES ASSUME SchedInvariant, closing = "done", NEW e \in Effects
                 PROVE  answer[e] # "pending"
      BY DEF CloseMeansIdle
    <2>1. queue = <<>> /\ current = NoEffect
      BY DEF SchedInvariant, OneUsesDevice, ClosedIsIdle
    <2>2. ~Contains(queue, e)
      BY <2>1, EmptySeq DEF Contains
    <2> QED BY <2>1, <2>2, SchedulerAssumption DEF SchedInvariant, AnswersMatch
  <1> QED BY <1>1, SchedInvariantHolds, PTL

\* However many callers submit, no more than maxPending of those that were
\* admitted wait at any time: each waits for its place in the queue or for the
\* effect that runs.
THEOREM CapacityHolds == SchedSpec => []WithinCapacity
  <1>1. SchedInvariant => WithinCapacity
    <2> SUFFICES ASSUME SchedInvariant PROVE WithinCapacity
      OBVIOUS
    <2>1. queue \in Seq(Effects) /\ Len(queue) \in Nat /\ Len(queue) < maxPending /\ maxPending \in Nat
      BY LenProperties, SchedulerAssumption DEF SchedInvariant, SchedTypeOK
    <2>2. {e \in Effects : answer[e] = "pending"}
             \in SUBSET ({e \in Effects : Contains(queue, e)} \cup {current})
      BY DEF SchedInvariant, AnswersMatch
    <2>3. Cardinality({e \in Effects : answer[e] = "pending"}) <= Len(queue) + 1
      BY <2>1, <2>2, QueueAndOneMore
    <2>4. Cardinality({e \in Effects : answer[e] = "pending"}) \in Nat
      BY <2>1, <2>2, QueueAndOneMore
    <2> QED BY <2>1, <2>3, <2>4 DEF WithinCapacity
  <1> QED BY <1>1, SchedInvariantHolds, PTL

-----------------------------------------------------------------------------
(* Runtime: the invariant                                                  *)

\* The effect of key k waits in the scheduler or uses the device.
InScheduler(k) == k \in physical \/ Contains(queue, k)

\* Only what was invoked was submitted, and what uses the device is awaited or
\* timed out, so an effect with an outcome is over.
Submitted(k) ==
    /\ answer[k] # "none" => invoked[k] > 0
    /\ k \in physical => k = current \/ answer[k] = "timeout"

\* The outcome the handler is about to translate is true of the device.
OutcomeIsTrue(k) ==
    pc[k] = "handling" /\ answer[k] = "ok" =>
        /\ disposition[k] = "committed" => work[k] = "applied"
        /\ disposition[k] = "rejectedBeforeWrite" => work[k] = "running"

\* While the effect is in the scheduler nobody was promised its end.
Unconfirmed(k) ==
    InScheduler(k) =>
        /\ up
        /\ work[k] \in {"running", "applied"}
        /\ pc[k] = "recording" => out[k].status # "succeeded"
        /\ receipts[k] # NoReceipt => receipts[k].status # "succeeded"

\* What a dead process left on the device is never submitted again.
Abandoned(k) ==
    k \in orphans =>
        invoked[k] > 0 /\ answer[k] = "none" /\ pc[k] = "idle"
        /\ work[k] \in {"running", "applied"}

Placed(k) == Submitted(k) /\ OutcomeIsTrue(k) /\ Unconfirmed(k) /\ Abandoned(k)

\* The registered reconcilers confirm nothing.
Unavailable ==
    \A p \in Reconcilers : recon[p].pc = "record" => recon[p].receipt.status = "indeterminate"

GatewayInvariant == Shape /\ Accounting /\ Answers

\* The runtime never closes its scheduler.
Open == ~closed /\ closing = "no"

RuntimeInvariant ==
    /\ GatewayInvariant
    /\ SchedInvariant /\ Open
    /\ disposition \in [Keys -> Disposition] /\ orphans \subseteq Keys
    /\ \A k \in Keys : Placed(k)
    /\ Unavailable

-----------------------------------------------------------------------------
(* Consequences                                                            *)

\* The keys are the submissions, every call mutates.
LEMMA RuntimeCalls ==
    /\ Effects = Keys
    /\ \A c \in Calls : c.mutating /\ c.key \in Keys
  BY RuntimeAssumption, CallFields

\* Every part of the state is typed.
LEMMA StateTypes ==
    ASSUME RuntimeInvariant
    PROVE  /\ pc \in [Keys -> Stage]
           /\ out \in [Keys -> Receipt \cup {NoReceipt}]
           /\ receipts \in [Keys -> Receipt \cup {NoReceipt}]
           /\ work \in [Keys -> {"none", "running", "applied", "over"}]
           /\ invoked \in [Keys -> Nat]
           /\ recon \in [Reconcilers -> Reconcile]
           /\ queue \in Seq(Keys) /\ physical \subseteq Keys
           /\ answer \in [Keys -> Answer]
           /\ current \in Keys \cup {NoEffect} /\ NoEffect \notin Keys
  <1>1. Shape /\ SchedTypeOK /\ Effects = Keys
    BY RuntimeCalls DEF RuntimeInvariant, GatewayInvariant, SchedInvariant
  <1>2. receipts \in [Keys -> Receipt \cup {NoReceipt}] /\ recon \in [Reconcilers -> Reconcile]
    BY <1>1 DEF Shape, TypeOK
  <1> QED BY <1>1, <1>2, OperationTypes, SchedulerAssumption DEF SchedTypeOK

\* Who waits is queued or runs; an effect with an outcome is over and whoever is
\* answered "none" was never submitted.
LEMMA WhoIsWhere ==
    ASSUME RuntimeInvariant, NEW k \in Keys
    PROVE  /\ Contains(queue, k) => answer[k] = "pending"
           /\ k = current => answer[k] = "pending"
           /\ k \in physical => answer[k] \in {"pending", "timeout"}
           /\ InScheduler(k) => answer[k] # "none" /\ invoked[k] > 0 /\ k \notin orphans
           /\ answer[k] = "ok" => ~InScheduler(k) /\ k \notin orphans
  <1>1. answer[k] = "pending" <=> Contains(queue, k) \/ k = current
    BY RuntimeCalls DEF RuntimeInvariant, SchedInvariant, AnswersMatch
  <1>2. Placed(k)
    BY DEF RuntimeInvariant
  <1> QED BY <1>1, <1>2 DEF Placed, Submitted, Abandoned, InScheduler

\* A handler invoked now belongs to a key that was never invoked before.
LEMMA FreshInvocation ==
    ASSUME RuntimeInvariant, NEW k \in Keys, pc[k] = "starting"
    PROVE  /\ invoked[k] = 0 /\ answer[k] = "none"
           /\ k \notin orphans /\ ~InScheduler(k)
           /\ up /\ receipts[k] = NoReceipt /\ cur[k] \in Calls /\ cur[k].mutating
  <1>1. up /\ receipts[k] = NoReceipt /\ cur[k] \in Calls
    BY DEF RuntimeInvariant, GatewayInvariant, Shape, InFlight
  <1>2. invoked[k] = 0
    BY <1>1, NotYetInvoked DEF RuntimeInvariant, GatewayInvariant
  <1>3. Placed(k)
    BY DEF RuntimeInvariant
  <1>4. answer[k] = "none" /\ k \notin orphans
    BY <1>2, <1>3 DEF Placed, Submitted, Abandoned
  <1> QED BY <1>1, <1>2, <1>4, WhoIsWhere, RuntimeCalls

-----------------------------------------------------------------------------
(* The refinement: every step is one of the gateway or leaves it alone     *)

\* A reconciliation that has no readback is an answer of an arbitrary reconciler.
LEMMA UnavailableIsAnswer ==
    ASSUME NEW p \in Reconcilers, UnavailableReconciliation(p)
    PROVE  ReconcileAnswer(p)
  <1> DEFINE Unsure == [pc |-> "record", key |-> recon[p].key, live |-> recon[p].live,
                        receipt |-> ReconciledReceipt(receipts[recon[p].key], FALSE)]
  <1>1. recon[p].pc = "query" /\ recon' = [recon EXCEPT ![p] = Unsure]
    BY DEF UnavailableReconciliation
  <1>2. UNCHANGED <<now, consumed, up, receipts, live, pc, cur, out, journal, work,
                    faults, crashes, history>>
    BY DEF UnavailableReconciliation
  <1> QED BY <1>1, <1>2, Zenon DEF ReconcileAnswer

\* What applyDeviceEffect returns is something a handler may return.
LEMMA CompletionIsReturn ==
    ASSUME RuntimeInvariant, NEW k \in Keys, HandlerCompletes(k)
    PROVE  HandlerReturns(k)
  <1>1. pc[k] = "handling" /\ cur[k] \in Calls /\ cur[k].mutating
    BY RuntimeCalls DEF RuntimeInvariant, GatewayInvariant, Shape, InFlight, HandlerCompletes
  <1>2. OutcomeIsTrue(k)
    BY DEF RuntimeInvariant, Placed
  <1>3. UNCHANGED <<now, consumed, up, receipts, live, cur, recon, journal,
                    faults, crashes, history>>
    BY DEF HandlerCompletes
  <1>4. PICK r : r = HandlerReceipt(k)
    OBVIOUS
  <1>5. GoRecord(k, r) /\ work' = IF Denies(r) THEN [work EXCEPT ![k] = "over"] ELSE work
    BY <1>4 DEF HandlerCompletes
  <1>6. \/ r = Succeeded(cur[k]) /\ work[k] = "applied"
        \/ r = BeforeWrite(cur[k]) /\ work[k] = "running"
        \/ r = Indeterminate(cur[k])
        \/ r = Failed(cur[k])
    BY <1>1, <1>2, <1>4 DEF HandlerReceipt, OutcomeIsTrue
  <1>7. /\ ~Denies(Succeeded(cur[k])) /\ ~Denies(Indeterminate(cur[k]))
        /\ ~Denies(Failed(cur[k])) /\ Denies(BeforeWrite(cur[k]))
    BY <1>1, ReceiptMeanings DEF BeforeWrite, ReceiptOf, Denies
  <1> QED BY <1>1, <1>3, <1>5, <1>6, <1>7 DEF HandlerReturns

LEMMA RuntimeStepIsGatewayStep ==
    ASSUME RuntimeInvariant, RuntimeNext
    PROVE  [Next]_vars
  <1>1. CASE GatewayStep
    BY <1>1 DEF GatewayStep, Next
  <1>2. ASSUME NEW p \in Reconcilers, UnavailableReconciliation(p) PROVE Next
    BY <1>2, UnavailableIsAnswer DEF Next
  <1>3. ASSUME NEW k \in Keys,
               InvokeHandler(k) \/ DeviceWrites(k) \/ TimerFires(k) \/ HandlerCompletes(k)
        PROVE  [Next]_vars
    BY <1>3, CompletionIsReturn DEF Next, InvokeHandler, DeviceWrites, TimerFires
  <1>4. ASSUME NEW k \in Keys, NEW d \in Disposition, DeviceEnds(k, d) PROVE UNCHANGED vars
    BY <1>4 DEF DeviceEnds
  <1>5. CASE SchedulerTurn
    BY <1>5 DEF SchedulerTurn
  <1>6. CASE ProcessDeath
    BY <1>6 DEF ProcessDeath, Next
  <1> QED BY <1>1, <1>2, <1>3, <1>4, <1>5, <1>6 DEF RuntimeNext

\* The invariants of the gateway hold of the runtime.
LEMMA GatewayInvariantKept ==
    ASSUME RuntimeInvariant, RuntimeNext
    PROVE  GatewayInvariant'
  BY RuntimeStepIsGatewayStep, ShapeNext, AccountingNext, AnswersNext
     DEF RuntimeInvariant, GatewayInvariant

-----------------------------------------------------------------------------
(* The scheduler in the runtime                                            *)

\* Short of a death, every step is one of the scheduler or leaves it alone.
LEMMA RuntimeStepIsSchedStep ==
    ASSUME RuntimeNext, ~ProcessDeath
    PROVE  [SchedNext]_schedVars /\ UNCHANGED <<closed, closing>>
  <1>1. CASE UNCHANGED schedVars
    BY <1>1 DEF schedVars
  <1>2. ASSUME NEW e \in Keys,
               \/ Schedule(e)
               \/ \E result \in {"ok", "error"} : EffectEnds(e, result)
               \/ EffectThrowsTimeout(e)
               \/ ExecutionTimeout(e)
               \/ DetachedEnds(e)
        PROVE  SchedNext /\ UNCHANGED <<closed, closing>>
    BY <1>2, RuntimeCalls DEF SchedNext, Schedule, EffectEnds, EffectThrowsTimeout,
                              ExecutionTimeout, DetachedEnds
  <1>3. CASE SchedulerTurn
    BY <1>3 DEF SchedulerTurn, SchedNext, Drain
  <1>4. ASSUME NEW k \in Keys, NEW d \in Disposition, DeviceEnds(k, d)
        PROVE  \/ \E result \in {"ok", "error"} : EffectEnds(k, result)
               \/ EffectThrowsTimeout(k)
               \/ DetachedEnds(k)
    BY <1>4 DEF DeviceEnds
  <1>5. ASSUME NEW k \in Keys, InvokeHandler(k) PROVE Schedule(k) \/ UNCHANGED schedVars
    BY <1>5 DEF InvokeHandler
  <1>6. ASSUME NEW k \in Keys, TimerFires(k) PROVE ExecutionTimeout(k)
    BY <1>6 DEF TimerFires
  <1>7. \/ UNCHANGED schedVars
        \/ \E k \in Keys : InvokeHandler(k) \/ TimerFires(k)
        \/ \E k \in Keys, d \in Disposition : DeviceEnds(k, d)
        \/ SchedulerTurn
    BY DEF RuntimeNext, GatewayStep, UnavailableReconciliation, DeviceWrites, HandlerCompletes
  <1> QED BY <1>1, <1>2, <1>3, <1>4, <1>5, <1>6, <1>7

LEMMA SchedulerKept ==
    ASSUME RuntimeInvariant, RuntimeNext
    PROVE  SchedInvariant' /\ Open'
  <1>1. CASE ~ProcessDeath
    BY <1>1, RuntimeStepIsSchedStep, StepKeepsInvariant DEF RuntimeInvariant, Open
  <1>2. CASE ProcessDeath
    <2>1. SchedInit'
      BY <1>2, RuntimeCalls DEF ProcessDeath, SchedInit, RuntimeInvariant, Open
    <2>2. SchedInit' => SchedInvariant'
      BY InvariantAtStart, PTL
    <2> QED BY <1>2, <2>1, <2>2 DEF ProcessDeath, RuntimeInvariant, Open
  <1> QED BY <1>1, <1>2

-----------------------------------------------------------------------------
(* Every effect in its place                                               *)

\* A step that leaves the place of an effect alone, and promises nothing.
LEMMA PlacedFrame ==
    ASSUME NEW k \in Keys, Placed(k),
           UNCHANGED <<invoked[k], answer[k], disposition[k], work[k]>>,
           k \in physical' => k \in physical /\ (k = current => k = current'),
           InScheduler(k)' => InScheduler(k) /\ up',
           k \in orphans' => k \in orphans,
           pc'[k] = "handling" => pc[k] = "handling",
           k \in orphans /\ pc[k] = "idle" => pc'[k] = "idle",
           InScheduler(k) /\ pc'[k] = "recording" =>
              out'[k].status # "succeeded" \/ (pc[k] = "recording" /\ out'[k] = out[k]),
           InScheduler(k) => \/ receipts'[k] = receipts[k]
                             \/ receipts'[k].status # "succeeded"
                             \/ pc[k] = "recording" /\ receipts'[k] = out[k]
    PROVE  Placed(k)'
  <1>1. Submitted(k)'
    BY DEF Placed, Submitted
  <1>2. OutcomeIsTrue(k)'
    BY DEF Placed, OutcomeIsTrue
  <1>3. Unconfirmed(k)'
    <2> SUFFICES ASSUME InScheduler(k)'
                 PROVE  /\ up'
                        /\ work'[k] \in {"running", "applied"}
                        /\ pc'[k] = "recording" => out'[k].status # "succeeded"
                        /\ receipts'[k] # NoReceipt => receipts'[k].status # "succeeded"
      BY DEF Unconfirmed
    <2> QED BY DEF Placed, Unconfirmed
  <1>4. Abandoned(k)'
    BY DEF Placed, Abandoned
  <1> QED BY <1>1, <1>2, <1>3, <1>4 DEF Placed

\* What the gateway records by itself is never a success, unless it is the outcome
\* its handler gave.
LEMMA UnsuccessfulReceipts ==
    /\ \A c : /\ Rejected(c).status = "rejected"
              /\ Indeterminate(c).status = "indeterminate"
              /\ Failed(c).status = "failed" /\ BeforeWrite(c).status = "failed"
    /\ \A r : Uncertain(r).status = "indeterminate"
  BY DEF Rejected, Indeterminate, Failed, BeforeWrite, Uncertain, ReceiptOf

\* What a step of the gateway's own does to key k: the device is left alone, no
\* handler starts, an idle key starts only without a receipt, and a success comes
\* from a handler or from before a restart.
GatewayMove(k) ==
    /\ UNCHANGED <<invoked, work>>
    /\ up => up'
    /\ pc'[k] = "handling" => pc[k] = "handling"
    /\ pc[k] = "idle" /\ pc'[k] # "idle" => up /\ receipts[k] = NoReceipt
    /\ pc'[k] = "recording" =>
          out'[k].status # "succeeded" \/ (pc[k] = "recording" /\ out'[k] = out[k])
    /\ \/ receipts'[k] = receipts[k]
       \/ receipts'[k].status # "succeeded"
       \/ pc[k] = "recording" /\ receipts'[k] = out[k]
       \/ ~up

LEMMA GatewayStepMoves ==
    ASSUME RuntimeInvariant, GatewayStep, NEW k \in Keys
    PROVE  GatewayMove(k)
  <1>1. /\ pc \in [Keys -> Stage] /\ out \in [Keys -> Receipt \cup {NoReceipt}]
        /\ receipts \in [Keys -> Receipt \cup {NoReceipt}]
        /\ recon \in [Reconcilers -> Reconcile]
    BY StateTypes
  <1>2. ASSUME NEW c \in Calls, Execute(c) PROVE GatewayMove(k)
    <2>1. c.key \in Keys /\ UNCHANGED <<up, receipts, work, invoked>>
      BY <1>2, RuntimeCalls DEF Execute, history
    <2>2. /\ up /\ receipts[c.key] = NoReceipt
          /\ pc'[k] # "handling" \/ pc'[k] = pc[k]
          /\ k # c.key => pc'[k] = pc[k] /\ out'[k] = out[k]
          /\ k = c.key /\ pc'[k] = "recording" => out'[k] = Rejected(c)
      BY <1>1, <1>2, <2>1 DEF Execute, GoRecord
    <2> QED BY <2>1, <2>2, UnsuccessfulReceipts DEF GatewayMove
  <1>3. ASSUME NEW j \in Keys, NEW o \in AppendOutcome,
               RecordDecision(j, o) \/ RecordPrepared(j, o) \/ HandlerTimeout(j)
        PROVE  GatewayMove(k)
    <2>1. UNCHANGED <<up, receipts, work, invoked>> /\ pc[j] # "idle"
      BY <1>3 DEF RecordDecision, RecordPrepared, HandlerTimeout, history
    <2>2. /\ pc'[k] # "handling" \/ pc'[k] = pc[k]
          /\ k # j => pc'[k] = pc[k] /\ out'[k] = out[k]
          /\ k = j /\ pc'[k] = "recording" => out'[k] \in {Rejected(cur[j]), Indeterminate(cur[j])}
      BY <1>1, <1>3 DEF RecordDecision, RecordPrepared, HandlerTimeout, GoRecord, Finish
    <2> QED BY <2>1, <2>2, UnsuccessfulReceipts DEF GatewayMove
  <1>4. ASSUME NEW j \in Keys, NEW o \in AppendOutcome, RecordTerminal(j, o)
        PROVE  GatewayMove(k)
    <2>1. UNCHANGED <<up, work, invoked>> /\ pc[j] = "recording"
      BY <1>4 DEF RecordTerminal
    <2>2. /\ pc'[k] # "handling" \/ pc'[k] = pc[k]
          /\ k # j => pc'[k] = pc[k] /\ out'[k] = out[k] /\ receipts'[k] = receipts[k]
          /\ k = j /\ pc'[k] = "recording" => out'[k] = Failed(cur[j])
          /\ k = j => receipts'[k] \in {receipts[k], out[k], Uncertain(out[k])}
      BY <1>1, <1>4 DEF RecordTerminal, CacheLive, GoRecord, Finish
    <2> QED BY <2>1, <2>2, UnsuccessfulReceipts DEF GatewayMove
  <1>5. ASSUME NEW p \in Reconcilers, NEW o \in AppendOutcome, ReconcileRecord(p, o)
        PROVE  GatewayMove(k)
    <2>1. UNCHANGED <<up, work, invoked, pc, out>> /\ recon[p].pc = "record"
      BY <1>5 DEF ReconcileRecord
    <2>2. receipts'[k] \in {receipts[k], recon[p].receipt, Uncertain(recon[p].receipt)}
      BY <1>1, <1>5 DEF ReconcileRecord
    <2>3. recon[p].receipt.status = "indeterminate"
      BY <2>1 DEF RuntimeInvariant, Unavailable
    <2> QED BY <2>1, <2>2, <2>3, UnsuccessfulReceipts DEF GatewayMove
  <1>6. ASSUME NEW p \in Reconcilers, NEW j \in Keys, ReconcileBegin(p, j)
        PROVE  GatewayMove(k)
    BY <1>6 DEF ReconcileBegin, GatewayMove, history
  <1>7. CASE Recover \/ Tick
    BY <1>7 DEF Recover, Tick, GatewayMove, memory, history
  <1> QED BY <1>2, <1>3, <1>4, <1>5, <1>6, <1>7 DEF GatewayStep, AppendOutcome

LEMMA PlacedGatewayStep ==
    ASSUME RuntimeInvariant, GatewayStep, NEW k \in Keys
    PROVE  Placed(k)'
  <1>1. Placed(k) /\ GatewayMove(k) /\ UNCHANGED schedVars /\ UNCHANGED runtimeVars
    BY GatewayStepMoves DEF RuntimeInvariant, GatewayStep
  <1>2. InScheduler(k)' <=> InScheduler(k)
    BY <1>1 DEF InScheduler, schedVars
  <1>3. k \in orphans /\ pc[k] = "idle" => pc'[k] = "idle"
    <2> SUFFICES ASSUME k \in orphans, pc[k] = "idle", pc'[k] # "idle" PROVE FALSE
      OBVIOUS
    <2>1. up /\ receipts[k] = NoReceipt /\ invoked[k] > 0
      BY <1>1 DEF GatewayMove, Placed, Abandoned
    <2>2. invoked[k] = 0
      BY <2>1, NotYetInvoked DEF RuntimeInvariant, GatewayInvariant
    <2> QED BY <2>1, <2>2
  <1>4. InScheduler(k) => up /\ up'
    BY <1>1 DEF Placed, Unconfirmed, GatewayMove
  <1>5. UNCHANGED <<invoked[k], answer[k], disposition[k], work[k], physical, current, orphans>>
    BY <1>1 DEF GatewayMove, schedVars, runtimeVars
  <1> QED BY <1>1, <1>2, <1>3, <1>4, <1>5, PlacedFrame DEF GatewayMove

\* schedule() answers its caller, and puts nothing but its effect on the way.
LEMMA ScheduleMoves ==
    ASSUME RuntimeInvariant, NEW j \in Keys, Schedule(j)
    PROVE  /\ answer'[j] \in {"pending", "closed", "circuit_open", "full"}
           /\ \A e \in Keys \ {j} : answer'[e] = answer[e]
           /\ \A e \in Keys : e \in physical' => e \in physical \/ (e = j /\ current' = j)
           /\ \A e \in Keys : Contains(queue', e) => Contains(queue, e) \/ e = j
           /\ \A e \in Keys : e = current => current' = current
  <1>1. answer \in [Keys -> Answer] /\ queue \in Seq(Keys) /\ NoEffect \notin Keys
    BY StateTypes
  <1>2. answer' = [answer EXCEPT ![j] = Refusal]
    BY DEF Schedule
  <1>3. Refusal \in {"pending", "closed", "circuit_open", "full"}
    BY DEF Refusal
  <1>4. \A e \in Keys : Contains(Append(queue, j), e) <=> Contains(queue, e) \/ e = j
    BY <1>1, Appended
  <1>5. ~draining => current = NoEffect
    BY DEF RuntimeInvariant, SchedInvariant, OneUsesDevice
  <1> QED BY <1>1, <1>2, <1>3, <1>4, <1>5 DEF Schedule, Begin

\* The invocation: what was never submitted is refused, queued or begins.
LEMMA PlacedInvoke ==
    ASSUME RuntimeInvariant, NEW j \in Keys, InvokeHandler(j), NEW k \in Keys
    PROVE  Placed(k)'
  <1>1. /\ invoked[j] = 0 /\ answer[j] = "none" /\ j \notin orphans /\ ~InScheduler(j)
        /\ up /\ receipts[j] = NoReceipt /\ cur[j] \in Calls /\ cur[j].mutating
        /\ pc[j] = "starting"
    BY FreshInvocation DEF InvokeHandler, StartHandler
  <1>2. UNCHANGED <<up, receipts, disposition, orphans>> /\ Placed(k)
    BY DEF InvokeHandler, StartHandler, RuntimeInvariant
  <1>3. /\ pc \in [Keys -> Stage] /\ out \in [Keys -> Receipt \cup {NoReceipt}]
        /\ work \in [Keys -> {"none", "running", "applied", "over"}]
        /\ invoked \in [Keys -> Nat] /\ answer \in [Keys -> Answer]
        /\ queue \in Seq(Keys) /\ NoEffect \notin Keys
    BY StateTypes
  <1>4. CASE k # j
    <2>1. UNCHANGED <<pc[k], out[k], work[k], invoked[k]>>
      BY <1>3, <1>4 DEF InvokeHandler, StartHandler, GoRecord
    <2>2. /\ UNCHANGED answer[k]
          /\ k \in physical' => k \in physical
          /\ Contains(queue', k) => Contains(queue, k)
          /\ k = current => k = current'
      BY <1>4, ScheduleMoves DEF InvokeHandler, schedVars
    <2>3. InScheduler(k)' => InScheduler(k) /\ up'
      BY <1>2, <2>2 DEF InScheduler, Placed, Unconfirmed
    <2> QED BY <1>2, <2>1, <2>2, <2>3, PlacedFrame
  <1>5. CASE k = j
    <2>1. CASE UNCHANGED schedVars
      <3>1. answer'[k] = "none" /\ ~InScheduler(k)' /\ k \notin orphans'
        BY <1>1, <1>2, <1>5, <2>1 DEF schedVars, InScheduler
      <3> QED BY <3>1 DEF Placed, Submitted, OutcomeIsTrue, Unconfirmed, Abandoned, InScheduler
    <2>2. CASE pc'[j] = "handling" /\ Schedule(j)
      <3>1. invoked'[j] > 0 /\ work'[j] = "running"
        BY <1>1, <1>3, <2>2 DEF InvokeHandler, StartHandler, GoRecord
      <3>2. /\ answer'[j] \in {"pending", "closed", "circuit_open", "full"}
            /\ j \in physical' => current' = j
        BY <1>1, <2>2, ScheduleMoves DEF InScheduler
      <3> QED BY <1>1, <1>2, <1>5, <2>2, <3>1, <3>2
              DEF Placed, Submitted, OutcomeIsTrue, Unconfirmed, Abandoned
    <2> QED BY <2>1, <2>2 DEF InvokeHandler, schedVars
  <1> QED BY <1>4, <1>5

\* A turn of the drain loop puts nothing new into the scheduler: what it starts
\* was queued, or all that wait are rejected.
LEMMA TurnMoves ==
    ASSUME RuntimeInvariant, Drain, NEW k \in Keys
    PROVE  /\ InScheduler(k)' => InScheduler(k)
           /\ k \in physical' => k \in physical \/ k = current'
           /\ \/ answer'[k] = answer[k]
              \/ answer[k] = "pending" /\ answer'[k] = "circuit_open" /\ physical' = physical
  <1>1. queue \in Seq(Keys) /\ Effects = Keys
    BY StateTypes, RuntimeCalls
  <1>2. CASE queue # <<>> /\ circuit = NoEffect
    <2>1. /\ current' = Head(queue) /\ physical' = physical \cup {Head(queue)}
          /\ queue' = Tail(queue) /\ answer' = answer
      BY <1>2 DEF Drain, Begin
    <2>2. Len(queue) \in Nat /\ Len(queue) # 0
      BY <1>1, <1>2, EmptySeq
    <2>3. Contains(queue, Head(queue))
      <3>1. 1 \in 1..Len(queue) /\ queue[1] = Head(queue)
        BY <1>1, <2>2
      <3> QED BY <3>1 DEF Contains
    <2>4. Contains(Tail(queue), k) => Contains(queue, k)
      <3>1. Len(Tail(queue)) = Len(queue) - 1
            /\ \A i \in 1..(Len(queue) - 1) : Tail(queue)[i] = queue[i + 1]
        BY <1>1, <1>2
      <3>2. \A i \in 1..(Len(queue) - 1) : i + 1 \in 1..Len(queue)
        BY <2>2
      <3> QED BY <3>1, <3>2 DEF Contains
    <2> QED BY <2>1, <2>3, <2>4 DEF InScheduler
  <1>3. CASE ~(queue # <<>> /\ circuit = NoEffect)
    <2>1. /\ queue' = <<>> /\ physical' = physical
          /\ answer' = [e \in Keys |-> IF Contains(queue, e) THEN "circuit_open" ELSE answer[e]]
      BY <1>1, <1>3 DEF Drain
    <2>2. ~Contains(<<>>, k)
      BY EmptySeq DEF Contains
    <2> QED BY <2>1, <2>2, WhoIsWhere DEF InScheduler
  <1> QED BY <1>2, <1>3

LEMMA PlacedTurn ==
    ASSUME RuntimeInvariant, SchedulerTurn, NEW k \in Keys
    PROVE  Placed(k)'
  <1>1. /\ Placed(k) /\ UNCHANGED vars /\ UNCHANGED <<disposition, orphans>>
        /\ Drain /\ current = NoEffect /\ NoEffect \notin Keys
    BY StateTypes DEF SchedulerTurn, Drain, RuntimeInvariant
  <1>2. UNCHANGED <<up, receipts, pc, out, work, invoked>>
    BY <1>1 DEF vars, memory, history
  <1>3. CASE answer'[k] = answer[k]
    BY <1>1, <1>2, <1>3, TurnMoves
       DEF Placed, Submitted, OutcomeIsTrue, Unconfirmed, Abandoned
  <1>4. CASE answer[k] = "pending" /\ answer'[k] = "circuit_open" /\ physical' = physical
    <2>1. k \notin physical'
      BY <1>1, <1>4 DEF Placed, Submitted
    <2> QED BY <1>1, <1>2, <1>4, <2>1, TurnMoves
            DEF Placed, Submitted, OutcomeIsTrue, Unconfirmed, Abandoned
  <1> QED BY <1>1, <1>3, <1>4, TurnMoves

\* The device writes for an effect that has no outcome yet.
LEMMA PlacedWrite ==
    ASSUME RuntimeInvariant, NEW j \in Keys, DeviceWrites(j), NEW k \in Keys
    PROVE  Placed(k)'
  <1>1. /\ Placed(k) /\ UNCHANGED schedVars /\ UNCHANGED runtimeVars
        /\ j \in physical \cup orphans
        /\ work' = [work EXCEPT ![j] = "applied"] /\ UNCHANGED <<memory, invoked>>
    BY DEF DeviceWrites, PerformEffect, RuntimeInvariant
  <1>2. UNCHANGED <<up, receipts, pc, out, invoked, answer, disposition, physical, queue,
                    current, orphans>>
    BY <1>1 DEF memory, schedVars, runtimeVars
  <1>3. work \in [Keys -> {"none", "running", "applied", "over"}]
    BY StateTypes
  <1>4. CASE k # j
    <2>1. work'[k] = work[k] /\ (InScheduler(k)' <=> InScheduler(k))
      BY <1>1, <1>2, <1>3, <1>4 DEF InScheduler
    <2> QED BY <1>1, <1>2, <2>1 DEF Placed, Submitted, OutcomeIsTrue, Unconfirmed, Abandoned
  <1>5. CASE k = j
    <2>1. work'[k] = "applied" /\ (InScheduler(k)' <=> InScheduler(k)) /\ answer[k] # "ok"
      BY <1>1, <1>2, <1>3, <1>5, WhoIsWhere DEF InScheduler
    <2> QED BY <1>1, <1>2, <2>1 DEF Placed, Submitted, OutcomeIsTrue, Unconfirmed, Abandoned
  <1> QED BY <1>4, <1>5

\* The effect that runs stops running, its timer first or its operation first, or
\* a detached operation ends.
LEMMA PlacedStop ==
    ASSUME RuntimeInvariant, NEW j \in Keys, NEW k \in Keys,
           TimerFires(j) \/ \E d \in Disposition : DeviceEnds(j, d)
    PROVE  Placed(k)'
  <1>1. Placed(k) /\ UNCHANGED vars /\ UNCHANGED <<queue, orphans>>
    BY DEF RuntimeInvariant, TimerFires, DeviceEnds, ExecutionTimeout, EffectEnds,
           EffectThrowsTimeout, DetachedEnds, runtimeVars
  <1>2. UNCHANGED <<up, receipts, pc, out, work, invoked>>
    BY <1>1 DEF vars, memory, history
  <1>3. answer \in [Keys -> Answer] /\ NoEffect \notin Keys
    BY StateTypes
  <1>4. physical' \subseteq physical /\ (InScheduler(k)' => InScheduler(k))
    BY <1>1 DEF TimerFires, DeviceEnds, ExecutionTimeout, EffectEnds, EffectThrowsTimeout,
                DetachedEnds, InScheduler
  <1>5. CASE TimerFires(j)
    <2>1. /\ j = current /\ current' = NoEffect /\ UNCHANGED <<physical, disposition>>
          /\ answer' = [answer EXCEPT ![j] = "timeout"]
      BY <1>5 DEF TimerFires, ExecutionTimeout, runtimeVars
    <2>2. answer[j] = "pending"
      BY <2>1, WhoIsWhere
    <2> QED BY <1>1, <1>2, <1>3, <1>4, <2>1, <2>2
            DEF Placed, Submitted, OutcomeIsTrue, Unconfirmed, Abandoned
  <1>6. ASSUME NEW d \in Disposition, DeviceEnds(j, d) PROVE Placed(k)'
    <2>1. /\ d = "committed" => work[j] = "applied"
          /\ d = "rejectedBeforeWrite" => work[j] = "running"
          /\ disposition' = [disposition EXCEPT ![j] = d]
      BY <1>6 DEF DeviceEnds
    <2>2. /\ j \in physical /\ physical' = physical \ {j}
          /\ \/ /\ j = current /\ current' = NoEffect
                /\ answer' \in {[answer EXCEPT ![j] = "ok"], [answer EXCEPT ![j] = "error"],
                                [answer EXCEPT ![j] = "timeout"]}
             \/ j # current /\ UNCHANGED <<answer, current>>
      BY <1>6 DEF DeviceEnds, EffectEnds, EffectThrowsTimeout, DetachedEnds
    <2>3. disposition \in [Keys -> Disposition]
      BY DEF RuntimeInvariant
    <2>4. CASE k # j
      <3>1. UNCHANGED <<disposition[k], answer[k]>>
        BY <1>3, <2>1, <2>2, <2>3, <2>4
      <3>2. k = current => k = current'
        BY <2>2, <2>4
      <3>3. InScheduler(k) => up
        BY <1>1 DEF Placed, Unconfirmed
      <3> QED BY <1>1, <1>2, <1>4, <2>2, <3>1, <3>2, <3>3, PlacedFrame
    <2>5. CASE k = j
      <3>1. disposition'[k] = d
        BY <2>1, <2>3, <2>5
      <3>2. answer[k] \in {"pending", "timeout"} /\ (k # current => answer[k] = "timeout")
        BY <2>2, <2>5, WhoIsWhere DEF Placed, Submitted, RuntimeInvariant
      <3>3. answer'[k] \in {"ok", "error", "timeout"} /\ k \notin physical'
        BY <1>3, <2>2, <2>5, <3>2
      <3> QED BY <1>1, <1>2, <1>4, <2>1, <2>5, <3>1, <3>2, <3>3
              DEF Placed, Submitted, OutcomeIsTrue, Unconfirmed, Abandoned
    <2> QED BY <2>4, <2>5
  <1> QED BY <1>5, <1>6

\* The handler answers for an effect that has an outcome; a success is over.
LEMMA PlacedComplete ==
    ASSUME RuntimeInvariant, NEW j \in Keys, HandlerCompletes(j), NEW k \in Keys
    PROVE  Placed(k)'
  <1>1. /\ Placed(k) /\ UNCHANGED schedVars /\ UNCHANGED runtimeVars
        /\ UNCHANGED <<up, receipts, invoked>>
        /\ pc[j] = "handling" /\ answer[j] # "pending" /\ GoRecord(j, HandlerReceipt(j))
        /\ work' = IF Denies(HandlerReceipt(j)) THEN [work EXCEPT ![j] = "over"] ELSE work
    BY DEF HandlerCompletes, RuntimeInvariant, history
  <1>2. /\ UNCHANGED <<answer, disposition, physical, queue, current, orphans>>
        /\ InScheduler(k)' <=> InScheduler(k)
    BY <1>1 DEF schedVars, runtimeVars, InScheduler
  <1>3. /\ pc \in [Keys -> Stage] /\ out \in [Keys -> Receipt \cup {NoReceipt}]
        /\ work \in [Keys -> {"none", "running", "applied", "over"}]
    BY StateTypes
  <1>4. CASE k # j
    <2>1. UNCHANGED <<pc[k], out[k], work[k]>>
      BY <1>1, <1>3, <1>4 DEF GoRecord
    <2>2. InScheduler(k) => up
      BY <1>1 DEF Placed, Unconfirmed
    <2> QED BY <1>1, <1>2, <2>1, <2>2, PlacedFrame
  <1>5. CASE k = j
    <2>1. pc'[k] = "recording" /\ out'[k] = HandlerReceipt(k)
      BY <1>1, <1>3, <1>5 DEF GoRecord
    <2>2. CASE answer[k] = "ok"
      <3>1. ~InScheduler(k) /\ k \notin orphans
        BY <2>2, WhoIsWhere
      <3> QED BY <1>1, <1>2, <2>1, <3>1
              DEF Placed, Submitted, OutcomeIsTrue, Unconfirmed, Abandoned
    <2>3. CASE answer[k] # "ok"
      <3>1. HandlerReceipt(k) \in {Indeterminate(cur[k]), Failed(cur[k])}
        BY <2>3 DEF HandlerReceipt
      <3>2. cur[k] \in Calls /\ cur[k].mutating
        BY <1>1, <1>5, RuntimeCalls DEF RuntimeInvariant, GatewayInvariant, Shape, InFlight
      <3>3. ~Denies(HandlerReceipt(k)) /\ HandlerReceipt(k).status # "succeeded"
        BY <3>1, <3>2, ReceiptMeanings, UnsuccessfulReceipts
      <3>4. UNCHANGED work[k] /\ k \notin orphans
        BY <1>1, <1>5, <3>3 DEF Placed, Abandoned
      <3> QED BY <1>1, <1>2, <2>1, <3>3, <3>4
              DEF Placed, Submitted, OutcomeIsTrue, Unconfirmed, Abandoned
    <2> QED BY <2>2, <2>3
  <1> QED BY <1>4, <1>5

\* A death takes the scheduler with it and leaves what uses the device behind.
LEMMA PlacedDeath ==
    ASSUME RuntimeInvariant, ProcessDeath, NEW k \in Keys
    PROVE  Placed(k)'
  <1>1. /\ Placed(k) /\ UNCHANGED <<work, invoked>>
        /\ queue' = <<>> /\ physical' = {} /\ answer'[k] = "none" /\ pc'[k] = "idle"
        /\ orphans' = orphans \cup physical
    BY DEF ProcessDeath, Crash, history, RuntimeInvariant
  <1>2. ~InScheduler(k)'
    BY <1>1, EmptySeq DEF InScheduler, Contains
  <1>3. k \in physical => invoked[k] > 0 /\ work[k] \in {"running", "applied"}
    BY <1>1, WhoIsWhere DEF Placed, Unconfirmed, InScheduler
  <1> QED BY <1>1, <1>2, <1>3 DEF Placed, Submitted, OutcomeIsTrue, Unconfirmed, Abandoned

LEMMA PlacedUnavailable ==
    ASSUME RuntimeInvariant, NEW p \in Reconcilers, UnavailableReconciliation(p), NEW k \in Keys
    PROVE  Placed(k)'
  BY DEF UnavailableReconciliation, RuntimeInvariant, schedVars, runtimeVars, history,
         Placed, Submitted, OutcomeIsTrue, Unconfirmed, Abandoned, InScheduler

LEMMA PlacedKept ==
    ASSUME RuntimeInvariant, RuntimeNext, NEW k \in Keys
    PROVE  Placed(k)'
  BY PlacedGatewayStep, PlacedUnavailable, PlacedInvoke, PlacedTurn, PlacedWrite, PlacedStop,
     PlacedComplete, PlacedDeath DEF RuntimeNext

LEMMA UnavailableKept ==
    ASSUME RuntimeInvariant, RuntimeNext
    PROVE  Unavailable'
  <1> SUFFICES ASSUME NEW p \in Reconcilers, recon'[p].pc = "record"
               PROVE  recon'[p].receipt.status = "indeterminate"
    BY DEF Unavailable
  <1>1. recon \in [Reconcilers -> Reconcile]
    BY StateTypes
  <1>2. CASE recon'[p] = recon[p]
    BY <1>2 DEF RuntimeInvariant, Unavailable
  <1>3. ASSUME NEW q \in Reconcilers, UnavailableReconciliation(q)
        PROVE  recon'[p].receipt.status = "indeterminate"
    <2>1. CASE p # q
      BY <1>1, <1>2, <1>3, <2>1 DEF UnavailableReconciliation
    <2>2. CASE p = q
      <3>1. recon'[p].receipt = ReconciledReceipt(receipts[recon[p].key], FALSE)
        BY <1>1, <1>3, <2>2 DEF UnavailableReconciliation
      <3> QED BY <3>1 DEF ReconciledReceipt, ReceiptOf
    <2> QED BY <2>1, <2>2
  <1>4. \/ recon' = recon
        \/ \E q \in Reconcilers, k \in Keys : ReconcileBegin(q, k)
        \/ \E q \in Reconcilers : UnavailableReconciliation(q)
        \/ \E q \in Reconcilers, o \in AppendOutcome : ReconcileRecord(q, o)
        \/ Crash
    BY DEF RuntimeNext, GatewayStep, Execute, RecordDecision, RecordPrepared, RecordTerminal,
           HandlerTimeout, Recover, Tick, memory, InvokeHandler, StartHandler, DeviceWrites,
           PerformEffect, TimerFires, HandlerCompletes, DeviceEnds, SchedulerTurn, ProcessDeath,
           vars
  <1>5. ASSUME NEW q \in Reconcilers, NEW k \in Keys, ReconcileBegin(q, k)
        PROVE  recon'[p] = recon[p]
    BY <1>1, <1>5 DEF ReconcileBegin
  <1>6. ASSUME NEW q \in Reconcilers, NEW o \in AppendOutcome, ReconcileRecord(q, o)
        PROVE  recon'[p] = recon[p]
    BY <1>1, <1>6 DEF ReconcileRecord, IdleReconcile
  <1>7. ~Crash
    BY DEF Crash, IdleReconcile
  <1> QED BY <1>2, <1>3, <1>4, <1>5, <1>6, <1>7

LEMMA DispositionKept ==
    ASSUME RuntimeInvariant, RuntimeNext
    PROVE  disposition' \in [Keys -> Disposition] /\ orphans' \subseteq Keys
  <1>1. /\ disposition \in [Keys -> Disposition] /\ orphans \subseteq Keys
        /\ physical \subseteq Keys
    BY StateTypes DEF RuntimeInvariant
  <1>2. \/ disposition' = disposition
        \/ \E k \in Keys, d \in Disposition : disposition' = [disposition EXCEPT ![k] = d]
        \/ disposition' = [k \in Keys |-> "none"]
    BY DEF RuntimeNext, GatewayStep, UnavailableReconciliation, InvokeHandler, DeviceWrites,
           TimerFires, HandlerCompletes, DeviceEnds, SchedulerTurn, ProcessDeath, runtimeVars
  <1>3. orphans' = orphans \/ orphans' = orphans \cup physical
    BY DEF RuntimeNext, GatewayStep, UnavailableReconciliation, InvokeHandler, DeviceWrites,
           TimerFires, HandlerCompletes, DeviceEnds, SchedulerTurn, ProcessDeath, runtimeVars
  <1> QED BY <1>1, <1>2, <1>3 DEF Disposition

-----------------------------------------------------------------------------
(* Theorems                                                                *)

LEMMA RuntimeInvariantNext == RuntimeInvariant /\ [RuntimeNext]_allVars => RuntimeInvariant'
  <1> SUFFICES ASSUME RuntimeInvariant, [RuntimeNext]_allVars PROVE RuntimeInvariant'
    OBVIOUS
  <1>1. CASE RuntimeNext
    BY <1>1, GatewayInvariantKept, SchedulerKept, PlacedKept, UnavailableKept, DispositionKept
       DEF RuntimeInvariant
  <1>2. CASE UNCHANGED allVars
    <2>1. UNCHANGED vars /\ UNCHANGED schedVars /\ UNCHANGED runtimeVars
      BY <1>2 DEF allVars
    <2>2. GatewayInvariant'
      BY <2>1, ShapeNext, AccountingNext, AnswersNext DEF RuntimeInvariant, GatewayInvariant
    <2>3. SchedInvariant' /\ Open'
      BY <2>1, StepKeepsInvariant DEF RuntimeInvariant, Open, schedVars
    <2>4. /\ disposition' \in [Keys -> Disposition] /\ orphans' \subseteq Keys
          /\ (\A k \in Keys : Placed(k)') /\ Unavailable'
      BY <2>1 DEF RuntimeInvariant, vars, memory, history, schedVars, runtimeVars, Unavailable,
                  Placed, Submitted, OutcomeIsTrue, Unconfirmed, Abandoned, InScheduler
    <2> QED BY <2>2, <2>3, <2>4 DEF RuntimeInvariant
  <1> QED BY <1>1, <1>2

LEMMA RuntimeInvariantInit == RuntimeInit => RuntimeInvariant
  <1> SUFFICES ASSUME RuntimeInit PROVE RuntimeInvariant
    OBVIOUS
  <1>1. GatewayInvariant
    BY ShapeInit, AccountingInit, AnswersInit DEF RuntimeInit, GatewayInvariant
  <1>2. SchedInvariant /\ Open
    BY InvariantAtStart DEF RuntimeInit, SchedInit, Open
  <1>3. disposition \in [Keys -> Disposition] /\ orphans \subseteq Keys
    BY DEF RuntimeInit, Disposition
  <1>4. ASSUME NEW k \in Keys PROVE Placed(k)
    <2>1. ~InScheduler(k) /\ answer[k] = "none" /\ k \notin orphans
      BY EmptySeq, RuntimeCalls DEF RuntimeInit, SchedInit, InScheduler, Contains
    <2> QED BY <2>1 DEF Placed, Submitted, OutcomeIsTrue, Unconfirmed, Abandoned, InScheduler
  <1>5. Unavailable
    BY DEF RuntimeInit, Init, Unavailable, IdleReconcile
  <1> QED BY <1>1, <1>2, <1>3, <1>4, <1>5 DEF RuntimeInvariant

\* What ties gateway, scheduler and device together holds in every state.
LEMMA RuntimeInvariantHolds == RuntimeSpec => []RuntimeInvariant
  BY RuntimeInvariantInit, RuntimeInvariantNext, PTL DEF RuntimeSpec

\* Whatever waits or runs has a timer that can fire.
TimersArmed ==
    /\ timer \in [Keys -> Nat]
    /\ \A k \in Keys : InScheduler(k) => timer[k] > 0

LEMMA TimersInvoke ==
    ASSUME RuntimeInvariant, TimersArmed, NEW j \in Keys, InvokeHandler(j)
    PROVE  TimersArmed'
  <1>1. CASE UNCHANGED <<schedVars, timer>>
    BY <1>1 DEF TimersArmed, InScheduler, schedVars
  <1>2. CASE /\ pc'[j] = "handling" /\ Schedule(j)
             /\ timer' = [timer EXCEPT ![j] = IF draining THEN Remaining(j)
                                              ELSE now + Remaining(j)]
    <2>1. now \in Nat /\ cur[j] \in Calls /\ pc \in [Keys -> Stage]
      BY FreshInvocation, StateTypes DEF InvokeHandler, StartHandler, RuntimeInvariant,
         GatewayInvariant, Shape, TypeOK
    <2>2. cur[j].deadline \in Nat /\ now < cur[j].deadline
      BY <1>2, <2>1, CallAssumption DEF Call, InvokeHandler, StartHandler, GoRecord
    <2>3. PICK t \in Nat : t > 0 /\ timer' = [timer EXCEPT ![j] = t]
      <3>1. Remaining(j) \in Nat /\ Remaining(j) > 0 /\ now + Remaining(j) \in Nat
            /\ now + Remaining(j) > 0
        BY <2>1, <2>2 DEF Remaining
      <3> QED BY <1>2, <3>1
    <2>4. \A k \in Keys : InScheduler(k)' => InScheduler(k) \/ k = j
      BY <1>2, ScheduleMoves DEF InScheduler
    <2> QED BY <2>3, <2>4 DEF TimersArmed
  <1> QED BY <1>1, <1>2 DEF InvokeHandler

LEMMA TimersNext ==
    ASSUME RuntimeInvariant, TimersArmed, RuntimeNext
    PROVE  TimersArmed'
  <1>1. CASE timer' = timer /\ \A k \in Keys : InScheduler(k)' => InScheduler(k)
    BY <1>1 DEF TimersArmed
  <1>2. CASE UNCHANGED schedVars /\ timer' = timer
    BY <1>2 DEF TimersArmed, InScheduler, schedVars
  <1>3. CASE SchedulerTurn
    <2>1. \A k \in Keys : InScheduler(k)' => InScheduler(k)
      BY <1>3, TurnMoves DEF SchedulerTurn
    <2>2. current' \in Keys \cup {NoEffect}
      BY RuntimeCalls, SchedulerKept DEF SchedInvariant, SchedTypeOK
    <2>3. now \in Nat
      BY DEF RuntimeInvariant, GatewayInvariant, Shape, TypeOK
    <2>4. \/ timer' = timer
          \/ current' \in Keys /\ timer' = [timer EXCEPT ![current'] = now + @]
      BY <1>3, <2>2 DEF SchedulerTurn
    <2> QED BY <2>1, <2>3, <2>4 DEF TimersArmed
  <1>4. CASE ProcessDeath
    <2>1. queue' = <<>> /\ physical' = {} /\ timer' = [k \in Keys |-> 0]
      BY <1>4 DEF ProcessDeath
    <2>2. \A k \in Keys : ~InScheduler(k)'
      BY <2>1, EmptySeq DEF InScheduler, Contains
    <2> QED BY <2>1, <2>2 DEF TimersArmed
  <1>5. ASSUME NEW k \in Keys, NEW d \in Disposition, DeviceEnds(k, d) \/ TimerFires(k)
        PROVE  timer' = timer /\ \A e \in Keys : InScheduler(e)' => InScheduler(e)
    BY <1>5 DEF TimerFires, DeviceEnds, ExecutionTimeout, EffectEnds, EffectThrowsTimeout,
                DetachedEnds, InScheduler, runtimeVars
  <1>6. ASSUME NEW k \in Keys, InvokeHandler(k) PROVE TimersArmed'
    BY <1>6, TimersInvoke
  <1>7. Disposition # {}
    BY DEF Disposition
  <1> QED
    BY <1>1, <1>2, <1>3, <1>4, <1>5, <1>6, <1>7 DEF RuntimeNext, GatewayStep,
       UnavailableReconciliation, DeviceWrites, HandlerCompletes, schedVars, runtimeVars

\* Every state of the composed runtime is well typed, and an effect that has begun
\* has an armed timer.
THEOREM RuntimeTypeCorrect == RuntimeSpec => []RuntimeTypeOK
  <1>1. RuntimeInit => TimersArmed
    <2> SUFFICES ASSUME RuntimeInit PROVE TimersArmed
      OBVIOUS
    <2>1. \A k \in Keys : ~InScheduler(k)
      BY EmptySeq DEF RuntimeInit, SchedInit, InScheduler, Contains
    <2> QED BY <2>1 DEF RuntimeInit, TimersArmed
  <1>2. RuntimeInvariant /\ TimersArmed /\ [RuntimeNext]_allVars => TimersArmed'
    <2> SUFFICES ASSUME RuntimeInvariant, TimersArmed, UNCHANGED allVars PROVE TimersArmed'
      BY TimersNext
    <2> QED BY DEF allVars, schedVars, runtimeVars, TimersArmed, InScheduler
  <1>3. RuntimeInvariant /\ TimersArmed => RuntimeTypeOK
    BY RuntimeCalls DEF RuntimeInvariant, GatewayInvariant, Shape, SchedInvariant, SchedTypeOK,
       TimersArmed, RuntimeTypeOK, InScheduler
  <1> QED BY <1>1, <1>2, <1>3, RuntimeInvariantHolds, PTL DEF RuntimeSpec

\* The runtime implements the gateway: applyDeviceEffect over the scheduler keeps
\* the contract the gateway has with its handlers, deaths of the process included.
THEOREM RuntimeIsAGateway == RuntimeSpec => ImplementsToolGateway
  <1>1. RuntimeInit => Init
    BY DEF RuntimeInit
  <1>2. RuntimeInvariant /\ [RuntimeNext]_allVars => [Next]_vars
    BY RuntimeStepIsGatewayStep DEF allVars
  <1> QED BY <1>1, <1>2, RuntimeInvariantHolds, PTL DEF RuntimeSpec, Spec, ImplementsToolGateway

\* No caller holds a settled answer about an effect that is yet to touch the
\* glasses, queued, running or left running by a dead process.
THEOREM PendingStaysUncertain == RuntimeSpec => []PendingEffectIsUncertain
  <1>1. RuntimeInvariant => PendingEffectIsUncertain
    <2>1. ASSUME RuntimeInvariant, NEW k \in Keys
          PROVE  /\ receipts[k] # NoReceipt /\ InScheduler(k)
                       => ~Denies(receipts[k]) /\ receipts[k].status # "succeeded"
                 /\ up /\ k \in orphans => receipts[k] # NoReceipt /\ ~Denies(receipts[k])
      <3>1. Placed(k) /\ Worked(k) /\ Told(k)
        BY <2>1 DEF RuntimeInvariant, GatewayInvariant, Answers
      <3>2. InScheduler(k) \/ k \in orphans => ~Harmless(k)
        BY <3>1 DEF Placed, Unconfirmed, Abandoned, Worked, Harmless
      <3>3. up /\ k \in orphans => receipts[k] # NoReceipt
        BY <2>1, <3>1 DEF Placed, Abandoned, RuntimeInvariant, GatewayInvariant, Accounting,
                          Accounted
      <3> QED BY <3>1, <3>2, <3>3 DEF Told, Placed, Unconfirmed
    <2>2. RuntimeInvariant => orphans \subseteq Keys
      BY DEF RuntimeInvariant
    <2> QED BY <2>1, <2>2 DEF PendingEffectIsUncertain, InScheduler
  <1> QED BY <1>1, RuntimeInvariantHolds, PTL

=============================================================================
