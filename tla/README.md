# Verification of Hepta Glasses

TLA+ models of the parts of Hepta Glasses in which order, failure and
concurrency decide whether the program is right: the admission and idempotency
of mutations on the phone, the queue of physical device effects, the durable
journal, the two-leg sends to the glasses and the Bluetooth requests below them,
the assistant's sessions under their timers, the ledgers of provider mutations and
of realtime sessions in the control plane, its identities and mutation leases, and
the bitstream of the speech codec. TLC checks small instances; TLAPS proves
the central theorems for every value of the constants.

## 1. The system

A phone application (Dart, with Kotlin and Swift hosts) drives a pair of Even G1
glasses over two Bluetooth links; Python services behind it issue authority,
reach external providers and keep skills and memory. The components carry the
identifiers of `docs/modules/modules.json`.

| component | state it keeps | operations | what is hard | status |
|---|---|---|---|---|
| policy-tool-gateway | receipts, fingerprints and in-flight futures by idempotency key, consumed leases | `execute`, `reconcile`, `recover` | every `await` lets another call, a journal fault, a timeout or the death of the process in; handlers outlive their callers | modelled |
| edge-runtime | effect queue, open circuit, task maps | `schedule`, `close`, `applyDeviceEffect`, `createTask`, `transition`, `recover` | two nested timers; detached effects; replay after partial failure | modelled |
| audit-journal | a hash-chained file, an authenticated checkpoint, a trusted head per process | `append`, `initialize`, `verify`, `readAll` | two processes, file operations that fail, death in the middle of a write | partly |
| g1-transport | connection generation, request slots, quarantine, timers; claims, in-flight futures and receipts by authority; dual-leg receipts; native connection and queues | `request`, `requestRetry`, the channel's callbacks, `EvenG1Transport.send`, `sendMirrored`, `reconcile` | responses carry no request identifier; events of an old connection arrive late; calls of one key interleave at every leg | partly (no scanning, heartbeat, iOS host) |
| capability-control-plane | SQLite ledger of operations, leases, revocations, suspension | `execute`, `reconcile`, `revoke_subject` | callers that stop waiting for workers that go on; several processes; contradicting answers | partly (ledger) |
| realtime-control-plane | SQLite tables of tickets, sessions, clean-up jobs and their budgets | `issue_ticket`, `activate`, `reconcile`, `interrupt`, `revoke`, `drain_revocations` | one-shot activation against revocation; answers that come after the caller left; a remote session nobody names | partly (durable store) |
| identity-control-plane | SQLite tables of subjects, devices, challenges, sessions, tokens and revocations with their feed; a second database of mutation leases and tombstones | `admit_subject`, `challenge`, `enroll`, `create_session`, `issue`, `verify`, `revoke`; `authorize`, `revoke` | a remote broker is asked between two transactions; grants, repetitions and revocations of leases race for one transaction | partly (durable stores) |
| assistant-speech | session generation and state; the controller's session, flags, pages and timers | `begin`, `transition`, `cancel`; start, stop, touchpad and exit events, two timers | a handler waits at up to seven places and may return to a controller that serves another session | partly (no transcript, no HTTP) |
| memory | consent, records, deletion tombstones | put, query, delete, retention | deletion against a running export | not yet |
| skills-registry | signed packages, activation, revocation | install, activate, roll back | staged writes, crash between them | not yet |
| g1-protocol-features | upload loops of bitmap and text | two-leg uploads | one leg fails halfway | not yet |
| ios-native | the iOS host of the channel | connect, send, callbacks | same protocol as Android's | not yet |
| model-gateway-service, codex-worker, mcp-adapter, android-native (speech, JNI) | connections, one child process | HTTP, JSON-RPC, process control | mostly I/O and kernel behaviour | not modelled |
| native-dependencies | one frame's buffer, arithmetic coder and bit counts of liblc3 | `encode`, `decode` of a frame's data | a writer and a reader that must count the same bits; a carry through bytes not yet written | partly (bitstream) |
| digital-twin, mobile-shell, contracts-compatibility, repository-governance, qualification-release, external-evidence-authentication, latest-head-ci-custody, authority-quorum-review-integrity, agent-os-plugin | none at run time, or a simulator for tests | pure checks, user interface, CI | nothing that interleaves | not modelled |

Interactions: a caller hands `ToolGateway.execute` a request, a context and a
lease; the policy engine decides; the gateway appends to the audit journal
before and after it invokes the handler; the handler of a device tool is
`applyDeviceEffect`, which queues an effect in the scheduler; the effect reaches
`EvenG1Transport`, the two-leg coordinator and `BleManager`, whose platform
channel leads to the native host and the glasses. The task engine writes to the
same journal. The control plane is reached over HTTP and shares one SQLite file
per service between processes. The microphone's LC3 frames come the other way,
20 bytes each, and are decoded on the phone.

What makes each component correct is what the runs below check; `PROJECT.json`
lists the hazards at their lines, the ones no property covers yet included.

## 2. Modules

| module | models | shape |
|---|---|---|
| `PolicyEngine` | `policy_engine.dart` | the admission rule over a call and the consumed leases; identity and digest comparisons appear by their outcome, times as numbers |
| `ToolGateway` | `tool_gateway.dart` | extends `PolicyEngine`; one action per stretch of code between two awaits |
| `DeviceEffectScheduler` | `device_effect_scheduler.dart` | queue, drain loop, detached effects, circuit, `close` |
| `HeptaRuntime` | `hepta_runtime.dart` | composes the two: a gateway step, a scheduler step or a joint one; refines `ToolGateway` |
| `TaskEngine` | `task_engine.dart` | calls that await an append, and the replay as a recursive function over the journal's prefixes |
| `DurableLog` | the contract of the journal | abstract specification: an append that returned is there for good |
| `AuditJournal` | `audit_journal.dart` | several processes on one file; refines `DurableLog` |
| `BleRequests` | `ble_manager.dart`, `ble_request_slot.dart`, the Android `BleManager.kt` | Dart, native host, and the two ordered channels between them |
| `G1Transport` | `even_g1_transport.dart` | claims, in-flight operations and receipts by authority scope, over a link that answers as `BleRequests` shows; any caller |
| `DualLegCoordinator` | `dual_leg_coordinator.dart` | extends `G1Transport`: overlapping `sendMirrored()` and `reconcile()` as its callers, one action between two awaits |
| `DurableCapabilities` | `durable_capabilities.py`, `bounded_calls.py`, `capability_suspension.py` | callers, worker threads, read-backs and revocations over one ledger; one action per transaction |
| `DurableRealtime` | `durable_realtime.py`, `realtime_recovery.py`, `bounded_calls.py` | tickets, activations, reconciliations, revocations and drainers over one store; one action per transaction |
| `DurableIdentity` | `durable_identity.py`, `identity_authority.py` | one action per transaction and per answer of the broker, over one database |
| `MutationAuthority` | `mutation_authority.py` | `authorize()` in two steps and `revoke()` over one database; any identity verifier before it |
| `AssistantSession` | `assistant_session.dart`, `evenai.dart` | coordinator, controller and handlers that wait; one action between two awaits |
| `Lc3Bits`, `Lc3Spectrum`, `Lc3SideData`, `Lc3Frame` | liblc3's `bits.c`, the bitstream functions of `spec.c`, of `bwdet.c`, `tns.c`, `sns.c`, `ltpf.c`, and `encode()`/`decode()` of `lc3.c` | each part as a pair of pure operators, writer and reader; `Lc3Frame` runs a frame through them stage by stage |
| `BleProofs`, `DualLegProofs` | | TLAPS proofs about the module they extend |
| `RuntimeProofs` | gateway, scheduler and composed runtime | TLAPS proofs |
| `RuntimePartsProofs` | task engine, journal, assistant sessions | TLAPS proofs |
| `IdentityProofs` | identities, leases | TLAPS proofs |
| `ControlPlaneProofs` | the two ledgers | TLAPS proofs |
| `Lc3Proofs` | the codec's bitstream | TLAPS proofs |
| `Iteration` | | lemmas: induction up to a bound, and what a step repeated n times, or a loop over a sequence, leads through |
| `MCRuntimeParts` | task engine, journal, scheduler | three parts that share no state, side by side: each runs while the others are at rest |
| `MCControlPlane` | the two ledgers | likewise |
| `MCSessions` | identities; leases; assistant sessions | likewise |
| `MCBleLink` | Bluetooth requests; audio frames | likewise |
| the other `MC...` | | constants of the instances TLC checks |

Correspondences that are not obvious:

* **Awaits.** Dart runs one continuation at a time, so code between two awaits is
  one action. `ToolGateway.pc[k]` names the await that the operation of key `k`
  stands at: `denying` and `allowing` (`tool.decision`), `preparing`
  (`tool.prepared`), `starting`, `handling` (the handler), `recording`
  (the terminal entry). `recon[p]` is one `reconcile()` call.
* **Appends.** An append ends in one of three ways everywhere: `ok`; `lost`, it
  threw and nothing is on disk; `late`, it threw after the record was flushed,
  because `audit_journal.dart` replaces its checkpoint after the flush and
  rethrows. `AuditJournal` shows where the three come from, and `DurableLog` is
  what the other modules may rely on.
* **Handlers.** `work[k]` is the handler of a mutation: `running` may still write,
  `applied` has written, `over` never will. It survives the caller's timeout and,
  being bytes already handed on, the process. A handler answers success only when
  applied and `RejectedToolEffect` only before writing; that the device handlers
  meet that contract is the refinement of `HeptaRuntime`.
* **The scheduler.** `physical` holds device operations that have begun and not
  ended, a timed out one included; `current` is the one `_drain` awaits. `answer`
  is the completer of each submission.
* **Bluetooth.** `channel` carries calls and replies from native code in order,
  `events` what the glasses send; the two are not ordered with each other.
  `pending`, `quarantined` and `timers` are the three maps of the slot registry
  and `_requestTimeouts`. `unanswered` holds accepted writes the glasses may still
  answer: the response names leg and command only.
* **The ledger.** `caller[k]` is the thread inside `execute()`, `worker[k]` the
  thread `BoundedCalls` started, each with its own crash; every SQLite transaction
  is one action. The provider's terminal answers are promises, and `MaxBreaches`
  lets it break one.

* **Sends.** A `Scope` is what `even_g1_transport.dart` builds its identities from:
  connection generation, pair, leg, key. `snapshot` is Dart's copy of the
  connection, `native` the real one; `onTheWay` holds bytes handed to the platform
  channel, which may take effect after their operation was answered. Of the
  digest only equality matters, so it is the bytes. `superseded` remembers which
  authorities were current and ceased to be: a pair can change within one
  generation, and `_retireCompletedPriorAuthorities` then drops the receipts of
  an authority that may become current again, so the promises of the transport
  are stated for authorities that were never left. `effects` counts how often bytes
  of a scope took effect. What the glasses answer to a write may be too short or of
  another status than the two that mean success; `_sendOnce` then reports a refusal
  without effect (lines 239-256), whatever the bytes did: `Outcomes` allows it, and
  `misread` counts the times they had taken effect (at most `MaxMisread` in each of
  `MisreadScopes`).
* **Realtime sessions.** `session`, `tickets`, `job`, `lookupJob` and the budgets
  are rows of the store; `activation[s]` is the caller and the worker thread of the
  session's one activation, which need not end together. `opened`, `closing` and
  `closed` are the provider's side. It keeps its promises except for `MaxLies`
  false answers; `deceived` marks the sessions they were about.
* **Identities.** Random identifiers are drawn from small sets of unused ones. A
  token is verified by what its row says: the claims are those the row was prepared
  for, and the signature is `issue[t]` having returned it. `enroll[e]` is an
  `enroll()` between the broker's verdict and the store; the transaction that accepts
  it takes time (`AcceptAttestation(e, at)`), because the code reads the clock again
  before it commits. `events` is the feed, in order, and `vouched[t]` where in it a
  token was last accepted.
* **Leases.** `call[a]` is an `authorize()` after the identity was verified and the
  clock was read; the transaction follows. The verifier is a `Protocol` the authority
  is given, and it is left open: it may name any principal until any time. The one the
  repository has names the active pair as the device (`authenticated_principals.py:187`),
  not the device of the identity store, and nothing in the repository carries the
  identity store's revocations to `revoke()`; so the model relates the two in no way.
* **Assistant sessions.** `flow[f]` is a handler that waits, with the session it was
  started for; `ai` is the `EvenAI` singleton, `ai.held` its `_session`. A session is
  its generation: identifiers are never reused. A wait may be as long or as short
  as it likes, a wait for nothing included. `ai.pages` and `ai.page` are the shared
  `list` and `_currentLine`; `flow[f].pages` is how long the handler's own answer is:
  what it sends is of that answer, how it goes on is decided by the list as it is then.
  `sendEvenAIReply` may throw while a page is shown, and its handler is over. Texts
  that appear on the phone's screen are left out.
* **The codec.** A frame is its side data, its quantized spectrum and what the
  analysis handed on: gains, noise levels and residual bits are indexes and bits.
  The accumulator is the sequence of its bits, pointers are offsets. Symbol models,
  bit costs and the context lookup are constants; the instance takes its rows
  from `tables.c`. The phone only decodes (JNI `decodeLC3`, `PcmConverter` on iOS);
  the encoder modelled is liblc3's own. A damaged byte may change anything after it,
  and a frame `decode()` refuses is concealed.

Definitions called *faulty variant* are used by no specification: each is a
plausible mistake in the definition that follows it, and `PROJECT.json` pairs it
with the property that notices it.

## 3. Runs

| run | question | bounds |
|---|---|---|
| `gateway_mutations` | Is a mutation journaled first, handed out at most once, and answered truthfully? | two keys compete for one lease, a fresh lease and a reused key, one failing append, one crash, two overlapping reconciles, clock to 2 |
| `gateway_reads` | Does every execution end, reads among them? | three calls, one reconcile; liveness is checked here |
| `gateway_read_leases` (violation) | Are leases of reads restored? | as above |
| `runtime_parts` | Does replay rebuild exactly what the task engine answers? Does the journal never fork, stay usable, and is it a durable log? Do effects never overlap, is every one answered, and truly? | two callers that keep apart, two tasks, two keys, five entries, one lost append, one restart; two processes, four entries for three places, two faults or deaths; four submissions for three places |
| `task_engine_late_append` (violation) | Replay when an append may throw after its flush | one late append |
| `runtime` | No settled receipt for an effect that may yet be written; the composition is a tool gateway | two effects, deadlines 2 and 1, clock to 2, one crash |
| `ble_link` | Does a response reach its request, is a refusal true, does every request return? Does what was written to an audio frame come back, and is what a damaged one decodes to still usable? | two requests for the same leg and command, one retry each, two connections, two undelivered messages before native code acts; 53 frames, nine damaged bytes |
| `dual_leg_reconnects` | Do a key's bytes take effect once per connection authority, and again only after a misread response; is a receipt true of the glasses? | two overlapping sends of one key with different bytes, one reconcile, two connections, two table entries, the right leg lossy, two attempts a leg, one misread response of the left leg in the first connection |
| `dual_leg_bytes` (violation) | Does a key name one payload? | as above, one connection, no misread response |
| `control_plane` | Capabilities: are settled receipts true, is nothing dispatched twice or after its subject was fenced? Realtime: is every open remote session in somebody's custody, is none that is in use ended, does revocation tell the truth? | two operations of two subjects and one lease, two read-backs of at most two attempts, one broken promise, clock to 1; two tickets, sessions and remote sessions, one look-up and one revocation each, one caller of each kind, one interruption, one false answer |
| `sessions` | Control plane: does what is usable stand on active rows and on nothing revoked; is a device attested and a failed issue without effect; does no lease survive a revocation in its database, do repetitions share one lease for ever? Phone: is at most one session live, none left behind, none taken back, and what is completed shown? | two subjects, one device, one proof, two challenges, two overlapping enrolments, one session and token, one revocation, clock to 1; or two calls, three identifiers for at most two leases, two sessions of one subject and device, any revocations, times to 2; or two assistant sessions, two waiting handlers, answers of up to three pages, both platforms |
| `assistant_held` (violation) | Does a superseded handler leave the controller alone? | two sessions, two waiting handlers |

Why the bounds are enough: each hazard needs two actors and at most two failures.
One failing append distinguishes all paths of `_recordTerminal`, one crash all
paths of `recover()`, two reconciles the overlap. Deadlines 1 and 2 put the clock
before, between and after them. Two requests on one key are what a slot, a
quarantine and a timer can confuse; a second generation is what a late message
can be taken for. Two sends with different bytes and two table entries make a
claim collide and the table fill; one lossy leg is enough to divide the legs. Two
sessions are what an answer can be confused between, and budgets of one are
reached. Two enrolments with one challenge, and two subjects for one device, are what
an enrolment can be confused with, and one tick makes every lifetime end. Two calls and
two leases are what a repetition can be confused with; times to 2 let a lease end, be
asked for again, and be limited by its deadline, its authority or its maximum. Two
handlers are one of the session that is superseded and one of the session that
supersedes it; three pages are a first, a middle and a last one. The frames of `ble_link` were chosen, not drawn:
carries run through one and several waiting bytes, the coder ends in each of its ways,
no bit, one or two are left, and larger frames leave out their lowest planes. The
largest run has about 1.8 million states.

Parts that share no state are checked side by side in one run, each while the
others are at rest: their product would add no behaviour to a property of one.

The runs check the properties that most of the others depend on. Fifteen more are
stated in the modules and proved, for every instance, instead of being run on one:
`ReceiptStable`, `SubmissionOrder`, `WithinCapacity`, `CloseMeansIdle`, `WrittenOnce`,
`QuarantineIsKept`, `AuthorityTable`, `LeaseBindsOneOperation`, `ContradictionIsKept`,
`ReadbackBudget`, `CallsAreBudgeted`, `RevokedForGood`, `ChallengeSpentOnce`,
`IdentityIsFinal` and `LeaseFitsRequest`.

Deadlock is not checked, since every instance stops once its bounds are used up
and all calls have returned; the liveness properties say what must end.

### Fairness

* `gateway_reads` (`FairSpec`): the clock advances, appends complete, due timers
  and ready continuations run. Nothing is assumed of a handler: that an execution
  ends relies on the deadline alone.
* `runtime_parts` (`SchedFairness`): the drain loop continues, an armed timer
  fires, `close()`'s wait ends. Device operations need not end.
* `ble_link` (`BleFairness`): timers fire and both channels deliver. The native side and the
  glasses may be silent for ever.

All fairness is weak: each of these steps stays enabled until it is taken.
In a run of several parts it is stated of steps that are not enabled in their part's
initial state, so it asks nothing of a part at rest. Ledgers, identities, leases and
assistant sessions have none: they promise nothing that a caller of `reconcile()` or
`drain_revocations()`, a user or a broker who stays away could not delay.

### Disagreements with the repository's words

1. *Leases of reads* (`gateway_read_leases`). The development guide says recovery
   "restores consumed leases"; a single-use lease spent by an r2 or r3 read
   appears in no journal entry and is usable again after a restart.
2. *Late appends* (`task_engine_late_append`). When an append throws after its
   flush, the engine's maps stay behind the journal; the caller's repetition
   writes a second, contradicting entry and the next `recover()` throws for good.
   Overlapping transitions of one task have the same effect without any fault:
   both are admitted from the state they read before their appends. The engine has
   nothing against that, and no document asks it of callers, so `runtime_parts`
   checks callers that keep apart (`Disjoint`); drop `Disjoint'` from
   `MCRuntimeParts` to see it.
3. *One key, two payloads* (`dual_leg_bytes`). `sendMirrored()` refuses a key
   "reused with different device bytes" by looking at the stored receipt, and
   stores one only after both legs: of two overlapping calls of one key neither
   finds the other, and where one is refused at a leg the other writes.
4. *A session nobody holds* (`assistant_held`). Generations "fence stale asynchronous
   work", but the failure path of a start handler clears the controller after an await
   without asking whether its session is still the current one; the session that
   superseded it goes on in the coordinator and no stop event reaches it.

Met while modelling, visible in the models, and not stated as runs:

* *Deadlines of queued effects.* The guide calls mutations "deadline-bound"; an effect
  queued behind another carries the time that remained when it was submitted and begins
  with all of it (`hepta_runtime.dart:143`), after the deadline at which its caller was
  already given an indeterminate receipt. `PendingEffectIsUncertain` is what remains true.
* *A recording without limit.* A stop event that comes while audio is still being
  acquired clears `isReceivingAudio` (`evenai.dart:252`) and is then refused: the
  recording begins, and the callback of its timer finds the flag cleared and does
  nothing.
* *Expired leases.* `authorize()` reads its clock before it waits for the lock
  (`mutation_authority.py:132`): a repetition that waited may be handed a lease that has
  expired meanwhile.
* *Misread responses.* The guide counts a "malformed post-write response" among the
  indeterminate outcomes, and so does `proto.dart:455`; `_sendOnce`
  (`even_g1_transport.dart:239-256`) reports it, like every status it does not know,
  as a refusal without effect, keeps no receipt and frees the claim. The same bytes
  may then be written again. `AppliedOncePerScope` counts these responses.
* *Stale texts.* Generations fence what a late handler may move, not what it may show.
  The failure paths of start and stop write to the phone's screen after awaits without
  asking (`evenai.dart:223`, `263-266`), and `sendEvenAIReply` asks once (line 723),
  before authorization, journal and scheduler are awaited.
* *Two answers in one session.* A second stop event while speech is being finalized
  starts a second handler, `transition()` allowing a state to be kept: the model is
  asked twice, and both answers use one list of pages. `startSendReply` counts the
  pages of the list (line 420) after sending the first page of its own answer, so
  page one of three may complete the session. `CompletedWasShown` is therefore stated
  of sessions that were given one answer.

Observations that contradict no promise:

* `ReceiptStable` documents a permitted surprise: of two overlapping reconciles of
  the gateway the slower may replace the recorded success of the faster one by an
  indeterminate receipt.
* A `reconcile()` of the coordinator that overlaps a send of the same key with
  other bytes may store the resolved receipt beside the fingerprint of that send.
* A `sendEvenAIReply` that throws, for want of authorization or of a journal append,
  leaves its session in `rendering` until the next event.
* How long the caller's authority lasts is no part of a lease's fingerprint
  (`mutation_authority.py:143`): an intent repeated with a shorter authority is handed
  the first lease, which may outlive it.
* With an empty spectrum (`nq` = 0) liblc3's writer puts no pair and its reader
  takes one, so what comes back is stated for frames that have one. Where bytes
  wait for a carry the coder's termination may write one byte more than it needs;
  the count of both sides includes it.

## 4. Proofs

### Tool gateway

`RuntimeProofs` proves, for any calls, keys, leases, fingerprints and bounds
(assuming `CallAssumption`, that a key belongs to one action and so always or
never mutates, and `BoundAssumption`, that the bounds are naturals):

* `TypeCorrect`: `Spec => []TypeOK`;
* `EffectAtMostOnce`: `Spec => []AtMostOnce`;
* `EffectIsJournaled`: `Spec => []JournalBeforeEffect`.

`TypeOK` is not inductive: a step that records a receipt needs the call and the
receipt in flight. The first invariant adds `InFlight` (a key in flight has its
call, no receipt, and a running process) and what a running reconcile holds.
For the effect, the argument is: a handler is invoked only from `starting`, which
follows a successful append of `tool.prepared`; from then on the key is in
flight, or has a receipt that says the effect may have occurred, or the process
is down, in which case the prepared or terminal entry makes `recover()` give the
key a receipt again. So no free key has been invoked. The strengthening carries
exactly these cases, with one step of the proof per action and one lemma for what
`recover()` reads from a journal. Receipts a key gets are never removed except by
a crash.

It also proves what the gateway promises to callers and
policy:

* `LeaseAuthorisesOnce`: `Spec => []LeaseSpentOnce`;
* `DenialsAreRight`: `Spec => []NoFalseDenial`;
* `SuccessesAreRemembered`: `Spec => []SuccessIsRemembered`;
* `ReceiptsAreStable`: `Spec => ReceiptStable`, an action property.

A spent lease is in the memory of a running gateway and in a prepared entry for the
next one; a lease that was consumed and not yet spent has exactly one operation
ahead of its handler (`LeasesAreKept`). What callers were told is tied to the effects
at each place it is kept: the receipt about to be recorded, the one in memory, every
terminal entry, the caller (`Told`); and a terminal entry of a mutation means that a
running gateway holds a receipt (`Held`), so that no handler starts where somebody was
told that nothing happened. `Settling` says that what a slow reconcile is about to
overwrite is still something a reconcile may revise.

### Scheduler

`RuntimeProofs` proves, for any submissions and any positive capacity, every
safety property of `DeviceEffectScheduler`: `EffectsNeverOverlap`
(`NoOverlap`), `OrderIsKept` (`SubmissionOrder`), `CapacityHolds`
(`WithinCapacity`), `AnswersAreHonest` (`HonestAnswer`) and `CloseIsIdle`
(`CloseMeansIdle`), from `SchedInvariantHolds`. The invariant orders everything
by `accepted`: what was started is its beginning, what is queued follows
(`QueueFollowsStarted`), and no effect is accepted twice. So what runs is not
queued (`StartedIsNotQueued`), and an answer can be read off an effect's place
(`AnswersMatch`). `OneUsesDevice` says that the device belongs to the effect that
runs or to the one that opened the circuit, never to both.

### Composed runtime

The rest of `RuntimeProofs` relates the two parts, for any calls,
keys, leases and bounds (assuming also `RuntimeAssumption`: submissions are named by
their keys, and every registered tool mutates):

* `RuntimeIsAGateway`: `RuntimeSpec => ImplementsToolGateway`, the refinement;
* `PendingStaysUncertain`: `RuntimeSpec => []PendingEffectIsUncertain`;
* `RuntimeTypeCorrect`: `RuntimeSpec => []RuntimeTypeOK`.

By the first, everything proved of the gateway holds of the runtime. Its difficult step
is the handler's answer: the gateway allows a success only after the effect and a
rejection only if nothing was or will be written, while `applyDeviceEffect` translates
what the scheduler says. The invariant follows each effect through the places it can be
in: only what was invoked was submitted, and what uses the device is awaited or timed
out (`Submitted`), so an outcome is final when it is translated (`OutcomeIsTrue`); while
an effect is in the scheduler nothing recorded of it is a success (`Unconfirmed`); and
what a dead process left on the device is never submitted again (`Abandoned`). The
invariants of both parts are used as they stand, a death being a fresh start of the
scheduler under a gateway that goes on.

### Task engine

`RuntimePartsProofs` proves, for any callers, tasks, keys, journal length, lost appends
and restarts:

* `MemoryIsTheJournal`: `Spec /\ []Disjoint => []MemoryMatchesJournal`;
* `RestartSucceeds`: `Spec /\ []Disjoint => []ReplayAccepts`;
* `OneCallerSuffices`: `Spec => []MemoryMatchesJournal` where there is one caller.

All three assume that no append ends `late`, and the first two that callers keep apart:
`Disjoint` says that no two of them await appends about one task, or creations under one
key. Neither can be dropped: the violating run shows the first, the hazard at
`task_engine.dart:126` the second. The theorems therefore say exactly what the engine
relies on and does not enforce.

Replay is a recursive function over the prefixes of the journal. The proof does not
unfold it: `ReplayCourse` says that it computes what stepping through the entries one by
one gives, `CoursesAgree` that two journals agree as far as one is a prefix of the other,
and `ReplayOfAppend` is their sum, that one more entry is one more `ReplayEntry`. Both
need induction over positions, which `Iteration` derives from the well-foundedness of
`<` (the library's induction rules take an operator and cannot be cited). The inductive
invariant adds to the property that each call awaiting an append still has the ground it
was admitted on (`Grounded`): the task it creates is still unknown, the task it moves is
still in the state it read. `Disjoint` is used at one place, where one caller's append
returns and another's ground must survive.

### Audit journal

`RuntimePartsProofs` also proves, for any processes and entries, any capacity and any number of
faults and deaths (assuming `JournalAssumption`, that the capacity is a positive
number and the "none" values are none):

* `JournalIsRecoverable`: `JournalSpec => []Recoverable`;
* `JournalKeepsContract`: `JournalSpec => ImplementsDurableLog`, the refinement.

That the file verifies is not inductive: what the next writer appends depends on what
the holder of the lock has read. The invariant has three parts: `JournalTypeOK`;
`Sound`, what is on disk (one chain within the capacity, a checkpoint that is not ahead
of it, no record whose append never began); and `Holder(p)`, what the process in the
lock relies on without looking again: before the write its head is the last record
and its own entry is not yet in the file, after the write it is, and the file has
grown by one. A process outside the lock relies on nothing, so the steps of one
process leave the others' `Holder` alone. The lemma of each step also shows what the
step is to the contract: a commit, an acknowledgement, a throw, or nothing.

### Bluetooth requests

`BleProofs` proves, for any requests and targets, pairs, connections, retries and
undelivered messages (assuming `BleAssumption`: the bounds are naturals, the "none"
values are none and a target is on a leg), every safety property of `BleRequests`:

* `ResponsesMatch`: `BleSpec => []ResponseMatchesRequest`;
* `RefusalsAreTrue`: `BleSpec => []NotWrittenIsTrue`;
* `RetriesWriteOnce`: `BleSpec => []WrittenOnce`;
* `UncertainWritesAreAlone`: `BleSpec => []OneUncertainWritePerKey`;
* `QuarantineEndsRightly`: `BleSpec => QuarantineIsKept`, an action property.

None of the first four is inductive. What carries them is the notion of a request
that is `Outstanding`: its send is on its way to native code, its write may still be
answered, or the response to it is on its way to Dart. `SlotsHeld` says that such a
request of the current connection owns the slot of its key or has left the key
quarantined, and is alone there. So a response that arrives finds its own request in
the slot, or ends the quarantine when nothing else is under way; a free slot without
quarantine can be taken. `SentOnce`, `RepliedOnce` and `AnsweredOnce` say that an
attempt is sent, replied to and answered at most once: a refusal, the only reply that
lets `requestRetry()` try again, then means that nothing was or will be written. No
request carries the generation of a connection Dart has not adopted, so adopting one
may drop every quarantine. `SlotsKept` does the work once for all steps that do not
take a slot, `SlotTaken` for those that do.

### Two-leg sends

`DualLegProofs` proves, for any calls, keys, bytes, pairs, number of connections
and capacity of the claim table:

* `CoordinatorIsACaller`: `DualSpec => G1Spec`, the refinement;
* `AppliedOnce`: `DualSpec => []AppliedOncePerScope`;
* `TableIsSound`: `DualSpec => []AuthorityTable`;
* `ReceiptsAreTrue`: `DualSpec => []ReceiptIsTrue`.

The invariant of the transport is proved once, with arbitrary callers: what is in
flight or answered is claimed for its bytes (`HeldIsClaimed`); in an authority
that was not left, what was written or may still be is held (`WritesAreHeld`) and
took effect once, and once more for each misread response (`WritesOnce`: an operation
that holds its scope and has not made its write finds only effects that were misread). The refinement carries it to the coordinator.
`ReceiptsAreTrue` adds what each send and each reconcile has in hand: an
acknowledgement it received of a leg stands for bytes that took effect there.

### Capability ledger

`ControlPlaneProofs` proves, for any operations, subjects, leases, budgets
and number of concurrent read-backs, and without any assumption on them:

* `LeaseIsBound`: `Spec => []LeaseBindsOneOperation`;
* `DispatchedOnce`: `Spec => []ProviderCalledOnce`;
* `ContradictionStays`: `Spec => []ContradictionIsKept`;
* `ReceiptsAreTrue`: `Spec => []SettledIsTrue`;
* `RevocationIsFinal`: `Spec => RevocationHolds`, an action property;
* `ReadbacksAreBudgeted`: `Spec => []ReadbackBudget`.

Two inductive invariants carry them. `LedgerInvariant` says that threads and
read-backs exist only for admitted operations (`OnlyAdmittedRun`: otherwise a
denied operation could receive an answer that no rule of `_record_conflict`
covers), that nothing has been sent before the adapter's call (`SentLater`), and
that every terminal answer given to the ledger is the settled state or part of a
conflict (`AnswersAreSettled`). `TruthInvariant`, proved on top of it, follows
the provider: until the adapter's call the mutation is unknown to it or refused
for good, and a settled receipt, like an answer a worker is still carrying,
repeats a promise it has made. `ConcludeOneRow` and `ConclusionTruthful` do the
work once for the final transactions of `execute()` and `reconcile()`, which
share it. The last two need little: who was told that a subject is fenced, found it
suspended or revoked, which nothing undoes (`FencesHold`); and the read-backs made and
those still to be made were all charged (`AttemptsAreCharged`).

### Realtime sessions

`ControlPlaneProofs` proves, for any sessions, tickets, remote sessions,
budgets, concurrent calls and false answers (assuming `RealtimeAssumption`: the
"none" values are none, the budgets are positive):

* `RealtimeInvariantHolds`: `RealtimeSpec => []RealtimeInvariant`;
* `CustodyIsKept`: `RealtimeSpec => []Custody`;
* `ActiveIsUnharmed`: `RealtimeSpec => []ActiveUnharmed`;
* `BudgetsHold`: `RealtimeSpec => []CallsAreBudgeted`;
* `RevocationIsForGood`: `RealtimeSpec => RevokedForGood`, an action property;
* `RevokeTellsTheTruth`: `RealtimeSpec => RevokeIsTrue`, likewise.

`Custody` alone is not inductive: a late answer could make a session active whose
remote session is already being ended. The invariant adds that a job belongs to a
revoked session and only what has a job is ended (`JobsAreOwned`), that calls are
charged before they are made (`CallsAreCharged`), that the record of a session
the provider was honest about names the one remote session it opened
(`RecordIsTrue`), and that an unknown outcome keeps its look-up owed
(`LookupIsOwed`). Most transactions touch one session: `Handles(s)` says what such
a transaction may change, `Quiet` that the provider did nothing in it, and one
lemma shows that both together keep the invariant; every action is then either
such a transaction or a step of the provider, treated by itself.

### Identities

`IdentityProofs` proves, for any subjects, devices, challenges, sessions, tokens,
overlapping calls, lifetimes and capacities (assuming `IdentityAssumption`: the bounds
are numbers, and `Nobody` is none of the identifiers):

* `AuthorityIsChained`: `IdentitySpec => []ChainOfAuthority`;
* `RevokedTokensAreRefused`: `IdentitySpec => []VouchedBeforeRevocation`;
* `DevicesAreAttested`: `IdentitySpec => []EnrollmentIsAttested`;
* `ChallengesAreSpentOnce`: `IdentitySpec => []ChallengeSpentOnce`;
* `FailuresGrantNothing`: `IdentitySpec => []FailedIssueGrantsNothing`;
* `IdentityDecisionsAreFinal`: `IdentitySpec => IdentityIsFinal`, an action property.

Each rests on `IdentityTypeOK`, which also says that the feed names what is revoked,
and nothing twice, and on `RowsAreOwned`, that the columns of a row that exists name
its owners. `ChainOfAuthority` then carries itself: `revoke()` takes the sessions and
tokens of a device by the device's column in their own rows, so these rows must agree
with each other, which is part of the property. A challenge that can still be answered
was not answered (`SpentIsConsumed`), so of several verdicts on it one is used. What
was revoked before a verification is in the set the verification looks at and what
comes later is further on in the feed; a token that is about to be committed was signed
(`TokensFollow`).

### Leases

The second half of `IdentityProofs` proves, for any calls, leases, principals, tasks,
times and limits (assuming `MutationAssumption`, that the bounds are numbers), and
whatever the verifier answers:

* `RevocationTakesLeases`: `AuthoritySpec => []RevokedHoldsNoLease`;
* `LeasesFitRequests`: `AuthoritySpec => []LeaseFitsRequest`;
* `IntentsShareALease`: `AuthoritySpec => []OneLeasePerIntent`;
* `LeaseDecisionsAreFinal`: `AuthoritySpec => LeaseRevocationIsFinal`.

`RevokedHoldsNoLease` carries itself: a grant looks at the tombstones, a revocation at
the leases, each within its transaction. For the others, what a call carries must stay
true while other calls commit (`CallStands`): the clock it read stays before the end it
will write, and the lease it was granted stays one for its intent. Of the leases, no two
are for one intent (`FingerprintsAreUnique`), since a grant that finds none writes one in
the same transaction and no lease is ever deleted, the ended and revoked ones included.

### Assistant sessions

The last part of `RuntimePartsProofs` proves, for any number of sessions, waiting
handlers and pages (assuming `AssistantAssumption`, that the bounds are naturals):

* `SupersededSessionsAreOver`: `AssistantSpec => []SupersededIsOver`;
* `SessionsAreServed`: `AssistantSpec => []SomeoneServesIt`;
* `CompletionsWereShown`: `AssistantSpec => []CompletedWasShown`;
* `SessionsMoveOn`: `AssistantSpec => LifecycleIsOrdered`, an action property.

Every handler's step is described by one predicate, `Effect`: what it may do to the
sessions (nothing, an allowed move of the current one, or the beginning of the next),
to the controller, to the histories and to its own place, and that it leaves a wait
which serves a session only for another that does, or after moving that session on
(`ServiceGoesOn`). One lemma shows that this keeps the invariant, one per action that
the action is of that kind. The invariant adds to the properties that the controller
never holds a superseded session (it holds the current one or none, which is what
`assistant_held` shows to be the weak point), and that whatever shows a page shows one
of an answer given to a session that is rendering or over (`PagesAreOfAnswers`). The list
of pages is shared by all handlers; what makes a completion true is that, while the
current session has one answer, the list a handler finds is its own or was cleared
(`OnlyAnswersFit`), so that a list of one page is its answer's only page.
`CompletionsStand` is the property with what it needs to be inductive: what was
completed had an answer.

### Codec

`Lc3Proofs` proves, for any frames, tables and damage:

* `FrameInvariant`: `FrameSpec => []FrameInv`;
* `WhatIsDecodedIsUsable`: `FrameSpec => []DecodedIsUsable`.

The assumptions are on the constants. `SpectrumTables` and `SideTables` say that
every symbol model divides 1024 into consecutive shares, one for each of its
symbols and none for others, and that the context lookup names models; the 74
models and the lookup of `tables.c` are of that kind. `FrameData` says what the analysis
hands on: 16-bit quantized values in pairs, filters of at most eight coefficients
of -8..8, a vector with the pulses of its shape, and damage that is a byte.
Nothing is assumed about which bytes are damaged or what they become.

Reading and writing are loops, here folds over a sequence or a step repeated; the lemmas of
`Iteration` say that what each turn keeps, the loop keeps. Three things are then
carried through every operator:

* *streams*: both pointers stay in the buffer and the range of the arithmetic
  coder in its 16 to 24 bits, through reads, writes, carries and the flush;
* *pulses*: an index below the number of vectors of a shape tells a vector that
  has all the pulses of that shape, so its energy is the one divided by;
* *coefficients*: at most fourteen planes and two bits make sixteen, and the plane
  that lsb mode adds is added only to values with room for it (`LeftOut`).

`DecodedIsUsable` speaks of the last stages only. `FrameInv` adds what holds on
the way: `Encoding`, while the frame is written, and `Decoding`, while it is read,
with one lemma per action. The writer's half is needed because what arrives is the
writer's flushed buffer, and the reader relies on its being a whole buffer of numbers.

### Only model-checked

`RoundTrip` stays with TLC: that a reader undoes a writer through a whole frame is
induction over what both have coded so far, and that both stay within a budget stated
in fractions of a bit depends on the very numbers of the tables. Liveness stays with TLC
because the prover has no `ENABLED`. `MemoryMatchesJournal` is proved under the
conditions named above; that they hold of the runtime's callers is the hazard at
`task_engine.dart:126`, not a theorem.

## 5. Not modelled

Contents of arguments, digests, canonical JSON and MACs are abstracted to whether
they match. The wall clock only advances. A failing rename in the journal leaves
the old or the new checkpoint, or none. Bluetooth scanning, pairing and the
heartbeat are left out, as are the native write queue's contents (a full queue is
a refusal) and the iOS host. In the ledgers, adapters are external: they answer,
fail or hang; SQLite's transactions are atomic and durable; the sizes of the
worker pool and the clock's failures appear as nondeterministic refusals. The
offline migration of the realtime schema and the in-memory stores beside the
durable ones are left out. In the identity store, scopes, audiences, platforms, keys
and signatures only decide whether a call goes on; the broker is external. The adapters
that verify a caller for the mutation authority are left out, and so are the texts on
the phone's screen.

Of the native code most lines hold no behaviour to check. A third of liblc3
and three quarters of RNNoise are tables: window and filter coefficients, symbol
models, trained weights. The rest, apart from the bitstream, is signal processing
in floating point: the transform, noise shaping, the long-term post-filter, pitch
search, the resampler and RNNoise's network. It keeps no state that operations
could reach in a wrong order, its hazards are accuracy and speed, and TLA+ has no
floating point to say them in. `attdet.c`, `plc.c` and `energy.c` are of that
kind. The liblc3 under `ios/Runner/lc3` is another release of it; the
functions modelled from the Android copy are the same there.

The components listed above as not modelled have their reason in `PROJECT.json`.

## 6. Plan

Done: gateway, scheduler, runtime, task engine, Bluetooth requests, journal,
two-leg sends, both ledgers, identities and leases, assistant sessions, the codec's
bitstream; the theorems of section 4. Every safety property that a run checks is a
theorem, except `RoundTrip`. What is left, most important first:

1. The composition of leases with the phone: `DurableCapabilities` and `ToolGateway`
   as consumers of `MutationAuthority`.
2. The uploads of bitmaps and texts over `BleRequests`, the iOS host as its second
   native side, and the heartbeat.
3. Memory (consent, retention, deletion against a running export) and the signed
   registry's staged writes.
