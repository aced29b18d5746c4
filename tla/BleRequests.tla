---------------------------- MODULE BleRequests ----------------------------
(***************************************************************************)
(* lib/ble_manager.dart with lib/runtime/ble_request_slot.dart: commands   *)
(* to the two legs of a pair of glasses, each waiting for one response.    *)
(*                                                                         *)
(* Dart and the native Bluetooth code (Android BleManager.kt) exchange     *)
(* messages over two platform channels, each in order: method calls and    *)
(* their replies on one, what the glasses send on the other.  Each side    *)
(* keeps its own idea of the connection, named by a generation and a pair  *)
(* identity.  A response carries no request identifier, only generation,   *)
(* leg and command byte: the slot of that key decides whom it completes,   *)
(* and a key whose write may have happened unanswered is quarantined.      *)
(*                                                                         *)
(* Every action is what runs between two awaits; continuations that run as *)
(* microtasks belong to the action that completes their future.            *)
(***************************************************************************)
EXTENDS Naturals, SequencesExt

CONSTANTS
    Requests,      \* calls of requestRetry()
    Target,        \* the leg and command byte of each
    Retry,         \* further attempts of a call
    Pairs,         \* pair identities
    Unselected,    \* unselectedBlePairIdentity
    NoRequest,
    MaxGeneration, \* bound on connections
    MaxChannel     \* bound on undelivered messages before the native side acts

Sides == {"L", "R"}
Targets == {Target[r] : r \in Requests}
Generations == 0..MaxGeneration
BleRequestKey == [generation : Generations, to : Targets]

ASSUME BleAssumption ==
    /\ \A r \in Requests : Target[r].side \in Sides
    /\ Retry \in Nat /\ MaxGeneration \in Nat /\ MaxChannel \in Nat
    /\ Unselected \notin Pairs /\ NoRequest \notin Requests

VARIABLES
    generation, pair,   \* _connectionGeneration, _pairIdentity
    ready,              \* the legs connected as far as Dart knows
    pending,            \* _pending: who owns the slot of a key
    quarantined,        \* _quarantined
    timers,             \* _requestTimeouts: armed acknowledgement timers
    phase,              \* where each request() stands
    scope,              \* the authority it captured
    attempts,           \* attempts it has made
    answer,             \* what its completer or its caller got
    answeredBy,         \* history: the request whose write was answered
    native,             \* the native connection
    channel,            \* method.bluetooth: calls and replies on their way to Dart
    events,             \* eventBleReceive: responses on their way to Dart
    sending,            \* sends on their way from Dart to native
    unanswered,         \* accepted writes the glasses may still answer
    writes              \* history: writes accepted for a request

dart == <<generation, pair, ready, pending, quarantined, timers, phase, scope, attempts,
          answer, answeredBy>>
bleVars == <<dart, native, channel, events, sending, unanswered, writes>>

Native == [generation : Generations, pair : Pairs \cup {Unselected},
           up : SUBSET Sides, lost : BOOLEAN]

Message ==
    [type : {"connecting", "connected"}, generation : Generations, pair : Pairs]
    \cup [type : {"disconnected"}, generation : Generations, pair : Pairs,
          sides : SUBSET Sides, up : SUBSET Sides]
    \cup [type : {"reply"}, request : Requests, accepted : BOOLEAN]

Response == [generation : Generations, pair : Pairs, request : Requests]

Answer == {"none", "notWritten", "mayHave", "answered"}

\* Types; a key never has an owner and a quarantine at once.
BleTypeOK ==
    /\ generation \in Generations
    /\ pair \in Pairs \cup {Unselected}
    /\ ready \subseteq Sides
    /\ pending \in [BleRequestKey -> Requests \cup {NoRequest}]
    /\ quarantined \subseteq {key \in BleRequestKey : pending[key] = NoRequest}
    /\ timers \in [BleRequestKey -> Requests \cup {NoRequest}]
    /\ phase \in [Requests -> {"new", "waiting", "writing", "acking", "done"}]
    /\ scope \in [Requests -> [generation : Generations, pair : Pairs \cup {Unselected}]]
    /\ attempts \in [Requests -> 0..Retry]
    /\ answer \in [Requests -> Answer]
    /\ answeredBy \in [Requests -> Requests \cup {NoRequest}]
    /\ native \in Native
    /\ channel \in Seq(Message) /\ events \in Seq(Response)
    /\ sending \subseteq Requests
    /\ unanswered \subseteq Requests
    /\ writes \in [Requests -> Nat]

BleInit ==
    /\ generation = 0 /\ pair = Unselected /\ ready = {}
    /\ pending = [key \in BleRequestKey |-> NoRequest]
    /\ quarantined = {}
    /\ timers = [key \in BleRequestKey |-> NoRequest]
    /\ phase = [r \in Requests |-> "new"]
    /\ scope = [r \in Requests |-> [generation |-> 0, pair |-> Unselected]]
    /\ attempts = [r \in Requests |-> 0]
    /\ answer = [r \in Requests |-> "none"]
    /\ answeredBy = [r \in Requests |-> NoRequest]
    /\ native = [generation |-> 0, pair |-> Unselected, up |-> {}, lost |-> FALSE]
    /\ channel = <<>> /\ events = <<>> /\ sending = {} /\ unanswered = {}
    /\ writes = [r \in Requests |-> 0]

-----------------------------------------------------------------------------
KeyOf(r) == [generation |-> scope[r].generation, to |-> Target[r]]
Authority == [generation |-> generation, pair |-> pair]
AuthorityChanged(r) == scope[r] # Authority
SideReady(r) == Target[r].side \in ready

\* request() returns: requestRetry repeats it when nothing was written and the
\* leg is ready.
Return(r, a) ==
    IF a = "notWritten" /\ attempts[r] < Retry /\ SideReady(r)
    THEN /\ phase' = [phase EXCEPT ![r] = "new"]
         /\ attempts' = [attempts EXCEPT ![r] = @ + 1]
         /\ answer' = [answer EXCEPT ![r] = "none"]
    ELSE /\ phase' = [phase EXCEPT ![r] = "done"]
         /\ answer' = [answer EXCEPT ![r] = a]
         /\ UNCHANGED attempts

\* reserve(key, pending), then the send is handed to the platform channel.
ReserveAndSend(r, key) ==
    /\ pending' = [pending EXCEPT ![key] = r]
    /\ phase' = [phase EXCEPT ![r] = "writing"]
    /\ sending' = sending \cup {r}
    /\ UNCHANGED <<attempts, answer>>

\* request() up to its first await.  Callers that pass an expected generation
\* or pair are refused when it is no longer current.
Request(r) ==
    LET key == [generation |-> generation, to |-> Target[r]] IN
    /\ phase[r] = "new"
    /\ scope' = [scope EXCEPT ![r] = Authority]
    /\ \/ /\ phase' = [phase EXCEPT ![r] = "done"]
          /\ answer' = [answer EXCEPT ![r] = "notWritten"]
          /\ UNCHANGED <<pending, sending, attempts>>
       \/ ~SideReady(r) /\ Return(r, "notWritten") /\ UNCHANGED <<pending, sending>>
       \/ /\ SideReady(r) /\ key \in quarantined
          /\ Return(r, "mayHave") /\ UNCHANGED <<pending, sending>>
       \/ /\ SideReady(r) /\ key \notin quarantined /\ pending[key] # NoRequest
          /\ phase' = [phase EXCEPT ![r] = "waiting"]
          /\ UNCHANGED <<pending, sending, attempts, answer>>
       \/ /\ SideReady(r) /\ key \notin quarantined /\ pending[key] = NoRequest
          /\ ReserveAndSend(r, key)
    /\ UNCHANGED <<generation, pair, ready, quarantined, timers, answeredBy,
                   native, channel, events, unanswered, writes>>

\* The slot was busy: every 5 ms the loop looks again, for at most 3 s.
Poll(r) ==
    LET key == KeyOf(r) IN
    /\ phase[r] = "waiting"
    /\ \/ AuthorityChanged(r) /\ Return(r, "notWritten") /\ UNCHANGED <<pending, sending>>
       \/ /\ ~AuthorityChanged(r) /\ pending[key] # NoRequest       \* request_slot_busy
          /\ Return(r, "notWritten") /\ UNCHANGED <<pending, sending>>
       \/ /\ ~AuthorityChanged(r) /\ pending[key] = NoRequest
          /\ \/ ~SideReady(r) /\ Return(r, "notWritten") /\ UNCHANGED <<pending, sending>>
             \/ /\ SideReady(r) /\ key \in quarantined
                /\ Return(r, "mayHave") /\ UNCHANGED <<pending, sending>>
             \/ /\ SideReady(r) /\ key \notin quarantined
                /\ ReserveAndSend(r, key)
    /\ UNCHANGED <<generation, pair, ready, quarantined, timers, scope, answeredBy,
                   native, channel, events, unanswered, writes>>

\* releaseIfOwned, quarantineIfOwned
Released(key, r) == [pending EXCEPT ![key] = IF @ = r THEN NoRequest ELSE @]
QuarantinedIfOwned(key, r) ==
    IF pending[key] = r THEN quarantined \cup {key} ELSE quarantined

\* Faulty variant: an accepted write arms no acknowledgement timer.
ReplyWithoutTimer(r, accepted) ==
    /\ phase[r] = "writing" /\ answer[r] = "none"
    /\ phase' = [phase EXCEPT ![r] = IF accepted THEN "acking" ELSE "done"]
    /\ answer' = [answer EXCEPT ![r] = IF accepted THEN "none" ELSE "notWritten"]
    /\ UNCHANGED <<pending, timers, attempts>>

\* The reply to the send of r reaches the awaiting request().  Its completer
\* may have been completed meanwhile, by a response or a disconnection.
HandleReply(r, accepted) ==
    LET key == KeyOf(r) IN
    IF phase[r] # "writing"
    THEN UNCHANGED <<pending, timers, phase, attempts, answer>>
    ELSE \/ /\ answer[r] # "none"
            /\ timers' = [timers EXCEPT ![key] = NoRequest]
            /\ phase' = [phase EXCEPT ![r] = "done"]
            /\ UNCHANGED <<pending, attempts, answer>>
         \/ /\ answer[r] = "none" /\ ~accepted
            /\ pending' = Released(key, r)
            /\ timers' = [timers EXCEPT ![key] = NoRequest]
            /\ Return(r, "notWritten")
         \/ /\ answer[r] = "none" /\ accepted
            /\ timers' = [timers EXCEPT ![key] = r]
            /\ phase' = [phase EXCEPT ![r] = "acking"]
            /\ UNCHANGED <<pending, attempts, answer>>

\* The send throws, or no reply comes within 2 s.
SendTimeout(r) ==
    LET key == KeyOf(r) IN
    /\ phase[r] = "writing"
    /\ timers' = [timers EXCEPT ![key] = NoRequest]
    /\ quarantined' = IF answer[r] = "none" THEN QuarantinedIfOwned(key, r) ELSE quarantined
    /\ pending' = Released(key, r)
    /\ answer' = [answer EXCEPT ![r] = IF @ = "none" THEN "mayHave" ELSE @]
    /\ phase' = [phase EXCEPT ![r] = "done"]
    /\ UNCHANGED <<generation, pair, ready, scope, attempts, answeredBy,
                   native, channel, events, sending, unanswered, writes>>

\* Faulty variant: a timeout frees the slot at once.
AckTimeoutReleases(key) ==
    LET r == timers[key] IN
    /\ r # NoRequest /\ pending[key] = r
    /\ timers' = [timers EXCEPT ![key] = NoRequest]
    /\ pending' = [pending EXCEPT ![key] = NoRequest]
    /\ answer' = [answer EXCEPT ![r] = "mayHave"]
    /\ phase' = [phase EXCEPT ![r] = "done"]
    /\ UNCHANGED <<generation, pair, ready, quarantined, scope, attempts, answeredBy,
                   native, channel, events, sending, unanswered, writes>>

\* The acknowledgement timer of a key fires.
AckTimeout(key) ==
    LET r == timers[key] IN
    /\ r # NoRequest
    /\ timers' = [timers EXCEPT ![key] = NoRequest]
    /\ IF pending[key] # r THEN UNCHANGED <<pending, quarantined, answer, phase>>
       ELSE /\ pending' = [pending EXCEPT ![key] = NoRequest]
            /\ quarantined' = quarantined \cup {key}
            /\ answer' = [answer EXCEPT ![r] = "mayHave"]
            /\ phase' = [phase EXCEPT ![r] = "done"]
    /\ UNCHANGED <<generation, pair, ready, scope, attempts, answeredBy,
                   native, channel, events, sending, unanswered, writes>>

-----------------------------------------------------------------------------
\* _failPendingRequests of generation g on the given legs: their slots are
\* quarantined and their requests told that the write may have happened.
FailPending(g, sides) ==
    LET keys == {key \in BleRequestKey : /\ key.generation = g /\ key.to.side \in sides
                                         /\ pending[key] # NoRequest}
        owners == {pending[key] : key \in keys} IN
    /\ pending' = [key \in BleRequestKey |-> IF key \in keys THEN NoRequest ELSE pending[key]]
    /\ quarantined' = quarantined \cup keys
    /\ timers' = [key \in BleRequestKey |-> IF key \in keys THEN NoRequest ELSE timers[key]]
    /\ answer' = [r \in Requests |-> IF r \in owners THEN "mayHave" ELSE answer[r]]
    /\ phase' = [r \in Requests |->
                   IF r \in owners /\ phase[r] = "acking" THEN "done" ELSE phase[r]]

\* Faulty variant: what the old connection left pending is reported as unwritten.
AdoptAsNotWritten(g) ==
    LET retired == {key \in BleRequestKey : key.generation = generation}
        owners == {pending[key] : key \in retired} IN
    /\ generation' = g
    /\ pending' = [key \in BleRequestKey |-> IF key \in retired THEN NoRequest ELSE pending[key]]
    /\ quarantined' = quarantined \ retired
    /\ timers' = [key \in BleRequestKey |-> IF key \in retired THEN NoRequest ELSE timers[key]]
    /\ answer' = [r \in Requests |-> IF r \in owners THEN "notWritten" ELSE answer[r]]
    /\ phase' = [r \in Requests |-> IF r \in owners THEN "done" ELSE phase[r]]

\* _adoptGeneration of a newer connection: what the old one left pending fails
\* and its quarantine is dropped, the generation being part of every key.
AdoptGeneration(g) ==
    LET retired == {key \in BleRequestKey : key.generation = generation}
        owners == {pending[key] : key \in retired} IN
    /\ generation' = g
    /\ pending' = [key \in BleRequestKey |-> IF key \in retired THEN NoRequest ELSE pending[key]]
    /\ quarantined' = quarantined \ retired
    /\ timers' = [key \in BleRequestKey |-> IF key \in retired THEN NoRequest ELSE timers[key]]
    /\ answer' = [r \in Requests |-> IF r \in owners THEN "mayHave" ELSE answer[r]]
    /\ phase' = [r \in Requests |->
                   IF r \in owners /\ phase[r] = "acking" THEN "done" ELSE phase[r]]

\* connectToGlasses() up to its await; the native side acts or refuses later.
ConnectToGlasses(p) ==
    /\ FailPending(generation, Sides)
    /\ pair' = p
    /\ ready' = {}
    /\ UNCHANGED <<generation, scope, attempts, answeredBy, native, channel, events, sending,
                   unanswered, writes>>

\* _onGlassesConnecting, _onGlassesConnected
HandleConnection(m) ==
    IF m.generation < generation
    THEN UNCHANGED <<generation, pair, ready, pending, quarantined, timers, phase, answer>>
    ELSE /\ pair' = m.pair
         /\ ready' = IF m.type = "connected" THEN Sides ELSE {}
         /\ IF m.generation = generation
            THEN UNCHANGED <<generation, pending, quarantined, timers, phase, answer>>
            ELSE AdoptGeneration(m.generation)

\* _onGlassesDisconnected
HandleDisconnection(m) ==
    IF m.generation < generation
    THEN UNCHANGED <<generation, pair, ready, pending, quarantined, timers, phase, answer>>
    ELSE /\ pair' = m.pair
         /\ ready' = m.up
         /\ IF m.generation = generation
            THEN FailPending(generation, m.sides) /\ UNCHANGED generation
            ELSE AdoptGeneration(m.generation)

\* Faulty variant: responses are matched by leg and command only.
ResponseIgnoringGeneration(m) ==
    LET key == [generation |-> generation, to |-> Target[m.request]]
        owner == pending[key] IN
    /\ owner # NoRequest
    /\ timers' = [timers EXCEPT ![key] = NoRequest]
    /\ pending' = [pending EXCEPT ![key] = NoRequest]
    /\ answer' = [answer EXCEPT ![owner] = "answered"]
    /\ answeredBy' = [answeredBy EXCEPT ![owner] = m.request]
    /\ phase' = [phase EXCEPT ![owner] = IF @ = "acking" THEN "done" ELSE @]
    /\ UNCHANGED quarantined

\* _handleReceivedData: only the current authority's responses are looked at; a
\* late one ends the quarantine of its key, another completes the slot's owner.
HandleResponse(m) ==
    LET key == [generation |-> m.generation, to |-> Target[m.request]]
        owner == pending[key] IN
    \/ /\ m.generation # generation \/ m.pair # pair
       /\ UNCHANGED <<pending, quarantined, timers, phase, answer, answeredBy>>
    \/ /\ m.generation = generation /\ m.pair = pair /\ key \in quarantined
       /\ quarantined' = quarantined \ {key}
       /\ UNCHANGED <<pending, timers, phase, answer, answeredBy>>
    \/ /\ m.generation = generation /\ m.pair = pair /\ key \notin quarantined
       /\ timers' = [timers EXCEPT ![key] = NoRequest]
       /\ pending' = [pending EXCEPT ![key] = NoRequest]
       /\ IF owner = NoRequest THEN UNCHANGED <<phase, answer, answeredBy>>
          ELSE /\ answer' = [answer EXCEPT ![owner] = "answered"]
               /\ answeredBy' = [answeredBy EXCEPT ![owner] = m.request]
               /\ phase' = [phase EXCEPT ![owner] = IF @ = "acking" THEN "done" ELSE @]
       /\ UNCHANGED quarantined

\* Dart takes the oldest message off a platform channel.
DeliverCall ==
    LET m == Head(channel) IN
    /\ channel # <<>>
    /\ channel' = Tail(channel)
    /\ \/ /\ m.type \in {"connecting", "connected"}
          /\ HandleConnection(m) /\ UNCHANGED <<scope, attempts, answeredBy>>
       \/ /\ m.type = "disconnected"
          /\ HandleDisconnection(m) /\ UNCHANGED <<scope, attempts, answeredBy>>
       \/ /\ m.type = "reply"
          /\ HandleReply(m.request, m.accepted)
          /\ UNCHANGED <<generation, pair, ready, quarantined, scope, answeredBy>>
    /\ UNCHANGED <<native, events, sending, unanswered, writes>>

DeliverEvent ==
    /\ events # <<>>
    /\ events' = Tail(events)
    /\ HandleResponse(Head(events))
    /\ UNCHANGED <<generation, pair, ready, scope, attempts, native, channel, sending,
                   unanswered, writes>>

-----------------------------------------------------------------------------
(* The native side.                                                        *)

\* connectToGlass: the current link is dropped without a message.
NativeConnect(p) ==
    /\ native.generation < MaxGeneration /\ Len(channel) < MaxChannel
    /\ native' = [generation |-> native.generation + 1, pair |-> p, up |-> {}, lost |-> FALSE]
    /\ channel' = Append(channel, [type |-> "connecting",
                                   generation |-> native.generation + 1, pair |-> p])
    /\ unanswered' = {}
    /\ UNCHANGED <<dart, events, sending, writes>>

\* markReady of the second leg.
NativeReady ==
    /\ native.pair # Unselected /\ native.up = {} /\ ~native.lost
    /\ Len(channel) < MaxChannel
    /\ native' = [native EXCEPT !.up = Sides]
    /\ channel' = Append(channel, [type |-> "connected",
                                   generation |-> native.generation, pair |-> native.pair])
    /\ UNCHANGED <<dart, events, sending, unanswered, writes>>

\* handleDisconnected of one leg, connected or not yet; disconnectCurrent of both.
NativeDisconnect(sides) ==
    /\ native.pair # Unselected
    /\ sides = Sides \/ sides \subseteq native.up \/ ~native.lost
    /\ Len(channel) < MaxChannel
    /\ native' = [native EXCEPT !.up = @ \ sides, !.lost = TRUE,
                                !.pair = IF sides = Sides THEN Unselected ELSE @]
    /\ channel' = Append(channel, [type |-> "disconnected", generation |-> native.generation,
                                   pair |-> native.pair, sides |-> sides,
                                   up |-> native.up \ sides])
    /\ unanswered' = {r \in unanswered : Target[r].side \notin sides}
    /\ UNCHANGED <<dart, events, sending, writes>>

\* sendData: a write is accepted for the authority it names only, and if the
\* write queue of the leg has room.
NativeSend(r) ==
    LET admissible == /\ scope[r] = [generation |-> native.generation, pair |-> native.pair]
                      /\ Target[r].side \in native.up IN
    /\ r \in sending
    /\ sending' = sending \ {r}
    /\ \/ /\ admissible
          /\ writes' = [writes EXCEPT ![r] = @ + 1]
          /\ unanswered' = unanswered \cup {r}
          /\ channel' = Append(channel, [type |-> "reply", request |-> r, accepted |-> TRUE])
       \/ /\ channel' = Append(channel, [type |-> "reply", request |-> r, accepted |-> FALSE])
          /\ UNCHANGED <<writes, unanswered>>
    /\ UNCHANGED <<dart, native, events>>

\* The glasses answer a write, at most once; or never.
GlassesAnswer(r) ==
    /\ r \in unanswered
    /\ unanswered' = unanswered \ {r}
    /\ events' = Append(events, [generation |-> native.generation, pair |-> native.pair,
                                 request |-> r])
    /\ UNCHANGED <<dart, native, channel, sending, writes>>

-----------------------------------------------------------------------------
BleNext ==
    \/ \E r \in Requests : Request(r) \/ Poll(r) \/ SendTimeout(r)
    \/ \E key \in BleRequestKey : AckTimeout(key)
    \/ \E p \in Pairs : ConnectToGlasses(p) \/ NativeConnect(p)
    \/ DeliverCall \/ DeliverEvent
    \/ NativeReady
    \/ \E sides \in {{"L"}, {"R"}, Sides} : NativeDisconnect(sides)
    \/ \E r \in Requests : NativeSend(r) \/ GlassesAnswer(r)

\* Timers fire, microtasks run and the platform channel delivers.  Nothing is
\* assumed of the native side or of the glasses.
BleFairness ==
    /\ WF_bleVars(DeliverCall) /\ WF_bleVars(DeliverEvent)
    /\ \A r \in Requests : WF_bleVars(Poll(r)) /\ WF_bleVars(SendTimeout(r))
    /\ \A key \in BleRequestKey : WF_bleVars(AckTimeout(key))
    /\ \A r \in Requests : WF_bleVars(Request(r) /\ attempts[r] > 0)

BleSpec == BleInit /\ [][BleNext]_bleVars
FairBleSpec == BleSpec /\ BleFairness

-----------------------------------------------------------------------------
(* Properties                                                              *)

\* A response completes the request whose write it answers, although it names
\* neither: not one that timed out before it, not one of another connection.
ResponseMatchesRequest ==
    \A r \in Requests : answer[r] = "answered" => answeredBy[r] = r

\* A request told that nothing was written is right, for good.
NotWrittenIsTrue ==
    \A r \in Requests :
        phase[r] = "done" /\ answer[r] = "notWritten" => writes[r] = 0 /\ r \notin sending

\* Retries never write the bytes of a request twice.
WrittenOnce == \A r \in Requests : writes[r] <= 1

\* While the glasses may still answer a write, no other write with the same
\* generation, leg and command is accepted.
OneUncertainWritePerKey ==
    \A r, s \in unanswered : Target[r] = Target[s] => r = s

\* "Disconnecting one leg cannot release quarantine on the other": a key leaves
\* quarantine by its own late response or with its generation.
QuarantineIsKept ==
    [][\A key \in quarantined \ quarantined' :
         \/ key.generation # generation'
         \/ /\ events # <<>> /\ events' = Tail(events)
            /\ Head(events).generation = key.generation
            /\ Target[Head(events).request] = key.to]_bleVars

\* Every request that was begun returns, whatever the glasses do and whichever
\* messages race its timers.
EveryRequestReturns ==
    \A r \in Requests : phase[r] \in {"waiting", "writing", "acking"} ~> phase[r] = "done"

=============================================================================
