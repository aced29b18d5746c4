---------------------------- MODULE G1Transport ----------------------------
(***************************************************************************)
(* lib/adapters/even_g1/even_g1_transport.dart: EvenG1Transport, which     *)
(* decides whether the bytes of a caller's key may be written to a leg.    *)
(*                                                                         *)
(* Claims, operations in flight and receipts belong to an authority scope: *)
(* connection generation, pair identity, leg and key.  They are dropped    *)
(* when the connection snapshot no longer names their scope, and nothing   *)
(* but them keeps a key's bytes from being written twice.                  *)
(*                                                                         *)
(* BleManager.request() below it is external here and answers as           *)
(* BleRequests shows: what was not sent is refused, a response is of a     *)
(* write that happened, everything else is "may have happened", and the    *)
(* write may still reach the glasses after that answer.  But a response    *)
(* that is too short, or whose status is not one of success, is taken for  *)
(* a refusal here, whatever the glasses did: it is misread if the bytes    *)
(* took effect.                                                            *)
(***************************************************************************)
EXTENDS Naturals, FiniteSets

CONSTANTS
    Keys,               \* the callers' idempotency keys
    Bytes,              \* what they send
    Pairs,              \* pair identities
    Unselected,         \* unselectedBlePairIdentity
    NoBytes,            \* no claimed digest
    MaxAuthorityEntries,
    MaxGeneration,      \* bound on connections
    LossyLegs,          \* bound: the legs that may be lost
    MisreadScopes,      \* bound: the scopes whose responses may be misread
    MaxMisread          \* bound: and how many of one scope

ASSUME G1Assumption ==
    /\ MaxAuthorityEntries \in Nat \ {0} /\ MaxGeneration \in Nat
    /\ MaxMisread \in Nat
    /\ LossyLegs \subseteq {"L", "R"}
    /\ Unselected \notin Pairs /\ NoBytes \notin Bytes

Sides == {"L", "R"}
Scope == [generation : 1..MaxGeneration, pair : Pairs, side : Sides, key : Keys]
Identity == [scope : Scope, bytes : Bytes]
Connection == [generation : 0..MaxGeneration, pair : Pairs \cup {Unselected},
               up : SUBSET Sides]

VARIABLES
    snapshot,       \* BleManager.connectionSnapshot
    claimedDigests, \* _claimedDigests
    receipts,       \* _receipts
    inFlight,       \* _inFlight
    native,         \* the connection the native side has
    onTheWay,       \* writes handed to the platform channel
    unacked,        \* operations in flight whose write took effect
    applied,        \* history: the identities whose bytes took effect
    effects,        \* history: how often bytes of a scope did, until it was left
    misread,        \* history: how often that was answered as a refusal
    superseded      \* history: authorities that were current and ceased to be

authority == <<claimedDigests, receipts, inFlight>>
glasses == <<onTheWay, unacked, applied, effects>>
g1Vars == <<snapshot, native, superseded, authority, glasses, misread>>

G1TypeOK ==
    /\ snapshot \in Connection /\ native \in Connection
    /\ claimedDigests \in [Scope -> Bytes \cup {NoBytes}]
    /\ receipts \in [Identity -> {"none", "accepted", "uncertain"}]
    /\ inFlight \subseteq Identity
    /\ onTheWay \subseteq Identity /\ unacked \subseteq inFlight
    /\ applied \subseteq Identity
    /\ effects \in [Scope -> Nat] /\ misread \in [Scope -> 0..MaxMisread]
    /\ superseded \subseteq (0..MaxGeneration) \X (Pairs \cup {Unselected})

NoConnection == [generation |-> 0, pair |-> Unselected, up |-> {}]

G1Init ==
    /\ snapshot = NoConnection /\ native = NoConnection
    /\ claimedDigests = [s \in Scope |-> NoBytes]
    /\ receipts = [id \in Identity |-> "none"]
    /\ inFlight = {} /\ onTheWay = {} /\ unacked = {}
    /\ applied = {} /\ effects = [s \in Scope |-> 0] /\ misread = [s \in Scope |-> 0]
    /\ superseded = {}

-----------------------------------------------------------------------------
AuthorityOf(s) == <<s.generation, s.pair>>
IsCurrentScope(s, connection) == AuthorityOf(s) = AuthorityOf(connection)
HasAuthoritativeIdentity == snapshot.generation > 0 /\ snapshot.pair # Unselected

HasInFlight(s, ids) == \E id \in ids : id.scope = s
Claimed == {s \in Scope : claimedDigests[s] # NoBytes}

\* The authority a send() of now captures.
ScopeNow(side, key) == [generation |-> snapshot.generation, pair |-> snapshot.pair,
                        side |-> side, key |-> key]
IdentityNow(side, key, bytes) == [scope |-> ScopeNow(side, key), bytes |-> bytes]

\* _retireCompletedPriorAuthorities, after the given changes of the tables.
Retire(connection, claims, acks, ids) ==
    LET retired == {s \in Scope : /\ claims[s] # NoBytes
                                  /\ ~IsCurrentScope(s, connection)
                                  /\ ~HasInFlight(s, ids)} IN
    /\ claimedDigests' = [s \in Scope |-> IF s \in retired THEN NoBytes ELSE claims[s]]
    /\ receipts' = [id \in Identity |-> IF id.scope \in retired THEN "none" ELSE acks[id]]
    /\ inFlight' = ids

\* _publishConnectionSnapshot of a changed connection.
Publish(connection) ==
    /\ snapshot' = connection
    /\ superseded' = superseded \cup
           {a \in {AuthorityOf(snapshot)} : HasAuthoritativeIdentity /\ a # AuthorityOf(connection)}
    /\ Retire(connection, claimedDigests, receipts, inFlight)

-----------------------------------------------------------------------------
(* send(): what it answers at once, or the operation it starts or joins.   *)

RejectsNow(side) == ~HasAuthoritativeIdentity \/ side \notin snapshot.up

\* "Device idempotency authority was reused with different bytes."
ThrowsNow(side, key, bytes) ==
    /\ ~RejectsNow(side)
    /\ claimedDigests[ScopeNow(side, key)] \notin {NoBytes, bytes}

RepliesNow(side, key, bytes) ==
    /\ ~RejectsNow(side) /\ ~ThrowsNow(side, key, bytes)
    /\ receipts[IdentityNow(side, key, bytes)] # "none"

JoinsNow(side, key, bytes) ==
    /\ ~RejectsNow(side) /\ ~ThrowsNow(side, key, bytes)
    /\ ~RepliesNow(side, key, bytes)
    /\ IdentityNow(side, key, bytes) \in inFlight

AdmitsNow(side, key, bytes) ==
    /\ ~RejectsNow(side) /\ ~ThrowsNow(side, key, bytes)
    /\ ~RepliesNow(side, key, bytes) /\ ~JoinsNow(side, key, bytes)

\* idempotency_authority_capacity_exhausted
FullNow(side, key) ==
    /\ claimedDigests[ScopeNow(side, key)] = NoBytes
    /\ Cardinality(Claimed) >= MaxAuthorityEntries

\* send() claims the scope and _sendOnce() calls request(), which hands the
\* write over or sends nothing, its slot being busy or in quarantine.
Start(side, key, bytes) ==
    LET id == IdentityNow(side, key, bytes) IN
    /\ AdmitsNow(side, key, bytes) /\ ~FullNow(side, key)
    /\ claimedDigests' = [claimedDigests EXCEPT ![id.scope] = bytes]
    /\ inFlight' = inFlight \cup {id}
    /\ onTheWay' \in {onTheWay, onTheWay \cup {id}}
    /\ UNCHANGED <<snapshot, native, superseded, receipts, unacked, applied, effects, misread>>

\* A response to a write that took effect can come.
Responds(id) == id \in unacked /\ IsCurrentScope(id.scope, snapshot)

\* What _sendOnce() can make of what request() answers about an identity now.
Outcomes(id) ==
    {"uncertain"}
    \cup {a \in {"accepted"} : Responds(id)}
    \cup {a \in {"refused"} : \/ id \notin onTheWay \cup unacked
                              \/ /\ Responds(id) /\ id.scope \in MisreadScopes
                                 /\ misread[id.scope] < MaxMisread}

Misread(id, ack) ==
    misread' = IF ack = "refused" /\ id \in unacked
               THEN [misread EXCEPT ![id.scope] = @ + 1] ELSE misread

\* Faulty variant: a timeout is not recorded.
FinishForgets(id, ack) ==
    LET acks == [receipts EXCEPT ![id] = IF ack = "accepted" THEN ack ELSE @]
        claims == [claimedDigests EXCEPT ![id.scope] = IF acks[id] = "none" THEN NoBytes ELSE @] IN
    /\ id \in inFlight /\ ack \in Outcomes(id)
    /\ Retire(snapshot, claims, acks, inFlight \ {id})
    /\ unacked' = unacked \ {id}
    /\ Misread(id, ack)
    /\ UNCHANGED <<snapshot, native, superseded, onTheWay, applied, effects>>

\* request() answers: the rest of _sendOnce() and whenComplete().
Finish(id, ack) ==
    LET acks == [receipts EXCEPT ![id] = IF ack = "refused" THEN @ ELSE ack]
        claims == [claimedDigests EXCEPT ![id.scope] = IF acks[id] = "none" THEN NoBytes ELSE @] IN
    /\ id \in inFlight /\ ack \in Outcomes(id)
    /\ Retire(snapshot, claims, acks, inFlight \ {id})
    /\ unacked' = unacked \ {id}
    /\ Misread(id, ack)
    /\ UNCHANGED <<snapshot, native, superseded, onTheWay, applied, effects>>

-----------------------------------------------------------------------------
(* The connection and the glasses.                                         *)

\* The native side acts on a write: it is refused, the glasses refuse it, or
\* it takes effect; writes of another authority are always refused.
NativeWrite(id) ==
    /\ id \in onTheWay
    /\ onTheWay' = onTheWay \ {id}
    /\ \/ UNCHANGED <<unacked, applied, effects>>
       \/ /\ IsCurrentScope(id.scope, native) /\ id.scope.side \in native.up
          /\ unacked' = unacked \cup ({id} \cap inFlight)
          /\ applied' = applied \cup {id}
          /\ effects' = IF AuthorityOf(id.scope) \in superseded THEN effects
                        ELSE [effects EXCEPT ![id.scope] = @ + 1]
    /\ UNCHANGED <<snapshot, native, superseded, authority, misread>>

\* connectToGlasses(): the snapshot names the pair at once; the native side may
\* refuse and keep the connection it has.
SelectPair(p) ==
    /\ Publish([snapshot EXCEPT !.pair = p, !.up = {}])
    /\ UNCHANGED <<native, glasses, misread>>

\* A new connection: the links of the former one are closed, and what is on the
\* way will be refused for naming it.
GlassesConnected(p) ==
    /\ native.generation < MaxGeneration
    /\ native' = [generation |-> native.generation + 1, pair |-> p, up |-> Sides]
    /\ Publish(native')
    /\ onTheWay' = {}
    /\ UNCHANGED <<unacked, applied, effects, misread>>

\* A leg is lost, also of a connection that Dart meant to replace: the snapshot
\* names the pair that is connected again.
GlassesDisconnected(side) ==
    /\ side \in native.up
    /\ native' = [native EXCEPT !.up = @ \ {side}]
    /\ Publish(native')
    /\ UNCHANGED <<glasses, misread>>

ConnectionNext ==
    \/ \E id \in Identity : NativeWrite(id)
    \/ \E p \in Pairs : SelectPair(p) \/ GlassesConnected(p)
    \/ \E side \in LossyLegs : GlassesDisconnected(side)

\* The transport with arbitrary callers.
G1Next ==
    \/ \E side \in Sides, key \in Keys, bytes \in Bytes : Start(side, key, bytes)
    \/ \E id \in Identity, ack \in {"accepted", "uncertain", "refused"} : Finish(id, ack)
    \/ ConnectionNext

G1Spec == G1Init /\ [][G1Next]_g1Vars

-----------------------------------------------------------------------------
(* Properties                                                              *)

\* In an authority that was never left, what is sent under a key takes effect
\* on a leg once, and once more for each response that was misread: not again
\* after a timeout or a late write, and not with other bytes.
AppliedOncePerScope ==
    \A s \in Scope : AuthorityOf(s) \notin superseded => effects[s] <= 1 + misread[s]

\* The authority table: what is in flight or answered is claimed for its bytes,
\* entries of former connections last no longer than their operation, a claim
\* stands for one or the other, and there are never too many.
AuthorityTable ==
    /\ \A id \in Identity : id \in inFlight \/ receipts[id] # "none" =>
           claimedDigests[id.scope] = id.bytes
    /\ \A s \in Claimed :
           /\ IsCurrentScope(s, snapshot) \/ HasInFlight(s, inFlight)
           /\ \E id \in Identity : id.scope = s /\ (id \in inFlight \/ receipts[id] # "none")
    /\ Cardinality(Claimed) <= MaxAuthorityEntries

=============================================================================
