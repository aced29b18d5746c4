--------------------------- MODULE DualLegProofs ---------------------------
(* Proofs about EvenG1Transport and DualLegCoordinator, for every set of   *)
(* callers, keys, bytes and pairs, every number of reconnections and every *)
(* capacity of the authority table.                                        *)
EXTENDS DualLegCoordinator, FiniteSetTheorems, TLAPS

-----------------------------------------------------------------------------
(* The invariant of the transport                                          *)

Held(id) == id \in inFlight \/ receipts[id] # "none"
Left(id) == AuthorityOf(id.scope) \in superseded

\* What is in flight or answered is claimed, for its bytes.
HeldIsClaimed == \A id \in Identity : Held(id) => claimedDigests[id.scope] = id.bytes

\* A claim stands for something, of this connection or still in flight.
ClaimStandsForSomething ==
    \A s \in Scope : claimedDigests[s] # NoBytes =>
        /\ IsCurrentScope(s, snapshot) \/ HasInFlight(s, inFlight)
        /\ \E id \in Identity : id.scope = s /\ Held(id)

\* In an authority that was not left, a write that may still be made is held, and
\* the authority is the current one.
WritesAreHeld ==
    \A id \in Identity : ~Left(id) =>
        /\ id \in onTheWay => Held(id)
        /\ Held(id) => IsCurrentScope(id.scope, snapshot)

\* An operation writes once: each effect of the scope was misread as a refusal,
\* but for the one of an operation that holds the scope and has made its write.
WritesOnce ==
    /\ \A s \in Scope : AuthorityOf(s) \notin superseded =>
           /\ effects[s] <= 1 + misread[s]
           /\ claimedDigests[s] = NoBytes => effects[s] <= misread[s]
    /\ \A id \in Identity : ~Left(id) =>
           /\ id \in onTheWay => effects[id.scope] <= misread[id.scope] /\ id \notin unacked
           /\ id \in inFlight \ unacked => effects[id.scope] <= misread[id.scope]

TableIsBounded == IsFiniteSet(Claimed) /\ Cardinality(Claimed) <= MaxAuthorityEntries

G1Invariant ==
    /\ G1TypeOK /\ HeldIsClaimed /\ ClaimStandsForSomething
    /\ WritesAreHeld /\ WritesOnce /\ TableIsBounded

-----------------------------------------------------------------------------
(* Tables                                                                  *)

LEMMA IdentityParts ==
    ASSUME NEW id \in Identity
    PROVE  id.scope \in Scope /\ id.bytes \in Bytes /\ id.bytes # NoBytes
  BY G1Assumption DEF Identity

LEMMA SameIdentity ==
    ASSUME NEW i \in Identity, NEW j \in Identity, i.scope = j.scope, i.bytes = j.bytes
    PROVE  i = j
  BY DEF Identity

\* Retirement drops claims of former connections with nothing in flight, and
\* the receipts that belong to them; everything else stays.
LEMMA RetireDrops ==
    ASSUME NEW connection, NEW claims \in [Scope -> Bytes \cup {NoBytes}],
           NEW acks \in [Identity -> {"none", "accepted", "uncertain"}],
           NEW ids \in SUBSET Identity,
           Retire(connection, claims, acks, ids)
    PROVE  /\ claimedDigests' \in [Scope -> Bytes \cup {NoBytes}]
           /\ receipts' \in [Identity -> {"none", "accepted", "uncertain"}]
           /\ inFlight' = ids
           /\ \A s \in Scope :
                 /\ claimedDigests'[s] \in {claims[s], NoBytes}
                 /\ IsCurrentScope(s, connection) \/ HasInFlight(s, ids) =>
                        claimedDigests'[s] = claims[s]
                 /\ claimedDigests'[s] # NoBytes =>
                        IsCurrentScope(s, connection) \/ HasInFlight(s, ids)
           /\ \A id \in Identity :
                 /\ receipts'[id] \in {acks[id], "none"}
                 /\ claimedDigests'[id.scope] = claims[id.scope] /\ claims[id.scope] # NoBytes
                        => receipts'[id] = acks[id]
                 /\ claimedDigests'[id.scope] # claims[id.scope] => receipts'[id] = "none"
  <1> DEFINE retired == {s \in Scope : /\ claims[s] # NoBytes
                                       /\ ~IsCurrentScope(s, connection)
                                       /\ ~HasInFlight(s, ids)}
  <1>1. /\ claimedDigests' = [s \in Scope |-> IF s \in retired THEN NoBytes ELSE claims[s]]
        /\ receipts' = [id \in Identity |-> IF id.scope \in retired THEN "none" ELSE acks[id]]
        /\ inFlight' = ids
    BY DEF Retire
  <1>2. \A s \in Scope : s \in retired <=> /\ claims[s] # NoBytes
                                           /\ ~IsCurrentScope(s, connection)
                                           /\ ~HasInFlight(s, ids)
    OBVIOUS
  <1> HIDE DEF retired
  <1>3. \A id \in Identity : id.scope \in Scope
    BY IdentityParts
  <1>4. /\ claimedDigests' \in [Scope -> Bytes \cup {NoBytes}]
        /\ receipts' \in [Identity -> {"none", "accepted", "uncertain"}]
    BY <1>1
  <1>5. ASSUME NEW s \in Scope
        PROVE  /\ claimedDigests'[s] \in {claims[s], NoBytes}
               /\ IsCurrentScope(s, connection) \/ HasInFlight(s, ids) =>
                      claimedDigests'[s] = claims[s]
               /\ claimedDigests'[s] # NoBytes =>
                      IsCurrentScope(s, connection) \/ HasInFlight(s, ids)
    BY <1>1, <1>2
  <1>6. ASSUME NEW id \in Identity
        PROVE  /\ receipts'[id] \in {acks[id], "none"}
               /\ claimedDigests'[id.scope] = claims[id.scope] /\ claims[id.scope] # NoBytes
                      => receipts'[id] = acks[id]
               /\ claimedDigests'[id.scope] # claims[id.scope] => receipts'[id] = "none"
    BY <1>1, <1>2, <1>3
  <1> QED BY <1>1, <1>4, <1>5, <1>6

\* Claims that are only dropped leave the table bounded.
LEMMA FewerClaims ==
    ASSUME TableIsBounded, G1Assumption,
           \A s \in Scope : claimedDigests'[s] # NoBytes => claimedDigests[s] # NoBytes
    PROVE  TableIsBounded'
  <1>1. Claimed' \subseteq Claimed
    BY DEF Claimed
  <1>2. IsFiniteSet(Claimed') /\ Cardinality(Claimed') <= Cardinality(Claimed)
    BY <1>1, FS_Subset DEF TableIsBounded
  <1>3. Cardinality(Claimed) \in Nat /\ Cardinality(Claimed') \in Nat
    BY <1>2, FS_CardinalityType DEF TableIsBounded
  <1> QED BY <1>2, <1>3, G1Assumption DEF TableIsBounded

-----------------------------------------------------------------------------
(* Steps of the transport                                                  *)

LEMMA G1InitEstablishes ==
    ASSUME G1Assumption, G1Init
    PROVE  G1Invariant
  <1>1. G1TypeOK
    BY G1Assumption DEF G1Init, G1TypeOK, NoConnection, Connection
  <1>2. \A id \in Identity : id.scope \in Scope
    BY IdentityParts
  <1>3. HeldIsClaimed /\ ClaimStandsForSomething /\ WritesAreHeld /\ WritesOnce
    BY <1>2 DEF G1Init, HeldIsClaimed, ClaimStandsForSomething, WritesAreHeld, WritesOnce, Held
  <1>4. Claimed = {}
    BY DEF G1Init, Claimed
  <1>5. TableIsBounded
    BY <1>4, FS_EmptySet, G1Assumption DEF TableIsBounded
  <1> QED BY <1>1, <1>3, <1>5 DEF G1Invariant

\* An admitted identity had no effect in its authority, unless that was left.
LEMMA StartPreserves ==
    ASSUME G1Assumption, G1Invariant, NEW side \in Sides, NEW key \in Keys, NEW bytes \in Bytes,
           Start(side, key, bytes)
    PROVE  G1Invariant'
  <1> DEFINE id == IdentityNow(side, key, bytes)
  <1>1. id \in Identity /\ id.scope = ScopeNow(side, key) /\ id.bytes = bytes
        /\ id.scope \in Scope /\ IsCurrentScope(id.scope, snapshot)
    <2>1. snapshot.generation \in 1..MaxGeneration /\ snapshot.pair \in Pairs
      BY G1Assumption DEF Start, AdmitsNow, RejectsNow, HasAuthoritativeIdentity, G1Invariant,
            G1TypeOK, Connection
    <2> QED BY <2>1 DEF IdentityNow, ScopeNow, Identity, Scope, IsCurrentScope, AuthorityOf
  <1>2. /\ claimedDigests[id.scope] \in {NoBytes, bytes}
        /\ receipts[id] = "none" /\ id \notin inFlight
    BY <1>1 DEF Start, AdmitsNow, ThrowsNow, RepliesNow, JoinsNow
  <1>3. /\ claimedDigests' = [claimedDigests EXCEPT ![id.scope] = bytes]
        /\ inFlight' = inFlight \cup {id}
        /\ onTheWay' \in {onTheWay, onTheWay \cup {id}}
        /\ UNCHANGED <<snapshot, native, superseded, receipts, unacked, applied, effects, misread>>
    BY DEF Start
  <1> HIDE DEF id
  <1>4. G1TypeOK'
    BY <1>1, <1>3 DEF G1Invariant, G1TypeOK
  <1>5. claimedDigests'[id.scope] = bytes /\ bytes # NoBytes
        /\ \A s \in Scope \ {id.scope} : claimedDigests'[s] = claimedDigests[s]
    BY <1>1, <1>3, G1Assumption DEF G1Invariant, G1TypeOK
  <1>6. \A j \in Identity : Held(j)' <=> Held(j) \/ j = id
    BY <1>1, <1>3 DEF Held
  <1>7. HeldIsClaimed'
    BY <1>1, <1>2, <1>5, <1>6, IdentityParts DEF G1Invariant, HeldIsClaimed
  <1>8. ClaimStandsForSomething'
    <2> SUFFICES ASSUME NEW s \in Scope, claimedDigests'[s] # NoBytes
                 PROVE  /\ IsCurrentScope(s, snapshot') \/ HasInFlight(s, inFlight')
                        /\ \E j \in Identity : j.scope = s /\ Held(j)'
      BY DEF ClaimStandsForSomething
    <2>1. CASE s = id.scope
      BY <2>1, <1>1, <1>3, <1>6
    <2>2. CASE s # id.scope
      BY <2>2, <1>3, <1>5, <1>6 DEF G1Invariant, ClaimStandsForSomething, HasInFlight
    <2> QED BY <2>1, <2>2
  <1>9. /\ claimedDigests[id.scope] = NoBytes
        /\ \A j \in Identity : j.scope = id.scope => ~Held(j)
    <2>1. ASSUME NEW j \in Identity, j.scope = id.scope, Held(j)
          PROVE  FALSE
      <3>1. claimedDigests[id.scope] = j.bytes /\ j.bytes # NoBytes
        BY <2>1, IdentityParts DEF G1Invariant, HeldIsClaimed
      <3>2. j = id
        BY <3>1, <2>1, <1>1, <1>2, SameIdentity
      <3> QED BY <3>2, <2>1, <1>2 DEF Held
    <2> QED BY <2>1, <1>1 DEF G1Invariant, ClaimStandsForSomething
  <1>10. WritesAreHeld'
    BY <1>1, <1>3, <1>6 DEF G1Invariant, WritesAreHeld, Left
  <1>11. WritesOnce'
    <2>1. ASSUME NEW s \in Scope, AuthorityOf(s) \notin superseded
          PROVE  /\ effects[s] <= 1 + misread[s]
                 /\ claimedDigests'[s] = NoBytes => effects[s] <= misread[s]
      BY <2>1, <1>5 DEF G1Invariant, WritesOnce
    <2>2. ASSUME NEW j \in Identity, ~Left(j), j \in onTheWay' \/ j \in inFlight' \ unacked
          PROVE  effects[j.scope] <= misread[j.scope] /\ (j \in onTheWay' => j \notin unacked)
      <3>1. CASE j = id
        BY <3>1, <2>2, <1>1, <1>2, <1>9 DEF G1Invariant, G1TypeOK, WritesOnce, Left
      <3>2. CASE j # id
        BY <3>2, <2>2, <1>3 DEF G1Invariant, WritesOnce
      <3> QED BY <3>1, <3>2
    <2> QED BY <2>1, <2>2, <1>3 DEF WritesOnce, Left
  <1>12. TableIsBounded'
    <2>1. CASE claimedDigests[id.scope] # NoBytes
      <3>1. \A s \in Scope : claimedDigests'[s] # NoBytes => claimedDigests[s] # NoBytes
        BY <2>1, <1>5
      <3> QED BY <3>1, FewerClaims DEF G1Invariant
    <2>2. CASE claimedDigests[id.scope] = NoBytes
      <3>1. Cardinality(Claimed) \in Nat /\ Cardinality(Claimed) < MaxAuthorityEntries
        BY <2>2, <1>1, FS_CardinalityType, G1Assumption
           DEF Start, FullNow, G1Invariant, TableIsBounded
      <3>2. Claimed' = Claimed \cup {id.scope} /\ id.scope \notin Claimed
        BY <2>2, <1>1, <1>5 DEF Claimed
      <3>3. IsFiniteSet(Claimed') /\ Cardinality(Claimed') = Cardinality(Claimed) + 1
        BY <3>2, FS_AddElement DEF G1Invariant, TableIsBounded
      <3> QED BY <3>1, <3>3, G1Assumption DEF TableIsBounded
    <2> QED BY <2>1, <2>2
  <1> QED BY <1>4, <1>7, <1>8, <1>10, <1>11, <1>12 DEF G1Invariant

LEMMA FinishPreserves ==
    ASSUME G1Assumption, G1Invariant, NEW id \in Identity,
           NEW ack \in {"accepted", "uncertain", "refused"}, Finish(id, ack)
    PROVE  G1Invariant'
  <1> DEFINE acks == [receipts EXCEPT ![id] = IF ack = "refused" THEN @ ELSE ack]
             claims == [claimedDigests EXCEPT
                          ![id.scope] = IF acks[id] = "none" THEN NoBytes ELSE @]
             ids == inFlight \ {id}
  <1>1. /\ id \in inFlight /\ ack \in Outcomes(id)
        /\ Retire(snapshot, claims, acks, ids)
        /\ unacked' = unacked \ {id}
        /\ Misread(id, ack)
        /\ UNCHANGED <<snapshot, native, superseded, onTheWay, applied, effects>>
    BY DEF Finish
  <1>2. acks \in [Identity -> {"none", "accepted", "uncertain"}]
        /\ (ack = "refused" => acks[id] = receipts[id]) /\ (ack # "refused" => acks[id] = ack)
        /\ \A j \in Identity \ {id} : acks[j] = receipts[j]
    BY DEF G1Invariant, G1TypeOK
  <1>3. claims \in [Scope -> Bytes \cup {NoBytes}]
        /\ (acks[id] = "none" => claims[id.scope] = NoBytes)
        /\ (acks[id] # "none" => claims[id.scope] = claimedDigests[id.scope])
        /\ \A s \in Scope \ {id.scope} : claims[s] = claimedDigests[s]
    BY IdentityParts DEF G1Invariant, G1TypeOK
  <1>4. ids \in SUBSET Identity
    BY DEF G1Invariant, G1TypeOK
  <1> HIDE DEF acks, claims, ids
  <1>5. /\ claimedDigests' \in [Scope -> Bytes \cup {NoBytes}]
        /\ receipts' \in [Identity -> {"none", "accepted", "uncertain"}]
        /\ inFlight' = ids
        /\ \A s \in Scope :
              /\ claimedDigests'[s] \in {claims[s], NoBytes}
              /\ IsCurrentScope(s, snapshot) \/ HasInFlight(s, ids) =>
                     claimedDigests'[s] = claims[s]
              /\ claimedDigests'[s] # NoBytes =>
                     IsCurrentScope(s, snapshot) \/ HasInFlight(s, ids)
        /\ \A j \in Identity :
              /\ receipts'[j] \in {acks[j], "none"}
              /\ claimedDigests'[j.scope] = claims[j.scope] /\ claims[j.scope] # NoBytes
                     => receipts'[j] = acks[j]
              /\ claimedDigests'[j.scope] # claims[j.scope] => receipts'[j] = "none"
    BY <1>1, <1>2, <1>3, <1>4, RetireDrops
  <1>6. claimedDigests[id.scope] = id.bytes /\ id.bytes # NoBytes /\ id.scope \in Scope
    BY <1>1, IdentityParts DEF G1Invariant, HeldIsClaimed, Held
  <1>7. \A j \in Identity : j.scope = id.scope /\ j # id => ~Held(j)
    BY <1>6, SameIdentity DEF G1Invariant, HeldIsClaimed
  <1>8. /\ misread' \in [Scope -> 0..MaxMisread]
        /\ \A s \in Scope \ {id.scope} : misread'[s] = misread[s]
        /\ misread'[id.scope] = IF ack = "refused" /\ id \in unacked
                                THEN misread[id.scope] + 1 ELSE misread[id.scope]
    BY <1>1, <1>6, G1Assumption DEF Misread, Outcomes, G1Invariant, G1TypeOK
  <1>14. G1TypeOK'
    BY <1>1, <1>4, <1>5, <1>8 DEF G1Invariant, G1TypeOK, ids
  <1>9. HeldIsClaimed'
    <2> SUFFICES ASSUME NEW j \in Identity, Held(j)'
                 PROVE  claimedDigests'[j.scope] = j.bytes
      BY DEF HeldIsClaimed
    <2>1. j.scope \in Scope /\ j.bytes # NoBytes
      BY IdentityParts
    <2>2. CASE j = id
      <3>1. receipts'[id] # "none" /\ acks[id] # "none"
        BY <2>2, <1>5 DEF Held, ids
      <3>2. claims[id.scope] = id.bytes
        BY <3>1, <1>3, <1>6
      <3> QED BY <3>1, <3>2, <2>2, <1>5, <1>6
    <2>3. CASE j # id
      <3>1. Held(j)
        BY <2>3, <1>2, <1>5 DEF Held, ids
      <3>2. claimedDigests[j.scope] = j.bytes /\ j.scope # id.scope
        BY <3>1, <2>3, <1>7 DEF G1Invariant, HeldIsClaimed
      <3>3. claims[j.scope] = j.bytes
        BY <3>2, <2>1, <1>3
      <3>4. CASE j \in inFlight'
        BY <3>3, <3>4, <2>1, <1>5 DEF HasInFlight
      <3>5. CASE receipts'[j] # "none"
        BY <3>3, <3>5, <2>1, <1>5
      <3> QED BY <3>4, <3>5 DEF Held
    <2> QED BY <2>2, <2>3
  <1>10. ClaimStandsForSomething'
    <2> SUFFICES ASSUME NEW s \in Scope, claimedDigests'[s] # NoBytes
                 PROVE  /\ IsCurrentScope(s, snapshot') \/ HasInFlight(s, inFlight')
                        /\ \E j \in Identity : j.scope = s /\ Held(j)'
      BY DEF ClaimStandsForSomething
    <2>1. claimedDigests'[s] = claims[s] /\ claims[s] # NoBytes
      BY <1>5
    <2>2. IsCurrentScope(s, snapshot') \/ HasInFlight(s, inFlight')
      BY <1>1, <1>5
    <2>3. CASE s = id.scope
      <3>1. acks[id] # "none" /\ receipts'[id] = acks[id]
        BY <2>1, <2>3, <1>3, <1>5
      <3> QED BY <3>1, <2>2, <2>3 DEF Held
    <2>4. CASE s # id.scope
      <3>1. PICK j \in Identity : j.scope = s /\ Held(j)
        BY <2>1, <2>4, <1>3 DEF G1Invariant, ClaimStandsForSomething
      <3>2. j # id /\ acks[j] = receipts[j] /\ (j \in inFlight => j \in ids)
        BY <3>1, <2>4, <1>2 DEF ids
      <3>3. Held(j)'
        BY <3>1, <3>2, <2>1, <1>5 DEF Held
      <3> QED BY <3>1, <3>3, <2>2
    <2> QED BY <2>2, <2>3, <2>4
  <1>11. WritesAreHeld'
    <2> SUFFICES ASSUME NEW j \in Identity, ~Left(j)
                 PROVE  /\ j \in onTheWay => Held(j)'
                        /\ Held(j)' => IsCurrentScope(j.scope, snapshot)
      BY <1>1 DEF WritesAreHeld, Left
    <2>1. Held(j)' => Held(j)
      BY <1>1, <1>2, <1>5 DEF Held, ids
    <2>2. ASSUME j \in onTheWay PROVE Held(j)'
      <3>1. Held(j) /\ IsCurrentScope(j.scope, snapshot) /\ j.scope \in Scope
        BY <2>2, IdentityParts DEF G1Invariant, WritesAreHeld
      <3>2. claimedDigests'[j.scope] = claims[j.scope]
        BY <3>1, <1>5
      <3>3. CASE j = id
        <4>1. ack # "refused"
          BY <2>2, <3>3, <1>1 DEF Outcomes, Responds, G1Invariant, WritesOnce
        <4>2. acks[id] # "none" /\ claims[id.scope] # NoBytes
          BY <4>1, <1>2, <1>3, <1>6
        <4> QED BY <3>2, <3>3, <4>2, <1>5 DEF Held
      <3>4. CASE j # id
        <4>1. j.scope # id.scope /\ claims[j.scope] = j.bytes /\ j.bytes # NoBytes
          BY <3>1, <3>4, <1>3, <1>7, IdentityParts DEF G1Invariant, HeldIsClaimed
        <4> QED BY <3>1, <3>2, <3>4, <4>1, <1>2, <1>5 DEF Held, ids
      <3> QED BY <3>3, <3>4
    <2> QED BY <2>1, <2>2 DEF G1Invariant, WritesAreHeld
  <1>12. WritesOnce'
    <2> /\ effects \in [Scope -> Nat] /\ misread \in [Scope -> Nat]
      BY G1Assumption DEF G1Invariant, G1TypeOK
    <2>1. ASSUME NEW s \in Scope, AuthorityOf(s) \notin superseded
          PROVE  /\ effects[s] <= 1 + misread'[s]
                 /\ claimedDigests'[s] = NoBytes => effects[s] <= misread'[s]
      <3>1. effects[s] <= 1 + misread[s] /\ (claimedDigests[s] = NoBytes => effects[s] <= misread[s])
        BY <2>1 DEF G1Invariant, WritesOnce
      <3>2. CASE s # id.scope
        <4>1. claimedDigests'[s] = NoBytes => claimedDigests[s] = NoBytes
          <5>1. ASSUME claimedDigests[s] # NoBytes PROVE IsCurrentScope(s, snapshot)
            BY <5>1, <2>1 DEF G1Invariant, ClaimStandsForSomething, WritesAreHeld, Left
          <5> QED BY <5>1, <3>2, <1>3, <1>5
        <4> QED BY <4>1, <3>1, <3>2, <1>8
      <3>3. CASE s = id.scope
        <4>1. IsCurrentScope(s, snapshot)
          BY <3>3, <2>1, <1>1 DEF G1Invariant, WritesAreHeld, Left, Held
        <4>2. claimedDigests'[s] = NoBytes => acks[id] = "none"
          BY <4>1, <3>3, <1>3, <1>5, <1>6
        <4>3. acks[id] = "none" => ack = "refused"
          BY <1>2
        <4>4. ack = "refused" => effects[s] <= misread'[s]
          <5>1. CASE id \in unacked
            BY <5>1, <3>1, <3>3, <1>8
          <5>2. CASE id \notin unacked
            BY <5>2, <2>1, <3>3, <1>1, <1>8 DEF G1Invariant, WritesOnce, Left
          <5> QED BY <5>1, <5>2
        <4> QED BY <4>2, <4>3, <4>4, <3>1, <3>3, <1>8
      <3> QED BY <3>2, <3>3
    <2>2. ASSUME NEW j \in Identity, ~Left(j), j \in onTheWay \/ j \in inFlight' \ unacked'
          PROVE  effects[j.scope] <= misread'[j.scope] /\ (j \in onTheWay => j \notin unacked')
      <3>1. j.scope \in Scope /\ misread[j.scope] <= misread'[j.scope]
        BY <1>8, IdentityParts
      <3>2. j \in onTheWay \/ j \in inFlight \ unacked
        BY <2>2, <1>1, <1>5 DEF ids
      <3>3. effects[j.scope] <= misread[j.scope] /\ (j \in onTheWay => j \notin unacked)
        BY <2>2, <3>2 DEF G1Invariant, WritesOnce
      <3>4. effects[j.scope] \in Nat /\ misread[j.scope] \in Nat /\ misread'[j.scope] \in Nat
        BY <3>1, <1>8, G1Assumption
      <3> QED BY <3>1, <3>3, <3>4, <1>1
    <2> QED BY <2>1, <2>2, <1>1 DEF WritesOnce, Left
  <1>13. TableIsBounded'
    <2>1. \A s \in Scope : claimedDigests'[s] # NoBytes => claimedDigests[s] # NoBytes
      BY <1>3, <1>5
    <2> QED BY <2>1, FewerClaims DEF G1Invariant
  <1> QED BY <1>14, <1>9, <1>10, <1>11, <1>12, <1>13 DEF G1Invariant

\* Nothing is in flight that was not, and claims and receipts are only dropped.
LEMMA PublishDrops ==
    ASSUME G1TypeOK, NEW connection, Publish(connection)
    PROVE  /\ claimedDigests' \in [Scope -> Bytes \cup {NoBytes}]
           /\ receipts' \in [Identity -> {"none", "accepted", "uncertain"}]
           /\ inFlight' = inFlight
           /\ \A s \in Scope :
                 /\ claimedDigests'[s] \in {claimedDigests[s], NoBytes}
                 /\ IsCurrentScope(s, connection) \/ HasInFlight(s, inFlight) =>
                        claimedDigests'[s] = claimedDigests[s]
                 /\ claimedDigests'[s] # NoBytes =>
                        IsCurrentScope(s, connection) \/ HasInFlight(s, inFlight)
           /\ \A j \in Identity :
                 /\ receipts'[j] \in {receipts[j], "none"}
                 /\ claimedDigests'[j.scope] = claimedDigests[j.scope]
                      /\ claimedDigests[j.scope] # NoBytes => receipts'[j] = receipts[j]
                 /\ claimedDigests'[j.scope] # claimedDigests[j.scope] => receipts'[j] = "none"
  <1>1. Retire(connection, claimedDigests, receipts, inFlight)
    BY DEF Publish
  <1>2. /\ claimedDigests \in [Scope -> Bytes \cup {NoBytes}]
        /\ receipts \in [Identity -> {"none", "accepted", "uncertain"}]
        /\ inFlight \in SUBSET Identity
    BY DEF G1TypeOK
  <1> QED BY <1>1, <1>2, RetireDrops

\* A published connection drops claims of the authority that is left only.
LEMMA PublishPreserves ==
    ASSUME G1Assumption, G1Invariant, NEW connection \in Connection, Publish(connection),
           native' \in Connection,
           onTheWay' \subseteq onTheWay, UNCHANGED <<unacked, applied, effects, misread>>
    PROVE  G1Invariant'
  <1>1. /\ claimedDigests' \in [Scope -> Bytes \cup {NoBytes}]
        /\ receipts' \in [Identity -> {"none", "accepted", "uncertain"}]
        /\ inFlight' = inFlight
        /\ \A s \in Scope :
              /\ claimedDigests'[s] \in {claimedDigests[s], NoBytes}
              /\ IsCurrentScope(s, connection) \/ HasInFlight(s, inFlight) =>
                     claimedDigests'[s] = claimedDigests[s]
              /\ claimedDigests'[s] # NoBytes =>
                     IsCurrentScope(s, connection) \/ HasInFlight(s, inFlight)
        /\ \A j \in Identity :
              /\ receipts'[j] \in {receipts[j], "none"}
              /\ claimedDigests'[j.scope] = claimedDigests[j.scope]
                   /\ claimedDigests[j.scope] # NoBytes => receipts'[j] = receipts[j]
              /\ claimedDigests'[j.scope] # claimedDigests[j.scope] => receipts'[j] = "none"
    BY PublishDrops DEF G1Invariant
  <1>2. /\ snapshot' = connection
        /\ superseded \subseteq superseded'
        /\ superseded' \subseteq superseded \cup {AuthorityOf(snapshot)}
        /\ HasAuthoritativeIdentity /\ AuthorityOf(snapshot) # AuthorityOf(connection)
               => AuthorityOf(snapshot) \in superseded'
    BY DEF Publish
  <1>3. G1TypeOK'
    <2>1. AuthorityOf(snapshot) \in (0..MaxGeneration) \X (Pairs \cup {Unselected})
      BY DEF AuthorityOf, G1Invariant, G1TypeOK, Connection
    <2> QED BY <2>1, <1>1, <1>2 DEF G1Invariant, G1TypeOK
  <1>4. \A j \in Identity : Held(j)' => Held(j)
    BY <1>1 DEF Held
  <1>5. HeldIsClaimed'
    <2> SUFFICES ASSUME NEW j \in Identity, Held(j)'
                 PROVE  claimedDigests'[j.scope] = j.bytes
      BY DEF HeldIsClaimed
    <2>1. claimedDigests[j.scope] = j.bytes /\ j.scope \in Scope
      BY <1>4, IdentityParts DEF G1Invariant, HeldIsClaimed
    <2> QED BY <2>1, <1>1 DEF Held, HasInFlight
  <1>6. ClaimStandsForSomething'
    <2> SUFFICES ASSUME NEW s \in Scope, claimedDigests'[s] # NoBytes
                 PROVE  \E j \in Identity : j.scope = s /\ Held(j)'
      BY <1>1, <1>2 DEF ClaimStandsForSomething
    <2>1. PICK j \in Identity : j.scope = s /\ Held(j)
      BY <1>1 DEF G1Invariant, ClaimStandsForSomething
    <2>2. Held(j)'
      BY <2>1, <1>1 DEF Held
    <2> QED BY <2>1, <2>2
  <1>7. ASSUME NEW j \in Identity, ~Left(j)', Held(j)
        PROVE  IsCurrentScope(j.scope, connection) /\ Held(j)'
    <2>1. ~Left(j) /\ IsCurrentScope(j.scope, snapshot) /\ j.scope \in Scope
      BY <1>2, <1>7, IdentityParts DEF Left, G1Invariant, WritesAreHeld
    <2>2. HasAuthoritativeIdentity
      BY <2>1, G1Assumption DEF IsCurrentScope, AuthorityOf, HasAuthoritativeIdentity, Scope
    <2>3. IsCurrentScope(j.scope, connection)
      BY <2>1, <2>2, <1>2, <1>7 DEF Left, IsCurrentScope
    <2>4. claimedDigests'[j.scope] = claimedDigests[j.scope] /\ claimedDigests[j.scope] # NoBytes
      BY <2>1, <2>3, <1>1, <1>7, IdentityParts DEF G1Invariant, HeldIsClaimed
    <2> QED BY <2>3, <2>4, <1>1, <1>7 DEF Held
  <1>8. WritesAreHeld'
    <2> SUFFICES ASSUME NEW j \in Identity, ~Left(j)'
                 PROVE  /\ j \in onTheWay' => Held(j)'
                        /\ Held(j)' => IsCurrentScope(j.scope, connection)
      BY <1>2 DEF WritesAreHeld
    <2>1. ~Left(j)
      BY <1>2 DEF Left
    <2>2. j \in onTheWay' => Held(j)
      BY <2>1 DEF G1Invariant, WritesAreHeld
    <2> QED BY <2>2, <1>4, <1>7
  <1>9. WritesOnce'
    <2>1. ASSUME NEW s \in Scope, AuthorityOf(s) \notin superseded', claimedDigests[s] # NoBytes
          PROVE  claimedDigests'[s] # NoBytes
      <3>1. PICK j \in Identity : j.scope = s /\ Held(j)
        BY <2>1 DEF G1Invariant, ClaimStandsForSomething
      <3> QED BY <3>1, <2>1, <1>1, <1>7 DEF Left
    <2>2. \A s \in Scope : AuthorityOf(s) \notin superseded' => AuthorityOf(s) \notin superseded
      BY <1>2
    <2>3. ASSUME NEW s \in Scope, AuthorityOf(s) \notin superseded'
          PROVE  /\ effects[s] <= 1 + misread[s]
                 /\ claimedDigests'[s] = NoBytes => effects[s] <= misread[s]
      BY <2>1, <2>2, <2>3 DEF G1Invariant, WritesOnce
    <2>4. ASSUME NEW j \in Identity, ~Left(j)', j \in onTheWay' \/ j \in inFlight \ unacked
          PROVE  effects[j.scope] <= misread[j.scope] /\ (j \in onTheWay' => j \notin unacked)
      BY <2>4, <1>2 DEF G1Invariant, WritesOnce, Left
    <2> QED BY <2>3, <2>4, <1>1 DEF WritesOnce
  <1>10. TableIsBounded'
    <2>1. \A s \in Scope : claimedDigests'[s] # NoBytes => claimedDigests[s] # NoBytes
      BY <1>1
    <2> QED BY <2>1, FewerClaims DEF G1Invariant
  <1> QED BY <1>3, <1>5, <1>6, <1>8, <1>9, <1>10 DEF G1Invariant

LEMMA NativeWritePreserves ==
    ASSUME G1Assumption, G1Invariant, NEW id \in Identity, NativeWrite(id)
    PROVE  G1Invariant'
  <1>1. /\ id \in onTheWay /\ onTheWay' = onTheWay \ {id}
        /\ UNCHANGED <<snapshot, superseded, claimedDigests, receipts, inFlight, native, misread>>
    BY DEF NativeWrite, authority
  <1>2. \/ UNCHANGED <<unacked, applied, effects>>
        \/ /\ unacked' = unacked \cup ({id} \cap inFlight)
           /\ applied' = applied \cup {id}
           /\ effects' = IF AuthorityOf(id.scope) \in superseded THEN effects
                         ELSE [effects EXCEPT ![id.scope] = @ + 1]
    BY DEF NativeWrite
  <1>3. \A j \in Identity : Held(j)' <=> Held(j)
    BY <1>1 DEF Held
  <1>4. G1TypeOK'
    BY <1>1, <1>2, IdentityParts DEF G1Invariant, G1TypeOK
  <1>5. HeldIsClaimed' /\ ClaimStandsForSomething'
    BY <1>1, <1>3 DEF G1Invariant, HeldIsClaimed, ClaimStandsForSomething
  <1>6. ~Left(id) => /\ Held(id) /\ claimedDigests[id.scope] = id.bytes /\ id.bytes # NoBytes
                     /\ effects[id.scope] <= misread[id.scope]
    BY <1>1, IdentityParts DEF G1Invariant, WritesOnce, WritesAreHeld, HeldIsClaimed
  <1>7. WritesAreHeld'
    BY <1>1, <1>3 DEF G1Invariant, WritesAreHeld, Left
  <1>8. WritesOnce'
    <2>1. CASE UNCHANGED <<unacked, applied, effects>>
      BY <2>1, <1>1 DEF G1Invariant, WritesOnce, Left
    <2>2. CASE Left(id) /\ effects' = effects /\ unacked' = unacked \cup ({id} \cap inFlight)
      BY <2>2, <1>1 DEF G1Invariant, WritesOnce, Left
    <2>3. CASE /\ ~Left(id) /\ effects' = [effects EXCEPT ![id.scope] = @ + 1]
               /\ unacked' = unacked \cup ({id} \cap inFlight)
      <3>1. /\ id.scope \in Scope /\ effects \in [Scope -> Nat] /\ misread \in [Scope -> Nat]
            /\ effects'[id.scope] = effects[id.scope] + 1
            /\ \A s \in Scope \ {id.scope} : effects'[s] = effects[s]
        BY <2>3, IdentityParts, G1Assumption DEF G1Invariant, G1TypeOK
      <3>2. ASSUME NEW s \in Scope, AuthorityOf(s) \notin superseded
            PROVE  /\ effects'[s] <= 1 + misread[s]
                   /\ claimedDigests[s] = NoBytes => effects'[s] <= misread[s]
        BY <3>1, <3>2, <2>3, <1>6 DEF G1Invariant, WritesOnce
      <3>3. ASSUME NEW j \in Identity, ~Left(j), j # id, j \in onTheWay \/ j \in inFlight
            PROVE  j.scope # id.scope
        <4>1. Held(j)
          BY <3>3 DEF G1Invariant, WritesAreHeld, Held
        <4> QED BY <4>1, <3>3, <2>3, <1>6, SameIdentity DEF G1Invariant, HeldIsClaimed
      <3>4. ASSUME NEW j \in Identity, ~Left(j), j \in onTheWay' \/ j \in inFlight \ unacked'
            PROVE  effects'[j.scope] <= misread[j.scope] /\ (j \in onTheWay' => j \notin unacked')
        <4>1. j # id /\ j.scope \in Scope
          BY <3>4, <2>3, <1>1, IdentityParts
        <4>2. effects[j.scope] <= misread[j.scope] /\ (j \in onTheWay => j \notin unacked)
          BY <4>1, <3>4, <2>3, <1>1 DEF G1Invariant, WritesOnce
        <4> QED BY <4>1, <4>2, <3>1, <3>3, <3>4, <2>3, <1>1
      <3> QED BY <3>2, <3>4, <1>1 DEF WritesOnce, Left
    <2> QED BY <2>1, <2>2, <2>3, <1>2 DEF Left
  <1>9. TableIsBounded'
    BY <1>1 DEF G1Invariant, TableIsBounded, Claimed
  <1> QED BY <1>4, <1>5, <1>7, <1>8, <1>9 DEF G1Invariant

LEMMA G1StepPreserves ==
    ASSUME G1Assumption, G1Invariant, [G1Next]_g1Vars
    PROVE  G1Invariant'
  <1>1. CASE UNCHANGED g1Vars
    BY <1>1 DEF g1Vars, authority, glasses, G1Invariant, G1TypeOK, HeldIsClaimed, Held, Left,
          ClaimStandsForSomething, WritesAreHeld, WritesOnce, TableIsBounded, Claimed
  <1>2. ASSUME NEW side \in Sides, NEW key \in Keys, NEW bytes \in Bytes, Start(side, key, bytes)
        PROVE  G1Invariant'
    BY <1>2, StartPreserves
  <1>3. ASSUME NEW id \in Identity, NEW ack \in {"accepted", "uncertain", "refused"},
               Finish(id, ack)
        PROVE  G1Invariant'
    BY <1>3, FinishPreserves
  <1>4. ASSUME NEW id \in Identity, NativeWrite(id)
        PROVE  G1Invariant'
    BY <1>4, NativeWritePreserves
  <1>5. ASSUME NEW p \in Pairs, SelectPair(p)
        PROVE  G1Invariant'
    <2>1. [snapshot EXCEPT !.pair = p, !.up = {}] \in Connection
      BY DEF G1Invariant, G1TypeOK, Connection
    <2> QED BY <2>1, <1>5, PublishPreserves DEF SelectPair, glasses, G1Invariant, G1TypeOK
  <1>6. ASSUME NEW p \in Pairs, GlassesConnected(p)
        PROVE  G1Invariant'
    <2>1. native' \in Connection
      BY <1>6, G1Assumption DEF GlassesConnected, G1Invariant, G1TypeOK, Connection
    <2> QED BY <2>1, <1>6, PublishPreserves DEF GlassesConnected
  <1>7. ASSUME NEW side \in LossyLegs, GlassesDisconnected(side)
        PROVE  G1Invariant'
    <2>1. native' \in Connection
      BY <1>7 DEF GlassesDisconnected, G1Invariant, G1TypeOK, Connection
    <2> QED BY <2>1, <1>7, PublishPreserves DEF GlassesDisconnected, glasses
  <1> QED BY <1>1, <1>2, <1>3, <1>4, <1>5, <1>6, <1>7 DEF G1Next, ConnectionNext

LEMMA InvariantImplies ==
    ASSUME G1Invariant
    PROVE  AppliedOncePerScope /\ AuthorityTable
  <1>2. AppliedOncePerScope
    BY DEF AppliedOncePerScope, G1Invariant, WritesOnce
  <1>3. AuthorityTable
    BY DEF AuthorityTable, Claimed, Held, G1Invariant, HeldIsClaimed, ClaimStandsForSomething,
          TableIsBounded
  <1> QED BY <1>2, <1>3

-----------------------------------------------------------------------------
(* The transport, and the coordinator over it                              *)

LEMMA G1InvariantHolds == G1Spec => []G1Invariant
  <1>1. G1Init => G1Invariant
    BY G1InitEstablishes, G1Assumption
  <1>2. G1Invariant /\ [G1Next]_g1Vars => G1Invariant'
    BY G1StepPreserves, G1Assumption
  <1> QED BY <1>1, <1>2, PTL DEF G1Spec

\* The coordinator is one of the transport's callers.
LEMMA DualStepIsTransportStep ==
    ASSUME [DualNext]_dualVars
    PROVE  [G1Next]_g1Vars
  <1>1. CASE UNCHANGED dualVars
    BY <1>1 DEF dualVars
  <1>2. ASSUME NEW c \in Sends, SendLeg(c)
        PROVE  [G1Next]_g1Vars
    <2>1. SideOf(c) \in Sides /\ KeyOf[c] \in Keys /\ BytesOf[c] \in Bytes
      BY DualLegAssumption DEF SideOf, Sides
    <2>2. UNCHANGED g1Vars \/ Start(SideOf(c), KeyOf[c], BytesOf[c])
      BY <1>2 DEF SendLeg
    <2> QED BY <2>1, <2>2 DEF G1Next
  <1>3. ASSUME NEW id \in Identity, NEW ack \in {"accepted", "uncertain", "refused"},
               LegAnswer(id, ack)
        PROVE  [G1Next]_g1Vars
    BY <1>3 DEF LegAnswer, G1Next
  <1>4. CASE ConnectionNext
    BY <1>4 DEF G1Next
  <1>5. ASSUME NEW c \in Sends,
               SendMirrored(c) \/ TryAgain(c) \/ LeftDecided(c) \/ RightDecided(c)
        PROVE  UNCHANGED g1Vars
    BY <1>5 DEF SendMirrored, TryAgain, LeftDecided, RightDecided
  <1>6. ASSUME NEW r \in Reconciles, ReconcileBegin(r) \/ ReconcileLeft(r) \/ ReconcileRight(r)
        PROVE  UNCHANGED g1Vars
    BY <1>6 DEF ReconcileBegin, ReconcileLeft, ReconcileRight
  <1> QED BY <1>1, <1>2, <1>3, <1>4, <1>5, <1>6 DEF DualNext

\* DualLegCoordinator uses EvenG1Transport as any caller may: what is proved of
\* the transport with arbitrary callers holds under it.
THEOREM CoordinatorIsACaller == DualSpec => G1Spec
  <1>1. DualInit => G1Init
    BY DEF DualInit
  <1>2. [DualNext]_dualVars => [G1Next]_g1Vars
    BY DualStepIsTransportStep
  <1> QED BY <1>1, <1>2, PTL DEF DualSpec, G1Spec

\* What is sent under a key takes effect on a leg once in an authority that is
\* never left, and once more for each response that was misread as a refusal,
\* whatever timeouts, late writes, retries and reconnections there are.
THEOREM AppliedOnce == DualSpec => []AppliedOncePerScope
  <1>1. G1Invariant => AppliedOncePerScope
    BY InvariantImplies
  <1> QED BY <1>1, G1InvariantHolds, CoordinatorIsACaller, PTL

\* The authority table holds what is in flight or answered, nothing of former
\* connections beyond their operations, and never more than its capacity.
THEOREM TableIsSound == DualSpec => []AuthorityTable
  <1>1. G1Invariant => AuthorityTable
    BY InvariantImplies
  <1> QED BY <1>1, G1InvariantHolds, CoordinatorIsACaller, PTL

-----------------------------------------------------------------------------
(* What the coordinator reports                                            *)

\* What the transport confirms took effect.
ConfirmedIsTrue ==
    \A id \in Identity : receipts[id] = "accepted" \/ id \in unacked => id \in applied

AnyReceipt == [left : Ack \cup {"none"}, right : Ack, bytes : Bytes]

SendTypes ==
    /\ phase \in [Sends -> {"new", "left", "right", "done", "threw"}]
    /\ waitsFor \in [Sends -> Identity \cup {NoIdentity}]
    /\ got \in [Sends -> Ack \cup {"none"}]
    /\ left \in [Sends -> Ack \cup {"none"}]
    /\ dualReceipts \in [Keys -> AnyReceipt \cup {NoReceipt}]
    /\ resolving \in [Reconciles -> [step : {"new", "left", "right", "done"},
                                     receipt : AnyReceipt \cup {NoReceipt}]]

\* A send waits for its own leg, key and bytes, before it has an answer.
WaitsForItsOwn ==
    \A c \in Sends :
        /\ waitsFor[c] # NoIdentity =>
             /\ waitsFor[c].scope.key = KeyOf[c] /\ waitsFor[c].bytes = BytesOf[c]
             /\ waitsFor[c].scope.side = SideOf(c) /\ got[c] = "none"
             /\ phase[c] \in {"left", "right"}
        /\ phase[c] \notin {"left", "right"} => got[c] = "none"

AcksAreTrue ==
    \A c \in Sends :
        /\ got[c] = "accepted" => HasEffect(SideOf(c), KeyOf[c], BytesOf[c])
        /\ left[c] = "accepted" => HasEffect("L", KeyOf[c], BytesOf[c])

ShowsTruth(receipt, key) ==
    /\ receipt.left = "accepted" => HasEffect("L", key, receipt.bytes)
    /\ receipt.right = "accepted" => HasEffect("R", key, receipt.bytes)

ResolvingIsTrue ==
    \A r \in Reconciles :
        resolving[r].step \in {"left", "right"} =>
            /\ resolving[r].receipt \in AnyReceipt
            /\ ShowsTruth(resolving[r].receipt, ReconciledKey[r])

CoordinatorInvariant ==
    /\ G1TypeOK /\ ConfirmedIsTrue /\ SendTypes /\ WaitsForItsOwn
    /\ AcksAreTrue /\ ReceiptIsTrue /\ ResolvingIsTrue

LEMMA EffectsStay ==
    ASSUME G1TypeOK, [G1Next]_g1Vars,
           NEW side, NEW key, NEW bytes, HasEffect(side, key, bytes)
    PROVE  HasEffect(side, key, bytes)'
  <1>1. applied \subseteq applied'
    <2>1. CASE UNCHANGED applied
      BY <2>1
    <2>2. ASSUME NEW i \in Identity, NativeWrite(i)
          PROVE  applied \subseteq applied'
      BY <2>2 DEF NativeWrite
    <2> QED BY <2>1, <2>2 DEF G1Next, ConnectionNext, Start, Finish, SelectPair,
            GlassesConnected, GlassesDisconnected, glasses, g1Vars
  <1> QED BY <1>1 DEF HasEffect

LEMMA ConfirmedStaysTrue ==
    ASSUME G1Assumption, G1TypeOK, G1TypeOK', ConfirmedIsTrue, [G1Next]_g1Vars
    PROVE  ConfirmedIsTrue'
  <1>1. CASE UNCHANGED g1Vars
    BY <1>1 DEF g1Vars, authority, glasses, ConfirmedIsTrue
  <1>2. ASSUME NEW side \in Sides, NEW key \in Keys, NEW bytes \in Bytes, Start(side, key, bytes)
        PROVE  ConfirmedIsTrue'
    BY <1>2 DEF Start, ConfirmedIsTrue
  <1>3. ASSUME NEW id \in Identity, NEW ack \in {"accepted", "uncertain", "refused"},
               Finish(id, ack)
        PROVE  ConfirmedIsTrue'
    <2> DEFINE acks == [receipts EXCEPT ![id] = IF ack = "refused" THEN @ ELSE ack]
    <2>1. \A j \in Identity : receipts'[j] \in {acks[j], "none"}
      BY <1>3 DEF Finish, Retire
    <2>2. \A j \in Identity : acks[j] = "accepted" => receipts[j] = "accepted" \/ j \in unacked
      BY <1>3 DEF Finish, Outcomes, Responds, G1TypeOK
    <2>3. unacked' \subseteq unacked /\ applied' = applied
      BY <1>3 DEF Finish
    <2> HIDE DEF acks
    <2> QED BY <2>1, <2>2, <2>3 DEF ConfirmedIsTrue
  <1>4. ASSUME NEW id \in Identity, NativeWrite(id)
        PROVE  ConfirmedIsTrue'
    BY <1>4 DEF NativeWrite, ConfirmedIsTrue, G1TypeOK, authority
  <1>5. ASSUME NEW connection, Publish(connection), UNCHANGED <<unacked, applied>>
        PROVE  ConfirmedIsTrue'
    <2>1. \A j \in Identity : receipts'[j] \in {receipts[j], "none"}
      BY <1>5 DEF Publish, Retire
    <2> QED BY <2>1, <1>5 DEF ConfirmedIsTrue
  <1>6. CASE ConnectionNext
    BY <1>4, <1>5, <1>6 DEF ConnectionNext, SelectPair, GlassesConnected, GlassesDisconnected,
          glasses
  <1> QED BY <1>1, <1>2, <1>3, <1>6 DEF G1Next

\* A step that leaves the calls and the receipts alone.
LEMMA QuietStep ==
    ASSUME CoordinatorInvariant, G1TypeOK', ConfirmedIsTrue',
           \A side, key, bytes : HasEffect(side, key, bytes) => HasEffect(side, key, bytes)',
           UNCHANGED <<sends, dualReceipts, fingerprints, resolving>>
    PROVE  CoordinatorInvariant'
  <1>1. UNCHANGED <<phase, attempt, waitsFor, got, left, dualReceipts, resolving>>
    BY DEF sends
  <1>2. SendTypes'
    BY <1>1 DEF CoordinatorInvariant, SendTypes
  <1>3. WaitsForItsOwn'
    BY <1>1 DEF CoordinatorInvariant, WaitsForItsOwn, SideOf
  <1>4. AcksAreTrue'
    BY <1>1 DEF CoordinatorInvariant, AcksAreTrue, SideOf
  <1>5. ReceiptIsTrue'
    BY <1>1 DEF CoordinatorInvariant, ReceiptIsTrue
  <1>6. ResolvingIsTrue'
    BY <1>1 DEF CoordinatorInvariant, ResolvingIsTrue, ShowsTruth
  <1> QED BY <1>2, <1>3, <1>4, <1>5, <1>6 DEF CoordinatorInvariant

\* A step of one sendMirrored() that stores no receipt.
LEMMA SendStep ==
    ASSUME CoordinatorInvariant, G1TypeOK', ConfirmedIsTrue', SendTypes',
           \A side, key, bytes : HasEffect(side, key, bytes) => HasEffect(side, key, bytes)',
           NEW c \in Sends,
           \A d \in Sends \ {c} : /\ phase'[d] = phase[d] /\ waitsFor'[d] = waitsFor[d]
                                  /\ got'[d] = got[d] /\ left'[d] = left[d],
           /\ waitsFor'[c] # NoIdentity =>
                /\ waitsFor'[c].scope.key = KeyOf[c] /\ waitsFor'[c].bytes = BytesOf[c]
                /\ waitsFor'[c].scope.side = SideOf(c)' /\ got'[c] = "none"
                /\ phase'[c] \in {"left", "right"}
           /\ phase'[c] \notin {"left", "right"} => got'[c] = "none",
           got'[c] = "accepted" => HasEffect(SideOf(c), KeyOf[c], BytesOf[c])',
           left'[c] = "accepted" => HasEffect("L", KeyOf[c], BytesOf[c])',
           UNCHANGED <<dualReceipts, resolving>>
    PROVE  CoordinatorInvariant'
  <1>1. \A d \in Sends \ {c} : SideOf(d)' = SideOf(d)
    BY DEF SideOf
  <1>2. WaitsForItsOwn'
    BY <1>1 DEF CoordinatorInvariant, WaitsForItsOwn
  <1>3. AcksAreTrue'
    BY <1>1 DEF CoordinatorInvariant, AcksAreTrue
  <1>4. ReceiptIsTrue'
    BY DEF CoordinatorInvariant, ReceiptIsTrue
  <1>5. ResolvingIsTrue'
    BY DEF CoordinatorInvariant, ResolvingIsTrue, ShowsTruth
  <1> QED BY <1>2, <1>3, <1>4, <1>5 DEF CoordinatorInvariant

LEMMA SendLegPreserves ==
    ASSUME CoordinatorInvariant, G1TypeOK', ConfirmedIsTrue',
           \A side, key, bytes : HasEffect(side, key, bytes) => HasEffect(side, key, bytes)',
           NEW c \in Sends, SendLeg(c)
    PROVE  CoordinatorInvariant'
  <1> DEFINE id == IdentityNow(SideOf(c), KeyOf[c], BytesOf[c])
  <1>1. /\ phase[c] \in {"left", "right"} /\ waitsFor[c] = NoIdentity /\ got[c] = "none"
        /\ UNCHANGED <<dualReceipts, fingerprints, resolving>>
    BY DEF SendLeg
  <1>2. SideOf(c) \in Sides /\ KeyOf[c] \in Keys /\ BytesOf[c] \in Bytes
    BY DualLegAssumption DEF SideOf, Sides
  <1>3. HasAuthoritativeIdentity => id \in Identity /\ id.scope.side = SideOf(c)
                                    /\ id.scope.key = KeyOf[c] /\ id.bytes = BytesOf[c]
    <2>1. HasAuthoritativeIdentity =>
              snapshot.generation \in 1..MaxGeneration /\ snapshot.pair \in Pairs
      BY G1Assumption DEF HasAuthoritativeIdentity, CoordinatorInvariant, G1TypeOK, Connection
    <2> QED BY <2>1, <1>2 DEF IdentityNow, ScopeNow, Identity, Scope
  <1> HIDE DEF id
  <1>4. CASE /\ phase' = [phase EXCEPT ![c] = "threw"] /\ Return(c) /\ UNCHANGED waitsFor
    <2>1. SendTypes'
      BY <1>1, <1>4 DEF CoordinatorInvariant, SendTypes, Return
    <2>2. phase'[c] = "threw" /\ got'[c] = "none" /\ left'[c] = "none"
          /\ waitsFor'[c] = NoIdentity
      BY <1>1, <1>4 DEF CoordinatorInvariant, SendTypes, Return
    <2>3. \A d \in Sends \ {c} : /\ phase'[d] = phase[d] /\ waitsFor'[d] = waitsFor[d]
                                 /\ got'[d] = got[d] /\ left'[d] = left[d]
      BY <1>4 DEF CoordinatorInvariant, SendTypes, Return
    <2> QED BY <2>1, <2>2, <2>3, <1>1, SendStep
  <1>5. ASSUME NEW ack \in Ack, got' = [got EXCEPT ![c] = ack], UNCHANGED <<phase, waitsFor, left>>,
               ack = "accepted" => HasEffect(SideOf(c), KeyOf[c], BytesOf[c])
        PROVE  CoordinatorInvariant'
    <2>1. SendTypes'
      BY <1>1, <1>5 DEF CoordinatorInvariant, SendTypes
    <2>2. got'[c] = ack /\ \A d \in Sends \ {c} : got'[d] = got[d]
      BY <1>5 DEF CoordinatorInvariant, SendTypes
    <2>3. SideOf(c)' = SideOf(c)
      BY <1>5 DEF SideOf
    <2>4. left[c] = "accepted" => HasEffect("L", KeyOf[c], BytesOf[c])
      BY DEF CoordinatorInvariant, AcksAreTrue
    <2> QED BY <2>1, <2>2, <2>3, <2>4, <1>1, <1>5, SendStep
  <1>6. CASE /\ RejectsNow(SideOf(c)) /\ UNCHANGED <<phase, waitsFor, left>>
             /\ got' = [got EXCEPT ![c] = IF HasAuthoritativeIdentity THEN "disconnected"
                                          ELSE "refused"]
    BY <1>5, <1>6 DEF Ack
  <1>7. CASE /\ RepliesNow(SideOf(c), KeyOf[c], BytesOf[c])
             /\ got' = [got EXCEPT ![c] = receipts[id]] /\ UNCHANGED <<phase, waitsFor, left>>
    <2>1. id \in Identity /\ id.scope.side = SideOf(c) /\ id.scope.key = KeyOf[c]
          /\ id.bytes = BytesOf[c]
      BY <1>3, <1>7 DEF RepliesNow, RejectsNow
    <2>2. receipts[id] \in Ack
      BY <2>1, <1>7 DEF RepliesNow, CoordinatorInvariant, G1TypeOK, Ack, id
    <2>3. receipts[id] = "accepted" => HasEffect(SideOf(c), KeyOf[c], BytesOf[c])
      BY <2>1 DEF CoordinatorInvariant, ConfirmedIsTrue, HasEffect
    <2> QED BY <2>2, <2>3, <1>5, <1>7
  <1>8. CASE got' = [got EXCEPT ![c] = "refused"] /\ UNCHANGED <<phase, waitsFor, left>>
    BY <1>5, <1>8 DEF Ack
  <1>9. CASE /\ HasAuthoritativeIdentity
             /\ waitsFor' = [waitsFor EXCEPT ![c] = id] /\ UNCHANGED <<phase, got, left>>
    <2>1. SendTypes'
      BY <1>1, <1>3, <1>9 DEF CoordinatorInvariant, SendTypes
    <2>2. waitsFor'[c] = id /\ \A d \in Sends \ {c} : waitsFor'[d] = waitsFor[d]
      BY <1>9 DEF CoordinatorInvariant, SendTypes
    <2>3. SideOf(c)' = SideOf(c)
      BY <1>9 DEF SideOf
    <2>4. left[c] = "accepted" => HasEffect("L", KeyOf[c], BytesOf[c])
      BY DEF CoordinatorInvariant, AcksAreTrue
    <2> QED BY <2>1, <2>2, <2>3, <2>4, <1>1, <1>3, <1>9, SendStep
  <1> QED BY <1>4, <1>6, <1>7, <1>8, <1>9
          DEF SendLeg, id, JoinsNow, Start, AdmitsNow, RejectsNow

\* The next leg begins with no answer of the last one.
LEMMA LeftDecidedPreserves ==
    ASSUME CoordinatorInvariant, G1TypeOK', ConfirmedIsTrue',
           \A side, key, bytes : HasEffect(side, key, bytes) => HasEffect(side, key, bytes)',
           NEW c \in Sends, LeftDecided(c)
    PROVE  CoordinatorInvariant'
  <1>1. /\ phase[c] = "left" /\ got[c] \in Ack /\ waitsFor[c] = NoIdentity
        /\ UNCHANGED <<waitsFor, dualReceipts, resolving>>
    BY DEF LeftDecided, LegDecided, CoordinatorInvariant, SendTypes, WaitsForItsOwn
  <1>2. SendTypes'
    BY <1>1 DEF LeftDecided, CoordinatorInvariant, SendTypes
  <1>3. /\ phase'[c] = "right" /\ got'[c] = "none" /\ left'[c] = got[c]
        /\ \A d \in Sends \ {c} : /\ phase'[d] = phase[d] /\ waitsFor'[d] = waitsFor[d]
                                  /\ got'[d] = got[d] /\ left'[d] = left[d]
    BY <1>1 DEF LeftDecided, CoordinatorInvariant, SendTypes
  <1>4. got[c] = "accepted" => HasEffect("L", KeyOf[c], BytesOf[c])
    BY <1>1 DEF CoordinatorInvariant, AcksAreTrue, SideOf
  <1> QED BY <1>1, <1>2, <1>3, <1>4, SendStep

LEMMA RightDecidedPreserves ==
    ASSUME CoordinatorInvariant, G1TypeOK', ConfirmedIsTrue',
           \A side, key, bytes : HasEffect(side, key, bytes) => HasEffect(side, key, bytes)',
           NEW c \in Sends, RightDecided(c)
    PROVE  CoordinatorInvariant'
  <1> DEFINE receipt == [left |-> left[c], right |-> got[c], bytes |-> BytesOf[c]]
  <1>1. /\ phase[c] = "right" /\ got[c] \in Ack /\ waitsFor[c] = NoIdentity
        /\ UNCHANGED <<waitsFor, resolving>>
        /\ dualReceipts' = [dualReceipts EXCEPT ![KeyOf[c]] = receipt]
    BY DEF RightDecided, LegDecided, CoordinatorInvariant, SendTypes, WaitsForItsOwn
  <1>2. left[c] \in Ack \cup {"none"} /\ KeyOf[c] \in Keys /\ BytesOf[c] \in Bytes
    BY DualLegAssumption DEF CoordinatorInvariant, SendTypes
  <1>3. /\ phase'[c] = "done" /\ got'[c] = "none" /\ left'[c] = "none"
        /\ \A d \in Sends \ {c} : /\ phase'[d] = phase[d] /\ got'[d] = got[d]
                                  /\ left'[d] = left[d]
    BY DEF RightDecided, Return, CoordinatorInvariant, SendTypes
  <1>4. ShowsTruth(receipt, KeyOf[c])
    BY <1>1 DEF CoordinatorInvariant, AcksAreTrue, SideOf, ShowsTruth
  <1>5. receipt \in AnyReceipt
    BY <1>1, <1>2 DEF AnyReceipt
  <1> HIDE DEF receipt
  <1>6. dualReceipts'[KeyOf[c]] = receipt
        /\ \A k \in Keys \ {KeyOf[c]} : dualReceipts'[k] = dualReceipts[k]
    BY <1>1, <1>2 DEF CoordinatorInvariant, SendTypes
  <1>7. SendTypes'
    <2>1. dualReceipts' \in [Keys -> AnyReceipt \cup {NoReceipt}]
      BY <1>1, <1>5 DEF CoordinatorInvariant, SendTypes
    <2>2. /\ phase' \in [Sends -> {"new", "left", "right", "done", "threw"}]
          /\ got' \in [Sends -> Ack \cup {"none"}] /\ left' \in [Sends -> Ack \cup {"none"}]
      BY DEF RightDecided, Return, CoordinatorInvariant, SendTypes
    <2> QED BY <2>1, <2>2, <1>1 DEF CoordinatorInvariant, SendTypes
  <1>8. ReceiptIsTrue'
    BY <1>4, <1>6 DEF CoordinatorInvariant, ReceiptIsTrue, ShowsTruth
  <1>9. \A d \in Sends \ {c} : SideOf(d)' = SideOf(d)
    BY <1>3 DEF SideOf
  <1>10. WaitsForItsOwn'
    BY <1>1, <1>3, <1>9 DEF CoordinatorInvariant, WaitsForItsOwn
  <1>11. AcksAreTrue'
    BY <1>3, <1>9 DEF CoordinatorInvariant, AcksAreTrue
  <1>12. ResolvingIsTrue'
    BY <1>1 DEF CoordinatorInvariant, ResolvingIsTrue, ShowsTruth
  <1> QED BY <1>7, <1>8, <1>10, <1>11, <1>12 DEF CoordinatorInvariant

\* Everyone who waits for an operation hears its outcome.
LEMMA LegAnswerPreserves ==
    ASSUME CoordinatorInvariant, G1TypeOK', ConfirmedIsTrue',
           \A side, key, bytes : HasEffect(side, key, bytes) => HasEffect(side, key, bytes)',
           NEW id \in Identity, NEW ack \in {"accepted", "uncertain", "refused"},
           LegAnswer(id, ack)
    PROVE  CoordinatorInvariant'
  <1>1. /\ got' = [c \in Sends |-> IF waitsFor[c] = id THEN ack ELSE got[c]]
        /\ waitsFor' = [c \in Sends |-> IF waitsFor[c] = id THEN NoIdentity ELSE waitsFor[c]]
        /\ UNCHANGED <<phase, left, dualReceipts, resolving>>
    BY DEF LegAnswer
  <1>2. SendTypes'
    <2>1. ack \in Ack
      BY DEF Ack
    <2> QED BY <2>1, <1>1 DEF CoordinatorInvariant, SendTypes
  <1>3. ack = "accepted" => id \in applied
    BY DEF LegAnswer, Finish, Outcomes, Responds, CoordinatorInvariant, ConfirmedIsTrue
  <1>4. id # NoIdentity
    BY DualLegAssumption
  <1>5. WaitsForItsOwn'
    BY <1>1, <1>4 DEF CoordinatorInvariant, WaitsForItsOwn, SideOf
  <1>6. AcksAreTrue'
    <2> SUFFICES ASSUME NEW c \in Sends
                 PROVE  /\ got'[c] = "accepted" => HasEffect(SideOf(c), KeyOf[c], BytesOf[c])'
                        /\ left'[c] = "accepted" => HasEffect("L", KeyOf[c], BytesOf[c])'
      BY DEF AcksAreTrue
    <2>1. SideOf(c)' = SideOf(c)
      BY <1>1 DEF SideOf
    <2>2. got'[c] = "accepted" => HasEffect(SideOf(c), KeyOf[c], BytesOf[c])
      <3>1. CASE waitsFor[c] = id
        BY <3>1, <1>1, <1>3, <1>4 DEF CoordinatorInvariant, WaitsForItsOwn, HasEffect
      <3>2. CASE waitsFor[c] # id
        BY <3>2, <1>1 DEF CoordinatorInvariant, AcksAreTrue
      <3> QED BY <3>1, <3>2
    <2>3. left'[c] = "accepted" => HasEffect("L", KeyOf[c], BytesOf[c])
      BY <1>1 DEF CoordinatorInvariant, AcksAreTrue
    <2> QED BY <2>1, <2>2, <2>3
  <1>7. ReceiptIsTrue' /\ ResolvingIsTrue'
    BY <1>1 DEF CoordinatorInvariant, ReceiptIsTrue, ResolvingIsTrue, ShowsTruth
  <1> QED BY <1>2, <1>5, <1>6, <1>7 DEF CoordinatorInvariant

\* reconcile() trusts what the leg shows.
LEMMA ReconcilePreserves ==
    ASSUME CoordinatorInvariant, G1TypeOK', ConfirmedIsTrue',
           \A side, key, bytes : HasEffect(side, key, bytes) => HasEffect(side, key, bytes)',
           NEW r \in Reconciles, ReconcileBegin(r) \/ ReconcileLeft(r) \/ ReconcileRight(r)
    PROVE  CoordinatorInvariant'
  <1> DEFINE key == ReconciledKey[r]
             receipt == resolving[r].receipt
  <1>1. /\ UNCHANGED <<phase, waitsFor, got, left>>
        /\ key \in Keys
    BY DualLegAssumption DEF ReconcileBegin, ReconcileLeft, ReconcileRight, sends
  <1>2. WaitsForItsOwn' /\ AcksAreTrue'
    BY <1>1 DEF CoordinatorInvariant, WaitsForItsOwn, AcksAreTrue, SideOf
  <1>3. CASE ReconcileBegin(r)
    <2>1. dualReceipts[key] \in AnyReceipt /\ ShowsTruth(dualReceipts[key], key)
      BY <1>1, <1>3 DEF ReconcileBegin, CoordinatorInvariant, SendTypes, ReceiptIsTrue, ShowsTruth
    <2>2. /\ resolving' = [resolving EXCEPT ![r] = [step |-> "left",
                                                    receipt |-> dualReceipts[key]]]
          /\ UNCHANGED dualReceipts
      BY <1>3 DEF ReconcileBegin
    <2>3. SendTypes'
      BY <2>1, <2>2, <1>1 DEF CoordinatorInvariant, SendTypes
    <2>4. ResolvingIsTrue'
      BY <2>1, <2>2 DEF CoordinatorInvariant, SendTypes, ResolvingIsTrue, ShowsTruth
    <2>5. ReceiptIsTrue'
      BY <2>2 DEF CoordinatorInvariant, ReceiptIsTrue
    <2> QED BY <2>3, <2>4, <2>5, <1>2 DEF CoordinatorInvariant
  <1>4. CASE ReconcileLeft(r)
    <2>1. receipt \in AnyReceipt /\ ShowsTruth(receipt, key)
      BY <1>4 DEF ReconcileLeft, CoordinatorInvariant, ResolvingIsTrue
    <2>2. PICK ack \in ReconcilerAnswers("L", key, receipt.left, receipt.bytes) :
            resolving' = [resolving EXCEPT ![r] =
                            [step |-> "right", receipt |-> [receipt EXCEPT !.left = ack]]]
      BY <1>4 DEF ReconcileLeft
    <2>3. ack \in Ack \cup {"none"}
          /\ (ack = "accepted" => HasEffect("L", key, receipt.bytes))
      BY <2>1 DEF ReconcilerAnswers, AnyReceipt, Ack, ShowsTruth
    <2> DEFINE updated == [receipt EXCEPT !.left = ack]
    <2>4. updated \in AnyReceipt /\ updated.left = ack /\ updated.right = receipt.right
          /\ updated.bytes = receipt.bytes
      BY <2>1, <2>3 DEF AnyReceipt
    <2>5. resolving' = [resolving EXCEPT ![r] = [step |-> "right", receipt |-> updated]]
          /\ UNCHANGED dualReceipts
      BY <2>2, <1>4 DEF ReconcileLeft
    <2> HIDE DEF updated, receipt
    <2>6. SendTypes'
      BY <2>4, <2>5, <1>1 DEF CoordinatorInvariant, SendTypes
    <2>7. ResolvingIsTrue'
      BY <2>1, <2>3, <2>4, <2>5 DEF CoordinatorInvariant, SendTypes, ResolvingIsTrue, ShowsTruth
    <2>8. ReceiptIsTrue'
      BY <2>5 DEF CoordinatorInvariant, ReceiptIsTrue
    <2> QED BY <2>6, <2>7, <2>8, <1>2 DEF CoordinatorInvariant
  <1>5. CASE ReconcileRight(r)
    <2>1. receipt \in AnyReceipt /\ ShowsTruth(receipt, key)
      BY <1>5 DEF ReconcileRight, CoordinatorInvariant, ResolvingIsTrue
    <2>2. PICK ack \in ReconcilerAnswers("R", key, receipt.right, receipt.bytes) :
            dualReceipts' = [dualReceipts EXCEPT ![key] = [receipt EXCEPT !.right = ack]]
      BY <1>5 DEF ReconcileRight
    <2>3. ack \in Ack /\ (ack = "accepted" => HasEffect("R", key, receipt.bytes))
      BY <2>1 DEF ReconcilerAnswers, AnyReceipt, Ack, ShowsTruth
    <2> DEFINE updated == [receipt EXCEPT !.right = ack]
    <2>4. updated \in AnyReceipt /\ updated.right = ack /\ updated.left = receipt.left
          /\ updated.bytes = receipt.bytes
      BY <2>1, <2>3 DEF AnyReceipt
    <2>5. /\ dualReceipts' = [dualReceipts EXCEPT ![key] = updated]
          /\ resolving' = [resolving EXCEPT ![r] = [step |-> "done", receipt |-> NoReceipt]]
      BY <2>2, <1>5 DEF ReconcileRight
    <2> HIDE DEF updated, receipt
    <2>6. SendTypes'
      BY <2>4, <2>5, <1>1 DEF CoordinatorInvariant, SendTypes
    <2>7. ResolvingIsTrue'
      BY <2>5 DEF CoordinatorInvariant, SendTypes, ResolvingIsTrue, ShowsTruth
    <2>8. ReceiptIsTrue'
      BY <2>1, <2>3, <2>4, <2>5, <1>1 DEF CoordinatorInvariant, SendTypes, ReceiptIsTrue, ShowsTruth
    <2> QED BY <2>6, <2>7, <2>8, <1>2 DEF CoordinatorInvariant
  <1> QED BY <1>3, <1>4, <1>5

LEMMA CoordinatorStep ==
    ASSUME G1Invariant, G1Invariant', CoordinatorInvariant, [DualNext]_dualVars
    PROVE  CoordinatorInvariant'
  <1>1. [G1Next]_g1Vars
    BY DualStepIsTransportStep
  <1>2. G1TypeOK /\ G1TypeOK'
    BY DEF G1Invariant
  <1>3. ConfirmedIsTrue'
    BY <1>1, <1>2, ConfirmedStaysTrue, G1Assumption DEF CoordinatorInvariant
  <1>4. \A side, key, bytes : HasEffect(side, key, bytes) => HasEffect(side, key, bytes)'
    BY <1>1, <1>2, EffectsStay
  <1>5. CASE UNCHANGED dualVars
    BY <1>2, <1>3, <1>4, <1>5, QuietStep DEF dualVars, sends
  <1>6. CASE ConnectionNext /\ UNCHANGED <<sends, dualReceipts, fingerprints, resolving>>
    BY <1>2, <1>3, <1>4, <1>6, QuietStep
  <1>7. ASSUME NEW c \in Sends, SendMirrored(c) \/ TryAgain(c)
        PROVE  CoordinatorInvariant'
    <2>1. SendTypes'
      BY <1>7 DEF SendMirrored, TryAgain, CoordinatorInvariant, SendTypes
    <2>2. /\ \A d \in Sends \ {c} : /\ phase'[d] = phase[d] /\ waitsFor'[d] = waitsFor[d]
                                    /\ got'[d] = got[d] /\ left'[d] = left[d]
          /\ got'[c] = "none" /\ left'[c] = left[c] /\ waitsFor'[c] = NoIdentity
          /\ UNCHANGED <<dualReceipts, resolving>>
      BY <1>7 DEF SendMirrored, TryAgain, CoordinatorInvariant, SendTypes, WaitsForItsOwn
    <2>3. left[c] = "accepted" => HasEffect("L", KeyOf[c], BytesOf[c])
      BY DEF CoordinatorInvariant, AcksAreTrue
    <2> QED BY <2>1, <2>2, <2>3, <1>2, <1>3, <1>4, SendStep
  <1>8. ASSUME NEW c \in Sends, SendLeg(c)
        PROVE  CoordinatorInvariant'
    BY <1>2, <1>3, <1>4, <1>8, SendLegPreserves
  <1>9. ASSUME NEW c \in Sends, LeftDecided(c)
        PROVE  CoordinatorInvariant'
    BY <1>2, <1>3, <1>4, <1>9, LeftDecidedPreserves
  <1>10. ASSUME NEW c \in Sends, RightDecided(c)
         PROVE  CoordinatorInvariant'
    BY <1>2, <1>3, <1>4, <1>10, RightDecidedPreserves
  <1>11. ASSUME NEW id \in Identity, NEW ack \in {"accepted", "uncertain", "refused"},
                LegAnswer(id, ack)
         PROVE  CoordinatorInvariant'
    BY <1>2, <1>3, <1>4, <1>11, LegAnswerPreserves
  <1>12. ASSUME NEW r \in Reconciles, ReconcileBegin(r) \/ ReconcileLeft(r) \/ ReconcileRight(r)
         PROVE  CoordinatorInvariant'
    BY <1>2, <1>3, <1>4, <1>12, ReconcilePreserves
  <1> QED BY <1>5, <1>6, <1>7, <1>8, <1>9, <1>10, <1>11, <1>12 DEF DualNext

\* A leg a receipt reports as accepted shows the bytes of that receipt.
THEOREM ReceiptsAreTrue == DualSpec => []ReceiptIsTrue
  <1>1. DualInit => CoordinatorInvariant
    BY G1Assumption, G1InitEstablishes
       DEF DualInit, G1Init, G1Invariant, CoordinatorInvariant, ConfirmedIsTrue, SendTypes,
           WaitsForItsOwn, AcksAreTrue, ReceiptIsTrue, ResolvingIsTrue
  <1>2. G1Invariant /\ G1Invariant' /\ CoordinatorInvariant /\ [DualNext]_dualVars
            => CoordinatorInvariant'
    BY CoordinatorStep
  <1>3. CoordinatorInvariant => ReceiptIsTrue
    BY DEF CoordinatorInvariant
  <1> QED BY <1>1, <1>2, <1>3, G1InvariantHolds, CoordinatorIsACaller, PTL DEF DualSpec

=============================================================================
