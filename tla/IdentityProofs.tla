--------------------------- MODULE IdentityProofs ---------------------------
(***************************************************************************)
(* Proofs about DurableIdentity and MutationAuthority, for every set of    *)
(* subjects, devices, calls and leases and every bound.                    *)
(***************************************************************************)
EXTENDS DurableIdentity, MutationAuthority, TLAPS

-----------------------------------------------------------------------------
(* Types                                                                   *)

\* The feed of revocations grows by what it does not yet hold.
LEMMA FeedGrows ==
    ASSUME NEW S, NEW s \in Seq(S), NEW x \in S,
           \A i, j \in DOMAIN s : s[i] = s[j] => i = j,
           x \notin {s[i] : i \in DOMAIN s}
    PROVE  /\ Append(s, x) \in Seq(S) /\ Len(Append(s, x)) = Len(s) + 1
           /\ Append(s, x)[Len(s) + 1] = x
           /\ \A i \in DOMAIN s : i \in DOMAIN Append(s, x) /\ Append(s, x)[i] = s[i]
           /\ {Append(s, x)[i] : i \in DOMAIN Append(s, x)} = {s[i] : i \in DOMAIN s} \cup {x}
           /\ \A i, j \in DOMAIN Append(s, x) : Append(s, x)[i] = Append(s, x)[j] => i = j
  <1> DEFINE a == Append(s, x)
             n == Len(s)
  <1>1. n \in Nat /\ DOMAIN s = 1..n /\ a \in Seq(S) /\ Len(a) = n + 1 /\ DOMAIN a = 1..n + 1
    OBVIOUS
  <1>2. a[n + 1] = x /\ \A i \in 1..n : a[i] = s[i]
    OBVIOUS
  <1>3. \A i \in DOMAIN a : i = n + 1 \/ i \in DOMAIN s
    BY <1>1
  <1>4. n + 1 \in DOMAIN a /\ DOMAIN s \subseteq DOMAIN a /\ n + 1 \notin DOMAIN s
    BY <1>1
  <1> HIDE DEF a, n
  <1>5. {a[i] : i \in DOMAIN a} = {s[i] : i \in DOMAIN s} \cup {x}
    <2>1. \A i \in DOMAIN a : a[i] \in {s[k] : k \in DOMAIN s} \cup {x}
      BY <1>1, <1>2, <1>3, Zenon
    <2>2. \A i \in DOMAIN s : s[i] \in {a[k] : k \in DOMAIN a}
      BY <1>1, <1>2, <1>4, Zenon
    <2>3. x \in {a[k] : k \in DOMAIN a}
      BY <1>2, <1>4, Zenon
    <2> QED
      BY <2>1, <2>2, <2>3
  <1>6. \A i, j \in DOMAIN a : a[i] = a[j] => i = j
    BY <1>1, <1>2, <1>3, <1>4, Zenon
  <1> QED
    BY <1>1, <1>2, <1>4, <1>5, <1>6, Zenon DEF a, n

\* A row keeps its type when only its state changes.
LEMMA DeviceRows ==
    ASSUME NEW r \in DeviceRow
    PROVE  [r EXCEPT !.state = "revoked"] \in DeviceRow
  BY DEF DeviceRow

LEMMA ChallengeRows ==
    ASSUME NEW r \in ChallengeRow, NEW s \in {"consumed", "revoked"}
    PROVE  [r EXCEPT !.state = s] \in ChallengeRow
  BY DEF ChallengeRow

LEMMA SessionRows ==
    ASSUME NEW r \in SessionRow
    PROVE  [r EXCEPT !.state = "revoked"] \in SessionRow
  BY DEF SessionRow

LEMMA TokenRows ==
    ASSUME NEW r \in TokenRow, NEW s \in {"active", "indeterminate", "revoked"}
    PROVE  [r EXCEPT !.state = s] \in TokenRow
  BY DEF TokenRow

\* A step of DurableIdentity leaves its variables well typed.
LEMMA IdentityTypeInit == ASSUME IdentityInit PROVE IdentityTypeOK
  <1> USE IdentityAssumption DEF NoVerdict
  <1>1. device \in [Devices -> DeviceRow] /\ challenge \in [Challenges -> ChallengeRow]
    BY DEF IdentityInit, DeviceRow, ChallengeRow
  <1>2. session \in [Sessions -> SessionRow] /\ token \in [Tokens -> TokenRow]
    BY DEF IdentityInit, SessionRow, TokenRow
  <1>3. enroll \in [Enrollments -> EnrollCall]
    BY DEF IdentityInit, EnrollCall
  <1> QED
    BY <1>1, <1>2, <1>3 DEF IdentityInit, IdentityTypeOK

LEMMA IdentityTypeStep ==
    ASSUME IdentityTypeOK, [IdentityNext]_identityVars
    PROVE  IdentityTypeOK'
  <1> USE IdentityAssumption
  <1>1. ASSUME NEW u \in Subjects, AdmitSubject(u)
        PROVE  IdentityTypeOK'
    BY <1>1 DEF AdmitSubject, IdentityTypeOK
  <1>2. ASSUME NEW c \in Challenges, NEW u \in Subjects, NEW d \in Devices, NEW ttl \in Lifetimes,
               Challenge(c, u, d, ttl)
        PROVE  IdentityTypeOK'
    BY <1>2 DEF Challenge, IdentityTypeOK, ChallengeRow
  <1>3. ASSUME NEW e \in Enrollments, NEW c \in Challenges, NEW p \in Proofs, EnrollAsk(e, c, p)
        PROVE  IdentityTypeOK'
    BY <1>3 DEF EnrollAsk, IdentityTypeOK, EnrollCall, Verdict
  <1>4. ASSUME NEW e \in Enrollments, NEW v \in 0..MaxTime + 1, NEW x \in 0..MaxTime + 1,
               EnrollConfirmed(e, v, x)
        PROVE  IdentityTypeOK'
    <2>1. enroll[e] \in EnrollCall /\ v \in Nat /\ x \in Nat
      BY DEF IdentityTypeOK
    <2>2. [enroll[e] EXCEPT !.pc = "confirmed", !.verdict.verified_at = v,
                                !.verdict.expires_at = x] \in EnrollCall
      <3>1. enroll[e] \in [pc : {"asking", "confirmed"}, verdict : Verdict]
        BY <1>4, <2>1 DEF EnrollConfirmed, EnrollCall, NotEnrolling
      <3>2. [enroll[e].verdict EXCEPT !.verified_at = v, !.expires_at = x] \in Verdict
        BY <2>1, <3>1 DEF Verdict
      <3>3. [enroll[e] EXCEPT !.pc = "confirmed", !.verdict.verified_at = v,
                              !.verdict.expires_at = x]
              = [enroll[e] EXCEPT !.pc = "confirmed",
                    !.verdict = [enroll[e].verdict EXCEPT !.verified_at = v, !.expires_at = x]]
        BY <3>1, <3>2 DEF Verdict
      <3> QED
        BY <3>1, <3>2, <3>3 DEF EnrollCall
    <2> QED
      BY <1>4, <2>1, <2>2 DEF EnrollConfirmed, IdentityTypeOK
  <1>5. ASSUME NEW e \in Enrollments, EnrollEnds(e)
        PROVE  IdentityTypeOK'
    BY <1>5 DEF EnrollEnds, IdentityTypeOK, EnrollCall
  <1>6. ASSUME NEW e \in Enrollments, NEW at \in 0..MaxTime, AcceptAttestation(e, at)
        PROVE  IdentityTypeOK'
    <2> DEFINE v == enroll[e].verdict
    <2>1. v \in Verdict /\ v.challenge \in Challenges /\ v.proof \in Proofs
      BY <1>6 DEF AcceptAttestation, IdentityTypeOK, EnrollCall, NotEnrolling, Verdict
    <2>2. challenge[v.challenge] \in ChallengeRow
      BY <2>1 DEF IdentityTypeOK
    <2> HIDE DEF v
    <2>3. [challenge[v.challenge] EXCEPT !.state = "consumed"] \in ChallengeRow
      BY <2>2 DEF ChallengeRow
    <2>4. challenge' \in [Challenges -> ChallengeRow] /\ enroll' \in [Enrollments -> EnrollCall]
      BY <1>6, <2>1, <2>3 DEF AcceptAttestation, IdentityTypeOK, EnrollCall, v
    <2>5. [state |-> "active", subject |-> challenge[v.challenge].subject, proof |-> v.proof]
              \in DeviceRow
      BY <2>1, <2>2 DEF DeviceRow, ChallengeRow
    <2>6. /\ device' \in [Devices -> DeviceRow]
          /\ attested' \in [Devices -> [verdict : Verdict \cup {NoVerdict}, at : Nat]]
      <3>1. Bind(challenge[v.challenge].device, challenge[v.challenge].subject, v, at)
        BY <1>6 DEF AcceptAttestation, v
      <3>2. at \in Nat
        OBVIOUS
      <3>3. [verdict |-> v, at |-> at] \in [verdict : Verdict \cup {NoVerdict}, at : Nat]
        BY <2>1, <3>2
      <3> QED
        <4> DEFINE row == [state |-> "active", subject |-> challenge[v.challenge].subject,
                           proof |-> v.proof]
                   verdict == [verdict |-> v, at |-> at]
        <4>1. \/ UNCHANGED <<device, attested>>
              \/ \E d : /\ device' = [device EXCEPT ![d] = row]
                       /\ attested' = [attested EXCEPT ![d] = verdict]
          BY <3>1 DEF Bind
        <4>2. row \in DeviceRow /\ verdict \in [verdict : Verdict \cup {NoVerdict}, at : Nat]
          BY <2>5, <3>3
        <4>3. /\ device \in [Devices -> DeviceRow]
              /\ attested \in [Devices -> [verdict : Verdict \cup {NoVerdict}, at : Nat]]
          BY DEF IdentityTypeOK
        <4> HIDE DEF row, verdict
        <4>4. CASE UNCHANGED <<device, attested>>
          BY <4>3, <4>4
        <4>5. ASSUME NEW d, device' = [device EXCEPT ![d] = row],
                     attested' = [attested EXCEPT ![d] = verdict]
              PROVE  /\ device' \in [Devices -> DeviceRow]
                     /\ attested' \in [Devices -> [verdict : Verdict \cup {NoVerdict}, at : Nat]]
          <5>1. device' \in [Devices -> DeviceRow]
            BY <4>2, <4>3, <4>5
          <5>2. attested' \in [Devices -> [verdict : Verdict \cup {NoVerdict}, at : Nat]]
            BY <4>2, <4>3, <4>5
          <5> QED
            BY <5>1, <5>2
        <4> QED
          BY <4>1, <4>4, <4>5
    <2> QED
      BY <1>6, <2>1, <2>4, <2>6 DEF AcceptAttestation, IdentityTypeOK, v
  <1>7. ASSUME NEW s \in Sessions, NEW u \in Subjects, NEW d \in Devices, NEW ttl \in Lifetimes,
               CreateSession(s, u, d, ttl)
        PROVE  IdentityTypeOK'
    BY <1>7 DEF CreateSession, IdentityTypeOK, SessionRow
  <1>8. ASSUME NEW t \in Tokens, NEW s \in Sessions, NEW ttl \in Lifetimes, PrepareToken(t, s, ttl)
        PROVE  IdentityTypeOK'
    <2>1. session[s] \in SessionRow /\ now + ttl \in Nat
      BY DEF IdentityTypeOK
    <2>2. Prepared(s, ttl) \in TokenRow
      BY <2>1 DEF Prepared, SessionRow, TokenRow
    <2> QED
      BY <1>8, <2>2 DEF PrepareToken, IdentityTypeOK
  <1>9. ASSUME NEW t \in Tokens,
               Signed(t) \/ CommitToken(t) \/ Abandon(t) \/ AbandonPending(t) \/ IssuerDies(t)
               \/ VerifyToken(t)
        PROVE  IdentityTypeOK'
    <2>1. token[t] \in TokenRow
      BY DEF IdentityTypeOK
    <2>2. token' \in [Tokens -> TokenRow]
      <3>1. PICK s \in {"active", "indeterminate", token[t].state} :
                token' = [token EXCEPT ![t].state = s] \/ UNCHANGED token
        BY <1>9 DEF Signed, CommitToken, Abandon, AbandonPending, IssuerDies, VerifyToken
      <3>2. [token[t] EXCEPT !.state = s] \in TokenRow
        BY <2>1 DEF TokenRow
      <3> QED
        BY <3>1, <3>2 DEF IdentityTypeOK
    <2>3. issue' \in [Tokens -> {"idle", "signing", "signed", "failing", "failed", "returned",
                                "dead"}]
      BY <1>9 DEF Signed, CommitToken, Abandon, AbandonPending, IssuerDies, VerifyToken,
                  IdentityTypeOK
    <2>4. vouched' \in [Tokens -> Nat] /\ signatures' \subseteq Tokens
      BY <1>9 DEF Signed, CommitToken, Abandon, AbandonPending, IssuerDies, VerifyToken,
                  IdentityTypeOK
    <2>5. UNCHANGED <<subject, device, challenge, session, revocations, events, enroll, now,
                      attested, accepted>>
      BY <1>9 DEF Signed, CommitToken, Abandon, AbandonPending, IssuerDies, VerifyToken
    <2> QED
      BY <2>2, <2>3, <2>4, <2>5 DEF IdentityTypeOK
  <1>10. ASSUME NEW x \in Identity, Revoke(x)
         PROVE  IdentityTypeOK'
    <2>1. /\ device' \in [Devices -> DeviceRow] /\ session' \in [Sessions -> SessionRow]
          /\ challenge' \in [Challenges -> ChallengeRow] /\ token' \in [Tokens -> TokenRow]
      <3>1. \A d \in Devices : [device[d] EXCEPT !.state = "revoked"] \in DeviceRow
        BY DeviceRows DEF IdentityTypeOK
      <3>2. \A c \in Challenges : [challenge[c] EXCEPT !.state = "revoked"] \in ChallengeRow
        BY ChallengeRows DEF IdentityTypeOK
      <3>3. \A s \in Sessions : [session[s] EXCEPT !.state = "revoked"] \in SessionRow
        BY SessionRows DEF IdentityTypeOK
      <3>4. \A t \in Tokens : [token[t] EXCEPT !.state = "revoked"] \in TokenRow
        BY TokenRows DEF IdentityTypeOK
      <3>5. DOMAIN device = Devices /\ DOMAIN challenge = Challenges /\ DOMAIN session = Sessions
            /\ DOMAIN token = Tokens
        BY DEF IdentityTypeOK
      <3>6. device' \in [Devices -> DeviceRow]
        BY <1>10, <3>1, <3>5 DEF Revoke, Fall, IdentityTypeOK
      <3>7. challenge' \in [Challenges -> ChallengeRow]
        BY <1>10, <3>2, <3>5 DEF Revoke, Fall, IdentityTypeOK
      <3>8. session' \in [Sessions -> SessionRow]
        BY <1>10, <3>3, <3>5 DEF Revoke, Fall, IdentityTypeOK
      <3>9. token' \in [Tokens -> TokenRow]
        BY <1>10, <3>4, <3>5 DEF Revoke, Fall, IdentityTypeOK
      <3> QED
        BY <3>6, <3>7, <3>8, <3>9
    <2>2. subject' \in [Subjects -> {"absent", "active", "revoked"}]
      BY <1>10 DEF Revoke, IdentityTypeOK
    <2>3. /\ events' \in Seq(Identity) /\ revocations' = {events'[i] : i \in DOMAIN events'}
          /\ \A i, j \in DOMAIN events' : events'[i] = events'[j] => i = j
      <3>1. CASE x \in revocations
        <4>1. events' = events /\ revocations' = revocations
          BY <1>10, <3>1 DEF Revoke
        <4> QED
          BY <4>1 DEF IdentityTypeOK
      <3>2. CASE x \notin revocations
        <4>1. events' = Append(events, x) /\ revocations' = revocations \cup {x}
          BY <1>10, <3>2 DEF Revoke
        <4>2. events \in Seq(Identity) /\ revocations = {events[i] : i \in DOMAIN events}
              /\ \A i, j \in DOMAIN events : events[i] = events[j] => i = j
          BY DEF IdentityTypeOK
        <4>3. x \notin {events[i] : i \in DOMAIN events}
          BY <3>2, <4>2
        <4> DEFINE a == Append(events, x)
        <4>4. /\ a \in Seq(Identity) /\ {a[i] : i \in DOMAIN a} = {events[i] : i \in DOMAIN events} \cup {x}
              /\ \A i, j \in DOMAIN a : a[i] = a[j] => i = j
          BY <4>2, <4>3, FeedGrows
        <4>5. events' = a
          BY <4>1
        <4> HIDE DEF a
        <4>6. {a[i] : i \in DOMAIN a} = revocations'
          BY <4>1, <4>2, <4>4
        <4> QED
          BY <4>4, <4>5, <4>6, Zenon
      <3> QED
        BY <3>1, <3>2
    <2>4. UNCHANGED <<enroll, issue, now, attested, accepted, signatures, vouched>>
      BY <1>10 DEF Revoke
    <2> QED
      BY <2>1, <2>2, <2>3, <2>4 DEF IdentityTypeOK
  <1>11. CASE Tick
    BY <1>11 DEF Tick, IdentityTypeOK
  <1>12. CASE UNCHANGED identityVars
    BY <1>12 DEF identityVars, IdentityTypeOK
  <1> QED
    BY <1>1, <1>2, <1>3, <1>4, <1>5, <1>6, <1>7, <1>8, <1>9, <1>10, <1>11, <1>12
       DEF IdentityNext

-----------------------------------------------------------------------------
(* What the steps do to the tables                                         *)

\* What revoke() does to each table.
LEMMA RevokeFacts ==
    ASSUME IdentityTypeOK, NEW x \in Identity, Revoke(x)
    PROVE  /\ \A d \in Devices :
              /\ device'[d].subject = device[d].subject /\ device'[d].proof = device[d].proof
              /\ device'[d].state = IF x \in DeviceStandsOn(d) /\ device[d].state # "absent"
                                    THEN "revoked" ELSE device[d].state
           /\ \A c \in Challenges :
              /\ challenge'[c].subject = challenge[c].subject
              /\ challenge'[c].device = challenge[c].device
              /\ challenge'[c].expires_at = challenge[c].expires_at
              /\ challenge'[c].state = IF x \in ChallengeStandsOn(c) /\ challenge[c].state # "absent"
                                       THEN "revoked" ELSE challenge[c].state
           /\ \A s \in Sessions :
              /\ session'[s].subject = session[s].subject /\ session'[s].device = session[s].device
              /\ session'[s].expires_at = session[s].expires_at
              /\ session'[s].state = IF x \in SessionStandsOn(s) /\ session[s].state # "absent"
                                     THEN "revoked" ELSE session[s].state
           /\ \A t \in Tokens :
              /\ token'[t].subject = token[t].subject /\ token'[t].device = token[t].device
              /\ token'[t].session = token[t].session /\ token'[t].expires_at = token[t].expires_at
              /\ token'[t].state = IF x \in TokenStandsOn(t) /\ token[t].state # "absent"
                                   THEN "revoked" ELSE token[t].state
  <1>1. ASSUME NEW d \in Devices
        PROVE  /\ device'[d].subject = device[d].subject /\ device'[d].proof = device[d].proof
               /\ device'[d].state = IF x \in DeviceStandsOn(d) /\ device[d].state # "absent"
                                     THEN "revoked" ELSE device[d].state
    <2>1. device[d] \in DeviceRow /\ DOMAIN device = Devices
      BY DEF IdentityTypeOK
    <2>2. device'[d] = IF x \in DeviceStandsOn(d) /\ device[d].state # "absent"
                       THEN [device[d] EXCEPT !.state = "revoked"] ELSE device[d]
      BY <2>1 DEF Revoke, Fall
    <2> QED
      BY <2>1, <2>2 DEF DeviceRow
  <1>2. ASSUME NEW c \in Challenges
        PROVE  /\ challenge'[c].subject = challenge[c].subject
               /\ challenge'[c].device = challenge[c].device
               /\ challenge'[c].expires_at = challenge[c].expires_at
               /\ challenge'[c].state = IF x \in ChallengeStandsOn(c) /\ challenge[c].state # "absent"
                                        THEN "revoked" ELSE challenge[c].state
    <2>1. challenge[c] \in ChallengeRow /\ DOMAIN challenge = Challenges
      BY DEF IdentityTypeOK
    <2>2. challenge'[c] = IF x \in ChallengeStandsOn(c) /\ challenge[c].state # "absent"
                          THEN [challenge[c] EXCEPT !.state = "revoked"] ELSE challenge[c]
      BY <2>1 DEF Revoke, Fall
    <2> QED
      BY <2>1, <2>2 DEF ChallengeRow
  <1>3. ASSUME NEW s \in Sessions
        PROVE  /\ session'[s].subject = session[s].subject /\ session'[s].device = session[s].device
               /\ session'[s].expires_at = session[s].expires_at
               /\ session'[s].state = IF x \in SessionStandsOn(s) /\ session[s].state # "absent"
                                      THEN "revoked" ELSE session[s].state
    <2>1. session[s] \in SessionRow /\ DOMAIN session = Sessions
      BY DEF IdentityTypeOK
    <2>2. session'[s] = IF x \in SessionStandsOn(s) /\ session[s].state # "absent"
                        THEN [session[s] EXCEPT !.state = "revoked"] ELSE session[s]
      BY <2>1 DEF Revoke, Fall
    <2> QED
      BY <2>1, <2>2 DEF SessionRow
  <1>4. ASSUME NEW t \in Tokens
        PROVE  /\ token'[t].subject = token[t].subject /\ token'[t].device = token[t].device
               /\ token'[t].session = token[t].session /\ token'[t].expires_at = token[t].expires_at
               /\ token'[t].state = IF x \in TokenStandsOn(t) /\ token[t].state # "absent"
                                    THEN "revoked" ELSE token[t].state
    <2>1. token[t] \in TokenRow /\ DOMAIN token = Tokens
      BY DEF IdentityTypeOK
    <2>2. token'[t] = IF x \in TokenStandsOn(t) /\ token[t].state # "absent"
                      THEN [token[t] EXCEPT !.state = "revoked"] ELSE token[t]
      BY <2>1 DEF Revoke, Fall
    <2> QED
      BY <2>1, <2>2 DEF TokenRow
  <1> QED
    BY <1>1, <1>2, <1>3, <1>4

\* The steps of issue() and verify() after the first transaction.
IssueStep(t) == Signed(t) \/ CommitToken(t) \/ Abandon(t) \/ AbandonPending(t) \/ IssuerDies(t)
                \/ VerifyToken(t)

\* They change the state of one token, and make it active only by a commit.
LEMMA IssueFacts ==
    ASSUME IdentityTypeOK, NEW t \in Tokens, IssueStep(t)
    PROVE  /\ UNCHANGED <<subject, device, challenge, session, revocations, events, enroll, now,
                          attested, accepted>>
           /\ \A k \in Tokens :
              /\ token'[k].subject = token[k].subject /\ token'[k].device = token[k].device
              /\ token'[k].session = token[k].session /\ token'[k].expires_at = token[k].expires_at
              /\ token'[k].state # token[k].state =>
                    /\ k = t /\ token[k].state = "preparing"
                    /\ \/ token'[k].state = "indeterminate"
                       \/ /\ token'[k].state = "active" /\ ClaimsHold(k)
                          /\ issue[k] = "signed" /\ issue'[k] \in {"returned", "dead"}
              /\ k # t => issue'[k] = issue[k]
  <1>1. UNCHANGED <<subject, device, challenge, session, revocations, events, enroll, now,
                    attested, accepted>>
    BY DEF IssueStep, Signed, CommitToken, Abandon, AbandonPending, IssuerDies, VerifyToken
  <1>2. ASSUME NEW k \in Tokens
        PROVE  k # t => issue'[k] = issue[k]
    BY DEF IssueStep, Signed, CommitToken, Abandon, AbandonPending, IssuerDies, VerifyToken,
           IdentityTypeOK
  <1>3. \/ UNCHANGED token
        \/ token[t].state = "preparing" /\ token' = [token EXCEPT ![t].state = "indeterminate"]
        \/ /\ token[t].state = "preparing" /\ token' = [token EXCEPT ![t].state = "active"]
           /\ ClaimsHold(t) /\ issue[t] = "signed" /\ issue'[t] \in {"returned", "dead"}
    <2>1. CASE Signed(t) \/ IssuerDies(t) \/ VerifyToken(t)
      BY <2>1 DEF Signed, IssuerDies, VerifyToken
    <2>2. CASE CommitToken(t)
      BY <2>2 DEF CommitToken, Activatable, IdentityTypeOK
    <2>3. CASE AbandonPending(t)
      BY <2>3 DEF AbandonPending
    <2>4. CASE Abandon(t)
      <3>1. CASE UNCHANGED token
        BY <3>1
      <3>2. CASE token[t].state = "preparing" /\ ~UNCHANGED token
        BY <2>4, <3>2 DEF Abandon
      <3>3. CASE token[t].state # "preparing" /\ ~UNCHANGED token
        <4>1. token' = [token EXCEPT ![t].state = token[t].state]
          BY <2>4, <3>3 DEF Abandon
        <4>2. token[t] \in TokenRow /\ token \in [Tokens -> TokenRow]
          BY DEF IdentityTypeOK
        <4>3. [token[t] EXCEPT !.state = token[t].state] = token[t]
          BY <4>2 DEF TokenRow
        <4> QED
          BY <4>1, <4>2, <4>3
      <3> QED
        BY <3>1, <3>2, <3>3
    <2> QED
      BY <2>1, <2>2, <2>3, <2>4 DEF IssueStep
  <1>4. ASSUME NEW k \in Tokens
        PROVE  /\ token'[k].subject = token[k].subject /\ token'[k].device = token[k].device
               /\ token'[k].session = token[k].session /\ token'[k].expires_at = token[k].expires_at
               /\ token'[k].state # token[k].state =>
                     /\ k = t /\ token[k].state = "preparing"
                     /\ \/ token'[k].state = "indeterminate"
                        \/ /\ token'[k].state = "active" /\ ClaimsHold(k)
                           /\ issue[k] = "signed" /\ issue'[k] \in {"returned", "dead"}
    <2>1. token[k] \in TokenRow /\ DOMAIN token = Tokens
      BY DEF IdentityTypeOK
    <2>2. CASE k # t \/ UNCHANGED token
      <3>1. token'[k] = token[k]
        BY <1>3, <2>1, <2>2
      <3> QED
        BY <3>1
    <2>3. CASE k = t /\ ~UNCHANGED token
      <3>1. PICK s \in {"active", "indeterminate"} : token'[k] = [token[k] EXCEPT !.state = s]
        BY <1>3, <2>1, <2>3
      <3>2. /\ token'[k].subject = token[k].subject /\ token'[k].device = token[k].device
            /\ token'[k].session = token[k].session /\ token'[k].expires_at = token[k].expires_at
            /\ token'[k].state = s
        BY <2>1, <3>1 DEF TokenRow
      <3>3. token'[k].state = "indeterminate" \/ token'[k].state = "active"
        BY <3>2
      <3>4. token' = [token EXCEPT ![t].state = "indeterminate"] =>
                token'[t].state = "indeterminate"
        BY <2>1, <2>3 DEF TokenRow
      <3>5. token[t].state = "preparing"
            /\ (token'[t].state # "indeterminate" =>
                  ClaimsHold(t) /\ issue[t] = "signed" /\ issue'[t] \in {"returned", "dead"})
        BY <1>3, <2>3, <3>4, Zenon
      <3> QED
        BY <2>3, <3>2, <3>3, <3>4, <3>5
    <2> QED
      BY <2>2, <2>3
  <1> QED
    BY <1>1, <1>2, <1>4

-----------------------------------------------------------------------------
(* Owners                                                                  *)

\* The columns of a row that is there name its owners.
RowsAreOwned ==
    /\ \A d \in Devices : device[d].state # "absent" => device[d].subject \in Subjects
    /\ \A c \in Challenges : challenge[c].state # "absent" =>
          challenge[c].subject \in Subjects /\ challenge[c].device \in Devices
    /\ \A s \in Sessions : session[s].state # "absent" =>
          session[s].subject \in Subjects /\ session[s].device \in Devices
    /\ \A t \in Tokens : token[t].state # "absent" =>
          /\ token[t].subject \in Subjects /\ token[t].device \in Devices
          /\ token[t].session \in Sessions

\* What accept_attestation() reads and what it changes, in terms of the
\* verdict, the challenge it is about and the device the challenge is for.
Accepted(at, v, c, d) ==
    /\ v \in Verdict /\ c \in Challenges /\ d \in Devices /\ v.proof \in Proofs
    /\ c = v.challenge /\ d = challenge[c].device
    /\ challenge[c].state = "issued" /\ challenge'[c].state = "consumed"
    /\ challenge[c].subject \in Subjects /\ LiveSubject(challenge[c].subject)
    /\ <<"device", d>> \notin revocations
    /\ WindowOpen(v.verified_at, v.expires_at, challenge[c].expires_at, at)
    /\ Bind(d, challenge[c].subject, v, at)
    /\ \A k \in Challenges :
          /\ challenge'[k].subject = challenge[k].subject
          /\ challenge'[k].device = challenge[k].device
          /\ challenge'[k].expires_at = challenge[k].expires_at
          /\ k # c => challenge'[k] = challenge[k]
    /\ \A k \in Challenges : accepted'[k] = IF k = c THEN accepted[k] + 1 ELSE accepted[k]
    /\ \A k \in Devices : k # d => device'[k] = device[k] /\ attested'[k] = attested[k]
    /\ \/ device' = device /\ attested' = attested
       \/ /\ device[d].state = "absent" /\ device'[d].state = "active"
          /\ device'[d].subject = challenge[c].subject /\ device'[d].proof = v.proof
          /\ attested'[d].verdict = v /\ attested'[d].at = at
    /\ subject' = subject /\ session' = session /\ token' = token
    /\ revocations' = revocations /\ events' = events /\ issue' = issue
    /\ signatures' = signatures /\ vouched' = vouched

LEMMA AcceptFacts ==
    ASSUME IdentityTypeOK, RowsAreOwned, NEW e \in Enrollments, NEW at \in 0..MaxTime,
           AcceptAttestation(e, at)
    PROVE  \E v, c, d : Accepted(at, v, c, d)
  <1>0. PICK v, c, d : v = enroll[e].verdict /\ c = v.challenge /\ d = challenge[c].device
    OBVIOUS
  <1>1. v \in Verdict /\ c \in Challenges /\ v.proof \in Proofs
    BY <1>0 DEF AcceptAttestation, IdentityTypeOK, EnrollCall, NotEnrolling, Verdict
  <1>2. /\ challenge[c].state = "issued" /\ LiveSubject(challenge[c].subject)
        /\ <<"device", d>> \notin revocations
        /\ WindowOpen(v.verified_at, v.expires_at, challenge[c].expires_at, at)
        /\ Bind(d, challenge[c].subject, v, at)
        /\ challenge' = [challenge EXCEPT ![c].state = "consumed"]
        /\ accepted' = [accepted EXCEPT ![c] = @ + 1]
        /\ subject' = subject /\ session' = session /\ token' = token
        /\ revocations' = revocations /\ events' = events /\ issue' = issue
        /\ signatures' = signatures /\ vouched' = vouched
    BY <1>0 DEF AcceptAttestation, Unspent, WindowStaysOpen, Revoked
  <1>3. challenge[c].subject \in Subjects /\ d \in Devices
    BY <1>0, <1>1, <1>2 DEF RowsAreOwned
  <1>4. challenge \in [Challenges -> ChallengeRow] /\ challenge[c] \in ChallengeRow
    BY <1>1 DEF IdentityTypeOK
  <1>5. /\ challenge'[c].subject = challenge[c].subject /\ challenge'[c].device = challenge[c].device
        /\ challenge'[c].expires_at = challenge[c].expires_at /\ challenge'[c].state = "consumed"
    BY <1>1, <1>2, <1>4 DEF ChallengeRow
  <1>6. \A k \in Challenges : k # c => challenge'[k] = challenge[k]
    BY <1>2, <1>4
  <1>7. \A k \in Challenges : accepted'[k] = IF k = c THEN accepted[k] + 1 ELSE accepted[k]
    BY <1>1, <1>2 DEF IdentityTypeOK
  <1>8. /\ \A k \in Devices : k # d => device'[k] = device[k] /\ attested'[k] = attested[k]
        /\ \/ device' = device /\ attested' = attested
           \/ /\ device[d].state = "absent" /\ device'[d].state = "active"
              /\ device'[d].subject = challenge[c].subject /\ device'[d].proof = v.proof
              /\ attested'[d].verdict = v /\ attested'[d].at = at
    <2>1. CASE UNCHANGED <<device, attested>>
      BY <2>1
    <2>2. CASE ~UNCHANGED <<device, attested>>
      <3> DEFINE row == [state |-> "active", subject |-> challenge[c].subject, proof |-> v.proof]
                 verdict == [verdict |-> v, at |-> at]
      <3>1. /\ device[d].state = "absent" /\ device' = [device EXCEPT ![d] = row]
            /\ attested' = [attested EXCEPT ![d] = verdict]
        BY <1>2, <2>2 DEF Bind
      <3>2. /\ row.state = "active" /\ row.subject = challenge[c].subject /\ row.proof = v.proof
            /\ verdict.verdict = v /\ verdict.at = at
        OBVIOUS
      <3>3. DOMAIN device = Devices /\ DOMAIN attested = Devices
        BY DEF IdentityTypeOK
      <3> HIDE DEF row, verdict
      <3>4. device'[d] = row /\ attested'[d] = verdict
        BY <1>3, <3>1, <3>3
      <3>5. \A k \in Devices : k # d => device'[k] = device[k] /\ attested'[k] = attested[k]
        BY <3>1, <3>3
      <3> QED
        BY <3>1, <3>2, <3>4, <3>5
    <2> QED
      BY <2>1, <2>2
  <1>9. \A k \in Challenges :
           /\ challenge'[k].subject = challenge[k].subject
           /\ challenge'[k].device = challenge[k].device
           /\ challenge'[k].expires_at = challenge[k].expires_at
    BY <1>5, <1>6
  <1>10. Accepted(at, v, c, d)
    BY <1>0, <1>1, <1>2, <1>3, <1>5, <1>6, <1>7, <1>8, <1>9 DEF Accepted
  <1> QED
    BY <1>10

\* Every step keeps the owners of rows named.
LEMMA OwnedStep ==
    ASSUME IdentityTypeOK, RowsAreOwned, [IdentityNext]_identityVars
    PROVE  RowsAreOwned'
  <1>1. ASSUME UNCHANGED <<device, challenge, session, token>>
        PROVE  RowsAreOwned'
    BY <1>1 DEF RowsAreOwned
  <1>2. ASSUME NEW c \in Challenges, NEW u \in Subjects, NEW d \in Devices, NEW ttl \in Lifetimes,
               Challenge(c, u, d, ttl)
        PROVE  RowsAreOwned'
    BY <1>2 DEF Challenge, RowsAreOwned, IdentityTypeOK
  <1>3. ASSUME NEW e \in Enrollments, NEW at \in 0..MaxTime, AcceptAttestation(e, at)
        PROVE  RowsAreOwned'
    <2>1. PICK v, c, d : Accepted(at, v, c, d)
      BY <1>3, AcceptFacts
    <2> QED
      BY <2>1 DEF Accepted, RowsAreOwned
  <1>4. ASSUME NEW s \in Sessions, NEW u \in Subjects, NEW d \in Devices, NEW ttl \in Lifetimes,
               CreateSession(s, u, d, ttl)
        PROVE  RowsAreOwned'
    BY <1>4 DEF CreateSession, RowsAreOwned, IdentityTypeOK
  <1>5. ASSUME NEW t \in Tokens, NEW s \in Sessions, NEW ttl \in Lifetimes, PrepareToken(t, s, ttl)
        PROVE  RowsAreOwned'
    BY <1>5 DEF PrepareToken, Prepared, RowsAreOwned, IdentityTypeOK
  <1>6. ASSUME NEW t \in Tokens, IssueStep(t)
        PROVE  RowsAreOwned'
    BY <1>6, IssueFacts DEF RowsAreOwned
  <1>7. ASSUME NEW x \in Identity, Revoke(x)
        PROVE  RowsAreOwned'
    BY <1>7, RevokeFacts DEF RowsAreOwned
  <1> QED
    BY <1>1, <1>2, <1>3, <1>4, <1>5, <1>6, <1>7
       DEF IdentityNext, IssueStep, identityVars, AdmitSubject, EnrollAsk, EnrollConfirmed,
           EnrollEnds, Tick

-----------------------------------------------------------------------------
(* The chain of authority                                                  *)

\* revoke() breaks every chain it cuts, at each of its links.
LEMMA ChainRevoke ==
    ASSUME IdentityTypeOK, RowsAreOwned, ChainOfAuthority, NEW x \in Identity, Revoke(x)
    PROVE  ChainOfAuthority'
  <1>1. revocations' = revocations \cup {x}
    BY DEF Revoke
  <1>2. /\ \A d \in Devices : DeviceStandsOn(d)' = DeviceStandsOn(d)
        /\ \A c \in Challenges : ChallengeStandsOn(c)' = ChallengeStandsOn(c)
        /\ \A s \in Sessions : SessionStandsOn(s)' = SessionStandsOn(s)
        /\ \A t \in Tokens : TokenStandsOn(t)' = TokenStandsOn(t)
    BY RevokeFacts DEF DeviceStandsOn, ChallengeStandsOn, SessionStandsOn, TokenStandsOn
  <1>3. ASSUME NEW d \in Devices, device'[d].state = "active"
        PROVE  subject'[device'[d].subject] = "active" /\ DeviceStandsOn(d)' \cap revocations' = {}
    <2>1. device[d].state = "active" /\ x \notin DeviceStandsOn(d)
          /\ device'[d].subject = device[d].subject
      BY <1>3, RevokeFacts
    <2>2. device[d].subject \in Subjects /\ x # <<"subject", device[d].subject>>
      BY <2>1 DEF RowsAreOwned, DeviceStandsOn
    <2>3. subject'[device[d].subject] = subject[device[d].subject]
      BY <2>2 DEF Revoke
    <2> QED
      BY <1>1, <1>2, <2>1, <2>3 DEF ChainOfAuthority
  <1>4. ASSUME NEW c \in Challenges, challenge'[c].state = "issued"
        PROVE  ChallengeStandsOn(c)' \cap revocations' = {}
    <2>1. challenge[c].state = "issued" /\ x \notin ChallengeStandsOn(c)
      BY <1>4, RevokeFacts
    <2> QED
      BY <1>1, <1>2, <2>1 DEF ChainOfAuthority
  <1>5. ASSUME NEW s \in Sessions, session'[s].state = "active"
        PROVE  /\ device'[session'[s].device].state = "active"
               /\ device'[session'[s].device].subject = session'[s].subject
               /\ SessionStandsOn(s)' \cap revocations' = {}
    <2>1. session[s].state = "active" /\ x \notin SessionStandsOn(s)
          /\ session'[s].subject = session[s].subject /\ session'[s].device = session[s].device
      BY <1>5, RevokeFacts
    <2>2. /\ session[s].device \in Devices /\ device[session[s].device].state = "active"
          /\ device[session[s].device].subject = session[s].subject
          /\ SessionStandsOn(s) \cap revocations = {}
      BY <2>1 DEF RowsAreOwned, ChainOfAuthority
    <2>3. x \notin DeviceStandsOn(session[s].device)
      BY <2>1, <2>2 DEF SessionStandsOn, DeviceStandsOn
    <2> QED
      BY <1>1, <1>2, <2>1, <2>2, <2>3, RevokeFacts
  <1>6. ASSUME NEW t \in Tokens, token'[t].state = "active"
        PROVE  /\ session'[token'[t].session].state = "active"
               /\ session'[token'[t].session].subject = token'[t].subject
               /\ session'[token'[t].session].device = token'[t].device
               /\ TokenStandsOn(t)' \cap revocations' = {}
    <2>1. token[t].state = "active" /\ x \notin TokenStandsOn(t)
          /\ token'[t].subject = token[t].subject /\ token'[t].device = token[t].device
          /\ token'[t].session = token[t].session
      BY <1>6, RevokeFacts
    <2>2. /\ token[t].session \in Sessions /\ session[token[t].session].state = "active"
          /\ session[token[t].session].subject = token[t].subject
          /\ session[token[t].session].device = token[t].device
          /\ TokenStandsOn(t) \cap revocations = {}
      BY <2>1 DEF RowsAreOwned, ChainOfAuthority
    <2>3. x \notin SessionStandsOn(token[t].session)
      BY <2>1, <2>2 DEF TokenStandsOn, SessionStandsOn
    <2> QED
      BY <1>1, <1>2, <2>1, <2>2, <2>3, RevokeFacts
  <1> QED
    BY <1>3, <1>4, <1>5, <1>6, Zenon DEF ChainOfAuthority

\* Every other step adds a link only where the rest of the chain holds.
LEMMA ChainStep ==
    ASSUME IdentityTypeOK, RowsAreOwned, ChainOfAuthority, [IdentityNext]_identityVars
    PROVE  ChainOfAuthority'
  <1>1. ASSUME UNCHANGED <<subject, device, challenge, session, token, revocations>>
        PROVE  ChainOfAuthority'
    BY <1>1, Zenon DEF ChainOfAuthority, DeviceStandsOn, ChallengeStandsOn, SessionStandsOn, TokenStandsOn
  <1>2. ASSUME NEW u \in Subjects, AdmitSubject(u)
        PROVE  ChainOfAuthority'
    <2>1. \A w : subject[w] = "active" => subject'[w] = "active"
      BY <1>2 DEF AdmitSubject, IdentityTypeOK
    <2> QED
      BY <1>2, <2>1 DEF AdmitSubject, ChainOfAuthority, DeviceStandsOn, ChallengeStandsOn, SessionStandsOn,
                  TokenStandsOn
  <1>3. ASSUME NEW c \in Challenges, NEW u \in Subjects, NEW d \in Devices, NEW ttl \in Lifetimes,
               Challenge(c, u, d, ttl)
        PROVE  ChainOfAuthority'
    <2>1. UNCHANGED <<subject, device, session, token, revocations>>
      BY <1>3 DEF Challenge
    <2>2. \A k \in Challenges : k # c => challenge'[k] = challenge[k]
      BY <1>3 DEF Challenge, IdentityTypeOK
    <2>3. challenge'[c].subject = u /\ challenge'[c].device = d
      BY <1>3 DEF Challenge, IdentityTypeOK
    <2>4. ChallengeStandsOn(c)' \cap revocations' = {}
      BY <1>3, <2>1, <2>3 DEF Challenge, LiveSubject, Revoked, ChallengeStandsOn
    <2>5. \A k \in Challenges : challenge'[k].state = "issued" =>
              ChallengeStandsOn(k)' \cap revocations' = {}
      BY <2>1, <2>2, <2>4 DEF ChainOfAuthority, ChallengeStandsOn
    <2> QED
      BY <2>1, <2>5, Zenon DEF ChainOfAuthority, DeviceStandsOn, SessionStandsOn, TokenStandsOn
  <1>4. ASSUME NEW e \in Enrollments, NEW at \in 0..MaxTime, AcceptAttestation(e, at)
        PROVE  ChainOfAuthority'
    <2>1. PICK v, c, d : Accepted(at, v, c, d)
      BY <1>4, AcceptFacts
    <2>2. subject' = subject /\ session' = session /\ token' = token /\ revocations' = revocations
      BY <2>1 DEF Accepted
    <2>3. \A k \in Devices : device[k].state # "absent" => device'[k] = device[k]
      BY <2>1 DEF Accepted
    <2>4. ASSUME NEW k \in Devices, device'[k].state = "active", device'[k] # device[k]
          PROVE  subject'[device'[k].subject] = "active" /\ DeviceStandsOn(k)' \cap revocations' = {}
      BY <2>1, <2>2, <2>4 DEF Accepted, LiveSubject, Revoked, DeviceStandsOn
    <2>5. \A k \in Devices : device'[k].state = "active" =>
              subject'[device'[k].subject] = "active" /\ DeviceStandsOn(k)' \cap revocations' = {}
      BY <2>2, <2>4 DEF ChainOfAuthority, DeviceStandsOn
    <2>6. \A k \in Challenges : challenge'[k].state = "issued" =>
              ChallengeStandsOn(k)' \cap revocations' = {}
      BY <2>1, <2>2 DEF Accepted, ChainOfAuthority, ChallengeStandsOn
    <2>7. \A s \in Sessions : session'[s].state = "active" =>
              /\ device'[session'[s].device].state = "active"
              /\ device'[session'[s].device].subject = session'[s].subject
              /\ SessionStandsOn(s)' \cap revocations' = {}
      BY <2>2, <2>3 DEF ChainOfAuthority, SessionStandsOn, RowsAreOwned
    <2>8. \A t \in Tokens : token'[t].state = "active" =>
              /\ session'[token'[t].session].state = "active"
              /\ session'[token'[t].session].subject = token'[t].subject
              /\ session'[token'[t].session].device = token'[t].device
              /\ TokenStandsOn(t)' \cap revocations' = {}
      BY <2>2 DEF ChainOfAuthority, TokenStandsOn
    <2> QED
      BY <2>5, <2>6, <2>7, <2>8, Zenon DEF ChainOfAuthority
  <1>5. ASSUME NEW s \in Sessions, NEW u \in Subjects, NEW d \in Devices, NEW ttl \in Lifetimes,
               CreateSession(s, u, d, ttl)
        PROVE  ChainOfAuthority'
    <2>1. UNCHANGED <<subject, device, challenge, token, revocations>>
      BY <1>5 DEF CreateSession
    <2>2. \A k \in Sessions : k # s => session'[k] = session[k]
      BY <1>5 DEF CreateSession, IdentityTypeOK
    <2>3. session[s].state = "absent" /\ session'[s].subject = u /\ session'[s].device = d
      BY <1>5 DEF CreateSession, IdentityTypeOK
    <2>4. device[d].state = "active" /\ device[d].subject = u /\ SessionStandsOn(s)' \cap revocations' = {}
      BY <1>5, <2>1, <2>3 DEF CreateSession, LiveDevice, LiveSubject, Revoked, SessionStandsOn
    <2>5. \A k \in Sessions : session'[k].state = "active" =>
              /\ device[session'[k].device].state = "active"
              /\ device[session'[k].device].subject = session'[k].subject
              /\ SessionStandsOn(k)' \cap revocations' = {}
      BY <2>1, <2>2, <2>3, <2>4 DEF ChainOfAuthority, SessionStandsOn
    <2>6. \A t \in Tokens : token[t].state = "active" =>
              /\ session'[token[t].session].state = "active"
              /\ session'[token[t].session].subject = token[t].subject
              /\ session'[token[t].session].device = token[t].device
      <3>1. \A t \in Tokens : token[t].state = "active" =>
                token[t].session \in Sessions /\ token[t].session # s
        BY <2>3 DEF ChainOfAuthority, RowsAreOwned
      <3> QED
        BY <2>2, <3>1 DEF ChainOfAuthority
    <2> QED
      BY <2>1, <2>5, <2>6, Zenon DEF ChainOfAuthority, DeviceStandsOn, ChallengeStandsOn, TokenStandsOn
  <1>6. ASSUME NEW t \in Tokens, NEW s \in Sessions, NEW ttl \in Lifetimes, PrepareToken(t, s, ttl)
        PROVE  ChainOfAuthority'
    BY <1>6 DEF PrepareToken, Prepared, ChainOfAuthority, DeviceStandsOn,
                ChallengeStandsOn, SessionStandsOn, TokenStandsOn, IdentityTypeOK
  <1>7. ASSUME NEW t \in Tokens, IssueStep(t)
        PROVE  ChainOfAuthority'
    <2>1. UNCHANGED <<subject, device, challenge, session, revocations>>
      BY <1>7, IssueFacts
    <2>2. ASSUME NEW k \in Tokens, token'[k].state = "active"
          PROVE  /\ session[token[k].session].state = "active"
                 /\ session[token[k].session].subject = token[k].subject
                 /\ session[token[k].session].device = token[k].device
                 /\ TokenStandsOn(k) \cap revocations = {}
      <3>1. CASE token[k].state = "active"
        BY <3>1 DEF ChainOfAuthority
      <3>2. CASE token[k].state # "active"
        <4>1. ClaimsHold(k)
          BY <1>7, <2>2, <3>2, IssueFacts
        <4> QED
          BY <4>1 DEF ClaimsHold, LiveSession, LiveDevice, LiveSubject, Revoked, TokenStandsOn
      <3> QED
        BY <3>1, <3>2
    <2>3. \A k \in Tokens : token'[k].subject = token[k].subject /\ token'[k].device = token[k].device
                             /\ token'[k].session = token[k].session
      BY <1>7, IssueFacts
    <2>4. \A k \in Tokens : TokenStandsOn(k)' = TokenStandsOn(k)
      BY <2>3 DEF TokenStandsOn
    <2>5. \A k \in Tokens : token'[k].state = "active" =>
              /\ session'[token'[k].session].state = "active"
              /\ session'[token'[k].session].subject = token'[k].subject
              /\ session'[token'[k].session].device = token'[k].device
              /\ TokenStandsOn(k)' \cap revocations' = {}
      BY <2>1, <2>2, <2>3, <2>4
    <2> QED
      BY <2>1, <2>5 DEF ChainOfAuthority, DeviceStandsOn, ChallengeStandsOn, SessionStandsOn
  <1>8. ASSUME NEW x \in Identity, Revoke(x)
        PROVE  ChainOfAuthority'
    BY <1>8, ChainRevoke
  <1> QED
    BY <1>1, <1>2, <1>3, <1>4, <1>5, <1>6, <1>7, <1>8
       DEF IdentityNext, IssueStep, identityVars, EnrollAsk, EnrollConfirmed, EnrollEnds, Tick

-----------------------------------------------------------------------------
(* Enrolment                                                               *)

\* A challenge that may still be answered was not answered.
SpentIsConsumed ==
    \A c \in Challenges : challenge[c].state \in {"absent", "issued"} => accepted[c] = 0

\* A challenge that was answered is never issued again.
LEMMA EnrollmentStep ==
    ASSUME IdentityTypeOK, RowsAreOwned, SpentIsConsumed, ChallengeSpentOnce, EnrollmentIsAttested,
           [IdentityNext]_identityVars
    PROVE  SpentIsConsumed' /\ ChallengeSpentOnce' /\ EnrollmentIsAttested'
  <1>1. ASSUME UNCHANGED <<challenge, device, attested, accepted>>
        PROVE  SpentIsConsumed' /\ ChallengeSpentOnce' /\ EnrollmentIsAttested'
    BY <1>1 DEF SpentIsConsumed, ChallengeSpentOnce, EnrollmentIsAttested
  <1>2. ASSUME NEW c \in Challenges, NEW u \in Subjects, NEW d \in Devices, NEW ttl \in Lifetimes,
               Challenge(c, u, d, ttl)
        PROVE  SpentIsConsumed' /\ ChallengeSpentOnce' /\ EnrollmentIsAttested'
    <2>1. UNCHANGED <<device, attested, accepted>> /\ challenge[c].state = "absent"
          /\ \A k \in Challenges : k # c => challenge'[k] = challenge[k]
      BY <1>2 DEF Challenge, IdentityTypeOK
    <2>2. SpentIsConsumed' /\ ChallengeSpentOnce'
      BY <2>1 DEF SpentIsConsumed, ChallengeSpentOnce
    <2>3. ASSUME NEW k \in Devices, device[k].state # "absent"
          PROVE  attested[k].verdict.challenge \in Challenges /\ attested[k].verdict.challenge # c
      <3>1. attested[k].verdict \in Verdict
        BY <2>3 DEF EnrollmentIsAttested, IdentityTypeOK
      <3> QED
        BY <2>1, <2>3, <3>1 DEF EnrollmentIsAttested, Verdict
    <2>4. EnrollmentIsAttested'
      BY <2>1, <2>3 DEF EnrollmentIsAttested
    <2> QED
      BY <2>2, <2>4
  <1>3. ASSUME NEW e \in Enrollments, NEW at \in 0..MaxTime, AcceptAttestation(e, at)
        PROVE  SpentIsConsumed' /\ ChallengeSpentOnce' /\ EnrollmentIsAttested'
    <2>1. PICK v, c, d : Accepted(at, v, c, d)
      BY <1>3, AcceptFacts
    <2>2. \A k \in Challenges : accepted[k] \in Nat
      BY DEF IdentityTypeOK
    <2>3. accepted[c] = 0
      BY <2>1 DEF Accepted, SpentIsConsumed
    <2>4. SpentIsConsumed' /\ ChallengeSpentOnce'
      BY <2>1, <2>2, <2>3 DEF Accepted, SpentIsConsumed, ChallengeSpentOnce
    <2>5. ASSUME NEW k \in Devices, device'[k].state # "absent"
          PROVE  LET w == attested'[k].verdict IN
                 /\ w # NoVerdict /\ w.proof = device'[k].proof
                 /\ challenge'[w.challenge].device = k
                 /\ challenge'[w.challenge].subject = device'[k].subject
                 /\ challenge'[w.challenge].state \in {"consumed", "revoked"}
                 /\ WindowOpen(w.verified_at, w.expires_at, challenge'[w.challenge].expires_at,
                               attested'[k].at)
      <3>1. CASE device'[k] = device[k] /\ attested'[k] = attested[k]
        <4> DEFINE w == attested[k].verdict
        <4>1. /\ w # NoVerdict /\ w.proof = device[k].proof
              /\ challenge[w.challenge].device = k
              /\ challenge[w.challenge].subject = device[k].subject
              /\ challenge[w.challenge].state \in {"consumed", "revoked"}
              /\ WindowOpen(w.verified_at, w.expires_at, challenge[w.challenge].expires_at,
                            attested[k].at)
          BY <2>5, <3>1, Zenon DEF EnrollmentIsAttested
        <4>2. w \in Verdict
          BY <4>1 DEF IdentityTypeOK
        <4>3. w.challenge \in Challenges /\ w.challenge # c
          BY <2>1, <4>1, <4>2 DEF Accepted, Verdict
        <4>4. challenge'[w.challenge] = challenge[w.challenge]
          BY <2>1, <4>3 DEF Accepted
        <4> QED
          BY <3>1, <4>1, <4>4
      <3>2. CASE ~(device'[k] = device[k] /\ attested'[k] = attested[k])
        <4>1. k = d /\ device'[d].subject = challenge[c].subject /\ device'[d].proof = v.proof
              /\ attested'[d].verdict = v /\ attested'[d].at = at
          BY <2>1, <3>2 DEF Accepted
        <4>2. v # NoVerdict
          BY <2>1, IdentityAssumption DEF Accepted, Verdict, NoVerdict
        <4>3. v.challenge = c /\ challenge'[c].device = d
              /\ challenge'[c].subject = challenge[c].subject /\ challenge'[c].state = "consumed"
              /\ WindowOpen(v.verified_at, v.expires_at, challenge'[c].expires_at, at)
          BY <2>1 DEF Accepted
        <4> QED
          BY <4>1, <4>2, <4>3
      <3> QED
        BY <3>1, <3>2
    <2>6. EnrollmentIsAttested'
      BY <2>5, Zenon DEF EnrollmentIsAttested, WindowOpen
    <2> QED
      BY <2>4, <2>6
  <1>4. ASSUME NEW x \in Identity, Revoke(x)
        PROVE  SpentIsConsumed' /\ ChallengeSpentOnce' /\ EnrollmentIsAttested'
    <2>1. UNCHANGED <<attested, accepted>>
      BY <1>4 DEF Revoke
    <2>2. SpentIsConsumed' /\ ChallengeSpentOnce'
      BY <1>4, <2>1, RevokeFacts DEF SpentIsConsumed, ChallengeSpentOnce
    <2>3. ASSUME NEW k \in Devices, device[k].state # "absent"
          PROVE  attested[k].verdict.challenge \in Challenges
      <3>1. attested[k].verdict \in Verdict
        BY <2>3 DEF EnrollmentIsAttested, IdentityTypeOK
      <3> QED
        BY <3>1 DEF Verdict
    <2>4. ASSUME NEW k \in Devices, device'[k].state # "absent"
          PROVE  LET w == attested'[k].verdict IN
                 /\ w # NoVerdict /\ w.proof = device'[k].proof
                 /\ challenge'[w.challenge].device = k
                 /\ challenge'[w.challenge].subject = device'[k].subject
                 /\ challenge'[w.challenge].state \in {"consumed", "revoked"}
                 /\ WindowOpen(w.verified_at, w.expires_at, challenge'[w.challenge].expires_at,
                               attested'[k].at)
      <3> DEFINE w == attested[k].verdict
      <3>1. device[k].state # "absent" /\ device'[k].subject = device[k].subject
            /\ device'[k].proof = device[k].proof
        BY <1>4, <2>4, RevokeFacts
      <3>2. /\ w # NoVerdict /\ w.proof = device[k].proof
            /\ challenge[w.challenge].device = k
            /\ challenge[w.challenge].subject = device[k].subject
            /\ challenge[w.challenge].state \in {"consumed", "revoked"}
            /\ WindowOpen(w.verified_at, w.expires_at, challenge[w.challenge].expires_at,
                          attested[k].at)
        BY <3>1, Zenon DEF EnrollmentIsAttested
      <3>3. w.challenge \in Challenges
        BY <2>3, <3>1
      <3>4. /\ challenge'[w.challenge].device = challenge[w.challenge].device
            /\ challenge'[w.challenge].subject = challenge[w.challenge].subject
            /\ challenge'[w.challenge].expires_at = challenge[w.challenge].expires_at
            /\ challenge'[w.challenge].state \in {challenge[w.challenge].state, "revoked"}
        BY <1>4, <3>3, RevokeFacts
      <3> QED
        BY <2>1, <3>1, <3>2, <3>4
    <2>5. EnrollmentIsAttested'
      BY <2>4, Zenon DEF EnrollmentIsAttested, WindowOpen
    <2> QED
      BY <2>2, <2>5
  <1>5. ASSUME NEW t \in Tokens, IssueStep(t)
        PROVE  UNCHANGED <<challenge, device, attested, accepted>>
    BY <1>5, IssueFacts
  <1> QED
    BY <1>1, <1>2, <1>3, <1>4, <1>5
       DEF IdentityNext, IssueStep, identityVars, AdmitSubject, EnrollAsk, EnrollConfirmed,
           EnrollEnds, CreateSession, PrepareToken, Tick

-----------------------------------------------------------------------------
(* Tokens                                                                  *)

\* Nothing is known of a token that was not prepared; what was accepted was
\* accepted at a place of the feed; what is about to be committed is signed.
TokensFollow ==
    /\ \A t \in Tokens : token[t].state = "absent" => issue[t] = "idle" /\ vouched[t] = 0
    /\ \A t \in Tokens : vouched[t] <= Len(events) + 1
    /\ \A t \in Tokens : issue[t] = "signed" => t \in signatures

\* A token becomes active only by the commit of a signed token, and is
\* accepted only while nothing it stands on is revoked.
LEMMA TokenStep ==
    ASSUME IdentityTypeOK, IdentityTypeOK', RowsAreOwned, ChainOfAuthority, TokensFollow,
           FailedIssueGrantsNothing, VouchedBeforeRevocation, [IdentityNext]_identityVars
    PROVE  TokensFollow' /\ FailedIssueGrantsNothing' /\ VouchedBeforeRevocation'
  <1>0. Len(events) \in Nat /\ DOMAIN events = 1..Len(events)
    BY DEF IdentityTypeOK
  <1>1. ASSUME UNCHANGED <<token, events, issue, signatures, vouched>>
        PROVE  TokensFollow' /\ FailedIssueGrantsNothing' /\ VouchedBeforeRevocation'
    BY <1>1, Zenon DEF TokensFollow, FailedIssueGrantsNothing, VouchedBeforeRevocation, TokenStandsOn
  <1>2. ASSUME NEW t \in Tokens, NEW s \in Sessions, NEW ttl \in Lifetimes, PrepareToken(t, s, ttl)
        PROVE  TokensFollow' /\ FailedIssueGrantsNothing' /\ VouchedBeforeRevocation'
    <2>1. /\ token[t].state = "absent" /\ token'[t].state = "preparing" /\ issue'[t] = "signing"
          /\ \A k \in Tokens : k # t => token'[k] = token[k] /\ issue'[k] = issue[k]
          /\ UNCHANGED <<events, signatures, vouched>>
      BY <1>2 DEF PrepareToken, Prepared, IdentityTypeOK
    <2>2. TokensFollow' /\ FailedIssueGrantsNothing'
      BY <2>1 DEF TokensFollow, FailedIssueGrantsNothing
    <2>3. vouched'[t] = 0
      BY <2>1 DEF TokensFollow
    <2>4. ASSUME NEW k \in Tokens, NEW i \in DOMAIN events', events'[i] \in TokenStandsOn(k)'
          PROVE  vouched'[k] <= i
      <3>1. CASE k = t
        BY <1>0, <2>1, <2>3, <3>1
      <3>2. CASE k # t
        BY <2>1, <2>4, <3>2 DEF VouchedBeforeRevocation, TokenStandsOn
      <3> QED
        BY <3>1, <3>2
    <2> QED
      BY <2>2, <2>4 DEF VouchedBeforeRevocation
  <1>3. ASSUME NEW t \in Tokens, IssueStep(t)
        PROVE  TokensFollow' /\ FailedIssueGrantsNothing' /\ VouchedBeforeRevocation'
    <2>1. events' = events /\ \A k \in Tokens : TokenStandsOn(k)' = TokenStandsOn(k)
      BY <1>3, IssueFacts DEF TokenStandsOn
    <2>2. \/ UNCHANGED vouched
          \/ /\ ClaimsHold(t) /\ token[t].state = "active" /\ issue[t] = "returned"
             /\ vouched' = [vouched EXCEPT ![t] = Len(events) + 1]
      BY <1>3 DEF IssueStep, Signed, CommitToken, Abandon, AbandonPending, IssuerDies, VerifyToken
    <2>3. signatures \subseteq signatures' /\ (issue'[t] = "signed" => t \in signatures' \/ issue[t] = "signed")
      BY <1>3 DEF IssueStep, Signed, CommitToken, Abandon, AbandonPending, IssuerDies, VerifyToken,
                  IdentityTypeOK
    <2>4. issue[t] = "idle" => issue'[t] = "idle"
      BY <1>3 DEF IssueStep, Signed, CommitToken, Abandon, AbandonPending, IssuerDies, VerifyToken
    <2>5. \A k \in Tokens : token'[k].state = "absent" => token[k].state = "absent"
      BY <1>3, IssueFacts
    <2>6. \A k \in Tokens : k # t => issue'[k] = issue[k] /\ vouched'[k] = vouched[k]
      BY <1>3, <2>2, IssueFacts DEF IdentityTypeOK
    <2>7. TokensFollow'
      <3>1. ASSUME NEW k \in Tokens, token'[k].state = "absent"
            PROVE  issue'[k] = "idle" /\ vouched'[k] = 0
        <4>1. issue[k] = "idle" /\ vouched[k] = 0
          BY <2>5, <3>1 DEF TokensFollow
        <4> QED
          BY <2>2, <2>4, <2>6, <4>1
      <3>2. ASSUME NEW k \in Tokens
            PROVE  vouched'[k] <= Len(events') + 1
        <4>1. vouched[k] <= Len(events) + 1
          BY DEF TokensFollow
        <4>2. vouched'[k] = vouched[k] \/ vouched'[k] = Len(events) + 1
          BY <2>2 DEF IdentityTypeOK
        <4> QED
          BY <1>0, <2>1, <4>1, <4>2
      <3>3. \A k \in Tokens : issue'[k] = "signed" => k \in signatures'
        BY <2>3, <2>6 DEF TokensFollow
      <3> QED
        BY <3>1, <3>2, <3>3 DEF TokensFollow
    <2>8. FailedIssueGrantsNothing'
      <3>1. ASSUME NEW k \in Tokens, token'[k].state = "active"
            PROVE  k \in signatures' /\ issue'[k] \in {"returned", "dead"}
        <4>1. CASE token[k].state = "active"
          <5>1. k \in signatures /\ issue[k] \in {"returned", "dead"}
            BY <4>1 DEF FailedIssueGrantsNothing
          <5>2. issue[t] \in {"returned", "dead"} => issue'[t] = issue[t]
            BY <1>3 DEF IssueStep, Signed, CommitToken, Abandon, AbandonPending, IssuerDies,
                        VerifyToken
          <5> QED
            BY <2>3, <2>6, <5>1, <5>2
        <4>2. CASE token[k].state # "active"
          <5>1. k = t /\ issue[k] = "signed" /\ issue'[k] \in {"returned", "dead"}
            BY <1>3, <3>1, <4>2, IssueFacts
          <5> QED
            BY <2>3, <5>1 DEF TokensFollow
        <4> QED
          BY <4>1, <4>2
      <3> QED
        BY <3>1 DEF FailedIssueGrantsNothing
    <2>9. VouchedBeforeRevocation'
      <3>1. CASE UNCHANGED vouched
        BY <2>1, <3>1 DEF VouchedBeforeRevocation
      <3>2. CASE token[t].state = "active" /\ vouched' = [vouched EXCEPT ![t] = Len(events) + 1]
        <4>1. TokenStandsOn(t) \cap revocations = {}
          BY <3>2 DEF ChainOfAuthority
        <4>2. \A i \in DOMAIN events : events[i] \notin TokenStandsOn(t)
          BY <4>1 DEF IdentityTypeOK
        <4> QED
          BY <2>1, <2>6, <4>2 DEF VouchedBeforeRevocation
      <3> QED
        BY <2>2, <3>1, <3>2
    <2> QED
      BY <2>7, <2>8, <2>9
  <1>4. ASSUME NEW x \in Identity, Revoke(x)
        PROVE  TokensFollow' /\ FailedIssueGrantsNothing' /\ VouchedBeforeRevocation'
    <2>1. UNCHANGED <<issue, signatures, vouched>>
      BY <1>4 DEF Revoke
    <2>2. /\ Len(events') \in Nat /\ Len(events') >= Len(events)
          /\ DOMAIN events' = 1..Len(events')
          /\ \A i \in DOMAIN events' : i \in DOMAIN events => events'[i] = events[i]
      BY <1>0, <1>4 DEF Revoke, IdentityTypeOK
    <2>3. \A t \in Tokens : TokenStandsOn(t)' = TokenStandsOn(t)
      BY <1>4, RevokeFacts DEF TokenStandsOn
    <2>4. \A t \in Tokens : vouched[t] \in Nat
      BY DEF IdentityTypeOK
    <2>5. TokensFollow'
      <3>1. \A t \in Tokens : token'[t].state = "absent" => issue'[t] = "idle" /\ vouched'[t] = 0
        BY <1>4, <2>1, RevokeFacts DEF TokensFollow
      <3>2. \A t \in Tokens : vouched'[t] <= Len(events') + 1
        BY <1>0, <2>1, <2>2, <2>4 DEF TokensFollow
      <3>3. \A t \in Tokens : issue'[t] = "signed" => t \in signatures'
        BY <2>1 DEF TokensFollow
      <3> QED
        BY <3>1, <3>2, <3>3 DEF TokensFollow
    <2>6. FailedIssueGrantsNothing'
      BY <1>4, <2>1, RevokeFacts DEF FailedIssueGrantsNothing
    <2>7. ASSUME NEW t \in Tokens, NEW i \in DOMAIN events', events'[i] \in TokenStandsOn(t)'
          PROVE  vouched'[t] <= i
      <3>1. CASE i \in DOMAIN events
        BY <2>1, <2>2, <2>3, <2>7, <3>1 DEF VouchedBeforeRevocation
      <3>2. CASE i \notin DOMAIN events
        <4>1. i >= Len(events) + 1
          BY <1>0, <2>2, <2>7, <3>2
        <4>2. vouched[t] <= Len(events) + 1
          BY DEF TokensFollow
        <4> QED
          BY <1>0, <2>1, <2>2, <2>4, <4>1, <4>2
      <3> QED
        BY <3>1, <3>2
    <2> QED
      BY <2>5, <2>6, <2>7 DEF VouchedBeforeRevocation
  <1>5. ASSUME NEW e \in Enrollments, NEW at \in 0..MaxTime, AcceptAttestation(e, at)
        PROVE  UNCHANGED <<token, events, issue, signatures, vouched>>
    BY <1>5 DEF AcceptAttestation
  <1> QED
    BY <1>1, <1>2, <1>3, <1>4, <1>5
       DEF IdentityNext, IssueStep, identityVars, AdmitSubject, Challenge, EnrollAsk,
           EnrollConfirmed, EnrollEnds, CreateSession, Tick

-----------------------------------------------------------------------------
(* DurableIdentity                                                         *)

IdentityInv ==
    /\ IdentityTypeOK /\ RowsAreOwned /\ ChainOfAuthority
    /\ SpentIsConsumed /\ ChallengeSpentOnce /\ EnrollmentIsAttested
    /\ TokensFollow /\ FailedIssueGrantsNothing /\ VouchedBeforeRevocation

LEMMA IdentityInvInit == ASSUME IdentityInit PROVE IdentityInv
  <1>1. IdentityTypeOK
    BY IdentityTypeInit
  <1>2. RowsAreOwned /\ ChainOfAuthority
    BY DEF IdentityInit, RowsAreOwned, ChainOfAuthority
  <1>3. SpentIsConsumed /\ ChallengeSpentOnce /\ EnrollmentIsAttested
    BY DEF IdentityInit, SpentIsConsumed, ChallengeSpentOnce, EnrollmentIsAttested
  <1>4. TokensFollow /\ FailedIssueGrantsNothing /\ VouchedBeforeRevocation
    BY DEF IdentityInit, TokensFollow, FailedIssueGrantsNothing, VouchedBeforeRevocation
  <1> QED
    BY <1>1, <1>2, <1>3, <1>4 DEF IdentityInv

LEMMA IdentityInvStep ==
    ASSUME IdentityInv, [IdentityNext]_identityVars
    PROVE  IdentityInv'
  <1>1. IdentityTypeOK'
    BY IdentityTypeStep DEF IdentityInv
  <1>2. RowsAreOwned' /\ ChainOfAuthority'
    BY OwnedStep, ChainStep DEF IdentityInv
  <1>3. SpentIsConsumed' /\ ChallengeSpentOnce' /\ EnrollmentIsAttested'
    BY EnrollmentStep DEF IdentityInv
  <1>4. TokensFollow' /\ FailedIssueGrantsNothing' /\ VouchedBeforeRevocation'
    BY <1>1, TokenStep DEF IdentityInv
  <1> QED
    BY <1>1, <1>2, <1>3, <1>4 DEF IdentityInv

LEMMA IdentityInvariant == IdentitySpec => []IdentityInv
  <1>1. IdentityInit => IdentityInv
    BY IdentityInvInit
  <1>2. IdentityInv /\ [IdentityNext]_identityVars => IdentityInv'
    BY IdentityInvStep
  <1> QED
    BY <1>1, <1>2, PTL DEF IdentitySpec

\* The tables of durable_identity.py and the calls of identity_authority.py
\* stay well typed; what is revoked is announced, once.
THEOREM IdentityTypeCorrect == IdentitySpec => []IdentityTypeOK
  <1>1. IdentityInv => IdentityTypeOK
    BY DEF IdentityInv
  <1> QED
    BY <1>1, IdentityInvariant, PTL

\* The cascade of revoke() and the checks of every transaction keep each row
\* that grants anything on active rows that agree with it and were not revoked.
THEOREM AuthorityIsChained == IdentitySpec => []ChainOfAuthority
  <1>1. IdentityInv => ChainOfAuthority
    BY DEF IdentityInv
  <1> QED
    BY <1>1, IdentityInvariant, PTL

\* require_token() accepts a token only before any revocation of what it
\* stands on appears in the feed that events_after() reads.
THEOREM RevokedTokensAreRefused == IdentitySpec => []VouchedBeforeRevocation
  <1>1. IdentityInv => VouchedBeforeRevocation
    BY DEF IdentityInv
  <1> QED
    BY <1>1, IdentityInvariant, PTL

\* accept_attestation() admits a device only on a verdict about its own
\* challenge, within the window at the moment it commits.
THEOREM DevicesAreAttested == IdentitySpec => []EnrollmentIsAttested
  <1>1. IdentityInv => EnrollmentIsAttested
    BY DEF IdentityInv
  <1> QED
    BY <1>1, IdentityInvariant, PTL

\* accept_attestation() succeeds at most once per challenge, whatever calls of
\* enroll() hold a verdict on it.
THEOREM ChallengesAreSpentOnce == IdentitySpec => []ChallengeSpentOnce
  <1>1. IdentityInv => ChallengeSpentOnce
    BY DEF IdentityInv
  <1> QED
    BY <1>1, IdentityInvariant, PTL

\* issue() leaves a usable token only if it was signed and its caller was not
\* told of a failure.
THEOREM FailuresGrantNothing == IdentitySpec => []FailedIssueGrantsNothing
  <1>1. IdentityInv => FailedIssueGrantsNothing
    BY DEF IdentityInv
  <1> QED
    BY <1>1, IdentityInvariant, PTL

LEMMA FinalStep ==
    ASSUME IdentityInv, [IdentityNext]_identityVars
    PROVE  /\ revocations \subseteq revocations'
           /\ \A i \in DOMAIN events : i \in DOMAIN events' /\ events'[i] = events[i]
           /\ \A u \in Subjects : subject[u] = "revoked" => subject'[u] = "revoked"
           /\ RevokedRow(device) \subseteq RevokedRow(device')
           /\ RevokedRow(challenge) \subseteq RevokedRow(challenge')
           /\ RevokedRow(session) \subseteq RevokedRow(session')
           /\ RevokedRow(token) \subseteq RevokedRow(token')
           /\ \A d \in Devices : device[d].state # "absent" =>
                 device'[d].subject = device[d].subject /\ device'[d].proof = device[d].proof
           /\ \A t \in Tokens : token[t].state = "indeterminate" => token'[t].state # "active"
  <1> DEFINE Final ==
           /\ revocations \subseteq revocations'
           /\ \A i \in DOMAIN events : i \in DOMAIN events' /\ events'[i] = events[i]
           /\ \A u \in Subjects : subject[u] = "revoked" => subject'[u] = "revoked"
           /\ \A d \in Devices : device[d].state = "revoked" => device'[d].state = "revoked"
           /\ \A c \in Challenges : challenge[c].state = "revoked" => challenge'[c].state = "revoked"
           /\ \A s \in Sessions : session[s].state = "revoked" => session'[s].state = "revoked"
           /\ \A t \in Tokens : token[t].state = "revoked" => token'[t].state = "revoked"
           /\ \A d \in Devices : device[d].state # "absent" =>
                 device'[d].subject = device[d].subject /\ device'[d].proof = device[d].proof
           /\ \A t \in Tokens : token[t].state = "indeterminate" => token'[t].state # "active"
  <1>0. IdentityTypeOK /\ IdentityTypeOK' /\ RowsAreOwned
    BY IdentityInvStep DEF IdentityInv
  <1>1. ASSUME UNCHANGED <<subject, device, challenge, session, token, revocations, events>>
        PROVE  Final
    BY <1>1
  <1>2. ASSUME NEW u \in Subjects, AdmitSubject(u)
        PROVE  Final
    BY <1>0, <1>2 DEF AdmitSubject, IdentityTypeOK
  <1>3. ASSUME NEW c \in Challenges, NEW u \in Subjects, NEW d \in Devices, NEW ttl \in Lifetimes,
               Challenge(c, u, d, ttl)
        PROVE  Final
    BY <1>0, <1>3 DEF Challenge, IdentityTypeOK
  <1>4. ASSUME NEW e \in Enrollments, NEW at \in 0..MaxTime, AcceptAttestation(e, at)
        PROVE  Final
    <2>1. PICK v, c, d : Accepted(at, v, c, d)
      BY <1>0, <1>4, AcceptFacts
    <2> QED
      BY <2>1 DEF Accepted
  <1>5. ASSUME NEW s \in Sessions, NEW u \in Subjects, NEW d \in Devices, NEW ttl \in Lifetimes,
               CreateSession(s, u, d, ttl)
        PROVE  Final
    BY <1>0, <1>5 DEF CreateSession, IdentityTypeOK
  <1>6. ASSUME NEW t \in Tokens, NEW s \in Sessions, NEW ttl \in Lifetimes, PrepareToken(t, s, ttl)
        PROVE  Final
    BY <1>0, <1>6 DEF PrepareToken, IdentityTypeOK
  <1>7. ASSUME NEW t \in Tokens, IssueStep(t)
        PROVE  Final
    BY <1>0, <1>7, IssueFacts
  <1>8. ASSUME NEW x \in Identity, Revoke(x)
        PROVE  Final
    <2>1. /\ revocations \subseteq revocations'
          /\ \A i \in DOMAIN events : i \in DOMAIN events' /\ events'[i] = events[i]
          /\ \A u \in Subjects : subject[u] = "revoked" => subject'[u] = "revoked"
      <3>1. revocations' = revocations \cup {x}
            /\ (events' = events \/ events' = Append(events, x))
        BY <1>8 DEF Revoke
      <3>2. \A i \in DOMAIN events : i \in DOMAIN events' /\ events'[i] = events[i]
        <4>1. events \in Seq(Identity)
          BY <1>0 DEF IdentityTypeOK
        <4> QED
          BY <3>1, <4>1
      <3>3. \A u \in Subjects : subject[u] = "revoked" => subject'[u] = "revoked"
        BY <1>8 DEF Revoke
      <3> QED
        BY <3>1, <3>2, <3>3
    <2> QED
      BY <1>0, <1>8, <2>1, RevokeFacts
  <1>9. Final
    BY <1>1, <1>2, <1>3, <1>4, <1>5, <1>6, <1>7, <1>8
       DEF IdentityNext, IssueStep, identityVars, EnrollAsk, EnrollConfirmed, EnrollEnds, Tick
  <1>10. /\ DOMAIN device = Devices /\ DOMAIN device' = Devices
         /\ DOMAIN challenge = Challenges /\ DOMAIN challenge' = Challenges
         /\ DOMAIN session = Sessions /\ DOMAIN session' = Sessions
         /\ DOMAIN token = Tokens /\ DOMAIN token' = Tokens
    BY <1>0 DEF IdentityTypeOK
  <1> QED
    BY <1>9, <1>10 DEF RevokedRow

\* No step of any process undoes a revocation, forgets an event, rebinds a
\* device or activates a token that was given up.
THEOREM IdentityDecisionsAreFinal == IdentitySpec => IdentityIsFinal
  <1>1. IdentityInv /\ [IdentityNext]_identityVars =>
           [/\ revocations \subseteq revocations'
            /\ \A i \in DOMAIN events : i \in DOMAIN events' /\ events'[i] = events[i]
            /\ \A u \in Subjects : subject[u] = "revoked" => subject'[u] = "revoked"
            /\ RevokedRow(device) \subseteq RevokedRow(device')
            /\ RevokedRow(challenge) \subseteq RevokedRow(challenge')
            /\ RevokedRow(session) \subseteq RevokedRow(session')
            /\ RevokedRow(token) \subseteq RevokedRow(token')
            /\ \A d \in Devices : device[d].state # "absent" =>
                  device'[d].subject = device[d].subject /\ device'[d].proof = device[d].proof
            /\ \A t \in Tokens : token[t].state = "indeterminate" => token'[t].state # "active"
           ]_identityVars
    BY FinalStep
  <1> QED
    BY <1>1, IdentityInvariant, PTL DEF IdentitySpec, IdentityIsFinal

-----------------------------------------------------------------------------
(* MutationAuthority: rows                                                 *)

\* Readings of the clock are natural numbers.
LEMMA SecondsAreNaturals == Seconds \subseteq Nat
  BY MutationAssumption DEF Seconds

\* The end of a lease is the earliest of its three limits.
LEMMA LeaseEnds ==
    ASSUME NEW c, c.fingerprint \in Fingerprint, c.until \in Seconds, c.now \in Seconds
    PROVE  /\ LeaseEnd(c) \in Nat
           /\ LeaseEnd(c) <= c.fingerprint.deadline /\ LeaseEnd(c) <= c.until
           /\ LeaseEnd(c) <= c.now + maximum_lease_seconds
  <1> DEFINE T == {c.fingerprint.deadline, c.until, c.now + maximum_lease_seconds}
  <1>1. c.fingerprint.deadline \in Nat /\ c.until \in Nat /\ c.now \in Nat
    <2>1. c.fingerprint.deadline \in Seconds
      BY DEF Fingerprint
    <2> QED
      BY <2>1, SecondsAreNaturals
  <1>2. c.now + maximum_lease_seconds \in Nat
    BY <1>1, MutationAssumption
  <1>3. \E x \in T : \A y \in T : x <= y
    BY <1>1, <1>2
  <1>4. LeaseEnd(c) \in T /\ \A y \in T : LeaseEnd(c) <= y
    BY <1>3, Zenon DEF LeaseEnd, Earliest
  <1> QED
    BY <1>1, <1>2, <1>4

\* What the rows of calls hold.
LEMMA CallRows ==
    ASSUME NEW c \in AuthorizeCall
    PROVE  /\ c.pc = "admitted" => /\ c.fingerprint \in Fingerprint
                                   /\ c.until \in Seconds /\ c.now \in Seconds
           /\ c.pc = "granted" => c.fingerprint \in Fingerprint /\ c.lease \in Leases
           /\ c.pc \in {"idle", "admitted", "granted"}
  BY DEF AuthorizeCall, IdleCall

\* What the rows of leases hold, before and after they are revoked.
LEMMA LeaseRows ==
    ASSUME NEW r \in LeaseRow, r.state # "absent"
    PROVE  /\ r.fingerprint \in Fingerprint /\ r.issued_at \in Nat /\ r.expires_at \in Nat
           /\ r.state \in {"issued", "revoked"}
           /\ [r EXCEPT !.state = "revoked"] \in LeaseRow
           /\ [r EXCEPT !.state = "revoked"].state = "revoked"
           /\ [r EXCEPT !.state = "revoked"].fingerprint = r.fingerprint
           /\ [r EXCEPT !.state = "revoked"].issued_at = r.issued_at
           /\ [r EXCEPT !.state = "revoked"].expires_at = r.expires_at
           /\ r = [r EXCEPT !.state = r.state]
  <1>1. r \in [state : {"issued", "revoked"}, fingerprint : Fingerprint,
               issued_at : Nat, expires_at : Nat]
    BY DEF LeaseRow, NoLease
  <1> QED
    BY <1>1 DEF LeaseRow

\* What the transaction of revoke() does to the leases.
LEMMA RevokeLeasesFacts ==
    ASSUME lease \in [Leases -> LeaseRow], NEW x, RevokeLeases(x)
    PROVE  /\ lease' \in [Leases -> LeaseRow]
           /\ \A l \in Leases :
                 /\ lease'[l] = lease[l] \/ (lease[l].state = "issued"
                                            /\ lease'[l] = [lease[l] EXCEPT !.state = "revoked"])
                 /\ lease'[l].state = "issued" =>
                       lease'[l] = lease[l] /\ x \notin Holders(lease[l].fingerprint.principal)
                 /\ lease'[l].state = "absent" <=> lease[l].state = "absent"
                 /\ lease[l].state # "absent" =>
                       /\ lease'[l].fingerprint = lease[l].fingerprint
                       /\ lease'[l].issued_at = lease[l].issued_at
                       /\ lease'[l].expires_at = lease[l].expires_at
  <1>1. \A l \in Leases :
            lease'[l] = IF lease[l].state = "issued" /\ x \in Holders(lease[l].fingerprint.principal)
                        THEN [lease[l] EXCEPT !.state = "revoked"] ELSE lease[l]
    BY DEF RevokeLeases, MarkLeases
  <1>2. ASSUME NEW l \in Leases
        PROVE  /\ lease'[l] = lease[l] \/ (lease[l].state = "issued"
                                          /\ lease'[l] = [lease[l] EXCEPT !.state = "revoked"])
               /\ lease'[l].state = "issued" =>
                     lease'[l] = lease[l] /\ x \notin Holders(lease[l].fingerprint.principal)
               /\ lease'[l].state = "absent" <=> lease[l].state = "absent"
               /\ lease[l].state # "absent" =>
                     /\ lease'[l].fingerprint = lease[l].fingerprint
                     /\ lease'[l].issued_at = lease[l].issued_at
                     /\ lease'[l].expires_at = lease[l].expires_at
               /\ lease'[l] \in LeaseRow
    BY <1>1, LeaseRows
  <1>3. DOMAIN lease' = Leases /\ lease' = [l \in Leases |-> lease'[l]]
    BY DEF RevokeLeases, MarkLeases
  <1>4. lease' \in [Leases -> LeaseRow]
    BY <1>2, <1>3
  <1> QED
    BY <1>2, <1>4

\* What the transaction of authorize() does: it hands out a lease for the
\* call's fingerprint, which it may have written.
LEMMA GrantFacts ==
    ASSUME MutationTypeOK, NEW a \in Calls, NEW l \in Leases, Grant(a, l)
    PROVE  /\ call[a].pc = "admitted" /\ call[a].fingerprint \in Fingerprint
           /\ call[a].until \in Seconds /\ call[a].now \in Seconds
           /\ NotRevoked(call[a].fingerprint.principal)
           /\ call'[a] = [pc |-> "granted", fingerprint |-> call[a].fingerprint, lease |-> l]
           /\ \A b \in Calls : b # a => call'[b] = call[b]
           /\ tombstones' = tombstones
           /\ lease'[l].state = "issued" /\ lease'[l].fingerprint = call[a].fingerprint
           /\ \A k \in Leases : lease[k].state # "absent" => lease'[k] = lease[k]
           /\ lease[l].state = "absent" =>
                 /\ Unused(call[a])
                 /\ lease'[l] = [state |-> "issued", fingerprint |-> call[a].fingerprint,
                                 issued_at |-> call[a].now, expires_at |-> LeaseEnd(call[a])]
           /\ MutationTypeOK'
  <1>1. /\ call[a] \in AuthorizeCall /\ call[a].pc = "admitted"
        /\ NotRevoked(call[a].fingerprint.principal) /\ tombstones' = tombstones
        /\ call' = [call EXCEPT ![a] = [pc |-> "granted", fingerprint |-> call[a].fingerprint,
                                        lease |-> l]]
    BY DEF Grant, MutationTypeOK
  <1>2. call[a].fingerprint \in Fingerprint /\ call[a].until \in Seconds /\ call[a].now \in Seconds
    BY <1>1, CallRows
  <1> DEFINE row == [state |-> "issued", fingerprint |-> call[a].fingerprint,
                     issued_at |-> call[a].now, expires_at |-> LeaseEnd(call[a])]
  <1>3. \/ /\ l \in LeaseOf(call[a].fingerprint) /\ lease[l].state = "issued" /\ lease' = lease
        \/ /\ Unused(call[a]) /\ lease[l].state = "absent" /\ lease' = [lease EXCEPT ![l] = row]
    BY DEF Grant
  <1>4. row \in LeaseRow /\ row.state = "issued" /\ row.fingerprint = call[a].fingerprint
    BY <1>2, LeaseEnds, SecondsAreNaturals DEF LeaseRow
  <1> HIDE DEF row
  <1>5. /\ lease' \in [Leases -> LeaseRow]
        /\ lease'[l].state = "issued" /\ lease'[l].fingerprint = call[a].fingerprint
        /\ \A k \in Leases : lease[k].state # "absent" => lease'[k] = lease[k]
        /\ lease[l].state = "absent" => Unused(call[a]) /\ lease'[l] = row
    BY <1>3, <1>4 DEF MutationTypeOK, LeaseOf
  <1>6. /\ call'[a] = [pc |-> "granted", fingerprint |-> call[a].fingerprint, lease |-> l]
        /\ \A b \in Calls : b # a => call'[b] = call[b]
    BY <1>1 DEF MutationTypeOK
  <1>7. [pc |-> "granted", fingerprint |-> call[a].fingerprint, lease |-> l] \in AuthorizeCall
    BY <1>2 DEF AuthorizeCall
  <1>8. call' \in [Calls -> AuthorizeCall]
    BY <1>1, <1>7 DEF MutationTypeOK
  <1>9. MutationTypeOK'
    BY <1>1, <1>5, <1>8 DEF MutationTypeOK
  <1> QED
    BY <1>1, <1>2, <1>5, <1>6, <1>9 DEF row

-----------------------------------------------------------------------------
(* MutationAuthority: what calls and leases rest on                        *)

\* A call was admitted before its lease would end, and what it was granted
\* stays a lease for its intent.
CallStands(a) ==
    /\ call[a].pc = "admitted" => call[a].now < LeaseEnd(call[a])
    /\ call[a].pc = "granted" =>
          /\ lease[call[a].lease].state # "absent"
          /\ lease[call[a].lease].fingerprint = call[a].fingerprint

\* The fingerprint column is unique.
FingerprintsAreUnique ==
    \A k, l \in Leases :
        lease[k].state # "absent" /\ lease[l].state # "absent"
        /\ lease[k].fingerprint = lease[l].fingerprint => k = l

AuthorityInv ==
    /\ MutationTypeOK
    /\ \A a \in Calls : CallStands(a)
    /\ FingerprintsAreUnique /\ LeaseFitsRequest /\ RevokedHoldsNoLease

LEMMA AuthorityInvInit == ASSUME MutationInit PROVE AuthorityInv
  <1>1. MutationTypeOK
    <2>1. NoLease \in LeaseRow /\ IdleCall \in AuthorizeCall
      BY DEF LeaseRow, AuthorizeCall
    <2> QED
      BY <2>1 DEF MutationInit, MutationTypeOK
  <1>2. /\ \A a \in Calls : call[a].pc = "idle"
        /\ \A l \in Leases : lease[l].state = "absent"
    BY DEF MutationInit, IdleCall, NoLease
  <1> QED
    BY <1>1, <1>2 DEF AuthorityInv, CallStands, FingerprintsAreUnique, LeaseFitsRequest,
                      RevokedHoldsNoLease

\* While no lease changes, the leases and the other calls stand as they did.
LEMMA LeasesUntouched ==
    ASSUME AuthorityInv, UNCHANGED <<lease, tombstones>>
    PROVE  FingerprintsAreUnique' /\ LeaseFitsRequest' /\ RevokedHoldsNoLease'
  BY DEF AuthorityInv, FingerprintsAreUnique, LeaseFitsRequest, RevokedHoldsNoLease

LEMMA AdmitStep ==
    ASSUME AuthorityInv, NEW a \in Calls, NEW f \in Fingerprint, NEW until \in Seconds,
           NEW time \in Seconds, Admit(a, f, until, time)
    PROVE  AuthorityInv'
  <1> DEFINE c == [pc |-> "admitted", fingerprint |-> f, until |-> until, now |-> time]
  <1>0. MutationTypeOK
    BY DEF AuthorityInv
  <1>1. time < LeaseEnd(c) /\ call' = [call EXCEPT ![a] = c] /\ UNCHANGED <<lease, tombstones>>
    BY DEF Admit
  <1>2. c \in AuthorizeCall /\ c.pc = "admitted" /\ c.now = time
    BY DEF AuthorizeCall
  <1> HIDE DEF c
  <1>3. MutationTypeOK' /\ call'[a] = c /\ \A b \in Calls : b # a => call'[b] = call[b]
    BY <1>0, <1>1, <1>2 DEF MutationTypeOK
  <1>4. ASSUME NEW b \in Calls
        PROVE  CallStands(b)'
    <2>1. CASE b = a
      <3>1. call'[b] = c
        BY <1>3, <2>1
      <3>2. LeaseEnd(call[b])' = LeaseEnd(c)
        BY <3>1 DEF LeaseEnd
      <3> QED
        BY <1>1, <1>2, <3>1, <3>2 DEF CallStands
    <2>2. CASE b # a
      <3>1. call'[b] = call[b] /\ lease' = lease
        BY <1>1, <1>3, <2>2
      <3> QED
        BY <3>1 DEF AuthorityInv, CallStands, LeaseEnd
    <2> QED
      BY <2>1, <2>2
  <1> QED
    BY <1>1, <1>3, <1>4, LeasesUntouched DEF AuthorityInv

LEMMA CallEndsStep ==
    ASSUME AuthorityInv, NEW a \in Calls, CallEnds(a)
    PROVE  AuthorityInv'
  <1>0. MutationTypeOK
    BY DEF AuthorityInv
  <1>1. call' = [call EXCEPT ![a] = IdleCall] /\ UNCHANGED <<lease, tombstones>>
    BY DEF CallEnds
  <1>2. IdleCall \in AuthorizeCall /\ IdleCall.pc = "idle"
    BY DEF AuthorizeCall, IdleCall
  <1>3. MutationTypeOK' /\ call'[a] = IdleCall /\ \A b \in Calls : b # a => call'[b] = call[b]
    BY <1>0, <1>1, <1>2 DEF MutationTypeOK
  <1>4. ASSUME NEW b \in Calls
        PROVE  CallStands(b)'
    <2>1. CASE b = a
      BY <1>2, <1>3, <2>1 DEF CallStands
    <2>2. CASE b # a
      <3>1. call'[b] = call[b] /\ lease' = lease
        BY <1>1, <1>3, <2>2
      <3> QED
        BY <3>1 DEF AuthorityInv, CallStands, LeaseEnd
    <2> QED
      BY <2>1, <2>2
  <1> QED
    BY <1>1, <1>3, <1>4, LeasesUntouched DEF AuthorityInv

LEMMA GrantStep ==
    ASSUME AuthorityInv, NEW a \in Calls, NEW l \in Leases, Grant(a, l)
    PROVE  AuthorityInv'
  <1>0. MutationTypeOK
    BY DEF AuthorityInv
  <1> DEFINE f == call[a].fingerprint
  <1>1. /\ MutationTypeOK'
        /\ lease'[l].state = "issued" /\ lease'[l].fingerprint = f
        /\ \A k \in Leases : lease[k].state # "absent" => lease'[k] = lease[k]
        /\ \A k \in Leases : k # l => lease'[k] = lease[k]
        /\ tombstones' = tombstones
        /\ NotRevoked(f.principal)
    <2>1. MutationTypeOK'
      BY <1>0, GrantFacts
    <2>2. lease'[l].state = "issued" /\ lease'[l].fingerprint = f /\ tombstones' = tombstones
      BY <1>0, GrantFacts
    <2>3. \A k \in Leases : lease[k].state # "absent" => lease'[k] = lease[k]
      BY <1>0, GrantFacts
    <2>4. \A k \in Leases : k # l => lease'[k] = lease[k]
      BY <1>0 DEF Grant, MutationTypeOK
    <2>5. NotRevoked(f.principal)
      BY <1>0, GrantFacts
    <2> QED
      BY <2>1, <2>2, <2>3, <2>4, <2>5
  <1>2. /\ call'[a].pc = "granted" /\ call'[a].lease = l /\ call'[a].fingerprint = f
        /\ \A b \in Calls : b # a => call'[b] = call[b]
    <2>1. /\ call'[a] = [pc |-> "granted", fingerprint |-> f, lease |-> l]
          /\ \A b \in Calls : b # a => call'[b] = call[b]
      BY <1>0, GrantFacts
    <2> QED
      BY <2>1
  <1>3. ASSUME NEW b \in Calls
        PROVE  CallStands(b)'
    <2>1. CASE b = a
      BY <1>1, <1>2, <2>1 DEF CallStands
    <2>2. CASE b # a
      <3>1. call'[b] = call[b]
        BY <1>2, <2>2
      <3>2. call[b].pc = "granted" => call[b].lease \in Leases
        BY <1>0, CallRows DEF MutationTypeOK
      <3> QED
        BY <1>1, <3>1, <3>2 DEF AuthorityInv, CallStands, LeaseEnd
    <2> QED
      BY <2>1, <2>2
  <1>4. FingerprintsAreUnique'
    <2>1. \A k \in Leases : k # l => lease[k].fingerprint # f \/ lease[k].state = "absent"
      <3>1. CASE lease[l].state # "absent"
        <4>1. lease[l].fingerprint = f
          BY <1>1, <3>1
        <4> QED
          BY <3>1, <4>1 DEF AuthorityInv, FingerprintsAreUnique
      <3>2. CASE lease[l].state = "absent"
        <4>1. LeaseOf(f) = {}
          BY <1>0, <3>2, GrantFacts DEF Unused
        <4> QED
          BY <4>1 DEF LeaseOf
      <3> QED
        BY <3>1, <3>2
    <2> QED
      BY <1>1, <2>1 DEF AuthorityInv, FingerprintsAreUnique
  <1>5. LeaseFitsRequest'
    <2> SUFFICES ASSUME NEW k \in Leases, lease'[k].state # "absent"
                 PROVE  /\ lease'[k].issued_at < lease'[k].expires_at
                        /\ lease'[k].expires_at <= lease'[k].fingerprint.deadline
                        /\ lease'[k].expires_at <= lease'[k].issued_at + maximum_lease_seconds
      BY DEF LeaseFitsRequest
    <2>1. CASE lease[k].state # "absent"
      <3>1. lease'[k] = lease[k]
        BY <1>1, <2>1
      <3> QED
        BY <2>1, <3>1 DEF AuthorityInv, LeaseFitsRequest
    <2>2. CASE lease[k].state = "absent"
      <3>1. k = l
        BY <1>1, <2>2
      <3>2. lease'[k] = [state |-> "issued", fingerprint |-> f,
                         issued_at |-> call[a].now, expires_at |-> LeaseEnd(call[a])]
        BY <1>0, <2>2, <3>1, GrantFacts
      <3>3. /\ lease'[k].issued_at = call[a].now /\ lease'[k].expires_at = LeaseEnd(call[a])
            /\ lease'[k].fingerprint = f
        BY <3>2
      <3>4. call[a].now < LeaseEnd(call[a])
        BY <1>0, GrantFacts DEF AuthorityInv, CallStands
      <3>5. /\ f \in Fingerprint /\ call[a].until \in Seconds /\ call[a].now \in Seconds
        BY <1>0, GrantFacts
      <3>6. /\ LeaseEnd(call[a]) <= f.deadline
            /\ LeaseEnd(call[a]) <= call[a].now + maximum_lease_seconds
        BY <3>5, LeaseEnds
      <3> QED
        BY <3>3, <3>4, <3>6
    <2> QED
      BY <2>1, <2>2
  <1>6. RevokedHoldsNoLease'
    BY <1>1 DEF AuthorityInv, RevokedHoldsNoLease, NotRevoked
  <1> QED
    BY <1>1, <1>3, <1>4, <1>5, <1>6 DEF AuthorityInv

LEMMA RevokeLeasesStep ==
    ASSUME AuthorityInv, NEW x \in Targets, RevokeLeases(x)
    PROVE  AuthorityInv'
  <1>0. MutationTypeOK
    BY DEF AuthorityInv
  <1>1. /\ lease' \in [Leases -> LeaseRow]
        /\ \A l \in Leases :
              /\ lease'[l].state = "issued" =>
                    lease'[l] = lease[l] /\ x \notin Holders(lease[l].fingerprint.principal)
              /\ lease'[l].state = "absent" <=> lease[l].state = "absent"
              /\ lease[l].state # "absent" =>
                    /\ lease'[l].fingerprint = lease[l].fingerprint
                    /\ lease'[l].issued_at = lease[l].issued_at
                    /\ lease'[l].expires_at = lease[l].expires_at
    BY <1>0, RevokeLeasesFacts DEF MutationTypeOK
  <1>2. tombstones' = tombstones \cup {x} /\ call' = call
    BY DEF RevokeLeases
  <1>3. MutationTypeOK'
    BY <1>0, <1>1, <1>2 DEF MutationTypeOK
  <1>4. ASSUME NEW b \in Calls
        PROVE  CallStands(b)'
    <2>1. call[b].pc = "granted" => call[b].lease \in Leases
      BY <1>0, CallRows DEF MutationTypeOK
    <2> QED
      BY <1>1, <1>2, <2>1 DEF AuthorityInv, CallStands, LeaseEnd
  <1>5. FingerprintsAreUnique' /\ LeaseFitsRequest'
    BY <1>1 DEF AuthorityInv, FingerprintsAreUnique, LeaseFitsRequest
  <1>6. RevokedHoldsNoLease'
    BY <1>1, <1>2 DEF AuthorityInv, RevokedHoldsNoLease
  <1> QED
    BY <1>3, <1>4, <1>5, <1>6 DEF AuthorityInv

LEMMA AuthorityInvStep ==
    ASSUME AuthorityInv, [AuthorityNext]_mutationVars
    PROVE  AuthorityInv'
  <1>1. CASE UNCHANGED mutationVars
    <2>1. lease' = lease /\ tombstones' = tombstones /\ call' = call
      BY <1>1 DEF mutationVars
    <2> QED
      BY <2>1 DEF AuthorityInv, MutationTypeOK, CallStands, LeaseEnd, FingerprintsAreUnique,
                  LeaseFitsRequest, RevokedHoldsNoLease
  <1> QED
    BY <1>1, AdmitStep, CallEndsStep, GrantStep, RevokeLeasesStep DEF AuthorityNext

LEMMA AuthorityInvariant == AuthoritySpec => []AuthorityInv
  <1>1. MutationInit => AuthorityInv
    BY AuthorityInvInit
  <1>2. AuthorityInv /\ [AuthorityNext]_mutationVars => AuthorityInv'
    BY AuthorityInvStep
  <1> QED
    BY <1>1, <1>2, PTL DEF AuthoritySpec

-----------------------------------------------------------------------------
(* MutationAuthority                                                       *)

\* The tables of mutation_authority.py and the calls of authorize() stay well
\* typed.
THEOREM MutationTypeCorrect == AuthoritySpec => []MutationTypeOK
  <1>1. AuthorityInv => MutationTypeOK
    BY DEF AuthorityInv
  <1> QED
    BY <1>1, AuthorityInvariant, PTL

\* Whichever of the transactions of authorize() and revoke() commits first, no
\* issued lease is left under a tombstone.
THEOREM RevocationTakesLeases == AuthoritySpec => []RevokedHoldsNoLease
  <1>1. AuthorityInv => RevokedHoldsNoLease
    BY DEF AuthorityInv
  <1> QED
    BY <1>1, AuthorityInvariant, PTL

\* The end that authorize() computes before the lock still fits the deadline
\* and the maximum when the row is written, and stays so.
THEOREM LeasesFitRequests == AuthoritySpec => []LeaseFitsRequest
  <1>1. AuthorityInv => LeaseFitsRequest
    BY DEF AuthorityInv
  <1> QED
    BY <1>1, AuthorityInvariant, PTL

\* Calls of authorize() with one fingerprint are answered with one lease.
THEOREM IntentsShareALease == AuthoritySpec => []OneLeasePerIntent
  <1>1. AuthorityInv => OneLeasePerIntent
    <2>1. ASSUME AuthorityInv, NEW a \in Calls, NEW b \in Calls,
                 call[a].pc = "granted", call[b].pc = "granted",
                 call[a].fingerprint = call[b].fingerprint
          PROVE  call[a].lease = call[b].lease
      <3>1. call[a].lease \in Leases /\ call[b].lease \in Leases
        BY <2>1, CallRows DEF AuthorityInv, MutationTypeOK
      <3>2. CallStands(a) /\ CallStands(b) /\ FingerprintsAreUnique
        BY <2>1 DEF AuthorityInv
      <3> QED
        BY <2>1, <3>1, <3>2 DEF CallStands, FingerprintsAreUnique
    <2> QED
      BY <2>1 DEF AuthorityInv, FingerprintsAreUnique, OneLeasePerIntent
  <1> QED
    BY <1>1, AuthorityInvariant, PTL

LEMMA LeaseFinalStep ==
    ASSUME AuthorityInv, [AuthorityNext]_mutationVars
    PROVE  /\ tombstones \subseteq tombstones'
           /\ \A l \in Leases : lease[l].state # "absent" =>
                 /\ lease'[l] = [lease[l] EXCEPT !.state = lease'[l].state]
                 /\ lease[l].state = "revoked" => lease'[l].state = "revoked"
  <1>0. MutationTypeOK
    BY DEF AuthorityInv
  <1>1. \A l \in Leases : lease[l].state # "absent" =>
            lease[l] = [lease[l] EXCEPT !.state = lease[l].state]
    BY <1>0, LeaseRows DEF MutationTypeOK
  <1>2. CASE UNCHANGED <<lease, tombstones>>
    BY <1>1, <1>2
  <1>3. ASSUME NEW x \in Targets, RevokeLeases(x)
        PROVE  /\ tombstones \subseteq tombstones'
               /\ \A l \in Leases : lease[l].state # "absent" =>
                     /\ lease'[l] = [lease[l] EXCEPT !.state = lease'[l].state]
                     /\ lease[l].state = "revoked" => lease'[l].state = "revoked"
    <2>1. tombstones \subseteq tombstones'
      BY <1>3 DEF RevokeLeases
    <2>2. ASSUME NEW l \in Leases, lease[l].state # "absent"
          PROVE  /\ lease'[l] = [lease[l] EXCEPT !.state = lease'[l].state]
                 /\ lease[l].state = "revoked" => lease'[l].state = "revoked"
      <3>1. CASE lease'[l] = lease[l]
        BY <1>1, <2>2, <3>1
      <3>2. CASE lease[l].state = "issued" /\ lease'[l] = [lease[l] EXCEPT !.state = "revoked"]
        <4>1. lease'[l].state = "revoked"
          BY <1>0, <2>2, <3>2, LeaseRows DEF MutationTypeOK
        <4> QED
          BY <3>2, <4>1
      <3> QED
        BY <1>0, <1>3, <3>1, <3>2, RevokeLeasesFacts DEF MutationTypeOK
    <2> QED
      BY <2>1, <2>2
  <1>4. ASSUME NEW a \in Calls, NEW k \in Leases, Grant(a, k)
        PROVE  /\ tombstones' = tombstones
               /\ \A l \in Leases : lease[l].state # "absent" => lease'[l] = lease[l]
    BY <1>0, <1>4, GrantFacts
  <1> QED
    BY <1>1, <1>2, <1>3, <1>4 DEF AuthorityNext, mutationVars, Admit, CallEnds

\* Neither authorize() nor revoke() extends a lease, reissues or forgets one,
\* or takes a revocation back.
THEOREM LeaseDecisionsAreFinal == AuthoritySpec => LeaseRevocationIsFinal
  <1>1. AuthorityInv /\ [AuthorityNext]_mutationVars =>
           [/\ tombstones \subseteq tombstones'
            /\ \A l \in Leases : lease[l].state # "absent" =>
                  /\ lease'[l] = [lease[l] EXCEPT !.state = lease'[l].state]
                  /\ lease[l].state = "revoked" => lease'[l].state = "revoked"
           ]_mutationVars
    BY LeaseFinalStep
  <1> QED
    BY <1>1, AuthorityInvariant, PTL DEF AuthoritySpec, LeaseRevocationIsFinal
=============================================================================
