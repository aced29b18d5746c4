-------------------------- MODULE DurableIdentity --------------------------
(***************************************************************************)
(* services/control_plane/durable_identity.py with identity_authority.py:  *)
(* subjects, the devices they enrol, the sessions of a device and the      *)
(* access tokens of a session, kept in one SQLite database.                *)
(*                                                                         *)
(* Processes share the database; every transaction is one step (BEGIN      *)
(* IMMEDIATE serialises them).  Enrolling a device and issuing a token     *)
(* each wait for a remote broker between two transactions, so that         *)
(* anything may be revoked, may expire or may be decided by another call   *)
(* in between.                                                             *)
(*                                                                         *)
(* Database     subject, device, challenge, session, token,                *)
(*              revocations, events                                        *)
(* Calls        enroll (one per Enrollments), issue (one per token)        *)
(* Environment  now                                                        *)
(* History      attested  the verdict a device was admitted on             *)
(*              accepted  how often a challenge was answered with success  *)
(*              signatures  tokens whose signature was verified            *)
(*              vouched   where in the feed of revocations a token was     *)
(*                        last accepted                                    *)
(*                                                                         *)
(* Audiences, scopes, platforms, keys and digests are not told apart: the  *)
(* claims of a token are those its row was prepared for.                   *)
(***************************************************************************)
EXTENDS Naturals, FiniteSets, Sequences

CONSTANTS
    Subjects, Devices, Proofs,
    Challenges, Sessions, Tokens,  \* random identifiers that may be drawn
    Enrollments,                   \* calls of enroll()
    Nobody,                        \* what the columns of an absent row hold
    Lifetimes,                     \* ttl_seconds a caller may ask for
    AttestationAge,                \* how old a verdict may be
    maximum_rows,
    MaxTime,                       \* bound on the clock
    MaxEvents                      \* bound on revocations

ASSUME IdentityAssumption ==
    /\ Nobody \notin Subjects \cup Devices \cup Challenges \cup Sessions \cup Proofs
    /\ Lifetimes \subseteq Nat \ {0} /\ AttestationAge \in Nat
    /\ maximum_rows \in Nat \ {0} /\ MaxTime \in Nat /\ MaxEvents \in Nat

VARIABLES subject, device, challenge, session, token, revocations, events,
          enroll, issue, now, attested, accepted, signatures, vouched

identityVars == <<subject, device, challenge, session, token, revocations, events,
                  enroll, issue, now, attested, accepted, signatures, vouched>>

\* What can be revoked.
Identity == ({"subject"} \X Subjects) \cup ({"device"} \X Devices)
            \cup ({"session"} \X Sessions) \cup ({"token"} \X Tokens)

Verdict == [challenge : Challenges, proof : Proofs, verified_at : Nat, expires_at : Nat]
NoVerdict == [challenge |-> Nobody, proof |-> Nobody, verified_at |-> 0, expires_at |-> 0]

\* The rows of the tables and the records of the calls.
DeviceRow == [state : {"absent", "active", "revoked"},
              subject : Subjects \cup {Nobody}, proof : Proofs \cup {Nobody}]
ChallengeRow == [state : {"absent", "issued", "consumed", "revoked"},
                 subject : Subjects \cup {Nobody}, device : Devices \cup {Nobody}, expires_at : Nat]
SessionRow == [state : {"absent", "active", "revoked"},
               subject : Subjects \cup {Nobody}, device : Devices \cup {Nobody}, expires_at : Nat]
TokenRow == [state : {"absent", "preparing", "active", "indeterminate", "revoked"},
             subject : Subjects \cup {Nobody}, device : Devices \cup {Nobody},
             session : Sessions \cup {Nobody}, expires_at : Nat]
NotEnrolling == [pc |-> "idle", verdict |-> NoVerdict]
EnrollCall == {NotEnrolling} \cup [pc : {"asking", "confirmed"}, verdict : Verdict]

\* The types of the tables, the calls and the histories; what is revoked is
\* announced, once.
IdentityTypeOK ==
    /\ subject \in [Subjects -> {"absent", "active", "revoked"}]
    /\ device \in [Devices -> DeviceRow] /\ challenge \in [Challenges -> ChallengeRow]
    /\ session \in [Sessions -> SessionRow] /\ token \in [Tokens -> TokenRow]
    /\ events \in Seq(Identity)
    /\ revocations = {events[i] : i \in DOMAIN events}
    /\ \A i, j \in DOMAIN events : events[i] = events[j] => i = j
    /\ enroll \in [Enrollments -> EnrollCall]
    /\ issue \in [Tokens -> {"idle", "signing", "signed", "failing", "failed", "returned", "dead"}]
    /\ now \in Nat
    /\ attested \in [Devices -> [verdict : Verdict \cup {NoVerdict}, at : Nat]]
    /\ accepted \in [Challenges -> Nat]
    /\ signatures \subseteq Tokens
    /\ vouched \in [Tokens -> Nat]

IdentityInit ==
    /\ subject = [u \in Subjects |-> "absent"]
    /\ device = [d \in Devices |-> [state |-> "absent", subject |-> Nobody, proof |-> Nobody]]
    /\ challenge = [c \in Challenges |-> [state |-> "absent", subject |-> Nobody,
                                          device |-> Nobody, expires_at |-> 0]]
    /\ session = [s \in Sessions |-> [state |-> "absent", subject |-> Nobody,
                                      device |-> Nobody, expires_at |-> 0]]
    /\ token = [t \in Tokens |-> [state |-> "absent", subject |-> Nobody, device |-> Nobody,
                                  session |-> Nobody, expires_at |-> 0]]
    /\ revocations = {} /\ events = <<>>
    /\ enroll = [e \in Enrollments |-> NotEnrolling]
    /\ issue = [t \in Tokens |-> "idle"]
    /\ now = 0
    /\ attested = [d \in Devices |-> [verdict |-> NoVerdict, at |-> 0]]
    /\ accepted = [c \in Challenges |-> 0]
    /\ signatures = {} /\ vouched = [t \in Tokens |-> 0]

-----------------------------------------------------------------------------
(* What a transaction reads                                                *)

Revoked(kind, id) == <<kind, id>> \in revocations

\* _capacity
HasRoom(table) == Cardinality({x \in DOMAIN table : table[x].state # "absent"}) < maximum_rows

\* _subject, _device and _session do not throw
LiveSubject(u) == subject[u] = "active" /\ ~Revoked("subject", u)

LiveDevice(u, d) ==
    /\ LiveSubject(u)
    /\ device[d].state = "active" /\ device[d].subject = u
    /\ ~Revoked("device", d)

LiveSession(u, d, s) ==
    /\ LiveDevice(u, d)
    /\ session[s].state = "active" /\ session[s].subject = u /\ session[s].device = d
    /\ now < session[s].expires_at
    /\ ~Revoked("session", s)

\* _claims does not throw
ClaimsHold(t) ==
    /\ token[t].state # "absent"
    /\ now < token[t].expires_at
    /\ LiveSession(token[t].subject, token[t].device, token[t].session)
    /\ token[t].expires_at <= session[token[t].session].expires_at
    /\ ~Revoked("token", t)

\* _attestation_window
WindowOpen(v, x, until, at) == at <= v + AttestationAge /\ v <= at /\ at < x /\ x <= until

-----------------------------------------------------------------------------
(* Subjects and devices                                                    *)

AdmitSubject(u) ==
    /\ subject[u] = "absent" /\ ~Revoked("subject", u)
    /\ Cardinality({v \in Subjects : subject[v] # "absent"}) < maximum_rows
    /\ subject' = [subject EXCEPT ![u] = "active"]
    /\ UNCHANGED <<device, challenge, session, token, revocations, events, enroll, issue, now,
                   attested, accepted, signatures, vouched>>

Challenge(c, u, d, ttl) ==
    /\ challenge[c].state = "absent"
    /\ LiveSubject(u)
    /\ ~Revoked("device", d)
    /\ device[d].state = "absent" \/ (device[d].state = "active" /\ device[d].subject = u)
    /\ HasRoom(challenge)
    /\ challenge' = [challenge EXCEPT ![c] = [state |-> "issued", subject |-> u, device |-> d,
                                              expires_at |-> now + ttl]]
    /\ UNCHANGED <<subject, device, session, token, revocations, events, enroll, issue, now,
                   attested, accepted, signatures, vouched>>

\* enroll(): the broker is asked about a proof for a challenge.
EnrollAsk(e, c, p) ==
    /\ enroll[e].pc = "idle"
    /\ challenge[c].state # "absent"
    /\ enroll' = [enroll EXCEPT ![e] =
          [pc |-> "asking", verdict |-> [challenge |-> c, proof |-> p,
                                         verified_at |-> 0, expires_at |-> 0]]]
    /\ UNCHANGED <<subject, device, challenge, session, token, revocations, events, issue, now,
                   attested, accepted, signatures, vouched>>

\* It confirms the proof, for a window of its own choosing that is checked.
EnrollConfirmed(e, v, x) ==
    /\ enroll[e].pc = "asking"
    /\ WindowOpen(v, x, challenge[enroll[e].verdict.challenge].expires_at, now)
    /\ enroll' = [enroll EXCEPT ![e].pc = "confirmed", ![e].verdict.verified_at = v,
                                ![e].verdict.expires_at = x]
    /\ UNCHANGED <<subject, device, challenge, session, token, revocations, events, issue, now,
                   attested, accepted, signatures, vouched>>

\* The broker refuses or does not answer, the verdict does not bind, the
\* transaction is rolled back, or the process dies.
EnrollEnds(e) ==
    /\ enroll[e].pc # "idle"
    /\ enroll' = [enroll EXCEPT ![e] = NotEnrolling]
    /\ UNCHANGED <<subject, device, challenge, session, token, revocations, events, issue, now,
                   attested, accepted, signatures, vouched>>

Unspent(c) == challenge[c].state = "issued" /\ now < challenge[c].expires_at

\* A device that is known keeps its subject and its proof.
Bind(d, u, v, at) ==
    \/ /\ device[d].state = "active" /\ device[d].subject = u /\ device[d].proof = v.proof
       /\ UNCHANGED <<device, attested>>
    \/ /\ device[d].state = "absent" /\ HasRoom(device)
       /\ device' = [device EXCEPT ![d] = [state |-> "active", subject |-> u, proof |-> v.proof]]
       /\ attested' = [attested EXCEPT ![d] = [verdict |-> v, at |-> at]]

\* Faulty variant: the window is not looked at again before the commit.
WindowWasOpen(v, c, before, at) ==
    before <= at /\ WindowOpen(v.verified_at, v.expires_at, challenge[c].expires_at, before)

\* The window when the transaction began and, the clock read again, at its end.
WindowStaysOpen(v, c, before, at) ==
    /\ before <= at
    /\ WindowOpen(v.verified_at, v.expires_at, challenge[c].expires_at, before)
    /\ WindowOpen(v.verified_at, v.expires_at, challenge[c].expires_at, at)

\* accept_attestation(), in one transaction that takes until `at`.
AcceptAttestation(e, at) ==
    LET v == enroll[e].verdict
        c == v.challenge IN
    /\ enroll[e].pc = "confirmed"
    /\ LiveSubject(challenge[c].subject)
    /\ Unspent(c)
    /\ ~Revoked("device", challenge[c].device)
    /\ WindowStaysOpen(v, c, now, at)
    /\ Bind(challenge[c].device, challenge[c].subject, v, at)
    /\ challenge' = [challenge EXCEPT ![c].state = "consumed"]
    /\ now' = at
    /\ accepted' = [accepted EXCEPT ![c] = @ + 1]
    /\ enroll' = [enroll EXCEPT ![e] = NotEnrolling]
    /\ UNCHANGED <<subject, session, token, revocations, events, issue, signatures, vouched>>

-----------------------------------------------------------------------------
(* Sessions and tokens                                                     *)

CreateSession(s, u, d, ttl) ==
    /\ session[s].state = "absent"
    /\ LiveDevice(u, d)
    /\ HasRoom(session)
    /\ ~Revoked("session", s)
    /\ session' = [session EXCEPT ![s] = [state |-> "active", subject |-> u, device |-> d,
                                          expires_at |-> now + ttl]]
    /\ UNCHANGED <<subject, device, challenge, token, revocations, events, enroll, issue, now,
                   attested, accepted, signatures, vouched>>

\* Faulty variant: the row is usable before it is signed.
ActiveAtOnce(s, ttl) ==
    [state |-> "active", subject |-> session[s].subject, device |-> session[s].device,
     session |-> s, expires_at |-> now + ttl]

Prepared(s, ttl) ==
    [state |-> "preparing", subject |-> session[s].subject, device |-> session[s].device,
     session |-> s, expires_at |-> now + ttl]

\* issue(), first transaction.
PrepareToken(t, s, ttl) ==
    /\ token[t].state = "absent" /\ session[s].state # "absent"
    /\ LiveSession(session[s].subject, session[s].device, s)
    /\ now + ttl <= session[s].expires_at
    /\ ~Revoked("token", t)
    /\ HasRoom(token)
    /\ token' = [token EXCEPT ![t] = Prepared(s, ttl)]
    /\ issue' = [issue EXCEPT ![t] = "signing"]
    /\ UNCHANGED <<subject, device, challenge, session, revocations, events, enroll, now,
                   attested, accepted, signatures, vouched>>

\* The broker's signature is verified; or a key is out of its period, the
\* broker fails or is late, or its answer does not bind or verify.
Signed(t) ==
    /\ issue[t] = "signing"
    /\ \/ issue' = [issue EXCEPT ![t] = "signed"] /\ signatures' = signatures \cup {t}
       \/ issue' = [issue EXCEPT ![t] = "failing"] /\ UNCHANGED signatures
    /\ UNCHANGED <<subject, device, challenge, session, token, revocations, events, enroll, now,
                   attested, accepted, vouched>>

\* Faulty variant: any token that was not revoked can be activated.
UnlessTokenRevoked(t) == token[t].state # "revoked"

Activatable(t) == token[t].state = "preparing"

\* commit_token() rechecks what the token stands on, which may have changed
\* while it was signed.  The caller may not live to see it succeed.
CommitToken(t) ==
    /\ issue[t] = "signed"
    /\ \/ /\ ClaimsHold(t) /\ Activatable(t)
          /\ token' = [token EXCEPT ![t].state = "active"]
          /\ \E end \in {"returned", "dead"} : issue' = [issue EXCEPT ![t] = end]
       \/ issue' = [issue EXCEPT ![t] = "failing"] /\ UNCHANGED token
    /\ UNCHANGED <<subject, device, challenge, session, revocations, events, enroll, now,
                   attested, accepted, signatures, vouched>>

\* abandon_token() by the failing call, unless that fails as well.
Abandon(t) ==
    /\ issue[t] = "failing"
    /\ token' = [token EXCEPT ![t].state = IF @ = "preparing" THEN "indeterminate" ELSE @]
                 \/ UNCHANGED token
    /\ issue' = [issue EXCEPT ![t] = "failed"]
    /\ UNCHANGED <<subject, device, challenge, session, revocations, events, enroll, now,
                   attested, accepted, signatures, vouched>>

\* abandon_token() for one of pending_tokens(), whoever still works on it.
AbandonPending(t) ==
    /\ token[t].state = "preparing"
    /\ token' = [token EXCEPT ![t].state = "indeterminate"]
    /\ UNCHANGED <<subject, device, challenge, session, revocations, events, enroll, issue, now,
                   attested, accepted, signatures, vouched>>

\* The process that issues a token exits.
IssuerDies(t) ==
    /\ issue[t] \in {"signing", "signed", "failing"}
    /\ issue' = [issue EXCEPT ![t] = "dead"]
    /\ UNCHANGED <<subject, device, challenge, session, token, revocations, events, enroll, now,
                   attested, accepted, signatures, vouched>>

\* Faulty variant: a verifier that goes by what it signed.
VerifyOffline(t) ==
    /\ issue[t] = "returned" /\ now < token[t].expires_at
    /\ vouched' = [vouched EXCEPT ![t] = Len(events) + 1]
    /\ UNCHANGED <<subject, device, challenge, session, token, revocations, events, enroll, issue,
                   now, attested, accepted, signatures>>

\* verify(): require_token() accepts a token that its owner was given.
VerifyToken(t) ==
    /\ issue[t] = "returned"
    /\ ClaimsHold(t) /\ token[t].state = "active"
    /\ vouched' = [vouched EXCEPT ![t] = Len(events) + 1]
    /\ UNCHANGED <<subject, device, challenge, session, token, revocations, events, enroll, issue,
                   now, attested, accepted, signatures>>

-----------------------------------------------------------------------------
(* Revocation                                                              *)

\* What a row stands on: itself and its owners.
DeviceStandsOn(d) == {<<"device", d>>, <<"subject", device[d].subject>>}
ChallengeStandsOn(c) == {<<"device", challenge[c].device>>, <<"subject", challenge[c].subject>>}
SessionStandsOn(s) ==
    {<<"session", s>>, <<"device", session[s].device>>, <<"subject", session[s].subject>>}

\* Faulty variant: revoking a device leaves the tokens of its sessions.
TokenWithoutDevice(t) ==
    {<<"token", t>>, <<"session", token[t].session>>, <<"subject", token[t].subject>>}

TokenStandsOn(t) ==
    {<<"token", t>>, <<"session", token[t].session>>, <<"device", token[t].device>>,
     <<"subject", token[t].subject>>}

Fall(table, rows) ==
    [r \in DOMAIN table |->
        IF r \in rows /\ table[r].state # "absent"
        THEN [table[r] EXCEPT !.state = "revoked"] ELSE table[r]]

\* revoke(), of what may not exist yet as well, and whatever room there is.
Revoke(x) ==
    /\ x \in revocations \/ Len(events) < MaxEvents
    /\ revocations' = revocations \cup {x}
    /\ events' = IF x \in revocations THEN events ELSE Append(events, x)
    /\ subject' = [u \in Subjects |->
          IF subject[u] # "absent" /\ x = <<"subject", u>> THEN "revoked" ELSE subject[u]]
    /\ device' = Fall(device, {d \in Devices : x \in DeviceStandsOn(d)})
    /\ challenge' = Fall(challenge, {c \in Challenges : x \in ChallengeStandsOn(c)})
    /\ session' = Fall(session, {s \in Sessions : x \in SessionStandsOn(s)})
    /\ token' = Fall(token, {t \in Tokens : x \in TokenStandsOn(t)})
    /\ UNCHANGED <<enroll, issue, now, attested, accepted, signatures, vouched>>

Tick ==
    /\ now < MaxTime
    /\ now' = now + 1
    /\ UNCHANGED <<subject, device, challenge, session, token, revocations, events, enroll, issue,
                   attested, accepted, signatures, vouched>>

IdentityNext ==
    \/ \E u \in Subjects : AdmitSubject(u)
    \/ \E c \in Challenges, u \in Subjects, d \in Devices, ttl \in Lifetimes :
          Challenge(c, u, d, ttl)
    \/ \E e \in Enrollments, c \in Challenges, p \in Proofs : EnrollAsk(e, c, p)
    \/ \E e \in Enrollments, v, x \in 0..MaxTime + 1 : EnrollConfirmed(e, v, x)
    \/ \E e \in Enrollments : EnrollEnds(e)
    \/ \E e \in Enrollments, at \in 0..MaxTime : AcceptAttestation(e, at)
    \/ \E s \in Sessions, u \in Subjects, d \in Devices, ttl \in Lifetimes :
          CreateSession(s, u, d, ttl)
    \/ \E t \in Tokens, s \in Sessions, ttl \in Lifetimes : PrepareToken(t, s, ttl)
    \/ \E t \in Tokens : Signed(t) \/ CommitToken(t) \/ Abandon(t) \/ AbandonPending(t)
                         \/ IssuerDies(t) \/ VerifyToken(t)
    \/ \E x \in Identity : Revoke(x)
    \/ Tick

IdentitySpec == IdentityInit /\ [][IdentityNext]_identityVars

-----------------------------------------------------------------------------
\* What grants anything stands on rows that are active and agree with it, and
\* on nothing that was ever revoked: four tables, written by transactions that
\* each look only at some of them, some of them after a remote call.
ChainOfAuthority ==
    /\ \A d \in Devices : device[d].state = "active" =>
          /\ subject[device[d].subject] = "active"
          /\ DeviceStandsOn(d) \cap revocations = {}
    /\ \A c \in Challenges : challenge[c].state = "issued" =>
          ChallengeStandsOn(c) \cap revocations = {}
    /\ \A s \in Sessions : session[s].state = "active" =>
          /\ device[session[s].device].state = "active"
          /\ device[session[s].device].subject = session[s].subject
          /\ SessionStandsOn(s) \cap revocations = {}
    /\ \A t \in Tokens : token[t].state = "active" =>
          /\ session[token[t].session].state = "active"
          /\ session[token[t].session].subject = token[t].subject
          /\ session[token[t].session].device = token[t].device
          /\ TokenStandsOn(t) \cap revocations = {}

\* "Token fails every subsequent durable verification": whoever follows the
\* feed of revocations finds each that concerns a token after the last time
\* that token was accepted.
VouchedBeforeRevocation ==
    \A t \in Tokens : \A i \in DOMAIN events : events[i] \in TokenStandsOn(t) => vouched[t] <= i

\* A device was admitted on a verdict about its own challenge and proof, while
\* the broker's window and the challenge were still open at the end of the
\* transaction.
EnrollmentIsAttested ==
    \A d \in Devices : device[d].state # "absent" =>
        LET v == attested[d].verdict IN
        /\ v # NoVerdict /\ v.proof = device[d].proof
        /\ challenge[v.challenge].device = d
        /\ challenge[v.challenge].subject = device[d].subject
        /\ challenge[v.challenge].state \in {"consumed", "revoked"}
        /\ WindowOpen(v.verified_at, v.expires_at, challenge[v.challenge].expires_at, attested[d].at)

\* However many calls hold the broker's verdict on a challenge, it is answered
\* once.
ChallengeSpentOnce == \A c \in Challenges : accepted[c] <= 1

\* A token that can be used was signed, and its caller was not told that the
\* issue failed: late signers and failed calls leave nothing usable.
FailedIssueGrantsNothing ==
    \A t \in Tokens : token[t].state = "active" =>
        t \in signatures /\ issue[t] \in {"returned", "dead"}

\* Rows that were revoked.
RevokedRow(table) == {r \in DOMAIN table : table[r].state = "revoked"}

\* Revoked rows stay revoked, revocations are never forgotten, a device keeps
\* the subject and the proof it was admitted with, and a token that was given
\* up is never activated.
IdentityIsFinal ==
    [][/\ revocations \subseteq revocations'
       /\ \A i \in DOMAIN events : i \in DOMAIN events' /\ events'[i] = events[i]
       /\ \A u \in Subjects : subject[u] = "revoked" => subject'[u] = "revoked"
       /\ RevokedRow(device) \subseteq RevokedRow(device')
       /\ RevokedRow(challenge) \subseteq RevokedRow(challenge')
       /\ RevokedRow(session) \subseteq RevokedRow(session')
       /\ RevokedRow(token) \subseteq RevokedRow(token')
       /\ \A d \in Devices : device[d].state # "absent" =>
             device'[d].subject = device[d].subject /\ device'[d].proof = device[d].proof
       /\ \A t \in Tokens : token[t].state = "indeterminate" => token'[t].state # "active"
      ]_identityVars
=============================================================================
