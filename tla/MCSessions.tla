----------------------------- MODULE MCSessions -----------------------------
(* A small instance for TLC of the three places that decide whether a      *)
(* session still counts: the control plane's identities, its leases and    *)
(* the phone's assistant.  They share no state and each runs while the     *)
(* others are at rest.                                                     *)
(*                                                                         *)
(* Identities: two subjects may claim one device, by two challenges and    *)
(* two concurrent enrolments that show the same proof; its session is      *)
(* given a token, and one thing is revoked.  Leases: two calls, for two    *)
(* sessions of one subject and device and requests that differ in their    *)
(* deadline, while anything is revoked.  Assistant: the handlers of two    *)
(* sessions, up to two of them waiting at once, and answers of up to three *)
(* pages.                                                                  *)
EXTENDS DurableIdentity, MutationAuthority, AssistantSession, TLC

CONSTANTS owner, pair, firstSession, secondSession

TwoSessions ==
    {[subject |-> owner, device_id |-> pair, session_id |-> firstSession],
     [subject |-> owner, device_id |-> pair, session_id |-> secondSession]}

Symmetry == Permutations(Enrollments) \cup Permutations(Calls) \cup Permutations(Flows)

SubjectsUsed == {x \in Subjects : subject[x] # "absent" \/ <<"subject", x>> \in revocations}
ChallengesUsed == {c \in Challenges : challenge[c].state # "absent"}
LeasesUsed == {l \in Leases : lease[l].state # "absent"}

\* Which of two identifiers is drawn first is not told apart.
FirstFirst(used, all) == used = {} \/ (CHOOSE x \in all : TRUE) \in used
InOrder ==
    /\ FirstFirst(SubjectsUsed, Subjects) /\ FirstFirst(ChallengesUsed, Challenges)
    /\ FirstFirst(LeasesUsed, Leases)

IdentityRests == IdentityInit /\ UNCHANGED identityVars
AuthorityRests == MutationInit /\ UNCHANGED mutationVars
AssistantRests == AssistantInit /\ platform = "android" /\ UNCHANGED assistantVars

SessionsInit == IdentityInit /\ MutationInit /\ AssistantInit

SessionsNext ==
    \/ AuthorityRests /\ AssistantRests /\ IdentityNext /\ InOrder'
    \/ IdentityRests /\ AssistantRests /\ AuthorityNext /\ InOrder'
    \/ IdentityRests /\ AuthorityRests /\ AssistantNext

SessionsSpec == SessionsInit /\ [][SessionsNext]_<<identityVars, mutationVars, assistantVars>>
=============================================================================
