SPECIFICATION SessionsSpec
CONSTANTS
    Subjects = {u1, u2}
    Devices = {d1}
    Proofs = {p1}
    Challenges = {c1, c2}
    Sessions = {s1}
    Tokens = {t1}
    Enrollments = {e1, e2}
    Nobody = Nobody
    Lifetimes = {1}
    AttestationAge = 1
    maximum_rows = 2
    MaxTime = 1
    MaxEvents = 1
    Calls = {a1, a2}
    Leases = {l1, l2, l3}
    owner = owner
    pair = pair
    firstSession = firstSession
    secondSession = secondSession
    Principals <- TwoSessions
    Tasks = {k1}
    LastSecond = 2
    maximum_lease_seconds = 1
    maximum_records = 2
    Flows = {f1, f2}
    MaxGeneration = 2
    MaxPages = 3
SYMMETRY Symmetry
INVARIANTS
    ChainOfAuthority
    VouchedBeforeRevocation
    EnrollmentIsAttested
    FailedIssueGrantsNothing
    RevokedHoldsNoLease
    OneLeasePerIntent
    SupersededIsOver
    SomeoneServesIt
    CompletedWasShown
PROPERTIES
    LeaseRevocationIsFinal
    LifecycleIsOrdered
CHECK_DEADLOCK FALSE
