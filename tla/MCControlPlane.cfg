SPECIFICATION PlaneSpec
CONSTANTS
    k1 = k1
    k2 = k2
    u1 = u1
    u2 = u2
    l1 = l1
    Keys = {k1, k2}
    Subjects = {u1, u2}
    Subject <- OwnSubject
    Checked = {k1}
    Leases = {l1}
    NoLease = NoLease
    Fits <- SharedLease
    Deadline <- Deadlines
    maximum_operations = 2
    maximum_readbacks = 2
    Readers = {p1, p2}
    NoKey = NoKey
    MaxTime = 1
    MaxBreaches = 1
    Tickets = {t1, t2}
    Sessions = {s1, s2}
    NoSession = NoSession
    Remotes = {r1, r2}
    NoRemote = NoRemote
    maximum_records = 2
    lookup_limit = 1
    revoke_limit = 1
    Reconcilers = {c1}
    Revokers = {v1}
    Drainers = {d1}
    MaxInterrupts = 1
    MaxLies = 1
SYMMETRY Symmetry
INVARIANTS SettledIsTrue ProviderCalledOnce Custody ActiveUnharmed
PROPERTIES RevocationHolds RevokeIsTrue
CHECK_DEADLOCK FALSE
