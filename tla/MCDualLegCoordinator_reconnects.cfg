SPECIFICATION DualSpec
CONSTANTS
    c1 = c1
    c2 = c2
    r1 = r1
    k1 = k1
    b1 = b1
    b2 = b2
    Keys = {k1}
    Bytes = {b1, b2}
    Pairs = {p1}
    Unselected = Unselected
    NoBytes = NoBytes
    MaxAuthorityEntries = 2
    MaxGeneration = 2
    MisreadScopes <- FirstLeft
    MaxMisread = 1
    LossyLegs = {"R"}
    Sends = {c1, c2}
    KeyOf <- SameKey
    BytesOf <- OtherBytes
    Reconciles = {r1}
    ReconciledKey <- ReconcileKey
    MaxAttempts = 2
    NoIdentity = NoIdentity
    NoReceipt = NoReceipt
INVARIANTS AppliedOncePerScope ReceiptIsTrue
CHECK_DEADLOCK FALSE
