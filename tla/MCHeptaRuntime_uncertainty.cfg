SPECIFICATION RuntimeSpec
CONSTANTS
    k1 = k1
    k2 = k2
    l1 = l1
    l2 = l2
    fp = fp
    Calls <- DeviceCalls
    Keys = {k1, k2}
    Effects = {k1, k2}
    NoEffect = NoEffect
    maxPending = 2
    LeaseIds = {l1, l2}
    Fingerprints = {fp}
    Reconcilers = {p1}
    NoLease = NoLease
    NoCall = NoCall
    NoReceipt = NoReceipt
    MaxTime = 2
    MaxFaults = 0
    MaxCrashes = 1
    MaxEntries = 4
INVARIANTS PendingEffectIsUncertain
PROPERTIES ImplementsToolGateway
CHECK_DEADLOCK FALSE
