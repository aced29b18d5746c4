SPECIFICATION FairSpec
CONSTANTS
    k1 = k1
    k2 = k2
    l1 = l1
    l2 = l2
    fpA = fpA
    fpB = fpB
    Calls <- ReadCalls
    Keys = {k1, k2}
    LeaseIds = {l1, l2}
    Fingerprints = {fpA, fpB}
    Reconcilers = {p1}
    NoLease = NoLease
    NoCall = NoCall
    NoReceipt = NoReceipt
    MaxTime = 2
    MaxFaults = 1
    MaxCrashes = 1
    MaxEntries = 3
PROPERTIES ExecutionEnds
CHECK_DEADLOCK FALSE
