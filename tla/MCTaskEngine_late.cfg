SPECIFICATION Spec
CONSTANTS
    Callers = {p1}
    Tasks = {t1, t2}
    Keys = {k1, k2}
    NoTask = NoTask
    MaxEntries = 5
    MaxLostAppends = 1
    Outcomes = {"ok", "late"}
    MaxRestarts = 1
INVARIANTS ReplayAccepts

CHECK_DEADLOCK FALSE
