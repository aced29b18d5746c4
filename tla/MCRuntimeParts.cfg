SPECIFICATION PartsSpec
CONSTANTS
    Callers = {p1, p2}
    Tasks = {t1, t2}
    Keys = {k1, k2}
    NoTask = NoTask
    MaxEntries = 5
    MaxLostAppends = 1
    Outcomes = {"ok", "lost"}
    MaxRestarts = 1
    Processes = {p1, p2}
    Entries = {e1, e2, e3, e4}
    NoProcess = NoProcess
    NoEntry = NoEntry
    Missing = Missing
    maximumRecordCount = 3
    MaxFaults = 2
    Effects = {e1, e2, e3, e4}
    NoEffect = NoEffect
    maxPending = 3
INVARIANTS MemoryMatchesJournal Recoverable NoOverlap HonestAnswer
PROPERTIES ImplementsDurableLog EveryoneAnswered
CHECK_DEADLOCK FALSE
