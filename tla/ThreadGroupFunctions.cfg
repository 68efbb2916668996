SPECIFICATION FairSpec
CONSTANTS
    Nobody = Nobody
    Workers = {w}
    Openers = {o}
    Visitors = {v1, v2}
    Stoppers = {s1, s2}
    Flushers = {f}
INVARIANTS
    AloneAfterWait
    FunctionsRunOnce
PROPERTIES
    StopReturns
CHECK_DEADLOCK FALSE
