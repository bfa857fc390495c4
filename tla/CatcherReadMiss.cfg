SPECIFICATION Spec
CONSTANTS
    Threads = {t1, t2}
    Fds = {d1}
    DataFiles = {f1}
    SpaceOf <- MCSpaceOne
    NewFiles = {}
    Pages = {0, 1}
    PoolSize = 2
    MaxCount = 2
    MaxWrites = 2
    AssertsOn = TRUE
    None = None
    f1 = f1
    f2 = f2
    t1 = t1
    t2 = t2
    d1 = d1
    d2 = d2
INVARIANT ReadPageNeverMisses
CHECK_DEADLOCK FALSE
