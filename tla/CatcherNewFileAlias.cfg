\* f1 is created while the process runs: open reads its space id from a
\* page 0 the file does not hold yet (catcher.cpp 297-299), and its
\* pages share cache entries with f2 (NoForeignPage).
SPECIFICATION Spec
CONSTANTS
    Threads = {t1, t2}
    Fds = {d1}
    DataFiles = {f1, f2}
    SpaceOf <- MCSpaceOf
    NewFiles = {f1}
    Pages = {0, 1}
    PoolSize = 4
    MaxCount = 1
    MaxWrites = 2
    AssertsOn = FALSE
    None = None
    f1 = f1
    f2 = f2
    t1 = t1
    t2 = t2
    d1 = d1
    d2 = d2
INVARIANT NoForeignPage
CHECK_DEADLOCK FALSE
