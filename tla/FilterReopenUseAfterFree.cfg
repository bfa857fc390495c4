SPECIFICATION Spec
CONSTANTS
    Threads = {t1, t2}
    Fds = {d1}
    DataFiles = {f1}
    OtherFiles = {o1}
    Pages = {0, 1}
    MaxWrites = 3
    MaxMaps = 2
    Closes = TRUE
    OpenTwice = FALSE
    None = None
    f1 = f1
    o1 = o1
    t1 = t1
    t2 = t2
    d1 = d1
    d2 = d2
INVARIANT NoUseAfterFree
CHECK_DEADLOCK FALSE
