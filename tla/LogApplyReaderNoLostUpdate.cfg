\* One applier thread and the external page reader calling Search.
CONSTANTS
    a1 = a1
    a2 = a2
    a3 = a3
    Addrs = {a1, a2}
    InitLsn <- MCInitLsn2
    OnDiskInit = {a1}
    Unregistered = {}
    BatchSize = 2
    Lens = {1, 2}
    MLOG_1BYTE = MLOG_1BYTE
    LogTypes = {MLOG_1BYTE}
    Handled = {MLOG_1BYTE}
    NThreads = 1
    MaxIsn = 10
    MaxLsn = 5
    ReaderOn = TRUE
SPECIFICATION Spec
INVARIANT NoLostUpdate
CHECK_DEADLOCK FALSE
