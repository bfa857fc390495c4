\* APPLIER_THREAD = 1 as shipped: the scheduler is the only applier.
CONSTANTS
    a1 = a1
    a2 = a2
    a3 = a3
    Addrs = {a1, a2}
    InitLsn <- MCInitLsn2
    OnDiskInit = {a1}
    Unregistered = {}
    BatchSize = 2
    Lens = {1, 2}
    MLOG_1BYTE = MLOG_1BYTE
    LogTypes = {MLOG_1BYTE}
    Handled = {MLOG_1BYTE}
    MaxLsn = 5
    NThreads = 1
    ReaderOn = FALSE
    MaxIsn = 10
SPECIFICATION Spec
INVARIANT TypeOK
INVARIANT NoLostUpdate
INVARIANT AppliedIsnSound
INVARIANT NoLostWakeup
PROPERTY FullSegmentsDrained
CHECK_DEADLOCK FALSE
