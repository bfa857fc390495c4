\* APPLIER_THREAD = 4: worker threads start on slots 0 and 1; the
\* scheduler may find slot 1 idle before its woken worker set is_running.
CONSTANTS
    a1 = a1
    a2 = a2
    a3 = a3
    Addrs = {a1, a2}
    InitLsn <- MCInitLsn2
    OnDiskInit = {a1}
    Unregistered = {}
    BatchSize = 2
    Lens = {1}
    MLOG_1BYTE = MLOG_1BYTE
    LogTypes = {MLOG_1BYTE}
    Handled = {MLOG_1BYTE}
    MaxLsn = 4
    NThreads = 4
    ReaderOn = FALSE
    MaxIsn = 10
SPECIFICATION Spec
INVARIANT AppliedIsnSound
CHECK_DEADLOCK FALSE
