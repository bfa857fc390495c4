\* APPLIER_THREAD = 2: log_apply_thread_start starts one worker thread, on
\* slot 0, which the scheduler also works; slot 1 gets no thread.
CONSTANTS
    a1 = a1
    a2 = a2
    a3 = a3
    Addrs = {a1, a2}
    InitLsn <- MCInitLsn2
    OnDiskInit = {a1}
    Unregistered = {}
    BatchSize = 2
    Lens = {1, 2}
    MLOG_1BYTE = MLOG_1BYTE
    LogTypes = {MLOG_1BYTE}
    Handled = {MLOG_1BYTE}
    MaxLsn = 5
    NThreads = 2
    ReaderOn = FALSE
    MaxIsn = 10
SPECIFICATION Spec
PROPERTY FullSegmentsDrained
CHECK_DEADLOCK FALSE
