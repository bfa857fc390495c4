\* As shipped (APPLIER_THREAD = 1), with entries of MLOG_REC_INSERT, a type
\* log_apply_apply_one_log has no case for: the next entry of the page
\* moves its LSN past the failed one, which is then never replayed.
CONSTANTS
    a1 = a1
    a2 = a2
    a3 = a3
    Addrs = {a1, a2}
    InitLsn <- MCInitLsn2
    OnDiskInit = {a1}
    Unregistered = {}
    BatchSize = 2
    Lens = {1, 2}
    MLOG_1BYTE = MLOG_1BYTE
    MLOG_REC_INSERT = MLOG_REC_INSERT
    LogTypes = {MLOG_1BYTE, MLOG_REC_INSERT}
    Handled = {MLOG_1BYTE}
    MaxLsn = 5
    NThreads = 1
    ReaderOn = FALSE
    MaxIsn = 10
SPECIFICATION Spec
INVARIANT NoLostUpdate
CHECK_DEADLOCK FALSE
