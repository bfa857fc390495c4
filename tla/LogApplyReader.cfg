\* APPLIER_THREAD = 2 (the scheduler and one worker thread share slot 0)
\* and the external page reader calling Search; page a3 belongs to an
\* unregistered tablespace, and MLOG_REC_INSERT entries fail to apply.
CONSTANTS
    a1 = a1
    a2 = a2
    a3 = a3
    Addrs = {a1, a2, a3}
    InitLsn <- MCInitLsn3
    OnDiskInit = {a1}
    Unregistered = {a3}
    BatchSize = 3
    Lens = {1}
    MLOG_1BYTE = MLOG_1BYTE
    MLOG_REC_INSERT = MLOG_REC_INSERT
    LogTypes = {MLOG_1BYTE, MLOG_REC_INSERT}
    Handled = {MLOG_1BYTE}
    NThreads = 2
    MaxIsn = 10
    MaxLsn = 3
    ReaderOn = TRUE
SPECIFICATION Spec
INVARIANT EntryConservation
INVARIANT NoLostWakeup
INVARIANT PageLsnIsLastApplied
INVARIANT FrontExistsAfterFullWake
CHECK_DEADLOCK FALSE
