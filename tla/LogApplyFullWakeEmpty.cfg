\* APPLIER_THREAD = 4, as LogApplyFourSlotsIdleRace.cfg: the late worker of
\* slot 1 runs ExtractFront against the next segment and erases it while
\* the scheduler, woken on front_full_cond_, re-tests index_.front().
CONSTANTS
    a1 = a1
    a2 = a2
    a3 = a3
    Addrs = {a1, a2}
    InitLsn <- MCInitLsn2
    OnDiskInit = {a1}
    Unregistered = {}
    BatchSize = 2
    Lens = {1}
    MLOG_1BYTE = MLOG_1BYTE
    LogTypes = {MLOG_1BYTE}
    Handled = {MLOG_1BYTE}
    MaxLsn = 5
    NThreads = 4
    ReaderOn = FALSE
    MaxIsn = 10
SPECIFICATION Spec
INVARIANT FrontExistsAfterFullWake
CHECK_DEADLOCK FALSE
