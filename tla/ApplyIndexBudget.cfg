CONSTANTS
    a1 = a1
    a2 = a2
    Addrs <- MCAddrs
    BatchSize = 2
    Lens = {1, 2}
    MLOG_1BYTE = MLOG_1BYTE
    LogTypes = {MLOG_1BYTE}
    MaxLsn = 4
SPECIFICATION Spec
INVARIANT SegmentWithinBudget
CHECK_DEADLOCK FALSE
