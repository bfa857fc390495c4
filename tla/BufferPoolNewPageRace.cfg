\* Two do_apply threads (a worker and the page reader) on a page that is
\* not yet in its file: both miss in GetPage and both call NewPage.
SPECIFICATION Spec
CONSTANTS
    a1 = a1
    a2 = a2
    a3 = a3
    t1 = t1
    t2 = t2
    None = None
    Null = Null
    NoFrame = NoFrame
    Addrs = {a1, a2, a3}
    EvictBatch = 64
    PoolSize = 3
    Clients = {t1, t2}
    Role <- MCRoleTwoApply
    Targets <- MCTargetsShared
    PageNo <- MCPageNo
    ApplyKinds = {"write"}
    BUF_NO_CHECKSUM_MAGIC = BUF_NO_CHECKSUM_MAGIC
    FileChecksum = FileChecksum
    MaxApplies = 2
    OnDiskInit = {}
INVARIANT NoNullDeref
CHECK_DEADLOCK FALSE
