\* A do_apply thread and a CopyPage thread on the same page, pool large
\* enough that nothing is evicted: GetPage's PageLock under lock_ against
\* WriteBackLock.
SPECIFICATION Spec
CONSTANTS
    a1 = a1
    a2 = a2
    a3 = a3
    t1 = t1
    t2 = t2
    None = None
    Null = Null
    NoFrame = NoFrame
    Addrs = {a1, a2, a3}
    OnDiskInit = {a1, a2}
    EvictBatch = 64
    PoolSize = 3
    Clients = {t1, t2}
    Role <- MCRoleApplyCopy
    Targets <- MCTargetsShared
    PageNo <- MCPageNo
    ApplyKinds = {"write"}
    BUF_NO_CHECKSUM_MAGIC = BUF_NO_CHECKSUM_MAGIC
    FileChecksum = FileChecksum
    MaxApplies = 3
INVARIANT NoDeadlock
CHECK_DEADLOCK FALSE
