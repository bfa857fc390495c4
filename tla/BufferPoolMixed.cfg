\* A do_apply thread over a cached page, an evicted one and one past the
\* file's end, and a CopyPage thread on a third page, over a two-frame pool.
SPECIFICATION Spec
CONSTANTS
    a1 = a1
    a2 = a2
    a3 = a3
    t1 = t1
    t2 = t2
    None = None
    Null = Null
    NoFrame = NoFrame
    Addrs = {a1, a2, a3}
    OnDiskInit = {a1, a2}
    EvictBatch = 64
    PoolSize = 2
    Clients = {t1, t2}
    Role <- MCRoleApplyCopy
    Targets <- MCTargetsMixed
    PageNo <- MCPageNo
    ApplyKinds = {"init", "write", "fail"}
    BUF_NO_CHECKSUM_MAGIC = BUF_NO_CHECKSUM_MAGIC
    FileChecksum = FileChecksum
    MaxApplies = 6
INVARIANT PoolConsistent
INVARIANT Persisted
INVARIANT PageImagesIntact
PROPERTY LruEvictsOldest
CHECK_DEADLOCK FALSE
