\* A do_apply thread and a CopyPage thread on disjoint pages with a
\* two-frame pool: the copy thread's Evict waits, holding lock_, for the
\* page the apply thread holds, which then waits for lock_.
SPECIFICATION Spec
CONSTANTS
    a1 = a1
    a2 = a2
    a3 = a3
    t1 = t1
    t2 = t2
    None = None
    Null = Null
    NoFrame = NoFrame
    Addrs = {a1, a2, a3}
    OnDiskInit = {a1, a2, a3}
    EvictBatch = 64
    PoolSize = 2
    Clients = {t1, t2}
    Role <- MCRoleApplyCopy
    Targets <- MCTargetsDisjoint
    PageNo <- MCPageNo
    ApplyKinds = {"write"}
    BUF_NO_CHECKSUM_MAGIC = BUF_NO_CHECKSUM_MAGIC
    FileChecksum = FileChecksum
    MaxApplies = 4
INVARIANT NoDeadlock
CHECK_DEADLOCK FALSE
