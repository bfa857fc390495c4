\* One do_apply thread over two file pages and one page past its file's
\* end; every entry's mutator either leaves the header alone or fails.
SPECIFICATION Spec
CONSTANTS
    a1 = a1
    a2 = a2
    a3 = a3
    t1 = t1
    t2 = t2
    None = None
    Null = Null
    NoFrame = NoFrame
    Addrs = {a1, a2, a3}
    OnDiskInit = {a1, a2}
    EvictBatch = 64
    PoolSize = 2
    Clients = {t1}
    Role <- MCRoleApply
    Targets <- MCTargetsApply
    PageNo <- MCPageNo
    ApplyKinds = {"write", "fail"}
    BUF_NO_CHECKSUM_MAGIC = BUF_NO_CHECKSUM_MAGIC
    FileChecksum = FileChecksum
    MaxApplies = 3
INVARIANT FilePagesNumbered
CHECK_DEADLOCK FALSE
