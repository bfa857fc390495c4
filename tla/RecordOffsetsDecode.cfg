\* Both indexes, every row their columns admit, the four statuses and an
\* unknown one, and max_n capping the count or not.
CONSTANTS
    Schemas <- MCSchemas
    ShortVals <- MCShortVals
    BigVals <- MCBigVals
    Statuses = {0, 1, 2, 3, 5}
    MaxNIn <- MCMaxNIn
    OldRows <- MCOldRows
SPECIFICATION Spec
INVARIANT OffsetsMatchRecord
INVARIANT NoOffsetsOverflow
INVARIANT OldFieldsMatchRecord
\* CalculateOffsets returns: a behaviour ends with its offsets computed
CHECK_DEADLOCK FALSE
