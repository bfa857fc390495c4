\* files of 8 blocks (4 of data), records around one block's data size
CONSTANTS
    Lens = {1, 100, 483, 495, 496, 497}
    MaxData = 4500
    PerFileSize = 4096
    LogBufSizePerFile <- MCLogBufSizePerFile
SPECIFICATION Spec
INVARIANTS LsnAtDataByte BufOffIsDataCount
CHECK_DEADLOCK FALSE
