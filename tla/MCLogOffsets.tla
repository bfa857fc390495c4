---------------------------- MODULE MCLogOffsets ----------------------------
EXTENDS LogOffsets

\* what the log writer must set: the data bytes of one file
MCLogBufSizePerFile == FileData
=============================================================================
