\* two-field record bodies of every layout, cut at every length
CONSTANTS
    Values32 <- MCValues32
    Values64 <- MCValues64
    Formats <- MCFormats
SPECIFICATION Spec
INVARIANTS ParsedAsEncoded NoOverread
CHECK_DEADLOCK FALSE
