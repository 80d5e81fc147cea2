CONSTANTS
    a = a
    b = b
    Byte <- MCByte
    Chunks <- MCChunks
    CompactThreshold = 3
    MaxUnread = 5
SPECIFICATION Spec
INVARIANTS
    TypeOK
    DeadPrefixBounded
PROPERTIES
    ImplementsByteQueue
