SPECIFICATION FairSpec
CONSTANTS
    Byte <- MCByte
    Chunks <- MCChunks
    CompactThreshold = 3
    PrefixLen = 2
    Span = 9
    LengthField <- MCLengthField
    Delimiters <- MCDelimiters
    MaxFed = 7
INVARIANTS
    TypeOK
    FramesOfStream
    StreamConserved
    NoMessageWaits
    HalfPacketsKept
PROPERTIES
    DecodingEnds
CHECK_DEADLOCK FALSE
