SPECIFICATION FilterSpec
CONSTANTS
    Alphabet = {"<", "/", "k", ">"}
    OPEN <- MCOpen
    CLOSE <- MCClose
    MaxChunk = 3
    MaxText = 8
INVARIANT
    StripsAnyChunking
CHECK_DEADLOCK FALSE
