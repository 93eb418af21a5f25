CONSTANTS
    Size = 5
    Byte = {1, 2}
    NoByte = 0
    Chunks <- MCChunks
SPECIFICATION RingSpec
PROPERTY IsReplayLog
