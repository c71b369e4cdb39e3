\* Short streams: has the tool got all of the stream when it ends?
CONSTANTS
    N = 2
    Bytes <- MCBytes
    Letters <- MCLetters
    Originals <- MCOriginals
    Streams <- MCStreams
    MaxHold = 4
    MaxPending = 6
SPECIFICATION Spec
INVARIANTS
    NothingLost
CHECK_DEADLOCK FALSE
