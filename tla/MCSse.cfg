\* Every stream of up to four pieces, cut into chunks in every way.
CONSTANTS
    N = 4
    Bytes <- MCBytes
    Letters <- MCLetters
    Originals <- MCOriginals
    Streams <- MCStreams
    MaxHold = 4
    MaxPending = 6
SPECIFICATION Spec
INVARIANTS
    Seamless
    HeldForAReason
    PendingBounded
CHECK_DEADLOCK FALSE
