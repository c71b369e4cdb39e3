\* Two connections, sockets of one frame, three frames in all, one mishap; the buffer
\* is flushed at two events.
CONSTANTS
    v1 = v1  v2 = v2
    Connections = {c1, c2}
    Values = {v1, v2}
    ClientFrames <- MCClientFrames
    UpstreamFrames <- MCUpstreamFrames
    Threshold = 2
    Capacity = 1
    MaxFrames = 3
    MaxMishaps = 1
SPECIFICATION FairSpec
INVARIANTS
    TypeOK
    EventsAccounted
    BufferBounded
PROPERTIES
    OwnWords
    LeftIsClosed
CHECK_DEADLOCK FALSE
