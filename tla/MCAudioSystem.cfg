SPECIFICATION Spec
CONSTANTS
    b1 = b1
    b2 = b2
    p1 = p1
    p2 = p2
    NoBuffer = NoBuffer
    Buffers <- TwoBuffers
    Playbacks = {p1}
    Frames <- MCFrames
    Period = 2
    Capacity = 2
    Controls = {"start", "stop", "pause"}
INVARIANTS
    NoTouchUnlessEarly
    AcquiredIsLive
    CursorInBuffer
