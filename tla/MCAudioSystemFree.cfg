SPECIFICATION Spec
CONSTANTS
    b1 = b1
    b2 = b2
    p1 = p1
    p2 = p2
    NoBuffer = NoBuffer
    Buffers <- OneBuffer
    Playbacks = {p1}
    Frames <- ShortFrames
    Period = 2
    Capacity = 3
    Controls = {"start"}
INVARIANTS
    NoTouchAfterFree
