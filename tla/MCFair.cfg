SPECIFICATION FairParts
CONSTANTS
    b1 = b1
    p1 = p1
    p2 = p2
    NoBuffer = NoBuffer
    Buffers = {b1}
    Playbacks = {p1, p2}
    Frames <- MCFrames
    Period = 2
    Capacity = 2
    Controls = {"resume"}
    pa = pa
    pb = pb
    pc = pc
    s1 = s1
    s2 = s2
    x = x
    y = y
    NoProject = NoProject
    Projects = {pa, pb, pc}
    File <- MCFile
    Paths = {x, y}
    Batches <- MCBatches
    IdentityMask = 4
INVARIANTS
    PlaybackListExact
    FreedNotUsed
    AssetsMatchRegistry
    FilesKept
PROPERTIES
    DestructorReturnsUnlessLost
    LoadEnds
    ImportsReported
