SPECIFICATION PartsSpec
CONSTANTS
    a1 = a1
    a2 = a2
    b1 = b1
    ta = ta
    tb = tb
    Jobs = {a1, a2, b1}
    JobTypes = {ta, tb}
    JobType <- MCJobType
    mCap = 4
    NoJob = NoJob
    MaxStores = 5
    s1 = s1
    s2 = s2
    x = x
    y = y
    Files = {x, y}
    QueueLimit = 3
    BufferLimit = 2
    MaxChanges = 4
    u = u
    u2 = u2
    v = v
    empty = empty
    nu = nu
    nv = nv
    ne = ne
    IDs = {s1, s2}
    URIs = {u, u2, v, empty}
    EmptyURI = empty
    Names = {nu, nv, ne}
    Stem <- MCStem
    Absent = Absent
    MaxIndex = 4
    MaxIssued = 4
    MaxDestroyed = 2
    MixedTrees = FALSE
    Owner <- PassOwner
    Home <- ImageHome
    Passes = {"forward", "outline", "gizmo", "screen", "editor", "pick", "dialog"}
    Images = {"color", "id", "depth", "in_color", "in_id", "out_color", "out_id",
              "screen_io", "editor_io", "editor_in", "pick_in", "dialog_io"}
    Components = {"Forward", "Overlay", "SceneScreen", "Editor", "ScreenPick", "EditorDialog"}
    ComputePasses = {"pick"}
    Windows = {"root", "dialog"}
    NotSorting = "none"
    NoImage = "none"
    Extents = {1, 2}
    MaxFrames = 2
    pageSize = 2
    isMultiPage = TRUE
    MaxPages = 3
    capacity = 8
    alignment = 2
    CommandSize <- MCCommandSize
    MaxCommands = 5
INVARIANTS
    ReadsWhole
    LatestUnlessOverlap
    LastStoreKept
    SparseMatchesDense
    EntriesBelong
    WorldFollowsTree
    TreeExact
    NoChangeMissed
    TableConsistent
    OrderRespectsEdges
    DrawnInOrder
    ImagesFit
    PoolExact
    CommandsApart
PROPERTIES
    ImplementsFifo
    NeverReissued
    ImplementsForest
    WalkExact
