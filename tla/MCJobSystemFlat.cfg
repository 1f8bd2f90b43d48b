SPECIFICATION Spec
CONSTANTS
    w1 = w1
    w2 = w2
    i1 = i1
    s1 = s1
    s2 = s2
    s3 = s3
    n1 = n1
    ta = ta
    tb = tb
    main = main
    NoJob = NoJob
    Main <- main
    Workers = {w1, w2}
    Jobs <- FlatJobs
    NestedJobs <- NoNested
    JobType <- FlatType
    Dispatch <- FlatDispatch
    Capacity <- Slots3
    PrioTypes = {ta, tb}
SYMMETRY WorkerSymmetry
INVARIANTS
    JobInOnePlace
PROPERTIES
    RunsOnce
    WaitAllComplete
