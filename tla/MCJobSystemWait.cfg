SPECIFICATION Spec
CONSTANTS
    w1 = w1
    w2 = w2
    i1 = i1
    s1 = s1
    s2 = s2
    s3 = s3
    n1 = n1
    ta = ta
    tb = tb
    main = main
    NoJob = NoJob
    Main <- main
    Workers = {w1, w2}
    Jobs <- NestJobs
    NestedJobs <- OneNested
    JobType <- NestType
    Dispatch <- NestDispatch
    Capacity <- Slots2
    PrioTypes = {}
PROPERTIES
    WaitAllComplete
