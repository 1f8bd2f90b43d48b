---------------------------- MODULE MCJobSystem -----------------------------
EXTENDS JobSystemProps, TLC

CONSTANTS main, w1, w2, i1, s1, s2, s3, n1, ta, tb

\* One immediate job and standard jobs, so that the standard queue overflows.
FlatJobs == {i1, s1, s2, s3}
NestJobs == {s1, s2, n1}
NoNested == {}
OneNested == {n1}

FlatType == [j \in FlatJobs |-> IF j = s2 THEN tb ELSE ta]
NestType == [j \in NestJobs |-> IF j = s2 THEN tb ELSE ta]
FlatDispatch == [j \in FlatJobs |-> IF j = i1 THEN "immediate" ELSE "standard"]
NestDispatch == [j \in NestJobs |-> "standard"]

Slots2 == [d \in Dispatches |-> 2]
Slots3 == [d \in Dispatches |-> IF d = "immediate" THEN 2 ELSE 3]

WorkerSymmetry == Permutations({w1, w2})
=============================================================================
