------------------------------ MODULE JobOrder ------------------------------
(***************************************************************************)
(* The two facts about the contents of one JobQueue that its users rely    *)
(* on: when the ring accepts another job, and what JobQueue::prioritize    *)
(* makes of the order (LDCore/JobSystem/Lib/JobSystem.cpp).  A queue's      *)
(* contents are a sequence, oldest job first.                              *)
(***************************************************************************)
EXTENDS Integers, Sequences, Functions

\* The ring leaves one slot empty to tell full from empty.
HasRoom(jobs, cap) == Len(jobs) < cap - 1

\* p reorders jobs so that those of type t come first, in their old order.
\* Where the remaining jobs end up is not promised (the loop swaps them).
IsPromotion(p, jobs, t, JobType) ==
    /\ p \in Bijection(DOMAIN jobs, DOMAIN jobs)
    /\ \A i, k \in DOMAIN jobs :
          JobType[jobs[p[k]]] = t /\ i < k => JobType[jobs[p[i]]] = t /\ p[i] < p[k]

Reordered(jobs, p) == [i \in DOMAIN jobs |-> jobs[p[i]]]
=============================================================================
