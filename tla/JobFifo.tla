------------------------------ MODULE JobFifo -------------------------------
(***************************************************************************)
(* What a JobQueue promises to submit, to the workers and to prioritize: a *)
(* bounded first-in first-out queue whose order can be changed only by     *)
(* moving every job of one type to the front.  JobQueue implements this.   *)
(***************************************************************************)
EXTENDS JobOrder

CONSTANTS
    Jobs,     \* job headers
    JobTypes, \* values of JobHeader::type
    JobType,  \* the type of each job
    Capacity, \* number of slots of the ring
    NoJob     \* "no job was handed out"

VARIABLES
    fifo,     \* the queued jobs, oldest first
    out,      \* the job the last dequeue handed out, NoJob when it failed
    size      \* what size() and empty() tell the workers

fifoVars == <<fifo, out, size>>

Init == fifo = <<>> /\ out = NoJob /\ size = 0

Put(j) ==
    /\ HasRoom(fifo, Capacity)
    /\ fifo' = Append(fifo, j)
    /\ size' = size + 1
    /\ UNCHANGED out

Refuse ==
    /\ ~HasRoom(fifo, Capacity)
    /\ UNCHANGED fifoVars

Take ==
    /\ fifo # <<>>
    /\ out' = Head(fifo)
    /\ fifo' = Tail(fifo)
    /\ size' = size - 1

TakeNothing ==
    /\ fifo = <<>>
    /\ out' = NoJob
    /\ UNCHANGED <<fifo, size>>

Promote(t) ==
    /\ \E p \in [DOMAIN fifo -> DOMAIN fifo] :
          /\ IsPromotion(p, fifo, t, JobType)
          /\ fifo' = Reordered(fifo, p)
    /\ UNCHANGED <<out, size>>

Next ==
    \/ \E j \in Jobs : Put(j)
    \/ Refuse
    \/ Take
    \/ TakeNothing
    \/ \E t \in JobTypes : Promote(t)

Spec == Init /\ [][Next]_fifoVars
=============================================================================
