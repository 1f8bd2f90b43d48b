------------------------------ MODULE JobQueue ------------------------------
(***************************************************************************)
(* The ring buffer class JobQueue of LDCore/JobSystem/Lib/JobSystem.cpp.   *)
(*                                                                         *)
(* enqueue and dequeue run under mMutex and are one step each: mSize is    *)
(* the only member read without the mutex, and it is the last one each of  *)
(* them writes.  prioritize holds the mutex for a whole loop; its          *)
(* iterations are separate steps so that the reader of mSize is seen in    *)
(* between, and the mutex is what keeps the other operations out.          *)
(***************************************************************************)
EXTENDS JobOrder

CONSTANTS
    Jobs,     \* job headers
    JobTypes, \* values of JobHeader::type
    JobType,  \* the type of each job
    mCap,     \* number of slots
    NoJob     \* content of a slot never written; result of a failed dequeue

ASSUME QueueConstants ==
    /\ mCap \in Nat \ {0}
    /\ JobType \in [Jobs -> JobTypes]
    /\ NoJob \notin Jobs

VARIABLES
    mJobs,    \* the slots
    mHead,    \* slot the next enqueue writes
    mTail,    \* slot the next dequeue reads
    mSize,    \* number of queued jobs, read by size() and empty() without mMutex
    out,      \* the job the last dequeue handed out
    scan      \* locals of a running prioritize, or the idle scan

queueVars == <<mJobs, mHead, mTail, mSize, out, scan>>

Slots == 0 .. mCap - 1
Succ(i) == (i + 1) % mCap

\* Distance from slot i forward to slot k.
Ahead(i, k) == IF i <= k THEN k - i ELSE k + mCap - i

\* The contents, oldest first.
Contents == [i \in 1 .. Ahead(mTail, mHead) |-> mJobs[(mTail + i - 1) % mCap]]

NoScan == [on |-> FALSE]
Scanning == scan.on

QueueInit ==
    /\ mJobs = [i \in Slots |-> NoJob]
    /\ mHead = 0
    /\ mTail = 0
    /\ mSize = 0
    /\ out = NoJob
    /\ scan = NoScan

Enqueue(j) ==
    /\ ~Scanning
    /\ IF Succ(mHead) # mTail
       THEN /\ mJobs' = [mJobs EXCEPT ![mHead] = j]
            /\ mHead' = Succ(mHead)
            /\ mSize' = mSize + 1
       ELSE UNCHANGED <<mJobs, mHead, mSize>>
    /\ UNCHANGED <<mTail, out, scan>>

Dequeue ==
    /\ ~Scanning
    /\ IF mHead # mTail
       THEN /\ out' = mJobs[mTail]
            /\ mTail' = Succ(mTail)
            /\ mSize' = mSize - 1
       ELSE /\ out' = NoJob
            /\ UNCHANGED <<mTail, mSize>>
    /\ UNCHANGED <<mJobs, mHead, scan>>

\* scan.before is the contents when the mutex was taken.
PrioritizeBegin(t) ==
    /\ ~Scanning
    /\ scan' = [on |-> TRUE, type |-> t, now |-> mTail, front |-> mTail, before |-> Contents]
    /\ UNCHANGED <<mJobs, mHead, mTail, mSize, out>>

\* Mutant: the place for the next promoted job does not advance.
PrioritizeStepSameFront ==
    /\ Scanning
    /\ scan.now # mHead
    /\ scan' = [scan EXCEPT !.now = Succ(@)]
    /\ mJobs' = IF JobType[mJobs[scan.now]] = scan.type
                THEN [mJobs EXCEPT ![scan.front] = mJobs[scan.now],
                                   ![scan.now]   = mJobs[scan.front]]
                ELSE mJobs
    /\ UNCHANGED <<mHead, mTail, mSize, out>>

PrioritizeStep ==
    /\ Scanning
    /\ scan.now # mHead
    /\ IF JobType[mJobs[scan.now]] = scan.type
       THEN /\ mJobs' = [mJobs EXCEPT ![scan.front] = mJobs[scan.now],
                                      ![scan.now]   = mJobs[scan.front]]
            /\ scan' = [scan EXCEPT !.now = Succ(@), !.front = Succ(@)]
       ELSE /\ scan' = [scan EXCEPT !.now = Succ(@)]
            /\ UNCHANGED mJobs
    /\ UNCHANGED <<mHead, mTail, mSize, out>>

PrioritizeEnd ==
    /\ Scanning
    /\ scan.now = mHead
    /\ scan' = NoScan
    /\ UNCHANGED <<mJobs, mHead, mTail, mSize, out>>

QueueNext ==
    \/ \E j \in Jobs : Enqueue(j)
    \/ Dequeue
    \/ \E t \in JobTypes : PrioritizeBegin(t)
    \/ PrioritizeStep
    \/ PrioritizeEnd

QueueSpec == QueueInit /\ [][QueueNext]_queueVars
-----------------------------------------------------------------------------
(***************************************************************************)
(* enqueue, dequeue and prioritize implement the bounded fifo: nothing is  *)
(* lost, duplicated or overtaken, and prioritize, seen as one step when it *)
(* releases the mutex, moves exactly the jobs of its type to the front;    *)
(* and the counter that size() and empty() read without the mutex is the   *)
(* number of the jobs, so that no worker sleeps over a queue because of an *)
(* index that wrapped.                                                     *)
(***************************************************************************)
Fifo == INSTANCE JobFifo WITH
    Capacity <- mCap,
    fifo <- IF Scanning THEN scan.before ELSE Contents,
    size <- mSize

ImplementsFifo == Fifo!Spec
=============================================================================
