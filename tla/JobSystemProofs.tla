-------------------------- MODULE JobSystemProofs ---------------------------
(* Proofs about JobSystem for any jobs, workers and queue capacities.      *)
EXTENDS JobSystemProps, FiniteSetTheorems, TLAPS

(***************************************************************************)
(* Main is never in two calls at once, and a job that is not nested is     *)
(* submitted by main.                                                      *)
(***************************************************************************)
MainInOneCall ==
    /\ mpc # "idle" => Free(Main)
    /\ \A j \in Jobs \ NestedJobs : sub[j] # "none" => by[j] = Main

(***************************************************************************)
(* wakeCV.notify_one leaves every worker in worker_thread_main, and none   *)
(* that it touches is running a job.                                       *)
(***************************************************************************)
LEMMA NotifyKeepsRunners ==
    ASSUME wpc \in [Workers -> WorkerStates], NotifyOneWorker
    PROVE  /\ wpc' \in [Workers -> WorkerStates]
           /\ \A w \in Workers : wpc'[w] = "run" <=> wpc[w] = "run"
BY DEF NotifyOneWorker, WorkerStates

(***************************************************************************)
(* prioritize rearranges a queue of jobs into a queue of jobs.             *)
(***************************************************************************)
LEMMA ReorderedIsSeq ==
    ASSUME NEW jobs \in Seq(Jobs), NEW p \in [DOMAIN jobs -> DOMAIN jobs]
    PROVE  Reordered(jobs, p) \in Seq(Jobs)
BY DEF Reordered

(* One call of JobQueue::prioritize leaves both queues sequences of jobs.   *)
LEMMA PrioritizeType ==
    ASSUME TypeOK, NEW d \in Dispatches, NEW t, PrioritizeQueue(d, t)
    PROVE  queue' \in [Dispatches -> Seq(Jobs)]
<1>1. PICK p \in [DOMAIN queue[d] -> DOMAIN queue[d]] :
        queue' = [queue EXCEPT ![d] = Reordered(@, p)]
  BY DEF PrioritizeQueue
<1>2. Reordered(queue[d], p) \in Seq(Jobs)
  BY ReorderedIsSeq DEF TypeOK
<1>3. QED
  BY <1>1, <1>2 DEF TypeOK

(***************************************************************************)
(* submit leaves the last slot of a ring empty, dequeue takes from it and  *)
(* prioritize keeps its length.                                            *)
(***************************************************************************)
LEMMA QueuesFitStep == TypeOK /\ [Next]_vars => QueuesFit'
<1> SUFFICES ASSUME TypeOK, [Next]_vars PROVE QueuesFit'
  OBVIOUS
<1>1. /\ queue \in [Dispatches -> Seq(Jobs)]
      /\ \A d \in Dispatches : Len(queue[d]) < Capacity[d] /\ Capacity[d] \in Nat
  BY JobSystemConstants DEF TypeOK, QueuesFit
<1>2. ASSUME NEW d \in Dispatches, NEW q \in Seq(Jobs), Len(q) < Capacity[d],
             queue' = [queue EXCEPT ![d] = q]
      PROVE  QueuesFit'
  BY <1>1, <1>2 DEF QueuesFit
<1>3. CASE UNCHANGED queue
  BY <1>1, <1>3 DEF QueuesFit
<1>4. ASSUME NEW c \in Jobs \cup {Main}, NEW j \in Jobs, SubmitEnqueue(c, j) PROVE QueuesFit'
  <2>1. Dispatch[j] \in Dispatches
    BY JobSystemConstants
  <2>2. CASE HasRoom(queue[Dispatch[j]], Capacity[Dispatch[j]])
    <3>1. queue' = [queue EXCEPT ![Dispatch[j]] = Append(queue[Dispatch[j]], j)]
      BY <1>4, <2>2 DEF SubmitEnqueue
    <3>2. /\ Append(queue[Dispatch[j]], j) \in Seq(Jobs)
          /\ Len(Append(queue[Dispatch[j]], j)) < Capacity[Dispatch[j]]
      BY <1>1, <2>1, <2>2 DEF HasRoom
    <3>3. QED
      BY <1>2, <2>1, <3>1, <3>2
  <2>3. CASE ~HasRoom(queue[Dispatch[j]], Capacity[Dispatch[j]])
    BY <1>3, <1>4, <2>3 DEF SubmitEnqueue
  <2>4. QED
    BY <2>2, <2>3
<1>5. ASSUME NEW w \in Workers, NEW d \in Dispatches, WorkerDequeue(w, d) PROVE QueuesFit'
  <2>1. CASE Empty(d)
    BY <1>3, <1>5, <2>1 DEF WorkerDequeue
  <2>2. CASE ~Empty(d)
    <3>1. queue' = [queue EXCEPT ![d] = Tail(queue[d])]
      BY <1>5, <2>2 DEF WorkerDequeue
    <3>2. Tail(queue[d]) \in Seq(Jobs) /\ Len(Tail(queue[d])) < Capacity[d]
      BY <1>1, <2>2 DEF Empty
    <3>3. QED
      BY <1>2, <3>1, <3>2
  <2>3. QED
    BY <2>1, <2>2
<1>6. ASSUME NEW d \in Dispatches, NEW t, PrioritizeQueue(d, t) PROVE QueuesFit'
  <2>1. PICK p \in [DOMAIN queue[d] -> DOMAIN queue[d]] :
          queue' = [queue EXCEPT ![d] = Reordered(queue[d], p)]
    BY <1>6 DEF PrioritizeQueue
  <2>2. Reordered(queue[d], p) \in Seq(Jobs)
    BY <1>1, ReorderedIsSeq
  <2>3. Len(Reordered(queue[d], p)) = Len(queue[d])
    BY <1>1, <2>2 DEF Reordered
  <2>4. QED
    BY <1>1, <1>2, <2>1, <2>2, <2>3
<1>7. ASSUME NEW j \in Jobs, Submitting(j) \/ ExecuteJob(j) PROVE UNCHANGED queue
  BY <1>7
  DEF Submitting, SubmitCount, SubmitNotify, SubmitInline, SubmitInlineReturn,
      ExecuteJob, OnExecuteReturns, OnCompleteReturns, Decrement, SignalWaitAll
<1>8. ASSUME NEW w \in Workers,
             \/ WorkerLoop(w) \/ WorkerJobReturns(w) \/ WorkerLock(w) \/ WorkerCheck(w)
             \/ WorkerBlock(w) \/ WorkerSpuriousWake(w)
      PROVE  UNCHANGED queue
  BY <1>8 DEF WorkerLoop, WorkerJobReturns, WorkerLock, WorkerCheck, WorkerBlock,
              WorkerSpuriousWake, queueVars
<1>9. ASSUME CallWaitAll \/ WaitAll \/ WaitAllSpuriousWake \/ Shutdown \/ FinishShutdown \/ UNCHANGED vars
      PROVE  UNCHANGED queue
  BY <1>9
  DEF CallWaitAll, WaitAll, WaitAllKick, WaitAllPoll, WaitAllLock, WaitAllTest, WaitAllBlock,
      WaitAllSpuriousWake, Shutdown, FinishShutdown, ShutdownNotify, ShutdownJoin, queueVars, vars
<1>10. ASSUME NEW t \in PrioTypes, PrioritizeImmediate(t) PROVE QueuesFit'
  BY <1>6, <1>10 DEF PrioritizeImmediate, Dispatches
<1>11. CASE PrioritizeStandard
  BY <1>6, <1>11 DEF PrioritizeStandard, Dispatches
<1>12. QED
  BY <1>3, <1>4, <1>5, <1>7, <1>8, <1>9, <1>10, <1>11 DEF Next, Worker, Terminated

(***************************************************************************)
(* Every step keeps the variables in their types.                          *)
(***************************************************************************)
LEMMA TypeStep == TypeOK /\ [Next]_vars => TypeOK'
<1> SUFFICES ASSUME TypeOK, [Next]_vars, QueuesFit' PROVE TypeOK'
  BY QueuesFitStep
<1> USE DEF TypeOK, Dispatches, SubStates, SubPending, ExeStates, ExeActive,
            WorkerStates, MainStates, queueVars, threadVars
<1>1. ASSUME NEW c \in Jobs \cup {Main}, NEW j \in Jobs, SubmitEnqueue(c, j) PROVE TypeOK'
  <2>1. Dispatch[j] \in Dispatches
    BY JobSystemConstants
  <2>2. queue' \in [Dispatches -> Seq(Jobs)]
    <3>1. Append(queue[Dispatch[j]], j) \in Seq(Jobs)
      BY <2>1
    <3>2. \/ queue' = queue
          \/ queue' = [queue EXCEPT ![Dispatch[j]] = Append(queue[Dispatch[j]], j)]
      BY <1>1 DEF SubmitEnqueue
    <3>3. QED
      BY <2>1, <3>1, <3>2
  <2>3. QED
    BY <1>1, <2>2 DEF SubmitEnqueue
<1>2. ASSUME NEW j \in Jobs, Submitting(j) PROVE TypeOK'
  <2>1. CASE SubmitCount(j)
    BY <2>1 DEF SubmitCount
  <2>2. CASE SubmitNotify(j)
    BY <2>2, NotifyKeepsRunners DEF SubmitNotify
  <2>3. CASE SubmitInline(j)
    BY <2>3 DEF SubmitInline
  <2>4. CASE SubmitInlineReturn(j)
    BY <2>4 DEF SubmitInlineReturn
  <2>5. QED
    BY <1>2, <2>1, <2>2, <2>3, <2>4 DEF Submitting
<1>3. ASSUME NEW j \in Jobs, ExecuteJob(j) PROVE TypeOK'
  <2>1. CASE OnExecuteReturns(j) \/ OnCompleteReturns(j)
    BY <2>1 DEF OnExecuteReturns, OnCompleteReturns
  <2>2. CASE Decrement(j)
    BY <2>2 DEF Decrement
  <2>3. CASE SignalWaitAll(j)
    BY <2>3 DEF SignalWaitAll
  <2>4. QED
    BY <1>3, <2>1, <2>2, <2>3 DEF ExecuteJob
<1>4. ASSUME NEW w \in Workers, Worker(w) PROVE TypeOK'
  <2>1. ASSUME NEW d \in Dispatches, WorkerDequeue(w, d) PROVE TypeOK'
    <3>1. CASE Empty(d)
      BY <2>1, <3>1 DEF WorkerDequeue
    <3>2. CASE ~Empty(d)
      <4>1. Head(queue[d]) \in Jobs /\ Tail(queue[d]) \in Seq(Jobs)
        BY <3>2 DEF Empty
      <4>2. /\ queue' = [queue EXCEPT ![d] = Tail(queue[d])]
            /\ exe' = [exe EXCEPT ![Head(queue[d])] = "execute"]
            /\ held' = [held EXCEPT ![w] = Head(queue[d])]
            /\ wpc' = [wpc EXCEPT ![w] = "run"]
            /\ UNCHANGED <<jobCounter, isRunning, sub, by, mpc, prio>>
        BY <2>1, <3>2 DEF WorkerDequeue
      <4>3. queue' \in [Dispatches -> Seq(Jobs)]
        BY <4>1, <4>2
      <4>4. QED
        BY <4>1, <4>2, <4>3
    <3>3. QED
      BY <3>1, <3>2
  <2>2. CASE WorkerJobReturns(w)
    BY <2>2 DEF WorkerJobReturns
  <2>3. CASE WorkerLoop(w) \/ WorkerLock(w) \/ WorkerCheck(w) \/ WorkerBlock(w)
    BY <2>3 DEF WorkerLoop, WorkerLock, WorkerCheck, WorkerBlock, WorkerGoto
  <2>4. QED
    BY <1>4, <2>1, <2>2, <2>3 DEF Worker
<1>5. ASSUME NEW w \in Workers, WorkerSpuriousWake(w) PROVE TypeOK'
  BY <1>5 DEF WorkerSpuriousWake, WorkerGoto
<1>6. CASE CallWaitAll \/ WaitAllSpuriousWake \/ Shutdown
  BY <1>6 DEF CallWaitAll, WaitAllSpuriousWake, Shutdown, MainGoto
<1>7. CASE WaitAll
  <2>1. CASE WaitAllKick
    BY <2>1, NotifyKeepsRunners DEF WaitAllKick, MainGoto
  <2>2. CASE WaitAllPoll \/ WaitAllLock \/ WaitAllTest \/ WaitAllBlock
    BY <2>2 DEF WaitAllPoll, WaitAllLock, WaitAllTest, WaitAllBlock, MainGoto
  <2>3. QED
    BY <1>7, <2>1, <2>2 DEF WaitAll
<1>8. ASSUME NEW t \in PrioTypes, PrioritizeImmediate(t) PROVE TypeOK'
  BY <1>8, PrioritizeType DEF PrioritizeImmediate, PrioritizeQueue, MainGoto
<1>9. CASE PrioritizeStandard
  BY <1>9, PrioritizeType DEF PrioritizeStandard, PrioritizeQueue, MainGoto
<1>10. CASE FinishShutdown
  BY <1>10 DEF FinishShutdown, ShutdownNotify, ShutdownJoin, MainGoto
<1>11. CASE UNCHANGED vars
  BY <1>11 DEF vars
<1>12. QED
  BY <1>1, <1>2, <1>3, <1>4, <1>5, <1>6, <1>7, <1>8, <1>9, <1>10, <1>11
  DEF Next, Terminated

(* The constructor establishes the types.                                  *)
LEMMA TypeInit == Init => TypeOK
<1> SUFFICES ASSUME Init PROVE TypeOK
  OBVIOUS
<1>1. QueuesFit
  BY JobSystemConstants DEF Init, QueuesFit
<1>2. QED
  BY <1>1 DEF Init, TypeOK, Dispatches, SubStates, ExeStates, WorkerStates, MainStates

(***************************************************************************)
(* Every reachable state is well typed.                                    *)
(***************************************************************************)
THEOREM TypeCorrect == Spec => []TypeOK
BY TypeInit, TypeStep, PTL DEF Spec
-----------------------------------------------------------------------------
(***************************************************************************)
(* A step that touches no queue, no call state and no worker's job leaves  *)
(* every job where it is.                                                  *)
(***************************************************************************)
LEMMA PlacementFrame ==
    ASSUME JobInOnePlace, UNCHANGED <<queue, sub, exe, held>>,
           \A w \in Workers : wpc'[w] = "run" <=> wpc[w] = "run"
    PROVE  JobInOnePlace'
BY DEF JobInOnePlace, QueuedOnce, QueuedIffUnstarted, HeldByOne, HeldIffActive,
       HeldIsJob, InlineIsActive, StartedOnceOffered, Queued, Accepted

(***************************************************************************)
(* A step inside submit after the enqueue, or inside execute_job, moves no *)
(* job: it keeps the queues and the workers' jobs.                         *)
(***************************************************************************)
LEMMA PlacementCallStep ==
    ASSUME TypeOK, JobInOnePlace, NEW j \in Jobs,
           UNCHANGED <<queue, held>>,
           \A w \in Workers : wpc'[w] = "run" <=> wpc[w] = "run",
           NEW s, NEW e,
           sub' = [sub EXCEPT ![j] = s],
           exe' = [exe EXCEPT ![j] = e],
           \/ /\ sub[j] \in {"count", "notify"}
              /\ s \in {"notify", "returned"}
              /\ e = exe[j]
           \/ /\ s = sub[j]
              /\ exe[j] \in ExeActive
              /\ e \in ExeActive
           \/ sub[j] = "overflow" /\ s = "inline" /\ e \in ExeActive
           \/ sub[j] = "inline" /\ s = "returned" /\ e = "done"
    PROVE  JobInOnePlace'
<1> USE DEF TypeOK, SubStates, SubPending, ExeStates, ExeActive
<1>1. QueuedOnce' /\ HeldByOne' /\ HeldIsJob'
  BY DEF JobInOnePlace, QueuedOnce, HeldByOne, HeldIsJob
<1>2. QueuedIffUnstarted'
  BY DEF JobInOnePlace, QueuedIffUnstarted, Queued, Accepted, StartedOnceOffered
<1>3. HeldIffActive'
  BY DEF JobInOnePlace, HeldIffActive, StartedOnceOffered
<1>4. InlineIsActive' /\ StartedOnceOffered'
  BY DEF JobInOnePlace, InlineIsActive, StartedOnceOffered, HeldIffActive
<1>5. QED
  BY <1>1, <1>2, <1>3, <1>4 DEF JobInOnePlace

(***************************************************************************)
(* enqueue puts a job that is nowhere yet into one queue, or nowhere.      *)
(***************************************************************************)
LEMMA PlacementEnqueue ==
    ASSUME TypeOK, JobInOnePlace, NEW c \in Jobs \cup {Main}, NEW j \in Jobs,
           SubmitEnqueue(c, j)
    PROVE  JobInOnePlace'
<1> DEFINE d == Dispatch[j]
<1>1. d \in Dispatches
  BY JobSystemConstants
<1>2. ~Queued(j) /\ exe[j] = "none" /\ sub[j] = "none"
  BY DEF SubmitEnqueue, JobInOnePlace, QueuedIffUnstarted, Accepted, StartedOnceOffered
<1>3. /\ UNCHANGED <<exe, held, wpc>>
      /\ \/ queue' = [queue EXCEPT ![d] = Append(queue[d], j)]
            /\ sub' = [sub EXCEPT ![j] = "count"]
         \/ queue' = queue /\ sub' = [sub EXCEPT ![j] = "overflow"]
  BY DEF SubmitEnqueue, threadVars
<1>4. HeldByOne' /\ HeldIffActive' /\ HeldIsJob' /\ InlineIsActive' /\ StartedOnceOffered'
  BY <1>2, <1>3 DEF TypeOK, JobInOnePlace, HeldByOne, HeldIffActive, HeldIsJob,
                    InlineIsActive, StartedOnceOffered, ExeActive
<1>5. CASE queue' = queue /\ sub' = [sub EXCEPT ![j] = "overflow"]
  <2>1. QueuedOnce' /\ QueuedIffUnstarted'
    BY <1>2, <1>3, <1>5 DEF TypeOK, JobInOnePlace, QueuedOnce, QueuedIffUnstarted, Queued,
                            Accepted
  <2>2. QED
    BY <1>4, <2>1 DEF JobInOnePlace
<1>6. CASE /\ queue' = [queue EXCEPT ![d] = Append(queue[d], j)]
           /\ sub' = [sub EXCEPT ![j] = "count"]
  <2>1. /\ \A b \in Dispatches \ {d} : queue'[b] = queue[b]
        /\ queue'[d] = Append(queue[d], j)
    BY <1>1, <1>6 DEF TypeOK
  <2>2. /\ DOMAIN queue'[d] = 1 .. Len(queue[d]) + 1
        /\ DOMAIN queue[d] = 1 .. Len(queue[d])
        /\ Len(queue[d]) \in Nat
        /\ \A i \in 1 .. Len(queue[d]) : queue'[d][i] = queue[d][i]
        /\ queue'[d][Len(queue[d]) + 1] = j
    BY <1>1, <2>1 DEF TypeOK
  <2>3. ASSUME NEW b \in Dispatches, NEW i \in DOMAIN queue'[b]
        PROVE  \/ i \in DOMAIN queue[b] /\ queue'[b][i] = queue[b][i]
               \/ b = d /\ i = Len(queue[d]) + 1 /\ queue'[b][i] = j
    BY <2>1, <2>2
  <2>4. QueuedOnce'
    BY <1>2, <2>3 DEF JobInOnePlace, QueuedOnce, Queued
  <2>5. ASSUME NEW k \in Jobs PROVE Queued(k)' <=> Queued(k) \/ k = j
    <3>1. Queued(k) \/ k = j => Queued(k)'
      BY <1>1, <2>1, <2>2 DEF Queued
    <3>2. Queued(k)' => Queued(k) \/ k = j
      BY <2>3 DEF Queued
    <3>3. QED
      BY <3>1, <3>2
  <2>6. QueuedIffUnstarted'
    BY <1>2, <1>3, <1>6, <2>5 DEF TypeOK, JobInOnePlace, QueuedIffUnstarted, Accepted
  <2>7. QED
    BY <1>4, <2>4, <2>6 DEF JobInOnePlace
<1>7. QED
  BY <1>3, <1>5, <1>6

(***************************************************************************)
(* dequeue moves the oldest job of one queue into the hands of one worker. *)
(***************************************************************************)
LEMMA PlacementDequeue ==
    ASSUME TypeOK, JobInOnePlace, NEW w \in Workers, NEW d \in Dispatches,
           WorkerDequeue(w, d), ~Empty(d)
    PROVE  JobInOnePlace'
<1> DEFINE j == Head(queue[d])
<1>1. /\ queue' = [queue EXCEPT ![d] = Tail(queue[d])]
      /\ exe' = [exe EXCEPT ![j] = "execute"]
      /\ held' = [held EXCEPT ![w] = j]
      /\ wpc' = [wpc EXCEPT ![w] = "run"]
      /\ wpc[w] = d
      /\ UNCHANGED sub
  BY DEF WorkerDequeue
<1>2. /\ DOMAIN queue[d] = 1 .. Len(queue[d])
      /\ Len(queue[d]) \in Nat \ {0}
      /\ j = queue[d][1]
      /\ j \in Jobs
      /\ DOMAIN Tail(queue[d]) = 1 .. Len(queue[d]) - 1
      /\ \A i \in 1 .. Len(queue[d]) - 1 : Tail(queue[d])[i] = queue[d][i + 1]
  BY DEF TypeOK, Empty
<1>3. /\ \A b \in Dispatches \ {d} : queue'[b] = queue[b]
      /\ queue'[d] = Tail(queue[d])
  BY <1>1 DEF TypeOK
<1>4. Queued(j) /\ Accepted(j) /\ exe[j] = "none"
  <2>1. Queued(j)
    BY <1>2 DEF Queued
  <2>2. QED
    BY <1>2, <2>1 DEF JobInOnePlace, QueuedIffUnstarted
<1>5. wpc[w] # "run"
  BY <1>1 DEF Dispatches
<1>6. ASSUME NEW b \in Dispatches, NEW i \in DOMAIN queue'[b]
      PROVE  \/ b # d /\ i \in DOMAIN queue[b] /\ queue'[b][i] = queue[b][i]
             \/ b = d /\ i \in Nat /\ i + 1 \in DOMAIN queue[d] \ {1} /\ queue'[b][i] = queue[d][i + 1]
  <2>1. CASE b # d
    BY <1>3, <2>1
  <2>2. CASE b = d
    <3>1. i \in 1 .. Len(queue[d]) - 1 /\ queue'[b][i] = Tail(queue[d])[i]
      BY <1>2, <1>3, <2>2
    <3>2. QED
      BY <1>2, <2>2, <3>1
  <2>3. QED
    BY <2>1, <2>2
<1>7. QueuedOnce'
  <2> SUFFICES ASSUME NEW a \in Dispatches, NEW b \in Dispatches,
                      NEW i \in DOMAIN queue'[a], NEW k \in DOMAIN queue'[b],
                      queue'[a][i] = queue'[b][k]
               PROVE  a = b /\ i = k
    BY DEF QueuedOnce
  <2>1. QED
    BY <1>6 DEF JobInOnePlace, QueuedOnce
<1>8. ASSUME NEW k \in Jobs PROVE Queued(k)' <=> Queued(k) /\ k # j
  <2>1. Queued(k)' => Queued(k) /\ k # j
    <3> SUFFICES ASSUME NEW b \in Dispatches, NEW i \in DOMAIN queue'[b], queue'[b][i] = k
                 PROVE  Queued(k) /\ k # j
      BY DEF Queued
    <3>1. CASE b # d
      BY <1>2, <1>6, <3>1 DEF Queued, JobInOnePlace, QueuedOnce
    <3>2. CASE b = d
      BY <1>2, <1>6, <3>2 DEF Queued, JobInOnePlace, QueuedOnce
    <3>3. QED
      BY <3>1, <3>2
  <2>2. Queued(k) /\ k # j => Queued(k)'
    <3> SUFFICES ASSUME NEW b \in Dispatches, NEW i \in DOMAIN queue[b],
                        queue[b][i] = k, k # j
                 PROVE  Queued(k)'
      BY DEF Queued
    <3>1. CASE b # d
      BY <1>3, <3>1 DEF Queued
    <3>2. CASE b = d
      <4>1. i \in 2 .. Len(queue[d])
        BY <1>2, <3>2
      <4>2. i - 1 \in DOMAIN queue'[d] /\ queue'[d][i - 1] = k
        BY <1>2, <1>3, <3>2, <4>1
      <4>3. QED
        BY <4>2 DEF Queued
    <3>3. QED
      BY <3>1, <3>2
  <2>3. QED
    BY <2>1, <2>2
<1>9. QueuedIffUnstarted'
  <2> SUFFICES ASSUME NEW k \in Jobs
               PROVE  Queued(k)' <=> Accepted(k)' /\ exe'[k] = "none"
    BY DEF QueuedIffUnstarted
  <2>1. Accepted(k)' <=> Accepted(k)
    BY <1>1 DEF Accepted
  <2>2. exe'[k] = IF k = j THEN "execute" ELSE exe[k]
    BY <1>1 DEF TypeOK
  <2>3. Queued(k) <=> Accepted(k) /\ exe[k] = "none"
    BY DEF JobInOnePlace, QueuedIffUnstarted
  <2>4. QED
    BY <1>8, <2>1, <2>2, <2>3
<1>10. HeldByOne' /\ HeldIffActive' /\ HeldIsJob'
  <2>1. ASSUME NEW v \in Workers, wpc[v] = "run" PROVE held[v] # j
    BY <1>2, <1>4, <2>1 DEF JobInOnePlace, HeldIffActive, ExeActive
  <2>2. ASSUME NEW v \in Workers
        PROVE  /\ wpc'[v] = "run" <=> wpc[v] = "run" \/ v = w
               /\ held'[v] = IF v = w THEN j ELSE held[v]
    BY <1>1 DEF TypeOK
  <2>3. HeldByOne' /\ HeldIsJob'
    BY <1>2, <1>5, <2>1, <2>2 DEF JobInOnePlace, HeldByOne, HeldIsJob
  <2>4. ASSUME NEW k \in Jobs
        PROVE  (\E v \in Workers : wpc'[v] = "run" /\ held'[v] = k)
                  <=> (\E v \in Workers : wpc[v] = "run" /\ held[v] = k) \/ k = j
    BY <1>5, <2>2
  <2>5. exe'[j] \in ExeActive /\ sub'[j] # "inline"
    BY <1>1, <1>2, <1>4 DEF TypeOK, ExeActive, Accepted
  <2>6. \A k \in Jobs \ {j} : exe'[k] = exe[k] /\ sub'[k] = sub[k]
    BY <1>1 DEF TypeOK
  <2>7. HeldIffActive'
    BY <2>4, <2>5, <2>6 DEF JobInOnePlace, HeldIffActive
  <2>8. QED
    BY <2>3, <2>7
<1>11. InlineIsActive' /\ StartedOnceOffered'
  BY <1>1, <1>2, <1>4 DEF TypeOK, JobInOnePlace, InlineIsActive, StartedOnceOffered,
                          ExeActive, Accepted
<1>12. QED
  BY <1>7, <1>9, <1>10, <1>11 DEF JobInOnePlace

(***************************************************************************)
(* prioritize keeps every queued job queued once.                          *)
(***************************************************************************)
LEMMA PlacementPrioritize ==
    ASSUME TypeOK, JobInOnePlace, NEW d \in Dispatches, NEW t, PrioritizeQueue(d, t)
    PROVE  JobInOnePlace'
<1>1. PICK p \in [DOMAIN queue[d] -> DOMAIN queue[d]] :
         /\ IsPromotion(p, queue[d], t, JobType)
         /\ queue' = [queue EXCEPT ![d] = Reordered(queue[d], p)]
  BY DEF PrioritizeQueue
<1>2. UNCHANGED <<sub, exe, held, wpc>>
  BY DEF PrioritizeQueue
<1>3. /\ \A i, k \in DOMAIN queue[d] : p[i] = p[k] => i = k
      /\ \A i \in DOMAIN queue[d] : p[i] \in DOMAIN queue[d]
      /\ \A i \in DOMAIN queue[d] : \E k \in DOMAIN queue[d] : p[k] = i
  BY <1>1 DEF IsPromotion, Bijection, Injection, Surjection, IsInjective
<1>4. /\ \A b \in Dispatches : DOMAIN queue'[b] = DOMAIN queue[b]
      /\ \A b \in Dispatches \ {d} : queue'[b] = queue[b]
      /\ \A i \in DOMAIN queue[d] : queue'[d][i] = queue[d][p[i]]
  BY <1>1 DEF TypeOK, Reordered
<1>5. QueuedOnce'
  BY <1>3, <1>4 DEF JobInOnePlace, QueuedOnce
<1>6. ASSUME NEW j \in Jobs PROVE Queued(j)' <=> Queued(j)
  BY <1>3, <1>4 DEF Queued
<1>7. QED
  BY <1>2, <1>5, <1>6 DEF JobInOnePlace, QueuedIffUnstarted, HeldByOne, HeldIffActive,
       HeldIsJob, InlineIsActive, StartedOnceOffered, Accepted

(***************************************************************************)
(* When execute_job returns to its worker, the worker has no job and the   *)
(* job is done.                                                            *)
(***************************************************************************)
LEMMA PlacementJobReturns ==
    ASSUME TypeOK, JobInOnePlace, NEW w \in Workers, WorkerJobReturns(w)
    PROVE  JobInOnePlace'
<1> DEFINE j == held[w]
<1>1. /\ wpc[w] = "run" /\ exe[j] = "ended"
      /\ exe' = [exe EXCEPT ![j] = "done"]
      /\ held' = [held EXCEPT ![w] = NoJob]
      /\ wpc' = [wpc EXCEPT ![w] = "loop"]
      /\ UNCHANGED <<queue, sub>>
  BY DEF WorkerJobReturns
<1>2. j \in Jobs /\ sub[j] # "inline"
  BY <1>1 DEF JobInOnePlace, HeldIsJob, HeldIffActive
<1>3. ASSUME NEW k \in Jobs PROVE exe'[k] = IF k = j THEN "done" ELSE exe[k]
  BY <1>1 DEF TypeOK
<1>4. ASSUME NEW v \in Workers
      PROVE  /\ wpc'[v] = "run" <=> wpc[v] = "run" /\ v # w
             /\ v # w => held'[v] = held[v]
  BY <1>1 DEF TypeOK
<1>5. QueuedOnce' /\ QueuedIffUnstarted'
  BY <1>1, <1>2, <1>3 DEF JobInOnePlace, QueuedOnce, QueuedIffUnstarted, Queued, Accepted
<1>6. HeldByOne' /\ HeldIsJob'
  BY <1>4 DEF JobInOnePlace, HeldByOne, HeldIsJob
<1>7. HeldIffActive'
  <2>1. ASSUME NEW k \in Jobs
        PROVE  (\E v \in Workers : wpc'[v] = "run" /\ held'[v] = k)
                  <=> (\E v \in Workers : wpc[v] = "run" /\ held[v] = k) /\ k # j
    BY <1>1, <1>4 DEF JobInOnePlace, HeldByOne
  <2>2. QED
    BY <1>1, <1>3, <2>1 DEF JobInOnePlace, HeldIffActive, ExeActive
<1>8. InlineIsActive' /\ StartedOnceOffered'
  BY <1>1, <1>2, <1>3 DEF JobInOnePlace, InlineIsActive, StartedOnceOffered
<1>9. QED
  BY <1>5, <1>6, <1>7, <1>8 DEF JobInOnePlace

(***************************************************************************)
(* JobInOnePlace is inductive relative to TypeOK.                          *)
(***************************************************************************)
LEMMA PlacementStep == TypeOK /\ JobInOnePlace /\ [Next]_vars => JobInOnePlace'
<1> SUFFICES ASSUME TypeOK, JobInOnePlace, [Next]_vars PROVE JobInOnePlace'
  OBVIOUS
<1>1. ASSUME NEW c \in Jobs \cup {Main}, NEW j \in Jobs, SubmitEnqueue(c, j)
      PROVE  JobInOnePlace'
  BY <1>1, PlacementEnqueue
<1>2. ASSUME NEW j \in Jobs, Submitting(j) PROVE JobInOnePlace'
  <2>1. CASE SubmitCount(j)
    <3>1. exe' = [exe EXCEPT ![j] = exe[j]]
      BY <2>1 DEF SubmitCount, TypeOK
    <3>2. QED
      BY <2>1, <3>1, PlacementCallStep DEF SubmitCount, threadVars
  <2>2. CASE SubmitNotify(j)
    <3>1. exe' = [exe EXCEPT ![j] = exe[j]]
      BY <2>2 DEF SubmitNotify, TypeOK
    <3>2. \A w \in Workers : wpc'[w] = "run" <=> wpc[w] = "run"
      BY <2>2, NotifyKeepsRunners DEF SubmitNotify, TypeOK
    <3>3. QED
      BY <2>2, <3>1, <3>2, PlacementCallStep DEF SubmitNotify
  <2>3. CASE SubmitInline(j)
    BY <2>3, PlacementCallStep DEF SubmitInline, threadVars, ExeActive
  <2>4. CASE SubmitInlineReturn(j)
    BY <2>4, PlacementCallStep DEF SubmitInlineReturn, threadVars
  <2>5. QED
    BY <1>2, <2>1, <2>2, <2>3, <2>4 DEF Submitting
<1>3. ASSUME NEW j \in Jobs, ExecuteJob(j) PROVE JobInOnePlace'
  <2>1. PICK e \in ExeActive :
           exe[j] \in ExeActive /\ exe' = [exe EXCEPT ![j] = e]
    BY <1>3 DEF ExecuteJob, OnExecuteReturns, OnCompleteReturns, Decrement, SignalWaitAll,
                ExeActive
  <2>2. UNCHANGED <<queue, held, sub, wpc>>
    BY <1>3 DEF ExecuteJob, OnExecuteReturns, OnCompleteReturns, Decrement, SignalWaitAll,
                threadVars
  <2>3. sub' = [sub EXCEPT ![j] = sub[j]]
    BY <2>2 DEF TypeOK
  <2>4. QED
    BY <2>1, <2>2, <2>3, PlacementCallStep
<1>4. ASSUME NEW w \in Workers, Worker(w) \/ WorkerSpuriousWake(w) PROVE JobInOnePlace'
  <2>1. ASSUME NEW d \in Dispatches, WorkerDequeue(w, d) PROVE JobInOnePlace'
    <3>1. CASE Empty(d)
      <4>1. /\ wpc[w] # "run"
            /\ \E s \in WorkerStates \ {"run"} : wpc' = [wpc EXCEPT ![w] = s]
            /\ UNCHANGED <<queue, sub, exe, held>>
        BY <2>1, <3>1 DEF WorkerDequeue, WorkerStates, Dispatches
      <4>2. QED
        BY <4>1, PlacementFrame DEF TypeOK
    <3>2. CASE ~Empty(d)
      BY <2>1, <3>2, PlacementDequeue
    <3>3. QED
      BY <3>1, <3>2
  <2>2. CASE WorkerJobReturns(w)
    BY <2>2, PlacementJobReturns
  <2>3. CASE \/ WorkerLoop(w) \/ WorkerLock(w) \/ WorkerCheck(w) \/ WorkerBlock(w)
             \/ WorkerSpuriousWake(w)
    <3>1. /\ wpc[w] # "run"
          /\ \E s \in WorkerStates \ {"run"} : wpc' = [wpc EXCEPT ![w] = s]
          /\ UNCHANGED <<queue, sub, exe, held>>
      BY <2>3 DEF WorkerLoop, WorkerLock, WorkerCheck, WorkerBlock, WorkerSpuriousWake,
                  WorkerGoto, WorkerStates, Dispatches, queueVars
    <3>2. QED
      BY <3>1, PlacementFrame DEF TypeOK
  <2>4. QED
    BY <1>4, <2>1, <2>2, <2>3 DEF Worker
<1>5. CASE \/ CallWaitAll \/ WaitAllPoll \/ WaitAllLock \/ WaitAllTest \/ WaitAllBlock
           \/ WaitAllSpuriousWake \/ Shutdown \/ ShutdownJoin \/ UNCHANGED vars
  <2>1. UNCHANGED <<queue, sub, exe, held, wpc>>
    BY <1>5 DEF CallWaitAll, WaitAllPoll, WaitAllLock, WaitAllTest, WaitAllBlock,
                WaitAllSpuriousWake, Shutdown, ShutdownJoin, queueVars, vars
  <2>2. QED
    BY <2>1, PlacementFrame
<1>6. CASE WaitAllKick
  BY <1>6, NotifyKeepsRunners, PlacementFrame DEF WaitAllKick, queueVars, TypeOK
<1>7. CASE ShutdownNotify
  BY <1>7, PlacementFrame DEF ShutdownNotify, queueVars, TypeOK
<1>8. ASSUME NEW t \in PrioTypes, PrioritizeImmediate(t) PROVE JobInOnePlace'
  BY <1>8, PlacementPrioritize DEF PrioritizeImmediate, Dispatches
<1>9. CASE PrioritizeStandard
  BY <1>9, PlacementPrioritize DEF PrioritizeStandard, Dispatches
<1>10. QED
  BY <1>1, <1>2, <1>3, <1>4, <1>5, <1>6, <1>7, <1>8, <1>9
  DEF Next, WaitAll, FinishShutdown, Terminated

(* Before the first submit no job is anywhere.                             *)
LEMMA PlacementInit == Init => JobInOnePlace
BY DEF Init, JobInOnePlace, QueuedOnce, QueuedIffUnstarted, HeldByOne, HeldIffActive,
       HeldIsJob, InlineIsActive, StartedOnceOffered, Queued, Accepted, ExeActive

(***************************************************************************)
(* No job is lost, duplicated or run by two threads, for any number of     *)
(* jobs and workers, any capacities and any nesting of submissions.        *)
(***************************************************************************)
THEOREM PlacementCorrect == Spec => []JobInOnePlace
BY TypeCorrect, PlacementInit, PlacementStep, PTL DEF Spec
-----------------------------------------------------------------------------
(***************************************************************************)
(* The callbacks of a job run once: its execute_job only moves forward.    *)
(***************************************************************************)
LEMMA RunsOnceStep ==
    ASSUME TypeOK, JobInOnePlace, [Next]_vars, NEW j \in Jobs, exe'[j] # exe[j]
    PROVE  <<exe[j], exe'[j]>> \in ExeSteps
<1>1. ASSUME NEW k \in Jobs, NEW e, exe' = [exe EXCEPT ![k] = e], <<exe[k], e>> \in ExeSteps
      PROVE  <<exe[j], exe'[j]>> \in ExeSteps
  BY <1>1 DEF TypeOK
<1>2. ASSUME NEW c \in Jobs \cup {Main}, NEW k \in Jobs, SubmitEnqueue(c, k) PROVE FALSE
  BY <1>2 DEF SubmitEnqueue
<1>3. ASSUME NEW k \in Jobs, Submitting(k) PROVE <<exe[j], exe'[j]>> \in ExeSteps
  BY <1>1, <1>3 DEF Submitting, SubmitCount, SubmitNotify, SubmitInline, SubmitInlineReturn,
                    JobInOnePlace, StartedOnceOffered, ExeSteps
<1>4. ASSUME NEW k \in Jobs, ExecuteJob(k) PROVE <<exe[j], exe'[j]>> \in ExeSteps
  BY <1>1, <1>4 DEF ExecuteJob, OnExecuteReturns, OnCompleteReturns, Decrement, SignalWaitAll,
                    ExeSteps
<1>5. ASSUME NEW w \in Workers, NEW d \in Dispatches, WorkerDequeue(w, d)
      PROVE  <<exe[j], exe'[j]>> \in ExeSteps
  <2>1. ~Empty(d) /\ exe' = [exe EXCEPT ![Head(queue[d])] = "execute"]
    BY <1>5 DEF WorkerDequeue
  <2>2. Head(queue[d]) \in Jobs /\ Queued(Head(queue[d]))
    BY <2>1 DEF TypeOK, Empty, Queued
  <2>3. exe[Head(queue[d])] = "none"
    BY <2>2 DEF JobInOnePlace, QueuedIffUnstarted
  <2>4. QED
    BY <1>1, <2>1, <2>2, <2>3 DEF ExeSteps
<1>6. ASSUME NEW w \in Workers, WorkerJobReturns(w) PROVE <<exe[j], exe'[j]>> \in ExeSteps
  BY <1>1, <1>6 DEF WorkerJobReturns, JobInOnePlace, HeldIsJob, ExeSteps
<1>7. ASSUME NEW w \in Workers,
             \/ WorkerLoop(w) \/ WorkerLock(w) \/ WorkerCheck(w) \/ WorkerBlock(w)
             \/ WorkerSpuriousWake(w)
      PROVE  FALSE
  BY <1>7 DEF WorkerLoop, WorkerLock, WorkerCheck, WorkerBlock, WorkerSpuriousWake, queueVars
<1>8. ASSUME \/ CallWaitAll \/ WaitAll \/ WaitAllSpuriousWake \/ Shutdown \/ FinishShutdown
             \/ UNCHANGED vars
      PROVE  FALSE
  BY <1>8 DEF CallWaitAll, WaitAll, WaitAllKick, WaitAllPoll, WaitAllLock, WaitAllTest,
              WaitAllBlock, WaitAllSpuriousWake, Shutdown, FinishShutdown, ShutdownNotify,
              ShutdownJoin, queueVars, vars
<1>9. ASSUME (\E t \in PrioTypes : PrioritizeImmediate(t)) \/ PrioritizeStandard PROVE FALSE
  BY <1>9 DEF PrioritizeImmediate, PrioritizeStandard, PrioritizeQueue
<1>10. QED
  BY <1>2, <1>3, <1>4, <1>5, <1>6, <1>7, <1>8, <1>9 DEF Next, Worker, Terminated

(* The callbacks of a job run once, onComplete after onExecute.            *)
THEOREM RunsOnceCorrect == Spec => RunsOnce
<1>1. TypeOK /\ JobInOnePlace /\ [Next]_vars =>
         [\A j \in Jobs : exe'[j] # exe[j] => <<exe[j], exe'[j]>> \in ExeSteps]_vars
  BY RunsOnceStep
<1>2. QED
  BY <1>1, TypeCorrect, PlacementCorrect, PTL DEF Spec, RunsOnce
-----------------------------------------------------------------------------
(***************************************************************************)
(* jobCounter is the number of counted jobs less those counted down.       *)
(***************************************************************************)
LEMMA CountedTypes ==
    /\ IsFiniteSet(Counted) /\ Cardinality(Counted) \in Nat
    /\ IsFiniteSet(CountedDown) /\ Cardinality(CountedDown) \in Nat
BY JobSystemConstants, FS_Subset, FS_CardinalityType DEF Counted, CountedDown

\* A step that counts no job up or down.
LEMMA CounterFrame ==
    ASSUME CounterBalanced, UNCHANGED jobCounter, Counted' = Counted, CountedDown' = CountedDown
    PROVE  CounterBalanced'
BY DEF CounterBalanced

(* A job that is counted for the first time raises the balance by one.     *)
LEMMA CounterUp ==
    ASSUME CounterBalanced, NEW j, j \notin Counted, jobCounter' = jobCounter + 1,
           Counted' = Counted \cup {j}, CountedDown' = CountedDown
    PROVE  CounterBalanced'
<1>1. Cardinality(Counted \cup {j}) = Cardinality(Counted) + 1
  BY CountedTypes, FS_AddElement
<1>2. QED
  BY <1>1, CountedTypes DEF CounterBalanced

(* A job that counts down for the first time lowers the balance by one.    *)
LEMMA CounterDown ==
    ASSUME CounterBalanced, NEW j, j \notin CountedDown, jobCounter' = jobCounter - 1,
           Counted' = Counted, CountedDown' = CountedDown \cup {j}
    PROVE  CounterBalanced'
<1>1. Cardinality(CountedDown \cup {j}) = Cardinality(CountedDown) + 1
  BY CountedTypes, FS_AddElement
<1>2. QED
  BY <1>1, CountedTypes DEF CounterBalanced

(* fetch_add and fetch_sub keep jobCounter in balance, and no other step   *)
(* changes it.                                                             *)
LEMMA CounterStep ==
    TypeOK /\ JobInOnePlace /\ CounterBalanced /\ [Next]_vars => CounterBalanced'
<1> SUFFICES ASSUME TypeOK, JobInOnePlace, CounterBalanced, [Next]_vars PROVE CounterBalanced'
  OBVIOUS
<1> USE DEF TypeOK, Counted, CountedDown, Finished
<1>1. ASSUME NEW c \in Jobs \cup {Main}, NEW j \in Jobs, SubmitEnqueue(c, j)
      PROVE  CounterBalanced'
  BY <1>1, CounterFrame DEF SubmitEnqueue
<1>2. ASSUME NEW j \in Jobs, Submitting(j) PROVE CounterBalanced'
  <2>1. CASE SubmitCount(j)
    BY <2>1, CounterUp DEF SubmitCount
  <2>2. CASE SubmitNotify(j)
    BY <2>2, CounterFrame DEF SubmitNotify
  <2>3. CASE SubmitInline(j)
    BY <2>3, CounterUp DEF SubmitInline, JobInOnePlace, StartedOnceOffered
  <2>4. CASE SubmitInlineReturn(j)
    BY <2>4, CounterFrame DEF SubmitInlineReturn
  <2>5. QED
    BY <1>2, <2>1, <2>2, <2>3, <2>4 DEF Submitting
<1>3. ASSUME NEW j \in Jobs, ExecuteJob(j) PROVE CounterBalanced'
  <2>1. CASE OnExecuteReturns(j) \/ OnCompleteReturns(j) \/ SignalWaitAll(j)
    BY <2>1, CounterFrame DEF OnExecuteReturns, OnCompleteReturns, SignalWaitAll
  <2>2. CASE Decrement(j)
    BY <2>2, CounterDown DEF Decrement
  <2>3. QED
    BY <1>3, <2>1, <2>2 DEF ExecuteJob
<1>4. ASSUME NEW w \in Workers, NEW d \in Dispatches, WorkerDequeue(w, d)
      PROVE  CounterBalanced'
  <2>1. CASE Empty(d)
    BY <1>4, <2>1, CounterFrame DEF WorkerDequeue
  <2>2. CASE ~Empty(d)
    <3>1. /\ exe' = [exe EXCEPT ![Head(queue[d])] = "execute"]
          /\ UNCHANGED <<jobCounter, sub>>
      BY <1>4, <2>2 DEF WorkerDequeue
    <3>2. Head(queue[d]) \in Jobs /\ Queued(Head(queue[d]))
      BY <2>2 DEF Empty, Queued
    <3>3. exe[Head(queue[d])] = "none"
      BY <3>2 DEF JobInOnePlace, QueuedIffUnstarted
    <3>4. QED
      BY <3>1, <3>2, <3>3, CounterFrame
  <2>3. QED
    BY <2>1, <2>2
<1>5. ASSUME NEW w \in Workers, WorkerJobReturns(w) PROVE CounterBalanced'
  BY <1>5, CounterFrame DEF WorkerJobReturns, JobInOnePlace, HeldIsJob
<1>6. ASSUME UNCHANGED <<jobCounter, sub, exe>> PROVE CounterBalanced'
  BY <1>6, CounterFrame
<1>7. ASSUME NEW w \in Workers,
             \/ WorkerLoop(w) \/ WorkerLock(w) \/ WorkerCheck(w) \/ WorkerBlock(w)
             \/ WorkerSpuriousWake(w)
      PROVE  CounterBalanced'
  BY <1>6, <1>7
  DEF WorkerLoop, WorkerLock, WorkerCheck, WorkerBlock, WorkerSpuriousWake, queueVars
<1>8. CASE \/ CallWaitAll \/ WaitAll \/ WaitAllSpuriousWake \/ Shutdown \/ FinishShutdown
           \/ UNCHANGED vars
  BY <1>6, <1>8
  DEF CallWaitAll, WaitAll, WaitAllKick, WaitAllPoll, WaitAllLock, WaitAllTest, WaitAllBlock,
      WaitAllSpuriousWake, Shutdown, FinishShutdown, ShutdownNotify, ShutdownJoin, queueVars,
      vars
<1>9. CASE (\E t \in PrioTypes : PrioritizeImmediate(t)) \/ PrioritizeStandard
  BY <1>6, <1>9 DEF PrioritizeImmediate, PrioritizeStandard, PrioritizeQueue
<1>10. QED
  BY <1>1, <1>2, <1>3, <1>4, <1>5, <1>7, <1>8, <1>9 DEF Next, Worker, Terminated

(* The counter starts at zero, with no job counted.                        *)
LEMMA CounterInit == Init => CounterBalanced
<1> SUFFICES ASSUME Init PROVE CounterBalanced
  OBVIOUS
<1>1. Counted = {} /\ CountedDown = {} /\ jobCounter = 0
  BY DEF Init, Counted, CountedDown, Finished
<1>2. QED
  BY <1>1, FS_EmptySet DEF CounterBalanced

(* jobCounter is the number of jobs counted less those that counted down.  *)
THEOREM CounterCorrect == Spec => []CounterBalanced
BY TypeCorrect, PlacementCorrect, CounterInit, CounterStep, PTL DEF Spec
-----------------------------------------------------------------------------
(***************************************************************************)
(* Main is in at most one call.                                            *)
(***************************************************************************)
LEMMA MainStep == TypeOK /\ MainInOneCall /\ [Next]_vars => MainInOneCall'
<1> SUFFICES ASSUME TypeOK, MainInOneCall, [Next]_vars PROVE MainInOneCall'
  OBVIOUS
<1> USE DEF TypeOK, MainInOneCall, Free
<1>1. ASSUME NEW c \in Jobs \cup {Main}, NEW j \in Jobs, SubmitEnqueue(c, j)
      PROVE  MainInOneCall'
  <2>1. /\ \A k \in Jobs \ {j} : sub'[k] = sub[k] /\ by'[k] = by[k]
        /\ by'[j] = c /\ mpc' = mpc
        /\ c = Main => mpc = "idle"
        /\ j \notin NestedJobs => c = Main
    BY <1>1, JobSystemConstants DEF SubmitEnqueue, MayCall, threadVars
  <2>2. QED
    BY <2>1
<1>2. ASSUME NEW j \in Jobs, Submitting(j) PROVE MainInOneCall'
  <2>1. /\ sub[j] \in SubPending
        /\ sub'[j] \in SubPending \cup {"returned"}
        /\ \A k \in Jobs \ {j} : sub'[k] = sub[k]
        /\ UNCHANGED <<by, mpc>>
    BY <1>2 DEF Submitting, SubmitCount, SubmitNotify, SubmitInline, SubmitInlineReturn,
                SubPending, threadVars
  <2>2. QED
    BY <2>1 DEF SubPending
<1>3. ASSUME UNCHANGED <<sub, by>>, mpc' # "idle" => mpc # "idle" \/ Free(Main)
      PROVE  MainInOneCall'
  BY <1>3
<1>4. ASSUME NEW j \in Jobs, ExecuteJob(j) PROVE MainInOneCall'
  BY <1>3, <1>4 DEF ExecuteJob, OnExecuteReturns, OnCompleteReturns, Decrement, SignalWaitAll,
                    threadVars
<1>5. ASSUME NEW w \in Workers, Worker(w) \/ WorkerSpuriousWake(w) PROVE MainInOneCall'
  BY <1>3, <1>5 DEF Worker, WorkerDequeue, WorkerJobReturns, WorkerLoop, WorkerLock, WorkerCheck,
                    WorkerBlock, WorkerSpuriousWake, queueVars
<1>6. CASE CallWaitAll \/ Shutdown
  BY <1>3, <1>6 DEF CallWaitAll, Shutdown, queueVars
<1>7. CASE WaitAll \/ WaitAllSpuriousWake \/ FinishShutdown \/ UNCHANGED vars
  BY <1>3, <1>7
  DEF WaitAll, WaitAllKick, WaitAllPoll, WaitAllLock, WaitAllTest, WaitAllBlock,
      WaitAllSpuriousWake, FinishShutdown, ShutdownNotify, ShutdownJoin, MainGoto, queueVars,
      vars
<1>8. CASE (\E t \in PrioTypes : PrioritizeImmediate(t)) \/ PrioritizeStandard
  BY <1>3, <1>8 DEF PrioritizeImmediate, PrioritizeStandard, PrioritizeQueue, MainGoto
<1>9. QED
  BY <1>1, <1>2, <1>4, <1>5, <1>6, <1>7, <1>8 DEF Next, Terminated

(* Main is in one call at a time, and submits every job that is not nested. *)
THEOREM MainCorrect == Spec => []MainInOneCall
<1>1. Init => MainInOneCall
  BY DEF Init, MainInOneCall
<1>2. QED
  BY <1>1, TypeCorrect, MainStep, PTL DEF Spec

(***************************************************************************)
(* The only step that returns from wait_all saw the counter at zero.       *)
(***************************************************************************)
LEMMA ReturnSeesZero ==
    ASSUME [Next]_vars, WaitAllReturns
    PROVE  jobCounter = 0
<1> USE DEF WaitAllReturns
<1>1. WaitAllTest
  <2>1. ASSUME mpc' = mpc \/ mpc # "test" \/ mpc' = "lock" PROVE FALSE
    BY <2>1
  <2>2. ASSUME NEW c, NEW j, SubmitEnqueue(c, j) PROVE FALSE
    BY <2>2 DEF SubmitEnqueue, threadVars
  <2>3. ASSUME NEW j, Submitting(j) \/ ExecuteJob(j) PROVE FALSE
    BY <2>1, <2>3 DEF Submitting, SubmitCount, SubmitNotify, SubmitInline, SubmitInlineReturn,
       ExecuteJob, OnExecuteReturns, OnCompleteReturns, Decrement, SignalWaitAll, threadVars
  <2>4. ASSUME NEW w, Worker(w) \/ WorkerSpuriousWake(w) PROVE FALSE
    BY <2>1, <2>4 DEF Worker, WorkerDequeue, WorkerJobReturns, WorkerLoop, WorkerLock,
       WorkerCheck, WorkerBlock, WorkerSpuriousWake
  <2>5. ASSUME \/ CallWaitAll \/ WaitAllKick \/ WaitAllPoll \/ WaitAllLock \/ WaitAllBlock
               \/ WaitAllSpuriousWake \/ Shutdown \/ FinishShutdown \/ UNCHANGED vars
        PROVE  FALSE
    BY <2>1, <2>5 DEF CallWaitAll, WaitAllKick, WaitAllPoll, WaitAllLock, WaitAllBlock,
       WaitAllSpuriousWake, Shutdown, FinishShutdown, ShutdownNotify, ShutdownJoin, MainGoto,
       vars
  <2>6. ASSUME (\E t \in PrioTypes : PrioritizeImmediate(t)) \/ PrioritizeStandard
        PROVE  FALSE
    BY <2>6 DEF PrioritizeImmediate, PrioritizeStandard, MainGoto
  <2>7. QED
    BY <2>2, <2>3, <2>4, <2>5, <2>6 DEF Next, WaitAll, Terminated
<1>2. QED
  BY <1>1 DEF WaitAllTest, MainGoto

(***************************************************************************)
(* With a zero counter and main in no submit, nothing is unfinished unless *)
(* a job was submitted by another job.                                     *)
(***************************************************************************)
LEMMA ZeroMeansFinished ==
    ASSUME TypeOK, JobInOnePlace, CounterBalanced, MainInOneCall,
           NestedJobs = {}, mpc = "test", jobCounter = 0
    PROVE  AllFinished
<1>1. \A j \in Jobs : sub[j] # "none" => sub[j] = "returned"
  BY DEF TypeOK, SubStates, SubPending, MainInOneCall, Free
<1>2. CountedDown \in SUBSET Counted
  BY <1>1 DEF CountedDown, Counted, Finished, JobInOnePlace, StartedOnceOffered
<1>3. Cardinality(Counted) = Cardinality(CountedDown)
  BY CountedTypes DEF CounterBalanced
<1>4. Counted = CountedDown
  BY <1>2, <1>3, CountedTypes, FS_Subset
<1>5. QED
  BY <1>1, <1>4 DEF AllFinished, Counted, CountedDown

(***************************************************************************)
(* When only main submits, wait_all returns after every callback has.      *)
(***************************************************************************)
THEOREM WaitAllSound ==
    ASSUME NestedJobs = {}
    PROVE  Spec => WaitAllComplete
<1>1. /\ TypeOK /\ JobInOnePlace /\ CounterBalanced /\ MainInOneCall
      /\ [Next]_vars
      => [WaitAllReturns => AllFinished]_vars
  BY ReturnSeesZero, ZeroMeansFinished DEF WaitAllReturns
<1>2. QED
  BY <1>1, TypeCorrect, PlacementCorrect, CounterCorrect, MainCorrect, PTL
  DEF Spec, WaitAllComplete
=============================================================================
