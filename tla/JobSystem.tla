----------------------------- MODULE JobSystem ------------------------------
(***************************************************************************)
(* The thread pool of LDCore/JobSystem/Lib/JobSystem.cpp: one main thread  *)
(* that submits, prioritizes, waits and shuts down, worker threads that    *)
(* run jobs, and job bodies that submit further jobs.                      *)
(*                                                                         *)
(* Every job is submitted once.  A call to submit is followed through the  *)
(* state sub of its job and the call to execute_job through exe, whichever *)
(* thread makes them, so that the inline execution of a job that did not   *)
(* fit the queue nests to any depth without a stack: the caller is blocked *)
(* while one of its submissions has not returned.                          *)
(*                                                                         *)
(* The grain is one step per shared access.  A condition variable is the   *)
(* set of the threads asleep on it; a mutex is free when no thread is at a *)
(* step that holds it.  The two queues are used through what JobQueue is   *)
(* shown to implement, JobFifo.                                            *)
(***************************************************************************)
EXTENDS JobOrder, FiniteSets

CONSTANTS
    Main,       \* the thread that owns the job system
    Workers,    \* the worker threads, hardware_concurrency() - 1 of them
    Jobs,       \* the jobs submitted in the life of the system
    NestedJobs, \* those submitted by the callbacks of other jobs
    JobType,    \* JobHeader::type of each job
    Dispatch,   \* JobDispatchType of each job
    Capacity,   \* slots of each queue
    PrioTypes,  \* the types main may pass to prioritize
    NoJob       \* "no job", "no type"

Dispatches == {"immediate", "standard"}

ASSUME JobSystemConstants ==
    /\ Main \notin Jobs
    /\ NoJob \notin Jobs \cup {Main}
    /\ IsFiniteSet(Jobs)
    /\ NestedJobs \subseteq Jobs
    /\ Dispatch \in [Jobs -> Dispatches]
    /\ Capacity \in [Dispatches -> Nat \ {0}]

VARIABLES
    queue,      \* contents of immQueue and stdQueue
    jobCounter, \* size_t; a negative value is the wrapped one
    isRunning,
    sub,        \* where each job's submit call is
    by,         \* who called it: Main, the job whose callback did, or NoJob
    exe,        \* where each job's execute_job call is
    wpc,        \* where each worker is in worker_thread_main
    held,       \* the worker's local variable job
    mpc,        \* where main is: idle (in user code) or in a call other than submit
    prio        \* the argument of main's call of prioritize, or NoJob

queueVars == <<queue, sub, by, exe>>
threadVars == <<wpc, held, mpc, prio>>
vars == <<queue, jobCounter, isRunning, sub, by, exe, wpc, held, mpc, prio>>
-----------------------------------------------------------------------------
SubPending == {"count", "notify", "overflow", "inline"}
ExeActive == {"execute", "complete", "decrement", "signal", "ended"}
InCallback == {"execute", "complete"}

\* The callbacks of j have returned and the counter says so.
Finished(j) == exe[j] \in {"signal", "ended", "done"}

\* c is not inside a submit call.
Free(c) == \A j \in Jobs : by[j] = c => sub[j] \notin SubPending

\* User code that may call submit(j): main, or the body of another job.
MayCall(c, j) ==
    /\ Free(c)
    /\ \/ c = Main /\ mpc = "idle" /\ j \notin NestedJobs
       \/ c \in Jobs /\ exe[c] \in InCallback /\ j \in NestedJobs

Empty(d) == queue[d] = <<>>
HasJob == \E d \in Dispatches : ~Empty(d)

WakeMutexFree == \A w \in Workers : wpc[w] \notin {"check", "block"}
WaitAllMutexFree == mpc \notin {"test", "block"}

\* wakeCV.notify_one(): some sleeper, if there is one.
NotifyOneWorker ==
    IF \E w \in Workers : wpc[w] = "asleep"
    THEN \E w \in Workers : wpc[w] = "asleep" /\ wpc' = [wpc EXCEPT ![w] = "lock"]
    ELSE UNCHANGED wpc

Init ==
    /\ queue = [d \in Dispatches |-> <<>>]
    /\ jobCounter = 0
    /\ isRunning = TRUE
    /\ sub = [j \in Jobs |-> "none"]
    /\ by = [j \in Jobs |-> NoJob]
    /\ exe = [j \in Jobs |-> "none"]
    /\ wpc = [w \in Workers |-> "loop"]
    /\ held = [w \in Workers |-> NoJob]
    /\ mpc = "idle"
    /\ prio = NoJob
-----------------------------------------------------------------------------
(* JobSystem::submit                                                       *)

\* Mutant: the slot that tells a full ring from an empty one is filled too.
SubmitEnqueueLastSlot(c, j) ==
    /\ MayCall(c, j)
    /\ sub[j] = "none"
    /\ by' = [by EXCEPT ![j] = c]
    /\ IF Len(queue[Dispatch[j]]) < Capacity[Dispatch[j]]
       THEN /\ queue' = [queue EXCEPT ![Dispatch[j]] = Append(@, j)]
            /\ sub' = [sub EXCEPT ![j] = "count"]
       ELSE /\ sub' = [sub EXCEPT ![j] = "overflow"]
            /\ UNCHANGED queue
    /\ UNCHANGED <<jobCounter, isRunning, exe, threadVars>>

\* The job is visible to the workers before it is counted.
SubmitEnqueue(c, j) ==
    /\ MayCall(c, j)
    /\ sub[j] = "none"
    /\ by' = [by EXCEPT ![j] = c]
    /\ IF HasRoom(queue[Dispatch[j]], Capacity[Dispatch[j]])
       THEN /\ queue' = [queue EXCEPT ![Dispatch[j]] = Append(@, j)]
            /\ sub' = [sub EXCEPT ![j] = "count"]
       ELSE /\ sub' = [sub EXCEPT ![j] = "overflow"]
            /\ UNCHANGED queue
    /\ UNCHANGED <<jobCounter, isRunning, exe, threadVars>>

SubmitCount(j) ==
    /\ sub[j] = "count"
    /\ jobCounter' = jobCounter + 1
    /\ sub' = [sub EXCEPT ![j] = "notify"]
    /\ UNCHANGED <<queue, isRunning, by, exe, threadVars>>

SubmitNotify(j) ==
    /\ sub[j] = "notify"
    /\ NotifyOneWorker
    /\ sub' = [sub EXCEPT ![j] = "returned"]
    /\ UNCHANGED <<queue, jobCounter, isRunning, by, exe, held, mpc, prio>>

\* The queue was full: the caller runs the job itself.
\* Mutant: a job run inline is not counted.
SubmitInlineUncounted(j) ==
    /\ sub[j] = "overflow"
    /\ sub' = [sub EXCEPT ![j] = "inline"]
    /\ exe' = [exe EXCEPT ![j] = "execute"]
    /\ UNCHANGED <<queue, jobCounter, isRunning, by, threadVars>>

SubmitInline(j) ==
    /\ sub[j] = "overflow"
    /\ jobCounter' = jobCounter + 1
    /\ sub' = [sub EXCEPT ![j] = "inline"]
    /\ exe' = [exe EXCEPT ![j] = "execute"]
    /\ UNCHANGED <<queue, isRunning, by, threadVars>>

SubmitInlineReturn(j) ==
    /\ sub[j] = "inline"
    /\ exe[j] = "ended"
    /\ sub' = [sub EXCEPT ![j] = "returned"]
    /\ exe' = [exe EXCEPT ![j] = "done"]
    /\ UNCHANGED <<queue, jobCounter, isRunning, by, threadVars>>
-----------------------------------------------------------------------------
(* execute_job                                                             *)

OnExecuteReturns(j) ==
    /\ exe[j] = "execute"
    /\ Free(j)
    /\ exe' = [exe EXCEPT ![j] = "complete"]
    /\ UNCHANGED <<queue, jobCounter, isRunning, sub, by, threadVars>>

OnCompleteReturns(j) ==
    /\ exe[j] = "complete"
    /\ Free(j)
    /\ exe' = [exe EXCEPT ![j] = "decrement"]
    /\ UNCHANGED <<queue, jobCounter, isRunning, sub, by, threadVars>>

Decrement(j) ==
    /\ exe[j] = "decrement"
    /\ jobCounter' = jobCounter - 1
    /\ exe' = [exe EXCEPT ![j] = IF jobCounter = 1 THEN "signal" ELSE "ended"]
    /\ UNCHANGED <<queue, isRunning, sub, by, threadVars>>

\* Mutant: waitAllCV is notified without waitAllMutex.
SignalWaitAllUnlocked(j) ==
    /\ exe[j] = "signal"
    /\ mpc' = IF mpc = "waiting" THEN "lock" ELSE mpc
    /\ exe' = [exe EXCEPT ![j] = "ended"]
    /\ UNCHANGED <<queue, jobCounter, isRunning, sub, by, wpc, held, prio>>

SignalWaitAll(j) ==
    /\ exe[j] = "signal"
    /\ WaitAllMutexFree
    /\ mpc' = IF mpc = "waiting" THEN "lock" ELSE mpc
    /\ exe' = [exe EXCEPT ![j] = "ended"]
    /\ UNCHANGED <<queue, jobCounter, isRunning, sub, by, wpc, held, prio>>

ExecuteJob(j) ==
    OnExecuteReturns(j) \/ OnCompleteReturns(j) \/ Decrement(j) \/ SignalWaitAll(j)

Submitting(j) ==
    SubmitCount(j) \/ SubmitNotify(j) \/ SubmitInline(j) \/ SubmitInlineReturn(j)
-----------------------------------------------------------------------------
(* worker_thread_main                                                      *)

WorkerGoto(w, from, to) ==
    /\ wpc[w] = from
    /\ wpc' = [wpc EXCEPT ![w] = to]

WorkerLoop(w) ==
    /\ WorkerGoto(w, "loop", IF isRunning THEN "immediate" ELSE "exit")
    /\ UNCHANGED <<queueVars, jobCounter, isRunning, held, mpc, prio>>

\* Mutant: the job stays in the queue.
WorkerDequeuePeeks(w, d) ==
    /\ wpc[w] = d
    /\ IF Empty(d)
       THEN /\ wpc' = [wpc EXCEPT ![w] = IF d = "immediate" THEN "standard" ELSE "lock"]
            /\ UNCHANGED <<exe, held>>
       ELSE /\ wpc' = [wpc EXCEPT ![w] = "run"]
            /\ held' = [held EXCEPT ![w] = Head(queue[d])]
            /\ exe' = [exe EXCEPT ![Head(queue[d])] = "execute"]
    /\ UNCHANGED <<queue, jobCounter, isRunning, sub, by, mpc, prio>>

WorkerDequeue(w, d) ==
    /\ wpc[w] = d
    /\ IF Empty(d)
       THEN /\ wpc' = [wpc EXCEPT ![w] = IF d = "immediate" THEN "standard" ELSE "lock"]
            /\ UNCHANGED <<queue, exe, held>>
       ELSE /\ wpc' = [wpc EXCEPT ![w] = "run"]
            /\ held' = [held EXCEPT ![w] = Head(queue[d])]
            /\ queue' = [queue EXCEPT ![d] = Tail(@)]
            /\ exe' = [exe EXCEPT ![Head(queue[d])] = "execute"]
    /\ UNCHANGED <<jobCounter, isRunning, sub, by, mpc, prio>>

WorkerJobReturns(w) ==
    /\ wpc[w] = "run"
    /\ exe[held[w]] = "ended"
    /\ exe' = [exe EXCEPT ![held[w]] = "done"]
    /\ held' = [held EXCEPT ![w] = NoJob]
    /\ wpc' = [wpc EXCEPT ![w] = "loop"]
    /\ UNCHANGED <<queue, jobCounter, isRunning, sub, by, mpc, prio>>

WorkerLock(w) ==
    /\ WakeMutexFree
    /\ WorkerGoto(w, "lock", "check")
    /\ UNCHANGED <<queueVars, jobCounter, isRunning, held, mpc, prio>>

\* The predicate of wakeCV.wait, read while nobody else is kept from writing.
WorkerCheck(w) ==
    /\ WorkerGoto(w, "check", IF HasJob \/ ~isRunning THEN "loop" ELSE "block")
    /\ UNCHANGED <<queueVars, jobCounter, isRunning, held, mpc, prio>>

WorkerBlock(w) ==
    /\ WorkerGoto(w, "block", "asleep")
    /\ UNCHANGED <<queueVars, jobCounter, isRunning, held, mpc, prio>>

WorkerSpuriousWake(w) ==
    /\ WorkerGoto(w, "asleep", "lock")
    /\ UNCHANGED <<queueVars, jobCounter, isRunning, held, mpc, prio>>

Worker(w) ==
    \/ WorkerLoop(w)
    \/ \E d \in Dispatches : WorkerDequeue(w, d)
    \/ WorkerJobReturns(w)
    \/ WorkerLock(w)
    \/ WorkerCheck(w)
    \/ WorkerBlock(w)
-----------------------------------------------------------------------------
(* The calls of the main thread other than submit                          *)

MainGoto(from, to) == mpc = from /\ mpc' = to

CallWaitAll ==
    /\ Free(Main)
    /\ MainGoto("idle", "kick")
    /\ UNCHANGED <<queueVars, jobCounter, isRunning, wpc, held, prio>>

WaitAllKick ==
    /\ MainGoto("kick", "poll")
    /\ NotifyOneWorker
    /\ UNCHANGED <<queueVars, jobCounter, isRunning, held, prio>>

WaitAllPoll ==
    /\ MainGoto("poll", IF HasJob THEN "kick" ELSE "lock")
    /\ UNCHANGED <<queueVars, jobCounter, isRunning, wpc, held, prio>>

WaitAllLock ==
    /\ MainGoto("lock", "test")
    /\ UNCHANGED <<queueVars, jobCounter, isRunning, wpc, held, prio>>

\* Mutant: wait_all returns while one job is left.
WaitAllTestOneLeft ==
    /\ MainGoto("test", IF jobCounter \in {0, 1} THEN "idle" ELSE "block")
    /\ UNCHANGED <<queueVars, jobCounter, isRunning, wpc, held, prio>>

WaitAllTest ==
    /\ MainGoto("test", IF jobCounter = 0 THEN "idle" ELSE "block")
    /\ UNCHANGED <<queueVars, jobCounter, isRunning, wpc, held, prio>>

WaitAllBlock ==
    /\ MainGoto("block", "waiting")
    /\ UNCHANGED <<queueVars, jobCounter, isRunning, wpc, held, prio>>

WaitAllSpuriousWake ==
    /\ MainGoto("waiting", "lock")
    /\ UNCHANGED <<queueVars, jobCounter, isRunning, wpc, held, prio>>

\* prioritize reorders the immediate queue, then the standard one.
\* Mutant: a job moved to the front overwrites the one that was there.
PrioritizeQueueOverwrites(d, t) ==
    /\ queue' = [queue EXCEPT ![d] =
                    [i \in DOMAIN @ |-> IF i = 1 /\ \E k \in DOMAIN @ : JobType[@[k]] = t
                                        THEN @[CHOOSE k \in DOMAIN @ : JobType[@[k]] = t]
                                        ELSE @[i]]]
    /\ UNCHANGED <<jobCounter, isRunning, sub, by, exe, wpc, held>>

PrioritizeQueue(d, t) ==
    /\ \E p \in [DOMAIN queue[d] -> DOMAIN queue[d]] :
          /\ IsPromotion(p, queue[d], t, JobType)
          /\ queue' = [queue EXCEPT ![d] = Reordered(@, p)]
    /\ UNCHANGED <<jobCounter, isRunning, sub, by, exe, wpc, held>>

PrioritizeImmediate(t) ==
    /\ Free(Main)
    /\ MainGoto("idle", "prioritize")
    /\ prio' = t
    /\ PrioritizeQueue("immediate", t)

PrioritizeStandard ==
    /\ MainGoto("prioritize", "idle")
    /\ prio' = NoJob
    /\ PrioritizeQueue("standard", prio)

\* JobSystem::shutdown and ~JobSystemObj.
Shutdown ==
    /\ Free(Main)
    /\ MainGoto("idle", "notifyAll")
    /\ isRunning' = FALSE
    /\ UNCHANGED <<queueVars, jobCounter, wpc, held, prio>>

ShutdownNotify ==
    /\ MainGoto("notifyAll", "join")
    /\ wpc' = [w \in Workers |-> IF wpc[w] = "asleep" THEN "lock" ELSE wpc[w]]
    /\ UNCHANGED <<queueVars, jobCounter, isRunning, held, prio>>

ShutdownJoin ==
    /\ \A w \in Workers : wpc[w] = "exit"
    /\ MainGoto("join", "down")
    /\ UNCHANGED <<queueVars, jobCounter, isRunning, wpc, held, prio>>

Terminated == mpc = "down" /\ UNCHANGED vars

WaitAll ==
    WaitAllKick \/ WaitAllPoll \/ WaitAllLock \/ WaitAllTest \/ WaitAllBlock

FinishShutdown == ShutdownNotify \/ ShutdownJoin
-----------------------------------------------------------------------------
Next ==
    \/ \E c \in Jobs \cup {Main}, j \in Jobs : SubmitEnqueue(c, j)
    \/ \E j \in Jobs : Submitting(j) \/ ExecuteJob(j)
    \/ \E w \in Workers : Worker(w) \/ WorkerSpuriousWake(w)
    \/ CallWaitAll \/ WaitAll \/ WaitAllSpuriousWake
    \/ PrioritizeStandard \/ \E t \in PrioTypes : PrioritizeImmediate(t)
    \/ Shutdown \/ FinishShutdown \/ Terminated

Spec == Init /\ [][Next]_vars

\* Every thread is scheduled, callbacks return, main finishes a call it
\* started, and a mutex released again and again is acquired by a thread that
\* waits for it.  Nothing makes main call wait_all or shutdown, and nothing
\* but a notification need wake a sleeping thread.
Fairness ==
    /\ \A j \in Jobs : WF_vars(Submitting(j)) /\ WF_vars(ExecuteJob(j))
    /\ \A j \in Jobs : SF_vars(SignalWaitAll(j))
    /\ \A w \in Workers : WF_vars(Worker(w)) /\ SF_vars(WorkerLock(w))
    /\ WF_vars(WaitAll)
    /\ WF_vars(FinishShutdown)

FairSpec == Spec /\ Fairness
=============================================================================
