--------------------------- MODULE JobSystemProps ---------------------------
(* What the thread pool is relied on for, stated over JobSystem.           *)
EXTENDS JobSystem

SubStates == SubPending \cup {"none", "returned"}
ExeStates == ExeActive \cup {"none", "done"}
WorkerStates ==
    Dispatches \cup {"loop", "run", "lock", "check", "block", "asleep", "exit"}
MainStates ==
    {"idle", "kick", "poll", "lock", "test", "block", "waiting", "prioritize",
     "notifyAll", "join", "down"}

\* One slot of each ring stays empty.
QueuesFit == \A d \in Dispatches : Len(queue[d]) < Capacity[d]

(***************************************************************************)
(* The types, and the size of the rings: no submit, of main or of a job    *)
(* body, fills the slot that tells a full ring from an empty one.          *)
(***************************************************************************)
TypeOK ==
    /\ queue \in [Dispatches -> Seq(Jobs)]
    /\ QueuesFit
    /\ jobCounter \in Int
    /\ isRunning \in BOOLEAN
    /\ sub \in [Jobs -> SubStates]
    /\ by \in [Jobs -> Jobs \cup {Main, NoJob}]
    /\ exe \in [Jobs -> ExeStates]
    /\ wpc \in [Workers -> WorkerStates]
    /\ held \in [Workers -> Jobs \cup {NoJob}]
    /\ mpc \in MainStates
    /\ prio \in PrioTypes \cup {NoJob}

Queued(j) == \E d \in Dispatches : \E i \in DOMAIN queue[d] : queue[d][i] = j
Accepted(j) == sub[j] \in {"count", "notify", "returned"}

(***************************************************************************)
(* A job handed to submit is at any moment in exactly one place: queued    *)
(* once, in the hands of one worker, run inline by its submitter, or done. *)
(* It is never lost, never run twice and never run by two threads, however *)
(* enqueues, dequeues, prioritize and inline runs interleave.              *)
(***************************************************************************)
QueuedOnce ==
    \A c, d \in Dispatches : \A i \in DOMAIN queue[c], k \in DOMAIN queue[d] :
        queue[c][i] = queue[d][k] => c = d /\ i = k

QueuedIffUnstarted ==
    \A j \in Jobs : Queued(j) <=> Accepted(j) /\ exe[j] = "none"

HeldByOne ==
    \A v, w \in Workers : wpc[v] = "run" /\ wpc[w] = "run" /\ held[v] = held[w] => v = w

HeldIffActive ==
    \A j \in Jobs :
        (\E w \in Workers : wpc[w] = "run" /\ held[w] = j)
           <=> exe[j] \in ExeActive /\ sub[j] # "inline"

HeldIsJob == \A w \in Workers : wpc[w] = "run" => held[w] \in Jobs
InlineIsActive == \A j \in Jobs : sub[j] = "inline" => exe[j] \in ExeActive
StartedOnceOffered ==
    \A j \in Jobs : sub[j] \in {"none", "overflow"} => exe[j] = "none"

JobInOnePlace ==
    /\ QueuedOnce
    /\ QueuedIffUnstarted
    /\ HeldByOne
    /\ HeldIffActive
    /\ HeldIsJob
    /\ InlineIsActive
    /\ StartedOnceOffered

(***************************************************************************)
(* A job advances through execute_job once: no step of any thread takes it *)
(* back to an earlier point, so its callbacks run once, onComplete after   *)
(* onExecute.                                                              *)
(***************************************************************************)
ExeSteps ==
    { <<"none", "execute">>, <<"execute", "complete">>, <<"complete", "decrement">>,
      <<"decrement", "signal">>, <<"decrement", "ended">>, <<"signal", "ended">>,
      <<"ended", "done">> }
RunsOnce == [][\A j \in Jobs : exe'[j] # exe[j] => <<exe[j], exe'[j]>> \in ExeSteps]_vars

(***************************************************************************)
(* jobCounter accounts for every job: it is the number of jobs counted     *)
(* less the number of jobs that counted down.  A job that a worker         *)
(* finishes before its submitter counts it drives it below that number.    *)
(***************************************************************************)
Counted == {j \in Jobs : sub[j] \in {"notify", "inline", "returned"}}
CountedDown == {j \in Jobs : Finished(j)}
CounterBalanced == jobCounter = Cardinality(Counted) - Cardinality(CountedDown)

(***************************************************************************)
(* wait_all returns only when the callbacks of every job handed to submit  *)
(* have returned ("wait for worker threads to complete all jobs").         *)
(***************************************************************************)
WaitAllReturns == mpc = "test" /\ mpc' = "idle"
AllFinished == \A j \in Jobs : sub[j] # "none" => Finished(j)
WaitAllComplete == [][WaitAllReturns => AllFinished]_vars

(***************************************************************************)
(* wait_all returns: the main thread neither spins nor sleeps forever,     *)
(* whichever wakeups are lost or spurious.                                 *)
(***************************************************************************)
InWaitAll == mpc \in {"kick", "poll", "lock", "test", "block", "waiting"}
WaitAllTerminates == InWaitAll ~> mpc = "idle"

(***************************************************************************)
(* shutdown joins every worker and returns.                                *)
(***************************************************************************)
ShutdownTerminates == ~isRunning ~> mpc = "down"
=============================================================================
