---- MODULE JobDispatch ----
(***************************************************************************)
(* The job service together with the queue and the workers that dispatch   *)
(* its jobs.  A request handler that accepted a job, and startup recovery   *)
(* for every job it hands over, start a worker coroutine: it enqueues the   *)
(* job, and if the queue took it drains the queue, running one job after    *)
(* the other, until it finds the queue empty.                               *)
(*                                                                          *)
(* The queue is what both adapters show a worker: the keys that wait, and   *)
(* the keys in flight that keep a job from being enqueued again.  Every     *)
(* dispatch uses the default priority; the order among waiting jobs is left *)
(* open here.  RedisBackend chooses the adapter: Redis calls suspend the    *)
(* coroutine and the keys outlive the process, the in-memory queue keeps    *)
(* the event loop and dies with the process.                                *)
(***************************************************************************)
EXTENDS ForecastJobs

CONSTANTS
  RedisBackend,     \* EARTH2_FORECAST_QUEUE_BACKEND = redis
  MaxQueueFaults    \* bound: queue calls that raise (connection errors)

ASSUME QueueAssumption == /\ RedisBackend \in BOOLEAN /\ MaxQueueFaults \in Nat
                          /\ IsFiniteSet(Tasks)

VARIABLES
  pending,      \* keys waiting in the queue
  inflight,     \* keys dequeued and neither completed nor failed
  work,         \* what the worker side of every task is doing
  queueFaults

queueVars == <<pending, inflight, queueFaults>>
dispatchVars == <<vars, queueVars, work>>

NoWork == [at |-> "none", job |-> None]
Doing(at, j) == [at |-> at, job |-> j]

\* A queue call gives the event loop away only with Redis.
KeepQueue(t) == loop' = IF RedisBackend THEN None ELSE t

\* The worker side of a task moves; the job service does not.
WorkStep(t, at, j) ==
  /\ call[t] = Idle /\ Turn(t)
  /\ work' = [work EXCEPT ![t] = Doing(at, j)]
  /\ UNCHANGED <<job, issued, call, boot, handed, now, crashes, faults, queueFaults>>

----------------------------------------------------------------------------
(* Request handlers *)

Free(t) == work[t] = NoWork

DispatchRequest(t) == Free(t) /\ Request(t) /\ UNCHANGED <<queueVars, work>>

\* The response of a 202 carries a background task that runs after it.
\* (Slip: every response starts a worker.)
RespondAlwaysWorking(t) ==
  /\ Return(t) /\ call[t].op # "run"
  /\ work' = [work EXCEPT ![t] = Doing("enqueue", call[t].job)]
  /\ UNCHANGED queueVars
Respond(t) ==
  /\ Return(t) /\ call[t].op # "run"
  /\ work' = [work EXCEPT ![t] = IF call[t].at = "accepted"
                                 THEN Doing("enqueue", call[t].job) ELSE NoWork]
  /\ UNCHANGED queueVars

----------------------------------------------------------------------------
(* Workers: _enqueue_and_drain and _drain_queue *)

\* Slip: a key in flight does not keep a job from being enqueued again.
EnqueueUnlessPending(t) ==
  /\ work[t].at = "enqueue"
  /\ pending' = pending \union {work[t].job}
  /\ IF work[t].job \in pending THEN WorkStep(t, "none", None) /\ loop' = None
                                ELSE WorkStep(t, "dequeue", None) /\ KeepQueue(t)
  /\ UNCHANGED inflight
Enqueue(t) ==
  /\ work[t].at = "enqueue"
  /\ \/ /\ work[t].job \notin pending \union inflight
        /\ pending' = pending \union {work[t].job}
        /\ WorkStep(t, "dequeue", None)
        /\ KeepQueue(t)
     \/ /\ work[t].job \in pending \union inflight     \* not result.enqueued
        /\ UNCHANGED pending
        /\ WorkStep(t, "none", None)
        /\ loop' = None
  /\ UNCHANGED inflight

Dequeue(t) ==
  /\ work[t].at = "dequeue"
  /\ \/ \E j \in pending :
          /\ pending' = pending \ {j}
          /\ inflight' = inflight \union {j}
          /\ WorkStep(t, "run", j)
          /\ KeepQueue(t)
     \/ /\ pending = {}
        /\ UNCHANGED <<pending, inflight>>
        /\ WorkStep(t, "none", None)
        /\ loop' = None

\* await run_job(item.job_id)
\* (Slip: the job is claimed without being read.)
RunJobUnread(t) ==
  /\ work[t].at = "run"
  /\ Arrive(t, "run", "claim", work[t].job)
  /\ work' = [work EXCEPT ![t].at = "running"]
  /\ UNCHANGED queueVars
RunJob(t) ==
  /\ work[t].at = "run"
  /\ Arrive(t, "run", "load", work[t].job)
  /\ work' = [work EXCEPT ![t].at = "running"]
  /\ UNCHANGED queueVars

\* Slip: an exception of run_job taken for its end.
RunEndsComplete(t) ==
  /\ work[t].at = "running"
  /\ Return(t)
  /\ work' = [work EXCEPT ![t].at = "complete"]
  /\ UNCHANGED queueVars
RunEnds(t) ==
  /\ work[t].at = "running"
  /\ Return(t)
  /\ work' = [work EXCEPT ![t].at = IF call[t].at = "raised" THEN "fail" ELSE "complete"]
  /\ UNCHANGED queueVars

\* mark_completed, and the next turn of the loop.
MarkCompleted(t) ==
  /\ work[t].at = "complete"
  /\ inflight' = inflight \ {work[t].job}
  /\ WorkStep(t, "dequeue", None)
  /\ KeepQueue(t)
  /\ UNCHANGED pending

\* mark_failed(requeue=False), then the exception ends the worker.
\* (Slips: requeue=True by a worker that is about to die; no mark_failed at all.)
MarkFailedRequeueing(t) ==
  /\ work[t].at = "fail"
  /\ inflight' = inflight \ {work[t].job}
  /\ pending' = pending \union {work[t].job}
  /\ WorkStep(t, "none", None)
  /\ loop' = None
MarkFailedSkipped(t) ==
  /\ work[t].at = "fail"
  /\ WorkStep(t, "none", None)
  /\ loop' = None
  /\ UNCHANGED <<pending, inflight>>
MarkFailed(t) ==
  /\ work[t].at = "fail"
  /\ inflight' = inflight \ {work[t].job}
  /\ WorkStep(t, "none", None)
  /\ loop' = None
  /\ UNCHANGED pending

\* A queue call raises and ends the worker, before Redis did anything or after it did
\* (a lost reply, or the lease that dequeue writes with a second call).
QueueFault(t) ==
  /\ RedisBackend /\ queueFaults < MaxQueueFaults
  /\ work[t].at \in {"enqueue", "dequeue", "complete", "fail"}
  /\ call[t] = Idle /\ Turn(t)
  /\ \/ UNCHANGED <<pending, inflight>>
     \/ /\ work[t].at = "enqueue" /\ work[t].job \notin inflight
        /\ pending' = pending \union {work[t].job}
        /\ UNCHANGED inflight
     \/ /\ work[t].at = "dequeue"
        /\ \E j \in pending : /\ pending' = pending \ {j}
                              /\ inflight' = inflight \union {j}
     \/ /\ work[t].at \in {"complete", "fail"}
        /\ inflight' = inflight \ {work[t].job}
        /\ UNCHANGED pending
  /\ work' = [work EXCEPT ![t] = NoWork]
  /\ queueFaults' = queueFaults + 1
  /\ loop' = None
  /\ UNCHANGED <<job, issued, call, boot, handed, now, crashes, faults>>

WorkerStep(t) == \/ Enqueue(t) \/ Dequeue(t) \/ RunJob(t) \/ RunEnds(t)
                 \/ MarkCompleted(t) \/ MarkFailed(t)

----------------------------------------------------------------------------
(* Recovery, death, time *)

\* asyncio.create_task for a job recovery hands over; MaxJobs tasks are enough.
DispatchRecoverJob(j) ==
  /\ RecoverJob(j)
  /\ IF j \in handed' \ handed
     THEN \E t \in Tasks : /\ Free(t) /\ call[t] = Idle
                           /\ work' = [work EXCEPT ![t] = Doing("enqueue", j)]
     ELSE UNCHANGED work
  /\ UNCHANGED queueVars

\* Slip: the documents die with the process.
DispatchCrashLosingJobs ==
  /\ crashes < MaxCrashes
  /\ crashes' = crashes + 1
  /\ job' = [j \in Jobs |-> None]
  /\ call' = [t \in Tasks |-> Idle]
  /\ work' = [t \in Tasks |-> NoWork]
  /\ loop' = None /\ boot' = Starting /\ handed' = {}
  /\ pending' = {} /\ inflight' = {}
  /\ UNCHANGED <<issued, now, faults, queueFaults>>
DispatchCrash ==
  /\ Crash
  /\ work' = [t \in Tasks |-> NoWork]
  /\ IF RedisBackend THEN UNCHANGED <<pending, inflight>>
                     ELSE pending' = {} /\ inflight' = {}
  /\ UNCHANGED queueFaults

Unqueued(action) == action /\ UNCHANGED <<queueVars, work>>

DispatchInit ==
  /\ Init
  /\ pending = {} /\ inflight = {} /\ queueFaults = 0
  /\ work = [t \in Tasks |-> NoWork]

DispatchNext ==
  \/ \E t \in Tasks :
       \/ DispatchRequest(t) \/ Respond(t) \/ WorkerStep(t) \/ QueueFault(t)
       \/ Unqueued(RequestStep(t)) \/ Unqueued(RunStep(t)) \/ Unqueued(StoreFault(t))
  \/ Unqueued(RecoverList) \/ (\E j \in Jobs : DispatchRecoverJob(j)) \/ Unqueued(RecoverDone)
  \/ DispatchCrash \/ Unqueued(Tick)

DispatchSpec == DispatchInit /\ [][DispatchNext]_dispatchVars

\* The event loop runs ready coroutines in turn, a provider call ends (the hosted
\* client has HTTP timeouts and a poll limit), and the lifespan hook is run to its
\* end.  Requests arrive, processes die and calls fail as they please.
TaskStep(t) == \/ WorkerStep(t) \/ Respond(t)
               \/ Unqueued(RequestStep(t)) \/ Unqueued(RunStep(t))
StartupStep == \/ Unqueued(RecoverList) \/ Unqueued(RecoverDone)
               \/ \E j \in Jobs : DispatchRecoverJob(j)
Fairness == /\ \A t \in Tasks : SF_dispatchVars(TaskStep(t))
            /\ SF_dispatchVars(StartupStep)

FairDispatchSpec == DispatchSpec /\ Fairness

----------------------------------------------------------------------------
(* Properties *)

WorkPoints == {"none", "enqueue", "dequeue", "run", "running", "complete", "fail"}

DispatchTypeOK ==
  /\ TypeOK
  /\ pending \subseteq Jobs /\ inflight \subseteq Jobs
  /\ work \in [Tasks -> [at: WorkPoints, job: Jobs \union {None}]]
  /\ queueFaults \in 0..MaxQueueFaults

\* Every key that waits has a worker of its own about to take a key: no job is
\* left in the queue when the worker that enqueued it, or another one, dies of an
\* exception half way through its drain loop.
NoOrphan ==
  Cardinality(pending) <= Cardinality({t \in Tasks : work[t].at = "dequeue"})

\* A worker holds the key it runs until it is completed or failed, nobody else
\* holds the same, and a key in flight has a holder: the keys that make enqueue
\* refuse a job are those of jobs being worked on.
Holds(t, j) == work[t].at \in {"run", "running", "complete", "fail"} /\ work[t].job = j
HoldersMatch ==
  /\ \A j \in inflight : \E t \in Tasks : Holds(t, j)
  /\ \A j \in Jobs : \A t \in Tasks : Holds(t, j) =>
       j \in inflight /\ j \notin pending /\ \A u \in Tasks \ {t} : ~Holds(u, j)

\* The same without the first part: keys of a process that died stay in Redis.
OneHolder ==
  \A j \in Jobs : \A t \in Tasks : Holds(t, j) =>
    j \in inflight /\ j \notin pending /\ \A u \in Tasks \ {t} : ~Holds(u, j)

\* A key is released (mark_completed) only after the outcome of the job is in the
\* store, whoever wrote it.
ReleasedWhenSettled ==
  [][\A t \in Tasks : work[t].at = "complete" /\ work'[t].at # "complete"
       /\ work[t].job \in inflight \ inflight' => ~InStatus(work[t].job, Active)]_dispatchVars

\* Every step of the composition is a step of the job service or none.
ImplementsJobs == Spec

\* A job that was accepted ends: no client polls an active job for ever, across
\* process deaths and restarts.
EveryJobEnds == \A j \in Jobs : InStatus(j, Active) ~> ~InStatus(j, Active)
====
