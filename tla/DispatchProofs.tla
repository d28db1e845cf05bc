---- MODULE DispatchProofs ----
(***************************************************************************)
(* The job service with its queue and its workers is the job service of    *)
(* ForecastJobs, so all that is proved of that holds here too, and no job  *)
(* has two holders, whatever the queue is; with the in-memory queue no key *)
(* is left in it, in flight or waiting, and a key is released when its job *)
(* has ended.  For any number of tasks, jobs, process deaths and faults.   *)
(***************************************************************************)
EXTENDS JobDispatch, ForecastJobsProofs, FiniteSetTheorems

----------------------------------------------------------------------------
(* A worker knows the job it works on, has one call at most under way, and   *)
(* exists only where something was handed over.                              *)

WorkRecords == [at: WorkPoints, job: Jobs \union {None}]

WorkOK(t) ==
  /\ work[t].at \notin {"none", "dequeue"} => work[t].job \in 1..issued
  /\ work[t].at # "none" => handed # {}
  /\ work[t].at \notin {"none", "running"} => call[t] = Idle
  /\ work[t].at = "running" => call[t].op = "run"
  /\ call[t].op = "run" => work[t].at = "running" /\ call[t].job = work[t].job

WorkInv ==
  /\ pending \subseteq 1..issued /\ inflight \subseteq 1..issued
  /\ work \in [Tasks -> WorkRecords] /\ queueFaults \in 0..MaxQueueFaults
  /\ \A t \in Tasks : WorkOK(t)

DispatchInv == TypeInv /\ RunnerInv /\ WorkInv

\* What the worker side does to the tasks.
LEMMA WorkShape ==
  ASSUME WorkInv, NEW t \in Tasks, NEW w, work' = [work EXCEPT ![t] = w]
  PROVE  /\ work'[t] = w /\ \A u \in Tasks \ {t} : work'[u] = work[u]
         /\ w \in WorkRecords => work' \in [Tasks -> WorkRecords]
BY DEF WorkInv

\* A task that moves on the worker side alone is a task elsewhere.
LEMMA WorkElsewhere ==
  ASSUME NEW t \in Tasks, NEW at, NEW j, WorkStep(t, at, j), KeepQueue(t) \/ loop' = None
  PROVE  Elsewhere(t)
BY QueueAssumption DEF WorkStep, KeepQueue, Elsewhere

\* Every step of the composition is a step of the job service or none of it.
LEMMA JobSteps == DispatchInv /\ [DispatchNext]_dispatchVars => [Next]_vars
<1> SUFFICES ASSUME DispatchInv, [DispatchNext]_dispatchVars PROVE [Next]_vars
  OBVIOUS
<1>1. ASSUME NEW t \in Tasks, Enqueue(t) \/ Dequeue(t) \/ MarkCompleted(t) \/ MarkFailed(t)
      PROVE  Next
  <2>1. Elsewhere(t)
    BY <1>1, WorkElsewhere DEF Enqueue, Dequeue, MarkCompleted, MarkFailed
  <2> QED BY <2>1 DEF Next
<1>2. ASSUME NEW t \in Tasks, QueueFault(t) PROVE Next
  BY <1>2 DEF QueueFault, Elsewhere, Next
<1>3. ASSUME NEW t \in Tasks, RunJob(t) PROVE Next
  <2>1. handed # {} /\ work[t].job \in 1..issued
    BY <1>3 DEF RunJob, DispatchInv, WorkInv, WorkOK
  <2>2. Deliver(t)
    BY <1>3, <2>1 DEF RunJob, Deliver
  <2> QED BY <2>2 DEF Next
<1>4. ASSUME NEW t \in Tasks, RunEnds(t) \/ Respond(t) \/ DispatchRequest(t) PROVE Next
  BY <1>4 DEF RunEnds, Respond, DispatchRequest, Next
<1>5. ASSUME NEW t \in Tasks, \/ Unqueued(RequestStep(t)) \/ Unqueued(RunStep(t))
                              \/ Unqueued(StoreFault(t))
      PROVE  Next
  BY <1>5 DEF Unqueued, Next
<1>6. ASSUME NEW j \in Jobs, DispatchRecoverJob(j) PROVE Next
  BY <1>6 DEF DispatchRecoverJob, Next
<1>7. CASE \/ Unqueued(RecoverList) \/ Unqueued(RecoverDone) \/ DispatchCrash \/ Unqueued(Tick)
  BY <1>7 DEF Unqueued, DispatchCrash, Next
<1>8. CASE UNCHANGED dispatchVars
  BY <1>8 DEF dispatchVars
<1> QED BY <1>1, <1>2, <1>3, <1>4, <1>5, <1>6, <1>7, <1>8 DEF DispatchNext, WorkerStep

----------------------------------------------------------------------------
(* The workers' invariant *)

\* A step of one task: the others' workers stay sound.
LEMMA OneWork ==
  ASSUME TypeInv, WorkInv, [Next]_vars, NEW t \in Tasks, NEW w \in WorkRecords,
         work' = [work EXCEPT ![t] = w],
         \A u \in Tasks \ {t} : call'[u] = call[u], handed \subseteq handed',
         WorkOK(t)', pending' \subseteq 1..issued', inflight' \subseteq 1..issued',
         queueFaults' \in 0..MaxQueueFaults
  PROVE  WorkInv'
<1>1. work' \in [Tasks -> WorkRecords] /\ \A u \in Tasks \ {t} : work'[u] = work[u]
  BY WorkShape
<1>2. ASSUME NEW u \in Tasks \ {t} PROVE WorkOK(u)'
  <2>1. WorkOK(u)
    BY DEF WorkInv
  <2>2. \A j : j \in 1..issued => j \in 1..issued'
    BY IssuedGrows
  <2> QED BY <1>1, <2>1, <2>2 DEF WorkOK
<1> QED BY <1>1, <1>2 DEF WorkInv

\* The ids of the keys grow with the ids given out.
LEMMA KeysGiven ==
  ASSUME TypeInv, WorkInv, [Next]_vars
  PROVE  pending \subseteq 1..issued' /\ inflight \subseteq 1..issued'
BY IssuedGrows DEF WorkInv

\* Workers that talk to the queue only handle ids that were given out.
LEMMA QueueStepWork ==
  ASSUME DispatchInv, [Next]_vars, NEW t \in Tasks,
         Enqueue(t) \/ Dequeue(t) \/ MarkCompleted(t) \/ MarkFailed(t) \/ QueueFault(t)
  PROVE  WorkInv'
<1>1. /\ UNCHANGED <<call, handed, issued>> /\ call[t] = Idle
      /\ queueFaults' \in 0..MaxQueueFaults
      /\ pending' \subseteq pending \union {work[t].job} /\ inflight' \subseteq inflight \union pending
      /\ work[t].at = "enqueue" \/ pending' \subseteq pending
  BY QueueAssumption DEF Enqueue, Dequeue, MarkCompleted, MarkFailed, QueueFault, WorkStep,
                         DispatchInv, WorkInv
<1>2. work[t].at # "none" /\ handed # {} /\ (work[t].at = "enqueue" => work[t].job \in 1..issued)
  BY DEF Enqueue, Dequeue, MarkCompleted, MarkFailed, QueueFault, DispatchInv, WorkInv, WorkOK
<1>3. pending' \subseteq 1..issued' /\ inflight' \subseteq 1..issued'
  BY <1>1, <1>2 DEF DispatchInv, WorkInv
<1>4. PICK w \in WorkRecords : /\ work' = [work EXCEPT ![t] = w]
                               /\ w = NoWork \/ w = Doing("dequeue", None)
                                  \/ \E j \in pending : w = Doing("run", j)
  <2>1. NoWork \in WorkRecords /\ Doing("dequeue", None) \in WorkRecords
        /\ NoWork = Doing("none", None)
    BY DEF NoWork, Doing, WorkRecords, WorkPoints
  <2>2. \A j \in pending : Doing("run", j) \in WorkRecords
    BY BoundAssumption DEF DispatchInv, WorkInv, Doing, WorkRecords, WorkPoints, TypeInv, TypeOK,
                           Jobs
  <2> QED BY <2>1, <2>2 DEF Enqueue, Dequeue, MarkCompleted, MarkFailed, QueueFault, WorkStep
<1>5. work'[t] = w
  BY <1>4, WorkShape DEF DispatchInv
<1>6. w.at \in {"none", "dequeue", "run"} /\ (w.at = "run" => w.job \in 1..issued)
  BY <1>4 DEF NoWork, Doing, DispatchInv, WorkInv
<1>7. WorkOK(t)'
  BY <1>1, <1>2, <1>5, <1>6 DEF WorkOK, Idle
<1> QED BY <1>1, <1>3, <1>4, <1>7, OneWork DEF DispatchInv

\* A worker that awaits run_job, or gets its end, still works on the same job.
LEMMA RunStepWork ==
  ASSUME DispatchInv, [Next]_vars, NEW t \in Tasks, RunJob(t) \/ RunEnds(t)
  PROVE  WorkInv'
<1>1. /\ UNCHANGED <<pending, inflight, queueFaults, issued>> /\ handed \subseteq handed'
      /\ \A u \in Tasks \ {t} : call'[u] = call[u]
  BY DEF RunJob, RunEnds, queueVars, Arrive, Return, DispatchInv, TypeInv, TypeOK
<1>2. work[t] \in WorkRecords /\ work[t].job \in 1..issued /\ handed # {} /\ handed' # {}
      /\ work[t].at \in {"run", "running"}
  BY <1>1 DEF RunJob, RunEnds, DispatchInv, WorkInv, WorkOK
<1>3. PICK w \in WorkRecords :
        /\ work' = [work EXCEPT ![t] = w] /\ w.job = work[t].job
        /\ \/ w.at = "running" /\ call'[t].op = "run" /\ call'[t].job = w.job
           \/ w.at \in {"fail", "complete"} /\ call'[t] = Idle
  <2>1. CASE RunJob(t)
    <3>1. /\ call' = [call EXCEPT ![t] = [op |-> "run", at |-> "load", job |-> work[t].job,
                                          doc |-> None]]
          /\ work' = [work EXCEPT ![t] = [work[t] EXCEPT !.at = "running"]]
      BY <2>1 DEF RunJob, Arrive
    <3>2. call'[t].op = "run" /\ call'[t].job = work[t].job
      BY <3>1 DEF DispatchInv, TypeInv, TypeOK
    <3>3. LET w == [work[t] EXCEPT !.at = "running"] IN
          w \in WorkRecords /\ w.at = "running" /\ w.job = work[t].job
      BY <1>2 DEF WorkRecords, WorkPoints
    <3> QED BY <3>1, <3>2, <3>3
  <2>2. CASE RunEnds(t)
    <3>1. PICK at \in {"fail", "complete"} : work' = [work EXCEPT ![t] = [work[t] EXCEPT !.at = at]]
      BY <2>2 DEF RunEnds
    <3>2. call'[t] = Idle
      BY <2>2 DEF RunEnds, Return, DispatchInv, TypeInv, TypeOK
    <3>3. LET w == [work[t] EXCEPT !.at = at] IN
          w \in WorkRecords /\ w.at = at /\ w.job = work[t].job
      BY <1>2 DEF WorkRecords, WorkPoints
    <3> QED BY <3>1, <3>2, <3>3
  <2> QED BY <2>1, <2>2
<1>4. work'[t] = w
  BY <1>3, WorkShape DEF DispatchInv
<1>5. WorkOK(t)'
  BY <1>1, <1>2, <1>3, <1>4 DEF WorkOK, Idle
<1> QED BY <1>1, <1>3, <1>5, OneWork, KeysGiven DEF DispatchInv, WorkInv

\* A response becomes a worker if it accepted a job; the job is one just given out.
LEMMA RespondWork ==
  ASSUME DispatchInv, [Next]_vars, NEW t \in Tasks, Respond(t)
  PROVE  WorkInv'
<1>1. /\ UNCHANGED <<pending, inflight, queueFaults, issued>> /\ handed \subseteq handed'
      /\ \A u \in Tasks \ {t} : call'[u] = call[u]
      /\ call'[t] = Idle
      /\ call[t].at = "accepted" => call[t].job \in handed' /\ call[t].job \in 1..issued
  BY DEF Respond, queueVars, Return, DispatchInv, TypeInv, TypeOK, RunnerInv, Given
<1>2. CASE call[t].at = "accepted"
  <2>1. Doing("enqueue", call[t].job) \in WorkRecords
    BY <1>1, <1>2 DEF Doing, WorkRecords, WorkPoints, DispatchInv, TypeInv, CallOK
  <2>2. work' = [work EXCEPT ![t] = Doing("enqueue", call[t].job)]
    BY <1>2 DEF Respond
  <2>3. work'[t] = Doing("enqueue", call[t].job)
    BY <2>2, WorkShape DEF DispatchInv
  <2>4. WorkOK(t)'
    BY <1>1, <1>2, <2>3 DEF WorkOK, Doing, Idle
  <2> QED BY <1>1, <2>1, <2>2, <2>4, OneWork, KeysGiven DEF DispatchInv, WorkInv
<1>3. CASE call[t].at # "accepted"
  <2>1. NoWork \in WorkRecords
    BY DEF NoWork, WorkRecords, WorkPoints
  <2>2. work' = [work EXCEPT ![t] = NoWork]
    BY <1>3 DEF Respond
  <2>3. work'[t] = NoWork
    BY <2>2, WorkShape DEF DispatchInv
  <2>4. WorkOK(t)'
    BY <1>1, <2>3 DEF WorkOK, NoWork, Idle
  <2> QED BY <1>1, <2>1, <2>2, <2>4, OneWork, KeysGiven DEF DispatchInv, WorkInv
<1> QED BY <1>2, <1>3

\* Steps of a request, of a run and failed store calls move no worker.
LEMMA ServiceStepWork ==
  ASSUME DispatchInv, [Next]_vars, NEW t \in Tasks,
         \/ DispatchRequest(t) \/ Unqueued(RequestStep(t)) \/ Unqueued(RunStep(t))
         \/ Unqueued(StoreFault(t))
  PROVE  WorkInv'
<1>1. UNCHANGED <<pending, inflight, queueFaults, work>>
  BY DEF DispatchRequest, Unqueued, queueVars
<1>2. /\ \A u \in Tasks \ {t} : call'[u] = call[u]
      /\ handed' = handed /\ WorkOK(t)'
  <2>1. CASE DispatchRequest(t)
    <3>1. PICK op \in {"submit", "retry", "cancel", "cleanup"} :
            \E point, j : Arrive(t, op, point, j)
      BY <2>1 DEF DispatchRequest, Request
    <3>2. call'[t].op = op /\ \A u \in Tasks \ {t} : call'[u] = call[u]
      BY <3>1 DEF Arrive, DispatchInv, TypeInv, TypeOK
    <3>3. work[t] = NoWork /\ handed' = handed /\ issued' = issued
      BY <2>1, <3>1 DEF DispatchRequest, Free, Arrive
    <3> QED BY <1>1, <3>2, <3>3 DEF WorkOK, NoWork
  <2>2. CASE Submit(t) \/ RetryCreate(t)
    <3>1. /\ call'[t].op = call[t].op /\ call[t].op \in {"submit", "retry"}
          /\ \A u \in Tasks \ {t} : call'[u] = call[u]
          /\ handed' = handed
      BY <2>2 DEF Submit, RetryCreate, CreateJob, At, DispatchInv, TypeInv, TypeOK
    <3>2. work[t].at = "none"
      BY <3>1 DEF DispatchInv, WorkInv, WorkOK, Idle
    <3> QED BY <1>1, <3>1, <3>2 DEF WorkOK
  <2>3. CASE RetryLoad(t) \/ CancelLoad(t) \/ CancelStore(t) \/ Cleanup(t) \/ RunStep(t)
             \/ StoreFault(t)
    <3>1. /\ call'[t].op = call[t].op /\ call'[t].job = call[t].job /\ call[t].op # "none"
          /\ \A u \in Tasks \ {t} : call'[u] = call[u]
          /\ UNCHANGED <<handed, issued>>
      BY <2>3, StepsAdvance DEF Advance, DispatchInv
    <3>2. call[t] # Idle
      BY <3>1 DEF Idle
    <3> QED BY <1>1, <3>1, <3>2 DEF WorkOK, DispatchInv, WorkInv
  <2> QED BY <2>1, <2>2, <2>3 DEF Unqueued, RequestStep
<1>3. work' = [work EXCEPT ![t] = work[t]] /\ work[t] \in WorkRecords
  BY <1>1 DEF DispatchInv, WorkInv
<1> QED BY <1>1, <1>2, <1>3, OneWork, KeysGiven DEF DispatchInv, WorkInv

\* Recovery starts a worker for a job it hands over.
LEMMA RecoverStepWork ==
  ASSUME DispatchInv, [Next]_vars, NEW j \in Jobs, DispatchRecoverJob(j)
  PROVE  WorkInv'
<1>1. /\ UNCHANGED <<pending, inflight, queueFaults, issued, call>> /\ handed \subseteq handed'
      /\ j \in 1..issued
  BY DEF DispatchRecoverJob, queueVars, RecoverJob, RecoverStale, RecoverRunning, RecoverQueued,
         Newest, DispatchInv, RunnerInv, Given
<1>2. CASE j \in handed' \ handed
  <2>1. PICK t \in Tasks : Free(t) /\ call[t] = Idle /\ work' = [work EXCEPT ![t] = Doing("enqueue", j)]
    BY <1>2 DEF DispatchRecoverJob
  <2>2. Doing("enqueue", j) \in WorkRecords
    BY DEF Doing, WorkRecords, WorkPoints
  <2>3. work'[t] = Doing("enqueue", j)
    BY <2>1, WorkShape DEF DispatchInv
  <2>4. WorkOK(t)'
    BY <1>1, <1>2, <2>1, <2>3 DEF WorkOK, Doing, Idle
  <2> QED BY <1>1, <2>1, <2>2, <2>4, OneWork, KeysGiven DEF DispatchInv, WorkInv
<1>3. CASE j \notin handed' \ handed
  <2>1. work' = work
    BY <1>3 DEF DispatchRecoverJob
  <2> QED BY <1>1, <2>1 DEF DispatchInv, WorkInv, WorkOK
<1> QED BY <1>2, <1>3

\* No worker ever loses track of its job.
LEMMA WorkStepInv == DispatchInv /\ [DispatchNext]_dispatchVars => WorkInv'
<1> SUFFICES ASSUME DispatchInv, [DispatchNext]_dispatchVars PROVE WorkInv'
  OBVIOUS
<1>0. [Next]_vars
  BY JobSteps
<1>1. CASE UNCHANGED dispatchVars
  BY <1>1 DEF dispatchVars, queueVars, vars, DispatchInv, WorkInv, WorkOK
<1>2. CASE Unqueued(RecoverList) \/ Unqueued(RecoverDone) \/ Unqueued(Tick)
  BY <1>2 DEF Unqueued, queueVars, RecoverList, RecoverDone, Tick, DispatchInv, WorkInv, WorkOK
<1>3. CASE DispatchCrash
  <2>1. /\ work' = [t \in Tasks |-> NoWork] /\ call' = [t \in Tasks |-> Idle]
        /\ pending' \subseteq pending /\ inflight' \subseteq inflight
        /\ UNCHANGED <<issued, queueFaults>>
    BY <1>3 DEF DispatchCrash, Crash
  <2>2. NoWork \in WorkRecords
    BY DEF NoWork, WorkRecords, WorkPoints
  <2>3. \A t \in Tasks : WorkOK(t)'
    BY <2>1 DEF WorkOK, NoWork, Idle
  <2> QED BY <2>1, <2>2, <2>3 DEF DispatchInv, WorkInv
<1> QED BY <1>0, <1>1, <1>2, <1>3, QueueStepWork, RunStepWork, RespondWork, ServiceStepWork,
           RecoverStepWork
        DEF DispatchNext, WorkerStep

\* The invariant of the job service carries over, and the workers' holds with it.
THEOREM DispatchInvariance == DispatchSpec => []DispatchInv
<1>1. DispatchInit => DispatchInv
  <2> SUFFICES ASSUME DispatchInit PROVE DispatchInv
    OBVIOUS
  <2>1. TypeInv /\ RunnerInv
    BY TypeInit, RunnerInit DEF DispatchInit
  <2>2. NoWork \in WorkRecords
    BY DEF NoWork, WorkRecords, WorkPoints
  <2>3. \A t \in Tasks : WorkOK(t)
    BY DEF DispatchInit, Init, WorkOK, NoWork, Idle
  <2> QED BY <2>1, <2>2, <2>3, QueueAssumption DEF DispatchInit, DispatchInv, WorkInv
<1>2. DispatchInv /\ [DispatchNext]_dispatchVars => DispatchInv'
  BY JobSteps, WorkStepInv, TypeStep, RunnerStep DEF DispatchInv
<1> QED BY <1>1, <1>2, PTL DEF DispatchSpec

\* ImplementsJobs: the service with its queue and its workers is the job service, for
\* both queues and both kinds of store; all theorems on Spec hold of it too.
THEOREM JobsImplemented == DispatchSpec => ImplementsJobs
<1>1. DispatchInit => Init
  BY DEF DispatchInit
<1> QED BY <1>1, DispatchInvariance, JobSteps, PTL DEF DispatchSpec, ImplementsJobs, Spec

\* DispatchTypeOK: the types of all variables, the keys in the queue being job ids.
THEOREM DispatchTyped == DispatchSpec => []DispatchTypeOK
<1>1. DispatchInv => DispatchTypeOK
  <2>1. TypeInv => 1..issued \subseteq Jobs
    BY BoundAssumption DEF TypeInv, TypeOK, Jobs
  <2> QED BY <2>1 DEF DispatchInv, TypeInv, WorkInv, WorkRecords, DispatchTypeOK
<1> QED BY <1>1, DispatchInvariance, PTL

----------------------------------------------------------------------------
(* Holders of keys *)

\* The worker is in the drain loop, or works on a key, after a step if and only if it
\* was or did before.
SameWorker(t) ==
  /\ work'[t].at = "dequeue" <=> work[t].at = "dequeue"
  /\ \A j \in Jobs : Holds(t, j)' <=> Holds(t, j)

\* The queue is seen, and a key taken or given back, by the workers' own calls and by
\* the death of the process only.
LEMMA QueueMoves ==
  ASSUME DispatchInv, [DispatchNext]_dispatchVars
  PROVE  \/ /\ UNCHANGED <<pending, inflight>>
            /\ \A t \in Tasks : SameWorker(t)
         \/ \E t \in Tasks : \/ Enqueue(t) \/ Dequeue(t) \/ MarkCompleted(t) \/ MarkFailed(t)
                             \/ QueueFault(t)
         \/ DispatchCrash
<1>1. ASSUME NEW t \in Tasks, RunJob(t) \/ RunEnds(t)
      PROVE  UNCHANGED <<pending, inflight>> /\ \A u \in Tasks : SameWorker(u)
  <2>1. PICK at \in {"running", "fail", "complete"} :
          work' = [work EXCEPT ![t] = [work[t] EXCEPT !.at = at]]
    BY <1>1 DEF RunJob, RunEnds
  <2>2. work[t].at \in {"run", "running"} /\ work[t] \in WorkRecords
    BY <1>1 DEF RunJob, RunEnds, DispatchInv, WorkInv
  <2>3. /\ work'[t].at = at /\ work'[t].job = work[t].job
        /\ \A u \in Tasks \ {t} : work'[u] = work[u]
    <3>1. /\ work'[t] = [work[t] EXCEPT !.at = at]
          /\ \A u \in Tasks \ {t} : work'[u] = work[u]
      BY <2>1, WorkShape DEF DispatchInv
    <3> QED BY <2>2, <3>1 DEF WorkRecords
  <2>4. UNCHANGED <<pending, inflight>>
    BY <1>1 DEF RunJob, RunEnds, queueVars
  <2> QED BY <2>2, <2>3, <2>4 DEF SameWorker, Holds
<1>2. ASSUME NEW t \in Tasks, NEW w, work[t].at = "none", w.at \in {"none", "enqueue"},
             work' = [work EXCEPT ![t] = w]
      PROVE  \A u \in Tasks : SameWorker(u)
  <2>1. work'[t] = w /\ \A u \in Tasks \ {t} : work'[u] = work[u]
    BY <1>2, WorkShape DEF DispatchInv
  <2> QED BY <1>2, <2>1 DEF SameWorker, Holds
<1>3. ASSUME NEW t \in Tasks, Respond(t)
      PROVE  UNCHANGED <<pending, inflight>> /\ \A u \in Tasks : SameWorker(u)
  <2>1. work[t].at = "none" /\ UNCHANGED <<pending, inflight>>
    <3>1. call[t] # Idle /\ call[t].op # "run" /\ UNCHANGED <<pending, inflight>>
      BY <1>3 DEF Respond, Return, queueVars, Idle, Outcomes
    <3> QED BY <3>1 DEF DispatchInv, WorkInv, WorkOK
  <2>2. NoWork.at = "none" /\ Doing("enqueue", call[t].job).at = "enqueue"
    BY DEF NoWork, Doing
  <2>3. CASE call[t].at = "accepted"
    <3>1. work' = [work EXCEPT ![t] = Doing("enqueue", call[t].job)]
      BY <1>3, <2>3 DEF Respond
    <3> QED BY <1>2, <2>1, <2>2, <3>1
  <2>4. CASE call[t].at # "accepted"
    <3>1. work' = [work EXCEPT ![t] = NoWork]
      BY <1>3, <2>4 DEF Respond
    <3> QED BY <1>2, <2>1, <2>2, <3>1
  <2> QED BY <2>3, <2>4
<1>4. ASSUME NEW j \in Jobs, DispatchRecoverJob(j)
      PROVE  UNCHANGED <<pending, inflight>> /\ \A u \in Tasks : SameWorker(u)
  <2>1. UNCHANGED <<pending, inflight>>
    BY <1>4 DEF DispatchRecoverJob, queueVars
  <2>2. CASE UNCHANGED work
    BY <2>1, <2>2 DEF SameWorker, Holds
  <2>3. CASE \E t \in Tasks : Free(t) /\ work' = [work EXCEPT ![t] = Doing("enqueue", j)]
    <3>1. PICK t \in Tasks : Free(t) /\ work' = [work EXCEPT ![t] = Doing("enqueue", j)]
      BY <2>3
    <3>2. work[t].at = "none" /\ Doing("enqueue", j).at = "enqueue"
      BY <3>1 DEF Free, NoWork, Doing
    <3> QED BY <1>2, <2>1, <3>1, <3>2
  <2> QED BY <1>4, <2>2, <2>3 DEF DispatchRecoverJob
<1>5. ASSUME UNCHANGED <<queueVars, work>>
      PROVE  UNCHANGED <<pending, inflight>> /\ \A u \in Tasks : SameWorker(u)
  BY <1>5 DEF queueVars, SameWorker, Holds
<1> QED BY <1>1, <1>3, <1>4, <1>5
        DEF DispatchNext, WorkerStep, DispatchRequest, Unqueued, dispatchVars

\* What a worker's call on the queue does, when it returns.
LEMMA WorkerCall ==
  ASSUME DispatchInv, NEW t \in Tasks,
         Enqueue(t) \/ Dequeue(t) \/ MarkCompleted(t) \/ MarkFailed(t)
  PROVE  /\ \A u \in Tasks \ {t} : work'[u] = work[u]
         /\ \/ /\ work[t].at = "enqueue" /\ work'[t].at = "dequeue" /\ inflight' = inflight
               /\ work[t].job \notin pending \union inflight
               /\ pending' = pending \union {work[t].job}
            \/ /\ work[t].at = "enqueue" /\ work'[t].at = "none"
               /\ UNCHANGED <<pending, inflight>>
            \/ \E j \in pending : /\ work[t].at = "dequeue"
                                  /\ work'[t].at = "run" /\ work'[t].job = j
                                  /\ pending' = pending \ {j} /\ inflight' = inflight \union {j}
            \/ /\ work[t].at = "dequeue" /\ work'[t].at = "none" /\ pending = {}
               /\ UNCHANGED <<pending, inflight>>
            \/ /\ work[t].at \in {"complete", "fail"} /\ work'[t].at \in {"none", "dequeue"}
               /\ inflight' = inflight \ {work[t].job} /\ pending' = pending
<1>1. PICK at, j : work' = [work EXCEPT ![t] = Doing(at, j)]
  BY DEF Enqueue, Dequeue, MarkCompleted, MarkFailed, WorkStep
<1>2. work'[t] = Doing(at, j) /\ \A u \in Tasks \ {t} : work'[u] = work[u]
  BY <1>1, WorkShape DEF DispatchInv
<1>3. \A a, i : WorkStep(t, a, i) => work'[t].at = a /\ work'[t].job = i
  <2> SUFFICES ASSUME NEW a, NEW i, WorkStep(t, a, i)
               PROVE  work'[t].at = a /\ work'[t].job = i
    OBVIOUS
  <2>1. work' = [work EXCEPT ![t] = Doing(a, i)]
    BY DEF WorkStep
  <2>2. work'[t] = Doing(a, i)
    BY <2>1, WorkShape DEF DispatchInv
  <2> QED BY <2>2 DEF Doing
<1> QED BY <1>2, <1>3 DEF Enqueue, Dequeue, MarkCompleted, MarkFailed

\* What a call on the queue that raised did.
LEMMA WorkerFault ==
  ASSUME DispatchInv, NEW t \in Tasks, QueueFault(t)
  PROVE  /\ work'[t].at = "none" /\ \A u \in Tasks \ {t} : work'[u] = work[u]
         /\ \/ UNCHANGED <<pending, inflight>>
            \/ /\ work[t].job \notin inflight /\ inflight' = inflight
               /\ pending' = pending \union {work[t].job}
            \/ \E j \in pending : pending' = pending \ {j} /\ inflight' = inflight \union {j}
            \/ /\ work[t].at \in {"complete", "fail"} /\ pending' = pending
               /\ inflight' = inflight \ {work[t].job}
<1>1. work'[t] = NoWork /\ \A u \in Tasks \ {t} : work'[u] = work[u]
  BY WorkShape DEF QueueFault, DispatchInv
<1> QED BY <1>1 DEF QueueFault, NoWork

\* No key is taken twice: a key that is held is in flight and so neither waiting nor taken
\* by a second worker, whatever the queue and whoever dies.
LEMMA HolderStep ==
  ASSUME DispatchInv, OneHolder, [DispatchNext]_dispatchVars
  PROVE  OneHolder'
<1> SUFFICES ASSUME NEW j \in Jobs, NEW u \in Tasks, Holds(u, j)'
             PROVE  /\ j \in inflight' /\ j \notin pending'
                    /\ \A v \in Tasks \ {u} : ~Holds(v, j)'
  BY DEF OneHolder
<1>1. CASE UNCHANGED <<pending, inflight>> /\ \A t \in Tasks : SameWorker(t)
  BY <1>1 DEF SameWorker, OneHolder
<1>2. CASE DispatchCrash
  BY <1>2 DEF DispatchCrash, NoWork, Holds
<1>3. ASSUME NEW t \in Tasks, Enqueue(t) \/ Dequeue(t) \/ MarkCompleted(t) \/ MarkFailed(t)
      PROVE  /\ j \in inflight' /\ j \notin pending'
             /\ \A v \in Tasks \ {u} : ~Holds(v, j)'
  BY <1>3, WorkerCall DEF OneHolder, Holds
<1>4. ASSUME NEW t \in Tasks, QueueFault(t)
      PROVE  /\ j \in inflight' /\ j \notin pending'
             /\ \A v \in Tasks \ {u} : ~Holds(v, j)'
  BY <1>4, WorkerFault DEF OneHolder, Holds
<1> QED BY <1>1, <1>2, <1>3, <1>4, QueueMoves

\* OneHolder: mark_completed and mark_failed release a key only its own worker held.
THEOREM OneHolderAlways == DispatchSpec => []OneHolder
<1>1. DispatchInit => OneHolder
  BY DEF DispatchInit, NoWork, OneHolder, Holds
<1>2. DispatchInv /\ OneHolder /\ [DispatchNext]_dispatchVars => OneHolder'
  BY HolderStep
<1> QED BY <1>1, <1>2, DispatchInvariance, PTL DEF DispatchSpec

\* With the in-memory queue a key in flight is held: it dies with its holder.
LEMMA HeldStep ==
  ASSUME RedisBackend = FALSE, DispatchInv, HoldersMatch, [DispatchNext]_dispatchVars,
         NEW j \in Jobs, j \in inflight'
  PROVE  \E t \in Tasks : Holds(t, j)'
<1>1. CASE UNCHANGED <<pending, inflight>> /\ \A t \in Tasks : SameWorker(t)
  BY <1>1 DEF SameWorker, HoldersMatch
<1>2. CASE DispatchCrash
  BY <1>2 DEF DispatchCrash
<1>3. ASSUME NEW t \in Tasks, Enqueue(t) \/ Dequeue(t) \/ MarkCompleted(t) \/ MarkFailed(t)
      PROVE  \E u \in Tasks : Holds(u, j)'
  <2>1. CASE j \notin inflight
    BY <1>3, <2>1, WorkerCall DEF Holds
  <2>2. CASE j \in inflight
    <3>1. PICK u \in Tasks : Holds(u, j)
      BY <2>2 DEF HoldersMatch
    <3>2. u # t
      BY <1>3, <3>1, WorkerCall DEF Holds
    <3> QED BY <1>3, <3>1, <3>2, WorkerCall DEF Holds
  <2> QED BY <2>1, <2>2
<1>4. ASSUME NEW t \in Tasks, QueueFault(t) PROVE FALSE
  BY <1>4 DEF QueueFault
<1> QED BY <1>1, <1>2, <1>3, <1>4, QueueMoves

\* HoldersMatch: the in-flight marks of the in-memory queue are those of jobs worked on.
THEOREM HoldersMatchAlways ==
  ASSUME RedisBackend = FALSE
  PROVE  DispatchSpec => []HoldersMatch
<1>1. DispatchInit => HoldersMatch
  BY DEF DispatchInit, NoWork, HoldersMatch, Holds
<1>2. HoldersMatch => OneHolder
  BY DEF HoldersMatch, OneHolder
<1>3. DispatchInv /\ HoldersMatch /\ [DispatchNext]_dispatchVars => HoldersMatch'
  <2> SUFFICES ASSUME DispatchInv, HoldersMatch, [DispatchNext]_dispatchVars
               PROVE  HoldersMatch'
    OBVIOUS
  <2>1. OneHolder'
    BY <1>2, HolderStep
  <2>2. DispatchInv'
    BY JobSteps, WorkStepInv, TypeStep, RunnerStep DEF DispatchInv
  <2>3. \A j \in inflight' : j \in Jobs
    BY <2>2, BoundAssumption DEF DispatchInv, WorkInv, TypeInv, TypeOK, Jobs
  <2>4. \A j \in inflight' : \E t \in Tasks : Holds(t, j)'
    BY <2>3, HeldStep
  <2> QED BY <2>1, <2>4 DEF OneHolder, HoldersMatch
<1> QED BY <1>1, <1>3, DispatchInvariance, PTL DEF DispatchSpec

----------------------------------------------------------------------------
(* Keys that wait have workers *)

Takers == {t \in Tasks : work[t].at = "dequeue"}

\* Keys and tasks are finitely many, so they can be counted.
LEMMA CountsExist ==
  ASSUME DispatchInv
  PROVE  /\ IsFiniteSet(pending) /\ IsFiniteSet(Takers)
         /\ Cardinality(pending) \in Nat /\ Cardinality(Takers) \in Nat
<1>1. IsFiniteSet(1..issued)
  BY FS_Interval DEF DispatchInv, TypeInv, TypeOK
<1>2. IsFiniteSet(pending)
  BY <1>1, FS_Subset DEF DispatchInv, WorkInv
<1>3. Takers \subseteq Tasks
  BY DEF Takers
<1>4. IsFiniteSet(Takers)
  BY <1>3, QueueAssumption, FS_Subset
<1> QED BY <1>2, <1>4, FS_CardinalityType

\* NoOrphan is inductive: a key added comes with a worker that will take one, a worker
\* leaves with a key or because there is none.
LEMMA OrphanStep ==
  ASSUME RedisBackend = FALSE, DispatchInv, NoOrphan, [DispatchNext]_dispatchVars
  PROVE  NoOrphan'
<1> SUFFICES Cardinality(pending') <= Cardinality(Takers')
  BY DEF NoOrphan, Takers
<1>1. Cardinality(pending) <= Cardinality(Takers)
  BY DEF NoOrphan, Takers
<1>2. DispatchInv'
  BY JobSteps, WorkStepInv, TypeStep, RunnerStep DEF DispatchInv
<1>3. IsFiniteSet(Takers') /\ Cardinality(Takers') \in Nat
  <2>1. Takers' \subseteq Tasks
    BY DEF Takers
  <2> QED BY <2>1, QueueAssumption, FS_Subset, FS_CardinalityType
<1>4. CASE pending' = pending /\ Takers \subseteq Takers'
  <2>1. Cardinality(Takers) <= Cardinality(Takers')
    BY <1>3, <1>4, FS_Subset
  <2> QED BY <1>1, <1>3, <1>4, <2>1, CountsExist
<1>5. CASE pending' = {}
  BY <1>3, <1>5, FS_EmptySet
<1>6. ASSUME NEW t \in Tasks, NEW j, j \notin pending, pending' = pending \union {j},
             t \notin Takers, Takers' = Takers \union {t}
      PROVE  Cardinality(pending') <= Cardinality(Takers')
  <2>1. /\ Cardinality(pending') = Cardinality(pending) + 1
        /\ Cardinality(Takers') = Cardinality(Takers) + 1
    BY <1>6, CountsExist, FS_AddElement
  <2> QED BY <1>1, <2>1, CountsExist
<1>7. ASSUME NEW t \in Tasks, NEW j \in pending, pending' = pending \ {j},
             t \in Takers, Takers' = Takers \ {t}
      PROVE  Cardinality(pending') <= Cardinality(Takers')
  <2>1. /\ Cardinality(pending') = Cardinality(pending) - 1
        /\ Cardinality(Takers') = Cardinality(Takers) - 1
    BY <1>7, CountsExist, FS_RemoveElement
  <2> QED BY <1>1, <2>1, CountsExist
<1>8. ASSUME NEW t \in Tasks, Enqueue(t) \/ Dequeue(t) \/ MarkCompleted(t) \/ MarkFailed(t)
      PROVE  Cardinality(pending') <= Cardinality(Takers')
  <2>1. /\ work[t].at = "dequeue" /\ work'[t].at # "dequeue" => Takers' = Takers \ {t}
        /\ work[t].at # "dequeue" /\ work'[t].at = "dequeue" => Takers' = Takers \union {t}
        /\ work[t].at # "dequeue" => Takers \subseteq Takers'
        /\ t \in Takers <=> work[t].at = "dequeue"
    BY <1>8, WorkerCall DEF Takers
  <2> QED BY <1>4, <1>5, <1>6, <1>7, <1>8, <2>1, WorkerCall
<1>9. ASSUME NEW t \in Tasks, QueueFault(t) PROVE FALSE
  BY <1>9 DEF QueueFault
<1>10. CASE DispatchCrash
  BY <1>5, <1>10 DEF DispatchCrash
<1>11. CASE UNCHANGED <<pending, inflight>> /\ \A t \in Tasks : SameWorker(t)
  BY <1>4, <1>11 DEF SameWorker, Takers
<1> QED BY <1>8, <1>9, <1>10, <1>11, QueueMoves

\* NoOrphan: with the in-memory queue no job is left waiting without a worker that will
\* take one, though any worker may die of an exception of the job it runs.
THEOREM NoOrphanAlways ==
  ASSUME RedisBackend = FALSE
  PROVE  DispatchSpec => []NoOrphan
<1>1. DispatchInit => NoOrphan
  <2> SUFFICES ASSUME DispatchInit PROVE NoOrphan
    OBVIOUS
  <2>1. {t \in Tasks : work[t].at = "dequeue"} \subseteq Tasks
    OBVIOUS
  <2>2. Cardinality({t \in Tasks : work[t].at = "dequeue"}) \in Nat
    BY <2>1, QueueAssumption, FS_Subset, FS_CardinalityType
  <2> QED BY <2>2, FS_EmptySet DEF DispatchInit, NoOrphan
<1>2. DispatchInv /\ NoOrphan /\ [DispatchNext]_dispatchVars => NoOrphan'
  BY OrphanStep
<1> QED BY <1>1, <1>2, DispatchInvariance, PTL DEF DispatchSpec

----------------------------------------------------------------------------
(* What a worker completes has ended.  With the in-memory queue a job is handed over   *)
(* once in the life of a process, so a job that is found running has its own runner.   *)

\* The job was accepted, by a handler or by recovery, and is about to be enqueued.
Awaits(t, j) ==
  \/ call[t].at = "accepted" /\ call[t].job = j
  \/ work[t].at = "enqueue" /\ work[t].job = j

\* A job is on recovery's list, about to be enqueued once, waiting or in flight, and no
\* two of these.
Placed ==
  /\ boot.at = "list" => pending = {}
  /\ \A j \in Listed : j \notin pending \union inflight
  /\ \A j \in Jobs : \A t \in Tasks : Awaits(t, j) =>
       /\ j \notin pending \union inflight \union Listed
       /\ \A u \in Tasks \ {t} : ~Awaits(u, j)

\* The worker has the job, but did not claim it yet.
Unclaimed(t, j) ==
  /\ work[t].job = j
  /\ work[t].at = "run" \/ (call[t].op = "run" /\ call[t].at \in {"load", "claim"})

\* A job that is running is not still to be run.
Unstarted ==
  /\ \A j \in Jobs : InStatus(j, {"running"}) =>
       /\ j \notin pending
       /\ \A t \in Tasks : ~Awaits(t, j) /\ ~Unclaimed(t, j)
  /\ \A j \in Listed : InStatus(j, {"running"}) => boot.todo[j].status = "running"

\* A run that ended without an exception left its job ended, or deleted.
Settled ==
  \A t \in Tasks :
    \/ call[t].op = "run" /\ call[t].at \in Outcomes \ {"raised"}
    \/ work[t].at = "complete"
    => ~InStatus(work[t].job, Active)

ReleaseInv == Placed /\ Unstarted /\ Settled

\* A job starts to run by the claim of a task that has it.
LEMMA BecomesRunning ==
  ASSUME TypeInv, RunnerInv, [Next]_vars, NEW j \in Jobs,
         InStatus(j, {"running"})', ~InStatus(j, {"running"})
  PROVE  \E t \in Tasks : RunClaim(t) /\ call[t].job = j /\ InStatus(j, {"queued"})
<1>0. job'[j] # None /\ job'[j].status = "running" /\ job'[j] # job[j]
  BY DEF InStatus, Present
<1>1. ASSUME NEW t \in Tasks, Submit(t) \/ RetryCreate(t) PROVE FALSE
  <2>1. PICK parent, attempt : CreateJob(t, NewDoc(parent, attempt))
    BY <1>1 DEF Submit, RetryCreate
  <2>2. job' = [job EXCEPT ![issued + 1] = NewDoc(parent, attempt)]
    BY <2>1 DEF CreateJob
  <2>3. job'[j] = NewDoc(parent, attempt)
    BY <1>0, <2>2 DEF TypeInv, TypeOK
  <2> QED BY <1>0, <2>3 DEF NewDoc
<1>2. ASSUME NEW k \in Jobs, NEW doc \in Docs, doc.status # "running", NEW expected,
             UpdateIfStatus(k, doc, expected)
      PROVE  FALSE
  BY <1>0, <1>2, UpdateShape DEF TypeInv
<1>3. ASSUME NEW t \in Tasks, CancelStore(t) \/ RunSettle(t) PROVE FALSE
  <2>1. /\ call[t].at \in {"cancel", "store_result", "store_failure"}
        /\ \E expected : UpdateIfStatus(call[t].job, call[t].doc, expected)
    BY <1>3 DEF CancelStore, RunSettle, StoreResult, StoreFailure, Store, At
  <2>2. call[t].job \in Jobs /\ call[t].doc \in Docs /\ call[t].doc.status # "running"
    BY <2>1 DEF TypeInv, CallOK, Writes, Target
  <2> QED BY <1>2, <2>1, <2>2
<1>4. ASSUME NEW t \in Tasks, RunClaim(t)
      PROVE  call[t].job = j /\ InStatus(j, {"queued"})
  <2>1. UpdateIfStatus(call[t].job, call[t].doc, {"queued"})
        /\ call[t].job \in Jobs /\ call[t].doc \in Docs
    BY <1>4 DEF RunClaim, At, TypeInv, CallOK, Writes
  <2> QED BY <1>0, <2>1, UpdateShape DEF TypeInv
<1>5. ASSUME NEW t \in Tasks, Cleanup(t) PROVE FALSE
  BY <1>0, <1>5 DEF Cleanup, Forget
<1>6. ASSUME NEW t \in Tasks, \/ Request(t) \/ Deliver(t) \/ RetryLoad(t) \/ CancelLoad(t)
                              \/ RunLoad(t) \/ ProviderSucceeds(t) \/ ProviderFails(t)
                              \/ Return(t) \/ Elsewhere(t) \/ StoreFault(t)
      PROVE  FALSE
  BY <1>0, <1>6 DEF Request, Deliver, Arrive, RetryLoad, CancelLoad, RunLoad, ProviderSucceeds,
              ProviderFails, Load, Return, Elsewhere, StoreFault
<1>7. ASSUME NEW k \in Jobs, RecoverJob(k) PROVE FALSE
  <2>1. k \in Listed /\ boot.todo[k] \in Docs /\ boot.time \in Times
    BY <1>7 DEF RecoverJob, RecoverStale, RecoverRunning, RecoverQueued, Newest, TypeInv, TypeOK
  <2>2. Failed(boot.todo[k], boot.time) \in Docs /\ Requeued(boot.todo[k]) \in Docs
    BY <2>1, DocTypes DEF TypeInv, TypeOK
  <2>3. Failed(boot.todo[k], boot.time).status = "failed"
        /\ Requeued(boot.todo[k]).status = "queued"
    BY <2>1 DEF Failed, Requeued, Enter, Docs
  <2>4. CASE RecoverStale(k)
    BY <1>2, <2>2, <2>3, <2>4 DEF RecoverStale
  <2>5. CASE RecoverRunning(k)
    BY <1>2, <2>2, <2>3, <2>5 DEF RecoverRunning
  <2>6. CASE RecoverQueued(k)
    BY <1>0, <2>6 DEF RecoverQueued
  <2> QED BY <1>7, <2>4, <2>5, <2>6 DEF RecoverJob
<1>8. CASE RecoverList \/ RecoverDone \/ Crash \/ Tick \/ UNCHANGED vars
  BY <1>0, <1>8 DEF RecoverList, RecoverDone, Crash, Tick, vars
<1> QED BY <1>1, <1>3, <1>4, <1>5, <1>6, <1>7, <1>8 DEF Next, RequestStep, RunStep

\* A job that is not active does not become active again, and an id is used once.
LEMMA NeverActiveAgain ==
  ASSUME TypeInv, RunnerInv, [Next]_vars, NEW j \in 1..issued, ~InStatus(j, Active)
  PROVE  ~InStatus(j, Active)'
<1>1. j \in Jobs /\ j # issued + 1
  BY BoundAssumption DEF TypeInv, TypeOK, Jobs
<1>2. CASE j \in Present
  <2>1. InStatus(j, Terminal)
    BY <1>1, <1>2, EndedOrActive DEF TypeInv, InStatus, Active
  <2>2. job'[j] \in {job[j], None}
    BY <1>1, <2>1, TerminalStep
  <2> QED BY <2>1, <2>2 DEF InStatus, Present, Active, Terminal
<1>3. CASE j \notin Present
  <2>1. job'[j] = None
    BY <1>1, <1>3, Writers DEF Written, Present
  <2> QED BY <2>1 DEF InStatus, Present
<1> QED BY <1>2, <1>3

\* A step of one task moves that task only.
LEMMA OwnAlone ==
  ASSUME TypeInv, NEW t \in Tasks, Own(t), NEW u \in Tasks \ {t}
  PROVE  call'[u] = call[u]
<1>1. CASE Request(t) \/ Deliver(t) \/ Return(t) \/ Elsewhere(t) \/ StoreFault(t)
  BY <1>1 DEF Request, Deliver, Arrive, Return, Elsewhere, StoreFault, TypeInv, TypeOK
<1>2. CASE Submit(t) \/ RetryCreate(t)
  BY <1>2 DEF Submit, RetryCreate, CreateJob, TypeInv, TypeOK
<1>3. CASE RetryLoad(t) \/ CancelLoad(t) \/ CancelStore(t) \/ Cleanup(t) \/ RunStep(t)
  BY <1>3, StepsAdvance DEF Advance
<1> QED BY <1>1, <1>2, <1>3 DEF Own, RequestStep

\* The worker side of a task is moved by its response, its own calls and runs, recovery
\* and the death of the process.
LEMMA WorkerMoves ==
  ASSUME DispatchInv, [DispatchNext]_dispatchVars, NEW t \in Tasks, work'[t] # work[t]
  PROVE  \/ DispatchCrash
         \/ /\ \A u \in Tasks \ {t} : work'[u] = work[u]
            /\ \/ Respond(t) \/ WorkerStep(t) \/ QueueFault(t)
               \/ \E j \in Jobs : /\ DispatchRecoverJob(j) /\ j \in handed' \ handed
                                  /\ Free(t) /\ work'[t] = Doing("enqueue", j)
<1>1. ASSUME NEW u \in Tasks, Respond(u) \/ WorkerStep(u) \/ QueueFault(u)
      PROVE  \E w : work' = [work EXCEPT ![u] = w]
  BY <1>1 DEF Respond, WorkerStep, Enqueue, Dequeue, RunJob, RunEnds, MarkCompleted, MarkFailed,
              QueueFault, WorkStep
<1>2. ASSUME NEW u \in Tasks, Respond(u) \/ WorkerStep(u) \/ QueueFault(u)
      PROVE  u = t /\ \A v \in Tasks \ {t} : work'[v] = work[v]
  <2>1. PICK w : work' = [work EXCEPT ![u] = w]
    BY <1>1, <1>2
  <2> QED BY <2>1, WorkShape DEF DispatchInv
<1>3. ASSUME NEW j \in Jobs, DispatchRecoverJob(j)
      PROVE  /\ \A u \in Tasks \ {t} : work'[u] = work[u]
             /\ j \in handed' \ handed /\ Free(t) /\ work'[t] = Doing("enqueue", j)
  <2>1. j \in handed' \ handed
    BY <1>3 DEF DispatchRecoverJob
  <2>2. PICK u \in Tasks : Free(u) /\ work' = [work EXCEPT ![u] = Doing("enqueue", j)]
    BY <1>3, <2>1 DEF DispatchRecoverJob
  <2> QED BY <2>1, <2>2, WorkShape DEF DispatchInv
<1>4. work' # work
  OBVIOUS
<1> QED BY <1>2, <1>3, <1>4 DEF DispatchNext, DispatchRequest, Unqueued, dispatchVars

\* A job awaits its place in the queue because it was created, or handed over by recovery.
LEMMA AwaitMoves ==
  ASSUME DispatchInv, [DispatchNext]_dispatchVars, NEW t \in Tasks, NEW j \in Jobs,
         Awaits(t, j)'
  PROVE  \/ Awaits(t, j)
         \/ j \notin 1..issued /\ Own(t) /\ call'[t].at = "accepted" /\ call'[t].job = j
         \/ DispatchRecoverJob(j) /\ j \in handed' \ handed
            /\ \A u \in Tasks \ {t} : work'[u] = work[u]
<1>1. [Next]_vars
  BY JobSteps
<1>2. CASE call'[t].at = "accepted" /\ call'[t].job = j /\ call'[t] # call[t]
  <2>1. Own(t)
    BY <1>1, <1>2, OwnMoves DEF DispatchInv, Crash, Idle
  <2>2. CASE Submit(t) \/ RetryCreate(t)
    <3>1. call'[t].job = issued + 1
      BY <2>2 DEF Submit, RetryCreate, CreateJob, DispatchInv, TypeInv, TypeOK
    <3> QED BY <1>2, <2>1, <3>1 DEF DispatchInv, TypeInv, TypeOK
  <2>3. CASE RetryLoad(t) \/ CancelLoad(t) \/ CancelStore(t) \/ Cleanup(t) \/ RunStep(t)
             \/ StoreFault(t)
    BY <1>2, <2>3, StepsAdvance DEF DispatchInv, Advance
  <2>4. CASE Request(t) \/ Deliver(t) \/ Return(t) \/ Elsewhere(t)
    <3>1. call'[t] = call[t] \/ call'[t] = Idle \/ call'[t].at \in {"create", "load", "delete"}
      BY <2>4 DEF Request, Deliver, Arrive, Return, Elsewhere, DispatchInv, TypeInv, TypeOK
    <3> QED BY <1>2, <3>1 DEF Idle
  <2> QED BY <2>1, <2>2, <2>3, <2>4 DEF Own, RequestStep
<1>3. CASE work'[t].at = "enqueue" /\ work'[t].job = j /\ work'[t] # work[t]
  <2>1. ~DispatchCrash
    BY <1>3 DEF DispatchCrash, NoWork
  <2>2. CASE Respond(t)
    <3>1. call[t].at = "accepted"
      <4>1. CASE call[t].at # "accepted"
        <5>1. work' = [work EXCEPT ![t] = NoWork]
          BY <2>2, <4>1 DEF Respond
        <5> QED BY <1>3, <5>1, WorkShape DEF DispatchInv, NoWork
      <4> QED BY <4>1
    <3>2. work' = [work EXCEPT ![t] = Doing("enqueue", call[t].job)]
      BY <2>2, <3>1 DEF Respond
    <3>3. work'[t] = Doing("enqueue", call[t].job)
      BY <3>2, WorkShape DEF DispatchInv
    <3> QED BY <1>3, <3>1, <3>3 DEF Awaits, Doing
  <2>3. CASE Enqueue(t) \/ Dequeue(t) \/ MarkCompleted(t) \/ MarkFailed(t)
    BY <1>3, <2>3, WorkerCall
  <2>4. CASE QueueFault(t)
    BY <1>3, <2>4, WorkerFault
  <2>5. CASE RunJob(t) \/ RunEnds(t)
    <3>1. PICK at \in {"running", "fail", "complete"} :
            work' = [work EXCEPT ![t] = [work[t] EXCEPT !.at = at]]
      BY <2>5 DEF RunJob, RunEnds
    <3>2. work'[t] = [work[t] EXCEPT !.at = at] /\ work[t] \in WorkRecords
      BY <3>1, WorkShape DEF DispatchInv, WorkInv
    <3>3. work'[t].at = at
      BY <3>2 DEF WorkRecords
    <3> QED BY <1>3, <3>3
  <2>6. ASSUME NEW k \in Jobs, DispatchRecoverJob(k), k \in handed' \ handed,
               work'[t] = Doing("enqueue", k), \A u \in Tasks \ {t} : work'[u] = work[u]
        PROVE  DispatchRecoverJob(j) /\ j \in handed' \ handed
               /\ \A u \in Tasks \ {t} : work'[u] = work[u]
    <3>1. k = j
      BY <1>3, <2>6 DEF Doing
    <3> QED BY <2>6, <3>1
  <2> QED BY <1>3, <2>1, <2>2, <2>3, <2>4, <2>5, <2>6, WorkerMoves DEF WorkerStep
<1> QED BY <1>2, <1>3 DEF Awaits

\* A job that a worker has and did not claim was had by it, or waited in the queue.
LEMMA UnclaimedMoves ==
  ASSUME DispatchInv, [DispatchNext]_dispatchVars, NEW t \in Tasks, NEW j \in Jobs,
         Unclaimed(t, j)'
  PROVE  Unclaimed(t, j) \/ j \in pending
<1>1. [Next]_vars
  BY JobSteps
<1>2. DispatchInv'
  BY <1>1, JobSteps, WorkStepInv, TypeStep, RunnerStep DEF DispatchInv
<1>3. ASSUME work'[t].at = "run", work'[t].job = j, work'[t] # work[t]
      PROVE  j \in pending
  <2>1. CASE Dequeue(t) \/ Enqueue(t) \/ MarkCompleted(t) \/ MarkFailed(t)
    BY <1>3, <2>1, WorkerCall
  <2>2. CASE QueueFault(t)
    BY <1>3, <2>2, WorkerFault
  <2>3. CASE DispatchCrash
    BY <1>3, <2>3 DEF DispatchCrash, NoWork
  <2>4. CASE RunJob(t) \/ RunEnds(t)
    <3>1. PICK at \in {"running", "fail", "complete"} :
            work' = [work EXCEPT ![t] = [work[t] EXCEPT !.at = at]]
      BY <2>4 DEF RunJob, RunEnds
    <3>2. work'[t] = [work[t] EXCEPT !.at = at] /\ work[t] \in WorkRecords
      BY <3>1, WorkShape DEF DispatchInv, WorkInv
    <3>3. work'[t].at = at
      BY <3>2 DEF WorkRecords
    <3> QED BY <1>3, <3>3
  <2>5. CASE Respond(t)
    <3>1. PICK w \in {NoWork, Doing("enqueue", call[t].job)} : work' = [work EXCEPT ![t] = w]
      BY <2>5 DEF Respond
    <3>2. work'[t] = w
      BY <3>1, WorkShape DEF DispatchInv
    <3> QED BY <1>3, <3>1, <3>2 DEF NoWork, Doing
  <2>6. ASSUME NEW k \in Jobs, work'[t] = Doing("enqueue", k) PROVE FALSE
    BY <1>3, <2>6 DEF Doing
  <2> QED BY <1>3, <2>1, <2>2, <2>3, <2>4, <2>5, <2>6, WorkerMoves DEF WorkerStep
<1>4. ASSUME call'[t].op = "run", call'[t].at \in {"load", "claim"}, work'[t].job = j
      PROVE  Unclaimed(t, j)
  <2>1. work'[t].at = "running" /\ call'[t].job = j
    BY <1>2, <1>4 DEF DispatchInv, WorkInv, WorkOK
  <2>2. CASE call'[t] = call[t]
    BY <1>4, <2>1, <2>2 DEF Unclaimed, DispatchInv, WorkInv, WorkOK
  <2>3. CASE call'[t] # call[t]
    <3>1. Own(t)
      BY <1>1, <1>4, <2>3, OwnMoves DEF DispatchInv, Crash, Idle
    <3>2. CASE RunLoad(t)
      <4>1. call[t].op = "run" /\ call[t].at = "load" /\ call'[t].job = call[t].job
        BY <3>2, LoadMove DEF RunLoad, At, Idle, DispatchInv
      <4> QED BY <2>1, <4>1 DEF Unclaimed, DispatchInv, WorkInv, WorkOK
    <3>3. CASE RunClaim(t) \/ RunSettle(t) \/ StoreFault(t) \/ CancelStore(t)
      <4>1. PICK at \in Outcomes \union {"provider"} :
              call' = [call EXCEPT ![t].at = at, ![t].doc = None]
        BY <3>3 DEF RunClaim, RunSettle, StoreResult, StoreFailure, StoreFault, CancelStore,
                    Store, Answer, Outcomes
      <4>2. call[t] # Idle
        BY <3>3 DEF RunClaim, RunSettle, StoreResult, StoreFailure, StoreFault, CancelStore, At,
                    Idle, StoreCalls
      <4>3. call'[t].at = at
        BY <4>1, <4>2, MoveShape DEF DispatchInv
      <4> QED BY <1>4, <4>1, <4>3 DEF Outcomes
    <3>4. CASE ProviderSucceeds(t) \/ ProviderFails(t)
      <4>1. call'[t].at \in {"store_result", "store_failure", "returned", "raised"}
        BY <3>4, LoadMove DEF ProviderSucceeds, ProviderFails, At, Idle, DispatchInv
      <4> QED BY <1>4, <4>1
    <3>5. CASE RetryLoad(t) \/ CancelLoad(t) \/ Cleanup(t)
      <4>1. call'[t].op = call[t].op /\ call[t].op # "run"
        BY <3>5, StepsAdvance DEF Advance, RetryLoad, CancelLoad, Cleanup, Forget, At, DispatchInv
      <4> QED BY <1>4, <4>1
    <3>6. CASE Submit(t) \/ RetryCreate(t)
      <4>1. call'[t].at = "accepted"
        BY <3>6 DEF Submit, RetryCreate, CreateJob, DispatchInv, TypeInv, TypeOK
      <4> QED BY <1>4, <4>1
    <3>7. CASE Request(t) \/ Return(t)
      <4>1. call'[t].op \in {"submit", "retry", "cancel", "cleanup", "none"}
        BY <3>7 DEF Request, Arrive, Return, Idle, DispatchInv, TypeInv, TypeOK
      <4> QED BY <1>4, <4>1
    <3>8. CASE Elsewhere(t)
      BY <2>3, <3>8 DEF Elsewhere
    <3>9. CASE Deliver(t)
      <4>1. call[t] = Idle
        BY <3>9 DEF Deliver, Arrive
      <4>2. work[t].at # "running"
        BY <4>1 DEF Idle, DispatchInv, WorkInv, WorkOK
      <4>3. ~DispatchCrash /\ ~RunEnds(t) /\ ~Respond(t)
        BY <1>4, <4>1, <4>2 DEF DispatchCrash, Crash, Idle, RunEnds, Respond, Return, Outcomes
      <4>4. RunJob(t)
        <5>1. CASE Enqueue(t) \/ Dequeue(t) \/ MarkCompleted(t) \/ MarkFailed(t)
          BY <2>1, <5>1, WorkerCall
        <5>2. CASE QueueFault(t)
          BY <2>1, <5>2, WorkerFault
        <5>3. ASSUME NEW k \in Jobs, work'[t] = Doing("enqueue", k) PROVE FALSE
          BY <2>1, <5>3 DEF Doing
        <5> QED BY <2>1, <4>2, <4>3, <5>1, <5>2, <5>3, WorkerMoves DEF WorkerStep
      <4>5. work[t].at = "run" /\ work'[t] = [work[t] EXCEPT !.at = "running"]
            /\ work[t] \in WorkRecords
        BY <4>4, WorkShape DEF RunJob, DispatchInv, WorkInv
      <4>6. work[t].job = j
        BY <1>4, <4>5 DEF WorkRecords
      <4> QED BY <4>5, <4>6 DEF Unclaimed
    <3> QED BY <3>1, <3>2, <3>3, <3>4, <3>5, <3>6, <3>7, <3>8, <3>9
            DEF Own, RequestStep, RunStep
  <2> QED BY <2>2, <2>3
<1> QED BY <1>3, <1>4 DEF Unclaimed

\* With the in-memory queue a key waits because its job awaited that, and is in flight
\* because it waited.
LEMMA KeyMoves ==
  ASSUME RedisBackend = FALSE, DispatchInv, [DispatchNext]_dispatchVars, NEW j
  PROVE  /\ j \in pending' => \/ j \in pending
                              \/ \E t \in Tasks : Awaits(t, j) /\ ~Awaits(t, j)'
         /\ j \in inflight' => j \in inflight \union pending
<1>1. ASSUME NEW t \in Tasks, QueueFault(t) PROVE FALSE
  BY <1>1 DEF QueueFault
<1>2. CASE DispatchCrash
  BY <1>2 DEF DispatchCrash
<1>3. ASSUME NEW t \in Tasks, Enqueue(t) \/ Dequeue(t) \/ MarkCompleted(t) \/ MarkFailed(t)
      PROVE  /\ j \in pending' => j \in pending \/ (Awaits(t, j) /\ ~Awaits(t, j)')
             /\ j \in inflight' => j \in inflight \union pending
  <2>1. call'[t].at = "idle"
    BY <1>3 DEF Enqueue, Dequeue, MarkCompleted, MarkFailed, WorkStep, Idle
  <2>2. /\ j \in pending' => \/ j \in pending
                             \/ work[t].at = "enqueue" /\ work[t].job = j /\ work'[t].at = "dequeue"
        /\ j \in inflight' => j \in inflight \union pending
    BY <1>3, WorkerCall
  <2>3. work'[t].at = "dequeue" => ~Awaits(t, j)'
    BY <2>1 DEF Awaits
  <2> QED BY <2>2, <2>3 DEF Awaits
<1> QED BY <1>1, <1>2, <1>3, QueueMoves

\* The startup hook moves by its own steps, and starts again when the process dies.
LEMMA BootMoves ==
  ASSUME TypeInv, [Next]_vars
  PROVE  \/ boot' = boot \/ RecoverList \/ RecoverDone \/ Crash
         \/ \E j \in Jobs : RecoverJob(j)
<1>1. ASSUME NEW t \in Tasks, Own(t) PROVE boot' = boot
  <2>1. CASE Submit(t) \/ RetryCreate(t)
    BY <2>1 DEF Submit, RetryCreate, CreateJob
  <2>2. CASE RetryLoad(t) \/ CancelLoad(t) \/ CancelStore(t) \/ Cleanup(t) \/ RunStep(t)
             \/ StoreFault(t)
    BY <2>2, StepsAdvance DEF Advance
  <2> QED BY <1>1, <2>1, <2>2
          DEF Own, RequestStep, Request, Deliver, Arrive, Return, Elsewhere
<1>2. CASE Tick \/ UNCHANGED vars
  BY <1>2 DEF Tick, vars
<1> QED BY <1>1, <1>2 DEF Next, Own

\* The process dies in the composition when it dies in the service.
LEMMA CrashIsDispatched ==
  ASSUME DispatchInv, [DispatchNext]_dispatchVars, Crash
  PROVE  DispatchCrash
<1>1. crashes' = crashes + 1 /\ crashes \in Nat
  BY DEF Crash, DispatchInv, TypeInv, TypeOK
<1>2. crashes' # crashes
  BY <1>1
<1>3. ASSUME NEW t \in Tasks, \/ DispatchRequest(t) \/ Respond(t) \/ WorkerStep(t)
                              \/ QueueFault(t) \/ Unqueued(RequestStep(t))
                              \/ Unqueued(RunStep(t)) \/ Unqueued(StoreFault(t))
      PROVE  FALSE
  BY <1>2, <1>3 DEF DispatchRequest, Request, Arrive, Respond, Return, WorkerStep, Enqueue,
       Dequeue, RunJob, RunEnds, MarkCompleted, MarkFailed, WorkStep, QueueFault, Unqueued,
       RequestStep, Submit, RetryLoad, RetryCreate, CreateJob, CancelLoad, CancelStore, Cleanup,
       Forget,
       Load, Store, RunStep, RunLoad, RunClaim, ProviderSucceeds, ProviderFails, RunSettle,
       StoreResult, StoreFailure,
       StoreFault
<1>4. CASE \/ Unqueued(RecoverList) \/ (\E j \in Jobs : DispatchRecoverJob(j))
           \/ Unqueued(RecoverDone) \/ Unqueued(Tick) \/ UNCHANGED dispatchVars
  BY <1>2, <1>4 DEF Unqueued, RecoverList, DispatchRecoverJob, RecoverJob, RecoverStale,
       RecoverRunning, RecoverQueued, RecoverDone, Tick, dispatchVars, vars
<1> QED BY <1>3, <1>4 DEF DispatchNext

\* Jobs that await their place were given out, and nobody awaits before recovery begins.
LEMMA AwaitedGiven ==
  ASSUME DispatchInv, NEW t \in Tasks, NEW j, Awaits(t, j)
  PROVE  j \in 1..issued /\ boot.at # "list"
BY DEF DispatchInv, RunnerInv, Given, Quiet, WorkInv, WorkOK, Awaits, Idle

\* Recovery takes a job off its list when it hands it over.
LEMMA HandedListed ==
  ASSUME TypeInv, NEW j \in Jobs, RecoverJob(j)
  PROVE  j \in Listed /\ j \notin Listed' /\ UNCHANGED call
<1>1. j \in Listed /\ boot' = Without(j) /\ UNCHANGED call
  BY DEF RecoverJob, RecoverStale, RecoverRunning, RecoverQueued, Newest
<1> QED BY <1>1, WithoutTypes

\* No job comes to be in two places.
LEMMA PlacedStep ==
  ASSUME RedisBackend = FALSE, DispatchInv, HoldersMatch, Placed, [DispatchNext]_dispatchVars
  PROVE  Placed'
<1>1. [Next]_vars /\ DispatchInv'
  BY JobSteps, WorkStepInv, TypeStep, RunnerStep DEF DispatchInv
<1>2. boot.at = "list" =>
        pending = {} /\ inflight = {} /\ \A t \in Tasks, j \in Jobs : ~Awaits(t, j)
  <2> SUFFICES ASSUME boot.at = "list"
               PROVE  pending = {} /\ inflight = {} /\ \A t \in Tasks, j \in Jobs : ~Awaits(t, j)
    OBVIOUS
  <2>1. \A t \in Tasks : work[t].at = "none"
    BY DEF DispatchInv, RunnerInv, Quiet, WorkInv, WorkOK
  <2> QED BY <2>1, AwaitedGiven DEF Placed, HoldersMatch, Holds
<1>3. \A j \in pending' : j \in Jobs
  BY <1>1, BoundAssumption DEF DispatchInv, WorkInv, TypeInv, TypeOK, Jobs
<1>4. boot'.at = "list" => pending' = {}
  <2> SUFFICES ASSUME boot'.at = "list" PROVE pending' = {}
    OBVIOUS
  <2>1. CASE boot.at = "list"
    BY <1>2, <1>3, <2>1, KeyMoves
  <2>2. CASE boot.at # "list"
    <3>1. Crash
      <4>1. ASSUME NEW j \in Jobs, RecoverJob(j) PROVE boot'.at = boot.at
        <5>1. boot' = Without(j)
          BY <4>1 DEF RecoverJob, RecoverStale, RecoverRunning, RecoverQueued
        <5> QED BY <5>1, WithoutTypes DEF DispatchInv
      <4> QED BY <1>1, <2>2, <4>1, BootMoves DEF RecoverList, RecoverDone, Starting, DispatchInv
    <3> QED BY <3>1, CrashIsDispatched DEF DispatchCrash
  <2> QED BY <2>1, <2>2
<1>5. ASSUME NEW j \in Listed' PROVE j \notin pending' \union inflight'
  <2>1. j \in Jobs
    BY <1>1 DEF DispatchInv, TypeInv, TypeOK
  <2>2. CASE j \in Listed
    BY <2>1, <2>2, KeyMoves DEF Placed
  <2>3. CASE RecoverList
    BY <1>2, <2>1, <2>3, KeyMoves DEF RecoverList
  <2> QED BY <1>1, <2>2, <2>3, ListKept DEF DispatchInv
<1>6. ASSUME NEW j \in Jobs, NEW t \in Tasks, Awaits(t, j)'
      PROVE  /\ j \notin pending' \union inflight' \union Listed'
             /\ \A u \in Tasks \ {t} : ~Awaits(u, j)'
  <2>1. CASE Awaits(t, j)
    <3>1. j \in 1..issued /\ boot.at # "list"
          /\ j \notin pending \union inflight \union Listed
          /\ \A u \in Tasks \ {t} : ~Awaits(u, j)
      BY <2>1, AwaitedGiven DEF Placed
    <3>2. j \notin pending' \union inflight'
      BY <1>6, <3>1, KeyMoves
    <3>3. j \notin Listed'
      BY <1>1, <3>1, ListKept DEF DispatchInv, RecoverList
    <3>4. ~DispatchRecoverJob(j)
      BY <3>1, HandedListed DEF DispatchRecoverJob, DispatchInv
    <3> QED BY <3>1, <3>2, <3>3, <3>4, AwaitMoves
  <2>2. CASE j \notin 1..issued /\ Own(t) /\ call'[t].at = "accepted" /\ call'[t].job = j
    <3>1. j \notin pending \union inflight \union Listed /\ j \notin Present
          /\ \A u \in Tasks : ~Awaits(u, j)
      BY <2>2, AwaitedGiven DEF DispatchInv, WorkInv, RunnerInv, Given
    <3>2. j \notin pending' \union inflight'
      BY <3>1, KeyMoves
    <3>3. j \notin Listed'
      BY <1>1, <3>1, ListKept DEF DispatchInv, InStatus
    <3>4. ~DispatchRecoverJob(j)
      BY <3>1, HandedListed DEF DispatchRecoverJob, DispatchInv
    <3>5. ASSUME NEW u \in Tasks \ {t}, Own(u) PROVE FALSE
      <4>1. call'[t] = call[t]
        BY <3>5, OwnAlone DEF DispatchInv
      <4> QED BY <2>2, <3>1, <4>1 DEF Awaits
    <3> QED BY <3>1, <3>2, <3>3, <3>4, <3>5, AwaitMoves
  <2>3. CASE DispatchRecoverJob(j) /\ \A u \in Tasks \ {t} : work'[u] = work[u]
    <3>1. j \in Listed /\ j \notin Listed' /\ UNCHANGED call
      BY <2>3, HandedListed DEF DispatchRecoverJob, DispatchInv
    <3>2. j \notin pending \union inflight /\ \A u \in Tasks : ~Awaits(u, j)
      BY <3>1 DEF Placed
    <3>3. j \notin pending' \union inflight'
      BY <3>2, KeyMoves
    <3> QED BY <2>3, <3>1, <3>2, <3>3 DEF Awaits
  <2> QED BY <1>6, <2>1, <2>2, <2>3, AwaitMoves
<1> QED BY <1>4, <1>5, <1>6 DEF Placed

\* A job that becomes running is claimed by the one worker that has it.
LEMMA ClaimedOnce ==
  ASSUME RedisBackend = FALSE, DispatchInv, HoldersMatch, [DispatchNext]_dispatchVars,
         NEW j \in Jobs, InStatus(j, {"running"})', ~InStatus(j, {"running"})
  PROVE  /\ j \in inflight /\ j \notin pending' /\ UNCHANGED handed
         /\ \A t \in Tasks : ~Unclaimed(t, j)'
<1>1. [Next]_vars /\ DispatchInv'
  BY JobSteps, WorkStepInv, TypeStep, RunnerStep DEF DispatchInv
<1>2. PICK t \in Tasks : RunClaim(t) /\ call[t].job = j
  BY <1>1, BecomesRunning DEF DispatchInv
<1>3. call[t].op = "run" /\ work[t].at = "running" /\ work[t].job = j /\ Holds(t, j)
  BY <1>2 DEF RunClaim, At, DispatchInv, WorkInv, WorkOK, Holds
<1>4. j \in inflight /\ j \notin pending /\ \A u \in Tasks \ {t} : ~Holds(u, j)
  BY <1>3 DEF HoldersMatch
<1>5. call'[t].op = "run" /\ call'[t].at \notin {"load", "claim"} /\ UNCHANGED handed
  <2>1. Advance(t)
    BY <1>2, StepsAdvance DEF RunStep, DispatchInv
  <2>2. PICK at \in {"provider", "returned", "raised"} :
          call' = [call EXCEPT ![t].at = at, ![t].doc = None]
    BY <1>2 DEF RunClaim, Answer
  <2>3. call[t] # Idle
    BY <1>3 DEF Idle
  <2>4. call'[t].at = at
    BY <2>2, <2>3, MoveShape DEF DispatchInv
  <2> QED BY <1>3, <2>1, <2>4 DEF Advance
<1>6. ~Unclaimed(t, j)'
  BY <1>1, <1>5 DEF Unclaimed, DispatchInv, WorkInv, WorkOK, Idle
<1>7. ASSUME NEW u \in Tasks \ {t} PROVE ~Unclaimed(u, j)'
  <2>1. ~Unclaimed(u, j)
    BY <1>4 DEF Unclaimed, Holds, DispatchInv, WorkInv, WorkOK
  <2> QED BY <1>4, <2>1, UnclaimedMoves
<1>8. j \notin pending'
  <2>1. UNCHANGED <<pending, inflight>> \/ \E u \in Tasks : Enqueue(u) \/ Dequeue(u)
           \/ MarkCompleted(u) \/ MarkFailed(u) \/ QueueFault(u) \/ DispatchCrash
    BY QueueMoves
  <2>2. call' # call
    BY <1>2, <1>5 DEF RunClaim, At
  <2>3. job' # job
    BY DEF InStatus, Present
  <2> QED BY <1>4, <2>1, <2>2, <2>3
          DEF Enqueue, Dequeue, MarkCompleted, MarkFailed, WorkStep, QueueFault, DispatchCrash,
              Crash
<1> QED BY <1>4, <1>5, <1>6, <1>7, <1>8

\* No job is running while it is still to be run.
LEMMA UnstartedStep ==
  ASSUME RedisBackend = FALSE, DispatchInv, HoldersMatch, Placed, Unstarted,
         [DispatchNext]_dispatchVars
  PROVE  Unstarted'
<1>1. [Next]_vars /\ DispatchInv'
  BY JobSteps, WorkStepInv, TypeStep, RunnerStep DEF DispatchInv
<1>2. ASSUME NEW j \in Jobs, InStatus(j, {"running"})'
      PROVE  j \notin pending' /\ \A t \in Tasks : ~Awaits(t, j)' /\ ~Unclaimed(t, j)'
  <2>1. CASE InStatus(j, {"running"})
    <3>1. j \notin pending /\ \A t \in Tasks : ~Awaits(t, j) /\ ~Unclaimed(t, j)
      BY <2>1 DEF Unstarted
    <3>2. j \in 1..issued
      BY <2>1 DEF InStatus, DispatchInv, RunnerInv, Given
    <3>3. ~(DispatchRecoverJob(j) /\ j \in handed' \ handed)
      <4>1. ASSUME RecoverQueued(j) PROVE FALSE
        BY <2>1, <4>1 DEF RecoverQueued, Newest, Unstarted
      <4>2. ASSUME RecoverRunning(j) PROVE FALSE
        <5>1. boot.todo[j] \in Docs /\ boot.time \in Times
              /\ UpdateIfStatus(j, Requeued(boot.todo[j]), {"running"})
          BY <4>2 DEF RecoverRunning, Newest, DispatchInv, TypeInv, TypeOK
        <5>2. Requeued(boot.todo[j]) \in Docs /\ Requeued(boot.todo[j]).status = "queued"
          BY <5>1, DocTypes DEF DispatchInv, TypeInv, TypeOK
        <5>3. job'[j].status = "queued"
          BY <2>1, <5>1, <5>2, UpdateShape DEF DispatchInv, TypeInv
        <5> QED BY <1>2, <5>3 DEF InStatus
      <4> QED BY <4>1, <4>2 DEF DispatchRecoverJob, RecoverJob, RecoverStale
    <3> QED BY <3>1, <3>2, <3>3, KeyMoves, AwaitMoves, UnclaimedMoves
  <2>2. CASE ~InStatus(j, {"running"})
    <3>1. j \in inflight /\ j \notin pending' /\ UNCHANGED handed
          /\ \A t \in Tasks : ~Unclaimed(t, j)'
      BY <1>2, <2>2, ClaimedOnce
    <3>2. j \in 1..issued /\ \A t \in Tasks : ~Awaits(t, j)
      BY <3>1 DEF Placed, DispatchInv, WorkInv
    <3> QED BY <3>1, <3>2, AwaitMoves
  <2> QED BY <2>1, <2>2
<1>3. ASSUME NEW j \in Listed', InStatus(j, {"running"})'
      PROVE  boot'.todo[j].status = "running"
  <2>1. j \in Jobs
    BY <1>1 DEF DispatchInv, TypeInv, TypeOK
  <2>2. CASE j \in Listed /\ boot'.todo[j] = boot.todo[j]
    <3>1. j \notin inflight
      BY <2>2 DEF Placed
    <3>2. InStatus(j, {"running"})
      BY <1>3, <2>1, <3>1, ClaimedOnce
    <3> QED BY <2>2, <3>2 DEF Unstarted
  <2>3. CASE job' = job /\ boot'.todo[j] = job[j]
    BY <1>3, <2>3 DEF InStatus
  <2> QED BY <1>1, <2>2, <2>3, ListKept DEF DispatchInv
<1> QED BY <1>2, <1>3 DEF Unstarted

\* The answer of a run that ends without an exception, or is not yet at an end.
LEMMA RunAnswers ==
  ASSUME DispatchInv, Unstarted, NEW t \in Tasks, NEW j, call[t].job = j, RunStep(t),
         call'[t].at \in Outcomes \ {"raised"}
  PROVE  ~InStatus(j, Active)'
<1>1. call[t].op = "run" /\ call[t] # Idle /\ work[t].job = j
  BY DEF RunStep, RunLoad, RunClaim, ProviderSucceeds, ProviderFails, RunSettle, StoreResult,
         StoreFailure, At, Idle,
         DispatchInv, WorkInv, WorkOK
<1>2. CASE RunLoad(t)
  <2>1. /\ Load(t, {"queued"}, "claim", "returned", "raised", Running(job[j]))
        /\ call[t].at = "load" /\ j \in Jobs
    BY <1>2 DEF RunLoad, At, DispatchInv, TypeInv, CallOK
  <2>2. job' = job /\ ~InStatus(j, {"queued"})
    BY <1>1, <2>1, LoadMove DEF DispatchInv, Outcomes
  <2>3. ~InStatus(j, {"running"})
    BY <1>1, <2>1 DEF Unstarted, Unclaimed
  <2> QED BY <2>2, <2>3 DEF InStatus, Present, Active
<1>3. CASE RunClaim(t)
  <2>1. /\ call' = [call EXCEPT ![t].at = Answer(j, {"queued"}, "provider", "returned", "raised"),
                                ![t].doc = None]
        /\ UpdateIfStatus(j, call[t].doc, {"queued"})
        /\ call[t].at = "claim" /\ j \in Jobs /\ call[t].doc \in Docs
    BY <1>3 DEF RunClaim, At, Writes, DispatchInv, TypeInv, CallOK
  <2>2. Answer(j, {"queued"}, "provider", "returned", "raised") \in Outcomes
    BY <1>1, <2>1, MoveShape DEF DispatchInv
  <2>3. ~InStatus(j, {"queued"})
    BY <2>2 DEF Answer, InStatus, Outcomes
  <2>4. job'[j] = job[j]
    BY <2>1, <2>3, UpdateShape DEF DispatchInv, TypeInv
  <2>5. ~InStatus(j, {"running"})
    BY <1>1, <2>1 DEF Unstarted, Unclaimed
  <2> QED BY <2>3, <2>4, <2>5 DEF InStatus, Present, Active
<1>4. CASE ProviderSucceeds(t) \/ ProviderFails(t) \/ RunSettle(t)
  <2>1. InFlight(t)
    BY <1>4 DEF ProviderSucceeds, ProviderFails, RunSettle, StoreResult, StoreFailure, At,
                InFlight
  <2>2. call'[t].at = "returned"
    <3>1. CASE RunSettle(t)
      <4>1. PICK at \in {"returned", "raised"} :
              call' = [call EXCEPT ![t].at = at, ![t].doc = None]
        BY <3>1 DEF RunSettle, StoreResult, StoreFailure, Store, Answer
      <4> QED BY <1>1, <4>1, MoveShape DEF DispatchInv
    <3>2. CASE ProviderSucceeds(t) \/ ProviderFails(t)
      BY <1>1, <3>2, LoadMove DEF ProviderSucceeds, ProviderFails, DispatchInv, Outcomes
    <3> QED BY <1>4, <3>1, <3>2
  <2>3. job'[j] # None /\ job'[j].status \in Terminal
    BY <2>1, <2>2, RunReturns DEF DispatchInv
  <2> QED BY <2>3 DEF InStatus, Active, Terminal
<1> QED BY <1>2, <1>3, <1>4 DEF RunStep

\* What is known of an ended run stays true until its key is given back.
LEMMA SettledStep ==
  ASSUME DispatchInv, Unstarted, Settled, [DispatchNext]_dispatchVars
  PROVE  Settled'
<1>1. [Next]_vars /\ DispatchInv'
  BY JobSteps, WorkStepInv, TypeStep, RunnerStep DEF DispatchInv
<1>2. ASSUME NEW t \in Tasks, NEW j, work'[t].job = j, call'[t].op = "run",
             call'[t].at \in Outcomes \ {"raised"}
      PROVE  ~InStatus(j, Active)'
  <2>1. call'[t].job = j
    BY <1>1, <1>2 DEF DispatchInv, WorkInv, WorkOK
  <2>2. CASE call'[t] = call[t]
    <3>1. work[t].job = j /\ j \in 1..issued /\ ~InStatus(j, Active)
      BY <1>2, <2>1, <2>2 DEF DispatchInv, WorkInv, WorkOK, Settled
    <3> QED BY <1>1, <3>1, NeverActiveAgain DEF DispatchInv
  <2>3. CASE call'[t] # call[t]
    <3>1. Own(t)
      BY <1>1, <1>2, <2>3, OwnMoves DEF DispatchInv, Crash, Idle
    <3>2. CASE RunStep(t)
      <4>1. call[t].job = j
        BY <2>1, <3>2, StepsAdvance DEF Advance, DispatchInv
      <4> QED BY <1>2, <3>2, <4>1, RunAnswers
    <3>3. CASE StoreFault(t)
      <4>1. call' = [call EXCEPT ![t].at = "raised", ![t].doc = None] /\ call[t] # Idle
        BY <3>3 DEF StoreFault, Idle, StoreCalls
      <4>2. call'[t].at = "raised"
        BY <4>1, MoveShape DEF DispatchInv
      <4> QED BY <1>2, <4>2
    <3>4. CASE RetryLoad(t) \/ CancelLoad(t) \/ CancelStore(t) \/ Cleanup(t)
      <4>1. call'[t].op = call[t].op /\ call[t].op # "run"
        BY <3>4, StepsAdvance DEF Advance, RetryLoad, CancelLoad, CancelStore, Cleanup, Forget,
                                  At,
                                  DispatchInv
      <4> QED BY <1>2, <4>1
    <3>5. CASE Submit(t) \/ RetryCreate(t)
      <4>1. call'[t].at = "accepted" /\ call'[t].op # "run"
        BY <1>1, <3>5 DEF Submit, RetryCreate, CreateJob, DispatchInv, TypeInv, TypeOK,
                          RunnerInv, Given
      <4> QED BY <1>2, <4>1
    <3>6. CASE Request(t) \/ Deliver(t) \/ Return(t)
      <4>1. call'[t].at \in {"create", "load", "delete", "idle"}
        BY <3>6 DEF Request, Deliver, Arrive, Return, Idle, DispatchInv, TypeInv, TypeOK
      <4> QED BY <1>2, <4>1 DEF Outcomes
    <3>7. CASE Elsewhere(t)
      BY <2>3, <3>7 DEF Elsewhere
    <3> QED BY <3>1, <3>2, <3>3, <3>4, <3>5, <3>6, <3>7 DEF Own, RequestStep
  <2> QED BY <2>2, <2>3
<1>3. ASSUME NEW t \in Tasks, NEW j, work'[t].job = j, work'[t].at = "complete"
      PROVE  ~InStatus(j, Active)'
  <2>1. CASE work'[t] = work[t]
    <3>1. j \in 1..issued /\ ~InStatus(j, Active)
      BY <1>3, <2>1 DEF DispatchInv, WorkInv, WorkOK, Settled
    <3> QED BY <1>1, <3>1, NeverActiveAgain DEF DispatchInv
  <2>2. CASE RunEnds(t)
    <3>1. work' = [work EXCEPT ![t] = [work[t] EXCEPT
                     !.at = IF call[t].at = "raised" THEN "fail" ELSE "complete"]]
          /\ call[t].at \in Outcomes /\ work[t].at = "running" /\ job' = job
      BY <2>2 DEF RunEnds, Return
    <3>2. work'[t] = [work[t] EXCEPT
                        !.at = IF call[t].at = "raised" THEN "fail" ELSE "complete"]
          /\ work[t] \in WorkRecords
      BY <3>1, WorkShape DEF DispatchInv, WorkInv
    <3>3. work[t].job = j /\ call[t].at # "raised"
      BY <1>3, <3>2 DEF WorkRecords
    <3>4. ~InStatus(j, Active)
      BY <3>1, <3>3 DEF DispatchInv, WorkInv, WorkOK, Settled
    <3> QED BY <3>1, <3>4 DEF InStatus, Present
  <2>3. CASE work'[t] # work[t] /\ ~RunEnds(t)
    <3>1. CASE Enqueue(t) \/ Dequeue(t) \/ MarkCompleted(t) \/ MarkFailed(t)
      BY <1>3, <3>1, WorkerCall
    <3>2. CASE QueueFault(t)
      BY <1>3, <3>2, WorkerFault
    <3>3. CASE DispatchCrash
      BY <1>3, <3>3 DEF DispatchCrash, NoWork
    <3>4. CASE RunJob(t)
      <4>1. work'[t] = [work[t] EXCEPT !.at = "running"] /\ work[t] \in WorkRecords
        BY <3>4, WorkShape DEF RunJob, DispatchInv, WorkInv
      <4> QED BY <1>3, <4>1 DEF WorkRecords
    <3>5. CASE Respond(t)
      <4>1. PICK w \in {NoWork, Doing("enqueue", call[t].job)} : work' = [work EXCEPT ![t] = w]
        BY <3>5 DEF Respond
      <4>2. work'[t] = w
        BY <4>1, WorkShape DEF DispatchInv
      <4> QED BY <1>3, <4>1, <4>2 DEF NoWork, Doing
    <3>6. ASSUME NEW k \in Jobs, work'[t] = Doing("enqueue", k) PROVE FALSE
      BY <1>3, <3>6 DEF Doing
    <3> QED BY <2>3, <3>1, <3>2, <3>3, <3>4, <3>5, <3>6, WorkerMoves DEF WorkerStep
  <2> QED BY <2>1, <2>2, <2>3
<1> QED BY <1>2, <1>3 DEF Settled

\* ReleasedWhenSettled: with the in-memory queue mark_completed releases a key only when
\* the outcome of its job is in the store; no worker completes a job that it found running
\* and that another one is still to end.
THEOREM ReleasedWhenSettledAlways ==
  ASSUME RedisBackend = FALSE
  PROVE  DispatchSpec => ReleasedWhenSettled
<1>1. DispatchInit => ReleaseInv
  BY DEF DispatchInit, Init, ReleaseInv, Placed, Unstarted, Settled, Awaits, Unclaimed, NoWork,
         Idle, Starting, NoScan, Listed, InStatus, Present
<1>2. DispatchInv /\ HoldersMatch /\ ReleaseInv /\ [DispatchNext]_dispatchVars => ReleaseInv'
  BY PlacedStep, UnstartedStep, SettledStep DEF ReleaseInv
<1>3. ReleaseInv => \A t \in Tasks : work[t].at = "complete" => ~InStatus(work[t].job, Active)
  BY DEF ReleaseInv, Settled
<1>4. ReleaseInv /\ [DispatchNext]_dispatchVars =>
        [\A t \in Tasks : work[t].at = "complete" /\ work'[t].at # "complete"
           /\ work[t].job \in inflight \ inflight' => ~InStatus(work[t].job, Active)]_dispatchVars
  BY <1>3
<1> QED BY <1>1, <1>2, <1>4, HoldersMatchAlways, DispatchInvariance, PTL
        DEF DispatchSpec, ReleasedWhenSettled
====
