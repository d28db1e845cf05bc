---- MODULE ForecastJobs ----
(***************************************************************************)
(* The forecast job service over its job store: submit, retry, cancel, run *)
(* and cleanup, startup recovery, process death and restart.               *)
(*                                                                         *)
(* A task (the coroutine of one request or of one worker) is a record of   *)
(* its operation and the point it stands at; every point is the next store *)
(* call the coroutine makes, or the provider call.  One action runs a task *)
(* from the point where it stands to the next one, so that everything      *)
(* between two awaits is atomic, as on an asyncio event loop.              *)
(*                                                                         *)
(* StoreSuspends = FALSE is the shipped memory and file store: their       *)
(* coroutines never reach a real suspension (the lock is never contended   *)
(* and the file I/O is synchronous), so the task keeps the event loop      *)
(* across store calls and loses it only at the provider call and at its    *)
(* end.  StoreSuspends = TRUE is all the ForecastJobStore port allows: any *)
(* other task may run between two store calls.                             *)
(***************************************************************************)
EXTENDS Integers, Sequences, FiniteSets

CONSTANTS
  Tasks,           \* coroutines the process can have at once
  Startup,         \* the coroutine of the lifespan hook that runs recovery
  None,            \* Python's None: no document, no time, nobody on the loop
  StoreSuspends,   \* may a store call give the event loop away?
  StaleTimeout,    \* EARTH2_FORECAST_JOB_STALE_TIMEOUT_SECONDS, in ticks
  Retentions,      \* retention windows a cleanup request may name, in ticks
  MaxJobs,         \* bound: job ids given out
  MaxTime,         \* bound: clock ticks
  MaxCrashes,      \* bound: process deaths
  MaxFaults        \* bound: store calls that raise OSError

ASSUME TaskAssumption == Startup \notin Tasks /\ None \notin Tasks \union {Startup}
ASSUME BoundAssumption == /\ MaxJobs \in Nat /\ MaxTime \in Nat
                          /\ MaxCrashes \in Nat /\ MaxFaults \in Nat
ASSUME TimingAssumption == StaleTimeout \in Nat /\ Retentions \subseteq Nat
ASSUME StoreAssumption == StoreSuspends \in BOOLEAN

Jobs  == 1..MaxJobs   \* ids in the order they are given out: a larger id is newer
Times == 0..MaxTime

VARIABLES
  job,      \* the store: the document of every id, None when there is none
  issued,   \* how many ids were given out
  call,     \* the operation every task is in
  loop,     \* the coroutine that holds the event loop, None when it is free
  boot,     \* startup: the recovery scan and its list of documents
  handed,   \* jobs given to the worker in this process
  now,      \* the clock
  crashes, faults

vars == <<job, issued, call, loop, boot, handed, now, crashes, faults>>

----------------------------------------------------------------------------
(* Documents *)

Active   == {"queued", "running"}
Terminal == {"succeeded", "failed", "cancelled"}
Statuses == Active \union Terminal

Docs == [status: Statuses, started: BOOLEAN, completed: Times \union {None},
         updated: Times, forecast: BOOLEAN, error: BOOLEAN,
         events: Seq(Statuses), parent: Jobs \union {None}, attempt: Nat \ {0}]

ASSUME NoneAssumption == None \notin Docs /\ None \notin Nat

\* Slip: attempts counted from zero.
NewDocFromZero(parent, attempt) ==
  [status |-> "queued", started |-> FALSE, completed |-> None, updated |-> now,
   forecast |-> FALSE, error |-> FALSE, events |-> <<"queued">>,
   parent |-> parent, attempt |-> attempt - 1]
NewDoc(parent, attempt) ==
  [status |-> "queued", started |-> FALSE, completed |-> None, updated |-> now,
   forecast |-> FALSE, error |-> FALSE, events |-> <<"queued">>,
   parent |-> parent, attempt |-> attempt]

\* append_job_event on the copy that carries the new status
Enter(doc, s) == [doc EXCEPT !.status = s, !.events = Append(@, s)]

Running(doc)      == [Enter(doc, "running") EXCEPT !.started = TRUE, !.error = FALSE]
Succeeded(doc)    == [Enter(doc, "succeeded") EXCEPT !.completed = now,
                                                     !.forecast = TRUE, !.error = FALSE]
Failed(doc, time) == [Enter(doc, "failed") EXCEPT !.completed = time, !.error = TRUE]
Cancelled(doc)    == [Enter(doc, "cancelled") EXCEPT !.completed = now, !.error = FALSE]
\* Slips: started_at kept, or no event recorded, when a job is queued again.
RequeuedKeepingStart(doc) == [Enter(doc, "queued") EXCEPT !.error = FALSE]
RequeuedSilently(doc) == [doc EXCEPT !.status = "queued", !.started = FALSE, !.error = FALSE]
Requeued(doc)     == [Enter(doc, "queued") EXCEPT !.started = FALSE, !.error = FALSE]

\* should_mark_job_stale and should_cleanup_job
Stale(doc, time) == doc.updated <= time - StaleTimeout
Expired(doc, retention, statuses) ==
  /\ doc.status \in statuses
  /\ (IF doc.completed # None THEN doc.completed ELSE doc.updated) < now - retention

\* What GET /jobs/{id}/poll answers
Poll(doc) == [terminal       |-> doc.status \in Terminal,
              forecast_ready |-> doc.forecast,
              retry_after    |-> IF doc.status \in Terminal THEN None ELSE 2,
              latest_event   |-> doc.events[Len(doc.events)]]

----------------------------------------------------------------------------
(* Store calls *)

Present == {j \in Jobs : job[j] # None}
InStatus(j, statuses) == j \in Present /\ job[j].status \in statuses

\* update_if_status: the whole document is replaced, under a guard that reads
\* nothing but the stored status.
\* Slip: a plain update, without the guard.
UpdateIfPresent(j, doc, expected) ==
  job' = IF j \in Present THEN [job EXCEPT ![j] = [doc EXCEPT !.updated = now]] ELSE job
UpdateIfStatus(j, doc, expected) ==
  job' = IF InStatus(j, expected) THEN [job EXCEPT ![j] = [doc EXCEPT !.updated = now]]
                                  ELSE job

\* ForecastJobNotFoundError, ForecastJobTransitionError, or the call returns
Answer(j, expected, returns, transitionError, notFound) ==
  IF j \notin Present THEN notFound
  ELSE IF job[j].status \in expected THEN returns ELSE transitionError

----------------------------------------------------------------------------
(* Tasks *)

Idle == [op |-> "none", at |-> "idle", job |-> None, doc |-> None]

Ops        == {"submit", "retry", "cancel", "cleanup", "run"}
StoreCalls == {"load", "create", "claim", "store_result", "store_failure",
               "cancel", "delete"}
Outcomes   == {"accepted", "ok", "conflict", "not_found", "returned", "raised"}
Points     == StoreCalls \union {"provider"} \union Outcomes

Calls == [op: Ops, at: Points, job: Jobs \union {None}, doc: Docs \union {None}]
         \union {Idle}

\* Only the coroutine that holds the event loop, or any when it is free, runs.
Turn(c) == loop \in {None, c}

\* After a store call the coroutine keeps the loop unless the store suspends.
Keep(c) == loop' = IF StoreSuspends THEN None ELSE c

\* store.get, then everything up to the next await: the document the task will
\* write is built here, from what the store held now.
Load(t, expected, next, refused, missing, doc) ==
  LET j == call[t].job IN
  /\ Turn(t)
  /\ call' = [call EXCEPT ![t].at = Answer(j, expected, next, refused, missing),
                          ![t].doc = IF InStatus(j, expected) THEN doc ELSE None]
  /\ Keep(t)
  /\ UNCHANGED <<job, issued, boot, handed, now, crashes, faults>>

\* store.update_if_status with the document built earlier.
Store(t, expected, next, refused, missing) ==
  LET j == call[t].job IN
  /\ Turn(t)
  /\ UpdateIfStatus(j, call[t].doc, expected)
  /\ call' = [call EXCEPT ![t].at = Answer(j, expected, next, refused, missing),
                          ![t].doc = None]
  /\ Keep(t)
  /\ UNCHANGED <<issued, boot, handed, now, crashes, faults>>

At(t, op, point) == call[t].op = op /\ call[t].at = point

----------------------------------------------------------------------------
(* Requests.  The server answers them once recovery has ended. *)

Arrive(t, op, point, j) ==
  /\ call[t] = Idle /\ Turn(t)
  /\ call' = [call EXCEPT ![t] = [op |-> op, at |-> point, job |-> j, doc |-> None]]
  /\ Keep(t)
  /\ UNCHANGED <<job, issued, boot, handed, now, crashes, faults>>

\* Ids still to give out, less those the requests in progress will take.
Room == issued + Cardinality({t \in Tasks : /\ call[t].op \in {"submit", "retry"}
                                            /\ call[t].at \in {"load", "create"}}) < MaxJobs

Request(t) ==
  /\ boot.at = "up"
  /\ \/ Room /\ Arrive(t, "submit", "create", None)
     \/ Room /\ \E j \in 1..issued : Arrive(t, "retry", "load", j)
     \/ \E j \in 1..issued : Arrive(t, "cancel", "load", j)
     \/ Arrive(t, "cleanup", "delete", None)

\* build_new_job and store.create; the id generator gives an id never used before.
CreateJob(t, doc) ==
  LET j == issued + 1 IN
  /\ issued < MaxJobs
  /\ Turn(t)
  /\ job' = [job EXCEPT ![j] = doc]
  /\ issued' = j
  /\ call' = [call EXCEPT ![t] = [op |-> @.op, at |-> "accepted", job |-> j, doc |-> None]]
  /\ Keep(t)
  /\ UNCHANGED <<boot, handed, now, crashes, faults>>

Submit(t) == At(t, "submit", "create") /\ CreateJob(t, NewDoc(None, 1))

RetryLoad(t) == /\ At(t, "retry", "load")
                /\ Load(t, Terminal, "create", "conflict", "not_found", job[call[t].job])
\* Slip: the attempt number of the parent.
RetryCreateSameAttempt(t) == /\ At(t, "retry", "create")
                             /\ CreateJob(t, NewDoc(call[t].job, call[t].doc.attempt))
RetryCreate(t) == /\ At(t, "retry", "create")
                  /\ CreateJob(t, NewDoc(call[t].job, call[t].doc.attempt + 1))

CancelLoad(t) == /\ At(t, "cancel", "load")
                 /\ Load(t, Active, "cancel", "conflict", "not_found",
                         Cancelled(job[call[t].job]))
CancelStore(t) == /\ At(t, "cancel", "cancel")
                  /\ Store(t, Active, "ok", "conflict", "not_found")

\* delete_older_than goes through the documents one by one.  An OSError on the way
\* keeps those it has not removed yet; a death of the process on the way is that
\* and then Crash.
Forget(t, gone, answer) ==
  /\ job' = [j \in Jobs |-> IF j \in gone THEN None ELSE job[j]]
  /\ call' = [call EXCEPT ![t].at = answer]
  /\ Keep(t)
  /\ UNCHANGED <<issued, boot, handed, now, crashes>>

Cleanup(t) ==
  /\ At(t, "cleanup", "delete") /\ Turn(t)
  /\ \E retention \in Retentions, statuses \in SUBSET Terminal \ {{}} :
       LET expired == {j \in Present : Expired(job[j], retention, statuses)} IN
       \/ Forget(t, expired, "ok") /\ UNCHANGED faults
       \/ /\ faults < MaxFaults /\ faults' = faults + 1
          /\ \E gone \in SUBSET expired : Forget(t, gone, "raised")

----------------------------------------------------------------------------
(* A run.  Once something was handed to a worker it may run any job given out so *)
(* far, and more than once: a queue that outlives the process delivers ids this  *)
(* process never handed to it.                                                   *)

Deliver(t) == handed # {} /\ \E j \in 1..issued : Arrive(t, "run", "load", j)

RunLoad(t) == /\ At(t, "run", "load")
              /\ Load(t, {"queued"}, "claim", "returned", "raised",
                      Running(job[call[t].job]))

\* queued -> running, then the provider request, which gives the loop away.
\* Slip: a job that is already running is claimed again.
RunClaimActive(t) ==
  LET j == call[t].job IN
  /\ At(t, "run", "claim") /\ Turn(t)
  /\ UpdateIfStatus(j, call[t].doc, Active)
  /\ call' = [call EXCEPT ![t].at = Answer(j, Active, "provider", "returned", "raised"),
                          ![t].doc = None]
  /\ loop' = IF StoreSuspends \/ InStatus(j, Active) THEN None ELSE t
  /\ UNCHANGED <<issued, boot, handed, now, crashes, faults>>
RunClaim(t) ==
  LET j == call[t].job IN
  /\ At(t, "run", "claim") /\ Turn(t)
  /\ UpdateIfStatus(j, call[t].doc, {"queued"})
  /\ call' = [call EXCEPT ![t].at = Answer(j, {"queued"}, "provider", "returned", "raised"),
                          ![t].doc = None]
  /\ loop' = IF StoreSuspends \/ InStatus(j, {"queued"}) THEN None ELSE t
  /\ UNCHANGED <<issued, boot, handed, now, crashes, faults>>

ProviderSucceeds(t) == /\ At(t, "run", "provider")
                       /\ Load(t, {"running"}, "store_result", "returned", "raised",
                               Succeeded(job[call[t].job]))
ProviderFails(t) == /\ At(t, "run", "provider")
                    /\ Load(t, {"running"}, "store_failure", "returned", "raised",
                            Failed(job[call[t].job], now))

\* Slips: the result is written whatever happened to the job meanwhile, or
\* expected to find it queued.
StoreResultAnyStatus(t) == /\ At(t, "run", "store_result")
                           /\ Store(t, Statuses, "returned", "returned", "raised")
StoreResultQueued(t) == /\ At(t, "run", "store_result")
                        /\ Store(t, {"queued"}, "returned", "returned", "raised")
StoreResult(t)  == /\ At(t, "run", "store_result")
                   /\ Store(t, {"running"}, "returned", "returned", "raised")
StoreFailure(t) == /\ At(t, "run", "store_failure")
                   /\ Store(t, {"running"}, "returned", "returned", "raised")

RunSettle(t) == StoreResult(t) \/ StoreFailure(t)

----------------------------------------------------------------------------
(* Ends of an operation *)

\* An OSError of a read or a write of one document leaves it as it was (the
\* temporary file is renamed last) and no command catches it; at "provider" it is
\* the read that follows the provider's answer.
StoreFault(t) ==
  /\ faults < MaxFaults
  /\ call[t].at \in (StoreCalls \ {"delete"}) \union {"provider"}
  /\ Turn(t)
  /\ call' = [call EXCEPT ![t].at = "raised", ![t].doc = None]
  /\ faults' = faults + 1
  /\ Keep(t)
  /\ UNCHANGED <<job, issued, boot, handed, now, crashes>>

\* The operation returns to its caller.  A request handler sends its response, and
\* with it an accepted job goes to the worker; the worker that called run_job goes on.
Return(t) ==
  /\ call[t].at \in Outcomes /\ Turn(t)
  /\ handed' = IF call[t].at = "accepted" THEN handed \union {call[t].job} ELSE handed
  /\ call' = [call EXCEPT ![t] = Idle]
  /\ loop' = IF call[t].op = "run" THEN loop ELSE None
  /\ UNCHANGED <<job, issued, boot, now, crashes, faults>>

\* A coroutine outside these operations (a worker between two runs) takes the event
\* loop or gives it back.
Elsewhere(t) ==
  /\ call[t] = Idle /\ Turn(t)
  /\ loop' \in {None, t}
  /\ UNCHANGED <<job, issued, call, boot, handed, now, crashes, faults>>

----------------------------------------------------------------------------
(* Startup recovery *)

NoScan == [k \in {} |-> None]
Starting == [at |-> "list", todo |-> NoScan, time |-> 0]

Listed == DOMAIN boot.todo
Newest(j) == j \in Listed /\ \A k \in Listed : k <= j
Without(j) == [boot EXCEPT !.todo = [k \in Listed \ {j} |-> boot.todo[k]]]

\* Slip: only the queued jobs are listed.
RecoverListQueued ==
  /\ boot.at = "list" /\ Turn(Startup)
  /\ boot' = [at |-> "scan", time |-> now,
              todo |-> [j \in {k \in Jobs : InStatus(k, {"queued"})} |-> job[j]]]
  /\ Keep(Startup)
  /\ UNCHANGED <<job, issued, call, handed, now, crashes, faults>>
RecoverList ==
  /\ boot.at = "list" /\ Turn(Startup)
  /\ boot' = [at |-> "scan", time |-> now,
              todo |-> [j \in {k \in Jobs : InStatus(k, Active)} |-> job[j]]]
  /\ Keep(Startup)
  /\ UNCHANGED <<job, issued, call, handed, now, crashes, faults>>

\* One active job that has not moved for the stale timeout is failed ...
RecoverStale(j) ==
  /\ boot.at = "scan" /\ Turn(Startup) /\ Newest(j)
  /\ Stale(boot.todo[j], boot.time)
  /\ UpdateIfStatus(j, Failed(boot.todo[j], boot.time), Active)
  /\ boot' = Without(j)
  /\ Keep(Startup)
  /\ UNCHANGED <<issued, call, handed, now, crashes, faults>>

\* ... an interrupted one is queued again and handed to the worker ...
\* (Slip: queued again, but not handed over.)
RecoverRunningUnscheduled(j) ==
  /\ boot.at = "scan" /\ Turn(Startup) /\ Newest(j)
  /\ ~Stale(boot.todo[j], boot.time)
  /\ boot.todo[j].status = "running"
  /\ UpdateIfStatus(j, Requeued(boot.todo[j]), {"running"})
  /\ boot' = Without(j)
  /\ Keep(Startup)
  /\ UNCHANGED <<issued, call, handed, now, crashes, faults>>
RecoverRunning(j) ==
  /\ boot.at = "scan" /\ Turn(Startup) /\ Newest(j)
  /\ ~Stale(boot.todo[j], boot.time)
  /\ boot.todo[j].status = "running"
  /\ UpdateIfStatus(j, Requeued(boot.todo[j]), {"running"})
  /\ handed' = IF InStatus(j, {"running"}) THEN handed \union {j} ELSE handed
  /\ boot' = Without(j)
  /\ Keep(Startup)
  /\ UNCHANGED <<issued, call, now, crashes, faults>>

\* ... and a queued one is handed to the worker as it is.
\* (Slip: only interrupted jobs are handed over.)
RecoverQueuedUnscheduled(j) ==
  /\ boot.at = "scan" /\ Turn(Startup) /\ Newest(j)
  /\ ~Stale(boot.todo[j], boot.time)
  /\ boot.todo[j].status = "queued"
  /\ boot' = Without(j)
  /\ loop' = Startup
  /\ UNCHANGED <<job, issued, call, handed, now, crashes, faults>>
RecoverQueued(j) ==
  /\ boot.at = "scan" /\ Turn(Startup) /\ Newest(j)
  /\ ~Stale(boot.todo[j], boot.time)
  /\ boot.todo[j].status = "queued"
  /\ handed' = handed \union {j}
  /\ boot' = Without(j)
  /\ loop' = Startup
  /\ UNCHANGED <<job, issued, call, now, crashes, faults>>

\* The lifespan hook yields and the server begins to answer requests.
RecoverDone ==
  /\ boot.at = "scan" /\ Turn(Startup) /\ Listed = {}
  /\ boot' = [Starting EXCEPT !.at = "up"]
  /\ loop' = None
  /\ UNCHANGED <<job, issued, call, handed, now, crashes, faults>>

\* The process dies, in startup or later, and is started again on the same
\* directory of documents.
Crash ==
  /\ crashes < MaxCrashes
  /\ crashes' = crashes + 1
  /\ call' = [t \in Tasks |-> Idle]
  /\ loop' = None
  /\ boot' = Starting
  /\ handed' = {}
  /\ UNCHANGED <<job, issued, now, faults>>

Tick ==
  /\ now < MaxTime
  /\ now' = now + 1
  /\ UNCHANGED <<job, issued, call, loop, boot, handed, crashes, faults>>

----------------------------------------------------------------------------
Init ==
  /\ job = [j \in Jobs |-> None]
  /\ issued = 0
  /\ call = [t \in Tasks |-> Idle]
  /\ loop = None
  /\ boot = Starting
  /\ handed = {}
  /\ now = 0
  /\ crashes = 0 /\ faults = 0

RunStep(t) == \/ RunLoad(t) \/ RunClaim(t)
              \/ ProviderSucceeds(t) \/ ProviderFails(t) \/ RunSettle(t)

RequestStep(t) == \/ Submit(t) \/ RetryLoad(t) \/ RetryCreate(t)
                  \/ CancelLoad(t) \/ CancelStore(t) \/ Cleanup(t)

RecoverJob(j) == RecoverStale(j) \/ RecoverRunning(j) \/ RecoverQueued(j)

Next ==
  \/ \E t \in Tasks : \/ Request(t) \/ Deliver(t) \/ RequestStep(t) \/ RunStep(t)
                      \/ Return(t) \/ Elsewhere(t) \/ StoreFault(t)
  \/ RecoverList \/ (\E j \in Jobs : RecoverJob(j)) \/ RecoverDone
  \/ Crash \/ Tick

Spec == Init /\ [][Next]_vars

----------------------------------------------------------------------------
(* Properties *)

TypeOK ==
  /\ job \in [Jobs -> Docs \union {None}]
  /\ issued \in 0..MaxJobs
  /\ call \in [Tasks -> Calls]
  /\ loop \in Tasks \union {Startup, None}
  /\ boot.at \in {"list", "scan", "up"} /\ boot.time \in Times
  /\ Listed \subseteq Jobs /\ \A j \in Listed : boot.todo[j] \in Docs
  /\ handed \subseteq Jobs
  /\ now \in Times /\ crashes \in 0..MaxCrashes /\ faults \in 0..MaxFaults

\* The fields of a stored document agree with its status, and so does what a
\* client that polls is told: every writer replaces the whole document from a
\* snapshot it took earlier, so a field another task changed could be carried
\* over (RunForecastJob, CancelForecastJob, the recovery service).
DocumentsConsistent ==
  \A j \in Present :
    LET doc == job[j] IN
    /\ doc.forecast <=> doc.status = "succeeded"
    /\ doc.error <=> doc.status = "failed"
    /\ doc.completed # None <=> doc.status \in Terminal
    /\ doc.status \in {"running", "succeeded"} => doc.started
    /\ doc.status = "queued" => ~doc.started
    /\ Poll(doc).latest_event = doc.status
    /\ Poll(doc).forecast_ready => Poll(doc).terminal

\* The provider calls (and the writes of their results) in progress are of
\* different jobs, however often the worker delivers a job and whatever recovery
\* requeues: only one task gets past the claim of RunForecastJob.
InFlight(t) == call[t].op = "run"
               /\ call[t].at \in {"provider", "store_result", "store_failure"}
OneRunner ==
  \A t, u \in Tasks : InFlight(t) /\ InFlight(u) /\ t # u => call[t].job # call[u].job

\* A retry is the next attempt at a job that has ended, and it can end only once:
\* as long as the parent is kept it stays terminal (RetryForecastJob reads the
\* parent before the new job is created).
RetryOfTerminal ==
  \A j \in Present :
    LET p == job[j].parent IN
    IF p = None THEN job[j].attempt = 1
    ELSE /\ p < j /\ job[j].attempt > 1
         /\ p \in Present => /\ job[p].status \in Terminal
                             /\ job[j].attempt = job[p].attempt + 1

\* Once the server answers requests, every active job was given to the worker of
\* this process or is about to be (recovery and the 202 handlers).
NoActiveJobForgotten ==
  boot.at = "up" =>
    \A j \in Jobs : InStatus(j, Active) =>
      j \in handed \/ \E t \in Tasks : call[t].at = "accepted" /\ call[t].job = j

\* A document in a terminal status is never written again: a late provider result,
\* a second cancellation, a recovery scan leave it alone, only cleanup removes it.
TerminalIsFinal ==
  [][\A j \in Jobs : InStatus(j, Terminal) => job'[j] \in {job[j], None}]_vars

\* Every committed write adds exactly the transition it makes to the event
\* history: no writer loses the event of another (append_job_event works on the
\* snapshot of the writer).
HistoryGrows ==
  [][\A j \in Jobs : job[j] # None /\ job'[j] \notin {None, job[j]} =>
       job'[j].events = Append(job[j].events, job'[j].status)]_vars

\* A run that got its answer from the provider and returns normally leaves the job
\* ended, whoever ended it: no answer is dropped while clients go on polling.
RunLeavesTerminal ==
  [][\A t \in Tasks : InFlight(t) /\ call'[t].at = "returned" =>
       job'[call[t].job] # None /\ job'[call[t].job].status \in Terminal]_vars

\* A running job is in good hands: a task is at work on it, or the startup scan that
\* will queue it again or fail it has not reached it yet.
AtWork(j)   == \E t \in Tasks : InFlight(t) /\ call[t].job = j
Awaiting(j) == boot.at = "list" \/ (j \in Listed /\ boot.todo[j].status = "running")
Stranded(j) == InStatus(j, {"running"}) /\ ~AtWork(j) /\ ~Awaiting(j)

\* A job is left "running" with nobody at work on it only by a failing store call
\* of its own run (RunForecastJob catches the provider's errors, not the store's),
\* and only until the next start: nothing is stranded while startup has still to
\* list the jobs, and neither its scan nor a request ever strands one.
OnlyFaultsStrand ==
  [][\A j \in Jobs : Stranded(j)' /\ ~Stranded(j) =>
       \E t \in Tasks : /\ InFlight(t) /\ call[t].job = j /\ call'[t].at = "raised"
                        /\ faults' = faults + 1]_vars

\* The detailed service implements the promise of JobLifecycle.
StatusOf(j) == IF j \in Present THEN job[j].status
               ELSE IF j <= issued THEN "deleted" ELSE "unused"
Lifecycle == INSTANCE JobLifecycle WITH status <- [j \in Jobs |-> StatusOf(j)]
ImplementsLifecycle == Lifecycle!Spec
====
