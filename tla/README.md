# A verification project for earth2-sandbox

The backend of earth2-sandbox accepts weather-forecast jobs over HTTP, keeps each as a
document in a job store, dispatches them through a queue to workers inside the API
process, asks a forecast provider for the answer, and lets mobile clients poll until the
job has ended. The provider is a mock, or a client of NVIDIA's hosted FourCastNet with a
cache of results and a decoder of its archives. This directory models that machinery in
TLA+, checks it with TLC and proves with TLAPS that what the runs check holds for every size
of it, except for liveness (see the end of [Theorems](#theorems)).

## Inventory

Paths are under `src/src/earth2_sandbox/` unless they begin with `apps/` or `docs/`.

| Component | State | Operations | Interacts with |
|---|---|---|---|
| Job status machine, `domain/jobs/` | none (rules) | transition guard, staleness, cleanup rule | commands, stores, recovery |
| Commands, `application/commands/` | none between calls | submit, retry, cancel, cleanup, run | job store, provider |
| Startup recovery, `application/services/forecast_job_recovery_service.py`, `bootstrap/app_factory.py` | a list of documents while it scans | fail stale jobs, requeue interrupted ones, hand over | job store, worker |
| Job stores, `infrastructure/storage/*job_store*.py` | one document per job (a dict, or a JSON file) | create, get, update_if_status, list, delete_older_than | everything above |
| Job endpoints, `api/http/v1/routers/forecast_jobs.py` | none | one handler per command, a background task after a 202 | commands, worker |
| Workers, `infrastructure/queue/asyncio_worker.py` | the item being run | enqueue and drain | queue, RunForecastJob |
| In-memory queue, `infrastructure/queue/in_memory_priority_queue.py` | heap, queued and in-flight items, sequence | enqueue, dequeue, mark_completed, mark_failed | workers |
| Redis queue, `infrastructure/queue/redis_queue.py` | two hashes, a sorted set, a counter, leases | the same, each of several commands | workers of any process |
| Forecast query endpoints, `api/http/v1/routers/forecast_queries.py` | none | point forecast, hosted inference | provider |
| Hosted inference, `infrastructure/nvidia/nim_client.py` | request id, status and poll count of one call | post, poll, download | NVCF, provider |
| FourCastNet provider and artifact cache, `infrastructure/nvidia/fourcastnet_provider.py`, `storage/fourcastnet.py`, `infrastructure/storage/local_artifact_store.py` | two files per payload | look up, infer, save | hosted inference, decoder |
| Decoder, `infrastructure/nvidia/fourcastnet_decoder.py` | none | loading an archive, grid sampling, batch selection, summary | provider |
| Mock provider, `infrastructure/providers/mock_forecast_provider.py` | none | synthetic timeline, risk rules | RunForecastJob, query endpoints |
| Access control, `api/http/middleware/security.py` | a window per client and route | API key, fixed-window limiter | every request |
| Metrics and logging, `observability/` | counters | increment, render | commands, middleware |
| Mobile tracking, `apps/mobile/src/hooks/useForecast.ts` | active job, job on the panel, forecast, spinner, error | request, retry, poll, fetch, cancel | job endpoints |
| Mobile rules, `apps/mobile/src/utils/riskDecisions.ts` | none | risk decisions | screens |

What is hard in it, and what makes each part correct:

* **Commands and stores.** Every command reads a document, builds a whole new one and
  writes it under a guard that looks at nothing but the stored status. Several commands,
  several runs and recovery do so at once. Correct means: one run per job, terminal
  statuses are final, documents stay coherent, histories lose no event, active jobs
  are never deleted, a running job has somebody at work on it or a start that will take
  it up. (That a cancelled job stays cancelled is part of the second.)
* **Recovery.** It may be interrupted anywhere, on top of a state that another
  interrupted recovery left. Correct means: once the server answers requests, every
  active job has been given to a worker.
* **Workers and queues.** A worker that raises stops; a worker whose key is known to the
  queue does not drain at all. Correct means: no key waits without a worker, no job is held
  twice, a key is released after its outcome is stored, every job ends.
* **Redis.** An enqueue is two commands and a dequeue is two; clients of other processes
  come in between and clients die in between. Correct means: the three structures agree,
  and the queue still is a priority queue.
* **Hosted inference.** The service answers 200, 202, 302 or an error at any point, and
  may change the request id. Correct means: polls are limited, go to the id told last, and
  the diagnostics say what was done.
* **Artifact cache.** An artifact is two files, written in place one after the other.
  Correct means: whatever a crash or a full disk leaves, what is served was received for
  that payload.
* **Decoder.** Index arithmetic on a globe, guesses of units, members that are missing,
  damaged or of several batches. Correct means: the nearest grid point, one batch, in order,
  and a loss shows in the confidence.
* **Access control.** Fixed windows of float time and a Retry-After in whole seconds.
  Correct means: a bound on what gets through, nobody refused for what others did, and a
  Retry-After one can rely on.
* **Mobile tracking.** Several forecasts are followed at once, over one spinner, one panel
  and one active job. Correct means: no late answer replaces a newer forecast, and the
  spinner stops.

## Modules

| Module | Models | Kind |
|---|---|---|
| `JobLifecycle` | what clients may rely on: the edges a job's status moves along | abstract |
| `ForecastJobs` | commands, stores, recovery, crash and restart | detailed, implements `JobLifecycle` |
| `JobDispatch` | `ForecastJobs` with request handlers, queue and workers | composition, implements `ForecastJobs` |
| `ForecastQueue` | what the queue port promises | abstract |
| `MemoryQueue` | the in-memory adapter | detailed, implements `ForecastQueue` |
| `RedisQueue` | the Redis adapter and its clients | detailed, implements `ForecastQueue` |
| `HostedInference` | one POST, polls, a download | detailed |
| `FourCastNetProvider` | the provider over `HostedInference` and the artifact cache | composition |
| `AccessControl` | API keys and the rate limiter | detailed |
| `ForecastRules` | rounding, conditions and signals, shared by both providers | operators |
| `MockForecast` | the mock's forecast | operators |
| `FourCastNetDecoder` | from an archive to a forecast or a report | operators |
| `PointForecast` | questions to the providers and their answers, with the reference definitions | composition |
| `MobileTracking` | `useForecast` against the jobs of the backend | detailed |
| `ForecastJobsProofs` | theorems about `ForecastJobs`: it implements `JobLifecycle`; what runs, recovery, retries and cancellations guarantee; documents and their histories | proofs |
| `DispatchProofs` | `JobDispatch` implements `ForecastJobs`; keys, their holders and their release | proofs |
| `MemoryQueueProofs` | theorems about `MemoryQueue` | proofs |
| `RedisQueueProofs` | theorems about `RedisQueue` | proofs |
| `ProviderProofs` | theorems about `HostedInference` and `FourCastNetProvider` | proofs |
| `AccessProofs` | theorems about `AccessControl` | proofs |
| `MobileTrackingProofs` | theorems about `MobileTracking` | proofs |
| `PointForecastProofs` | theorems about `PointForecast`, and lemmas about the operators of `ForecastRules`, `MockForecast` and `FourCastNetDecoder` | proofs |
| `MC...` | instances for TLC | |

Definitions whose comment begins with "Slip" are wrong on purpose: each is a variant of
the definition that follows it with a bug somebody could write there. No specification
uses them; put in place of the definition they vary, they make a property fail, which
shows that the property depends on that piece of code.

### ForecastJobs

`job[j]` is the document of job j (`None` if there is none): its status, whether it was
started, its completion and update times, whether it carries a forecast or an error, the
statuses of its event history, its parent and attempt. Coordinates, messages,
diagnostics, links and metrics are left out. Ids are numbers in the order they were given
out, so that the newest-first order of `sort_jobs` is the order of ids.

A coroutine is an element of `Tasks`. `call[t]` holds its operation, the point where it
stands (the store call or provider call it will make next) and the document it has built
for the next write: the local variable of the code. An action takes a coroutine from one
point to the next, so that what the code does between two awaits is one step:
`RunLoad` is `store.get` and the building of the running document, `RunClaim` is
`update_if_status`, and so on. `loop` is the coroutine that holds the event loop.

* `StoreSuspends = FALSE` is the shipped stores. Their coroutines take an uncontended
  `asyncio.Lock` and do synchronous I/O, so no store call ever suspends: a command runs
  from its start to its end, or to the provider call, without interruption.
* `StoreSuspends = TRUE` is whatever the port allows, for instance the Postgres store
  `docs/DURABLE_ASYNC.md` plans: others may run between any two store calls. Its behaviours
  include those of the shipped stores, up to the value of `loop`.

The clock read that stamps a document is taken together with the store call next to it.
`boot` is the lifespan hook: `list`, then `scan` over a list of documents read once, then
`up`. `handed` is the jobs given to a worker in this process. The model of the worker here
is only that it may run any job id, any number of times; `JobDispatch` replaces this.

`Crash` loses everything but the store and starts the hook again, which is the file store;
with the memory store a restart is the initial state. A store call that raises `OSError`
leaves the document as it was, because `_write` renames a finished temporary file
(`StoreFault`), and one that raises in a cleanup keeps the documents it has not come to
(`Cleanup`); no command catches it. A store that raises during recovery ends the
process, which is `Crash`; so is the cancellation of tasks at shutdown. A `NotFound` in
recovery cannot happen: no handler runs before the scan has ended.

### JobDispatch

It adds the worker side of each coroutine (`work`) and the two key sets of the queue.
`Respond` is the response of a handler, after which the background task of a 202 enqueues
the job; `DispatchRecoverJob` is `asyncio.create_task` for a job recovery hands over.
`Enqueue`, `Dequeue`, `RunJob`, `RunEnds`, `MarkCompleted` and `MarkFailed` are the lines of
`_enqueue_and_drain` and `_drain_queue`. With Redis the queue calls suspend, may fail with
or without effect (`QueueFault`), and the key sets survive `Crash`. All dispatches of the
program have the default priority, and which waiting key comes first is left open: the
order is the business of the queue modules.

### ForecastQueue, MemoryQueue, RedisQueue

`ForecastQueue` is a line of keys with ranks and places, and the keys handed out. `Fifo`
says whether a newcomer always stands behind everybody of its rank. `MemoryQueue` has the
heap as the set of its entries and implements the port with `Fifo = TRUE`; its lock is
never held across a suspension, so each method is a step. `RedisQueue` has one action per
Redis command or script. It implements the port with `Fifo = FALSE`, because the ticket
is drawn (`INCR`) before the key is entered (`EVAL`), so two enqueues that overlap may
enter in either order; `NewcomersBehind` says that enqueues that do not overlap are
first-in-first-out. The places of the refinement are the sequence part of the score.

Keys are always given by the callers and equal the job id, so a key stands for an item.
The adapters' requeue is modelled although no caller in the program asks for it.

### HostedInference and FourCastNetProvider

`exchange[c]` is the local variables of the coroutine of call c: where it waits (`posting`,
`polling`, `downloading`), the request id, the polls, the source; once it has ended, the
result or the diagnostics. What `_resolve_hosted_response` does between two awaits is one
action, named for the answer: `Accepted` (202), `Redirected` (302), `Refused`, `Referred`
(a JSON with a response reference), `Delivered`, then `Downloaded` or `DownloadRefused`;
`Unreachable` is an `httpx.HTTPError` of any request. The service answers anything, naming
any id or none. `traffic` is a history: the polls sent and the id told last.

`FourCastNetProvider` starts and ends these calls. `Begin` looks into the cache and serves,
raises or posts; `Continue` is an answer, and when it ends the exchange, what
`_run_hosted_inference_with_cache` and its callers make of the result in the same step,
since neither the store nor the decoder suspends. A digest is the content it was computed
from. `files[k]` is the content and the metadata of payload k; `CutOff` is what a save that is
broken off leaves, since `write_bytes` and `write_text` write in place: the process dies in
it (`CrashInSave`), or a write raises, which ends the call with an error while the others go
on (`SaveFails`). An `OSError` of reading files that exist is not modelled. A body
is `Decodable` or not; how it is decoded is `PointForecast`'s business. A point forecast
always asks for the same payload (`PointKey`). The readiness probe before a point forecast
is left out: it is a GET whose failure makes the answer a 503 and changes nothing.

### AccessControl

`windows` is `_windows`; `dispatch` does not suspend before it hands the request on, so a
request is a step (`Uncounted`, `Admit` or `Refuse`). A request has headers, an address
and, for the properties only, the client that sent it. Two ticks make a second, so that
requests come between the seconds Retry-After is counted in. The middleware lives in one
process; several have a limit each.

`recent` and `promise` are histories, by client and route: when the client was let through,
the last 2 * `Capacity` times, and when the Retry-After it was told is over. The
properties speak of clients, the code of keys and addresses. They agree under
`OwnCredentials`: every client has an API key of its own, or none and an address of its own.
Clients that share either are one client to the code, and the properties hold of them as
one. `MCAccessControl` asks for its own requests to be such.

### ForecastRules, MockForecast, FourCastNetDecoder and PointForecast

Quantities are thousandths of their unit, computed exactly, with Python's rounding of ties
to the even neighbour; what binary floating point adds to that is not modelled. Sine and
cosine are a rational approximation within two thousandths. An archive is its entries and
how its bytes end. What `tarfile` makes of a truncated archive was taken from its
behaviour: cut between two members (or inside a header) it lists the earlier ones and says
nothing, cut inside the data of a member it lists none and raises `ReadError`, and a
truncated gzip stream raises `EOFError`, which nothing catches. An array has a shape, a
linear gradient and some points that are not finite. An array with an empty leading axis
(the decoder's index 0 raises `IndexError`) or of values that are no numbers is left out.
Names of members carry lead and batch only, so equal names keep the order of the archive. `InOrder` is Python's `sorted`: the list of
a finite set in which each element has as many before it as the order puts before it
(`InOrderSorts` and `InOrderUnique` prove that it is sorted, and the only such list).

`PointForecast` asks one question and gets one answer, which is why `MCPointForecast.cfg`
does not check deadlock. Its properties define nearest grid points by distance, batches and
timelines by sets, and the same weather in other units, none of which the decoder does.
The hypothesis of `SameInOtherUnits`, `KelvinAndPascals`, keeps away from values that are
weather in neither or in both units; it holds of every forecast from an archive in the run.

### MobileTracking

A tracker is a call of `refreshForecast` or `retryJob`; presets and retries can be pressed
while others are under way. `Created` is the answer to the create request and
`trackForecastJob` up to its first await; `Polled` an answer in `waitForForecastJob`, with
the check of `activeJobId` that follows when the job is over; `Fetched` the last answer,
with the second check; `Fails` the catch and finally blocks. `Ask` is pressing a button:
the update button is disabled while the spinner turns, presets and retries are not, so it
has no guard on `loading`. `CancelConfirmed` compares with the panel as it was when the
button was pressed (`shown`), because the closure of that render holds `forecastJob`;
`activeJobId` is a ref and is read as it is. The jobs of the backend end, and are
cancelled, on their own.

## Runs

Deadlock is checked in every run except `point_forecast`. The concurrent runs use two
coroutines (clients, calls, trackers), which is what a race needs: every guard in the code
concerns one document, key or job, and the properties speak of at most two actors.

| Run | Instance | Question |
|---|---|---|
| `jobs_shipped` | 2 jobs, 2 ticks, 1 crash, 1 failing store call, shipped stores | Is every active job in good hands: handed over by each start, and left running alone only by a failing store call; are histories complete? |
| `jobs_port` | 2 jobs, 1 tick, 1 crash, suspending store | With documents written from stale reads: are they coherent, do the guards alone keep runs exclusive and terminal statuses final, and is it `JobLifecycle`? |
| `dispatch_memory` | 2 jobs, 1 crash, 1 failing store call | Is every waiting key attended, and released only when its job has ended? |
| `dispatch_redis` | 2 jobs, 1 crash, 1 failing queue call | Is a job held by one worker at a time when keys outlive the process? |
| `dispatch_live` | 2 jobs, 1 crash, in-memory queue, fairness | Does every accepted job end? |
| `dispatch_redis_restart` | 2 jobs, 1 crash, Redis queue, fairness | The same with Redis: it does not (below) |
| `queue_memory` | 3 keys, 2 ranks, 5 enqueues | Is the adapter a FIFO `ForecastQueue`? |
| `queue_redis` | 3 keys, 2 ranks, 4 tickets | Is the adapter a `ForecastQueue`, with clients that interleave and die? |
| `provider_cache` | 2 calls at a time, 3 in all, 2 payloads, 2 bodies, 2 ids, 2 polls, 1 crash, any number of failing saves | Are polls limited and accounted for, and is what the cache serves what was received and saved last? |
| `access_control` | 2 clients, 2 routes, window of 2 s in half seconds, capacity 2, 3.5 s | How much gets through, who is refused, and is Retry-After true? |
| `point_forecast` | 17,000 questions in four families | Nearest point, one batch in order, losses marked, units guessed right, summaries coherent? |
| `mobile_tracking` | 2 trackers, 3 jobs, 1 poll after the first, 1 cancel on its way, fairness | Is only the newest forecast shown, has the spinner a cause, does every tracker end? |

Bounds. Two jobs let a retry have a parent, recovery have a list and a worker have
a second key to drain. One crash is enough for a recovery on a state with a run in
progress; it may fall into the first recovery scan only when that list is empty, so
the theorems below, which are proved for any number of crashes, complement it. Two ticks
with a stale timeout of two make the same job stale or not. Retention windows are 1 tick
(`jobs_shipped`) and 0 (`jobs_port`, a window shorter than a tick), so cleanup deletes some
jobs and leaves others. Three keys and two ranks give the heap an order to get wrong; five
enqueues requeue a key while another waits.

Three calls let one fill the cache, one die or fail in a save and one find what is left, or two
miss the cache together; two polls let the second change the id. The clock of
`access_control` covers seven quarters of a window, so two consecutive windows can be used
up and a refused client can come back; one client has a key and two addresses, the other
shares an address with it and sometimes comes through a proxy. The families of
`point_forecast` vary one thing each: the mock over the globe; shapes of grids (one row, one
column, none, and the real 721 by 1440) against locations on, next to and between grid
points; archives of up to three entries of every kind with every ending; weather on both
sides of every threshold. `mobile_tracking` polls a job once more than the first time, where
the app does 60 times: a poll that changes nothing changes nothing the second time either.
A third job lets a tracker be stale while the two others matter. Ids of jobs are all alike,
so `Created` takes the next one (`Fresh`).

Tasks, clients, calls, request ids and keys are interchangeable, and the safety runs use that symmetry; the
runs with liveness do not (nor do `access_control` and `point_forecast`, whose values
differ).

### Fairness

`Fairness` of `JobDispatch` is strong fairness of the steps of each coroutine and of the
startup hook. Strong, because a coroutine's step is disabled while another one holds
the event loop, and the loop serves ready coroutines in turn. It includes the end of
a provider call: the hosted client has HTTP timeouts and a limit on polls. Requests, time,
crashes and faults are not fair. The live runs have no failing store calls: a store
write that fails when a run settles leaves the job running until the next start (the one way
a job gets there, says `OnlyFaultsStrand`), and nothing in the code promises otherwise.

`MobileTracking` has weak fairness of the answers to each tracker: every request is answered
or fails. The app has no timeouts of its own (`api/forecast.ts` calls `fetch` without a
signal), so this is an assumption on the backend and the network stack. Nothing says that
jobs end or that polls find them ended: `TrackersEnd` is the limit on polls.

`FourCastNetProvider` needs no fairness: `AnswersBringEnd` says that each answer lowers a
distance that is zero at the end, so a call whose requests are answered, or run into the
HTTP timeout, ends.

### What disagrees with the documents

`dispatch_redis_restart` is violated. A job is submitted and its key is in Redis when the
process dies. The next start hands the job to a worker, the worker's enqueue finds the key
still pending (or in flight), and `_enqueue_and_drain` returns without draining
(`asyncio_worker.py:105`, `redis_queue.py:27-35`). No worker is left, and the job stays
queued. `docs/ARCHITECTURE.md:206-210` says that recovery prevents clients from polling
for ever after a lost worker. A pending key is picked up when a later request starts a
worker; a key in flight is never picked up, since nothing reads the leases.

One property is deliberately absent from `jobs_port`: `HistoryGrows` fails on a store
that suspends. Cancel accepts `queued` and `running`; if a run claims the job between the
read and the write of a cancellation, the cancelled document is built from the queued one
and the event "running" is lost. The shipped stores cannot do that, and `jobs_shipped`
checks it; whoever adds a suspending store has to know.

### What the models show besides

Behaviours of the code that no document rules out, found while modelling and kept in the
models as they are:

* Metadata cut off by a crash or a full disk make every later call for that payload fail in
  `json.loads`
  (`local_artifact_store.py:37`), until the file is deleted. The same one write
  earlier is harmless: the digests differ and the result is fetched again.
* A result is cached before it is decoded and never expires (`fourcastnet_provider.py:178`).
  Point forecasts always have the same payload, so they all come from the first tar saved,
  whatever its age, and a tar that cannot be decoded makes all of them fail.
* A transport error after several polls reports zero polls and no request id, and so do,
  for the polls, a 302 without location and a failed download (`nim_client.py:150-162`,
  `286-312`). `README.md:199` and `docs/ARCHITECTURE.md:230` of the repository list poll
  attempts among what diagnostics may tell, "as far as possible".
* An archive cut off between two members gives a shorter forecast with no loss of
  confidence; a truncated gzip stream gives an error 500 instead of 503.
* In the app the forecast of the create request answered last wins, not of the one sent
  last; a create request that fails clears the active job of another tracker, which then
  ends silently and whose forecast never appears; the error of a tracker that is no longer
  active takes a newer forecast off the screen; and a cancel confirmed late, for the job
  that was on the panel when it was pressed, clears a newer active job.

## Theorems

Every theorem is about all behaviours of its specification, for any number of tasks, jobs,
crashes, faults, ticks, keys, clients, calls, ids, trackers, polls and cancels, and for any
archive, grid, weather and location.

| Theorem | Says | Argument |
|---|---|---|
| `TypeCorrect` | `Spec => []TypeOK` | inductive with `CallOK`, which says what a coroutine holds at each point (a document before a write, a job id where one is needed) |
| `OneRunnerAlways` | `Spec => []OneRunner` | inductive with `RunnerInv`, below |
| `TerminalFinal` | `Spec => TerminalIsFinal` | from `Invariance`, step by step |
| `LifecycleImplemented` | `Spec => ImplementsLifecycle` | every guarded write moves one job along an edge (`GuardedMove`), a creation takes an id that reads as unused (`Given`) |
| `RunLeavesTerminalAlways` | `Spec => RunLeavesTerminal` | `Claimed`: the job of a task in flight is not queued, so when it is not running either it has ended |
| `NoneForgotten` | `Spec => []NoActiveJobForgotten` | inductive with `KnownInv`, which counts the jobs the scan still has on its list |
| `DocumentsConsistentAlways` | `Spec => []DocumentsConsistent` | inductive with `CoherentInv`: the copies in tasks and in the list are coherent too |
| `RetryOfTerminalAlways` | `Spec => []RetryOfTerminal` | inductive with `OriginInv`: no copy tells another ancestry than the document, and a retry holds the attempt of a parent that has ended |
| `OnlyFaultsStrandAlways` | `Spec => OnlyFaultsStrand` | from `RunnerInv`, below |
| `HistoryGrowsAlways` | `Spec => HistoryGrows` for stores that do not suspend | `HistoryInv`: who is about to write has held the event loop since it read |
| `JobsImplemented` | `DispatchSpec => ImplementsJobs`, for both queues | every step is one of the service or none of it (`JobSteps`), given `WorkInv`: a worker exists only where something was handed over, and awaits the run it delivered |
| `DispatchTyped` | `DispatchSpec => []DispatchTypeOK` | part of `DispatchInv` |
| `OneHolderAlways` | `DispatchSpec => []OneHolder`, for both queues | inductive: a key is taken from those that wait, where no held key is |
| `HoldersMatchAlways` | `DispatchSpec => []HoldersMatch`, in-memory queue | inductive: marks in flight die with their holders |
| `NoOrphanAlways` | `DispatchSpec => []NoOrphan`, in-memory queue | inductive, counting: a key comes with a worker in the drain loop, a worker leaves the loop with a key or when none waits |
| `ReleasedWhenSettledAlways` | `DispatchSpec => ReleasedWhenSettled`, in-memory queue | `ReleaseInv`, below |
| `HeapAgrees` | `Spec => []HeapMatchesQueued` for the in-memory queue | inductive with `Drawn` (sequence numbers are distinct and below the counter) and `ItemsInFlight` |
| `PortImplemented` | `Spec => ImplementsPort` for the in-memory queue | a waiting key's place is the sequence number of its one entry (`LinePlaces`) |
| `WaitingAgreesAlways`, `OneWorkerAlways` | `Spec => []WaitingAgrees`, `Spec => []OneWorker` for Redis | inductive with `RedisInv`, below |
| `NewcomersAlwaysBehind` | `Spec => NewcomersBehind` for Redis | the ticket drawn is above all tickets in line |
| `PortImplemented` | `Spec => ImplementsPort` for Redis | the lowest score is the best rank, and first in it (`ScoreOrder`) |
| `ProviderTyped`, `RequestsAccountedAlways`, `HitWasReceivedAlways` | the invariants of `provider_cache` | inductive with `ProviderInv`, below |
| `SavedIsServedAlways`, `AnswersBringEndAlways` | its action properties | from `ProviderInv`, step by step |
| `AccessTyped` | `Spec => []AccessTypeOK`, whoever sends the requests | inductive with the windows' keys being those of requests that are counted |
| `SpanBoundedAlways`, `RefusedWhenFullAlways`, `RetryAfterAlwaysHolds` | `SpanBounded`, `RefusedWhenFull`, `RetryAfterHolds`, given `OwnCredentials` | `AccessInv`, below |
| `TrackingHolds` | `Spec => []TrackingOK` | inductive with `JobsNamed`, below |
| `NewestShown` | `Spec => NewestWins` | from `Newest`, an invariant of its own, step by step |
| `SampledNearestHolds`, `SummaryCoherentHolds`, `TimelineSelectedHolds`, `SameInOtherUnitsHolds` | the four invariants of `point_forecast` | from `AnswersReached`, below |

**Runs.** `OneRunner` alone is not inductive: recovery turns a running job back into a queued
one, which a second task may then claim while the first is still at the provider.
`RunnerInv` says why this cannot happen:

* `Quiet`: while recovery has not yet listed the active jobs, nothing is handed to a worker
  and every task is idle, since a crash kills them all. (Workers may run while recovery
  goes through its list.)
* `Interrupted`: a job the list shows as running is not queued, and no task is in flight
  with it, until recovery reaches it. Its run was lost with the last process, and
  nothing can claim it because nothing else queues a job.
* `Claimed`: the job of a task in flight is not queued.
* `Given`: ids in use, in documents, in the list or in tasks that run, were given out.

`Interrupted` is also what makes `NoneForgotten` true: a job listed as running that recovery
finds in another status was settled or cancelled, and not queued again behind its back.

**Stranded jobs.** `OnlyFaultsStrand` is about a job that is running although no task is at
work on it and the scan of a start will not come to it (`Stranded`). Three facts show that
only a failing store call of its run brings that about (`StrandStep`). A job comes to run
only by the claim of a task that is then at the provider with it (`ClaimedByOne`). A task in
flight stays so while its job is running (`FlightGoesOn`): it returns only when its read, or
the guard of its write, finds the job in another status. Startup lists every running job and
lets go of one only when it no longer runs (`AwaitedUntilSettled`), because requeueing or
failing it succeeds. So a step that strands a job takes the task in flight away, and what is
left is a failing store call; a crash takes all tasks, but starts the list again.

**Releases.** A worker that reads a job as running returns without an outcome, and would
release a key whose job is still active. `ReleaseInv` says that this does not happen with
the in-memory queue: a job is on recovery's list, about to be enqueued once, waiting or in
flight, and no two of these (`Placed`); a job that is running is not still to be run
(`Unstarted`), because the claim that made it so was by the one holder of its key
(`ClaimedOnce`); so a run that returned left its job ended (`Settled`). With Redis none of
this holds: keys outlive the process, and a job that recovery requeues may be waiting
already, so `ReleasedWhenSettled` is stated, and checked, for the in-memory queue.

**Redis.** `RedisInv` adds to the two invariants that a client between `INCR` and `EVAL` has
a ticket nobody else has and no key in line carries (`TicketsOnce`), so scores stay distinct.

**Provider.** `Sound` extends `RequestsAccounted` to exchanges in flight: polls counted are
those sent but for the one under way, and the id is the one told last. `CacheSound` is why a
hit was received: content and metadata that are whole and agree hold a body that came from the
service, whatever a crash or a failing write left (`BrokenSound`); and what was saved last is
there whole.

**Rate limits.** Every client has one window per limited route (`OwnCredentials`), and
`Kept` relates it to the client's history: the times fall into windows at least a window's
length apart, at most `Capacity` into each, the current one holding as many as it counts
(`InWindows`). Then 2 * `Capacity` times reach at least from the opening of one window to
that of the next (`WindowsSpan`), a full window holds the last `Capacity` times
(`FullWindow`), and a Retry-After ends less than a second after the window.

**Tracking.** `TrackingOK` says that the active job is on the panel and followed, and that
the spinner has a cause. It needs `JobsNamed`, that a tracker has a job exactly when it waits
or fetches: the finally block resets everything when there is no job and only its own job
otherwise, so which of the two happens when a tracker fails depends on it. `NewestShown` needs
two facts more: the active job, if any, is the one accepted last and not given up
(`NewestActive`), and jobs given up exist (`CancelledExist`), so that a new job is none of them.

**Forecasts.** `AnswersReached` is the invariant: an answer is what its provider makes of its
question. What is left is about values.

* *Nearest point.* Rounding to the even neighbour is never farther off than half a unit
  (`RoundsRow`, `RoundsColumn`), and distances grow by the same amount from one row to the
  next, so no row is nearer (`NearestRow`); columns do so around the globe, where rounding up
  past the last one is the first (`Around`, `NearestColumn`). Neither depends on the size of
  the grid.
* *Limits and signals.* The limits of the proxies are multiples of what they are rounded to,
  so rounding stays within them (`PercentStays`, `ConfidenceStays`), for the mock and the
  decoder alike; a signal is the extreme of the steps it is made from (`SignalsOfSteps`).
* *Selection.* The sort puts an array of the lowest batch of the earliest lead time first
  (`BatchChosen`), and of two with the same name the earlier one (`LoadedByName`), which is
  therefore the one kept for its lead time (`SelectedAreFirst`).
* *Loss.* The archive without the entries that could not be loaded has the same members
  (`IntactMembers`, since a sorted list is unique) and no warnings; a warning lowers every
  confidence by more than rounding takes back (`WarningLowers`), down to the floor, and
  nothing else (`WarningOnlyLowers`).
* *Units.* Sorting and selection look at names only, so the converted archive has the
  converted members selected (`SelectedInOtherUnits`), and each conversion meets the other
  side of its threshold (`SameCelsius`, `SameHectopascals`).

**Assumptions.** The named `ASSUME`s of the modules: types and distinctness of the constants;
finitely many tasks (`QueueAssumption` of `JobDispatch`, which counts them); fewer enqueues than
`_SCORE_FACTOR` (`ScoreAssumption` of `RedisQueue`; from then on ranks mix); coordinates the
request schemas allow (`QuestionsAssumption` of `PointForecast`). Besides, as
hypotheses of single theorems: `StoreSuspends = FALSE` for `HistoryGrowsAlways` (it is false
otherwise, see above), `RedisBackend = FALSE` for the three theorems on the in-memory queue
(orphans and unheld keys are what `dispatch_redis_restart` is about), and `OwnCredentials` for
the three on rate limits. All others hold for both values of `StoreSuspends` and of
`RedisBackend`.

**Only model-checked.** Liveness, which is out of the prover's reach: `EveryJobEnds` and
`TrackersEnd`. Every other property of a passing run is a theorem.

## Not modelled

See the components in `PROJECT.json` with status `not_modelled`. Logging, metrics, payload
validation and texts carry no state the service depends on; byte-level parsing of arrays and
archives is data, not control; floating-point error is outside TLA+'s integers, so a value
that lies within it of a threshold may fall on the other side. The readiness probe and the
provider status endpoint send one request and keep nothing. `riskDecisions.ts` and the
screens derive what they show from one forecast. The tools in `tools/` are run by hand.
Expiry of the cache, repair of its files and eviction of rate-limit windows are not modelled
because the code does not have them. The worker classes that bypass the queue
(`DeferredForecastJobWorker`, `AsyncioTaskForecastJobWorker`) are not wired by the
application.

## Plan

1. Done: jobs (`JobLifecycle`, `ForecastJobs`, `JobDispatch`), queues (`ForecastQueue`,
   `MemoryQueue`, `RedisQueue`), providers (`HostedInference`, `FourCastNetProvider`,
   `PointForecast` and its operators), `AccessControl`, `MobileTracking`, their runs.
2. Done: proofs of every safety property and refinement that a run checks, with the lemmas
   about the operators of `ForecastRules` and `FourCastNetDecoder` that hold of all values.
3. Left: nothing of the above. Metrics, the mobile rules (`riskDecisions.ts`) and the worker
   classes that are not wired could have modules of their own.
