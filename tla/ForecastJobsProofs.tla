---- MODULE ForecastJobsProofs ----
(***************************************************************************)
(* Proofs about ForecastJobs for any number of tasks, jobs, ticks, process *)
(* deaths and store faults, and for both kinds of store: documents and     *)
(* tasks are well typed and coherent, the service implements JobLifecycle, *)
(* a run never drops the answer of the provider while its job is active,   *)
(* no active job is forgotten by the worker, and only a failing store call *)
(* leaves one running with nobody at work on it.                           *)
(***************************************************************************)
EXTENDS ForecastJobs, TLAPS

----------------------------------------------------------------------------
(* Type correctness.  TypeOK is not inductive: a task about to write must be *)
(* known to hold a document, and the job the document belongs to.            *)

Writes == {"claim", "store_result", "store_failure", "cancel"}

\* The status of the document a task is about to write.
Target(at) == IF at = "claim" THEN "running"
              ELSE IF at = "store_result" THEN "succeeded"
              ELSE IF at = "store_failure" THEN "failed" ELSE "cancelled"

CallOK(t) ==
  /\ call[t].at \in Writes \/ At(t, "retry", "create")
       => call[t].job \in Jobs /\ call[t].doc \in Docs
  /\ call[t].at \in Writes => call[t].doc.status = Target(call[t].at)
  /\ call[t].at \in {"load", "provider", "accepted"} => call[t].job \in Jobs

TypeInv == TypeOK /\ \A t \in Tasks : CallOK(t)

\* Every document the commands build is well typed.
LEMMA DocTypes ==
  ASSUME now \in Times, NEW doc \in Docs, NEW time \in Times
  PROVE  /\ Running(doc) \in Docs /\ Running(doc).status = "running"
         /\ Succeeded(doc) \in Docs /\ Succeeded(doc).status = "succeeded"
         /\ Failed(doc, time) \in Docs /\ Failed(doc, time).status = "failed"
         /\ Cancelled(doc) \in Docs /\ Cancelled(doc).status = "cancelled"
         /\ Requeued(doc) \in Docs /\ Requeued(doc).status = "queued"
<1>1. \A s \in Statuses : Append(doc.events, s) \in Seq(Statuses)
  BY DEF Docs
<1>2. \A s \in Statuses : Enter(doc, s) \in Docs /\ Enter(doc, s).status = s
  BY <1>1 DEF Enter, Docs
<1>3. {"running", "succeeded", "failed", "cancelled", "queued"} \subseteq Statuses
  BY DEF Statuses, Active, Terminal
<1>4. Running(doc) \in Docs /\ Running(doc).status = "running"
  BY <1>2, <1>3 DEF Running, Docs
<1>5. Succeeded(doc) \in Docs /\ Succeeded(doc).status = "succeeded"
  BY <1>2, <1>3 DEF Succeeded, Docs
<1>6. Failed(doc, time) \in Docs /\ Failed(doc, time).status = "failed"
  BY <1>2, <1>3 DEF Failed, Docs
<1>7. Cancelled(doc) \in Docs /\ Cancelled(doc).status = "cancelled"
  BY <1>2, <1>3 DEF Cancelled, Docs
<1>8. Requeued(doc) \in Docs /\ Requeued(doc).status = "queued"
  BY <1>2, <1>3 DEF Requeued, Docs
<1> QED BY <1>4, <1>5, <1>6, <1>7, <1>8

\* build_new_job builds a well-typed queued document.
LEMMA NewDocTypes ==
  ASSUME now \in Times, NEW parent \in Jobs \union {None}, NEW attempt \in Nat \ {0}
  PROVE  NewDoc(parent, attempt) \in Docs /\ NewDoc(parent, attempt).status = "queued"
<1>1. <<"queued">> \in Seq(Statuses)
  BY DEF Statuses, Active
<1> QED BY <1>1 DEF NewDoc, Docs, Statuses, Active

\* A store write keeps the store well typed.
LEMMA UpdateTypes ==
  ASSUME TypeOK, NEW j \in Jobs, NEW doc \in Docs, NEW expected,
         UpdateIfStatus(j, doc, expected)
  PROVE  job' \in [Jobs -> Docs \union {None}]
<1>1. [doc EXCEPT !.updated = now] \in Docs
  BY DEF TypeOK, Docs
<1> QED BY <1>1 DEF TypeOK, UpdateIfStatus

\* A store call's answer is one of its three, and the first exactly when the guard holds.
LEMMA AnswerTypes ==
  ASSUME NEW j, NEW expected, NEW a \in Points, NEW b \in Points, NEW c \in Points
  PROVE  /\ Answer(j, expected, a, b, c) \in {a, b, c}
         /\ a \notin {b, c} => (Answer(j, expected, a, b, c) = a
                                <=> j \in Present /\ job[j].status \in expected)
BY DEF Answer

\* One task moves to another point; everything else of the tasks stays.
LEMMA MoveTypes ==
  ASSUME TypeInv, NEW t \in Tasks, call[t] # Idle,
         NEW at \in Points, NEW doc \in Docs \union {None},
         call' = [call EXCEPT ![t].at = at, ![t].doc = doc],
         at \in Writes \union {"create"} => call[t].job \in Jobs /\ doc \in Docs,
         at \in Writes => doc.status = Target(at),
         at \in {"load", "provider", "accepted"} => call[t].job \in Jobs
  PROVE  call' \in [Tasks -> Calls] /\ \A u \in Tasks : CallOK(u)'
<1>1. call[t] \in [op: Ops, at: Points, job: Jobs \union {None}, doc: Docs \union {None}]
  BY DEF TypeInv, TypeOK, Calls
<1>2. call'[t] \in [op: Ops, at: Points, job: Jobs \union {None}, doc: Docs \union {None}]
      /\ call'[t].at = at /\ call'[t].doc = doc /\ call'[t].job = call[t].job
      /\ call'[t].op = call[t].op
  BY <1>1 DEF TypeInv, TypeOK
<1>3. call' \in [Tasks -> Calls]
  BY <1>2 DEF TypeInv, TypeOK, Calls
<1>4. \A u \in Tasks : CallOK(u)'
  <2> SUFFICES ASSUME NEW u \in Tasks PROVE CallOK(u)'
    OBVIOUS
  <2>1. CASE u = t
    BY <1>2, <2>1 DEF CallOK, At, Writes
  <2>2. CASE u # t
    <3>1. call'[u] = call[u]
      BY <2>2 DEF TypeInv, TypeOK
    <3> QED BY <3>1 DEF TypeInv, CallOK, At
  <2> QED BY <2>1, <2>2
<1> QED BY <1>3, <1>4

\* A read keeps the types: the document built from it is the one its write expects.
LEMMA LoadTypes ==
  ASSUME TypeInv, NEW t \in Tasks, call[t].at \in {"load", "provider"},
         NEW expected, NEW next \in Writes \union {"create"},
         NEW refused \in Outcomes \ {"accepted"}, NEW missing \in Outcomes \ {"accepted"},
         NEW doc, InStatus(call[t].job, expected) => doc \in Docs,
         InStatus(call[t].job, expected) /\ next \in Writes => doc.status = Target(next),
         Load(t, expected, next, refused, missing, doc)
  PROVE  TypeInv'
<1> DEFINE at == Answer(call[t].job, expected, next, refused, missing)
           d == IF InStatus(call[t].job, expected) THEN doc ELSE None
<1>1. at \in {next, refused, missing} /\ at \in Points
      /\ (at \in Writes \union {"create"} => InStatus(call[t].job, expected))
      /\ at \notin {"load", "provider", "accepted"}
      /\ (at \in Writes => at = next)
  BY DEF Answer, InStatus, Points, Outcomes, StoreCalls, Writes
<1>2. call[t] # Idle /\ call[t].job \in Jobs
  BY DEF TypeInv, CallOK, Idle
<1>3. call' = [call EXCEPT ![t].at = at, ![t].doc = d]
  BY DEF Load
<1>4. call' \in [Tasks -> Calls] /\ \A u \in Tasks : CallOK(u)'
  <2>1. d \in Docs \union {None} /\ (at \in Writes \union {"create"} => d \in Docs)
        /\ (at \in Writes => d.status = Target(at))
    BY <1>1
  <2> HIDE DEF at, d
  <2> QED BY <1>1, <1>2, <1>3, <2>1, MoveTypes
<1>5. loop' \in Tasks \union {Startup, None}
  BY DEF Load, Keep
<1>6. UNCHANGED <<job, issued, boot, handed, now, crashes, faults>>
  BY DEF Load
<1> QED BY <1>4, <1>5, <1>6 DEF TypeInv, TypeOK, Listed

\* A guarded write keeps the types and ends the operation.
LEMMA StoreTypes ==
  ASSUME TypeInv, NEW t \in Tasks, call[t].at \in Writes,
         NEW expected, NEW next \in Outcomes \ {"accepted"},
         NEW refused \in Outcomes \ {"accepted"}, NEW missing \in Outcomes \ {"accepted"},
         Store(t, expected, next, refused, missing)
  PROVE  TypeInv'
<1> DEFINE at == Answer(call[t].job, expected, next, refused, missing)
<1>1. at \in Points /\ at \notin Writes \union {"create", "load", "provider", "accepted"}
  BY DEF Answer, Points, Outcomes, StoreCalls, Writes
<1>2. call[t] # Idle /\ call[t].job \in Jobs /\ call[t].doc \in Docs
  BY DEF TypeInv, CallOK, Idle, Writes
<1>3. call' = [call EXCEPT ![t].at = at, ![t].doc = None]
  BY DEF Store
<1>4. call' \in [Tasks -> Calls] /\ \A u \in Tasks : CallOK(u)'
  <2> HIDE DEF at
  <2> QED BY <1>1, <1>2, <1>3, MoveTypes
<1>5. job' \in [Jobs -> Docs \union {None}]
  BY <1>2, UpdateTypes DEF Store, TypeInv
<1>6. loop' \in Tasks \union {Startup, None}
  BY DEF Store, Keep
<1>7. UNCHANGED <<issued, boot, handed, now, crashes, faults>>
  BY DEF Store
<1> QED BY <1>4, <1>5, <1>6, <1>7 DEF TypeInv, TypeOK, Listed

\* An operation that starts keeps the types.
LEMMA ArriveTypes ==
  ASSUME TypeInv, NEW t \in Tasks, NEW op \in Ops,
         NEW point \in {"load", "create", "delete"}, NEW j \in Jobs \union {None},
         point = "load" => j \in Jobs, op = "retry" => point # "create",
         Arrive(t, op, point, j)
  PROVE  TypeInv'
<1> DEFINE c == [op |-> op, at |-> point, job |-> j, doc |-> None]
<1>1. c \in Calls /\ call' = [call EXCEPT ![t] = c]
  BY DEF Arrive, Calls, Points, StoreCalls
<1>2. call' \in [Tasks -> Calls]
  BY <1>1 DEF TypeInv, TypeOK
<1>3. \A u \in Tasks : CallOK(u)'
  <2> SUFFICES ASSUME NEW u \in Tasks PROVE CallOK(u)'
    OBVIOUS
  <2>1. CASE u = t
    <3>1. call'[u] = c
      BY <1>1, <2>1 DEF TypeInv, TypeOK
    <3> QED BY <3>1 DEF CallOK, At, Writes
  <2>2. CASE u # t
    <3>1. call'[u] = call[u]
      BY <1>1, <2>2 DEF TypeInv, TypeOK
    <3> QED BY <3>1 DEF TypeInv, CallOK, At
  <2> QED BY <2>1, <2>2
<1>4. loop' \in Tasks \union {Startup, None}
  BY DEF Arrive, Keep
<1>5. UNCHANGED <<job, issued, boot, handed, now, crashes, faults>>
  BY DEF Arrive
<1> QED BY <1>2, <1>3, <1>4, <1>5 DEF TypeInv, TypeOK, Listed

\* Creating a job keeps the types: the next id is still within the bound.
LEMMA CreateTypes ==
  ASSUME TypeInv, NEW t \in Tasks, call[t].at = "create",
         NEW doc \in Docs, CreateJob(t, doc)
  PROVE  TypeInv'
<1> DEFINE c == [op |-> call[t].op, at |-> "accepted", job |-> issued + 1, doc |-> None]
<1>1. issued + 1 \in Jobs /\ issued' \in 0..MaxJobs
  BY BoundAssumption DEF CreateJob, TypeInv, TypeOK, Jobs
<1>2. call[t] \in [op: Ops, at: Points, job: Jobs \union {None}, doc: Docs \union {None}]
  BY DEF TypeInv, TypeOK, Calls, Idle
<1>3. call' = [call EXCEPT ![t] = c]
  BY DEF CreateJob, TypeInv, TypeOK
<1>4. c \in Calls
  BY <1>1, <1>2 DEF Calls, Points, Outcomes
<1>5. call' \in [Tasks -> Calls]
  BY <1>3, <1>4 DEF TypeInv, TypeOK
<1>6. \A u \in Tasks : CallOK(u)'
  <2> SUFFICES ASSUME NEW u \in Tasks PROVE CallOK(u)'
    OBVIOUS
  <2>1. CASE u = t
    <3>1. call'[u] = c
      BY <1>3, <2>1 DEF TypeInv, TypeOK
    <3> QED BY <3>1, <1>1 DEF CallOK, At, Writes
  <2>2. CASE u # t
    <3>1. call'[u] = call[u]
      BY <1>3, <2>2 DEF TypeInv, TypeOK
    <3> QED BY <3>1 DEF TypeInv, CallOK, At
  <2> QED BY <2>1, <2>2
<1>7. job' \in [Jobs -> Docs \union {None}]
  BY <1>1 DEF CreateJob, TypeInv, TypeOK
<1>8. loop' \in Tasks \union {Startup, None}
  BY DEF CreateJob, Keep
<1>9. UNCHANGED <<boot, handed, now, crashes, faults>>
  BY DEF CreateJob
<1> QED BY <1>1, <1>5, <1>6, <1>7, <1>8, <1>9 DEF TypeInv, TypeOK, Listed

\* A document the store holds in some status is a document.
LEMMA InStatusDoc ==
  ASSUME TypeOK, NEW j \in Jobs, NEW expected, InStatus(j, expected)
  PROVE  job[j] \in Docs /\ job[j] # None
BY DEF TypeOK, InStatus, Present

\* The type invariant holds initially.
LEMMA TypeInit == Init => TypeInv
BY BoundAssumption, NoneAssumption
   DEF Init, TypeInv, TypeOK, Calls, Idle, Starting, NoScan, Listed, Times, CallOK, At, Writes

\* Requests that arrive and jobs that are delivered keep the types.
LEMMA RequestTypes ==
  ASSUME TypeInv, NEW t \in Tasks, Request(t) \/ Deliver(t)
  PROVE  TypeInv'
<1>1. 1..issued \subseteq Jobs
  BY BoundAssumption DEF TypeInv, TypeOK, Jobs
<1>2. ASSUME Arrive(t, "submit", "create", None) PROVE TypeInv'
  BY <1>2, ArriveTypes DEF Ops
<1>3. ASSUME NEW j \in 1..issued, Arrive(t, "retry", "load", j) PROVE TypeInv'
  BY <1>1, <1>3, ArriveTypes DEF Ops
<1>4. ASSUME NEW j \in 1..issued, Arrive(t, "cancel", "load", j) PROVE TypeInv'
  BY <1>1, <1>4, ArriveTypes DEF Ops
<1>5. ASSUME Arrive(t, "cleanup", "delete", None) PROVE TypeInv'
  BY <1>5, ArriveTypes DEF Ops
<1>6. ASSUME NEW j \in 1..issued, Arrive(t, "run", "load", j) PROVE TypeInv'
  BY <1>1, <1>6, ArriveTypes DEF Ops
<1> QED BY <1>2, <1>3, <1>4, <1>5, <1>6 DEF Request, Deliver

\* A cleanup, finished or broken off, removes documents in terminal statuses only.
LEMMA CleanupShape ==
  ASSUME TypeInv, NEW t \in Tasks, Cleanup(t)
  PROVE  /\ call[t].op = "cleanup" /\ faults' \in 0..MaxFaults
         /\ \E gone \in SUBSET Present, answer \in {"ok", "raised"} :
              Forget(t, gone, answer) /\ \A j \in gone : InStatus(j, Terminal)
<1>1. PICK retention \in Retentions, statuses \in SUBSET Terminal \ {{}} :
        \/ Forget(t, {j \in Present : Expired(job[j], retention, statuses)}, "ok")
        \/ \E gone \in SUBSET {j \in Present : Expired(job[j], retention, statuses)} :
             Forget(t, gone, "raised")
  BY DEF Cleanup
<1>2. \A j \in Present : Expired(job[j], retention, statuses) => InStatus(j, Terminal)
  BY DEF Expired, InStatus
<1>3. call[t].op = "cleanup" /\ faults' \in 0..MaxFaults
  BY BoundAssumption DEF Cleanup, Forget, At, TypeInv, TypeOK
<1> QED BY <1>1, <1>2, <1>3

\* Every step of a request keeps the types.
LEMMA RequestStepTypes ==
  ASSUME TypeInv, NEW t \in Tasks, RequestStep(t)
  PROVE  TypeInv'
<1> DEFINE j == call[t].job
<1>1. CASE Submit(t)
  <2>1. NewDoc(None, 1) \in Docs
    <3>1. now \in Times /\ 1 \in Nat \ {0} /\ None \in Jobs \union {None}
      BY DEF TypeInv, TypeOK
    <3> QED BY <3>1, NewDocTypes
  <2> QED BY <1>1, <2>1, CreateTypes DEF Submit, At
<1>2. CASE RetryLoad(t)
  <2>1. call[t].at = "load" /\ j \in Jobs
    BY <1>2 DEF RetryLoad, At, TypeInv, CallOK
  <2>2. InStatus(j, Terminal) => job[j] \in Docs
    BY <2>1, InStatusDoc DEF TypeInv
  <2>3. Load(t, Terminal, "create", "conflict", "not_found", job[j])
    BY <1>2 DEF RetryLoad
  <2> HIDE DEF j
  <2> QED BY <2>1, <2>2, <2>3, LoadTypes DEF Outcomes, Writes, j
<1>3. CASE RetryCreate(t)
  <2>1. call[t].doc.attempt + 1 \in Nat \ {0} /\ j \in Jobs
    BY <1>3 DEF RetryCreate, TypeInv, CallOK, Docs
  <2>2. NewDoc(j, call[t].doc.attempt + 1) \in Docs
    BY <2>1, NewDocTypes DEF TypeInv, TypeOK
  <2> QED BY <1>3, <2>2, CreateTypes DEF RetryCreate, At
<1>4. CASE CancelLoad(t)
  <2>1. call[t].at = "load" /\ j \in Jobs
    BY <1>4 DEF CancelLoad, At, TypeInv, CallOK
  <2>2. InStatus(j, Active) => Cancelled(job[j]) \in Docs /\ Cancelled(job[j]).status = "cancelled"
    BY <2>1, InStatusDoc, DocTypes DEF TypeInv, TypeOK
  <2>3. Load(t, Active, "cancel", "conflict", "not_found", Cancelled(job[j]))
    BY <1>4 DEF CancelLoad
  <2> QED BY <2>1, <2>2, <2>3, LoadTypes DEF Outcomes, Writes, Target
<1>5. CASE CancelStore(t)
  BY <1>5, StoreTypes DEF CancelStore, At, Writes, Outcomes
<1>6. CASE Cleanup(t)
  <2>1. PICK gone \in SUBSET Present, answer \in {"ok", "raised"} : Forget(t, gone, answer)
    BY <1>6, CleanupShape
  <2>2. call[t].op = "cleanup" /\ faults' \in 0..MaxFaults
    BY <1>6, CleanupShape
  <2>3. call[t] \in [op: Ops, at: Points, job: Jobs \union {None}, doc: Docs \union {None}]
    BY <2>2 DEF TypeInv, TypeOK, Calls, Idle
  <2>4. call' = [call EXCEPT ![t].at = answer, ![t].doc = call[t].doc]
    BY <2>1, <2>3 DEF Forget, TypeInv, TypeOK
  <2>5. call' \in [Tasks -> Calls] /\ \A u \in Tasks : CallOK(u)'
    <3>1. answer \in Points /\ answer \notin Writes \union {"create", "load", "provider", "accepted"}
      BY DEF Points, Outcomes, Writes
    <3>2. call[t] # Idle /\ call[t].doc \in Docs \union {None}
      BY <2>2, <2>3 DEF Idle
    <3> QED BY <2>4, <3>1, <3>2, MoveTypes
  <2>6. job' \in [Jobs -> Docs \union {None}]
    BY <2>1 DEF Forget, TypeInv, TypeOK
  <2>7. loop' \in Tasks \union {Startup, None}
    BY <2>1 DEF Forget, Keep
  <2>8. UNCHANGED <<issued, boot, handed, now, crashes>>
    BY <2>1 DEF Forget
  <2> QED BY <2>2, <2>5, <2>6, <2>7, <2>8 DEF TypeInv, TypeOK, Listed
<1> QED BY <1>1, <1>2, <1>3, <1>4, <1>5, <1>6 DEF RequestStep

\* Every step of a run keeps the types.
LEMMA RunStepTypes ==
  ASSUME TypeInv, NEW t \in Tasks, RunStep(t)
  PROVE  TypeInv'
<1> DEFINE j == call[t].job
<1>1. CASE RunLoad(t)
  <2>1. call[t].at = "load" /\ j \in Jobs
    BY <1>1 DEF RunLoad, At, TypeInv, CallOK
  <2>2. InStatus(j, {"queued"}) => Running(job[j]) \in Docs /\ Running(job[j]).status = "running"
    BY <2>1, InStatusDoc, DocTypes DEF TypeInv, TypeOK
  <2>3. Load(t, {"queued"}, "claim", "returned", "raised", Running(job[j]))
    BY <1>1 DEF RunLoad
  <2> QED BY <2>1, <2>2, <2>3, LoadTypes DEF Outcomes, Writes, Target
<1>2. CASE RunClaim(t)
  <2> DEFINE at == Answer(j, {"queued"}, "provider", "returned", "raised")
  <2>1. at \in {"provider", "returned", "raised"}
    BY DEF Answer
  <2>2. call[t] # Idle /\ j \in Jobs /\ call[t].doc \in Docs
    BY <1>2 DEF RunClaim, At, TypeInv, CallOK, Idle, Writes
  <2>3. call' = [call EXCEPT ![t].at = at, ![t].doc = None]
    BY <1>2 DEF RunClaim
  <2>4. call' \in [Tasks -> Calls] /\ \A u \in Tasks : CallOK(u)'
    <3> HIDE DEF at
    <3> QED BY <2>1, <2>2, <2>3, MoveTypes DEF Points, Outcomes, Writes
  <2>5. job' \in [Jobs -> Docs \union {None}]
    BY <1>2, <2>2, UpdateTypes DEF RunClaim, TypeInv
  <2>6. loop' \in Tasks \union {Startup, None}
    BY <1>2 DEF RunClaim
  <2>7. UNCHANGED <<issued, boot, handed, now, crashes, faults>>
    BY <1>2 DEF RunClaim
  <2> QED BY <2>4, <2>5, <2>6, <2>7 DEF TypeInv, TypeOK, Listed
<1>3. CASE ProviderSucceeds(t)
  <2>1. call[t].at = "provider" /\ j \in Jobs
    BY <1>3 DEF ProviderSucceeds, At, TypeInv, CallOK
  <2>2. InStatus(j, {"running"}) => Succeeded(job[j]) \in Docs /\ Succeeded(job[j]).status = "succeeded"
    BY <2>1, InStatusDoc, DocTypes DEF TypeInv, TypeOK
  <2>3. Load(t, {"running"}, "store_result", "returned", "raised", Succeeded(job[j]))
    BY <1>3 DEF ProviderSucceeds
  <2> QED BY <2>1, <2>2, <2>3, LoadTypes DEF Outcomes, Writes, Target
<1>4. CASE ProviderFails(t)
  <2>1. call[t].at = "provider" /\ j \in Jobs
    BY <1>4 DEF ProviderFails, At, TypeInv, CallOK
  <2>2. InStatus(j, {"running"}) => Failed(job[j], now) \in Docs /\ Failed(job[j], now).status = "failed"
    BY <2>1, InStatusDoc, DocTypes DEF TypeInv, TypeOK
  <2>3. Load(t, {"running"}, "store_failure", "returned", "raised", Failed(job[j], now))
    BY <1>4 DEF ProviderFails
  <2> QED BY <2>1, <2>2, <2>3, LoadTypes DEF Outcomes, Writes, Target
<1>5. CASE RunSettle(t)
  BY <1>5, StoreTypes DEF RunSettle, StoreResult, StoreFailure, At, Writes, Outcomes
<1> QED BY <1>1, <1>2, <1>3, <1>4, <1>5 DEF RunStep

\* A store fault, a return and a coroutine elsewhere keep the types.
LEMMA EndTypes ==
  ASSUME TypeInv, NEW t \in Tasks, StoreFault(t) \/ Return(t) \/ Elsewhere(t)
  PROVE  TypeInv'
<1>1. CASE StoreFault(t)
  <2>1. "raised" \in Points
        /\ "raised" \notin Writes \union {"create", "load", "provider", "accepted"}
    BY DEF Points, Outcomes, Writes
  <2>2. call[t] # Idle
    BY <1>1 DEF StoreFault, Idle, StoreCalls
  <2>3. call' = [call EXCEPT ![t].at = "raised", ![t].doc = None]
    BY <1>1 DEF StoreFault
  <2>4. call' \in [Tasks -> Calls] /\ \A u \in Tasks : CallOK(u)'
    BY <2>1, <2>2, <2>3, MoveTypes
  <2>5. loop' \in Tasks \union {Startup, None} /\ faults' \in 0..MaxFaults
    BY <1>1, BoundAssumption DEF StoreFault, Keep, TypeInv, TypeOK
  <2>6. UNCHANGED <<job, issued, boot, handed, now, crashes>>
    BY <1>1 DEF StoreFault
  <2> QED BY <2>4, <2>5, <2>6 DEF TypeInv, TypeOK, Listed
<1>2. CASE Return(t)
  <2>1. call' = [call EXCEPT ![t] = Idle] /\ Idle \in Calls
    BY <1>2 DEF Return, Calls
  <2>2. call' \in [Tasks -> Calls]
    BY <2>1 DEF TypeInv, TypeOK
  <2>3. \A u \in Tasks : CallOK(u)'
    BY <2>1 DEF TypeInv, TypeOK, CallOK, At, Idle, Writes
  <2>4. handed' \subseteq Jobs
    BY <1>2 DEF Return, TypeInv, TypeOK, CallOK
  <2>5. loop' \in Tasks \union {Startup, None}
        /\ UNCHANGED <<job, issued, boot, now, crashes, faults>>
    BY <1>2 DEF Return, TypeInv, TypeOK
  <2> QED BY <2>2, <2>3, <2>4, <2>5 DEF TypeInv, TypeOK, Listed
<1>3. CASE Elsewhere(t)
  BY <1>3 DEF Elsewhere, TypeInv, TypeOK, CallOK, At, Listed
<1> QED BY <1>1, <1>2, <1>3

\* Recovery takes one document off its list.
LEMMA WithoutTypes ==
  ASSUME TypeInv, NEW j \in Jobs, boot' = Without(j)
  PROVE  /\ boot'.at = boot.at /\ boot'.time = boot.time
         /\ Listed' = Listed \ {j}
         /\ \A k \in Listed' : boot'.todo[k] = boot.todo[k]
<1>1. boot' = [boot EXCEPT !.todo = [k \in Listed \ {j} |-> boot.todo[k]]]
  BY DEF Without
<1>2. boot'.todo = [k \in Listed \ {j} |-> boot.todo[k]]
  BY <1>1
<1> QED BY <1>1, <1>2 DEF Listed

\* Startup recovery keeps the types.
LEMMA RecoverTypes ==
  ASSUME TypeInv,
         RecoverList \/ (\E j \in Jobs : RecoverJob(j)) \/ RecoverDone
  PROVE  TypeInv'
<1>1. CASE RecoverList
  <2>1. \A j \in Jobs : InStatus(j, Active) => job[j] \in Docs
    BY InStatusDoc DEF TypeInv
  <2>2. /\ boot'.at = "scan" /\ boot'.time = now
        /\ boot'.todo = [j \in {k \in Jobs : InStatus(k, Active)} |-> job[j]]
    BY <1>1 DEF RecoverList
  <2>3. Listed' \subseteq Jobs /\ \A j \in Listed' : boot'.todo[j] \in Docs
    BY <2>1, <2>2 DEF Listed
  <2>4. loop' \in Tasks \union {Startup, None}
        /\ UNCHANGED <<job, issued, call, handed, now, crashes, faults>>
    BY <1>1 DEF RecoverList, Keep
  <2> QED BY <2>2, <2>3, <2>4 DEF TypeInv, TypeOK, CallOK, At
<1>2. ASSUME NEW j \in Jobs, RecoverJob(j) PROVE TypeInv'
  <2>1. j \in Listed /\ boot.todo[j] \in Docs /\ boot.time \in Times /\ now \in Times
    BY <1>2 DEF RecoverJob, RecoverStale, RecoverRunning, RecoverQueued, Newest,
                TypeInv, TypeOK
  <2>2. boot' = Without(j)
        /\ UNCHANGED <<issued, call, now, crashes, faults>>
        /\ loop' \in Tasks \union {Startup, None}
    BY <1>2 DEF RecoverJob, RecoverStale, RecoverRunning, RecoverQueued, Keep
  <2>3. boot'.at \in {"list", "scan", "up"} /\ boot'.time \in Times
        /\ Listed' \subseteq Jobs /\ \A k \in Listed' : boot'.todo[k] \in Docs
    BY <2>2, WithoutTypes DEF TypeInv, TypeOK
  <2>4. handed' \subseteq Jobs
    BY <1>2 DEF RecoverJob, RecoverStale, RecoverRunning, RecoverQueued, TypeInv, TypeOK
  <2>5. job' \in [Jobs -> Docs \union {None}]
    <3>1. CASE RecoverStale(j)
      <4>1. Failed(boot.todo[j], boot.time) \in Docs
        BY <2>1, DocTypes
      <4> QED BY <3>1, <4>1, UpdateTypes DEF RecoverStale, TypeInv
    <3>2. CASE RecoverRunning(j)
      <4>1. Requeued(boot.todo[j]) \in Docs
        BY <2>1, DocTypes
      <4> QED BY <3>2, <4>1, UpdateTypes DEF RecoverRunning, TypeInv
    <3>3. CASE RecoverQueued(j)
      BY <3>3 DEF RecoverQueued, TypeInv, TypeOK
    <3> QED BY <1>2, <3>1, <3>2, <3>3 DEF RecoverJob
  <2> QED BY <2>2, <2>3, <2>4, <2>5 DEF TypeInv, TypeOK, CallOK, At
<1>3. CASE RecoverDone
  <2>1. boot'.at = "up" /\ boot'.time = 0 /\ Listed' = {}
    BY <1>3 DEF RecoverDone, Starting, NoScan, Listed
  <2>2. loop' = None /\ UNCHANGED <<job, issued, call, handed, now, crashes, faults>>
    BY <1>3 DEF RecoverDone
  <2> QED BY <2>1, <2>2, BoundAssumption DEF TypeInv, TypeOK, CallOK, At, Times
<1> QED BY <1>1, <1>2, <1>3

\* Every step of the service keeps the types.
LEMMA TypeStep == TypeInv /\ [Next]_vars => TypeInv'
<1> SUFFICES ASSUME TypeInv, [Next]_vars PROVE TypeInv'
  OBVIOUS
<1>1. ASSUME NEW t \in Tasks, Request(t) \/ Deliver(t) PROVE TypeInv'
  BY <1>1, RequestTypes
<1>2. ASSUME NEW t \in Tasks, RequestStep(t) PROVE TypeInv'
  BY <1>2, RequestStepTypes
<1>3. ASSUME NEW t \in Tasks, RunStep(t) PROVE TypeInv'
  BY <1>3, RunStepTypes
<1>4. ASSUME NEW t \in Tasks, StoreFault(t) \/ Return(t) \/ Elsewhere(t) PROVE TypeInv'
  BY <1>4, EndTypes
<1>5. CASE RecoverList \/ (\E j \in Jobs : RecoverJob(j)) \/ RecoverDone
  BY <1>5, RecoverTypes
<1>6. CASE Crash
  <2>1. call' = [t \in Tasks |-> Idle] /\ Idle \in Calls
    BY <1>6 DEF Crash, Calls
  <2>2. boot'.at = "list" /\ boot'.time = 0 /\ Listed' = {} /\ 0 \in Times
    BY <1>6, BoundAssumption DEF Crash, Starting, NoScan, Listed, Times
  <2>3. crashes' \in 0..MaxCrashes
    BY <1>6, BoundAssumption DEF Crash, TypeInv, TypeOK
  <2>4. loop' = None /\ handed' = {} /\ UNCHANGED <<job, issued, now, faults>>
    BY <1>6 DEF Crash
  <2>5. call' \in [Tasks -> Calls] /\ \A u \in Tasks : CallOK(u)'
    BY <2>1 DEF CallOK, At, Idle, Writes
  <2> QED BY <2>2, <2>3, <2>4, <2>5 DEF TypeInv, TypeOK
<1>7. CASE Tick
  <2>1. now' \in Times
    BY <1>7, BoundAssumption DEF Tick, TypeInv, TypeOK, Times
  <2> QED BY <1>7, <2>1 DEF Tick, TypeInv, TypeOK, CallOK, At, Listed
<1>8. CASE UNCHANGED vars
  BY <1>8 DEF vars, TypeInv, TypeOK, CallOK, At, Listed
<1> QED BY <1>1, <1>2, <1>3, <1>4, <1>5, <1>6, <1>7, <1>8 DEF Next

\* The type invariant holds of the service for every instance: in particular no
\* command ever writes anything but a whole document over a document.
THEOREM TypeCorrect == Spec => []TypeOK
<1>1. Spec => []TypeInv
  BY TypeInit, TypeStep, PTL DEF Spec
<1>2. TypeInv => TypeOK
  BY DEF TypeInv
<1> QED BY <1>1, <1>2, PTL

----------------------------------------------------------------------------
(* One runner per job.  The claim takes a job from "queued", so a second task *)
(* can get past it only if the job became "queued" again while the first is   *)
(* at the provider.  Recovery alone queues a job again, and only one its list  *)
(* shows as running: such a job stays unclaimed until recovery reaches it.     *)

Given ==
  /\ Listed \subseteq 1..issued /\ Present \subseteq 1..issued
  /\ \A t \in Tasks :
       /\ call[t].op = "run" => call[t].job \in 1..issued
       /\ call[t].at = "accepted" => call[t].op # "run" /\ call[t].job \in 1..issued

\* Nothing runs before recovery has listed the active jobs.
Quiet == boot.at = "list" => handed = {} /\ \A t \in Tasks : call[t] = Idle

Interrupted ==
  \A j \in Listed : boot.todo[j].status = "running" =>
    /\ ~InStatus(j, {"queued"})
    /\ \A t \in Tasks : InFlight(t) => call[t].job # j

Claimed == \A t \in Tasks : InFlight(t) => ~InStatus(call[t].job, {"queued"})

RunnerInv == Given /\ Quiet /\ Interrupted /\ Claimed /\ OneRunner

\* What one store write does to each document.
LEMMA UpdateShape ==
  ASSUME TypeOK, NEW j \in Jobs, NEW doc \in Docs, NEW expected,
         UpdateIfStatus(j, doc, expected)
  PROVE  /\ \A k \in Jobs : k # j => job'[k] = job[k]
         /\ ~InStatus(j, expected) => job'[j] = job[j]
         /\ InStatus(j, expected) => /\ job'[j] \in Docs /\ job'[j] # None
                                     /\ job'[j].status = doc.status
<1>1. [doc EXCEPT !.updated = now] \in Docs
      /\ [doc EXCEPT !.updated = now].status = doc.status
  BY DEF TypeOK, Docs
<1> QED BY <1>1, NoneAssumption DEF UpdateIfStatus, TypeOK

\* The writes of a task after its arrival: they queue nothing, create nothing and
\* leave terminal documents alone.
Writing ==
  /\ \A j \in Jobs : InStatus(j, {"queued"})' => InStatus(j, {"queued"})
  /\ Present' \subseteq Present
  /\ \A j \in Jobs : InStatus(j, Terminal) => job'[j] \in {job[j], None}

\* A task goes on with its operation.
Advance(t) ==
  /\ call[t].op \in Ops /\ call[t].op # "none"
  /\ call'[t].op = call[t].op /\ call'[t].job = call[t].job
  /\ call'[t].at # "accepted"
  /\ \A u \in Tasks \ {t} : call'[u] = call[u]
  /\ UNCHANGED <<issued, boot, handed>>
  /\ Writing
  /\ InFlight(t)' => \/ InFlight(t)
                     \/ /\ InStatus(call[t].job, {"queued"})
                        /\ ~InStatus(call[t].job, {"queued"})'

\* A step that writes no document is a harmless one.
LEMMA NoWrite == ASSUME job' = job PROVE Writing
BY DEF Writing, InStatus, Present

\* A write guarded by active statuses, of a document that is not queued, is harmless.
LEMMA GuardedWrite ==
  ASSUME TypeOK, NEW j \in Jobs, NEW doc \in Docs, doc.status # "queued",
         NEW expected \in SUBSET Active, UpdateIfStatus(j, doc, expected)
  PROVE  Writing
<1>1. \A k \in Jobs : k # j => job'[k] = job[k]
  BY UpdateShape
<1>2. CASE InStatus(j, expected)
  <2>1. job'[j] # None /\ job'[j].status # "queued"
    BY <1>2, UpdateShape
  <2>2. ~InStatus(j, Terminal)
    BY <1>2 DEF InStatus, Active, Terminal
  <2> QED BY <1>1, <1>2, <2>1, <2>2 DEF Writing, InStatus, Present
<1>3. CASE ~InStatus(j, expected)
  <2>1. \A k \in Jobs : job'[k] = job[k]
    BY <1>1, <1>3, UpdateShape
  <2> QED BY <2>1 DEF Writing, InStatus, Present
<1> QED BY <1>2, <1>3

\* What moving one task to another point leaves alone.
LEMMA MoveShape ==
  ASSUME TypeInv, NEW t \in Tasks, call[t] # Idle, NEW at, NEW doc,
         call' = [call EXCEPT ![t].at = at, ![t].doc = doc]
  PROVE  /\ call[t].op \in Ops /\ call[t].op # "none"
         /\ call'[t].op = call[t].op /\ call'[t].job = call[t].job
         /\ call'[t].at = at
         /\ \A u \in Tasks \ {t} : call'[u] = call[u]
<1>1. call[t] \in [op: Ops, at: Points, job: Jobs \union {None}, doc: Docs \union {None}]
  BY DEF TypeInv, TypeOK, Calls
<1> QED BY <1>1 DEF TypeInv, TypeOK, Ops

\* A read takes the task on and brings it into flight only if it already was.
LEMMA LoadAdvances ==
  ASSUME TypeInv, NEW t \in Tasks, call[t].at \in {"load", "provider"},
         NEW expected, NEW next \in Writes \union {"create"},
         next \in {"store_result", "store_failure"} => call[t].at = "provider",
         NEW refused \in Outcomes \ {"accepted"}, NEW missing \in Outcomes \ {"accepted"},
         NEW doc, Load(t, expected, next, refused, missing, doc)
  PROVE  Advance(t)
<1> DEFINE at == Answer(call[t].job, expected, next, refused, missing)
           d == IF InStatus(call[t].job, expected) THEN doc ELSE None
<1>1. call' = [call EXCEPT ![t].at = at, ![t].doc = d]
      /\ UNCHANGED <<job, issued, boot, handed>>
  BY DEF Load
<1>2. at \in {next, refused, missing}
  BY DEF Answer
<1>3. call[t] # Idle
  BY DEF Idle
<1> HIDE DEF at, d
<1>4. /\ call[t].op \in Ops /\ call[t].op # "none"
      /\ call'[t].op = call[t].op /\ call'[t].job = call[t].job
      /\ call'[t].at = at
      /\ \A u \in Tasks \ {t} : call'[u] = call[u]
  BY <1>1, <1>3, MoveShape
<1>5. at # "accepted" /\ (at \in {"provider", "store_result", "store_failure"}
                           => call[t].at = "provider")
  BY <1>2 DEF Writes, Outcomes
<1>6. InFlight(t)' => InFlight(t)
  BY <1>4, <1>5 DEF InFlight
<1> QED BY <1>1, <1>4, <1>5, <1>6, NoWrite DEF Advance

\* A guarded write takes the task on and out of flight.
LEMMA StoreAdvances ==
  ASSUME TypeInv, NEW t \in Tasks, call[t].at \in Writes,
         NEW expected \in SUBSET Active, NEW next \in Outcomes \ {"accepted"},
         NEW refused \in Outcomes \ {"accepted"}, NEW missing \in Outcomes \ {"accepted"},
         Store(t, expected, next, refused, missing)
  PROVE  Advance(t)
<1> DEFINE at == Answer(call[t].job, expected, next, refused, missing)
<1>1. call' = [call EXCEPT ![t].at = at, ![t].doc = None]
      /\ UNCHANGED <<issued, boot, handed>>
      /\ UpdateIfStatus(call[t].job, call[t].doc, expected)
  BY DEF Store
<1>2. at \in Outcomes \ {"accepted"}
  BY DEF Answer
<1>3. call[t] # Idle /\ call[t].job \in Jobs /\ call[t].doc \in Docs
      /\ call[t].doc.status # "queued"
  BY DEF Idle, Writes, TypeInv, CallOK, Target
<1> HIDE DEF at
<1>4. /\ call[t].op \in Ops /\ call[t].op # "none"
      /\ call'[t].op = call[t].op /\ call'[t].job = call[t].job
      /\ call'[t].at = at
      /\ \A u \in Tasks \ {t} : call'[u] = call[u]
  BY <1>1, <1>3, MoveShape
<1>5. at # "accepted" /\ ~InFlight(t)'
  BY <1>2, <1>4 DEF InFlight, Outcomes
<1>6. Writing
  BY <1>1, <1>3, GuardedWrite DEF TypeInv
<1> QED BY <1>1, <1>4, <1>5, <1>6 DEF Advance

\* Every step of an operation in progress, but the creation of a job and the reply.
LEMMA StepsAdvance ==
  ASSUME TypeInv, NEW t \in Tasks,
         \/ RetryLoad(t) \/ CancelLoad(t) \/ CancelStore(t) \/ Cleanup(t)
         \/ RunStep(t) \/ StoreFault(t)
  PROVE  Advance(t)
<1>1. CASE RetryLoad(t)
  BY <1>1, LoadAdvances DEF RetryLoad, At, Outcomes
<1>2. CASE CancelLoad(t)
  BY <1>2, LoadAdvances DEF CancelLoad, At, Outcomes, Writes
<1>3. CASE CancelStore(t)
  BY <1>3, StoreAdvances DEF CancelStore, At, Outcomes, Writes, Active
<1>4. CASE Cleanup(t)
  <2>1. PICK gone \in SUBSET Present, answer \in {"ok", "raised"} : Forget(t, gone, answer)
    BY <1>4, CleanupShape
  <2>2. call[t].op = "cleanup" /\ call' = [call EXCEPT ![t].at = answer]
        /\ UNCHANGED <<issued, boot, handed>>
    BY <1>4, <2>1, CleanupShape DEF Forget
  <2>3. call[t] \in [op: Ops, at: Points, job: Jobs \union {None}, doc: Docs \union {None}]
    BY <2>2 DEF TypeInv, TypeOK, Calls, Idle
  <2>4. /\ call'[t].op = call[t].op /\ call'[t].job = call[t].job /\ call'[t].at = answer
        /\ \A u \in Tasks \ {t} : call'[u] = call[u]
    BY <2>2, <2>3 DEF TypeInv, TypeOK
  <2>5. \A j \in Jobs : job'[j] \in {job[j], None}
    BY <2>1 DEF Forget
  <2>6. Writing
    BY <2>5 DEF Writing, InStatus, Present
  <2> QED BY <2>2, <2>4, <2>6 DEF Advance, InFlight, Ops
<1>5. CASE RunLoad(t)
  BY <1>5, LoadAdvances DEF RunLoad, At, Outcomes, Writes
<1>6. CASE RunClaim(t)
  <2> DEFINE at == Answer(call[t].job, {"queued"}, "provider", "returned", "raised")
  <2>1. call' = [call EXCEPT ![t].at = at, ![t].doc = None]
        /\ UNCHANGED <<issued, boot, handed>>
        /\ UpdateIfStatus(call[t].job, call[t].doc, {"queued"})
    BY <1>6 DEF RunClaim
  <2>2. call[t] # Idle /\ call[t].job \in Jobs /\ call[t].doc \in Docs
        /\ call[t].doc.status = "running"
    BY <1>6 DEF RunClaim, At, Idle, Writes, TypeInv, CallOK, Target
  <2>3. at \in {"provider", "returned", "raised"}
        /\ (at = "provider" => InStatus(call[t].job, {"queued"}))
    BY DEF Answer, InStatus
  <2> HIDE DEF at
  <2>4. /\ call[t].op \in Ops /\ call[t].op # "none"
        /\ call'[t].op = call[t].op /\ call'[t].job = call[t].job
        /\ call'[t].at = at
        /\ \A u \in Tasks \ {t} : call'[u] = call[u]
    BY <2>1, <2>2, MoveShape
  <2>5. Writing
    BY <2>1, <2>2, GuardedWrite DEF TypeInv, Active
  <2>6. ASSUME InFlight(t)'
        PROVE  InStatus(call[t].job, {"queued"}) /\ ~InStatus(call[t].job, {"queued"})'
    <3>1. InStatus(call[t].job, {"queued"})
      BY <2>3, <2>4, <2>6 DEF InFlight
    <3>2. job'[call[t].job].status = "running"
      BY <2>1, <2>2, <3>1, UpdateShape DEF TypeInv
    <3>3. ~InStatus(call[t].job, {"queued"})'
      BY <2>4, <3>2 DEF InStatus
    <3> QED BY <3>1, <3>3
  <2> QED BY <2>1, <2>3, <2>4, <2>5, <2>6 DEF Advance
<1>7. CASE ProviderSucceeds(t)
  BY <1>7, LoadAdvances DEF ProviderSucceeds, At, Outcomes, Writes
<1>8. CASE ProviderFails(t)
  BY <1>8, LoadAdvances DEF ProviderFails, At, Outcomes, Writes
<1>9. CASE RunSettle(t)
  BY <1>9, StoreAdvances DEF RunSettle, StoreResult, StoreFailure, At, Outcomes, Writes, Active
<1>10. CASE StoreFault(t)
  <2>1. call' = [call EXCEPT ![t].at = "raised", ![t].doc = None] /\ call[t] # Idle
        /\ UNCHANGED <<job, issued, boot, handed>>
    BY <1>10 DEF StoreFault, StoreCalls, Idle
  <2>2. /\ call[t].op \in Ops /\ call[t].op # "none"
        /\ call'[t].op = call[t].op /\ call'[t].job = call[t].job
        /\ call'[t].at = "raised"
        /\ \A u \in Tasks \ {t} : call'[u] = call[u]
    BY <2>1, MoveShape
  <2> QED BY <2>1, <2>2, NoWrite DEF Advance, InFlight
<1> QED BY <1>1, <1>2, <1>3, <1>4, <1>5, <1>6, <1>7, <1>8, <1>9, <1>10 DEF RunStep


\* The runner invariant holds initially.
LEMMA RunnerInit == Init => RunnerInv
BY BoundAssumption DEF Init, RunnerInv, Given, Quiet, Interrupted, Claimed, OneRunner,
   InFlight, Idle, Starting, NoScan, Listed, Present

\* A task that goes on keeps one runner per job: if it got past the claim now, the
\* job was queued until this step and no other task was at the provider with it.
LEMMA AdvanceRunner ==
  ASSUME TypeInv, RunnerInv, NEW t \in Tasks, Advance(t)
  PROVE  RunnerInv'
<1>1. Listed' = Listed /\ boot' = boot /\ handed' = handed /\ issued' = issued
  BY DEF Advance, Listed
<1>2. Given'
  <2>1. Present' \subseteq 1..issued'
    BY <1>1 DEF Advance, Writing, RunnerInv, Given
  <2>2. ASSUME NEW u \in Tasks
        PROVE  /\ call'[u].op = "run" => call'[u].job \in 1..issued
               /\ call'[u].at = "accepted" => call'[u].op # "run" /\ call'[u].job \in 1..issued
    BY DEF Advance, RunnerInv, Given
  <2> QED BY <1>1, <2>1, <2>2 DEF RunnerInv, Given
<1>3. Quiet'
  <2>1. boot.at # "list"
    BY DEF Advance, RunnerInv, Quiet, Idle
  <2> QED BY <1>1, <2>1 DEF Quiet
<1>4. \A u \in Tasks \ {t} : InFlight(u)' => InFlight(u) /\ call'[u] = call[u]
  BY DEF Advance, InFlight
<1>5. \A u \in Tasks : call'[u].job = call[u].job
  BY DEF Advance
<1>6. Interrupted'
  <2> SUFFICES ASSUME NEW j \in Listed, boot.todo[j].status = "running"
               PROVE  /\ ~InStatus(j, {"queued"})'
                      /\ \A u \in Tasks : InFlight(u)' => call'[u].job # j
    BY <1>1 DEF Interrupted
  <2>1. ~InStatus(j, {"queued"}) /\ \A u \in Tasks : InFlight(u) => call[u].job # j
    BY DEF RunnerInv, Interrupted
  <2>2. ~InStatus(j, {"queued"})'
    BY <2>1 DEF Advance, Writing, TypeInv, TypeOK
  <2>3. InFlight(t)' => call[t].job # j
    BY <2>1 DEF Advance
  <2> QED BY <1>4, <1>5, <2>1, <2>2, <2>3
<1>7. Claimed'
  <2> SUFFICES ASSUME NEW u \in Tasks, InFlight(u)', InStatus(call[u].job, {"queued"})'
               PROVE FALSE
    BY DEF Claimed
  <2>1. InStatus(call[u].job, {"queued"})
    BY <1>5 DEF Advance, Writing, InStatus, Present
  <2>2. CASE u = t
    BY <2>1, <2>2 DEF Advance, RunnerInv, Claimed
  <2>3. CASE u # t
    BY <1>4, <2>1, <2>3 DEF RunnerInv, Claimed
  <2> QED BY <2>2, <2>3
<1>8. OneRunner'
  <2> SUFFICES ASSUME NEW u \in Tasks, NEW v \in Tasks, InFlight(u)', InFlight(v)', u # v,
                      call'[u].job = call'[v].job
               PROVE FALSE
    BY DEF OneRunner
  <2>1. ~(InFlight(u) /\ InFlight(v))
    BY <1>5 DEF RunnerInv, OneRunner
  <2>2. InStatus(call[t].job, {"queued"}) /\ t \in {u, v}
    BY <1>4, <2>1 DEF Advance
  <2>3. \E w \in {u, v} : InFlight(w) /\ call[w].job = call[t].job
    BY <1>4, <1>5, <2>2
  <2> QED BY <2>2, <2>3 DEF RunnerInv, Claimed
<1> QED BY <1>2, <1>3, <1>6, <1>7, <1>8 DEF RunnerInv

\* Steps that start no provider call and queue no job a task is at the provider with.
LEMMA QuietRunner ==
  ASSUME TypeInv, RunnerInv, Given', Quiet', Interrupted',
         \A u \in Tasks : InFlight(u)' => InFlight(u) /\ call'[u].job = call[u].job,
         \A u \in Tasks : InFlight(u) /\ InStatus(call[u].job, {"queued"})'
                            => InStatus(call[u].job, {"queued"})
  PROVE  RunnerInv'
BY DEF RunnerInv, Claimed, OneRunner

\* A new operation is not in flight, so it keeps one runner per job.
LEMMA ArriveRunner ==
  ASSUME TypeInv, RunnerInv, NEW t \in Tasks, NEW op \in Ops,
         NEW point \in {"load", "create", "delete"}, NEW j \in Jobs \union {None},
         Arrive(t, op, point, j), boot.at # "list",
         op = "run" => j \in 1..issued
  PROVE  RunnerInv'
<1> DEFINE c == [op |-> op, at |-> point, job |-> j, doc |-> None]
<1>1. call' = [call EXCEPT ![t] = c] /\ UNCHANGED <<job, issued, boot, handed>>
  BY DEF Arrive
<1>2. call'[t] = c /\ \A u \in Tasks \ {t} : call'[u] = call[u]
  BY <1>1 DEF TypeInv, TypeOK
<1>3. c.at = point /\ c.op = op /\ c.job = j
  OBVIOUS
<1> HIDE DEF c
<1>4. Listed' = Listed /\ Present' = Present
  BY <1>1 DEF Listed, Present
<1>5. \A u \in Tasks : InFlight(u)' => InFlight(u) /\ u # t
  BY <1>2, <1>3 DEF InFlight
<1>6. \A u \in Tasks : InFlight(u) => u # t
  BY DEF Arrive, InFlight, Idle
<1>7. Given' /\ Quiet'
  BY <1>1, <1>2, <1>3, <1>4 DEF RunnerInv, Given, Quiet
<1>8. Interrupted'
  BY <1>1, <1>2, <1>4, <1>5 DEF RunnerInv, Interrupted, InStatus
<1>9. \A u \in Tasks : InFlight(u) /\ InStatus(call[u].job, {"queued"})'
                         => InStatus(call[u].job, {"queued"})
  BY <1>1, <1>2, <1>4, <1>6 DEF InStatus
<1> QED BY <1>2, <1>5, <1>7, <1>8, <1>9, QuietRunner

\* Requests that arrive and jobs that are delivered keep one runner per job.
LEMMA RequestRunner ==
  ASSUME TypeInv, RunnerInv, NEW t \in Tasks, Request(t) \/ Deliver(t)
  PROVE  RunnerInv'
<1>1. 1..issued \subseteq Jobs
  BY BoundAssumption DEF TypeInv, TypeOK, Jobs
<1>2. ASSUME Arrive(t, "submit", "create", None), boot.at = "up" PROVE RunnerInv'
  BY <1>2, ArriveRunner DEF Ops
<1>3. ASSUME NEW j \in 1..issued, boot.at = "up", Arrive(t, "retry", "load", j)
      PROVE RunnerInv'
  BY <1>1, <1>3, ArriveRunner DEF Ops
<1>4. ASSUME NEW j \in 1..issued, boot.at = "up", Arrive(t, "cancel", "load", j)
      PROVE RunnerInv'
  BY <1>1, <1>4, ArriveRunner DEF Ops
<1>5. ASSUME Arrive(t, "cleanup", "delete", None), boot.at = "up" PROVE RunnerInv'
  BY <1>5, ArriveRunner DEF Ops
<1>6. ASSUME handed # {}, NEW j \in 1..issued, Arrive(t, "run", "load", j)
      PROVE RunnerInv'
  <2>1. boot.at # "list"
    BY <1>6 DEF RunnerInv, Quiet
  <2> QED BY <1>1, <1>6, <2>1, ArriveRunner DEF Ops
<1> QED BY <1>2, <1>3, <1>4, <1>5, <1>6 DEF Request, Deliver

\* A new job gets an id no task can have in flight.
LEMMA CreateRunner ==
  ASSUME TypeInv, RunnerInv, NEW t \in Tasks, call[t].op \in {"submit", "retry"},
         NEW doc, CreateJob(t, doc)
  PROVE  RunnerInv'
<1> DEFINE j == issued + 1
           c == [op |-> call[t].op, at |-> "accepted", job |-> j, doc |-> None]
<1>1. j \in Jobs /\ issued' = j /\ j \notin 1..issued /\ 1..issued' = 1..issued \union {j}
  BY BoundAssumption DEF CreateJob, TypeInv, TypeOK, Jobs
<1>2. call'[t] = c /\ \A u \in Tasks \ {t} : call'[u] = call[u]
  BY DEF CreateJob, TypeInv, TypeOK
<1>3. c.at = "accepted" /\ c.op = call[t].op /\ c.job = j
  OBVIOUS
<1> HIDE DEF c
<1>4. job' = [job EXCEPT ![j] = doc] /\ UNCHANGED <<boot, handed>>
  BY DEF CreateJob
<1>5. \A k \in Jobs : k # j => job'[k] = job[k]
  BY <1>4 DEF TypeInv, TypeOK
<1>6. Listed' = Listed /\ boot' = boot /\ handed' = handed
  BY <1>4 DEF Listed
<1>7. Given'
  <2>1. Present' \subseteq 1..issued'
    BY <1>1, <1>5 DEF Present, RunnerInv, Given
  <2> QED BY <1>1, <1>2, <1>3, <1>6, <2>1 DEF RunnerInv, Given
<1>8. Quiet'
  BY <1>6 DEF RunnerInv, Quiet, Idle
<1>9. \A u \in Tasks : InFlight(u)' => InFlight(u) /\ call'[u].job = call[u].job
  BY <1>2, <1>3 DEF InFlight
<1>10. \A u \in Tasks : InFlight(u) => u # t /\ call[u].job # j
  BY <1>1 DEF InFlight, RunnerInv, Given
<1>11. Interrupted'
  BY <1>1, <1>5, <1>6, <1>9 DEF RunnerInv, Interrupted, Given, InStatus, Present
<1>12. \A u \in Tasks : InFlight(u) /\ InStatus(call[u].job, {"queued"})'
                         => InStatus(call[u].job, {"queued"})
  BY <1>2, <1>5, <1>10 DEF InStatus, Present
<1> QED BY <1>7, <1>8, <1>9, <1>11, <1>12, QuietRunner

\* Recovery queues a job again only if its list shows it running: no task can be at
\* the provider with it.
LEMMA RecoverRunner ==
  ASSUME TypeInv, RunnerInv,
         RecoverList \/ (\E j \in Jobs : RecoverJob(j)) \/ RecoverDone
  PROVE  RunnerInv'
<1>1. CASE RecoverList
  <2>1. boot'.at = "scan" /\ boot.at = "list" /\ UNCHANGED <<job, issued, call, handed>>
        /\ boot'.todo = [j \in {k \in Jobs : InStatus(k, Active)} |-> job[j]]
    BY <1>1 DEF RecoverList
  <2>2. Listed' = {k \in Jobs : InStatus(k, Active)}
        /\ \A j \in Listed' : boot'.todo[j] = job[j]
    BY <2>1 DEF Listed
  <2>3. \A t \in Tasks : ~InFlight(t) /\ ~InFlight(t)'
    BY <2>1 DEF RunnerInv, Quiet, InFlight, Idle
  <2>4. Given' /\ Quiet'
    BY <2>1, <2>2 DEF RunnerInv, Given, Quiet, Present, InStatus
  <2>5. Interrupted'
    BY <2>1, <2>2, <2>3 DEF Interrupted, InStatus, Present
  <2> QED BY <2>3, <2>4, <2>5, QuietRunner
<1>2. ASSUME NEW j \in Jobs, RecoverJob(j) PROVE RunnerInv'
  <2>1. j \in Listed /\ boot.todo[j] \in Docs /\ boot.time \in Times /\ now \in Times
        /\ boot.at = "scan"
    BY <1>2 DEF RecoverJob, RecoverStale, RecoverRunning, RecoverQueued, Newest,
                TypeInv, TypeOK
  <2>2. boot' = Without(j) /\ UNCHANGED <<issued, call>>
    BY <1>2 DEF RecoverJob, RecoverStale, RecoverRunning, RecoverQueued
  <2>3. boot'.at = "scan" /\ Listed' = Listed \ {j}
        /\ \A k \in Listed' : boot'.todo[k] = boot.todo[k]
    BY <2>1, <2>2, WithoutTypes
  <2>4. /\ \A k \in Jobs : k # j => job'[k] = job[k]
        /\ boot.todo[j].status = "running"
           \/ (InStatus(j, {"queued"})' => InStatus(j, {"queued"}))
    <3>1. CASE RecoverStale(j)
      <4>1. Failed(boot.todo[j], boot.time) \in Docs
            /\ Failed(boot.todo[j], boot.time).status = "failed"
        BY <2>1, DocTypes
      <4>2. \A k \in Jobs : k # j => job'[k] = job[k]
        BY <3>1, <4>1, UpdateShape DEF RecoverStale, TypeInv
      <4>3. job'[j] = job[j] \/ job'[j].status = "failed"
        BY <3>1, <4>1, UpdateShape DEF RecoverStale, TypeInv
      <4> QED BY <4>2, <4>3 DEF InStatus, Present
    <3>2. CASE RecoverRunning(j)
      <4>1. Requeued(boot.todo[j]) \in Docs
        BY <2>1, DocTypes
      <4> QED BY <3>2, <4>1, UpdateShape DEF RecoverRunning, TypeInv
    <3>3. CASE RecoverQueued(j)
      BY <3>3 DEF RecoverQueued, InStatus, Present
    <3> QED BY <1>2, <3>1, <3>2, <3>3 DEF RecoverJob
  <2>5. j \in 1..issued
    BY <2>1 DEF RunnerInv, Given
  <2>6. Given' /\ Quiet'
    <3>1. Present' \subseteq 1..issued'
      BY <2>2, <2>4, <2>5 DEF Present, RunnerInv, Given
    <3> QED BY <2>2, <2>3, <3>1 DEF RunnerInv, Given, Quiet
  <2>7. \A u \in Tasks : InFlight(u)' => InFlight(u) /\ call'[u].job = call[u].job
    BY <2>2 DEF InFlight
  <2>8. Interrupted'
    BY <2>2, <2>3, <2>4, <2>7 DEF RunnerInv, Interrupted, InStatus, Present, TypeInv, TypeOK
  <2>9. \A u \in Tasks : InFlight(u) /\ InStatus(call[u].job, {"queued"})'
                           => InStatus(call[u].job, {"queued"})
    BY <2>1, <2>2, <2>4 DEF RunnerInv, Interrupted, InStatus, Present
  <2> QED BY <2>6, <2>7, <2>8, <2>9, QuietRunner
<1>3. CASE RecoverDone
  <2>1. boot'.at = "up" /\ Listed' = {} /\ UNCHANGED <<job, issued, call, handed>>
    BY <1>3 DEF RecoverDone, Starting, NoScan, Listed
  <2>2. Given' /\ Quiet' /\ Interrupted'
    BY <2>1 DEF RunnerInv, Given, Quiet, Interrupted, Present
  <2> QED BY <2>1, <2>2, QuietRunner DEF InFlight, InStatus, Present
<1> QED BY <1>1, <1>2, <1>3

\* A task that ends keeps one runner per job.
LEMMA ReturnRunner ==
  ASSUME TypeInv, RunnerInv, NEW t \in Tasks, Return(t)
  PROVE  RunnerInv'
<1>1. call' = [call EXCEPT ![t] = Idle] /\ UNCHANGED <<job, issued, boot>>
      /\ handed' = IF call[t].at = "accepted" THEN handed \union {call[t].job} ELSE handed
  BY DEF Return
<1>2. call'[t] = Idle /\ \A u \in Tasks \ {t} : call'[u] = call[u]
  BY <1>1 DEF TypeInv, TypeOK
<1>3. Listed' = Listed /\ Present' = Present /\ Idle.op = "none" /\ Idle.at = "idle"
  BY <1>1 DEF Listed, Present, Idle
<1>4. call[t] # Idle
  BY DEF Return, Outcomes, Idle
<1>5. Given' /\ Quiet'
  BY <1>1, <1>2, <1>3, <1>4 DEF RunnerInv, Given, Quiet
<1>6. \A u \in Tasks : InFlight(u)' => InFlight(u) /\ call'[u].job = call[u].job
  BY <1>2, <1>3 DEF InFlight
<1>7. \A u \in Tasks : InFlight(u) => u # t
  BY DEF Return, InFlight, Outcomes
<1>8. Interrupted'
  BY <1>1, <1>2, <1>3, <1>6 DEF RunnerInv, Interrupted, InStatus
<1>9. \A u \in Tasks : InFlight(u) /\ InStatus(call[u].job, {"queued"})'
                         => InStatus(call[u].job, {"queued"})
  BY <1>1, <1>2, <1>3, <1>7 DEF InStatus
<1> QED BY <1>5, <1>6, <1>8, <1>9, QuietRunner

\* Every step of the service keeps one runner per job.
LEMMA RunnerStep == TypeInv /\ RunnerInv /\ [Next]_vars => RunnerInv'
<1> SUFFICES ASSUME TypeInv, RunnerInv, [Next]_vars PROVE RunnerInv'
  OBVIOUS
<1>1. ASSUME NEW t \in Tasks, Request(t) \/ Deliver(t) PROVE RunnerInv'
  BY <1>1, RequestRunner
<1>2. ASSUME NEW t \in Tasks, RequestStep(t) PROVE RunnerInv'
  <2>1. CASE Submit(t)
    BY <2>1, CreateRunner DEF Submit, At
  <2>2. CASE RetryCreate(t)
    BY <2>2, CreateRunner DEF RetryCreate, At
  <2>3. CASE RetryLoad(t) \/ CancelLoad(t) \/ CancelStore(t) \/ Cleanup(t)
    BY <2>3, StepsAdvance, AdvanceRunner
  <2> QED BY <1>2, <2>1, <2>2, <2>3 DEF RequestStep
<1>3. ASSUME NEW t \in Tasks, RunStep(t) \/ StoreFault(t) PROVE RunnerInv'
  BY <1>3, StepsAdvance, AdvanceRunner
<1>4. ASSUME NEW t \in Tasks, Return(t) PROVE RunnerInv'
  BY <1>4, ReturnRunner
<1>5. CASE RecoverList \/ (\E j \in Jobs : RecoverJob(j)) \/ RecoverDone
  BY <1>5, RecoverRunner
<1>6. CASE Crash
  <2>1. call' = [t \in Tasks |-> Idle] /\ handed' = {} /\ UNCHANGED <<job, issued>>
        /\ boot'.at = "list" /\ Listed' = {}
    BY <1>6 DEF Crash, Starting, NoScan, Listed
  <2>2. \A u \in Tasks : ~InFlight(u)'
    BY <2>1 DEF InFlight, Idle
  <2>3. Given' /\ Quiet' /\ Interrupted'
    BY <2>1 DEF RunnerInv, Given, Quiet, Interrupted, Present, Idle
  <2> QED BY <2>2, <2>3 DEF RunnerInv, Claimed, OneRunner
<1>7. CASE Tick \/ UNCHANGED vars \/ \E t \in Tasks : Elsewhere(t)
  <2>1. UNCHANGED <<job, issued, call, boot, handed>>
    BY <1>7 DEF Tick, vars, Elsewhere
  <2>2. Given' /\ Quiet' /\ Interrupted'
    BY <2>1 DEF RunnerInv, Given, Quiet, Interrupted, InFlight, Listed, Present, InStatus
  <2> QED BY <2>1, <2>2, QuietRunner DEF InFlight, InStatus, Present
<1> QED BY <1>1, <1>2, <1>3, <1>4, <1>5, <1>6, <1>7 DEF Next

\* The type invariant and the runner invariant hold in every reachable state; every
\* other theorem of the service starts from here.
THEOREM Invariance == Spec => [](TypeInv /\ RunnerInv)
<1>1. Init => TypeInv /\ RunnerInv
  BY TypeInit, RunnerInit
<1>2. TypeInv /\ RunnerInv /\ [Next]_vars => TypeInv' /\ RunnerInv'
  BY TypeStep, RunnerStep
<1> QED BY <1>1, <1>2, PTL DEF Spec

\* Two provider calls in progress are never for the same job, for any number of
\* tasks and deliveries, across process deaths, whether or not the store suspends.
THEOREM OneRunnerAlways == Spec => []OneRunner
<1>1. TypeInv /\ RunnerInv => OneRunner
  BY DEF RunnerInv
<1> QED BY <1>1, Invariance, PTL

----------------------------------------------------------------------------
(* A terminal status is final. *)

\* Recovery leaves documents in a terminal status as they are.
LEMMA RecoverWrites ==
  ASSUME TypeInv, NEW j \in Jobs, RecoverJob(j), NEW k \in Jobs, InStatus(k, Terminal)
  PROVE  job'[k] = job[k]
<1>1. boot.todo[j] \in Docs /\ boot.time \in Times /\ now \in Times
  BY DEF RecoverJob, RecoverStale, RecoverRunning, RecoverQueued, Newest, TypeInv, TypeOK
<1>2. ~InStatus(k, Active) /\ ~InStatus(k, {"running"})
  BY DEF InStatus, Active, Terminal
<1>3. CASE RecoverStale(j)
  <2>1. Failed(boot.todo[j], boot.time) \in Docs
    BY <1>1, DocTypes
  <2> QED BY <1>2, <1>3, <2>1, UpdateShape DEF RecoverStale, TypeInv
<1>4. CASE RecoverRunning(j)
  <2>1. Requeued(boot.todo[j]) \in Docs
    BY <1>1, DocTypes
  <2> QED BY <1>2, <1>4, <2>1, UpdateShape DEF RecoverRunning, TypeInv
<1>5. CASE RecoverQueued(j)
  BY <1>5 DEF RecoverQueued
<1> QED BY <1>3, <1>4, <1>5 DEF RecoverJob

\* Every step of the service leaves a terminal document alone or removes it.
LEMMA TerminalStep ==
  TypeInv /\ RunnerInv /\ [Next]_vars =>
    \A j \in Jobs : InStatus(j, Terminal) => job'[j] \in {job[j], None}
<1> SUFFICES ASSUME TypeInv, RunnerInv, [Next]_vars, NEW j \in Jobs, InStatus(j, Terminal)
             PROVE  job'[j] \in {job[j], None}
  OBVIOUS
<1>1. ASSUME NEW t \in Tasks, Request(t) \/ Deliver(t) PROVE job' = job
  BY <1>1 DEF Request, Deliver, Arrive
<1>2. ASSUME NEW t \in Tasks, RequestStep(t) PROVE job'[j] \in {job[j], None}
  <2>1. j # issued + 1
    BY DEF InStatus, RunnerInv, Given, TypeInv, TypeOK
  <2>2. CASE Submit(t) \/ RetryCreate(t)
    BY <2>1, <2>2 DEF Submit, RetryCreate, CreateJob, TypeInv, TypeOK
  <2>3. CASE RetryLoad(t) \/ CancelLoad(t) \/ CancelStore(t) \/ Cleanup(t)
    BY <2>3, StepsAdvance DEF Advance, Writing
  <2> QED BY <1>2, <2>2, <2>3 DEF RequestStep
<1>3. ASSUME NEW t \in Tasks, RunStep(t) \/ StoreFault(t) PROVE job'[j] \in {job[j], None}
  BY <1>3, StepsAdvance DEF Advance, Writing
<1>4. ASSUME NEW t \in Tasks, Return(t) \/ Elsewhere(t) PROVE job' = job
  BY <1>4 DEF Return, Elsewhere
<1>5. CASE RecoverList \/ RecoverDone \/ Crash \/ Tick \/ UNCHANGED vars
  BY <1>5 DEF RecoverList, RecoverDone, Crash, Tick, vars
<1>6. ASSUME NEW k \in Jobs, RecoverJob(k) PROVE job'[j] = job[j]
  BY <1>6, RecoverWrites
<1> QED BY <1>1, <1>2, <1>3, <1>4, <1>5, <1>6 DEF Next

\* No write ever changes a terminal document: a cancelled job is not overwritten by
\* the result of the provider call it could not stop, and only cleanup removes it.
THEOREM TerminalFinal == Spec => TerminalIsFinal
<1>1. TypeInv /\ RunnerInv /\ [Next]_vars =>
        [\A j \in Jobs : InStatus(j, Terminal) => job'[j] \in {job[j], None}]_vars
  BY TerminalStep
<1> QED BY <1>1, Invariance, PTL DEF Spec, TerminalIsFinal

----------------------------------------------------------------------------
(* Refinement of JobLifecycle, and what runs, recovery, retries and           *)
(* cancellations guarantee                                                    *)

\* What a reader of the store sees of every id.
Seen == [j \in Jobs |-> StatusOf(j)]

----------------------------------------------------------------------------
(* Steps of one document *)

\* Nothing changes for readers when neither documents nor the id counter do.
LEMMA SeenSame == ASSUME job' = job, issued' = issued PROVE Seen' = Seen
BY DEF Seen, StatusOf, Present

\* If one document changes, along an edge of the status machine, that is a Move.
LEMMA OneMove ==
  ASSUME NEW j \in Jobs, issued' = issued,
         \A k \in Jobs : k # j => job'[k] = job[k],
         <<StatusOf(j), StatusOf(j)'>> \in Lifecycle!Moves
  PROVE  Lifecycle!Move(j)
<1>1. StatusOf(j)' \in Lifecycle!States
  BY DEF Lifecycle!Moves, Lifecycle!States, Lifecycle!Statuses, Lifecycle!Active,
         Lifecycle!Terminal
<1>2. \A k \in Jobs : k # j => StatusOf(k)' = StatusOf(k)
  BY DEF StatusOf, Present
<1>3. Seen' = [Seen EXCEPT ![j] = StatusOf(j)']
  BY <1>2 DEF Seen
<1> QED BY <1>1, <1>3 DEF Lifecycle!Move, Seen

\* A guarded write of a document moves the job, if every status the guard lets pass
\* has an edge to the status of the document.
LEMMA GuardedMove ==
  ASSUME TypeOK, NEW j \in Jobs, NEW doc \in Docs, NEW expected,
         UpdateIfStatus(j, doc, expected), issued' = issued,
         \A s \in expected : <<s, doc.status>> \in Lifecycle!Moves
  PROVE  Lifecycle!Move(j) \/ Seen' = Seen
<1>1. \A k \in Jobs : k # j => job'[k] = job[k]
  BY UpdateShape
<1>2. CASE InStatus(j, expected)
  <2>1. job'[j] # None /\ job'[j].status = doc.status
    BY <1>2, UpdateShape
  <2>2. StatusOf(j)' = doc.status /\ StatusOf(j) = job[j].status /\ job[j].status \in expected
    BY <1>2, <2>1 DEF StatusOf, Present, InStatus
  <2> QED BY <1>1, <2>2, OneMove
<1>3. CASE ~InStatus(j, expected)
  <2>1. \A k \in Jobs : job'[k] = job[k]
    BY <1>1, <1>3, UpdateShape
  <2> QED BY <2>1 DEF Seen, StatusOf, Present
<1> QED BY <1>2, <1>3

\* The writes of the commands and of recovery follow the edges.
LEMMA Edges ==
  /\ \A s \in {"queued"} : <<s, "running">> \in Lifecycle!Moves
  /\ \A s \in {"running"} : <<s, "succeeded">> \in Lifecycle!Moves
                            /\ <<s, "failed">> \in Lifecycle!Moves
                            /\ <<s, "queued">> \in Lifecycle!Moves
  /\ \A s \in Active : <<s, "cancelled">> \in Lifecycle!Moves
                       /\ <<s, "failed">> \in Lifecycle!Moves
  /\ <<"unused", "queued">> \in Lifecycle!Moves
BY DEF Lifecycle!Moves, Lifecycle!Active, Active

----------------------------------------------------------------------------
(* Refinement, action by action *)

\* A new document takes the next id, which no reader has seen in use.
LEMMA CreateMoves ==
  ASSUME TypeInv, RunnerInv, NEW t \in Tasks, NEW doc \in Docs, doc.status = "queued",
         CreateJob(t, doc)
  PROVE  Lifecycle!Next
<1>1. PICK j : j = issued + 1
  OBVIOUS
<1>2. j \in Jobs /\ issued' = j /\ job' = [job EXCEPT ![j] = doc] /\ issued \in Nat
      /\ ~(j <= issued)
  BY <1>1, BoundAssumption DEF CreateJob, TypeInv, TypeOK, Jobs
<1>3. doc # None /\ job \in [Jobs -> Docs \union {None}]
  BY NoneAssumption DEF TypeInv, TypeOK
<1>4. j \notin Present
  <2>1. Present \subseteq 1..issued
    BY DEF RunnerInv, Given
  <2>2. j \notin 1..issued
    BY <1>2
  <2> QED BY <2>1, <2>2
<1>5. job'[j] = doc /\ \A k \in Jobs : k # j => job'[k] = job[k]
  BY <1>2, <1>3
<1>6. StatusOf(j) = "unused"
  BY <1>2, <1>4 DEF StatusOf
<1>7. StatusOf(j)' = "queued"
  BY <1>2, <1>3, <1>5 DEF StatusOf, Present
<1>8. ASSUME NEW k \in Jobs, k # j PROVE StatusOf(k)' = StatusOf(k)
  <2>1. (k <= issued') <=> (k <= issued)
    BY <1>1, <1>2, <1>8 DEF Jobs
  <2>2. k \in Present' <=> k \in Present
    BY <1>5, <1>8 DEF Present
  <2> QED BY <1>5, <1>8, <2>1, <2>2 DEF StatusOf
<1>9. Seen' = [Seen EXCEPT ![j] = "queued"] /\ Seen[j] = "unused"
  BY <1>2, <1>6, <1>7, <1>8 DEF Seen
<1>10. "queued" \in Lifecycle!States
  BY DEF Lifecycle!States, Lifecycle!Statuses, Lifecycle!Active
<1>11. Lifecycle!Move(j)
  BY <1>9, <1>10, Edges DEF Lifecycle!Move, Seen
<1> QED BY <1>2, <1>11 DEF Lifecycle!Next

\* Cleanup turns ended jobs into deleted ones, and nothing else.
LEMMA CleanupForgets ==
  ASSUME TypeInv, RunnerInv, NEW t \in Tasks, Cleanup(t)
  PROVE  Lifecycle!Forget
<1>1. PICK gone \in SUBSET Present, answer \in {"ok", "raised"} :
        Forget(t, gone, answer) /\ \A j \in gone : InStatus(j, Terminal)
  BY CleanupShape
<1>2. \A j \in Jobs : job'[j] = IF j \in gone THEN None ELSE job[j]
  BY <1>1 DEF Forget
<1>3. issued' = issued
  BY <1>1 DEF Forget
<1>4. \A j \in gone : Seen[j] \in Lifecycle!Terminal /\ j \in Jobs
  BY <1>1 DEF Seen, StatusOf, InStatus, Terminal, Lifecycle!Terminal, Present
<1>5. \A j \in gone : j <= issued
  BY DEF RunnerInv, Given, TypeInv, TypeOK
<1>6. \A j \in Jobs : StatusOf(j)' = IF j \in gone THEN "deleted" ELSE StatusOf(j)
  BY <1>2, <1>3, <1>5 DEF StatusOf, Present
<1>7. Seen' = [j \in Jobs |-> IF j \in gone THEN "deleted" ELSE Seen[j]]
  BY <1>6 DEF Seen
<1>8. gone \in SUBSET {j \in Jobs : Seen[j] \in Lifecycle!Terminal}
  BY <1>4
<1> QED BY <1>7, <1>8 DEF Lifecycle!Forget, Seen

\* A task's guarded write is a move of its job or changes nothing a reader sees.
LEMMA StoreMoves ==
  ASSUME TypeInv, NEW t \in Tasks, call[t].at \in Writes, NEW expected,
         UpdateIfStatus(call[t].job, call[t].doc, expected), issued' = issued,
         \A s \in expected : <<s, Target(call[t].at)>> \in Lifecycle!Moves
  PROVE  Lifecycle!Next \/ Seen' = Seen
<1>1. call[t].job \in Jobs /\ call[t].doc \in Docs
      /\ call[t].doc.status = Target(call[t].at)
  BY DEF TypeInv, CallOK
<1>2. Lifecycle!Move(call[t].job) \/ Seen' = Seen
  BY <1>1, GuardedMove DEF TypeInv
<1> QED BY <1>1, <1>2 DEF Lifecycle!Next

\* The steps of a request: create, cancel and cleanup move what readers see along
\* the edges, loads change nothing.
LEMMA RequestMoves ==
  ASSUME TypeInv, RunnerInv, NEW t \in Tasks, RequestStep(t)
  PROVE  Lifecycle!Next \/ Seen' = Seen
<1>1. CASE Submit(t)
  <2>1. now \in Times /\ 1 \in Nat \ {0} /\ None \in Jobs \union {None}
    BY DEF TypeInv, TypeOK
  <2>2. NewDoc(None, 1) \in Docs /\ NewDoc(None, 1).status = "queued"
    BY <2>1, NewDocTypes
  <2> QED BY <1>1, <2>2, CreateMoves DEF Submit
<1>2. CASE RetryCreate(t)
  <2>1. call[t].doc.attempt + 1 \in Nat \ {0} /\ call[t].job \in Jobs
    BY <1>2 DEF RetryCreate, TypeInv, CallOK, Docs
  <2>2. /\ NewDoc(call[t].job, call[t].doc.attempt + 1) \in Docs
        /\ NewDoc(call[t].job, call[t].doc.attempt + 1).status = "queued"
    BY <2>1, NewDocTypes DEF TypeInv, TypeOK
  <2> QED BY <1>2, <2>2, CreateMoves DEF RetryCreate
<1>3. CASE RetryLoad(t) \/ CancelLoad(t)
  BY <1>3, SeenSame DEF RetryLoad, CancelLoad, Load
<1>4. CASE CancelStore(t)
  <2>1. call[t].at = "cancel" /\ Target("cancel") = "cancelled" /\ "cancel" \in Writes
    BY <1>4 DEF CancelStore, At, Target, Writes
  <2>2. UpdateIfStatus(call[t].job, call[t].doc, Active) /\ issued' = issued
    BY <1>4 DEF CancelStore, Store
  <2>3. \A s \in Active : <<s, Target(call[t].at)>> \in Lifecycle!Moves
    BY <2>1, Edges
  <2> QED BY <2>1, <2>2, <2>3, StoreMoves
<1>5. CASE Cleanup(t)
  BY <1>5, CleanupForgets DEF Lifecycle!Next
<1> QED BY <1>1, <1>2, <1>3, <1>4, <1>5 DEF RequestStep

\* The steps of a run: the claim and the write of its outcome follow the edges.
LEMMA RunMoves ==
  ASSUME TypeInv, RunnerInv, NEW t \in Tasks, RunStep(t)
  PROVE  Lifecycle!Next \/ Seen' = Seen
<1>1. CASE RunLoad(t) \/ ProviderSucceeds(t) \/ ProviderFails(t)
  BY <1>1, SeenSame DEF RunLoad, ProviderSucceeds, ProviderFails, Load
<1>2. CASE RunClaim(t)
  <2>1. call[t].at = "claim" /\ Target("claim") = "running" /\ "claim" \in Writes
    BY <1>2 DEF RunClaim, At, Target, Writes
  <2>2. UpdateIfStatus(call[t].job, call[t].doc, {"queued"}) /\ issued' = issued
    BY <1>2 DEF RunClaim
  <2>3. \A s \in {"queued"} : <<s, Target(call[t].at)>> \in Lifecycle!Moves
    BY <2>1, Edges
  <2> QED BY <2>1, <2>2, <2>3, StoreMoves
<1>3. CASE RunSettle(t)
  <2>1. call[t].at \in {"store_result", "store_failure"} /\ call[t].at \in Writes
        /\ Target(call[t].at) \in {"succeeded", "failed"}
    BY <1>3 DEF RunSettle, StoreResult, StoreFailure, At, Target, Writes
  <2>2. UpdateIfStatus(call[t].job, call[t].doc, {"running"}) /\ issued' = issued
    BY <1>3 DEF RunSettle, StoreResult, StoreFailure, Store
  <2>3. \A s \in {"running"} : <<s, Target(call[t].at)>> \in Lifecycle!Moves
    BY <2>1, Edges
  <2> QED BY <2>1, <2>2, <2>3, StoreMoves
<1> QED BY <1>1, <1>2, <1>3 DEF RunStep

\* Recovery fails a stale job or queues an interrupted one again, along the edges.
LEMMA RecoveryMoves ==
  ASSUME TypeInv, NEW j \in Jobs, RecoverJob(j)
  PROVE  Lifecycle!Next \/ Seen' = Seen
<1>1. boot.todo[j] \in Docs /\ boot.time \in Times /\ now \in Times /\ issued' = issued
  BY DEF RecoverJob, RecoverStale, RecoverRunning, RecoverQueued, Newest, TypeInv, TypeOK
<1>2. CASE RecoverStale(j)
  <2>1. Failed(boot.todo[j], boot.time) \in Docs
        /\ Failed(boot.todo[j], boot.time).status = "failed"
    BY <1>1, DocTypes
  <2>2. UpdateIfStatus(j, Failed(boot.todo[j], boot.time), Active)
    BY <1>2 DEF RecoverStale
  <2>3. Lifecycle!Move(j) \/ Seen' = Seen
    BY <1>1, <2>1, <2>2, Edges, GuardedMove DEF TypeInv
  <2> QED BY <2>3 DEF Lifecycle!Next
<1>3. CASE RecoverRunning(j)
  <2>1. Requeued(boot.todo[j]) \in Docs /\ Requeued(boot.todo[j]).status = "queued"
    BY <1>1, DocTypes
  <2>2. UpdateIfStatus(j, Requeued(boot.todo[j]), {"running"})
    BY <1>3 DEF RecoverRunning
  <2>3. Lifecycle!Move(j) \/ Seen' = Seen
    BY <1>1, <2>1, <2>2, Edges, GuardedMove DEF TypeInv
  <2> QED BY <2>3 DEF Lifecycle!Next
<1>4. CASE RecoverQueued(j)
  BY <1>1, <1>4, SeenSame DEF RecoverQueued
<1> QED BY <1>2, <1>3, <1>4 DEF RecoverJob

\* Every step of the service is a step of the promise, or changes nothing readers see.
LEMMA LifecycleStep ==
  TypeInv /\ RunnerInv /\ [Next]_vars => Lifecycle!Next \/ Seen' = Seen
<1> SUFFICES ASSUME TypeInv, RunnerInv, [Next]_vars PROVE Lifecycle!Next \/ Seen' = Seen
  OBVIOUS
<1>1. ASSUME NEW t \in Tasks, Request(t) \/ Deliver(t) PROVE Seen' = Seen
  BY <1>1, SeenSame DEF Request, Deliver, Arrive
<1>2. ASSUME NEW t \in Tasks, RequestStep(t) PROVE Lifecycle!Next \/ Seen' = Seen
  BY <1>2, RequestMoves
<1>3. ASSUME NEW t \in Tasks, RunStep(t) PROVE Lifecycle!Next \/ Seen' = Seen
  BY <1>3, RunMoves
<1>4. ASSUME NEW t \in Tasks, Return(t) \/ Elsewhere(t) \/ StoreFault(t)
      PROVE  Seen' = Seen
  BY <1>4, SeenSame DEF Return, Elsewhere, StoreFault
<1>5. ASSUME NEW j \in Jobs, RecoverJob(j) PROVE Lifecycle!Next \/ Seen' = Seen
  BY <1>5, RecoveryMoves
<1>6. CASE RecoverList \/ RecoverDone \/ Crash \/ Tick \/ UNCHANGED vars
  BY <1>6, SeenSame DEF RecoverList, RecoverDone, Crash, Tick, vars
<1> QED BY <1>1, <1>2, <1>3, <1>4, <1>5, <1>6 DEF Next

\* Before anything is given out every id reads as unused.
LEMMA LifecycleInit == Init => Lifecycle!Init
<1> SUFFICES ASSUME Init PROVE Seen = [j \in Jobs |-> "unused"]
  BY DEF Lifecycle!Init, Seen
<1>1. \A j \in Jobs : j \notin Present /\ ~(j <= issued)
  BY BoundAssumption DEF Init, Present, Jobs
<1> QED BY <1>1 DEF Seen, StatusOf

\* The service keeps the promise of JobLifecycle: every write the store commits moves
\* one job along an edge of the status machine or forgets ended jobs, so a terminal
\* status is final, an active job never vanishes and no id is given out twice.
THEOREM LifecycleImplemented == Spec => ImplementsLifecycle
<1>1. TypeInv /\ RunnerInv /\ [Next]_vars => [Lifecycle!Next]_[j \in Jobs |-> StatusOf(j)]
  BY LifecycleStep DEF Seen
<1> QED BY <1>1, LifecycleInit, Invariance, PTL DEF Spec, ImplementsLifecycle, Lifecycle!Spec

----------------------------------------------------------------------------
(* No answer of the provider is dropped while clients go on polling. *)

\* A stored job that is neither queued nor running has ended.
LEMMA EndedOrActive ==
  ASSUME TypeOK, NEW j \in Present, ~InStatus(j, {"queued"}), ~InStatus(j, {"running"})
  PROVE  job[j].status \in Terminal
<1>1. job[j].status \in Statuses
  BY DEF TypeOK, Docs, Present
<1> QED BY <1>1 DEF InStatus, Statuses, Active, Terminal

\* The steps of a task in flight: the read after the provider's answer, which finds
\* the job ended when it does not go on, and the guarded write of the outcome.
LEMMA RunReturns ==
  ASSUME TypeInv, RunnerInv, NEW t \in Tasks, InFlight(t), RunStep(t),
         call'[t].at = "returned"
  PROVE  job'[call[t].job] # None /\ job'[call[t].job].status \in Terminal
<1> DEFINE j == call[t].job
<1>1. call[t].op = "run" /\ call[t].at \in {"provider", "store_result", "store_failure"}
      /\ ~InStatus(j, {"queued"}) /\ j \in Jobs /\ call[t] # Idle
  BY DEF InFlight, RunnerInv, Claimed, TypeInv, CallOK, Writes, Idle
<1>2. CASE ProviderSucceeds(t) \/ ProviderFails(t)
  <2>1. PICK next \in {"store_result", "store_failure"} :
          \E doc : Load(t, {"running"}, next, "returned", "raised", doc)
    BY <1>2 DEF ProviderSucceeds, ProviderFails
  <2>2. PICK d : call' = [call EXCEPT ![t].at = Answer(j, {"running"}, next, "returned", "raised"),
                                      ![t].doc = d]
    BY <2>1 DEF Load
  <2>3. Answer(j, {"running"}, next, "returned", "raised") = "returned"
    BY <1>1, <2>2, MoveShape
  <2>4. j \in Present /\ ~InStatus(j, {"running"})
    BY <2>3 DEF Answer, InStatus
  <2>5. job' = job
    BY <2>1 DEF Load
  <2> QED BY <1>1, <2>4, <2>5, EndedOrActive DEF TypeInv, Present
<1>3. CASE RunSettle(t)
  <2>1. Store(t, {"running"}, "returned", "returned", "raised")
        /\ call[t].at \in {"store_result", "store_failure"}
    BY <1>3 DEF RunSettle, StoreResult, StoreFailure, At
  <2>2. UpdateIfStatus(j, call[t].doc, {"running"})
        /\ call' = [call EXCEPT ![t].at = Answer(j, {"running"}, "returned", "returned", "raised"),
                                ![t].doc = None]
    BY <2>1 DEF Store
  <2>3. Answer(j, {"running"}, "returned", "returned", "raised") = "returned"
    BY <1>1, <2>2, MoveShape
  <2>4. j \in Present
    BY <2>3 DEF Answer
  <2>5. call[t].doc \in Docs /\ call[t].doc.status \in Terminal
    BY <2>1 DEF TypeInv, CallOK, Writes, Target, Terminal
  <2>6. CASE InStatus(j, {"running"})
    BY <1>1, <2>2, <2>5, <2>6, UpdateShape DEF TypeInv
  <2>7. CASE ~InStatus(j, {"running"})
    <3>1. job'[j] = job[j]
      BY <1>1, <2>2, <2>5, <2>7, UpdateShape DEF TypeInv
    <3> QED BY <1>1, <2>4, <2>7, <3>1, EndedOrActive DEF TypeInv, Present
  <2> QED BY <2>6, <2>7
<1> QED BY <1>1, <1>2, <1>3 DEF RunStep, RunLoad, RunClaim, At

\* Any other step leaves a task in flight where it is, stops it or fails it.
LEMMA OthersReturnNothing ==
  ASSUME TypeInv, NEW t \in Tasks, InFlight(t), [Next]_vars, ~RunStep(t)
  PROVE  call'[t].at # "returned"
<1>1. call[t] # Idle /\ call[t].at \in {"provider", "store_result", "store_failure"}
      /\ call[t].op = "run"
  BY DEF InFlight, Idle
<1>2. ASSUME NEW u \in Tasks, u # t, \/ Request(u) \/ Deliver(u) \/ RequestStep(u)
                                     \/ RunStep(u) \/ Return(u) \/ Elsewhere(u)
                                     \/ StoreFault(u)
      PROVE  call'[t] = call[t]
  <2>1. CASE Request(u) \/ Deliver(u) \/ Return(u) \/ Elsewhere(u) \/ StoreFault(u)
    BY <1>2, <2>1 DEF Request, Deliver, Arrive, Return, Elsewhere, StoreFault, TypeInv, TypeOK
  <2>2. CASE RequestStep(u)
    <3>1. CASE Submit(u) \/ RetryCreate(u)
      BY <1>2, <3>1 DEF Submit, RetryCreate, CreateJob, TypeInv, TypeOK
    <3>2. CASE RetryLoad(u) \/ CancelLoad(u) \/ CancelStore(u) \/ Cleanup(u)
      BY <1>2, <3>2, StepsAdvance DEF Advance
    <3> QED BY <2>2, <3>1, <3>2 DEF RequestStep
  <2>3. CASE RunStep(u)
    BY <1>2, <2>3, StepsAdvance DEF Advance
  <2> QED BY <1>2, <2>1, <2>2, <2>3
<1>3. CASE Request(t) \/ Deliver(t) \/ Return(t) \/ Elsewhere(t)
  BY <1>1, <1>3 DEF Request, Deliver, Arrive, Return, Elsewhere, Outcomes
<1>4. CASE RequestStep(t)
  BY <1>1, <1>4 DEF RequestStep, Submit, RetryLoad, RetryCreate, CancelLoad, CancelStore,
                    Cleanup, Forget, At
<1>5. CASE StoreFault(t)
  <2>1. call' = [call EXCEPT ![t].at = "raised", ![t].doc = None]
    BY <1>5 DEF StoreFault
  <2>2. call'[t].at = "raised"
    BY <1>1, <2>1, MoveShape
  <2> QED BY <2>2
<1>6. CASE RecoverList \/ (\E j \in Jobs : RecoverJob(j)) \/ RecoverDone \/ Tick
           \/ UNCHANGED vars
  BY <1>1, <1>6 DEF RecoverList, RecoverJob, RecoverStale, RecoverRunning, RecoverQueued,
                    RecoverDone, Tick, vars
<1>7. CASE Crash
  BY <1>7 DEF Crash, Idle
<1>8. ASSUME NEW u \in Tasks, \/ Request(u) \/ Deliver(u) \/ RequestStep(u) \/ RunStep(u)
                              \/ Return(u) \/ Elsewhere(u) \/ StoreFault(u)
      PROVE  call'[t].at # "returned"
  <2>1. CASE u = t
    BY <1>3, <1>4, <1>5, <1>8, <2>1
  <2>2. CASE u # t
    BY <1>1, <1>2, <1>8, <2>2
  <2> QED BY <2>1, <2>2
<1> QED BY <1>6, <1>7, <1>8 DEF Next

\* A run that got the provider's answer and returns normally leaves its job stored
\* and ended, whoever ended it.
THEOREM RunLeavesTerminalAlways == Spec => RunLeavesTerminal
<1>1. TypeInv /\ RunnerInv /\ [Next]_vars =>
        [\A t \in Tasks : InFlight(t) /\ call'[t].at = "returned" =>
           job'[call[t].job] # None /\ job'[call[t].job].status \in Terminal]_vars
  BY RunReturns, OthersReturnNothing
<1> QED BY <1>1, Invariance, PTL DEF Spec, RunLeavesTerminal

----------------------------------------------------------------------------
(* No active job is forgotten.  The scan turns the documents it listed one by *)
(* one into jobs handed to the worker, so the invariant counts the list too.  *)

Accepted(j) == \E t \in Tasks : call[t].at = "accepted" /\ call[t].job = j
Known(j) == j \in Listed \/ j \in handed \/ Accepted(j)
KnownInv == /\ boot.at = "up" => Listed = {}
            /\ boot.at # "list" => \A j \in Jobs : InStatus(j, Active) => Known(j)

\* A task that goes on activates no job and takes none out of a response.
LEMMA AdvanceKnown ==
  ASSUME TypeInv, KnownInv, NEW t \in Tasks, call[t].at # "accepted", Advance(t)
  PROVE  KnownInv'
<1>1. boot' = boot /\ handed' = handed /\ Listed' = Listed
  BY DEF Advance, Listed
<1>2. ASSUME NEW j \in Jobs, InStatus(j, Active)' PROVE InStatus(j, Active)
  <2>1. j \in Present /\ job'[j] # None /\ job'[j].status \in Active
    BY <1>2 DEF Advance, Writing, InStatus, Present
  <2>2. ~InStatus(j, Terminal)
    BY <2>1 DEF Advance, Writing, Active, Terminal, InStatus
  <2>3. job[j].status \in Statuses
    BY <2>1 DEF TypeInv, TypeOK, Docs, Present
  <2> QED BY <2>1, <2>2, <2>3 DEF InStatus, Statuses
<1>3. ASSUME NEW j \in Jobs, Accepted(j) PROVE Accepted(j)'
  <2>1. PICK u \in Tasks : call[u].at = "accepted" /\ call[u].job = j
    BY <1>3 DEF Accepted
  <2>2. call'[u] = call[u]
    BY <2>1 DEF Advance
  <2> QED BY <2>1, <2>2 DEF Accepted
<1> QED BY <1>1, <1>2, <1>3 DEF KnownInv, Known

\* Recovery hands over, or fails, the job it takes from its list.
LEMMA RecoverKnown ==
  ASSUME TypeInv, RunnerInv, KnownInv, NEW j \in Jobs, RecoverJob(j)
  PROVE  KnownInv'
<1>1. j \in Listed /\ boot.todo[j] \in Docs /\ boot.time \in Times /\ now \in Times
      /\ boot.at = "scan" /\ boot' = Without(j) /\ call' = call
  BY DEF RecoverJob, RecoverStale, RecoverRunning, RecoverQueued, Newest, TypeInv, TypeOK
<1>2. boot'.at = "scan" /\ Listed' = Listed \ {j}
  BY <1>1, WithoutTypes
<1>3. \A k \in Jobs : Accepted(k)' <=> Accepted(k)
  BY <1>1 DEF Accepted
<1>4. /\ handed \subseteq handed' /\ \A k \in Jobs : k # j => job'[k] = job[k]
      /\ InStatus(j, Active)' => j \in handed'
  <2>1. CASE RecoverStale(j)
    <3>1. Failed(boot.todo[j], boot.time) \in Docs
          /\ Failed(boot.todo[j], boot.time).status = "failed"
      BY <1>1, DocTypes
    <3>2. /\ \A k \in Jobs : k # j => job'[k] = job[k]
          /\ InStatus(j, Active) => job'[j].status = "failed"
          /\ ~InStatus(j, Active) => job'[j] = job[j]
      BY <2>1, <3>1, UpdateShape DEF RecoverStale, TypeInv
    <3>3. ~InStatus(j, Active)'
      BY <3>2 DEF InStatus, Present, Active
    <3> QED BY <2>1, <3>2, <3>3 DEF RecoverStale
  <2>2. CASE RecoverRunning(j)
    <3>1. Requeued(boot.todo[j]) \in Docs
      BY <1>1, DocTypes
    <3>2. /\ \A k \in Jobs : k # j => job'[k] = job[k]
          /\ ~InStatus(j, {"running"}) => job'[j] = job[j]
      BY <2>2, <3>1, UpdateShape DEF RecoverRunning, TypeInv
    <3>3. ~InStatus(j, {"queued"})
      BY <1>1, <2>2 DEF RecoverRunning, RunnerInv, Interrupted
    <3>4. InStatus(j, Active)' => InStatus(j, {"running"})
      BY <3>2, <3>3 DEF InStatus, Present, Active
    <3> QED BY <2>2, <3>2, <3>4 DEF RecoverRunning
  <2>3. CASE RecoverQueued(j)
    BY <2>3 DEF RecoverQueued
  <2> QED BY <2>1, <2>2, <2>3 DEF RecoverJob
<1>5. \A k \in Jobs : k # j => (InStatus(k, Active)' <=> InStatus(k, Active))
  BY <1>4 DEF InStatus, Present
<1> QED BY <1>1, <1>2, <1>3, <1>4, <1>5 DEF KnownInv, Known

\* A job is created in the response that will hand it over.
LEMMA CreateKnown ==
  ASSUME TypeInv, KnownInv, NEW t \in Tasks, call[t].at = "create",
         NEW doc, CreateJob(t, doc)
  PROVE  KnownInv'
<1> DEFINE c == [op |-> call[t].op, at |-> "accepted", job |-> issued + 1, doc |-> None]
<1>1. call'[t] = c /\ \A u \in Tasks \ {t} : call'[u] = call[u]
  BY DEF CreateJob, TypeInv, TypeOK
<1>2. c.at = "accepted" /\ c.job = issued + 1
  OBVIOUS
<1> HIDE DEF c
<1>3. \A k \in Jobs : k # issued + 1 => job'[k] = job[k]
  BY DEF CreateJob, TypeInv, TypeOK
<1>4. boot' = boot /\ handed' = handed /\ Listed' = Listed
  BY DEF CreateJob, Listed
<1>5. \A k \in Jobs : Accepted(k) => Accepted(k)'
  BY <1>1 DEF Accepted
<1>6. \A k \in Jobs : k # issued + 1 => (InStatus(k, Active)' <=> InStatus(k, Active))
  BY <1>3 DEF InStatus, Present
<1>7. \A k \in Jobs : Known(k) => Known(k)'
  BY <1>4, <1>5 DEF Known
<1>8. ASSUME NEW k \in Jobs, k = issued + 1 PROVE Known(k)'
  <2>1. call'[t].at = "accepted" /\ call'[t].job = k
    BY <1>1, <1>2, <1>8
  <2> QED BY <2>1 DEF Known, Accepted
<1>9. ASSUME NEW k \in Jobs, InStatus(k, Active)', boot.at # "list" PROVE Known(k)'
  <2>1. CASE k = issued + 1
    BY <1>8, <2>1
  <2>2. CASE k # issued + 1
    <3>1. InStatus(k, Active)
      BY <1>6, <1>9, <2>2
    <3>2. Known(k)
      BY <1>9, <3>1 DEF KnownInv
    <3> QED BY <1>7, <3>2
  <2> QED BY <2>1, <2>2
<1> QED BY <1>4, <1>9 DEF KnownInv

\* Every step keeps each active job listed, handed over or about to be.
LEMMA KnownStep == TypeInv /\ RunnerInv /\ KnownInv /\ [Next]_vars => KnownInv'
<1> SUFFICES ASSUME TypeInv, RunnerInv, KnownInv, [Next]_vars PROVE KnownInv'
  OBVIOUS
<1>1. ASSUME job' = job, boot' = boot, handed' = handed,
             \A j \in Jobs : Accepted(j) => Accepted(j)'
      PROVE  KnownInv'
  BY <1>1 DEF KnownInv, Known, Listed, InStatus, Present
<1>2. ASSUME NEW t \in Tasks, Request(t) \/ Deliver(t) PROVE KnownInv'
  <2>1. PICK c : call' = [call EXCEPT ![t] = c] /\ call[t] = Idle
                 /\ UNCHANGED <<job, boot, handed>>
    BY <1>2 DEF Request, Deliver, Arrive
  <2>2. \A u \in Tasks : call[u].at = "accepted" => call'[u] = call[u]
    BY <2>1 DEF Idle, TypeInv, TypeOK
  <2> QED BY <1>1, <2>1, <2>2 DEF Accepted
<1>3. ASSUME NEW t \in Tasks, RequestStep(t) PROVE KnownInv'
  <2>1. CASE Submit(t) \/ RetryCreate(t)
    BY <2>1, CreateKnown DEF Submit, RetryCreate, At
  <2>2. CASE RetryLoad(t) \/ CancelLoad(t) \/ CancelStore(t) \/ Cleanup(t)
    <3>1. call[t].at # "accepted"
      BY <2>2 DEF RetryLoad, CancelLoad, CancelStore, Cleanup, Forget, At
    <3> QED BY <2>2, <3>1, StepsAdvance, AdvanceKnown
  <2> QED BY <1>3, <2>1, <2>2 DEF RequestStep
<1>4. ASSUME NEW t \in Tasks, RunStep(t) \/ StoreFault(t) PROVE KnownInv'
  <2>1. call[t].at # "accepted"
    BY <1>4 DEF RunStep, RunLoad, RunClaim, ProviderSucceeds, ProviderFails, RunSettle,
                StoreResult, StoreFailure,
                StoreFault, StoreCalls, At
  <2> QED BY <1>4, <2>1, StepsAdvance, AdvanceKnown
<1>5. ASSUME NEW t \in Tasks, Return(t) PROVE KnownInv'
  <2>1. /\ handed' = IF call[t].at = "accepted" THEN handed \union {call[t].job} ELSE handed
        /\ UNCHANGED <<job, boot>> /\ \A u \in Tasks : u # t => call'[u] = call[u]
    BY <1>5 DEF Return, TypeInv, TypeOK
  <2>2. \A j \in Jobs : Known(j) => Known(j)'
    BY <2>1 DEF Known, Accepted, Listed
  <2> QED BY <2>1, <2>2 DEF KnownInv, Listed, InStatus, Present
<1>6. ASSUME NEW t \in Tasks, Elsewhere(t) PROVE KnownInv'
  BY <1>1, <1>6 DEF Elsewhere, Accepted
<1>7. CASE RecoverList
  <2>1. boot'.at = "scan" /\ UNCHANGED <<job, call, handed>>
        /\ Listed' = {k \in Jobs : InStatus(k, Active)}
    BY <1>7 DEF RecoverList, Listed
  <2> QED BY <2>1 DEF KnownInv, Known, InStatus, Present
<1>8. ASSUME NEW j \in Jobs, RecoverJob(j) PROVE KnownInv'
  BY <1>8, RecoverKnown
<1>9. CASE RecoverDone
  <2>1. boot'.at = "up" /\ Listed' = {} /\ Listed = {} /\ boot.at = "scan"
        /\ UNCHANGED <<job, call, handed>>
    BY <1>9 DEF RecoverDone, Starting, NoScan, Listed
  <2> QED BY <2>1 DEF KnownInv, Known, Accepted, InStatus, Present
<1>10. CASE Crash
  BY <1>10 DEF Crash, Starting, KnownInv
<1>11. CASE Tick \/ UNCHANGED vars
  BY <1>1, <1>11 DEF Tick, vars, Accepted
<1> QED BY <1>2, <1>3, <1>4, <1>5, <1>6, <1>7, <1>8, <1>9, <1>10, <1>11 DEF Next

\* Once the server answers requests, every active job was handed to the worker of this
\* process or is about to be with the response that accepted it.
THEOREM NoneForgotten == Spec => []NoActiveJobForgotten
<1>1. Init => KnownInv
  BY DEF Init, Starting, KnownInv
<1>2. KnownInv => NoActiveJobForgotten
  BY DEF KnownInv, Known, Accepted, NoActiveJobForgotten
<1> QED BY <1>1, <1>2, KnownStep, Invariance, PTL DEF Spec

----------------------------------------------------------------------------
(* The documents.  Every write replaces a whole document by one its writer   *)
(* built from a snapshot, so the invariants speak of the stored documents,   *)
(* of the ones tasks are about to write and of those recovery has listed.    *)

\* The job an operation is about was given out before.
JobsGiven == \A t \in Tasks : call[t].job \in 1..issued \union {None}

\* What a task builds from the document it read.
Built(doc, d) ==
  \/ d.status = "queued" /\ doc = Running(d)
  \/ d.status = "running" /\ doc \in {Succeeded(d), Failed(d, now)}
  \/ d.status \in Active /\ doc = Cancelled(d)

\* The fields of one document agree with its status.
Coherent(doc) ==
  /\ doc.forecast <=> doc.status = "succeeded"
  /\ doc.error <=> doc.status = "failed"
  /\ doc.completed # None <=> doc.status \in Terminal
  /\ doc.status \in {"running", "succeeded"} => doc.started
  /\ doc.status = "queued" => ~doc.started
  /\ doc.events[Len(doc.events)] = doc.status

CoherentInv ==
  /\ \A j \in Present : Coherent(job[j])
  /\ \A t \in Tasks : call[t].at \in Writes => Coherent(call[t].doc)
  /\ \A j \in Listed : Coherent(boot.todo[j]) /\ boot.todo[j].status \in Active

\* A copy of a document tells the same ancestry as the document, if it is still there.
SameOrigin(doc, j) ==
  j \in Present => doc.parent = job[j].parent /\ doc.attempt = job[j].attempt

OriginInv ==
  /\ JobsGiven /\ RetryOfTerminal
  /\ \A t \in Tasks : call[t].at \in Writes => SameOrigin(call[t].doc, call[t].job)
  /\ \A j \in Listed : SameOrigin(boot.todo[j], j)
  /\ \A t \in Tasks : At(t, "retry", "create") =>
       LET p == call[t].job
       IN p \in Present => job[p].status \in Terminal /\ job[p].attempt = call[t].doc.attempt

\* With a store that never suspends, whoever is about to write has had the event loop
\* since it read: its copy is one event ahead of the document, the list is up to date.
HistoryInv ==
  /\ \A t \in Tasks : call[t].at \in Writes =>
       /\ loop = t
       /\ call[t].job \in Present =>
            call[t].doc.events = Append(job[call[t].job].events, call[t].doc.status)
  /\ boot.at = "scan" => loop = Startup
  /\ \A j \in Listed : boot.at = "scan" /\ j \in Present /\ boot.todo[j] = job[j]

\* The steps of a task.
Own(t) == \/ Request(t) \/ Deliver(t) \/ RequestStep(t) \/ RunStep(t)
          \/ Return(t) \/ Elsewhere(t) \/ StoreFault(t)

\* Nobody but the task itself, and the death of the process, moves it.
LEMMA OwnMoves ==
  ASSUME TypeInv, NEW t \in Tasks, [Next]_vars, call'[t] # call[t]
  PROVE  Own(t) \/ Crash
<1>1. ASSUME NEW u \in Tasks, u # t, Own(u) PROVE call'[t] = call[t]
  <2>1. CASE Request(u) \/ Deliver(u) \/ Return(u) \/ Elsewhere(u) \/ StoreFault(u)
    BY <1>1, <2>1 DEF Request, Deliver, Arrive, Return, Elsewhere, StoreFault, TypeInv, TypeOK
  <2>2. CASE Submit(u) \/ RetryCreate(u)
    BY <1>1, <2>2 DEF Submit, RetryCreate, CreateJob, TypeInv, TypeOK
  <2>3. CASE RetryLoad(u) \/ CancelLoad(u) \/ CancelStore(u) \/ Cleanup(u) \/ RunStep(u)
    BY <1>1, <2>3, StepsAdvance DEF Advance
  <2> QED BY <1>1, <2>1, <2>2, <2>3 DEF Own, RequestStep
<1>2. CASE RecoverList \/ (\E j \in Jobs : RecoverJob(j)) \/ RecoverDone \/ Tick
           \/ UNCHANGED vars
  BY <1>2 DEF RecoverList, RecoverJob, RecoverStale, RecoverRunning, RecoverQueued,
              RecoverDone, Tick, vars
<1> QED BY <1>1, <1>2 DEF Next, Own

\* Startup's list is no task's business.
LEMMA OwnKeepsBoot == ASSUME TypeInv, NEW t \in Tasks, Own(t) PROVE boot' = boot
<1>1. CASE Submit(t) \/ RetryCreate(t)
  BY <1>1 DEF Submit, RetryCreate, CreateJob
<1>2. CASE RetryLoad(t) \/ CancelLoad(t) \/ CancelStore(t) \/ Cleanup(t) \/ RunStep(t)
           \/ StoreFault(t)
  BY <1>2, StepsAdvance DEF Advance
<1> QED BY <1>1, <1>2 DEF Own, RequestStep, Request, Deliver, Arrive, Return, Elsewhere

\* What a read leaves in the task: the document it will write, if the guard let it pass.
LEMMA LoadMove ==
  ASSUME TypeInv, NEW t \in Tasks, call[t] # Idle,
         NEW expected, NEW next, NEW refused, NEW missing, NEW doc,
         next \notin {refused, missing},
         Load(t, expected, next, refused, missing, doc)
  PROVE  /\ call'[t].op = call[t].op /\ call'[t].job = call[t].job
         /\ call'[t].at \in {next, refused, missing}
         /\ call'[t].at = next <=> InStatus(call[t].job, expected)
         /\ call'[t].at = next => call'[t].doc = doc
         /\ call'[t].at = refused /\ refused # missing /\ call[t].job \in Present =>
              job[call[t].job].status \notin expected
         /\ Turn(t) /\ loop' = (IF StoreSuspends THEN None ELSE t)
         /\ UNCHANGED <<job, issued, boot, handed>>
<1> DEFINE at == Answer(call[t].job, expected, next, refused, missing)
           d == IF InStatus(call[t].job, expected) THEN doc ELSE None
<1>1. call' = [call EXCEPT ![t].at = at, ![t].doc = d]
      /\ UNCHANGED <<job, issued, boot, handed>>
      /\ Turn(t) /\ loop' = (IF StoreSuspends THEN None ELSE t)
  BY DEF Load, Keep
<1>2. /\ at \in {next, refused, missing} /\ (at = next <=> InStatus(call[t].job, expected))
      /\ at = refused /\ refused # missing /\ call[t].job \in Present =>
           job[call[t].job].status \notin expected
  BY DEF Answer, InStatus
<1>3. InStatus(call[t].job, expected) => d = doc
  OBVIOUS
<1> HIDE DEF at, d
<1>4. /\ call'[t].op = call[t].op /\ call'[t].job = call[t].job
      /\ call'[t].at = at
  BY <1>1, MoveShape
<1>5. call'[t].doc = d
  BY <1>1 DEF TypeInv, TypeOK, Calls, Idle
<1> QED BY <1>1, <1>2, <1>3, <1>4, <1>5

\* A task that comes to a write has just read the job and built its document from that.
LEMMA BuildsNow ==
  ASSUME TypeInv, NEW t \in Tasks, [Next]_vars, call'[t].at \in Writes, call'[t] # call[t]
  PROVE  /\ call'[t].job = call[t].job /\ call[t].job \in Present
         /\ Built(call'[t].doc, job[call[t].job])
         /\ loop' = (IF StoreSuspends THEN None ELSE t)
         /\ UNCHANGED <<job, boot>>
<1> DEFINE j == call[t].job
<1>1. CASE Request(t) \/ Deliver(t) \/ Return(t) \/ Elsewhere(t) \/ Crash
  <2>1. call'[t].at \in {"create", "load", "delete"} \/ call'[t] = Idle \/ call'[t] = call[t]
    BY <1>1 DEF Request, Deliver, Arrive, Return, Elsewhere, Crash, TypeInv, TypeOK
  <2> QED BY <2>1 DEF Idle, Writes
<1>2. CASE StoreFault(t) \/ Submit(t) \/ RetryCreate(t) \/ Cleanup(t)
  BY <1>2 DEF StoreFault, Submit, RetryCreate, CreateJob, Cleanup, Forget, Writes, At, Idle,
              TypeInv,
              TypeOK, Calls
<1>3. CASE RetryLoad(t)
  BY <1>3, LoadMove DEF RetryLoad, At, Idle, Writes
<1>4. CASE CancelLoad(t)
  BY <1>4, LoadMove DEF CancelLoad, At, Idle, Writes, Built, InStatus
<1>5. CASE RunLoad(t)
  BY <1>5, LoadMove DEF RunLoad, At, Idle, Writes, Built, InStatus
<1>6. CASE ProviderSucceeds(t)
  BY <1>6, LoadMove DEF ProviderSucceeds, At, Idle, Writes, Built, InStatus
<1>7. CASE ProviderFails(t)
  BY <1>7, LoadMove DEF ProviderFails, At, Idle, Writes, Built, InStatus
<1>8. CASE CancelStore(t) \/ RunSettle(t)
  BY <1>8 DEF CancelStore, RunSettle, StoreResult, StoreFailure, Store, Answer, Writes, At, Idle,
              TypeInv, TypeOK, Calls
<1>9. CASE RunClaim(t)
  BY <1>9 DEF RunClaim, Answer, Writes, At, Idle, TypeInv, TypeOK, Calls
<1> QED BY <1>1, <1>2, <1>3, <1>4, <1>5, <1>6, <1>7, <1>8, <1>9, OwnMoves
        DEF Own, RequestStep, RunStep

\* What recovery writes over a listed document.
Recovered(doc, j) ==
  \/ doc = Failed(boot.todo[j], boot.time)
  \/ boot.todo[j].status = "running" /\ doc = Requeued(boot.todo[j])

\* A document is created, removed, or replaced by the copy of a task that stands before
\* the write or by what recovery made of the copy in its list.
Written(j) ==
  \/ job'[j] \in {job[j], None}
  \/ /\ j = issued + 1 /\ j \notin Present /\ issued' = j
     /\ \E t \in Tasks : \/ At(t, "submit", "create") /\ job'[j] = NewDoc(None, 1)
                         \/ /\ At(t, "retry", "create")
                            /\ job'[j] = NewDoc(call[t].job, call[t].doc.attempt + 1)
  \/ /\ j \in Present
     /\ \E t \in Tasks : /\ call[t].at \in Writes /\ call[t].job = j /\ Turn(t)
                         /\ job'[j] = [call[t].doc EXCEPT !.updated = now]
  \/ /\ j \in Present /\ j \in Listed /\ boot.at = "scan"
     /\ \E doc \in Docs : Recovered(doc, j) /\ job'[j] = [doc EXCEPT !.updated = now]

\* The guarded replacement of one document.
LEMMA UpdateWrites ==
  ASSUME TypeOK, NEW j \in Jobs, NEW doc, NEW expected, UpdateIfStatus(j, doc, expected)
  PROVE  \A k \in Jobs : \/ job'[k] = job[k]
                         \/ k = j /\ j \in Present /\ job'[j] = [doc EXCEPT !.updated = now]
BY DEF UpdateIfStatus, InStatus, TypeOK

\* No step writes anything else.
LEMMA Writers ==
  ASSUME TypeInv, RunnerInv, [Next]_vars, NEW j \in Jobs
  PROVE  Written(j)
<1>1. ASSUME NEW t \in Tasks, Submit(t) \/ RetryCreate(t) PROVE Written(j)
  <2>1. PICK doc : /\ CreateJob(t, doc)
                   /\ \/ At(t, "submit", "create") /\ doc = NewDoc(None, 1)
                      \/ /\ At(t, "retry", "create")
                         /\ doc = NewDoc(call[t].job, call[t].doc.attempt + 1)
    BY <1>1 DEF Submit, RetryCreate
  <2>2. issued' = issued + 1 /\ job' = [job EXCEPT ![issued + 1] = doc]
    BY <2>1 DEF CreateJob
  <2>3. issued + 1 \notin Present
    BY DEF RunnerInv, Given, TypeInv, TypeOK
  <2> QED BY <2>1, <2>2, <2>3 DEF Written, TypeInv, TypeOK
<1>2. ASSUME NEW t \in Tasks, CancelStore(t) \/ RunSettle(t) \/ RunClaim(t) PROVE Written(j)
  <2>1. call[t].at \in Writes /\ call[t].job \in Jobs /\ Turn(t)
    BY <1>2 DEF CancelStore, RunSettle, StoreResult, StoreFailure, RunClaim, Store, At, Writes,
                TypeInv, CallOK
  <2>2. \E expected : UpdateIfStatus(call[t].job, call[t].doc, expected)
    BY <1>2 DEF CancelStore, RunSettle, StoreResult, StoreFailure, RunClaim, Store
  <2> QED BY <2>1, <2>2, UpdateWrites DEF Written, TypeInv
<1>3. ASSUME NEW t \in Tasks, Cleanup(t) PROVE Written(j)
  BY <1>3 DEF Cleanup, Forget, Written
<1>4. ASSUME NEW t \in Tasks, \/ Request(t) \/ Deliver(t) \/ RetryLoad(t) \/ CancelLoad(t)
                              \/ RunLoad(t) \/ ProviderSucceeds(t) \/ ProviderFails(t)
                              \/ Return(t) \/ Elsewhere(t) \/ StoreFault(t)
      PROVE  Written(j)
  BY <1>4 DEF Request, Deliver, Arrive, RetryLoad, CancelLoad, RunLoad, ProviderSucceeds,
              ProviderFails, Load, Return, Elsewhere, StoreFault, Written
<1>5. ASSUME NEW k \in Jobs, RecoverJob(k) PROVE Written(j)
  <2>1. k \in Listed /\ boot.todo[k] \in Docs /\ boot.time \in Times /\ now \in Times
        /\ boot.at = "scan"
    BY <1>5 DEF RecoverJob, RecoverStale, RecoverRunning, RecoverQueued, Newest, TypeInv, TypeOK
  <2>2. Failed(boot.todo[k], boot.time) \in Docs /\ Requeued(boot.todo[k]) \in Docs
    BY <2>1, DocTypes
  <2>3. CASE RecoverStale(k)
    <3>1. UpdateIfStatus(k, Failed(boot.todo[k], boot.time), Active)
      BY <2>3 DEF RecoverStale
    <3>2. \/ job'[j] = job[j]
          \/ /\ j = k /\ k \in Present
             /\ job'[k] = [Failed(boot.todo[k], boot.time) EXCEPT !.updated = now]
      BY <3>1, UpdateWrites DEF TypeInv
    <3>3. Recovered(Failed(boot.todo[k], boot.time), k)
      BY DEF Recovered
    <3> QED BY <2>1, <2>2, <3>2, <3>3 DEF Written
  <2>4. CASE RecoverRunning(k)
    <3>1. UpdateIfStatus(k, Requeued(boot.todo[k]), {"running"})
          /\ boot.todo[k].status = "running"
      BY <2>4 DEF RecoverRunning
    <3> QED BY <2>1, <2>2, <3>1, UpdateWrites DEF Written, Recovered, TypeInv
  <2> QED BY <1>5, <2>3, <2>4 DEF RecoverJob, RecoverQueued, Written
<1>6. CASE RecoverList \/ RecoverDone \/ Crash \/ Tick \/ UNCHANGED vars
  BY <1>6 DEF RecoverList, RecoverDone, Crash, Tick, vars, Written
<1> QED BY <1>1, <1>2, <1>3, <1>4, <1>5, <1>6 DEF Next, RequestStep, RunStep

\* The list of recovery holds copies made when it was read.
LEMMA ListKept ==
  ASSUME TypeInv, [Next]_vars, NEW j \in Listed'
  PROVE  \/ j \in Listed /\ boot'.todo[j] = boot.todo[j]
         \/ RecoverList /\ job' = job /\ InStatus(j, Active) /\ boot'.todo[j] = job[j]
<1>1. CASE boot' = boot
  BY <1>1 DEF Listed
<1>2. ASSUME NEW k \in Jobs, RecoverJob(k) PROVE j \in Listed /\ boot'.todo[j] = boot.todo[j]
  <2>1. boot' = Without(k)
    BY <1>2 DEF RecoverJob, RecoverStale, RecoverRunning, RecoverQueued
  <2> QED BY <2>1, WithoutTypes
<1>3. CASE RecoverList
  BY <1>3 DEF RecoverList, Listed
<1>4. CASE RecoverDone \/ Crash
  BY <1>4 DEF RecoverDone, Crash, Starting, NoScan, Listed
<1>5. ASSUME NEW t \in Tasks, Own(t) PROVE boot' = boot
  <2>1. CASE Submit(t) \/ RetryCreate(t)
    BY <2>1 DEF Submit, RetryCreate, CreateJob
  <2>2. CASE RetryLoad(t) \/ CancelLoad(t) \/ CancelStore(t) \/ Cleanup(t) \/ RunStep(t)
             \/ StoreFault(t)
    BY <2>2, StepsAdvance DEF Advance
  <2> QED BY <1>5, <2>1, <2>2
          DEF Own, RequestStep, Request, Deliver, Arrive, Return, Elsewhere
<1>6. CASE Tick \/ UNCHANGED vars
  BY <1>1, <1>6 DEF Tick, vars
<1> QED BY <1>1, <1>2, <1>3, <1>4, <1>5, <1>6 DEF Next, Own

\* Ids are never taken back.
LEMMA IssuedGrows ==
  ASSUME TypeInv, [Next]_vars
  PROVE  issued \in Nat /\ issued' \in Nat /\ issued <= issued'
<1>1. issued' = issued \/ issued' = issued + 1
  BY DEF Next, Request, Deliver, Arrive, RequestStep, Submit, RetryLoad, RetryCreate,
         CreateJob, CancelLoad, CancelStore, Cleanup, Forget, Load, Store, RunStep, RunLoad,
         RunClaim,
         ProviderSucceeds, ProviderFails, RunSettle, StoreResult, StoreFailure, Return,
         Elsewhere, StoreFault,
         RecoverList, RecoverJob, RecoverStale, RecoverRunning, RecoverQueued, RecoverDone,
         Crash, Tick, vars
<1> QED BY <1>1 DEF TypeInv, TypeOK

\* No id is given out before its turn, and none twice.
LEMMA GivenStep == TypeInv /\ RunnerInv /\ JobsGiven /\ [Next]_vars => JobsGiven'
<1> SUFFICES ASSUME TypeInv, RunnerInv, JobsGiven, [Next]_vars PROVE JobsGiven'
  OBVIOUS
<1>1. issued \in Nat /\ issued' \in Nat /\ issued <= issued'
  BY IssuedGrows
<1>2. ASSUME NEW t \in Tasks, call'[t] # call[t] PROVE call'[t].job \in 1..issued' \union {None}
  <2>1. CASE Request(t) \/ Deliver(t)
    <3>1. PICK j \in 1..issued \union {None} : \E op, point : Arrive(t, op, point, j)
      BY <2>1 DEF Request, Deliver
    <3>2. call'[t].job = j
      BY <3>1 DEF Arrive, TypeInv, TypeOK
    <3>3. issued' = issued
      BY <3>1 DEF Arrive
    <3> QED BY <3>1, <3>2, <3>3
  <2>2. CASE Submit(t) \/ RetryCreate(t)
    <3>1. call'[t].job = issued + 1 /\ issued' = issued + 1
      BY <2>2 DEF Submit, RetryCreate, CreateJob, TypeInv, TypeOK
    <3> QED BY <1>1, <3>1
  <2>3. CASE RetryLoad(t) \/ CancelLoad(t) \/ CancelStore(t) \/ Cleanup(t) \/ RunStep(t)
             \/ StoreFault(t)
    BY <1>1, <2>3, StepsAdvance DEF Advance, JobsGiven
  <2>4. CASE Return(t) \/ Elsewhere(t) \/ Crash
    BY <1>2, <2>4 DEF Return, Elsewhere, Crash, Idle, TypeInv, TypeOK
  <2> QED BY <1>2, <2>1, <2>2, <2>3, <2>4, OwnMoves DEF Own, RequestStep
<1> QED BY <1>1, <1>2 DEF JobsGiven

\* Writing down a time or a later status leaves the other fields of a document alone.
LEMMA DocFields ==
  ASSUME NEW doc \in Docs, NEW time
  PROVE  LET stamped == [doc EXCEPT !.updated = time] IN
         /\ Coherent(doc) => Coherent(stamped)
         /\ stamped.parent = doc.parent /\ stamped.attempt = doc.attempt
         /\ stamped.status = doc.status /\ stamped.events = doc.events
BY DEF Docs, Coherent

\* append_job_event puts the new status at the end of the history.
LEMMA EnterEvents ==
  ASSUME NEW doc \in Docs, NEW s \in Statuses
  PROVE  LET events == Append(doc.events, s) IN
         /\ Enter(doc, s).events = events /\ events[Len(events)] = s
BY DEF Docs, Enter

\* Every document the commands and recovery build from a coherent one is coherent, tells
\* the same origin and is one event longer.
LEMMA BuiltFields ==
  ASSUME now \in Times, NEW d \in Docs, NEW doc, NEW time \in Times,
         \/ Built(doc, d)
         \/ d.status \in Active /\ doc = Failed(d, time)
         \/ d.status = "running" /\ doc = Requeued(d)
  PROVE  /\ Coherent(d) => Coherent(doc)
         /\ doc.parent = d.parent /\ doc.attempt = d.attempt
         /\ doc.events = Append(d.events, doc.status)
<1> USE DEF Docs, Enter, Coherent, Active, Terminal
<1>1. now # None /\ time # None
  BY NoneAssumption DEF Times
<1>2. \A s \in Statuses : LET events == Append(d.events, s) IN events[Len(events)] = s
  BY EnterEvents
<1>3. {"running", "succeeded", "failed", "cancelled", "queued"} \subseteq Statuses
  BY DEF Statuses
<1>4. CASE d.status = "queued" /\ doc = Running(d)
  BY <1>2, <1>3, <1>4 DEF Running
<1>5. CASE d.status = "running" /\ doc = Succeeded(d)
  BY <1>1, <1>2, <1>3, <1>5 DEF Succeeded
<1>6. CASE d.status \in Active /\ \E at \in {now, time} : doc = Failed(d, at)
  BY <1>1, <1>2, <1>3, <1>6 DEF Failed
<1>7. CASE d.status \in Active /\ doc = Cancelled(d)
  BY <1>1, <1>2, <1>3, <1>7 DEF Cancelled
<1>8. CASE d.status = "running" /\ doc = Requeued(d)
  BY <1>2, <1>3, <1>8 DEF Requeued
<1> QED BY <1>4, <1>5, <1>6, <1>7, <1>8 DEF Built

\* The copies that writes use are the documents' own: the lemma of the three invariants.
LEMMA Copies ==
  ASSUME TypeInv, RunnerInv, JobsGiven, [Next]_vars
  PROVE  /\ \A t \in Tasks : call[t].at \in Writes => call[t].doc \in Docs /\ call[t].job \in Jobs
         /\ \A j \in Listed : boot.todo[j] \in Docs /\ j \in Jobs
         /\ \A j \in Present : job[j] \in Docs /\ j \in Jobs /\ j \in 1..issued
         /\ now \in Times /\ boot.time \in Times
         /\ issued + 1 \notin Listed
         /\ \A t \in Tasks : call[t].job # issued + 1
<1>1. issued \in Nat /\ issued + 1 \notin 1..issued /\ issued + 1 # None
  BY NoneAssumption DEF TypeInv, TypeOK
<1> QED BY <1>1 DEF TypeInv, TypeOK, CallOK, Present, RunnerInv, Given, JobsGiven

\* Every writer's document is coherent, so the stored ones stay so.
LEMMA CoherentStep ==
  TypeInv /\ RunnerInv /\ JobsGiven /\ CoherentInv /\ [Next]_vars => CoherentInv'
<1> SUFFICES ASSUME TypeInv, RunnerInv, JobsGiven, CoherentInv, [Next]_vars
             PROVE  CoherentInv'
  OBVIOUS
<1>1. ASSUME NEW j \in Jobs, job'[j] # None PROVE Coherent(job'[j])
  <2>1. CASE job'[j] = job[j]
    BY <1>1, <2>1 DEF CoherentInv, Present
  <2>2. CASE \E parent, attempt : job'[j] = NewDoc(parent, attempt)
    BY <2>2 DEF NewDoc, Coherent, Active, Terminal
  <2>3. ASSUME NEW t \in Tasks, call[t].at \in Writes,
               job'[j] = [call[t].doc EXCEPT !.updated = now]
        PROVE  Coherent(job'[j])
    <3>1. call[t].doc \in Docs /\ Coherent(call[t].doc)
      BY <2>3, Copies DEF CoherentInv
    <3> QED BY <2>3, <3>1, DocFields
  <2>4. ASSUME NEW doc \in Docs, j \in Listed, Recovered(doc, j),
               job'[j] = [doc EXCEPT !.updated = now]
        PROVE  Coherent(job'[j])
    <3>1. /\ boot.todo[j] \in Docs /\ Coherent(boot.todo[j]) /\ boot.todo[j].status \in Active
          /\ now \in Times /\ boot.time \in Times
      BY <2>4, Copies DEF CoherentInv
    <3>2. Coherent(doc)
      BY <2>4, <3>1, BuiltFields DEF Recovered
    <3> QED BY <2>4, <3>2, DocFields
  <2> QED BY <1>1, <2>1, <2>2, <2>3, <2>4, Writers DEF Written
<1>2. ASSUME NEW t \in Tasks, call'[t].at \in Writes PROVE Coherent(call'[t].doc)
  BY <1>2, BuildsNow, Copies, BuiltFields DEF CoherentInv
<1>3. ASSUME NEW j \in Listed'
      PROVE  Coherent(boot'.todo[j]) /\ boot'.todo[j].status \in Active
  BY <1>3, ListKept DEF CoherentInv, InStatus
<1> QED BY <1>1, <1>2, <1>3 DEF CoherentInv, Present

\* DocumentsConsistent: the fields of every stored document, and what a poll says of
\* it, agree with its status, for both kinds of store and whatever the writers' copies
\* missed (RunForecastJob, CancelForecastJob, the recovery service).
THEOREM DocumentsConsistentAlways == Spec => []DocumentsConsistent
<1>1. Init => JobsGiven /\ CoherentInv
  BY DEF Init, JobsGiven, CoherentInv, Idle, Writes, Present, Listed, Starting, NoScan
<1>2. CoherentInv => DocumentsConsistent
  BY DEF CoherentInv, DocumentsConsistent, Coherent, Poll, Terminal
<1> QED BY <1>1, <1>2, GivenStep, CoherentStep, Invariance, PTL DEF Spec

\* A document keeps its parent and its attempt for as long as it is stored.
LEMMA OriginKept ==
  ASSUME TypeInv, RunnerInv, OriginInv, [Next]_vars, NEW j \in Jobs, job'[j] # None,
         j # issued + 1
  PROVE  j \in Present /\ job'[j].parent = job[j].parent /\ job'[j].attempt = job[j].attempt
<1>1. CASE job'[j] = job[j]
  BY <1>1 DEF Present
<1>2. ASSUME NEW t \in Tasks, j \in Present, call[t].at \in Writes, call[t].job = j,
             job'[j] = [call[t].doc EXCEPT !.updated = now]
      PROVE  job'[j].parent = job[j].parent /\ job'[j].attempt = job[j].attempt
  <2>1. call[t].doc \in Docs /\ SameOrigin(call[t].doc, j)
    BY <1>2, Copies DEF OriginInv
  <2> QED BY <1>2, <2>1, DocFields DEF SameOrigin
<1>3. ASSUME NEW doc \in Docs, j \in Present, j \in Listed, boot.at = "scan", Recovered(doc, j),
             job'[j] = [doc EXCEPT !.updated = now]
      PROVE  job'[j].parent = job[j].parent /\ job'[j].attempt = job[j].attempt
  <2>1. SameOrigin(boot.todo[j], j) /\ boot.todo[j] \in Docs /\ boot.time \in Times
    BY <1>3, Copies DEF OriginInv
  <2>2. doc.parent = boot.todo[j].parent /\ doc.attempt = boot.todo[j].attempt
    <3>1. CASE doc = Failed(boot.todo[j], boot.time)
      BY <2>1, <3>1 DEF Failed, Enter, Docs
    <3>2. CASE doc = Requeued(boot.todo[j])
      BY <2>1, <3>2 DEF Requeued, Enter, Docs
    <3> QED BY <1>3, <3>1, <3>2 DEF Recovered
  <2> QED BY <1>3, <2>1, <2>2, DocFields DEF SameOrigin
<1> QED BY <1>1, <1>2, <1>3, Writers DEF Written

\* A job that has ended stays as it is while it is stored.
LEMMA EndedKept ==
  ASSUME TypeInv, RunnerInv, OriginInv, [Next]_vars, NEW p \in Jobs, p # issued + 1,
         p \in Present => job[p].status \in Terminal, job'[p] # None
  PROVE  p \in Present /\ job'[p] = job[p]
BY OriginKept, TerminalStep DEF InStatus

\* A retry that comes to its creation has just read an ended parent.
LEMMA RetryReads ==
  ASSUME TypeInv, NEW t \in Tasks, [Next]_vars, At(t, "retry", "create")', call'[t] # call[t]
  PROVE  /\ call'[t].job = call[t].job /\ InStatus(call[t].job, Terminal)
         /\ call'[t].doc = job[call[t].job] /\ job' = job
<1>1. CASE RetryLoad(t)
  BY <1>1, LoadMove DEF RetryLoad, At, Idle
<1>2. CASE Request(t) \/ Deliver(t) \/ Return(t) \/ Elsewhere(t) \/ Crash
  BY <1>2 DEF Request, Deliver, Arrive, Return, Elsewhere, Crash, TypeInv, TypeOK, At, Idle
<1>3. CASE Submit(t) \/ RetryCreate(t)
  BY <1>3 DEF Submit, RetryCreate, CreateJob, TypeInv, TypeOK, At
<1>4. CASE CancelLoad(t) \/ CancelStore(t) \/ Cleanup(t) \/ RunStep(t)
  BY <1>4, StepsAdvance DEF Advance, At, CancelLoad, CancelStore, Cleanup, Forget, RunStep,
                            RunLoad,
        RunClaim, ProviderSucceeds, ProviderFails, RunSettle, StoreResult, StoreFailure
<1>5. CASE StoreFault(t)
  <2>1. call[t].at \in StoreCalls \union {"provider"}
        /\ call' = [call EXCEPT ![t].at = "raised", ![t].doc = None]
    BY <1>5 DEF StoreFault
  <2>2. call[t] # Idle
    BY <2>1 DEF StoreCalls, Idle
  <2>3. call'[t].at = "raised"
    BY <2>1, <2>2, MoveShape
  <2> QED BY <2>3 DEF At
<1> QED BY <1>1, <1>2, <1>3, <1>4, <1>5, OwnMoves DEF Own, RequestStep

\* Copies and documents go on telling the same origin, and parents stay ended.
LEMMA OriginStep == TypeInv /\ RunnerInv /\ OriginInv /\ [Next]_vars => OriginInv'
<1> SUFFICES ASSUME TypeInv, RunnerInv, OriginInv, [Next]_vars PROVE OriginInv'
  OBVIOUS
<1>1. JobsGiven /\ JobsGiven'
  BY GivenStep DEF OriginInv
<1>2. issued \in Nat /\ job \in [Jobs -> Docs \union {None}] /\ None \notin Nat
  BY NoneAssumption DEF TypeInv, TypeOK
<1>3. ASSUME NEW j \in Jobs, job'[j] # None
      PROVE  LET p == job'[j].parent IN
             IF p = None THEN job'[j].attempt = 1
             ELSE /\ p < j /\ job'[j].attempt > 1
                  /\ p \in Jobs /\ job'[p] # None => /\ job'[p].status \in Terminal
                                                     /\ job'[j].attempt = job'[p].attempt + 1
  <2>1. CASE j # issued + 1
    <3> DEFINE p == job[j].parent
    <3>1. j \in Present /\ job'[j].parent = p /\ job'[j].attempt = job[j].attempt
      BY <1>3, <2>1, OriginKept
    <3>2. CASE p = None
      BY <3>1, <3>2 DEF OriginInv, RetryOfTerminal
    <3>3. CASE p # None
      <4>1. /\ p < j /\ job[j].attempt > 1
            /\ p \in Present => job[p].status \in Terminal /\ job[j].attempt = job[p].attempt + 1
        BY <3>1, <3>3 DEF OriginInv, RetryOfTerminal
      <4>2. p \in Jobs /\ j \in 1..issued
        BY <1>1, <1>2, <3>1, <3>3, Copies DEF Docs, Present
      <4>3. p # issued + 1
        BY <1>2, <4>1, <4>2 DEF Jobs
      <4>4. job'[p] # None => p \in Present /\ job'[p] = job[p]
        BY <4>1, <4>2, <4>3, EndedKept
      <4> QED BY <3>1, <3>3, <4>1, <4>4
    <3> QED BY <3>2, <3>3
  <2>2. CASE j = issued + 1
    <3>1. j \notin Present
      BY <1>2, <2>2 DEF RunnerInv, Given
    <3>2. PICK t \in Tasks : \/ At(t, "submit", "create") /\ job'[j] = NewDoc(None, 1)
                             \/ /\ At(t, "retry", "create")
                                /\ job'[j] = NewDoc(call[t].job, call[t].doc.attempt + 1)
      BY <1>3, <3>1, Writers DEF Written, Present
    <3>3. CASE job'[j] = NewDoc(None, 1)
      BY <3>3 DEF NewDoc
    <3>4. CASE At(t, "retry", "create") /\ job'[j] = NewDoc(call[t].job, call[t].doc.attempt + 1)
      <4> DEFINE p == call[t].job
      <4>1. p \in Jobs /\ p # None /\ p \in 1..issued /\ call[t].doc \in Docs
        BY <1>1, <1>2, <3>4 DEF TypeInv, CallOK, JobsGiven, Jobs
      <4>2. job'[j].parent = p /\ job'[j].attempt = call[t].doc.attempt + 1
            /\ call[t].doc.attempt \in Nat \ {0} /\ p # issued + 1
        BY <1>2, <3>4, <4>1 DEF NewDoc, Docs
      <4>3. p \in Present => job[p].status \in Terminal /\ job[p].attempt = call[t].doc.attempt
        BY <3>4 DEF OriginInv
      <4>4. job'[p] # None => p \in Present /\ job'[p] = job[p]
        BY <4>1, <4>2, <4>3, EndedKept
      <4> QED BY <1>2, <2>2, <4>1, <4>2, <4>3, <4>4
    <3> QED BY <3>2, <3>3, <3>4
  <2> QED BY <2>1, <2>2
<1>4. ASSUME NEW t \in Tasks, call'[t].at \in Writes
      PROVE  SameOrigin(call[t].doc, call[t].job)'
  <2>1. CASE call'[t] = call[t]
    <3>1. call[t].job \in Jobs /\ call[t].job # issued + 1 /\ SameOrigin(call[t].doc, call[t].job)
      BY <1>1, <1>4, <2>1, Copies DEF OriginInv
    <3> QED BY <2>1, <3>1, OriginKept DEF SameOrigin, Present
  <2>2. CASE call'[t] # call[t]
    <3>1. /\ call'[t].job = call[t].job /\ call[t].job \in Present
          /\ Built(call'[t].doc, job[call[t].job]) /\ job' = job
      BY <1>4, <2>2, BuildsNow
    <3> QED BY <1>1, <3>1, Copies, BuiltFields DEF SameOrigin, Present
  <2> QED BY <2>1, <2>2
<1>5. ASSUME NEW j \in Listed' PROVE SameOrigin(boot.todo[j], j)'
  <2>1. CASE j \in Listed /\ boot'.todo[j] = boot.todo[j]
    <3>1. j \in Jobs /\ j # issued + 1 /\ SameOrigin(boot.todo[j], j)
      BY <1>1, <2>1, Copies DEF OriginInv
    <3> QED BY <2>1, <3>1, OriginKept DEF SameOrigin, Present
  <2>2. CASE job' = job /\ boot'.todo[j] = job[j]
    BY <2>2 DEF SameOrigin
  <2> QED BY <1>5, <2>1, <2>2, ListKept
<1>6. ASSUME NEW t \in Tasks, At(t, "retry", "create")', call'[t].job \in Jobs,
             job'[call'[t].job] # None
      PROVE  LET p == call'[t].job
             IN job'[p].status \in Terminal /\ job'[p].attempt = call'[t].doc.attempt
  <2>1. CASE call'[t] = call[t]
    <3> DEFINE p == call[t].job
    <3>1. /\ p \in Jobs /\ p # issued + 1
          /\ p \in Present => job[p].status \in Terminal /\ job[p].attempt = call[t].doc.attempt
      BY <1>1, <1>6, <2>1, Copies DEF OriginInv, At
    <3>2. p \in Present /\ job'[p] = job[p]
      BY <1>6, <2>1, <3>1, EndedKept
    <3> QED BY <2>1, <3>1, <3>2
  <2>2. CASE call'[t] # call[t]
    <3>1. /\ call'[t].job = call[t].job /\ InStatus(call[t].job, Terminal)
          /\ call'[t].doc = job[call[t].job] /\ job' = job
      BY <1>6, <2>2, RetryReads
    <3> QED BY <3>1 DEF InStatus
  <2> QED BY <2>1, <2>2
<1> QED BY <1>1, <1>3, <1>4, <1>5, <1>6 DEF OriginInv, RetryOfTerminal, Present

\* RetryOfTerminal: a retry is the next attempt at a job that has ended, and its parent
\* stays ended for as long as it is kept (RetryForecastJob reads it before it creates).
THEOREM RetryOfTerminalAlways == Spec => []RetryOfTerminal
<1>1. Init => OriginInv
  BY DEF Init, OriginInv, RetryOfTerminal, JobsGiven, Idle, At, Writes, Present, Listed,
         Starting, NoScan
<1>2. OriginInv => RetryOfTerminal
  BY DEF OriginInv
<1> QED BY <1>1, <1>2, OriginStep, Invariance, PTL DEF Spec

----------------------------------------------------------------------------
(* What a guarded write leaves in its task. *)

\* A guarded write tells its task what it met.
LEMMA StoreMove ==
  ASSUME TypeInv, NEW t \in Tasks, call[t].at \in Writes,
         NEW expected, NEW next, NEW refused, NEW missing,
         next \notin {refused, missing}, refused # missing,
         Store(t, expected, next, refused, missing)
  PROVE  LET j == call[t].job IN
         /\ call'[t].op = call[t].op /\ call'[t].job = j
         /\ call'[t].at \in {next, refused, missing}
         /\ call'[t].at = next =>
              job'[j] # None /\ job'[j].status = call[t].doc.status
         /\ call'[t].at = refused =>
              j \in Present /\ job[j].status \notin expected /\ job'[j] = job[j]
<1> DEFINE at == Answer(call[t].job, expected, next, refused, missing)
<1>1. /\ call' = [call EXCEPT ![t].at = at, ![t].doc = None]
      /\ UpdateIfStatus(call[t].job, call[t].doc, expected)
      /\ call[t].doc \in Docs /\ call[t].job \in Jobs /\ call[t] # Idle
  BY DEF Store, TypeInv, CallOK, Idle, Writes
<1>2. /\ at \in {next, refused, missing} /\ (at = next <=> InStatus(call[t].job, expected))
      /\ at = refused => call[t].job \in Present /\ job[call[t].job].status \notin expected
  BY DEF Answer, InStatus
<1> HIDE DEF at
<1>3. call'[t].op = call[t].op /\ call'[t].job = call[t].job /\ call'[t].at = at
  BY <1>1, MoveShape
<1> QED BY <1>1, <1>2, <1>3, UpdateShape DEF TypeInv, InStatus

----------------------------------------------------------------------------
(* No job is left running with nobody at work on it, but by a failing store call. *)

\* A task in flight stays in flight while its job is running.
LEMMA FlightGoesOn ==
  ASSUME TypeInv, NEW t \in Tasks, InFlight(t), RunStep(t),
         NEW j \in Jobs, call[t].job = j, InStatus(j, {"running"})'
  PROVE  InFlight(t)' /\ call'[t].job = j
<1>1. /\ call[t].op = "run" /\ call[t].job \in Jobs /\ call[t] # Idle
      /\ call[t].at \in {"provider", "store_result", "store_failure"}
  BY DEF InFlight, TypeInv, CallOK, Writes, Idle
<1>2. call'[t].op = call[t].op /\ call'[t].job = call[t].job
  BY StepsAdvance DEF Advance
<1>3. CASE ProviderSucceeds(t) \/ ProviderFails(t)
  <2>1. PICK next \in {"store_result", "store_failure"} :
          \E doc : Load(t, {"running"}, next, "returned", "raised", doc)
    BY <1>3 DEF ProviderSucceeds, ProviderFails
  <2>2. job' = job /\ (call'[t].at = next <=> InStatus(call[t].job, {"running"}))
    BY <1>1, <2>1, LoadMove
  <2> QED BY <1>1, <1>2, <2>2 DEF InFlight, InStatus, Present
<1>4. CASE RunSettle(t)
  <2>1. /\ call[t].at \in Writes /\ call[t].doc \in Docs
        /\ call[t].doc.status \in {"succeeded", "failed"}
        /\ UpdateIfStatus(call[t].job, call[t].doc, {"running"})
    BY <1>4 DEF RunSettle, StoreResult, StoreFailure, Store, At, Writes, TypeInv, CallOK, Target
  <2>2. ~InStatus(j, {"running"})'
    <3>1. job'[call[t].job] = job[call[t].job] \/ job'[call[t].job].status # "running"
      BY <1>1, <2>1, UpdateShape DEF TypeInv
    <3> QED BY <1>1, <2>1, <3>1, UpdateShape DEF InStatus, Present, TypeInv
  <2> QED BY <2>2
<1> QED BY <1>1, <1>3, <1>4 DEF RunStep, RunLoad, RunClaim, At

\* A job comes to run only by the claim of a task that is then at the provider with it.
LEMMA ClaimedByOne ==
  ASSUME TypeInv, RunnerInv, [Next]_vars, NEW j \in Jobs,
         InStatus(j, {"running"})', ~InStatus(j, {"running"})
  PROVE  \E t \in Tasks : InFlight(t)' /\ call'[t].job = j
<1>1. job'[j] \notin {job[j], None} /\ job'[j].status = "running"
  BY DEF InStatus, Present
<1>2. ASSUME NEW k \in Jobs, NEW doc \in Docs, NEW expected, doc.status # "running",
             UpdateIfStatus(k, doc, expected)
      PROVE  FALSE
  BY <1>1, <1>2, UpdateShape DEF TypeInv
<1>3. ASSUME NEW t \in Tasks, Submit(t) \/ RetryCreate(t) PROVE FALSE
  <2>1. PICK parent, attempt : job' = [job EXCEPT ![issued + 1] = NewDoc(parent, attempt)]
    BY <1>3 DEF Submit, RetryCreate, CreateJob
  <2> QED BY <1>1, <2>1 DEF TypeInv, TypeOK, NewDoc
<1>4. ASSUME NEW t \in Tasks, CancelStore(t) \/ RunSettle(t) PROVE FALSE
  <2>1. /\ call[t].doc \in Docs /\ call[t].job \in Jobs /\ call[t].doc.status # "running"
        /\ \E expected : UpdateIfStatus(call[t].job, call[t].doc, expected)
    BY <1>4 DEF CancelStore, RunSettle, StoreResult, StoreFailure, Store, At, Writes, TypeInv,
                CallOK, Target
  <2> QED BY <1>2, <2>1
<1>5. ASSUME NEW t \in Tasks, Cleanup(t) PROVE FALSE
  BY <1>1, <1>5 DEF Cleanup, Forget
<1>6. ASSUME NEW t \in Tasks, \/ Request(t) \/ Deliver(t) \/ RetryLoad(t) \/ CancelLoad(t)
                              \/ RunLoad(t) \/ ProviderSucceeds(t) \/ ProviderFails(t)
                              \/ Return(t) \/ Elsewhere(t) \/ StoreFault(t)
      PROVE  FALSE
  BY <1>1, <1>6 DEF Request, Deliver, Arrive, RetryLoad, CancelLoad, RunLoad, ProviderSucceeds,
                    ProviderFails, Load, Return, Elsewhere, StoreFault
<1>7. ASSUME NEW k \in Jobs, RecoverJob(k) PROVE FALSE
  <2>1. boot.todo[k] \in Docs /\ boot.time \in Times /\ now \in Times
    BY <1>7 DEF RecoverJob, RecoverStale, RecoverRunning, RecoverQueued, Newest, TypeInv, TypeOK
  <2>2. /\ Failed(boot.todo[k], boot.time) \in Docs
        /\ Failed(boot.todo[k], boot.time).status = "failed"
        /\ Requeued(boot.todo[k]) \in Docs /\ Requeued(boot.todo[k]).status = "queued"
    BY <2>1, DocTypes
  <2>3. CASE RecoverStale(k)
    BY <1>2, <2>2, <2>3 DEF RecoverStale
  <2>4. CASE RecoverRunning(k)
    BY <1>2, <2>2, <2>4 DEF RecoverRunning
  <2>5. CASE RecoverQueued(k)
    BY <1>1, <2>5 DEF RecoverQueued
  <2> QED BY <1>7, <2>3, <2>4, <2>5 DEF RecoverJob
<1>8. CASE RecoverList \/ RecoverDone \/ Crash \/ Tick \/ UNCHANGED vars
  BY <1>1, <1>8 DEF RecoverList, RecoverDone, Crash, Tick, vars
<1>9. ASSUME NEW t \in Tasks, RunClaim(t) PROVE InFlight(t)' /\ call'[t].job = j
  <2>1. /\ UpdateIfStatus(call[t].job, call[t].doc, {"queued"})
        /\ call[t].op = "run" /\ call[t] # Idle
        /\ call[t].job \in Jobs /\ call[t].doc \in Docs
    BY <1>9 DEF RunClaim, At, Idle, Writes, TypeInv, CallOK
  <2>2. call[t].job = j /\ InStatus(j, {"queued"})
    BY <1>1, <2>1, UpdateShape DEF TypeInv
  <2>3. call' = [call EXCEPT ![t].at = "provider", ![t].doc = None]
    BY <1>9, <2>2 DEF RunClaim, Answer, InStatus
  <2>4. call'[t].at = "provider" /\ call'[t].op = "run" /\ call'[t].job = j
    BY <2>1, <2>2, <2>3, MoveShape
  <2> QED BY <2>4 DEF InFlight
<1> QED BY <1>3, <1>4, <1>5, <1>6, <1>7, <1>8, <1>9 DEF Next, RequestStep, RunStep

\* Startup lets go of an interrupted job only when it no longer runs.
LEMMA AwaitedUntilSettled ==
  ASSUME TypeInv, [Next]_vars, NEW j \in Jobs, Awaiting(j), InStatus(j, {"running"}),
         InStatus(j, {"running"})'
  PROVE  Awaiting(j)'
<1>1. CASE boot' = boot
  BY <1>1 DEF Awaiting, Listed
<1>2. CASE Crash
  BY <1>2 DEF Crash, Starting, Awaiting
<1>3. CASE RecoverList
  <2>1. boot'.todo = [k \in {i \in Jobs : InStatus(i, Active)} |-> job[k]]
    BY <1>3 DEF RecoverList
  <2>2. InStatus(j, Active) /\ job[j].status = "running"
    BY DEF InStatus, Active
  <2>3. j \in Listed' /\ boot'.todo[j].status = "running"
    BY <2>1, <2>2 DEF Listed
  <2> QED BY <2>3 DEF Awaiting
<1>4. CASE RecoverDone
  BY <1>4 DEF RecoverDone, Awaiting
<1>5. ASSUME NEW k \in Jobs, RecoverJob(k) PROVE Awaiting(j)'
  <2>1. /\ boot' = Without(k) /\ boot.at = "scan" /\ boot.todo[k] \in Docs
        /\ boot.time \in Times /\ now \in Times
    BY <1>5 DEF RecoverJob, RecoverStale, RecoverRunning, RecoverQueued, Newest, TypeInv, TypeOK
  <2>2. j \in Listed /\ boot.todo[j].status = "running"
    BY <2>1 DEF Awaiting
  <2>3. CASE k # j
    <3>1. j \in Listed' /\ boot'.todo[j] = boot.todo[j]
      BY <2>1, <2>2, <2>3, WithoutTypes
    <3> QED BY <2>2, <3>1 DEF Awaiting
  <2>4. CASE k = j
    <3>1. /\ Failed(boot.todo[j], boot.time) \in Docs
          /\ Failed(boot.todo[j], boot.time).status = "failed"
          /\ Requeued(boot.todo[j]) \in Docs /\ Requeued(boot.todo[j]).status = "queued"
      BY <2>1, <2>4, DocTypes
    <3>2. InStatus(j, Active)
      BY DEF InStatus, Active
    <3>3. job'[j].status \in {"failed", "queued"}
      <4>1. CASE RecoverStale(j)
        BY <3>1, <3>2, <4>1, UpdateShape DEF RecoverStale, TypeInv
      <4>2. CASE RecoverRunning(j)
        BY <3>1, <4>2, UpdateShape DEF RecoverRunning, TypeInv
      <4>3. ~RecoverQueued(j)
        BY <2>2 DEF RecoverQueued
      <4> QED BY <1>5, <2>4, <4>1, <4>2, <4>3 DEF RecoverJob
    <3> QED BY <3>3 DEF InStatus
  <2> QED BY <2>3, <2>4
<1>6. ASSUME NEW t \in Tasks, Own(t) PROVE boot' = boot
  BY <1>6, OwnKeepsBoot
<1> QED BY <1>1, <1>2, <1>3, <1>4, <1>5, <1>6 DEF Next, Own, Tick, vars

\* A running job loses its worker only by a store call that fails.
LEMMA StrandStep ==
  ASSUME TypeInv, RunnerInv, [Next]_vars, NEW j \in Jobs, Stranded(j)', ~Stranded(j)
  PROVE  \E t \in Tasks : /\ InFlight(t) /\ call[t].job = j /\ call'[t].at = "raised"
                          /\ faults' = faults + 1
<1>1. InStatus(j, {"running"})' /\ ~AtWork(j)' /\ ~Awaiting(j)'
  BY DEF Stranded
<1>2. InStatus(j, {"running"})
  BY <1>1, ClaimedByOne DEF AtWork
<1>3. ~Awaiting(j)
  BY <1>1, <1>2, AwaitedUntilSettled
<1>4. PICK t \in Tasks : InFlight(t) /\ call[t].job = j
  BY <1>2, <1>3 DEF Stranded, AtWork
<1>5. call'[t] # call[t]
  BY <1>1, <1>4 DEF AtWork, InFlight
<1>6. ~RunStep(t)
  BY <1>1, <1>4, FlightGoesOn DEF AtWork
<1>7. ~Crash
  BY <1>1 DEF Crash, Starting, Awaiting
<1>8. Own(t)
  BY <1>5, <1>7, OwnMoves
<1>9. StoreFault(t)
  BY <1>4, <1>6, <1>8 DEF InFlight, Own, Request, Deliver, Arrive, RequestStep, Submit,
     RetryLoad, RetryCreate, CancelLoad, CancelStore, Cleanup, Return, Elsewhere, At, Idle,
     Outcomes
<1>10. call'[t].at = "raised" /\ faults' = faults + 1
  <2>1. call[t] # Idle
    BY <1>4 DEF InFlight, Idle
  <2> QED BY <1>9, <2>1, MoveShape DEF StoreFault
<1> QED BY <1>4, <1>10

\* OnlyFaultsStrand: a job is left running with nobody at work on it only by a failing
\* store call of its own run, and only until the next start, for both kinds of store
\* (RunForecastJob, ForecastJobRecoveryService).
THEOREM OnlyFaultsStrandAlways == Spec => OnlyFaultsStrand
<1>1. TypeInv /\ RunnerInv /\ [Next]_vars =>
        [\A j \in Jobs : Stranded(j)' /\ ~Stranded(j) =>
           \E t \in Tasks : /\ InFlight(t) /\ call[t].job = j /\ call'[t].at = "raised"
                            /\ faults' = faults + 1]_vars
  BY StrandStep
<1> QED BY <1>1, Invariance, PTL DEF Spec, OnlyFaultsStrand

----------------------------------------------------------------------------
(* The event history, with a store that never gives the loop away. *)

\* Only whoever has the event loop, or anybody when it is free, moves.
LEMMA LoopKept ==
  ASSUME TypeInv, NEW c \in Tasks \union {Startup}, loop = c, [Next]_vars
  PROVE  \/ \E t \in Tasks : c = t /\ Own(t)
         \/ c = Startup /\ (RecoverList \/ RecoverDone \/ \E j \in Jobs : RecoverJob(j))
         \/ Crash
         \/ loop' = loop /\ UNCHANGED <<job, call, boot>>
<1>1. None # c
  BY TaskAssumption
<1>2. ASSUME NEW t \in Tasks, Own(t) PROVE Turn(t)
  BY <1>2 DEF Own, Request, Deliver, Arrive, RequestStep, Submit, RetryLoad, RetryCreate,
       CreateJob, CancelLoad, CancelStore, Cleanup, Forget, Load, Store, RunStep, RunLoad,
       RunClaim,
       ProviderSucceeds, ProviderFails, RunSettle, StoreResult, StoreFailure, Return, Elsewhere,
       StoreFault
<1>3. ASSUME RecoverList \/ RecoverDone \/ \E j \in Jobs : RecoverJob(j) PROVE Turn(Startup)
  BY <1>3 DEF RecoverList, RecoverDone, RecoverJob, RecoverStale, RecoverRunning, RecoverQueued
<1>4. CASE Tick \/ UNCHANGED vars
  BY <1>4 DEF Tick, vars
<1> QED BY <1>1, <1>2, <1>3, <1>4, TaskAssumption DEF Next, Own, Turn

\* A task about to write takes no step that leaves it there.
LEMMA WriteMoves ==
  ASSUME TypeInv, NEW t \in Tasks, call[t].at \in Writes, Own(t)
  PROVE  call'[t].at \notin Writes
<1>1. call[t] # Idle
  BY DEF Idle, Writes
<1>2. CASE CancelStore(t) \/ RunSettle(t)
  <2>1. CASE CancelStore(t)
    BY <2>1, StoreMove DEF CancelStore, Writes
  <2>2. CASE RunSettle(t)
    <3>1. Store(t, {"running"}, "returned", "returned", "raised")
      BY <2>2 DEF RunSettle, StoreResult, StoreFailure
    <3>2. PICK at \in {"returned", "raised"} :
            call' = [call EXCEPT ![t].at = at, ![t].doc = None]
      BY <3>1 DEF Store, Answer
    <3> QED BY <1>1, <3>2, MoveShape DEF Writes
  <2> QED BY <1>2, <2>1, <2>2
<1>3. CASE RunClaim(t)
  <2>1. PICK at \in {"provider", "returned", "raised"} :
          call' = [call EXCEPT ![t].at = at, ![t].doc = None]
    BY <1>3 DEF RunClaim, Answer
  <2> QED BY <1>1, <2>1, MoveShape DEF Writes
<1>4. CASE StoreFault(t)
  <2>1. call' = [call EXCEPT ![t].at = "raised", ![t].doc = None]
    BY <1>4 DEF StoreFault
  <2>2. call'[t].at = "raised"
    BY <1>1, <2>1, MoveShape
  <2> QED BY <2>2 DEF Writes
<1> QED BY <1>1, <1>2, <1>3, <1>4
        DEF Own, Writes, Outcomes, Request, Deliver, Arrive, RequestStep, Submit, RetryLoad,
            RetryCreate, CancelLoad, Cleanup, Forget, RunStep, RunLoad, ProviderSucceeds,
            ProviderFails,
            Return, Elsewhere, At

\* Copies stay up to date because their holders keep the loop.
LEMMA HistoryStep ==
  ASSUME StoreSuspends = FALSE
  PROVE  TypeInv /\ RunnerInv /\ JobsGiven /\ HistoryInv /\ [Next]_vars => HistoryInv'
<1> SUFFICES ASSUME TypeInv, RunnerInv, JobsGiven, HistoryInv, [Next]_vars
             PROVE  HistoryInv'
  OBVIOUS
<1>1. ASSUME NEW t \in Tasks, call'[t].at \in Writes
      PROVE  /\ loop' = t
             /\ call'[t].job \in Jobs /\ job'[call'[t].job] # None =>
                  call'[t].doc.events = Append(job'[call'[t].job].events, call'[t].doc.status)
  <2>1. CASE call'[t] # call[t]
    <3>1. /\ call'[t].job = call[t].job /\ call[t].job \in Present
          /\ Built(call'[t].doc, job[call[t].job]) /\ job' = job /\ loop' = t
      BY <1>1, <2>1, BuildsNow
    <3> QED BY <3>1, Copies, BuiltFields
  <2>2. CASE call'[t] = call[t]
    <3>1. /\ loop = t /\ call[t].at \in Writes
          /\ call[t].job \in Present =>
               call[t].doc.events = Append(job[call[t].job].events, call[t].doc.status)
      BY <1>1, <2>2 DEF HistoryInv
    <3>2. ~Own(t)
      BY <1>1, <3>1, WriteMoves
    <3>3. ~Crash
      BY <1>1 DEF Crash, Idle, Writes
    <3>4. loop' = loop /\ job' = job
      BY <3>1, <3>2, <3>3, LoopKept, TaskAssumption
    <3> QED BY <2>2, <3>1, <3>4 DEF Present
  <2> QED BY <2>1, <2>2
<1>2. CASE boot.at = "scan" /\ UNCHANGED <<job, boot, loop>>
  <2>1. loop' = Startup /\ \A j \in Listed' : boot'.at = "scan" /\ j \in Present' /\ boot'.todo[j] = job'[j]
    BY <1>2 DEF HistoryInv, Listed, Present
  <2> QED BY <1>1, <2>1 DEF HistoryInv, Present
<1>3. ASSUME NEW k \in Jobs, RecoverJob(k) PROVE HistoryInv'
  <2>1. /\ k \in Listed /\ boot.todo[k] \in Docs /\ boot.time \in Times /\ now \in Times
        /\ boot.at = "scan" /\ boot' = Without(k) /\ loop' = Startup
    BY <1>3 DEF RecoverJob, RecoverStale, RecoverRunning, RecoverQueued, Newest, TypeInv, TypeOK,
                Keep
  <2>2. boot'.at = "scan" /\ Listed' = Listed \ {k}
        /\ \A j \in Listed' : boot'.todo[j] = boot.todo[j]
    BY <2>1, WithoutTypes
  <2>3. \A j \in Jobs : j # k => job'[j] = job[j]
    BY <1>3, UpdateWrites DEF RecoverJob, RecoverStale, RecoverRunning, RecoverQueued, TypeInv
  <2>4. \A j \in Listed' : j \in Jobs /\ job[j] # None /\ boot.todo[j] = job[j] /\ j # k
    BY <2>2 DEF HistoryInv, Present
  <2>5. \A j \in Listed' : boot'.at = "scan" /\ j \in Present' /\ boot'.todo[j] = job'[j]
    BY <2>2, <2>3, <2>4 DEF Present
  <2> QED BY <1>1, <2>1, <2>5 DEF HistoryInv, Present
<1>4. CASE RecoverList
  <2>1. /\ boot'.at = "scan" /\ loop' = Startup /\ job' = job
        /\ boot'.todo = [j \in {k \in Jobs : InStatus(k, Active)} |-> job[j]]
    BY <1>4 DEF RecoverList, Keep
  <2>2. \A j \in Listed' : j \in Present' /\ boot'.todo[j] = job'[j]
    BY <2>1 DEF Listed, InStatus, Present
  <2> QED BY <1>1, <2>1, <2>2 DEF HistoryInv, Present
<1>5. CASE RecoverDone \/ Crash
  <2>1. boot'.at \in {"up", "list"} /\ Listed' = {}
    BY <1>5 DEF RecoverDone, Crash, Starting, NoScan, Listed
  <2> QED BY <1>1, <2>1 DEF HistoryInv, Present
<1>6. CASE boot.at # "scan" /\ boot' = boot
  <2>1. boot'.at # "scan" /\ Listed' = {}
    BY <1>6 DEF HistoryInv, Listed
  <2> QED BY <1>1, <2>1 DEF HistoryInv, Present
<1>7. CASE boot.at = "scan" /\ ~(RecoverList \/ RecoverDone \/ Crash \/ \E j \in Jobs : RecoverJob(j))
  <2>1. loop = Startup
    BY <1>7 DEF HistoryInv
  <2>2. UNCHANGED <<job, boot, loop>>
    BY <1>7, <2>1, LoopKept, TaskAssumption
  <2> QED BY <1>2, <1>7, <2>2
<1>8. CASE boot.at # "scan" /\ ~(RecoverList \/ RecoverDone \/ Crash \/ \E j \in Jobs : RecoverJob(j))
  <2>1. ASSUME NEW t \in Tasks, Own(t) PROVE boot' = boot
    BY <2>1, OwnKeepsBoot
  <2>2. boot' = boot
    BY <1>8, <2>1 DEF Next, Own, Tick, vars
  <2> QED BY <1>6, <1>8, <2>2
<1> QED BY <1>3, <1>4, <1>5, <1>7, <1>8

\* HistoryGrows: every write adds exactly its own event, as long as the store does not
\* give the event loop away between the read and the write, which the shipped stores
\* never do (append_job_event works on the snapshot of the writer).
THEOREM HistoryGrowsAlways ==
  ASSUME StoreSuspends = FALSE PROVE Spec => HistoryGrows
<1>1. Init => JobsGiven /\ HistoryInv
  BY DEF Init, JobsGiven, HistoryInv, Idle, Writes, Present, Listed, Starting, NoScan
<1>2. ASSUME TypeInv, RunnerInv, JobsGiven, HistoryInv, [Next]_vars, NEW j \in Jobs,
             job[j] # None, job'[j] \notin {None, job[j]}
      PROVE  job'[j].events = Append(job[j].events, job'[j].status)
  <2>1. j \in Present /\ j # issued + 1
    BY <1>2, Copies DEF Present, TypeInv, TypeOK
  <2>2. ASSUME NEW t \in Tasks, call[t].at \in Writes, call[t].job = j,
               job'[j] = [call[t].doc EXCEPT !.updated = now]
        PROVE  job'[j].events = Append(job[j].events, job'[j].status)
    <3>1. call[t].doc \in Docs
          /\ call[t].doc.events = Append(job[j].events, call[t].doc.status)
      BY <1>2, <2>1, <2>2, Copies DEF HistoryInv
    <3> QED BY <2>2, <3>1, DocFields
  <2>3. ASSUME NEW doc \in Docs, j \in Listed, Recovered(doc, j),
               job'[j] = [doc EXCEPT !.updated = now]
        PROVE  job'[j].events = Append(job[j].events, job'[j].status)
    <3>1. boot.todo[j] = job[j] /\ job[j] \in Docs
      BY <1>2, <2>1, <2>3, Copies DEF HistoryInv
    <3>2. doc.events = Append(job[j].events, doc.status)
      <4>1. CASE doc = Failed(job[j], boot.time)
        BY <3>1, <4>1 DEF Failed, Enter, Docs
      <4>2. CASE doc = Requeued(job[j])
        BY <3>1, <4>2 DEF Requeued, Enter, Docs
      <4> QED BY <2>3, <3>1, <4>1, <4>2 DEF Recovered
    <3> QED BY <2>3, <3>2, DocFields
  <2> QED BY <1>2, <2>1, <2>2, <2>3, Writers DEF Written
<1>3. TypeInv /\ RunnerInv /\ JobsGiven /\ HistoryInv /\ [Next]_vars =>
        [\A j \in Jobs : job[j] # None /\ job'[j] \notin {None, job[j]} =>
           job'[j].events = Append(job[j].events, job'[j].status)]_vars
  BY <1>2
<1> QED BY <1>1, <1>3, GivenStep, HistoryStep, Invariance, PTL DEF Spec, HistoryGrows
====
