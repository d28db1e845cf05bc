---- MODULE MobileTracking ----
(***************************************************************************)
(* useForecast: the mobile app asks for forecasts, follows the job of each *)
(* until it is over and shows the forecast of the one that is `active'.    *)
(* Presets and retries can be pressed while one is being followed, so      *)
(* several trackers (calls of refreshForecast and retryJob) are under way  *)
(* at a time.  JavaScript runs what follows an answer to its next await    *)
(* without a break: one step.                                              *)
(*                                                                         *)
(* The jobs are the backend's; it answers a request, or the request fails. *)
(***************************************************************************)
EXTENDS Integers, FiniteSets

CONSTANTS
  Trackers, Jobs, None,
  MaxJobPollAttempts,  \* maxJobPollAttempts: the polls after the first
  MaxCancels           \* bound on the cancel requests on their way

ASSUME MobileAssumption == /\ None \notin Jobs
                           /\ MaxJobPollAttempts \in Nat /\ MaxCancels \in Nat

VARIABLES
  tracker,      \* where each tracker is, which job it follows, how often that was polled
  active,       \* activeJobId
  loading,      \* isLoading and isJobPolling, which are always set together
  panel,        \* forecastJob: the job on the panel
  forecast,     \* whose forecast is shown
  failed,       \* whether an error message is shown
  cancels,      \* the cancel requests on their way: what forecastJob was when they were pressed
  status,       \* the jobs in the backend
  latest,       \* history: the job accepted last
  given_up      \* history: the jobs whose cancelling was confirmed while the panel showed them

screen == <<active, loading, panel, forecast, failed>>
vars == <<tracker, screen, cancels, status, latest, given_up>>

Idle == [at |-> "idle", job |-> None, polls |-> 0]

TrackerStates == [at : {"idle", "asking", "waiting", "fetching"},
                  job : Jobs \cup {None}, polls : 0..MaxJobPollAttempts]

MobileTypeOK ==
  /\ tracker \in [Trackers -> TrackerStates]
  /\ active \in Jobs \cup {None} /\ panel \in Jobs \cup {None} /\ forecast \in Jobs \cup {None}
  /\ loading \in BOOLEAN /\ failed \in BOOLEAN
  /\ cancels \in [Jobs -> [sent : BOOLEAN, shown : Jobs \cup {None}, done : BOOLEAN]]
  /\ status \in [Jobs -> {"absent", "active", "succeeded", "failed", "cancelled"}]
  /\ latest \in Jobs \cup {None} /\ given_up \subseteq Jobs

Unsent == [sent |-> FALSE, shown |-> None, done |-> FALSE]

Init ==
  /\ tracker = [t \in Trackers |-> Idle]
  /\ active = None /\ loading = FALSE /\ panel = None /\ forecast = None /\ failed = FALSE
  /\ cancels = [j \in Jobs |-> Unsent]
  /\ status = [j \in Jobs |-> "absent"]
  /\ latest = None /\ given_up = {}

----------------------------------------------------------------------------
(* Trackers *)

Goes(t, at, job, polls) == tracker' = [tracker EXCEPT ![t] = [at |-> at, job |-> job, polls |-> polls]]

\* The request goes out: a preset, a retry, or the update button if nothing is loading.
Ask(t) ==
  /\ tracker[t].at = "idle"
  /\ Goes(t, "asking", None, 0)
  /\ loading' = TRUE /\ failed' = FALSE
  /\ UNCHANGED <<active, panel, forecast, cancels, status, latest, given_up>>

\* The update button with coordinates that are not numbers
RejectCoordinates ==
  /\ ~loading /\ failed' = TRUE
  /\ UNCHANGED <<tracker, active, loading, panel, forecast, cancels, status, latest, given_up>>

\* The finally block: a tracker without a job, or with the active one, ends the spinner.
Finally(job) ==
  IF job = None \/ active = job THEN active' = None /\ loading' = FALSE
  ELSE UNCHANGED <<active, loading>>

\* An error of any tracker, also of one that is not active, takes the forecast away.
Fails(t) ==
  /\ tracker' = [tracker EXCEPT ![t] = Idle]
  /\ forecast' = None /\ failed' = TRUE
  /\ Finally(tracker[t].job)

\* The id of a new job.  Ids are all alike: which one it is makes no difference.
Fresh == CHOOSE j \in Jobs : status[j] = "absent"

\* The job was accepted.
Created(t, j) ==
  /\ tracker[t].at = "asking" /\ status[j] = "absent" /\ j = Fresh
  /\ status' = [status EXCEPT ![j] = "active"]
  /\ Goes(t, "waiting", j, 0)
  /\ active' = j /\ panel' = j /\ latest' = j
  /\ UNCHANGED <<loading, forecast, failed, cancels, given_up>>

\* Any request of a tracker fails; the tracker gives up.
RequestFails(t) ==
  /\ tracker[t].at # "idle"
  /\ Fails(t)
  /\ UNCHANGED <<panel, cancels, status, latest, given_up>>

\* Slip: there is no limit.
PolledForEver(t) ==
  LET j == tracker[t].job
      over == status[j] # "active"
  IN /\ tracker[t].at = "waiting"
     /\ \/ ~over /\ UNCHANGED screen
              /\ Goes(t, "waiting", j, (tracker[t].polls + 1) % (MaxJobPollAttempts + 1))
        \/ over /\ active = j /\ Goes(t, "fetching", j, 0) /\ UNCHANGED screen
        \/ over /\ active # j /\ Goes(t, "idle", None, 0) /\ UNCHANGED screen
     /\ UNCHANGED <<cancels, status, latest, given_up>>

\* A poll: the job is not over and is polled again, or once too often; or it is over.
Polled(t) ==
  LET j == tracker[t].job
      over == status[j] # "active"
  IN /\ tracker[t].at = "waiting"
     /\ \/ /\ ~over /\ tracker[t].polls < MaxJobPollAttempts
           /\ Goes(t, "waiting", j, tracker[t].polls + 1) /\ UNCHANGED screen
        \/ /\ ~over /\ tracker[t].polls = MaxJobPollAttempts
           /\ Fails(t) /\ UNCHANGED panel
        \/ over /\ active = j /\ Goes(t, "fetching", j, 0) /\ UNCHANGED screen
        \/ over /\ active # j /\ Goes(t, "idle", None, 0) /\ UNCHANGED screen
     /\ UNCHANGED <<cancels, status, latest, given_up>>

\* Slip: activeJobId is not looked at again after the second await.
FetchedUnchecked(t) ==
  LET j == tracker[t].job
  IN /\ tracker[t].at = "fetching" /\ panel' = j
     /\ \/ /\ status[j] = "succeeded"
           /\ Goes(t, "idle", None, 0)
           /\ forecast' = j /\ Finally(j) /\ UNCHANGED failed
        \/ status[j] # "succeeded" /\ Fails(t)
     /\ UNCHANGED <<cancels, status, latest, given_up>>

\* The job is fetched: its forecast is shown, or what went wrong; if it is active still.
Fetched(t) ==
  LET j == tracker[t].job
  IN /\ tracker[t].at = "fetching"
     /\ \/ active # j /\ Goes(t, "idle", None, 0) /\ UNCHANGED screen
        \/ /\ active = j /\ status[j] = "succeeded"
           /\ Goes(t, "idle", None, 0)
           /\ panel' = j /\ forecast' = j /\ Finally(j) /\ UNCHANGED failed
        \/ active = j /\ status[j] # "succeeded" /\ panel' = j /\ Fails(t)
     /\ UNCHANGED <<cancels, status, latest, given_up>>

Answer(t) == (\E j \in Jobs : Created(t, j)) \/ RequestFails(t) \/ Polled(t) \/ Fetched(t)

----------------------------------------------------------------------------
(* Cancelling, from the panel or from the history *)

Cancel(j) ==
  /\ status[j] # "absent" /\ ~cancels[j].sent
  /\ Cardinality({k \in Jobs : cancels[k].sent}) < MaxCancels
  /\ cancels' = [cancels EXCEPT ![j] = [sent |-> TRUE, shown |-> panel, done |-> FALSE]]
  /\ UNCHANGED <<tracker, screen, status, latest, given_up>>

\* The backend cancels a job that is not over; for others it answers that it is too late.
CancelArrives(j) ==
  /\ cancels[j].sent /\ ~cancels[j].done /\ status[j] = "active"
  /\ status' = [status EXCEPT ![j] = "cancelled"]
  /\ cancels' = [cancels EXCEPT ![j].done = TRUE]
  /\ UNCHANGED <<tracker, screen, latest, given_up>>

\* Slip: the spinner is left to the tracker.
CancelConfirmedSpinning(j) ==
  /\ cancels[j].sent /\ cancels[j].done
  /\ cancels' = [cancels EXCEPT ![j] = Unsent]
  /\ IF cancels[j].shown = j
     THEN active' = None /\ panel' = j /\ given_up' = given_up \cup {j}
     ELSE UNCHANGED <<active, panel, given_up>>
  /\ UNCHANGED <<tracker, loading, forecast, failed, status, latest>>

\* The panel is compared as it was when the button was pressed.
CancelConfirmed(j) ==
  /\ cancels[j].sent /\ cancels[j].done
  /\ cancels' = [cancels EXCEPT ![j] = Unsent]
  /\ IF cancels[j].shown = j
     THEN /\ active' = None /\ loading' = FALSE /\ panel' = j
          /\ given_up' = given_up \cup {j}
     ELSE UNCHANGED <<active, loading, panel, given_up>>
  /\ UNCHANGED <<tracker, forecast, failed, status, latest>>

\* The answer that it is too late, or an answer that never came
CancelFails(j) ==
  /\ cancels[j].sent
  /\ cancels' = [cancels EXCEPT ![j] = Unsent]
  /\ UNCHANGED <<tracker, screen, status, latest, given_up>>

\* A worker ends the job.
JobEnds(j) ==
  /\ status[j] = "active"
  /\ \E end \in {"succeeded", "failed"} : status' = [status EXCEPT ![j] = end]
  /\ UNCHANGED <<tracker, screen, cancels, latest, given_up>>

Next ==
  \/ RejectCoordinates
  \/ \E t \in Trackers : Ask(t) \/ Answer(t)
  \/ \E j \in Jobs : \/ Cancel(j) \/ CancelArrives(j) \/ CancelConfirmed(j) \/ CancelFails(j)
                     \/ JobEnds(j)

\* Every request is answered or fails.  The app has no timeout of its own: this is what the
\* backend and the network stack owe it.
Fairness == \A t \in Trackers : WF_vars(Answer(t))

Spec == Init /\ [][Next]_vars /\ Fairness

----------------------------------------------------------------------------
(* Properties *)

Follows(t, j) == tracker[t].at \in {"waiting", "fetching"} /\ tracker[t].job = j

\* The active job is the one on the panel, and some tracker follows it.
ActiveIsFollowed ==
  active # None => panel = active /\ \E t \in Trackers : Follows(t, active)

\* The spinner turns only while there is an active job or a request for one, so it never
\* turns for ever over trackers that have all ended.
SpinnerHasCause ==
  loading => active # None \/ \E t \in Trackers : tracker[t].at = "asking"

\* Types of all variables; the active job, the panel and the spinner agree with what the
\* trackers do, though each tracker resets the shared state only if it believes itself
\* current (the finally blocks of refreshForecast and retryJob, cancelJob).
TrackingOK == MobileTypeOK /\ ActiveIsFollowed /\ SpinnerHasCause

\* A forecast that comes to be shown is that of the job accepted last, and not of one whose
\* cancelling was confirmed on the panel, however late the answers of older trackers come
\* (the two checks of activeJobId in trackForecastJob).
NewestWins ==
  [][forecast' # forecast /\ forecast' # None => forecast' = latest /\ forecast' \notin given_up]_vars

\* Every tracker ends: the polls of a job that never ends are limited (waitForForecastJob).
TrackersEnd == \A t \in Trackers : tracker[t].at # "idle" ~> tracker[t].at = "idle"
====
