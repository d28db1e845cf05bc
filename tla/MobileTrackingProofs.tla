---- MODULE MobileTrackingProofs ----
(***************************************************************************)
(* TrackingOK holds in every state of MobileTracking, for any number of    *)
(* trackers, jobs and polls.  To be inductive it needs to know when a      *)
(* tracker has a job: one without a job resets everything when it ends.    *)
(***************************************************************************)
EXTENDS MobileTracking, TLAPS

JobsNamed ==
  \A t \in Trackers : tracker[t].job = None <=> tracker[t].at \in {"idle", "asking"}

IInv == TrackingOK /\ JobsNamed

----------------------------------------------------------------------------
(* One tracker moves: the others stay. *)

\* A step of one tracker leaves the others alone and the types intact.
LEMMA Moves ==
  ASSUME MobileTypeOK, NEW t \in Trackers, NEW next \in TrackerStates,
         tracker' = [tracker EXCEPT ![t] = next]
  PROVE  /\ tracker' \in [Trackers -> TrackerStates]
         /\ tracker'[t] = next
         /\ \A u \in Trackers \ {t} : tracker'[u] = tracker[u]
BY DEF MobileTypeOK

\* What the state of a tracker is made of
LEMMA States ==
  /\ Idle \in TrackerStates
  /\ \A at \in {"idle", "asking", "waiting", "fetching"}, job \in Jobs \cup {None},
        polls \in 0..MaxJobPollAttempts :
       [at |-> at, job |-> job, polls |-> polls] \in TrackerStates
BY MobileAssumption DEF TrackerStates, Idle

\* What the fields of a tracker are.
LEMMA StateFields ==
  ASSUME MobileTypeOK, NEW t \in Trackers
  PROVE  /\ tracker[t].at \in {"idle", "asking", "waiting", "fetching"}
         /\ tracker[t].job \in Jobs \cup {None}
         /\ tracker[t].polls \in 0..MaxJobPollAttempts
BY DEF MobileTypeOK, TrackerStates

\* What IInv says of the tracking, with the types apart: the trackers with a job, the
\* active job and the spinner.
Tracking == ActiveIsFollowed /\ SpinnerHasCause /\ JobsNamed

\* A tracker that ends takes the active job and the spinner with it if they are its own,
\* and leaves them alone otherwise: then another tracker accounts for them.
LEMMA EndKeepsTracking ==
  ASSUME IInv, NEW t \in Trackers,
         tracker' = [tracker EXCEPT ![t] = Idle], tracker[t].at # "idle",
         panel' = panel \/ (active = tracker[t].job /\ tracker[t].job # None),
         Finally(tracker[t].job)
  PROVE  Tracking'
<1> USE DEF IInv, TrackingOK
<1>1. /\ tracker'[t] = Idle
      /\ \A u \in Trackers \ {t} : tracker'[u] = tracker[u]
  BY Moves, States
<1>2. JobsNamed'
  BY <1>1 DEF JobsNamed, Idle
<1>3. CASE active' = None /\ loading' = FALSE
  BY <1>2, <1>3 DEF Tracking, ActiveIsFollowed, SpinnerHasCause
<1>4. CASE /\ active' = active /\ loading' = loading /\ panel' = panel
           /\ tracker[t].job # None /\ active # tracker[t].job
  <2>1. tracker[t].at # "asking"
    BY <1>4 DEF JobsNamed
  <2>2. ActiveIsFollowed'
    BY <1>1, <1>4 DEF ActiveIsFollowed, Follows
  <2>3. SpinnerHasCause'
    BY <1>1, <1>4, <2>1 DEF SpinnerHasCause
  <2> QED
    BY <1>2, <2>2, <2>3 DEF Tracking
<1> QED
  BY <1>3, <1>4, StateFields DEF Finally

----------------------------------------------------------------------------
(* The steps of IInv, one per action *)

\* Nothing is followed or loading when the app starts.
LEMMA InitInv == Init => IInv
<1> SUFFICES ASSUME Init PROVE IInv
  OBVIOUS
<1> USE MobileAssumption
<1>1. MobileTypeOK
  BY States DEF Init, MobileTypeOK, Unsent
<1> QED
  BY <1>1 DEF Init, IInv, TrackingOK, ActiveIsFollowed, SpinnerHasCause, JobsNamed, Idle

\* A request goes out (refreshForecast, retryJob before their first await).
LEMMA AskInv ==
  ASSUME IInv, NEW t \in Trackers, Ask(t)
  PROVE  IInv'
<1> DEFINE next == [at |-> "asking", job |-> None, polls |-> 0]
<1> USE DEF IInv, TrackingOK
<1>1. next \in TrackerStates
  BY States, MobileAssumption
<1>2. /\ tracker' \in [Trackers -> TrackerStates]
      /\ tracker'[t] = next
      /\ \A u \in Trackers \ {t} : tracker'[u] = tracker[u]
  BY <1>1, Moves DEF Ask, Goes
<1>3. MobileTypeOK'
  BY <1>2 DEF Ask, MobileTypeOK
<1>4. ActiveIsFollowed'
  BY <1>2 DEF Ask, ActiveIsFollowed, Follows
<1>5. SpinnerHasCause' /\ JobsNamed'
  BY <1>2 DEF Ask, SpinnerHasCause, JobsNamed
<1> QED
  BY <1>3, <1>4, <1>5

\* The job was accepted and becomes the active one (trackForecastJob).
LEMMA CreatedInv ==
  ASSUME IInv, NEW t \in Trackers, NEW j \in Jobs, Created(t, j)
  PROVE  IInv'
<1> DEFINE next == [at |-> "waiting", job |-> j, polls |-> 0]
<1> USE MobileAssumption DEF IInv, TrackingOK
<1>1. next \in TrackerStates
  BY States
<1>2. /\ tracker' \in [Trackers -> TrackerStates]
      /\ tracker'[t] = next
      /\ \A u \in Trackers \ {t} : tracker'[u] = tracker[u]
  BY <1>1, Moves DEF Created, Goes
<1>3. MobileTypeOK'
  BY <1>2 DEF Created, MobileTypeOK
<1>4. ActiveIsFollowed'
  BY <1>2 DEF Created, ActiveIsFollowed, Follows
<1>5. SpinnerHasCause' /\ JobsNamed'
  BY <1>2 DEF Created, SpinnerHasCause, JobsNamed
<1> QED
  BY <1>3, <1>4, <1>5

\* A tracker fails, whatever the panel shows then.
LEMMA FailsInv ==
  ASSUME IInv, NEW t \in Trackers, Fails(t), tracker[t].at # "idle",
         panel' = panel \/ (active = tracker[t].job /\ tracker[t].job # None),
         panel' \in Jobs \cup {None}, UNCHANGED <<cancels, status, latest, given_up>>
  PROVE  IInv'
<1> USE DEF IInv, TrackingOK
<1>1. Tracking'
  BY EndKeepsTracking DEF Fails
<1>2. tracker' \in [Trackers -> TrackerStates]
  BY Moves, States DEF Fails
<1>3. active' \in Jobs \cup {None} /\ loading' \in BOOLEAN
  BY DEF Fails, Finally, MobileTypeOK
<1>4. MobileTypeOK'
  BY <1>2, <1>3 DEF Fails, MobileTypeOK
<1> QED
  BY <1>1, <1>4 DEF Tracking

\* A tracker with a job goes on with it; the screen stays.
LEMMA GoesOnInv ==
  ASSUME IInv, NEW t \in Trackers, NEW at \in {"waiting", "fetching"},
         NEW polls \in 0..MaxJobPollAttempts,
         tracker[t].at \in {"waiting", "fetching"}, Goes(t, at, tracker[t].job, polls),
         UNCHANGED <<screen, cancels, status, latest, given_up>>
  PROVE  IInv'
<1> DEFINE next == [at |-> at, job |-> tracker[t].job, polls |-> polls]
<1> USE DEF IInv, TrackingOK, screen
<1>1. next \in TrackerStates
  BY States, StateFields
<1>2. /\ tracker' \in [Trackers -> TrackerStates]
      /\ tracker'[t] = next
      /\ \A u \in Trackers \ {t} : tracker'[u] = tracker[u]
  BY <1>1, Moves DEF Goes
<1>3. MobileTypeOK'
  BY <1>2 DEF MobileTypeOK
<1>4. ActiveIsFollowed'
  BY <1>2 DEF ActiveIsFollowed, Follows
<1>5. SpinnerHasCause' /\ JobsNamed'
  BY <1>2 DEF SpinnerHasCause, JobsNamed
<1> QED
  BY <1>3, <1>4, <1>5

\* A tracker whose job is not the active one ends without a trace.
LEMMA StaleInv ==
  ASSUME IInv, NEW t \in Trackers, tracker[t].at \in {"waiting", "fetching"},
         active # tracker[t].job, Goes(t, "idle", None, 0),
         UNCHANGED <<screen, cancels, status, latest, given_up>>
  PROVE  IInv'
<1> USE DEF IInv, TrackingOK, screen
<1>1. tracker' = [tracker EXCEPT ![t] = Idle]
  BY DEF Goes, Idle
<1>2. tracker[t].job # None
  BY DEF JobsNamed
<1>3. Tracking'
  BY <1>1, <1>2, EndKeepsTracking DEF Finally
<1>4. MobileTypeOK'
  BY <1>1, Moves, States DEF MobileTypeOK
<1> QED
  BY <1>3, <1>4 DEF Tracking

\* A poll is answered (waitForForecastJob).
LEMMA PolledInv ==
  ASSUME IInv, NEW t \in Trackers, Polled(t)
  PROVE  IInv'
<1> DEFINE j == tracker[t].job
<1> USE DEF Polled
<1>1. CASE /\ tracker[t].polls < MaxJobPollAttempts
           /\ Goes(t, "waiting", j, tracker[t].polls + 1) /\ UNCHANGED screen
  <2>1. tracker[t].polls + 1 \in 0..MaxJobPollAttempts
    BY <1>1, StateFields, MobileAssumption DEF IInv, TrackingOK
  <2> QED
    BY <1>1, <2>1, GoesOnInv
<1>2. CASE Fails(t) /\ UNCHANGED panel
  BY <1>2, FailsInv DEF IInv, TrackingOK, MobileTypeOK
<1>3. CASE Goes(t, "fetching", j, 0) /\ UNCHANGED screen
  BY <1>3, GoesOnInv, MobileAssumption
<1>4. CASE active # j /\ Goes(t, "idle", None, 0) /\ UNCHANGED screen
  BY <1>4, StaleInv
<1> QED
  BY <1>1, <1>2, <1>3, <1>4

\* The job is fetched (trackForecastJob after its second await).
LEMMA FetchedInv ==
  ASSUME IInv, NEW t \in Trackers, Fetched(t)
  PROVE  IInv'
<1> DEFINE j == tracker[t].job
<1> USE DEF Fetched
<1>0. j \in Jobs
  BY StateFields DEF IInv, TrackingOK, JobsNamed
<1>1. CASE active # j /\ Goes(t, "idle", None, 0) /\ UNCHANGED screen
  BY <1>1, StaleInv
<1>2. CASE /\ active = j /\ Goes(t, "idle", None, 0)
           /\ panel' = j /\ forecast' = j /\ Finally(j) /\ UNCHANGED failed
  <2> USE DEF IInv, TrackingOK
  <2>1. tracker' = [tracker EXCEPT ![t] = Idle]
    BY <1>2 DEF Goes, Idle
  <2>2. Tracking'
    BY <1>0, <1>2, <2>1, EndKeepsTracking, MobileAssumption
  <2>3. active' = None /\ loading' = FALSE
    BY <1>2 DEF Finally
  <2>4. MobileTypeOK'
    BY <1>0, <1>2, <2>1, <2>3, Moves, States DEF MobileTypeOK
  <2> QED
    BY <2>2, <2>4 DEF Tracking
<1>3. CASE active = j /\ panel' = j /\ Fails(t)
  BY <1>0, <1>3, FailsInv, MobileAssumption
<1> QED
  BY <1>1, <1>2, <1>3

\* A cancel request goes out, arrives or fails: the screen stays.
LEMMA CancelInv ==
  ASSUME IInv, NEW j \in Jobs, Cancel(j) \/ CancelArrives(j) \/ CancelFails(j)
  PROVE  IInv'
<1> USE DEF IInv, TrackingOK, screen
<1>1. MobileTypeOK'
  <2>1. CASE Cancel(j)
    BY <2>1 DEF Cancel, MobileTypeOK
  <2>2. CASE CancelArrives(j)
    BY <2>2 DEF CancelArrives, MobileTypeOK
  <2>3. CASE CancelFails(j)
    BY <2>3 DEF CancelFails, MobileTypeOK, Unsent
  <2> QED
    BY <2>1, <2>2, <2>3
<1> USE DEF Cancel, CancelArrives, CancelFails
<1>2. ActiveIsFollowed' /\ SpinnerHasCause' /\ JobsNamed'
  BY DEF ActiveIsFollowed, Follows, SpinnerHasCause, JobsNamed
<1> QED
  BY <1>1, <1>2

\* Nothing is active once the cancelling of the shown job is confirmed (cancelJob).
LEMMA CancelConfirmedInv ==
  ASSUME IInv, NEW j \in Jobs, CancelConfirmed(j)
  PROVE  IInv'
<1> USE DEF IInv, TrackingOK, CancelConfirmed
<1>1. MobileTypeOK'
  BY DEF MobileTypeOK, Unsent
<1>2. ActiveIsFollowed' /\ SpinnerHasCause' /\ JobsNamed'
  BY DEF ActiveIsFollowed, Follows, SpinnerHasCause, JobsNamed
<1> QED
  BY <1>1, <1>2

\* Nothing but the backend or the error message changes.
LEMMA OutsideInv ==
  ASSUME IInv, \/ RejectCoordinates
               \/ UNCHANGED vars
               \/ \E j \in Jobs : JobEnds(j)
  PROVE  IInv'
<1> USE DEF IInv, TrackingOK, RejectCoordinates, vars, JobEnds, screen
<1>1. MobileTypeOK'
  BY DEF MobileTypeOK
<1>2. ActiveIsFollowed' /\ SpinnerHasCause' /\ JobsNamed'
  BY DEF ActiveIsFollowed, Follows, SpinnerHasCause, JobsNamed
<1> QED
  BY <1>1, <1>2

\* Every step keeps the invariant.
LEMMA StepInv == IInv /\ [Next]_vars => IInv'
<1> SUFFICES ASSUME IInv, [Next]_vars PROVE IInv'
  OBVIOUS
<1>1. ASSUME NEW t \in Trackers, RequestFails(t) PROVE IInv'
  BY <1>1, FailsInv DEF RequestFails, IInv, TrackingOK, MobileTypeOK
<1>2. ASSUME NEW t \in Trackers, Ask(t) \/ Answer(t) PROVE IInv'
  BY <1>1, <1>2, AskInv, CreatedInv, PolledInv, FetchedInv DEF Answer
<1> QED
  BY <1>2, CancelInv, CancelConfirmedInv, OutsideInv DEF Next

----------------------------------------------------------------------------
\* The types, and the agreement of the active job, the panel and the spinner with the
\* trackers, hold in every state (useForecast.ts: refreshForecast, retryJob, cancelJob).
THEOREM TrackingHolds == Spec => []TrackingOK
<1>1. IInv => TrackingOK
  BY DEF IInv
<1> QED
  BY <1>1, InitInv, StepInv, PTL DEF Spec

----------------------------------------------------------------------------
(* The active job is the one accepted last, and no confirmed cancelling of it is known; *)
(* that needs the jobs a cancel was sent for to exist, so that no new one is among them. *)

NewestActive == active # None => active = latest /\ active \notin given_up
CancelledExist == \A j \in Jobs : cancels[j].sent \/ j \in given_up => status[j] # "absent"
Newest == NewestActive /\ CancelledExist

\* No job is active when the app starts.
LEMMA NewestInit == Init => Newest
BY DEF Init, Newest, NewestActive, CancelledExist, Unsent

\* What a tracker that is polling, fetching or failing does to the active job
LEMMA NewestTracker ==
  ASSUME MobileTypeOK, Newest, NEW t \in Trackers,
         active' \in {active, None}, UNCHANGED <<cancels, status, latest, given_up>>
  PROVE  Newest'
BY DEF Newest, NewestActive, CancelledExist

\* Every step keeps the active job the newest one.
LEMMA NewestStep ==
  ASSUME MobileTypeOK, Newest, [Next]_vars
  PROVE  Newest'
<1>1. ASSUME NEW t \in Trackers, Ask(t) \/ RequestFails(t) \/ Polled(t) \/ Fetched(t)
      PROVE  Newest'
  <2>1. active' \in {active, None} /\ UNCHANGED <<cancels, status, latest, given_up>>
    BY <1>1 DEF Ask, RequestFails, Polled, Fetched, Fails, Finally, screen
  <2> QED
    BY <2>1, NewestTracker
<1>2. ASSUME NEW t \in Trackers, NEW j \in Jobs, Created(t, j) PROVE Newest'
  BY <1>2, MobileAssumption DEF Created, Newest, NewestActive, CancelledExist, MobileTypeOK
<1>3. ASSUME NEW j \in Jobs, Cancel(j) PROVE Newest'
  BY <1>3 DEF Cancel, Newest, NewestActive, CancelledExist, MobileTypeOK, screen
<1>4. ASSUME NEW j \in Jobs, CancelArrives(j) PROVE Newest'
  BY <1>4 DEF CancelArrives, Newest, NewestActive, CancelledExist, MobileTypeOK, screen
<1>5. ASSUME NEW j \in Jobs, CancelConfirmed(j) PROVE Newest'
  BY <1>5 DEF CancelConfirmed, Newest, NewestActive, CancelledExist, MobileTypeOK, Unsent
<1>6. ASSUME NEW j \in Jobs, CancelFails(j) PROVE Newest'
  BY <1>6 DEF CancelFails, Newest, NewestActive, CancelledExist, MobileTypeOK, Unsent, screen
<1>7. ASSUME NEW j \in Jobs, JobEnds(j) PROVE Newest'
  BY <1>7 DEF JobEnds, Newest, NewestActive, CancelledExist, MobileTypeOK, screen
<1>8. CASE RejectCoordinates \/ UNCHANGED vars
  BY <1>8 DEF RejectCoordinates, Newest, NewestActive, CancelledExist, vars, screen
<1> QED
  BY <1>1, <1>2, <1>3, <1>4, <1>5, <1>6, <1>7, <1>8 DEF Next, Answer

\* A forecast that comes to be shown is that of the job accepted last, and not of one
\* whose cancelling was confirmed on the panel (trackForecastJob, cancelJob).
THEOREM NewestShown == Spec => NewestWins
<1>1. ASSUME Newest, IInv, [Next]_vars
      PROVE  [forecast' # forecast /\ forecast' # None =>
                forecast' = latest /\ forecast' \notin given_up]_vars
  <2> SUFFICES ASSUME Next, forecast' # forecast, forecast' # None
               PROVE  forecast' = latest /\ forecast' \notin given_up
    BY <1>1 DEF vars
  <2>1. forecast' = active /\ active # None
    BY <1>1 DEF Next, Answer, RejectCoordinates, Ask, Created, RequestFails, Polled, Fetched,
                Fails, Cancel, CancelArrives, CancelConfirmed, CancelFails, JobEnds, screen
  <2> QED
    BY <1>1, <2>1 DEF Newest, NewestActive
<1>2. IInv => MobileTypeOK
  BY DEF IInv, TrackingOK
<1> QED
  BY <1>1, <1>2, InitInv, StepInv, NewestInit, NewestStep, PTL DEF Spec, NewestWins
====
