---- MODULE HostedInference ----
(***************************************************************************)
(* FourCastNetNimClient.run_hosted_inference: one POST, then status polls  *)
(* while the service answers 202, then perhaps a download.  Several calls  *)
(* are under way at a time, each with its own HTTP client.  The service    *)
(* may answer anything, or nothing (a transport error or a timeout).       *)
(*                                                                         *)
(* What follows an answer up to the next await is one step.  The sleep     *)
(* between two polls is part of the wait for the next answer.              *)
(***************************************************************************)
EXTENDS Naturals

CONSTANTS
  Calls,            \* calls that can be under way at a time
  Ids,              \* NVCF request ids
  Bodies,           \* the contents tar answers can have
  None,
  MaxPollAttempts   \* max_poll_attempts

VARIABLES
  exchange,  \* the local variables of each call; once it has ended, its result or diagnostics
  traffic    \* history: the polls of each call and the id the service told it last

Sources == {"inline", "poll", "redirect", "response_reference"}
Causes == {"no_id", "limit", "status", "no_location", "download", "transport"}
Kinds == {"tar", "json", "marker"}

ASSUME ClientAssumption ==
  None \notin Ids \cup Bodies \cup Causes \cup Kinds /\ MaxPollAttempts \in Nat

\* `why' is the kind of an answer, or the cause of a failure.
Nothing == [at |-> "idle", id |-> None, polls |-> 0, source |-> "inline",
            why |-> None, body |-> None]
Untold == [polled |-> 0, told |-> None]

Waiting == {"posting", "polling"}
InFlight == Waiting \cup {"downloading"}

ExchangeOK ==
  /\ exchange \in [Calls -> [at : {"idle", "answered", "failed"} \cup InFlight,
                             id : Ids \cup {None}, polls : 0..MaxPollAttempts,
                             source : Sources, why : Kinds \cup Causes \cup {None},
                             body : Bodies \cup {None}]]
  /\ traffic \in [Calls -> [polled : Nat, told : Ids \cup {None}]]

----------------------------------------------------------------------------
(* What a call makes of an answer.  `id' is the request id it finds in the *)
(* answer, None if it finds none: in the nvcf-reqid header, else in the    *)
(* JSON body, which is not looked into for the result of a poll and for    *)
(* what was downloaded.                                                    *)

\* request_id = self._request_id(response) or request_id
\* Slip: the first id is kept.
FirstId(c, id) == IF exchange[c].id = None THEN id ELSE exchange[c].id
LatestId(c, id) == IF id = None THEN exchange[c].id ELSE id

\* poll_attempts and response_source, after the answer just received
\* Slip: the answer of a poll is not counted.
PollsUncounted(c) == exchange[c].polls
Polls(c) == exchange[c].polls + IF exchange[c].at = "polling" THEN 1 ELSE 0
Source(c) == IF exchange[c].at = "polling" THEN "poll" ELSE "inline"

Now(c, at, id, polls, source, why, body) ==
  exchange' = [exchange EXCEPT ![c] = [at |-> at, id |-> id, polls |-> polls,
                                       source |-> source, why |-> why, body |-> body]]
Hears(c, id) == traffic' = [traffic EXCEPT ![c].told = IF id = None THEN @ ELSE id]

HearsAndPolls(c, id) ==
  traffic' = [traffic EXCEPT ![c] = [polled |-> @.polled + 1,
                                     told |-> IF id = None THEN @.told ELSE id]]

Post(c) ==
  /\ exchange' = [exchange EXCEPT ![c] = [Nothing EXCEPT !.at = "posting"]]
  /\ traffic' = [traffic EXCEPT ![c] = Untold]

\* 202: poll again with the latest id, unless there is none or the limit is reached.
\* Slip: one poll too many.
AcceptedOnceMore(c, id) ==
  LET latest == LatestId(c, id) IN
  /\ exchange[c].at \in Waiting /\ latest # None /\ Polls(c) <= MaxPollAttempts
  /\ Now(c, "polling", latest, Polls(c), Source(c), None, None)
  /\ HearsAndPolls(c, id)

Accepted(c, id) ==
  LET latest == LatestId(c, id) IN
  /\ exchange[c].at \in Waiting
  /\ \/ /\ latest # None /\ Polls(c) < MaxPollAttempts
        /\ Now(c, "polling", latest, Polls(c), Source(c), None, None)
        /\ HearsAndPolls(c, id)
     \/ /\ latest = None \/ Polls(c) >= MaxPollAttempts
        /\ Now(c, "failed", latest, Polls(c), Source(c),
               IF latest = None THEN "no_id" ELSE "limit", None)
        /\ Hears(c, id)

\* 302: the download, or diagnostics that know this one answer only.
Redirected(c, id, location) ==
  /\ exchange[c].at \in Waiting
  /\ \/ /\ location
        /\ Now(c, "downloading", LatestId(c, id), Polls(c), "redirect", None, None)
     \/ /\ ~location
        /\ Now(c, "failed", id, 0, "redirect", "no_location", None)
  /\ Hears(c, id)

\* Neither 202 nor 302 nor 2xx
Refused(c, id) ==
  /\ exchange[c].at \in Waiting
  /\ Now(c, "failed", LatestId(c, id), Polls(c), Source(c), "status", None)
  /\ Hears(c, id)

\* 2xx whose JSON holds a responseReference
Referred(c, id) ==
  /\ exchange[c].at \in Waiting
  /\ Now(c, "downloading", LatestId(c, id), Polls(c), "response_reference", None, None)
  /\ Hears(c, id)

\* Any other 2xx is the result, and so is a successful download.
Content(kind, body) == (kind = "tar") = (body # None)

Delivered(c, id, kind, body) ==
  /\ exchange[c].at \in Waiting /\ Content(kind, body)
  /\ Now(c, "answered", LatestId(c, id), Polls(c), Source(c), kind, body)
  /\ Hears(c, id)

Downloaded(c, id, kind, body) ==
  /\ exchange[c].at = "downloading" /\ Content(kind, body)
  /\ Now(c, "answered", LatestId(c, id), exchange[c].polls, exchange[c].source, kind, body)
  /\ Hears(c, id)

\* The diagnostics of a failed download know the download only.
DownloadRefused(c, id) ==
  /\ exchange[c].at = "downloading"
  /\ Now(c, "failed", id, 0, "response_reference", "download", None)
  /\ Hears(c, id)

\* httpx.HTTPError anywhere in the call
Unreachable(c) ==
  /\ exchange[c].at \in InFlight
  /\ Now(c, "failed", None, 0, "inline", "transport", None)
  /\ UNCHANGED traffic

\* The next answer, or the end of the wait for it
Exchange(c) ==
  \/ Unreachable(c)
  \/ \E id \in Ids \cup {None} :
       \/ Accepted(c, id)
       \/ Refused(c, id)
       \/ Referred(c, id)
       \/ DownloadRefused(c, id)
       \/ \E location \in BOOLEAN : Redirected(c, id, location)
       \/ \E kind \in Kinds, body \in Bodies \cup {None} :
            \/ Delivered(c, id, kind, body)
            \/ Downloaded(c, id, kind, body)

----------------------------------------------------------------------------
(* Properties *)

\* A call polls at most MaxPollAttempts times, each time for the id the service
\* named last, and what it reports agrees with what it did: a result, and the
\* diagnostics of an answer that ended the polling, count the polls and name that id,
\* and the limit is blamed only when it was used up (the loop of
\* _resolve_hosted_response; the other failures report zero polls).
RequestsAccounted == \A c \in Calls :
  LET e == exchange[c]
      polled == traffic[c].polled
  IN /\ polled <= MaxPollAttempts
     /\ e.at = "polling" => e.id = traffic[c].told
     /\ e.at = "answered" \/ (e.at = "failed" /\ e.why \in {"no_id", "limit", "status"}) =>
          /\ e.polls = polled
          /\ e.id = traffic[c].told
          /\ e.source = "poll" => polled > 0
          /\ e.source = "inline" => polled = 0
     /\ e.why = "limit" => e.polls = MaxPollAttempts
====
