---- MODULE FourCastNetProvider ----
(***************************************************************************)
(* FourCastNetForecastProvider over HostedInference and the artifact cache *)
(* (FourCastNetResultCache, LocalArtifactStore): point forecasts, which    *)
(* always ask for the same payload, and hosted inferences of any payload.  *)
(* The cache is two files per payload.  Reading and writing them never     *)
(* suspends, so calls of the process see whole artifacts, but a write may  *)
(* fail, or the process die in it, and later calls find what is left.      *)
(* (Files that exist can be read: an OSError of `load' is not modelled.)   *)
(*                                                                         *)
(* The provider is hosted and has an API key: otherwise every call is      *)
(* refused before it does anything.                                        *)
(***************************************************************************)
EXTENDS HostedInference

CONSTANTS
  Keys, PointKey,   \* cache keys; PointKey is that of point forecasts
  Requests,         \* what callers ask for
  Decodable,        \* the bodies a point forecast can be made from
  Torn,             \* a file that was not written to its end
  MaxStarts, MaxCrashes   \* bounds

ASSUME ProviderAssumption ==
  /\ Requests \subseteq [kind : {"forecast", "inference"}, key : Keys]
  /\ \A r \in Requests : r.kind = "forecast" => r.key = PointKey
  /\ PointKey \in Keys /\ Decodable \subseteq Bodies /\ Torn \notin Bodies \cup {None}
  /\ None \notin {"forecast", "inference", "served", "hit"}
  /\ MaxStarts \in Nat /\ MaxCrashes \in Nat

VARIABLES
  hasCache,   \* whether result_cache is set
  files,      \* the content and the metadata (its digest) of each key
  call,       \* what each call was asked for and how it ended
  received,   \* history: the bodies the service delivered for each key
  saved,      \* history: the body last saved, None once a save was broken off in its writes
  starts, crashes

ledger == <<received, saved, starts, crashes>>
vars == <<exchange, traffic, hasCache, files, call, ledger>>

Unasked == [at |-> "idle", kind |-> None, key |-> None,
            outcome |-> None, cache |-> None, body |-> None]

\* Types of all variables.
ProviderTypeOK ==
  /\ ExchangeOK
  /\ hasCache \in BOOLEAN
  /\ files \in [Keys -> [content : Bodies \cup {Torn, None}, metadata : Bodies \cup {Torn, None}]]
  /\ call \in [Calls -> [at : {"idle", "inferring", "ended"},
                         kind : {"forecast", "inference", None}, key : Keys \cup {None},
                         outcome : {"served", "unavailable", "error", None},
                         cache : {"hit", "stored", "miss", "disabled", None},
                         body : Bodies \cup {None}]]
  /\ received \in [Keys -> SUBSET Bodies] /\ saved \in [Keys -> Bodies \cup {None}]
  /\ starts \in 0..MaxStarts /\ crashes \in 0..MaxCrashes

----------------------------------------------------------------------------
(* The cache *)

Exists(k) == files[k].content # None /\ files[k].metadata # None
\* json.loads raises on metadata that were cut off; nothing catches it.
Unreadable(k) == Exists(k) /\ files[k].metadata = Torn
\* Slip: the digest is not compared.
IntactUnchecked(k) == Exists(k) /\ files[k].metadata # Torn
Intact(k) == Exists(k) /\ files[k].metadata # Torn /\ files[k].content = files[k].metadata

\* Slip: an existing content file is kept.
SaveOnce(k, body) ==
  files' = [files EXCEPT ![k] = [content |-> IF @.content = None THEN body ELSE @.content,
                                 metadata |-> body]]
Save(k, body) == files' = [files EXCEPT ![k] = [content |-> body, metadata |-> body]]

\* What a save that is broken off leaves: the files as they were, the content or the
\* metadata cut off, or the new content with the old metadata.
CutOff(old, body) == {old, [old EXCEPT !.content = Torn], [old EXCEPT !.content = body],
                      [content |-> body, metadata |-> Torn]}

\* A tar that was delivered, and a save of it that does not come to its end
BrokenSave(key, body) ==
  /\ \E left \in CutOff(files[key], body) :
       /\ files' = [files EXCEPT ![key] = left]
       /\ saved' = [saved EXCEPT ![key] = IF left = files[key] THEN @ ELSE None]
  /\ received' = [received EXCEPT ![key] = @ \cup {body}]

----------------------------------------------------------------------------
(* Calls *)

\* A point forecast needs a tar it can decode; an inference returns what came.
\* (No body is a compressed stream that was cut off, whose decoding raises: PointForecast
\* has those.)
Outcome(kind, why, body) ==
  IF kind = "inference" \/ (why = "tar" /\ body \in Decodable) THEN "served" ELSE "unavailable"

Returned == \A c \in Calls : call[c].at # "ended"

Ends(c, kind, key, outcome, cache, body) ==
  call' = [call EXCEPT ![c] = [at |-> "ended", kind |-> kind, key |-> key,
                               outcome |-> outcome, cache |-> cache, body |-> body]]

\* The call up to its POST, or to its end if the cache answers or raises.
Begin(c, kind, key) ==
  /\ call[c].at = "idle" /\ Returned /\ starts < MaxStarts
  /\ starts' = starts + 1
  /\ UNCHANGED <<hasCache, files, received, saved, crashes>>
  /\ \/ /\ hasCache /\ Unreadable(key)
        /\ Ends(c, kind, key, "error", None, None)
        /\ UNCHANGED <<exchange, traffic>>
     \/ /\ hasCache /\ Intact(key)
        /\ LET body == files[key].content
           IN Ends(c, kind, key, Outcome(kind, "tar", body), "hit", body)
        /\ UNCHANGED <<exchange, traffic>>
     \/ /\ ~(hasCache /\ (Unreadable(key) \/ Intact(key)))
        /\ call' = [call EXCEPT ![c] = [Unasked EXCEPT !.at = "inferring",
                                                       !.kind = kind, !.key = key]]
        /\ Post(c)

\* FourCastNetInferenceError becomes ForecastProviderUnavailableError.
Fail(c) ==
  /\ Ends(c, call[c].kind, call[c].key, "unavailable", None, None)
  /\ UNCHANGED <<files, received, saved>>

\* The result is saved before anything looks into it.
Complete(c, why, body) ==
  LET kind == call[c].kind
      key == call[c].key
  IN /\ Ends(c, kind, key, Outcome(kind, why, body),
             IF ~hasCache THEN "disabled" ELSE IF why = "tar" THEN "stored" ELSE "miss", body)
     /\ IF why = "tar" THEN received' = [received EXCEPT ![key] = @ \cup {body}]
                       ELSE UNCHANGED received
     /\ IF hasCache /\ why = "tar"
        THEN Save(key, body) /\ saved' = [saved EXCEPT ![key] = body]
        ELSE UNCHANGED <<files, saved>>

\* The disk is full: nothing catches the OSError of a write.
SaveFails(c, why, body) ==
  /\ hasCache /\ why = "tar"
  /\ Ends(c, call[c].kind, call[c].key, "error", None, None)
  /\ BrokenSave(call[c].key, body)

\* The next answer of the service and what the provider does with it
Continue(c) ==
  /\ call[c].at = "inferring" /\ Returned
  /\ Exchange(c)
  /\ CASE exchange'[c].at = "failed" -> Fail(c)
       [] exchange'[c].at = "answered" ->
            LET e == exchange'[c] IN Complete(c, e.why, e.body) \/ SaveFails(c, e.why, e.body)
       [] OTHER -> UNCHANGED <<files, call, received, saved>>
  /\ UNCHANGED <<hasCache, starts, crashes>>

\* The answer goes to the caller.  A call that has ended takes no part any more: to
\* keep it from multiplying the states the others wait for this.
Return(c) ==
  /\ call[c].at = "ended"
  /\ call' = [call EXCEPT ![c] = Unasked]
  /\ exchange' = [exchange EXCEPT ![c] = Nothing]
  /\ traffic' = [traffic EXCEPT ![c] = Untold]
  /\ UNCHANGED <<hasCache, files, ledger>>

\* The process dies, with every call in it.
Die ==
  /\ crashes < MaxCrashes /\ crashes' = crashes + 1
  /\ exchange' = [c \in Calls |-> Nothing] /\ traffic' = [c \in Calls |-> Untold]
  /\ call' = [c \in Calls |-> Unasked]
  /\ UNCHANGED <<hasCache, starts>>

Crash == Die /\ Returned /\ UNCHANGED <<files, received, saved>>

\* It dies in `save', with the tar the service has just delivered.
CrashInSave(c, body) ==
  /\ Die
  /\ hasCache /\ call[c].at = "inferring" /\ Returned
  /\ BrokenSave(call[c].key, body)

Init ==
  /\ exchange = [c \in Calls |-> Nothing] /\ traffic = [c \in Calls |-> Untold]
  /\ hasCache \in BOOLEAN
  /\ files = [k \in Keys |-> [content |-> None, metadata |-> None]]
  /\ call = [c \in Calls |-> Unasked]
  /\ received = [k \in Keys |-> {}] /\ saved = [k \in Keys |-> None]
  /\ starts = 0 /\ crashes = 0

\* Everything asked for has been answered.
Done == starts = MaxStarts /\ (\A c \in Calls : call[c].at = "idle") /\ UNCHANGED vars

Next ==
  \/ \E c \in Calls : \/ \E r \in Requests : Begin(c, r.kind, r.key)
                      \/ Continue(c)
                      \/ Return(c)
                      \/ \E body \in Bodies : CrashInSave(c, body)
  \/ Crash
  \/ Done

Spec == Init /\ [][Next]_vars

----------------------------------------------------------------------------
(* Properties *)

\* What the cache serves is, whole, something the service delivered for the same
\* payload, whatever a crash or a failing write left in the files (the digest check of
\* LocalArtifactStore.load); a point forecast is only ever made from such a body.
HitWasReceived == \A c \in Calls :
  /\ call[c].cache = "hit" => call[c].body \in received[call[c].key]
  /\ call[c].kind = "forecast" /\ call[c].outcome = "served" =>
       call[c].body \in received[PointKey] \cap Decodable

\* Once a result has been saved, a call for its payload sends no request and gets the
\* result saved last, also after restarts, until a crash or a failing write breaks off a
\* later save.
SavedIsServed ==
  [][\A c \in Calls, k \in Keys :
       hasCache /\ saved[k] # None /\ starts' > starts /\ call'[c] # call[c] /\ call'[c].key = k =>
         call'[c].at = "ended" /\ call'[c].cache = "hit" /\ call'[c].body = saved[k]]_vars

\* Every answer brings a call nearer to its end, so that with answers (or timeouts) from
\* the service it ends: the distance counts the polls still allowed and the download.
Distance(c) ==
  CASE exchange[c].at = "posting" -> MaxPollAttempts + 2
    [] exchange[c].at = "polling" -> MaxPollAttempts - exchange[c].polls + 1
    [] exchange[c].at = "downloading" -> 1
    [] OTHER -> 0
AnswersBringEnd ==
  [][\A c \in Calls : call[c].at = "inferring" /\ exchange'[c] # exchange[c] =>
       Distance(c)' < Distance(c)]_vars
====
