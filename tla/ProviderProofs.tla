---- MODULE ProviderProofs ----
(***************************************************************************)
(* Proofs about FourCastNetProvider and HostedInference for any number of  *)
(* calls, request ids, bodies, payloads, polls, starts and crashes.        *)
(***************************************************************************)
EXTENDS FourCastNetProvider, TLAPS

----------------------------------------------------------------------------
(* One exchange.  RequestsAccounted is about exchanges that have ended or    *)
(* poll; Sound says what the ones before it must have kept.                  *)

ExchangeRecords ==
  [at : {"idle", "answered", "failed"} \cup InFlight, id : Ids \cup {None},
   polls : 0..MaxPollAttempts, source : Sources, why : Kinds \cup Causes \cup {None},
   body : Bodies \cup {None}]
TrafficRecords == [polled : Nat, told : Ids \cup {None}]

\* RequestsAccounted of an exchange e with the history t.
Accounted(e, t) ==
  /\ t.polled <= MaxPollAttempts
  /\ e.at = "polling" => e.id = t.told
  /\ e.at = "answered" \/ (e.at = "failed" /\ e.why \in {"no_id", "limit", "status"}) =>
       /\ e.polls = t.polled
       /\ e.id = t.told
       /\ e.source = "poll" => t.polled > 0
       /\ e.source = "inline" => t.polled = 0
  /\ e.why = "limit" => e.polls = MaxPollAttempts

\* While it is in flight the polls counted are those sent, but for the one under way,
\* and a result is a tar exactly when it has a body.
Sound(e, t) ==
  /\ Accounted(e, t)
  /\ e.at = "posting" => e.id = None /\ e.polls = 0 /\ t = Untold
  /\ e.at = "polling" => e.polls < MaxPollAttempts /\ t.polled = e.polls + 1
  /\ e.at = "downloading" => /\ e.polls = t.polled /\ e.id = t.told
                             /\ e.source \in {"redirect", "response_reference"}
  /\ e.at = "answered" => e.why \in Kinds /\ Content(e.why, e.body)

ExchangeInv == ExchangeOK /\ \A c \in Calls : Sound(exchange[c], traffic[c])

\* How far an exchange is from its end: Distance of a record.
Left(e) ==
  CASE e.at = "posting" -> MaxPollAttempts + 2
    [] e.at = "polling" -> MaxPollAttempts - e.polls + 1
    [] e.at = "downloading" -> 1
    [] OTHER -> 0

\* What an answer to call c does: it moves on, nearer to its end, and no other call does.
Progress(c) ==
  /\ exchange[c].at \in InFlight
  /\ exchange' = [exchange EXCEPT ![c] = exchange'[c]]
  /\ traffic' = [traffic EXCEPT ![c] = traffic'[c]]
  /\ exchange'[c] \in ExchangeRecords /\ traffic'[c] \in TrafficRecords
  /\ Sound(exchange'[c], traffic'[c])
  /\ exchange'[c].at \in {"polling", "downloading", "answered", "failed"}
  /\ Left(exchange'[c]) < Left(exchange[c])

\* What Now and Hears write is well typed and leaves the other calls alone.
LEMMA NowHears ==
  ASSUME ExchangeInv, NEW c \in Calls, NEW at \in {"answered", "failed"} \cup InFlight,
         NEW id \in Ids \cup {None}, NEW polls \in 0..MaxPollAttempts, NEW source \in Sources,
         NEW why \in Kinds \cup Causes \cup {None}, NEW body \in Bodies \cup {None},
         Now(c, at, id, polls, source, why, body)
  PROVE  /\ exchange'[c] = [at |-> at, id |-> id, polls |-> polls, source |-> source,
                            why |-> why, body |-> body]
         /\ exchange' = [exchange EXCEPT ![c] = exchange'[c]]
         /\ exchange'[c] \in ExchangeRecords
         /\ \A heard \in Ids \cup {None} :
              Hears(c, heard) => 
                /\ traffic' = [traffic EXCEPT ![c] = traffic'[c]]
                /\ traffic'[c] = [polled |-> traffic[c].polled,
                                  told |-> IF heard = None THEN traffic[c].told ELSE heard]
                /\ traffic'[c] \in TrafficRecords
<1>1. /\ exchange'[c] = [at |-> at, id |-> id, polls |-> polls, source |-> source,
                         why |-> why, body |-> body]
      /\ exchange' = [exchange EXCEPT ![c] = exchange'[c]]
  BY DEF Now, ExchangeInv, ExchangeOK
<1>2. exchange'[c] \in ExchangeRecords
  BY <1>1 DEF ExchangeRecords, InFlight, Waiting
<1>3. ASSUME NEW heard \in Ids \cup {None}, Hears(c, heard)
      PROVE  /\ traffic' = [traffic EXCEPT ![c] = traffic'[c]]
             /\ traffic'[c] = [polled |-> traffic[c].polled,
                               told |-> IF heard = None THEN traffic[c].told ELSE heard]
             /\ traffic'[c] \in TrafficRecords
  BY <1>3 DEF Hears, ExchangeInv, ExchangeOK, TrafficRecords
<1> QED BY <1>1, <1>2, <1>3

\* The answers that end nothing but the polling, or the call, one handler at a time.
LEMMA AcceptedProgress ==
  ASSUME ExchangeInv, NEW c \in Calls, NEW id \in Ids \cup {None}, Accepted(c, id)
  PROVE  Progress(c)
<1> DEFINE latest == LatestId(c, id)
<1>1. /\ exchange[c] \in ExchangeRecords /\ traffic[c] \in TrafficRecords
      /\ Sound(exchange[c], traffic[c]) /\ exchange[c].at \in Waiting
  BY DEF ExchangeInv, ExchangeOK, ExchangeRecords, TrafficRecords, Accepted
<1>2. /\ latest \in Ids \cup {None} /\ Source(c) \in {"inline", "poll"}
      /\ Polls(c) \in 0..MaxPollAttempts
  BY <1>1, ClientAssumption DEF LatestId, ExchangeRecords, Source, Polls, Sound, Waiting
<1>3. /\ Polls(c) = traffic[c].polled /\ exchange[c].id = traffic[c].told
      /\ Source(c) = "poll" => traffic[c].polled > 0
      /\ Source(c) = "inline" => traffic[c].polled = 0
  BY <1>1, ClientAssumption
  DEF Sound, Accounted, Polls, Source, Waiting, Untold, ExchangeRecords, TrafficRecords
<1>4. CASE /\ latest # None /\ Polls(c) < MaxPollAttempts
           /\ Now(c, "polling", latest, Polls(c), Source(c), None, None)
           /\ HearsAndPolls(c, id)
  <2>1. /\ exchange'[c] = [at |-> "polling", id |-> latest, polls |-> Polls(c),
                           source |-> Source(c), why |-> None, body |-> None]
        /\ exchange' = [exchange EXCEPT ![c] = exchange'[c]]
        /\ exchange'[c] \in ExchangeRecords
    <3>1. "polling" \in InFlight /\ {"inline", "poll"} \subseteq Sources
      BY DEF Sources, InFlight, Waiting
    <3> HIDE DEF latest
    <3> QED BY <1>2, <1>4, <3>1, NowHears
  <2>2. /\ traffic' = [traffic EXCEPT ![c] = traffic'[c]]
        /\ traffic'[c] = [polled |-> traffic[c].polled + 1,
                          told |-> IF id = None THEN traffic[c].told ELSE id]
        /\ traffic'[c] \in TrafficRecords
    BY <1>1, <1>4 DEF HearsAndPolls, ExchangeInv, ExchangeOK, TrafficRecords
  <2>3. Sound(exchange'[c], traffic'[c])
    BY <1>1, <1>2, <1>3, <1>4, <2>1, <2>2, ClientAssumption
    DEF Sound, Accounted, LatestId, TrafficRecords, Causes
  <2>4. Left(exchange'[c]) < Left(exchange[c])
    BY <1>1, <1>2, <2>1, ClientAssumption
    DEF Left, Waiting, Polls, Sound, ExchangeRecords
  <2> QED BY <1>1, <2>1, <2>2, <2>3, <2>4 DEF Progress, InFlight
<1>5. CASE /\ latest = None \/ Polls(c) >= MaxPollAttempts
           /\ Now(c, "failed", latest, Polls(c), Source(c),
                  IF latest = None THEN "no_id" ELSE "limit", None)
           /\ Hears(c, id)
  <2> DEFINE why == IF latest = None THEN "no_id" ELSE "limit"
  <2>1. /\ exchange'[c] = [at |-> "failed", id |-> latest, polls |-> Polls(c),
                           source |-> Source(c), why |-> why, body |-> None]
        /\ exchange' = [exchange EXCEPT ![c] = exchange'[c]]
        /\ exchange'[c] \in ExchangeRecords
        /\ traffic' = [traffic EXCEPT ![c] = traffic'[c]]
        /\ traffic'[c] = [polled |-> traffic[c].polled,
                          told |-> IF id = None THEN traffic[c].told ELSE id]
        /\ traffic'[c] \in TrafficRecords
    BY <1>2, <1>5, NowHears DEF Sources, Causes
  <2>2. Sound(exchange'[c], traffic'[c])
    BY <1>1, <1>2, <1>3, <1>5, <2>1, ClientAssumption
    DEF Sound, Accounted, LatestId, TrafficRecords, Causes
  <2>3. Left(exchange'[c]) < Left(exchange[c])
    BY <1>1, <2>1, ClientAssumption DEF Left, Waiting, Sound, ExchangeRecords
  <2> QED BY <1>1, <2>1, <2>2, <2>3 DEF Progress, InFlight
<1> QED BY <1>4, <1>5 DEF Accepted

\* What it makes of any other answer.
Answer(c, id, at, about, polls, source, why, body) ==
  /\ Now(c, at, about, polls, source, why, body) /\ Hears(c, id)
  /\ \/ /\ at = "downloading" /\ about = LatestId(c, id) /\ polls = Polls(c) /\ why = None
        /\ source \in {"redirect", "response_reference"}
     \/ at = "failed" /\ source = "redirect" /\ why = "no_location"
     \/ /\ about = LatestId(c, id) /\ polls = Polls(c) /\ source = Source(c)
        /\ \/ at = "failed" /\ why = "status"
           \/ at = "answered" /\ why \in Kinds /\ Content(why, body)
Answered(c, id) ==
  \E at \in {"downloading", "failed", "answered"}, about \in Ids \cup {None},
     polls \in 0..MaxPollAttempts, source \in Sources,
     why \in Kinds \cup Causes \cup {None}, body \in Bodies \cup {None} :
    Answer(c, id, at, about, polls, source, why, body)

\* An answer to the POST or to a poll that is not a 202 ends the call or is a download.
LEMMA AnswerProgress ==
  ASSUME ExchangeInv, NEW c \in Calls, NEW id \in Ids \cup {None},
         \/ Refused(c, id)
         \/ Referred(c, id)
         \/ \E location \in BOOLEAN : Redirected(c, id, location)
         \/ \E kind \in Kinds, body \in Bodies \cup {None} : Delivered(c, id, kind, body)
  PROVE  Progress(c)
<1> DEFINE latest == LatestId(c, id)
<1>1. /\ exchange[c] \in ExchangeRecords /\ traffic[c] \in TrafficRecords
      /\ Sound(exchange[c], traffic[c]) /\ exchange[c].at \in Waiting
  BY DEF ExchangeInv, ExchangeOK, ExchangeRecords, TrafficRecords, Refused, Referred,
         Redirected, Delivered
<1>2. /\ latest \in Ids \cup {None} /\ Source(c) \in {"inline", "poll"}
      /\ Polls(c) \in 0..MaxPollAttempts
  BY <1>1, ClientAssumption DEF LatestId, ExchangeRecords, Source, Polls, Sound, Waiting
<1>3. /\ Polls(c) = traffic[c].polled /\ exchange[c].id = traffic[c].told
      /\ Source(c) = "poll" => traffic[c].polled > 0
      /\ Source(c) = "inline" => traffic[c].polled = 0
  BY <1>1, ClientAssumption
  DEF Sound, Accounted, Polls, Source, Waiting, Untold, ExchangeRecords, TrafficRecords
<1>4. PICK at \in {"downloading", "failed", "answered"}, about \in Ids \cup {None},
           polls \in 0..MaxPollAttempts, source \in Sources,
           why \in Kinds \cup Causes \cup {None}, body \in Bodies \cup {None} :
        Answer(c, id, at, about, polls, source, why, body)
  <2> USE DEF Sources, Kinds, Causes
  <2>1. CASE Refused(c, id)
    BY <1>2, <2>1 DEF Refused, Answer
  <2>2. CASE Referred(c, id)
    BY <1>2, <2>2 DEF Referred, Answer
  <2>3. CASE \E location \in BOOLEAN : Redirected(c, id, location)
    BY <1>2, <2>3, ClientAssumption DEF Redirected, Answer
  <2>4. CASE \E kind \in Kinds, body \in Bodies \cup {None} : Delivered(c, id, kind, body)
    BY <1>2, <2>4 DEF Delivered, Answer
  <2> QED BY <2>1, <2>2, <2>3, <2>4
<1>5. /\ exchange'[c] = [at |-> at, id |-> about, polls |-> polls, source |-> source,
                         why |-> why, body |-> body]
      /\ exchange' = [exchange EXCEPT ![c] = exchange'[c]]
      /\ exchange'[c] \in ExchangeRecords
      /\ traffic' = [traffic EXCEPT ![c] = traffic'[c]]
      /\ traffic'[c] = [polled |-> traffic[c].polled,
                        told |-> IF id = None THEN traffic[c].told ELSE id]
      /\ traffic'[c] \in TrafficRecords
  BY <1>4, NowHears DEF InFlight, Answer
<1>6. Sound(exchange'[c], traffic'[c])
  BY <1>1, <1>2, <1>3, <1>4, <1>5, ClientAssumption
  DEF Answer, Sound, Accounted, LatestId, TrafficRecords, Causes, Kinds
<1>7. Left(exchange'[c]) < Left(exchange[c])
  BY <1>1, <1>4, <1>5, ClientAssumption DEF Answer, Left, Waiting, Sound, ExchangeRecords
<1> QED BY <1>1, <1>4, <1>5, <1>6, <1>7 DEF Progress, InFlight

\* A download ends the call, and so does a transport error.
LEMMA EndProgress ==
  ASSUME ExchangeInv, NEW c \in Calls,
         \/ Unreachable(c)
         \/ \E id \in Ids \cup {None} :
              \/ DownloadRefused(c, id)
              \/ \E kind \in Kinds, body \in Bodies \cup {None} : Downloaded(c, id, kind, body)
  PROVE  Progress(c)
<1>1. /\ exchange[c] \in ExchangeRecords /\ traffic[c] \in TrafficRecords
      /\ Sound(exchange[c], traffic[c]) /\ exchange[c].at \in InFlight
  BY DEF ExchangeInv, ExchangeOK, ExchangeRecords, TrafficRecords, Unreachable, DownloadRefused,
         Downloaded, InFlight
<1>2. 0 < Left(exchange[c])
  BY <1>1, ClientAssumption DEF Left, InFlight, Waiting, Sound, ExchangeRecords
<1>3. 0 \in 0..MaxPollAttempts /\ {"inline", "response_reference"} \subseteq Sources
      /\ {"transport", "download"} \subseteq Causes
  BY ClientAssumption DEF Sources, Causes
<1>4. CASE Unreachable(c)
  <2>1. /\ exchange'[c] = [at |-> "failed", id |-> None, polls |-> 0, source |-> "inline",
                           why |-> "transport", body |-> None]
        /\ exchange' = [exchange EXCEPT ![c] = exchange'[c]]
        /\ exchange'[c] \in ExchangeRecords
    BY <1>3, <1>4, NowHears DEF Unreachable
  <2>2. traffic' = [traffic EXCEPT ![c] = traffic'[c]] /\ traffic'[c] = traffic[c]
    BY <1>4 DEF Unreachable, ExchangeInv, ExchangeOK
  <2>3. Sound(exchange'[c], traffic'[c])
    BY <1>1, <2>1, <2>2 DEF Sound, Accounted
  <2>4. Left(exchange'[c]) = 0
    BY <2>1 DEF Left
  <2> QED BY <1>1, <1>2, <2>1, <2>2, <2>3, <2>4 DEF Progress
<1>5. ASSUME NEW id \in Ids \cup {None}, DownloadRefused(c, id)
      PROVE  Progress(c)
  <2>1. /\ exchange'[c] = [at |-> "failed", id |-> id, polls |-> 0,
                           source |-> "response_reference", why |-> "download", body |-> None]
        /\ exchange' = [exchange EXCEPT ![c] = exchange'[c]]
        /\ exchange'[c] \in ExchangeRecords
        /\ traffic' = [traffic EXCEPT ![c] = traffic'[c]]
        /\ traffic'[c] = [polled |-> traffic[c].polled,
                          told |-> IF id = None THEN traffic[c].told ELSE id]
        /\ traffic'[c] \in TrafficRecords
    BY <1>3, <1>5, NowHears DEF DownloadRefused
  <2>2. Sound(exchange'[c], traffic'[c])
    BY <1>1, <2>1 DEF Sound, Accounted
  <2>3. Left(exchange'[c]) = 0
    BY <2>1 DEF Left
  <2> QED BY <1>1, <1>2, <2>1, <2>2, <2>3 DEF Progress
<1>6. ASSUME NEW id \in Ids \cup {None}, NEW kind \in Kinds, NEW body \in Bodies \cup {None},
             Downloaded(c, id, kind, body)
      PROVE  Progress(c)
  <2> DEFINE latest == LatestId(c, id)
  <2>1. latest \in Ids \cup {None} /\ exchange[c].polls \in 0..MaxPollAttempts
        /\ exchange[c].source \in Sources
    BY <1>1 DEF LatestId, ExchangeRecords
  <2>2. /\ exchange'[c] = [at |-> "answered", id |-> latest, polls |-> exchange[c].polls,
                           source |-> exchange[c].source, why |-> kind, body |-> body]
        /\ exchange' = [exchange EXCEPT ![c] = exchange'[c]]
        /\ exchange'[c] \in ExchangeRecords
        /\ traffic' = [traffic EXCEPT ![c] = traffic'[c]]
        /\ traffic'[c] = [polled |-> traffic[c].polled,
                          told |-> IF id = None THEN traffic[c].told ELSE id]
        /\ traffic'[c] \in TrafficRecords
    <3> HIDE DEF latest
    <3> QED BY <1>6, <2>1, NowHears DEF Downloaded, latest
  <2>3. Sound(exchange'[c], traffic'[c])
    BY <1>1, <1>6, <2>2 DEF Sound, Accounted, Downloaded, LatestId, Kinds
  <2>4. Left(exchange'[c]) = 0
    BY <2>2 DEF Left
  <2> QED BY <1>1, <1>2, <2>2, <2>3, <2>4 DEF Progress
<1> QED BY <1>4, <1>5, <1>6

\* Every answer, timeout or transport error moves its call on.
LEMMA ExchangeProgress ==
  ASSUME ExchangeInv, NEW c \in Calls, Exchange(c)
  PROVE  Progress(c)
BY AcceptedProgress, AnswerProgress, EndProgress DEF Exchange

\* The invariant of one exchange gives RequestsAccounted.
LEMMA Accounts == ExchangeInv => RequestsAccounted
BY DEF ExchangeInv, Sound, Accounted, RequestsAccounted

\* A call that begins has sent nothing yet.
LEMMA FreshSound ==
  /\ Nothing \in ExchangeRecords /\ Untold \in TrafficRecords /\ Sound(Nothing, Untold)
  /\ LET posting == [Nothing EXCEPT !.at = "posting"]
     IN posting \in ExchangeRecords /\ Sound(posting, Untold)
  /\ Left(Nothing) = 0
BY ClientAssumption
DEF Nothing, Untold, ExchangeRecords, TrafficRecords, Sound, Accounted, InFlight, Waiting,
    Sources, Causes, Left

----------------------------------------------------------------------------
(* The provider.  HitWasReceived and SavedIsServed rest on what the files of *)
(* a payload can be: what was saved last, or what a crash left of it.        *)

CallRecords ==
  [at : {"idle", "inferring", "ended"}, kind : {"forecast", "inference", None},
   key : Keys \cup {None}, outcome : {"served", "unavailable", "error", None},
   cache : {"hit", "stored", "miss", "disabled", None}, body : Bodies \cup {None}]
FileRecords == [content : Bodies \cup {Torn, None}, metadata : Bodies \cup {Torn, None}]

\* HitWasReceived of a call.
Honest(call_c, rec) ==
  /\ call_c.cache = "hit" => call_c.body \in rec[call_c.key]
  /\ call_c.kind = "forecast" /\ call_c.outcome = "served" =>
       call_c.body \in rec[PointKey] \cap Decodable

\* A call waits for its exchange, knows its payload while it does and when the cache
\* answers, and a point forecast asks for PointKey.
CallSound(c) ==
  /\ call[c].at = "inferring" <=> exchange[c].at \in InFlight
  /\ call[c].at = "inferring" \/ call[c].cache = "hit" => call[c].key \in Keys
  /\ call[c].kind = "forecast" => call[c].key = PointKey

\* A result saved whole is there unchanged, and files that agree hold a body that came
\* from the service.
CacheSound(k) ==
  /\ hasCache /\ saved[k] # None => files[k] = [content |-> saved[k], metadata |-> saved[k]]
  /\ files[k].metadata \in Bodies /\ files[k].content = files[k].metadata =>
       files[k].content \in received[k]

ProviderInv ==
  /\ ProviderTypeOK /\ ExchangeInv
  /\ \A c \in Calls : CallSound(c) /\ Honest(call[c], received)
  /\ \A k \in Keys : CacheSound(k)

\* What the caches, the outcomes and the exchange of a call are made of.
LEMMA ProviderTypes ==
  ASSUME ProviderInv
  PROVE  /\ \A c \in Calls : call[c] \in CallRecords /\ exchange[c] \in ExchangeRecords
         /\ \A k \in Keys : files[k] \in FileRecords /\ saved[k] \in Bodies \cup {None}
                            /\ received[k] \subseteq Bodies
         /\ call \in [Calls -> CallRecords] /\ files \in [Keys -> FileRecords]
         /\ exchange \in [Calls -> ExchangeRecords] /\ traffic \in [Calls -> TrafficRecords]
BY DEF ProviderInv, ProviderTypeOK, ExchangeOK, CallRecords, FileRecords, ExchangeRecords,
       TrafficRecords

\* One call, its exchange and its traffic change: the others keep what they have, as long
\* as no body received is forgotten.
LEMMA OneCall ==
  ASSUME ProviderInv, NEW c \in Calls,
         call' = [call EXCEPT ![c] = call'[c]],
         exchange' = [exchange EXCEPT ![c] = exchange'[c]],
         traffic' = [traffic EXCEPT ![c] = traffic'[c]],
         call'[c] \in CallRecords, exchange'[c] \in ExchangeRecords,
         traffic'[c] \in TrafficRecords,
         Sound(exchange'[c], traffic'[c]), CallSound(c)', Honest(call'[c], received'),
         \A k \in Keys : received[k] \subseteq received'[k]
  PROVE  /\ ExchangeInv' /\ call' \in [Calls -> CallRecords]
         /\ \A d \in Calls : CallSound(d)' /\ Honest(call'[d], received')
<1>1. /\ exchange' \in [Calls -> ExchangeRecords] /\ traffic' \in [Calls -> TrafficRecords]
      /\ call' \in [Calls -> CallRecords]
  BY ProviderTypes
<1>2. ASSUME NEW d \in Calls, d # c
      PROVE  /\ Sound(exchange'[d], traffic'[d]) /\ CallSound(d)'
             /\ Honest(call'[d], received')
  <2>1. call'[d] = call[d] /\ exchange'[d] = exchange[d] /\ traffic'[d] = traffic[d]
    BY <1>2, ProviderTypes
  <2>2. Sound(exchange[d], traffic[d]) /\ CallSound(d) /\ Honest(call[d], received)
    BY DEF ProviderInv, ExchangeInv
  <2>3. call[d].cache = "hit" => call[d].key \in Keys
    BY <2>2 DEF CallSound
  <2>4. PointKey \in Keys
    BY ProviderAssumption
  <2> QED BY <2>1, <2>2, <2>3, <2>4 DEF CallSound, Honest
<1>3. ExchangeInv'
  BY <1>1, <1>2 DEF ExchangeInv, ExchangeOK, ExchangeRecords, TrafficRecords
<1> QED BY <1>1, <1>2, <1>3

\* A call that begins is answered from the cache, fails on it, or posts its request.
LEMMA BeginStep ==
  ASSUME ProviderInv, NEW c \in Calls, NEW r \in Requests, Begin(c, r.kind, r.key)
  PROVE  ProviderInv'
<1> DEFINE kind == r.kind
           key == r.key
<1>1. /\ kind \in {"forecast", "inference"} /\ key \in Keys
      /\ kind = "forecast" => key = PointKey
  BY ProviderAssumption
<1>2. /\ call[c].at = "idle" /\ starts' \in 0..MaxStarts
      /\ UNCHANGED <<hasCache, files, received, saved, crashes>>
  BY ProviderAssumption DEF Begin, ProviderInv, ProviderTypeOK
<1>3. /\ exchange[c].at \notin InFlight /\ exchange[c] \in ExchangeRecords
      /\ traffic[c] \in TrafficRecords /\ Sound(exchange[c], traffic[c])
      /\ exchange \in [Calls -> ExchangeRecords] /\ traffic \in [Calls -> TrafficRecords]
  BY <1>2, ProviderTypes DEF ProviderInv, CallSound, ExchangeInv
<1> HIDE DEF kind, key
<1>5. CASE /\ hasCache /\ Unreadable(key)
           /\ Ends(c, kind, key, "error", None, None)
           /\ UNCHANGED <<exchange, traffic>>
  <2>1. /\ call' = [call EXCEPT ![c] = call'[c]]
        /\ call'[c] = [at |-> "ended", kind |-> kind, key |-> key, outcome |-> "error",
                       cache |-> None, body |-> None]
    BY <1>5, ProviderTypes DEF Ends
  <2>2. call'[c] \in CallRecords
    BY <1>1, <2>1 DEF CallRecords
  <2>3. CallSound(c)' /\ Honest(call'[c], received')
    BY <1>1, <1>3, <1>5, <2>1, ProviderAssumption DEF CallSound, Honest, InFlight, Waiting
  <2>4. exchange' = [exchange EXCEPT ![c] = exchange'[c]]
        /\ traffic' = [traffic EXCEPT ![c] = traffic'[c]]
    BY <1>3, <1>5
  <2>5. /\ ExchangeInv' /\ call' \in [Calls -> CallRecords]
        /\ \A d \in Calls : CallSound(d)' /\ Honest(call'[d], received')
    BY <1>2, <1>3, <1>5, <2>1, <2>2, <2>3, <2>4, OneCall
  <2> QED BY <1>2, <2>5 DEF ProviderInv, ProviderTypeOK, CallRecords, CacheSound, ExchangeInv
<1>6. CASE /\ hasCache /\ Intact(key)
           /\ Ends(c, kind, key, Outcome(kind, "tar", files[key].content), "hit",
                   files[key].content)
           /\ UNCHANGED <<exchange, traffic>>
  <2> DEFINE body == files[key].content
  <2>0. body \in Bodies /\ body \in received[key]
    BY <1>1, <1>6, ProviderTypes DEF Intact, Exists, FileRecords, ProviderInv, CacheSound
  <2>1. /\ call' = [call EXCEPT ![c] = call'[c]]
        /\ call'[c] = [at |-> "ended", kind |-> kind, key |-> key,
                       outcome |-> Outcome(kind, "tar", body), cache |-> "hit", body |-> body]
    BY <1>6, ProviderTypes DEF Ends
  <2>2. call'[c] \in CallRecords
    BY <1>1, <2>0, <2>1 DEF CallRecords, Outcome
  <2>3. CallSound(c)' /\ Honest(call'[c], received')
    BY <1>1, <1>2, <1>3, <1>6, <2>0, <2>1, ProviderAssumption
    DEF CallSound, Honest, InFlight, Waiting, Outcome
  <2>4. exchange' = [exchange EXCEPT ![c] = exchange'[c]]
        /\ traffic' = [traffic EXCEPT ![c] = traffic'[c]]
    BY <1>3, <1>6
  <2>5. /\ ExchangeInv' /\ call' \in [Calls -> CallRecords]
        /\ \A d \in Calls : CallSound(d)' /\ Honest(call'[d], received')
    BY <1>2, <1>3, <1>6, <2>1, <2>2, <2>3, <2>4, OneCall
  <2> QED BY <1>2, <2>5 DEF ProviderInv, ProviderTypeOK, CallRecords, CacheSound, ExchangeInv
<1>7. CASE /\ call' = [call EXCEPT ![c] = [Unasked EXCEPT !.at = "inferring", !.kind = kind,
                                                          !.key = key]]
           /\ Post(c)
  <2>1. /\ call' = [call EXCEPT ![c] = call'[c]]
        /\ call'[c] = [at |-> "inferring", kind |-> kind, key |-> key, outcome |-> None,
                       cache |-> None, body |-> None]
    BY <1>7, ProviderTypes DEF Unasked
  <2>2. call'[c] \in CallRecords
    BY <1>1, <2>1 DEF CallRecords
  <2>3. /\ exchange' = [exchange EXCEPT ![c] = exchange'[c]]
        /\ exchange'[c] = [Nothing EXCEPT !.at = "posting"]
        /\ traffic' = [traffic EXCEPT ![c] = traffic'[c]] /\ traffic'[c] = Untold
    BY <1>3, <1>7 DEF Post
  <2>4. CallSound(c)' /\ Honest(call'[c], received')
    BY <1>1, <2>1, <2>3, ProviderAssumption DEF CallSound, Honest, InFlight, Waiting, Nothing
  <2>5. /\ ExchangeInv' /\ call' \in [Calls -> CallRecords]
        /\ \A d \in Calls : CallSound(d)' /\ Honest(call'[d], received')
    BY <1>2, <2>1, <2>2, <2>3, <2>4, OneCall, FreshSound
  <2> QED BY <1>2, <2>5 DEF ProviderInv, ProviderTypeOK, CallRecords, CacheSound, ExchangeInv
<1> QED BY <1>5, <1>6, <1>7 DEF Begin, kind, key

\* A save that is broken off leaves no files that pass for whole ones but the new result's
\* or, when it has not written at all, the old one's.
LEMMA BrokenSound ==
  ASSUME ProviderInv, NEW key \in Keys, NEW body \in Bodies, BrokenSave(key, body),
         UNCHANGED hasCache
  PROVE  /\ received' \in [Keys -> SUBSET Bodies] /\ saved' \in [Keys -> Bodies \cup {None}]
         /\ files' \in [Keys -> FileRecords]
         /\ \A k \in Keys : received[k] \subseteq received'[k] /\ CacheSound(k)'
<1>1. PICK left \in CutOff(files[key], body) :
        /\ files' = [files EXCEPT ![key] = left]
        /\ saved' = [saved EXCEPT ![key] = IF left = files[key] THEN saved[key] ELSE None]
        /\ received' = [received EXCEPT ![key] = received[key] \cup {body}]
  BY DEF BrokenSave
<1>2. files[key] \in FileRecords /\ received[key] \subseteq Bodies
  BY ProviderTypes
<1>3. /\ left \in FileRecords
      /\ \/ left = files[key]
         \/ left.metadata \in Bodies /\ left.content = left.metadata => left.content = body
  BY <1>1, <1>2, ProviderAssumption DEF CutOff, FileRecords
<1>4. /\ received' \in [Keys -> SUBSET Bodies] /\ saved' \in [Keys -> Bodies \cup {None}]
      /\ files' \in [Keys -> FileRecords]
  BY <1>1, <1>3, ProviderTypes DEF ProviderInv, ProviderTypeOK
<1>5. \A k \in Keys : received[k] \subseteq received'[k]
  BY <1>1, ProviderTypes DEF ProviderInv, ProviderTypeOK
<1>6. ASSUME NEW k \in Keys PROVE CacheSound(k)'
  <2>1. CASE k = key /\ left # files[key]
    BY <1>1, <1>3, <1>4, <2>1, ProviderTypes DEF CacheSound, ProviderInv, ProviderTypeOK
  <2>2. CASE k # key \/ left = files[key]
    <3>1. files'[k] = files[k] /\ saved'[k] = saved[k]
      BY <1>1, <2>2, ProviderTypes DEF ProviderInv, ProviderTypeOK
    <3> QED BY <1>5, <3>1 DEF CacheSound, ProviderInv
  <2> QED BY <2>1, <2>2
<1> QED BY <1>4, <1>5, <1>6

\* An answer of the service ends the call, and a tar is saved, or it is waited for again.
LEMMA ContinueStep ==
  ASSUME ProviderInv, NEW c \in Calls, Continue(c)
  PROVE  ProviderInv'
<1> DEFINE e == exchange'[c]
           kind == call[c].kind
           key == call[c].key
<1>1. /\ Progress(c) /\ call[c].at = "inferring"
      /\ UNCHANGED <<hasCache, starts, crashes>>
  BY ExchangeProgress DEF Continue, ProviderInv
<1>2. /\ key \in Keys /\ call[c] \in CallRecords /\ (kind = "forecast" => key = PointKey)
  BY <1>1, ProviderTypes DEF ProviderInv, CallSound
<1>3. /\ exchange' = [exchange EXCEPT ![c] = e] /\ e \in ExchangeRecords
      /\ traffic' = [traffic EXCEPT ![c] = traffic'[c]] /\ traffic'[c] \in TrafficRecords
      /\ Sound(e, traffic'[c])
      /\ e.at \in {"polling", "downloading", "answered", "failed"}
  BY <1>1 DEF Progress
<1>4. CASE e.at = "failed"
  <2>1. Fail(c)
    BY <1>4 DEF Continue
  <2>2. /\ call' = [call EXCEPT ![c] = call'[c]]
        /\ call'[c] = [at |-> "ended", kind |-> kind, key |-> key, outcome |-> "unavailable",
                       cache |-> None, body |-> None]
        /\ UNCHANGED <<files, received, saved>>
    BY <2>1, ProviderTypes DEF Fail, Ends
  <2>3. call'[c] \in CallRecords
    BY <1>2, <2>2 DEF CallRecords
  <2>4. CallSound(c)' /\ Honest(call'[c], received')
    BY <1>2, <1>4, <2>2, ProviderAssumption DEF CallSound, Honest, InFlight, Waiting
  <2>5. /\ ExchangeInv' /\ call' \in [Calls -> CallRecords]
        /\ \A d \in Calls : CallSound(d)' /\ Honest(call'[d], received')
    BY <1>3, <2>2, <2>3, <2>4, OneCall
  <2> QED BY <1>1, <2>2, <2>5
          DEF ProviderInv, ProviderTypeOK, CallRecords, CacheSound, ExchangeInv
<1>5. CASE e.at = "answered" /\ Complete(c, e.why, e.body)
  <2> DEFINE body == e.body
             tar == e.why = "tar"
  <2>1. Complete(c, e.why, body)
    BY <1>5
  <2>2. body \in Bodies \cup {None} /\ (tar => body \in Bodies)
    BY <1>3, <1>5 DEF ExchangeRecords, Sound, Content
  <2>3. /\ call' = [call EXCEPT ![c] = call'[c]]
        /\ call'[c] = [at |-> "ended", kind |-> kind, key |-> key,
                       outcome |-> Outcome(kind, e.why, body),
                       cache |-> IF ~hasCache THEN "disabled"
                                 ELSE IF tar THEN "stored" ELSE "miss",
                       body |-> body]
    BY <2>1, ProviderTypes DEF Complete, Ends
  <2>4. /\ received' = IF tar THEN [received EXCEPT ![key] = @ \cup {body}] ELSE received
        /\ IF hasCache /\ tar
           THEN /\ files' = [files EXCEPT ![key] = [content |-> body, metadata |-> body]]
                /\ saved' = [saved EXCEPT ![key] = body]
           ELSE UNCHANGED <<files, saved>>
    BY <2>1 DEF Complete, Save
  <2>5. /\ received' \in [Keys -> SUBSET Bodies] /\ saved' \in [Keys -> Bodies \cup {None}]
        /\ files' \in [Keys -> FileRecords]
        /\ \A k \in Keys : received[k] \subseteq received'[k]
        /\ tar => body \in received'[key]
    <3>1. received \in [Keys -> SUBSET Bodies] /\ saved \in [Keys -> Bodies \cup {None}]
          /\ files \in [Keys -> FileRecords]
      BY DEF ProviderInv, ProviderTypeOK, FileRecords
    <3>2. CASE tar
      <4>1. [content |-> body, metadata |-> body] \in FileRecords
        BY <2>2, <3>2 DEF FileRecords
      <4> QED BY <1>2, <2>2, <2>4, <3>1, <3>2, <4>1
    <3>3. CASE ~tar
      BY <2>4, <3>1, <3>3
    <3> QED BY <3>2, <3>3
  <2>6. call'[c] \in CallRecords
    BY <1>2, <2>2, <2>3 DEF CallRecords, Outcome
  <2>7. CallSound(c)' /\ Honest(call'[c], received')
    BY <1>2, <1>5, <2>3, <2>5, ProviderAssumption
    DEF CallSound, Honest, InFlight, Waiting, Outcome
  <2>8. /\ ExchangeInv' /\ call' \in [Calls -> CallRecords]
        /\ \A d \in Calls : CallSound(d)' /\ Honest(call'[d], received')
    BY <1>3, <2>3, <2>5, <2>6, <2>7, OneCall
  <2>9. ASSUME NEW k \in Keys PROVE CacheSound(k)'
    <3>1. CASE k = key /\ hasCache /\ tar
      BY <1>1, <1>2, <2>4, <2>5, <3>1 DEF CacheSound, ProviderInv, ProviderTypeOK
    <3>2. CASE ~(k = key /\ hasCache /\ tar)
      <4>1. files'[k] = files[k] /\ saved'[k] = saved[k]
        BY <2>4, <3>2 DEF ProviderInv, ProviderTypeOK
      <4> QED BY <1>1, <2>5, <4>1 DEF CacheSound, ProviderInv
    <3> QED BY <3>1, <3>2
  <2> QED BY <1>1, <2>5, <2>8, <2>9
          DEF ProviderInv, ProviderTypeOK, CallRecords, FileRecords, ExchangeInv
<1>6. CASE e.at \in {"polling", "downloading"}
  <2>1. UNCHANGED <<files, call, received, saved>>
    BY <1>6 DEF Continue
  <2>2. call' = [call EXCEPT ![c] = call'[c]] /\ call'[c] \in CallRecords
    BY <1>2, <2>1, ProviderTypes
  <2>3. CallSound(c)' /\ Honest(call'[c], received')
    BY <1>1, <1>6, <2>1 DEF CallSound, InFlight, Waiting, ProviderInv
  <2>4. /\ ExchangeInv' /\ call' \in [Calls -> CallRecords]
        /\ \A d \in Calls : CallSound(d)' /\ Honest(call'[d], received')
    BY <1>3, <2>1, <2>2, <2>3, OneCall
  <2> QED BY <1>1, <2>1, <2>4
          DEF ProviderInv, ProviderTypeOK, CallRecords, CacheSound, ExchangeInv
<1>7. CASE e.at = "answered" /\ SaveFails(c, e.why, e.body)
  <2>1. /\ call' = [call EXCEPT ![c] = call'[c]]
        /\ call'[c] = [at |-> "ended", kind |-> kind, key |-> key, outcome |-> "error",
                       cache |-> None, body |-> None]
    BY <1>7, ProviderTypes DEF SaveFails, Ends
  <2>2. e.body \in Bodies /\ BrokenSave(key, e.body)
    BY <1>3, <1>7 DEF ExchangeRecords, Sound, Content, SaveFails
  <2>3. /\ received' \in [Keys -> SUBSET Bodies] /\ saved' \in [Keys -> Bodies \cup {None}]
        /\ files' \in [Keys -> FileRecords]
        /\ \A k \in Keys : received[k] \subseteq received'[k] /\ CacheSound(k)'
    BY <1>1, <1>2, <2>2, BrokenSound
  <2>4. call'[c] \in CallRecords
    BY <1>2, <2>1 DEF CallRecords
  <2>5. CallSound(c)' /\ Honest(call'[c], received')
    BY <1>2, <1>7, <2>1, ProviderAssumption DEF CallSound, Honest, InFlight, Waiting
  <2>6. /\ ExchangeInv' /\ call' \in [Calls -> CallRecords]
        /\ \A d \in Calls : CallSound(d)' /\ Honest(call'[d], received')
    BY <1>3, <2>1, <2>3, <2>4, <2>5, OneCall
  <2> QED BY <1>1, <2>3, <2>6
          DEF ProviderInv, ProviderTypeOK, CallRecords, FileRecords, ExchangeInv
<1>8. e.at = "answered" => Complete(c, e.why, e.body) \/ SaveFails(c, e.why, e.body)
  BY DEF Continue
<1> QED BY <1>3, <1>4, <1>5, <1>6, <1>7, <1>8

\* A call that has returned, or whose process has died, is as good as new.
LEMMA ReturnStep ==
  ASSUME ProviderInv, NEW c \in Calls, Return(c)
  PROVE  ProviderInv'
<1>1. /\ UNCHANGED <<hasCache, files, received, saved, starts, crashes>>
      /\ call' = [call EXCEPT ![c] = call'[c]] /\ call'[c] = Unasked
      /\ exchange' = [exchange EXCEPT ![c] = exchange'[c]] /\ exchange'[c] = Nothing
      /\ traffic' = [traffic EXCEPT ![c] = traffic'[c]] /\ traffic'[c] = Untold
  BY ProviderTypes DEF Return, ledger
<1>2. Unasked \in CallRecords
  BY DEF Unasked, CallRecords
<1>3. CallSound(c)' /\ Honest(call'[c], received')
  BY <1>1, ProviderAssumption DEF CallSound, Honest, Unasked, Nothing, InFlight, Waiting
<1>4. /\ ExchangeInv' /\ call' \in [Calls -> CallRecords]
      /\ \A d \in Calls : CallSound(d)' /\ Honest(call'[d], received')
  BY <1>1, <1>2, <1>3, OneCall, FreshSound
<1> QED BY <1>1, <1>4 DEF ProviderInv, ProviderTypeOK, CallRecords, CacheSound, ExchangeInv

\* Nothing is left of any call.
LEMMA NoCalls ==
  ASSUME call' = [c \in Calls |-> Unasked], exchange' = [c \in Calls |-> Nothing],
         traffic' = [c \in Calls |-> Untold]
  PROVE  /\ ExchangeInv' /\ call' \in [Calls -> CallRecords]
         /\ \A c \in Calls : CallSound(c)' /\ Honest(call'[c], received')
<1>1. Unasked \in CallRecords
  BY DEF Unasked, CallRecords
<1>2. ExchangeInv'
  BY FreshSound DEF ExchangeInv, ExchangeOK, ExchangeRecords, TrafficRecords
<1>3. ASSUME NEW c \in Calls PROVE CallSound(c)' /\ Honest(call'[c], received')
  BY ProviderAssumption DEF CallSound, Honest, Unasked, Nothing, InFlight, Waiting
<1> QED BY <1>1, <1>2, <1>3

\* A crash leaves the files as they are, or cut off.
LEMMA CrashStep ==
  ASSUME ProviderInv, Crash \/ \E c \in Calls, body \in Bodies : CrashInSave(c, body)
  PROVE  ProviderInv'
<1>1. /\ Die /\ crashes' \in 0..MaxCrashes /\ UNCHANGED <<hasCache, starts>>
      /\ ExchangeInv' /\ call' \in [Calls -> CallRecords]
      /\ \A c \in Calls : CallSound(c)' /\ Honest(call'[c], received')
  BY NoCalls, ProviderAssumption DEF Crash, CrashInSave, Die, ProviderInv, ProviderTypeOK
<1>2. CASE Crash
  BY <1>1, <1>2 DEF Crash, ProviderInv, ProviderTypeOK, CallRecords, CacheSound, ExchangeInv
<1>3. ASSUME NEW c \in Calls, NEW body \in Bodies, CrashInSave(c, body)
      PROVE  ProviderInv'
  <2> DEFINE key == call[c].key
  <2>1. key \in Keys
    BY <1>3 DEF CrashInSave, ProviderInv, CallSound
  <2>2. BrokenSave(key, body)
    BY <1>3 DEF CrashInSave
  <2> QED BY <1>1, <2>1, <2>2, BrokenSound
          DEF ProviderInv, ProviderTypeOK, CallRecords, FileRecords, ExchangeInv
<1> QED BY <1>2, <1>3

\* Nothing a call does and no crash breaks the invariant.
LEMMA ProviderStep == ProviderInv /\ [Next]_vars => ProviderInv'
<1> SUFFICES ASSUME ProviderInv, [Next]_vars PROVE ProviderInv'
  OBVIOUS
<1>1. CASE UNCHANGED vars
  BY <1>1
  DEF vars, ledger, ProviderInv, ProviderTypeOK, ExchangeInv, ExchangeOK, CallSound, CacheSound
<1>2. CASE Done
  BY <1>1, <1>2 DEF Done
<1> QED BY <1>1, <1>2, BeginStep, ContinueStep, ReturnStep, CrashStep DEF Next

\* ExchangeInv, CallSound and CacheSound are part of it, so that it is inductive.
THEOREM ProviderInvariance == Spec => []ProviderInv
<1>1. Init => ProviderInv
  <2> SUFFICES ASSUME Init PROVE ProviderInv
    OBVIOUS
  <2>1. Unasked \in CallRecords
    BY DEF Unasked, CallRecords
  <2>2. ExchangeInv
    BY FreshSound DEF Init, ExchangeInv, ExchangeOK, ExchangeRecords, TrafficRecords
  <2>3. \A c \in Calls : CallSound(c) /\ Honest(call[c], received)
    BY ProviderAssumption DEF Init, CallSound, Honest, Unasked, Nothing, InFlight, Waiting
  <2>4. \A k \in Keys : CacheSound(k)
    BY ProviderAssumption, ClientAssumption DEF Init, CacheSound
  <2>5. /\ call \in [Calls -> CallRecords] /\ files \in [Keys -> FileRecords]
        /\ hasCache \in BOOLEAN /\ received \in [Keys -> SUBSET Bodies]
        /\ saved \in [Keys -> Bodies \cup {None}]
    BY <2>1 DEF Init, FileRecords
  <2>6. starts \in 0..MaxStarts /\ crashes \in 0..MaxCrashes
    BY ProviderAssumption DEF Init
  <2> QED BY <2>2, <2>3, <2>4, <2>5, <2>6
          DEF ProviderInv, ProviderTypeOK, ExchangeInv, CallRecords, FileRecords
<1> QED BY <1>1, ProviderStep, PTL DEF Spec

\* ProviderTypeOK: the types of all variables.
THEOREM ProviderTyped == Spec => []ProviderTypeOK
<1>1. ProviderInv => ProviderTypeOK
  BY DEF ProviderInv
<1> QED BY <1>1, ProviderInvariance, PTL

\* RequestsAccounted: a call polls at most MaxPollAttempts times, always for the id it was
\* told last, and reports what it did (_resolve_hosted_response).
THEOREM RequestsAccountedAlways == Spec => []RequestsAccounted
<1>1. ProviderInv => RequestsAccounted
  BY Accounts DEF ProviderInv
<1> QED BY <1>1, ProviderInvariance, PTL

\* HitWasReceived: the cache only serves what the service delivered for the payload, and
\* a point forecast is only made from such a body (LocalArtifactStore.load).
THEOREM HitWasReceivedAlways == Spec => []HitWasReceived
<1>1. ProviderInv => HitWasReceived
  BY DEF ProviderInv, HitWasReceived, Honest
<1> QED BY <1>1, ProviderInvariance, PTL

\* SavedIsServed: a result saved whole is served to every later call of its payload.
THEOREM SavedIsServedAlways == Spec => SavedIsServed
<1> DEFINE Served ==
      \A c \in Calls, k \in Keys :
        hasCache /\ saved[k] # None /\ starts' > starts /\ call'[c] # call[c]
          /\ call'[c].key = k =>
            call'[c].at = "ended" /\ call'[c].cache = "hit" /\ call'[c].body = saved[k]
<1>1. ProviderInv /\ [Next]_vars => [Served]_vars
  <2> SUFFICES ASSUME ProviderInv, [Next]_vars, NEW c \in Calls, NEW k \in Keys,
                      hasCache, saved[k] # None, starts' > starts, call'[c] # call[c],
                      call'[c].key = k
               PROVE  /\ call'[c].at = "ended" /\ call'[c].cache = "hit"
                      /\ call'[c].body = saved[k]
    OBVIOUS
  <2>1. PICK d \in Calls, r \in Requests : Begin(d, r.kind, r.key)
    <3>1. starts' # starts
      BY DEF ProviderInv, ProviderTypeOK
    <3> QED BY <3>1 DEF Next, Continue, Return, CrashInSave, Crash, Die, Done, vars, ledger
  <2>2. d = c
    BY <2>1, ProviderTypes DEF Begin, Ends
  <2>3. r.key = k
    <3>1. \A kind, key, outcome, cache, body :
            Ends(c, kind, key, outcome, cache, body) => call'[c].key = key
      BY ProviderTypes DEF Ends
    <3>2. call' = [call EXCEPT ![c] = [Unasked EXCEPT !.at = "inferring", !.kind = r.kind,
                                                      !.key = r.key]] => call'[c].key = r.key
      BY ProviderTypes DEF Unasked
    <3> QED BY <2>1, <2>2, <3>1, <3>2 DEF Begin
  <2>4. files[k].content = saved[k] /\ files[k].metadata = saved[k] /\ saved[k] # Torn
    <3>1. saved[k] \in Bodies
      BY ProviderTypes
    <3>2. files[k] = [content |-> saved[k], metadata |-> saved[k]]
      BY DEF ProviderInv, CacheSound
    <3> QED BY <3>1, <3>2, ProviderAssumption
  <2>5. Intact(k) /\ ~Unreadable(k)
    BY <2>4 DEF Intact, Exists, Unreadable
  <2>6. Ends(c, r.kind, k, Outcome(r.kind, "tar", files[k].content), "hit", files[k].content)
    BY <2>1, <2>2, <2>3, <2>5 DEF Begin
  <2> QED BY <2>4, <2>6, ProviderTypes DEF Ends
<1> QED BY <1>1, ProviderInvariance, PTL DEF Spec, SavedIsServed

\* AnswersBringEnd: every answer brings a call nearer to its end, so with answers or
\* timeouts from the service it ends (the loop of _resolve_hosted_response).
THEOREM AnswersBringEndAlways == Spec => AnswersBringEnd
<1> DEFINE Nearer ==
      \A c \in Calls : call[c].at = "inferring" /\ exchange'[c] # exchange[c] =>
        Distance(c)' < Distance(c)
<1>1. ProviderInv /\ [Next]_vars => [Nearer]_vars
  <2> SUFFICES ASSUME ProviderInv, [Next]_vars, NEW c \in Calls, call[c].at = "inferring",
                      exchange'[c] # exchange[c]
               PROVE  Distance(c)' < Distance(c)
    OBVIOUS
  <2>1. Distance(c) = Left(exchange[c]) /\ Distance(c)' = Left(exchange'[c])
    BY DEF Distance, Left
  <2>2. /\ exchange[c].at \in InFlight /\ exchange[c] \in ExchangeRecords
        /\ Sound(exchange[c], traffic[c])
    BY ProviderTypes DEF ProviderInv, CallSound, ExchangeInv
  <2>3. 0 < Left(exchange[c])
    BY <2>2, ClientAssumption DEF Left, InFlight, Waiting, Sound, ExchangeRecords
  <2>4. ASSUME NEW d \in Calls, Continue(d) PROVE Left(exchange'[c]) < Left(exchange[c])
    <3>1. Progress(d)
      BY <2>4, ExchangeProgress DEF Continue, ProviderInv
    <3>2. d = c
      BY <3>1, ProviderTypes DEF Progress
    <3> QED BY <3>1, <3>2 DEF Progress
  <2>5. ASSUME NEW d \in Calls, NEW r \in Requests, Begin(d, r.kind, r.key) PROVE FALSE
    BY <2>5, ProviderTypes DEF Begin, Post
  <2>6. ASSUME NEW d \in Calls, Return(d) PROVE FALSE
    BY <2>6, ProviderTypes DEF Return
  <2>7. CASE Die
    <3>1. exchange'[c] = Nothing
      BY <2>7 DEF Die
    <3> QED BY <2>1, <2>3, <3>1, FreshSound
  <2>8. CASE Done \/ UNCHANGED vars
    BY <2>8 DEF Done, vars
  <2> QED BY <2>1, <2>4, <2>5, <2>6, <2>7, <2>8 DEF Next, Crash, CrashInSave
<1> QED BY <1>1, ProviderInvariance, PTL DEF Spec, AnswersBringEnd
====
