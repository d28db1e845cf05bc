---- MODULE RedisQueue ----
(***************************************************************************)
(* RedisForecastQueue and its clients: the workers of one or more          *)
(* processes.  A client suspends in every Redis command, so that each      *)
(* command (and each script or transaction, which Redis runs at once) is a *)
(* step, and a client may die between two of them.  What Redis holds       *)
(* outlives the clients.                                                   *)
(***************************************************************************)
EXTENDS Integers

CONSTANTS
  Clients,       \* worker coroutines, of any process
  Keys, Ranks, Nobody,
  ScoreFactor,   \* _SCORE_FACTOR
  MaxSequence    \* bound: INCRs

ASSUME QueueAssumption ==
  /\ Ranks \subseteq Nat /\ MaxSequence \in Nat
  /\ Nobody \notin Nat /\ Nobody \notin [rank : Nat, place : Nat]
\* Fewer enqueues than the score has room for (10^12): past that, ranks overlap.
ASSUME ScoreAssumption == ScoreFactor \in Nat /\ MaxSequence < ScoreFactor

VARIABLES
  sequence,      \* <queue>:sequence
  pending,       \* <queue>:pending, the rank in the payload, Nobody when there is none
  scores,        \* <queue>:pending:score, Nobody for what is not a member
  inFlight,      \* <queue>:in-flight, as pending
  leases,        \* the keys that have a <queue>:lease:<key>
  client         \* where every client is, with which key, rank and ticket

redis == <<sequence, pending, scores, inFlight, leases>>
vars == <<redis, client>>

Some(hash) == {k \in Keys : hash[k] # Nobody}

Idle == [at |-> "idle", key |-> Nobody, rank |-> Nobody, ticket |-> Nobody]
Goes(c, at, k, r, ticket) ==
  client' = [client EXCEPT ![c] = [at |-> at, key |-> k, rank |-> r, ticket |-> ticket]]

\* Slip: the factor on the wrong side.
ScoreByTicket(rank, ticket) == rank + ticket * ScoreFactor
Score(rank, ticket) == rank * ScoreFactor + ticket

----------------------------------------------------------------------------
(* enqueue *)

\* INCR <queue>:sequence
\* Slip: the sequence is read and not incremented.
DrawSame(c, k, r) ==
  /\ sequence < MaxSequence
  /\ Goes(c, "push", k, r, sequence + 1)
  /\ UNCHANGED redis

Draw(c, k, r) ==
  /\ sequence < MaxSequence
  /\ sequence' = sequence + 1
  /\ Goes(c, "push", k, r, sequence + 1)
  /\ UNCHANGED <<pending, scores, inFlight, leases>>

EnqueueDraw(c, k, r) == client[c] = Idle /\ Draw(c, k, r)

\* EVAL _ENQUEUE_SCRIPT
EnqueuePush(c) ==
  LET me == client[c] IN
  /\ me.at = "push"
  /\ IF me.key \in Some(pending) \union Some(inFlight)
     THEN UNCHANGED <<pending, scores>>
     ELSE /\ pending' = [pending EXCEPT ![me.key] = me.rank]
          /\ scores' = [scores EXCEPT ![me.key] = Score(me.rank, me.ticket)]
  /\ client' = [client EXCEPT ![c] = Idle]
  /\ UNCHANGED <<sequence, inFlight, leases>>

----------------------------------------------------------------------------
(* dequeue *)

\* EVAL _DEQUEUE_SCRIPT: the member of the least score, if it has a payload, goes in
\* flight; nothing tells the client of a member that has none.
First(k) == /\ k \in Some(scores)
            /\ \A l \in Some(scores) \ {k} : scores[k] < scores[l]

\* Slip: the member stays in the sorted set.
DequeuePopUnranked(c) ==
  /\ client[c] = Idle
  /\ \E k \in Keys :
       /\ First(k)
       /\ pending' = [pending EXCEPT ![k] = Nobody]
       /\ inFlight' = [inFlight EXCEPT ![k] = pending[k]]
       /\ Goes(c, "lease", k, pending[k], Nobody)
  /\ UNCHANGED <<sequence, scores, leases>>

DequeuePop(c) ==
  /\ client[c] = Idle
  /\ \E k \in Keys :
       /\ First(k)
       /\ scores' = [scores EXCEPT ![k] = Nobody]
       /\ pending' = [pending EXCEPT ![k] = Nobody]
       /\ IF k \in Some(pending)
          THEN /\ inFlight' = [inFlight EXCEPT ![k] = pending[k]]
               /\ Goes(c, "lease", k, pending[k], Nobody)
          ELSE UNCHANGED <<inFlight, client>>
  /\ UNCHANGED <<sequence, leases>>

\* The script finds no member, and the answer is None.
DequeueNone(c) == client[c] = Idle /\ Some(scores) = {} /\ UNCHANGED vars

\* SET <queue>:lease:<key> EX visibility_timeout_seconds
DequeueLease(c) ==
  /\ client[c].at = "lease"
  /\ leases' = leases \union {client[c].key}
  /\ client' = [client EXCEPT ![c].at = "holding"]
  /\ UNCHANGED <<sequence, pending, scores, inFlight>>

\* Nothing in the program reads a lease.
LeaseExpires(k) ==
  /\ k \in leases
  /\ leases' = leases \ {k}
  /\ UNCHANGED <<sequence, pending, scores, inFlight, client>>

----------------------------------------------------------------------------
(* mark_completed and mark_failed: MULTI HDEL, DEL, EXEC *)

\* Slip: the lease is left behind.
ReleaseLeased(c) ==
  /\ client[c].at = "holding"
  /\ inFlight' = [inFlight EXCEPT ![client[c].key] = Nobody]
  /\ UNCHANGED <<sequence, pending, scores, leases>>

Release(c) ==
  /\ client[c].at = "holding"
  /\ inFlight' = [inFlight EXCEPT ![client[c].key] = Nobody]
  /\ leases' = leases \ {client[c].key}
  /\ UNCHANGED <<sequence, pending, scores>>

Mark(c) == Release(c) /\ client' = [client EXCEPT ![c] = Idle]

\* mark_failed(requeue=True) enqueues the item after the transaction.
FailRequeue(c) == Release(c) /\ client' = [client EXCEPT ![c].at = "requeue"]
RequeueDraw(c) == client[c].at = "requeue" /\ Draw(c, client[c].key, client[c].rank)

\* The client's process dies, or a command raises.
Die(c) == client[c] # Idle /\ client' = [client EXCEPT ![c] = Idle] /\ UNCHANGED redis

----------------------------------------------------------------------------
Init ==
  /\ sequence = 0 /\ leases = {}
  /\ pending = [k \in Keys |-> Nobody]
  /\ scores = [k \in Keys |-> Nobody]
  /\ inFlight = [k \in Keys |-> Nobody]
  /\ client = [c \in Clients |-> Idle]

ClientStep(c) ==
  \/ \E k \in Keys, r \in Ranks : EnqueueDraw(c, k, r)
  \/ EnqueuePush(c) \/ DequeuePop(c) \/ DequeueNone(c) \/ DequeueLease(c)
  \/ Mark(c) \/ FailRequeue(c) \/ RequeueDraw(c) \/ Die(c)

Next == (\E c \in Clients : ClientStep(c)) \/ (\E k \in Keys : LeaseExpires(k))

Spec == Init /\ [][Next]_vars

----------------------------------------------------------------------------
(* Properties *)

\* The three structures that say what waits agree: the pending hash and the sorted
\* set have the same members, with scores of their ranks that tell any two of them
\* apart, and no key both waits and is in flight.  A key of the hash alone would
\* never be handed out and never be accepted again; a member of the set alone would
\* make dequeue answer None while others wait (both scripts).
WaitingAgrees ==
  /\ Some(pending) = Some(scores)
  /\ \A k \in Some(pending) : \E ticket \in 1..sequence : scores[k] = Score(pending[k], ticket)
  /\ \A k, l \in Some(scores) : scores[k] = scores[l] => k = l
  /\ Some(pending) \intersect Some(inFlight) = {}

\* No two clients, of whatever processes, work on one key, and a key that is worked
\* on or leased is in flight, so that no enqueue brings it back (dequeue, mark_*).
WorksOn(c, k) == client[c].at \in {"lease", "holding"} /\ client[c].key = k
OneWorker ==
  /\ \A c \in Clients, k \in Keys : WorksOn(c, k) =>
       k \in Some(inFlight) /\ \A d \in Clients \ {c} : ~WorksOn(d, k)
  /\ leases \subseteq Some(inFlight)

\* The adapter is a ForecastQueue in which the order of two enqueues that overlap is
\* open: the ticket is drawn before the key is in line.
Line == [k \in Keys |->
           IF k \in Some(pending)
           THEN [rank |-> pending[k], place |-> scores[k] - pending[k] * ScoreFactor]
           ELSE Nobody]
Port == INSTANCE ForecastQueue WITH Places <- 1..MaxSequence, Fifo <- FALSE,
                                    waiting <- Line, held <- Some(inFlight)
ImplementsPort == Port!Spec

\* Enqueues that do not overlap are first in, first out within a rank: a ticket is
\* drawn behind every key that is already in line (enqueue draws it from INCR).
NewcomersBehind ==
  [][\A c \in Clients : client'[c].at = "push" /\ client[c].at # "push" =>
       \A k \in Some(pending) : pending[k] = client'[c].rank =>
         scores[k] < Score(client'[c].rank, client'[c].ticket)]_vars
====
