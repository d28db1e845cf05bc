---- MODULE RedisQueueProofs ----
(***************************************************************************)
(* What the Redis queue keeps between the commands of its clients, and     *)
(* that it is a ForecastQueue in which overlapping enqueues may overtake   *)
(* each other; for any number of clients, keys, ranks and enqueues, and    *)
(* clients that die between any two commands.                              *)
(***************************************************************************)
EXTENDS RedisQueue, TLAPS

\* The ticket in the score of a waiting key.
Place(k) == scores[k] - pending[k] * ScoreFactor

ClientPoints == {"idle", "push", "lease", "holding", "requeue"}
ClientRecords == [at : ClientPoints, key : Keys \union {Nobody}, rank : Ranks \union {Nobody},
                  ticket : 1..MaxSequence \union {Nobody}]

QueueTypes ==
  /\ sequence \in 0..MaxSequence
  /\ pending \in [Keys -> Ranks \union {Nobody}]
  /\ inFlight \in [Keys -> Ranks \union {Nobody}]
  /\ scores \in [Keys -> Nat \union {Nobody}]
  /\ leases \subseteq Keys
  /\ client \in [Clients -> ClientRecords]

\* A client that is not idle has a key and a rank; before the script, a ticket, which is
\* nobody else's and not the ticket of a key in line.
ClientOK(c) ==
  /\ client[c].at # "idle" => client[c].key \in Keys /\ client[c].rank \in Ranks
  /\ client[c].at = "push" => client[c].ticket \in 1..sequence
TicketsOnce ==
  \A c \in Clients : client[c].at = "push" =>
    /\ \A d \in Clients : client[d].at = "push" /\ client[d].ticket = client[c].ticket => c = d
    /\ \A k \in Some(pending) : Place(k) # client[c].ticket

RedisInv == /\ QueueTypes /\ (\A c \in Clients : ClientOK(c)) /\ TicketsOnce
            /\ WaitingAgrees /\ OneWorker

----------------------------------------------------------------------------
(* Scores *)

\* Keys of a better rank come first, whatever their tickets, as long as there are fewer
\* enqueues than _SCORE_FACTOR.
LEMMA ScoreOrder ==
  ASSUME NEW r \in Nat, NEW s \in Nat, r < s, NEW t \in 1..MaxSequence, NEW u \in 1..MaxSequence
  PROVE  Score(r, t) < Score(s, u)
<1>1. /\ ScoreFactor \in Nat /\ t \in Nat /\ u \in Nat /\ t < ScoreFactor /\ u > 0
  BY QueueAssumption, ScoreAssumption
<1>2. PICK d \in Nat : s = r + 1 + d
  <2>1. s - r - 1 \in Nat /\ s = r + 1 + (s - r - 1)
    OBVIOUS
  <2> QED BY <2>1
<1>3. s * ScoreFactor = r * ScoreFactor + ScoreFactor + d * ScoreFactor
  BY <1>1, <1>2
<1>4. d * ScoreFactor \in Nat /\ r * ScoreFactor \in Nat
  BY <1>1
<1>5. s * ScoreFactor \in Nat /\ s * ScoreFactor >= r * ScoreFactor + ScoreFactor
  BY <1>1, <1>3, <1>4
<1>6. r * ScoreFactor + t < s * ScoreFactor + u
  BY <1>1, <1>4, <1>5
<1> QED BY <1>6 DEF Score

\* A score gives its ticket back, and grows with it within a rank.
LEMMA ScoreTicket ==
  ASSUME NEW r \in Nat, NEW t \in Nat
  PROVE  /\ Score(r, t) \in Nat /\ Score(r, t) - r * ScoreFactor = t
         /\ \A u \in Nat : t < u <=> Score(r, t) < Score(r, u)
<1>1. r * ScoreFactor \in Nat
  BY ScoreAssumption
<1> QED BY <1>1 DEF Score

\* The score of a waiting key is made of its rank and of a ticket that was drawn.
LEMMA LinePlaces ==
  ASSUME RedisInv, NEW k \in Some(pending)
  PROVE  /\ k \in Keys /\ pending[k] \in Ranks /\ pending[k] \in Nat /\ k \in Some(scores)
         /\ Place(k) \in 1..sequence /\ Place(k) \in 1..MaxSequence /\ Place(k) \in Nat
         /\ scores[k] = Score(pending[k], Place(k))
         /\ Line[k] = [rank |-> pending[k], place |-> Place(k)] /\ Line[k] # Nobody
         /\ Line[k].rank = pending[k] /\ Line[k].place = Place(k)
<1>1. k \in Keys /\ pending[k] \in Ranks /\ pending[k] \in Nat /\ k \in Some(scores)
  BY QueueAssumption DEF RedisInv, QueueTypes, WaitingAgrees, Some
<1>2. PICK ticket \in 1..sequence : scores[k] = Score(pending[k], ticket)
  BY DEF RedisInv, WaitingAgrees
<1>3. ticket \in Nat /\ ticket \in 1..MaxSequence
  BY QueueAssumption DEF RedisInv, QueueTypes
<1>4. Place(k) = ticket
  BY <1>1, <1>2, <1>3, ScoreTicket DEF Place
<1>5. Line[k] = [rank |-> pending[k], place |-> Place(k)]
  BY <1>1 DEF Line, Place
<1>6. Line[k] # Nobody
  BY <1>1, <1>3, <1>4, <1>5, QueueAssumption
<1> QED BY <1>1, <1>2, <1>3, <1>4, <1>5, <1>6

\* Less score is ahead in line.
LEMMA LineOrder ==
  ASSUME RedisInv, NEW k \in Some(pending), NEW l \in Some(pending)
  PROVE  scores[k] < scores[l] <=> Port!Ahead(Line[k], Line[l])
<1>1. /\ pending[k] \in Nat /\ pending[l] \in Nat
      /\ Place(k) \in 1..MaxSequence /\ Place(l) \in 1..MaxSequence
      /\ Place(k) \in Nat /\ Place(l) \in Nat
      /\ scores[k] = Score(pending[k], Place(k)) /\ scores[l] = Score(pending[l], Place(l))
      /\ Line[k].rank = pending[k] /\ Line[k].place = Place(k)
      /\ Line[l].rank = pending[l] /\ Line[l].place = Place(l)
  BY LinePlaces
<1>2. scores[k] \in Nat /\ scores[l] \in Nat
  BY <1>1, ScoreTicket
<1>3. CASE pending[k] < pending[l]
  BY <1>1, <1>3, ScoreOrder DEF Port!Ahead
<1>4. CASE pending[l] < pending[k]
  <2>1. scores[l] < scores[k]
    BY <1>1, <1>4, ScoreOrder
  <2> QED BY <1>1, <1>2, <1>4, <2>1 DEF Port!Ahead
<1>5. CASE pending[k] = pending[l]
  <2>1. Place(k) < Place(l) <=> Score(pending[k], Place(k)) < Score(pending[k], Place(l))
    BY <1>1, ScoreTicket
  <2> QED BY <1>1, <1>5, <2>1 DEF Port!Ahead
<1> QED BY <1>1, <1>3, <1>4, <1>5

----------------------------------------------------------------------------
(* The invariant *)

\* A client moves, the others stay where they are.
LEMMA ClientMoves ==
  ASSUME QueueTypes, NEW c \in Clients, NEW w, client' = [client EXCEPT ![c] = w]
  PROVE  /\ client'[c] = w /\ \A d \in Clients \ {c} : client'[d] = client[d]
         /\ w \in ClientRecords => client' \in [Clients -> ClientRecords]
BY DEF QueueTypes

\* The queue starts empty.
LEMMA InvInit == Init => RedisInv
<1> SUFFICES ASSUME Init PROVE RedisInv
  OBVIOUS
<1>1. QueueTypes
  BY QueueAssumption DEF Init, QueueTypes, ClientRecords, ClientPoints, Idle
<1>2. \A c \in Clients : client[c].at = "idle"
  BY DEF Init, Idle
<1> QED BY <1>1, <1>2 DEF RedisInv, Init, ClientOK, TicketsOnce, WaitingAgrees, OneWorker,
                         WorksOn, Some

\* A drawn ticket is new: no client has it, and no key in line.
LEMMA InvDraw ==
  ASSUME RedisInv, NEW c \in Clients, NEW k \in Keys, NEW r \in Ranks, Draw(c, k, r),
         client[c].at \in {"idle", "requeue"}
  PROVE  RedisInv'
<1>1. /\ sequence' = sequence + 1 /\ sequence' \in 0..MaxSequence /\ sequence \in Nat
      /\ UNCHANGED <<pending, scores, inFlight, leases>>
  BY QueueAssumption DEF Draw, RedisInv, QueueTypes
<1>2. PICK w : /\ w = [at |-> "push", key |-> k, rank |-> r, ticket |-> sequence + 1]
               /\ client' = [client EXCEPT ![c] = w]
  BY DEF Draw, Goes
<1>3. w \in ClientRecords
  BY <1>1, <1>2 DEF ClientRecords, ClientPoints
<1>4. client'[c] = w /\ \A d \in Clients \ {c} : client'[d] = client[d]
  BY <1>2, ClientMoves DEF RedisInv
<1>5. QueueTypes'
  BY <1>1, <1>2, <1>3, ClientMoves DEF RedisInv, QueueTypes
<1>6. 1..sequence \subseteq 1..sequence' /\ sequence + 1 \in 1..sequence'
      /\ sequence + 1 \notin 1..sequence
  BY <1>1
<1>7. \A d \in Clients : ClientOK(d)'
  BY <1>2, <1>4, <1>6 DEF RedisInv, ClientOK
<1>8. TicketsOnce'
  <2>1. \A l \in Some(pending) : Place(l) \in 1..sequence
    BY LinePlaces
  <2>2. \A d \in Clients : client[d].at = "push" => client[d].ticket \in 1..sequence
    BY DEF RedisInv, ClientOK
  <2>3. Some(pending)' = Some(pending) /\ \A l \in Keys : Place(l)' = Place(l)
    BY <1>1 DEF Some, Place
  <2>4. Some(pending) \subseteq Keys
    BY DEF Some
  <2> QED BY <1>2, <1>4, <1>6, <2>1, <2>2, <2>3, <2>4 DEF RedisInv, TicketsOnce
<1>9. WaitingAgrees'
  BY <1>1, <1>6 DEF RedisInv, WaitingAgrees, Some, Score
<1>10. OneWorker'
  BY <1>1, <1>2, <1>4 DEF RedisInv, OneWorker, WorksOn, Some
<1> QED BY <1>5, <1>7, <1>8, <1>9, <1>10 DEF RedisInv

\* A step that changes neither the line nor who draws a ticket keeps what is said of them.
LEMMA LineKept ==
  ASSUME RedisInv, UNCHANGED <<sequence, pending, scores>>,
         \A d \in Clients : client'[d].at = "push" => client'[d] = client[d],
         Some(pending) \intersect Some(inFlight') = {}
  PROVE  TicketsOnce' /\ WaitingAgrees'
<1>1. Some(pending)' = Some(pending) /\ Some(scores)' = Some(scores)
      /\ Some(inFlight)' = Some(inFlight') /\ \A l \in Keys : Place(l)' = Place(l)
  BY DEF Some, Place
<1>2. Some(pending) \subseteq Keys
  BY DEF Some
<1>3. TicketsOnce'
  BY <1>1, <1>2 DEF RedisInv, TicketsOnce
<1>4. WaitingAgrees'
  BY <1>1 DEF RedisInv, WaitingAgrees, Score
<1> QED BY <1>3, <1>4

\* The script puts the client's key in line under the client's ticket, or changes nothing.
LEMMA PushMoves ==
  ASSUME RedisInv, NEW c \in Clients, EnqueuePush(c)
  PROVE  LET me == client[c] IN
         /\ me.at = "push" /\ me.key \in Keys /\ me.rank \in Ranks /\ me.ticket \in 1..sequence
         /\ client'[c] = Idle /\ \A d \in Clients \ {c} : client'[d] = client[d]
         /\ client' \in [Clients -> ClientRecords]
         /\ UNCHANGED <<sequence, inFlight, leases>>
         /\ \/ UNCHANGED <<pending, scores>>
            \/ /\ me.key \notin Some(pending) \union Some(inFlight)
               /\ pending' = [pending EXCEPT ![me.key] = me.rank]
               /\ scores' = [scores EXCEPT ![me.key] = Score(me.rank, me.ticket)]
<1>1. client[c].at = "push" /\ client[c].key \in Keys /\ client[c].rank \in Ranks
      /\ client[c].ticket \in 1..sequence
  BY DEF EnqueuePush, RedisInv, ClientOK
<1>2. Idle \in ClientRecords
  BY DEF Idle, ClientRecords, ClientPoints
<1>3. client' = [client EXCEPT ![c] = Idle]
  BY DEF EnqueuePush
<1>4. /\ client'[c] = Idle /\ \A d \in Clients \ {c} : client'[d] = client[d]
      /\ client' \in [Clients -> ClientRecords]
  BY <1>2, <1>3, ClientMoves DEF RedisInv
<1> QED BY <1>1, <1>4 DEF EnqueuePush

\* A key pushed gets a rank and a score of its own, the others keep theirs.
LEMMA PushPlaces ==
  ASSUME RedisInv, NEW k \in Keys, NEW r \in Ranks, NEW t \in 1..sequence,
         k \notin Some(pending),
         pending' = [pending EXCEPT ![k] = r], scores' = [scores EXCEPT ![k] = Score(r, t)]
  PROVE  /\ pending' \in [Keys -> Ranks \union {Nobody}] /\ scores' \in [Keys -> Nat \union {Nobody}]
         /\ pending'[k] = r /\ scores'[k] = Score(r, t) /\ Place(k)' = t
         /\ Some(pending)' = Some(pending) \union {k} /\ Some(scores)' = Some(scores) \union {k}
         /\ \A l \in Keys \ {k} : /\ pending'[l] = pending[l] /\ scores'[l] = scores[l]
                                  /\ Place(l)' = Place(l)
<1>1. r \in Nat /\ r # Nobody /\ t \in Nat
  BY QueueAssumption DEF RedisInv, QueueTypes
<1>2. Score(r, t) \in Nat /\ Score(r, t) # Nobody /\ Score(r, t) - r * ScoreFactor = t
  BY <1>1, ScoreTicket, QueueAssumption
<1>3. /\ pending' \in [Keys -> Ranks \union {Nobody}] /\ scores' \in [Keys -> Nat \union {Nobody}]
      /\ pending'[k] = r /\ scores'[k] = Score(r, t)
      /\ \A l \in Keys \ {k} : pending'[l] = pending[l] /\ scores'[l] = scores[l]
  BY <1>2 DEF RedisInv, QueueTypes
<1> QED BY <1>1, <1>2, <1>3 DEF Some, Place

\* The enqueue script keeps hash and sorted set in agreement.
LEMMA InvPush ==
  ASSUME RedisInv, NEW c \in Clients, EnqueuePush(c)
  PROVE  RedisInv'
<1>0. PICK k \in Keys, r \in Ranks, t \in 1..sequence :
        k = client[c].key /\ r = client[c].rank /\ t = client[c].ticket
  BY PushMoves
<1>1. /\ client[c].at = "push"
      /\ client'[c] = Idle /\ \A d \in Clients \ {c} : client'[d] = client[d]
      /\ client' \in [Clients -> ClientRecords]
      /\ UNCHANGED <<sequence, inFlight, leases>>
      /\ \/ UNCHANGED <<pending, scores>>
         \/ /\ k \notin Some(pending) \union Some(inFlight)
            /\ pending' = [pending EXCEPT ![k] = r]
            /\ scores' = [scores EXCEPT ![k] = Score(r, t)]
  BY <1>0, PushMoves
<1>2. Idle.at = "idle"
  BY DEF Idle
<1>3. \A d \in Clients : ClientOK(d)'
  BY <1>1, <1>2 DEF RedisInv, ClientOK
<1>4. OneWorker'
  BY <1>1, <1>2 DEF RedisInv, OneWorker, WorksOn, Some
<1>5. CASE UNCHANGED <<pending, scores>>
  <2>1. TicketsOnce' /\ WaitingAgrees'
    BY <1>1, <1>2, <1>5, LineKept DEF RedisInv, WaitingAgrees
  <2>2. QueueTypes'
    BY <1>1, <1>5 DEF RedisInv, QueueTypes
  <2> QED BY <1>3, <1>4, <2>1, <2>2 DEF RedisInv
<1>6. CASE /\ k \notin Some(pending) \union Some(inFlight)
           /\ pending' = [pending EXCEPT ![k] = r]
           /\ scores' = [scores EXCEPT ![k] = Score(r, t)]
  <2>1. /\ pending' \in [Keys -> Ranks \union {Nobody}] /\ scores' \in [Keys -> Nat \union {Nobody}]
        /\ pending'[k] = r /\ scores'[k] = Score(r, t) /\ Place(k)' = t
        /\ Some(pending)' = Some(pending) \union {k} /\ Some(scores)' = Some(scores) \union {k}
        /\ \A l \in Keys \ {k} : /\ pending'[l] = pending[l] /\ scores'[l] = scores[l]
                                 /\ Place(l)' = Place(l)
    BY <1>1, <1>6, PushPlaces
  <2>2. /\ \A l \in Some(pending) : l \in Keys \ {k} /\ Place(l) # t
        /\ Some(scores) = Some(pending) /\ Some(inFlight)' = Some(inFlight)
        /\ Some(pending) \intersect Some(inFlight) = {}
    BY <1>0, <1>1, <1>6 DEF RedisInv, TicketsOnce, WaitingAgrees, Some
  <2>3. QueueTypes'
    BY <1>1, <2>1 DEF RedisInv, QueueTypes
  <2>4. TicketsOnce'
    <3> SUFFICES ASSUME NEW d \in Clients, client'[d].at = "push"
                 PROVE  /\ \A e \in Clients : client'[e].at = "push"
                             /\ client'[e].ticket = client'[d].ticket => d = e
                        /\ \A l \in Some(pending)' : Place(l)' # client'[d].ticket
      BY DEF TicketsOnce
    <3>1. d # c /\ client'[d] = client[d]
      BY <1>1, <1>2
    <3>2. client[d].ticket # t
      BY <1>0, <1>1, <3>1 DEF RedisInv, TicketsOnce
    <3>3. \A l \in Some(pending) : Place(l) # client[d].ticket
      BY <3>1 DEF RedisInv, TicketsOnce
    <3>4. \A l \in Some(pending)' : Place(l)' # client'[d].ticket
      BY <2>1, <2>2, <3>1, <3>2, <3>3
    <3>5. \A e \in Clients : client'[e].at = "push" /\ client'[e].ticket = client'[d].ticket => d = e
      BY <1>1, <1>2, <3>1 DEF RedisInv, TicketsOnce
    <3> QED BY <3>4, <3>5
  <2>5. WaitingAgrees'
    <3>1. Some(pending)' = Some(scores)'
      BY <2>1, <2>2
    <3>2. \A l \in Some(pending)' : \E ticket \in 1..sequence' :
            scores'[l] = Score(pending'[l], ticket)
      BY <1>1, <2>1, <2>2 DEF RedisInv, WaitingAgrees
    <3>3. ASSUME NEW l \in Some(pending) PROVE scores[l] # Score(r, t)
      <4>1. /\ pending[l] \in Nat /\ Place(l) \in 1..MaxSequence /\ Place(l) \in Nat
            /\ scores[l] = Score(pending[l], Place(l)) /\ scores[l] \in Nat
        BY LinePlaces, ScoreTicket
      <4>2. r \in Nat /\ t \in 1..MaxSequence /\ t \in Nat /\ Score(r, t) \in Nat
        <5>1. r \in Nat /\ t \in 1..MaxSequence /\ t \in Nat
          BY <1>1, QueueAssumption DEF RedisInv, QueueTypes
        <5> QED BY <5>1, ScoreTicket
      <4>3. CASE pending[l] < r
        <5>1. scores[l] < Score(r, t)
          BY <4>1, <4>2, <4>3, ScoreOrder
        <5> QED BY <4>1, <4>2, <5>1
      <4>4. CASE r < pending[l]
        <5>1. Score(r, t) < scores[l]
          BY <4>1, <4>2, <4>4, ScoreOrder
        <5> QED BY <4>1, <4>2, <5>1
      <4>5. CASE pending[l] = r
        <5>1. scores[l] - r * ScoreFactor = Place(l) /\ Score(r, t) - r * ScoreFactor = t
          BY <4>1, <4>2, <4>5, ScoreTicket
        <5> QED BY <2>2, <5>1
      <4> QED BY <4>1, <4>2, <4>3, <4>4, <4>5
    <3>4. \A l, m \in Some(scores)' : scores'[l] = scores'[m] => l = m
      BY <2>1, <2>2, <3>3 DEF RedisInv, WaitingAgrees
    <3>5. Some(pending)' \intersect Some(inFlight)' = {}
      <4> SUFFICES ASSUME NEW l \in Some(pending)', l \in Some(inFlight)' PROVE FALSE
        OBVIOUS
      <4>1. l \in Some(inFlight) /\ l \notin Some(pending)
        BY <2>2
      <4>2. l = k
        BY <2>1, <4>1
      <4> QED BY <1>6, <4>1, <4>2
    <3> QED BY <3>1, <3>2, <3>4, <3>5 DEF WaitingAgrees
  <2> QED BY <1>3, <1>4, <2>3, <2>4, <2>5 DEF RedisInv
<1> QED BY <1>1, <1>5, <1>6

\* The dequeue script takes one key out of hash and sorted set and puts it in flight: the
\* member it finds always has a payload.
LEMMA PopMoves ==
  ASSUME RedisInv, NEW c \in Clients, DequeuePop(c)
  PROVE  \E k \in Some(pending), w \in ClientRecords :
         /\ First(k) /\ client[c] = Idle
         /\ w.at = "lease" /\ w.key = k /\ w.rank = pending[k] /\ client'[c] = w
         /\ \A d \in Clients \ {c} : client'[d] = client[d]
         /\ client' \in [Clients -> ClientRecords]
         /\ UNCHANGED <<sequence, leases>>
         /\ pending' = [pending EXCEPT ![k] = Nobody] /\ scores' = [scores EXCEPT ![k] = Nobody]
         /\ inFlight' = [inFlight EXCEPT ![k] = pending[k]]
<1>1. PICK k \in Keys : /\ First(k)
                        /\ scores' = [scores EXCEPT ![k] = Nobody]
                        /\ pending' = [pending EXCEPT ![k] = Nobody]
                        /\ k \in Some(pending) =>
                             /\ inFlight' = [inFlight EXCEPT ![k] = pending[k]]
                             /\ Goes(c, "lease", k, pending[k], Nobody)
  BY DEF DequeuePop
<1>2. k \in Some(pending)
  BY <1>1 DEF First, RedisInv, WaitingAgrees
<1>3. PICK w : w = [at |-> "lease", key |-> k, rank |-> pending[k], ticket |-> Nobody]
  OBVIOUS
<1>4. pending[k] \in Ranks
  BY <1>2, LinePlaces
<1>5. w \in ClientRecords
  BY <1>3, <1>4 DEF ClientRecords, ClientPoints
<1>6. client' = [client EXCEPT ![c] = w]
  BY <1>1, <1>2, <1>3 DEF Goes
<1>7. /\ client'[c] = w /\ \A d \in Clients \ {c} : client'[d] = client[d]
      /\ client' \in [Clients -> ClientRecords]
  BY <1>5, <1>6, ClientMoves DEF RedisInv
<1>8. w.at = "lease" /\ w.key = k /\ w.rank = pending[k]
  BY <1>3
<1> QED BY <1>1, <1>2, <1>5, <1>7, <1>8 DEF DequeuePop

\* What the three hashes hold after a key was popped.
LEMMA PopPlaces ==
  ASSUME RedisInv, NEW k \in Some(pending),
         pending' = [pending EXCEPT ![k] = Nobody], scores' = [scores EXCEPT ![k] = Nobody],
         inFlight' = [inFlight EXCEPT ![k] = pending[k]]
  PROVE  /\ pending' \in [Keys -> Ranks \union {Nobody}] /\ scores' \in [Keys -> Nat \union {Nobody}]
         /\ inFlight' \in [Keys -> Ranks \union {Nobody}]
         /\ Some(pending)' = Some(pending) \ {k} /\ Some(scores)' = Some(scores) \ {k}
         /\ Some(inFlight)' = Some(inFlight) \union {k}
         /\ \A l \in Keys \ {k} : /\ pending'[l] = pending[l] /\ scores'[l] = scores[l]
                                  /\ Place(l)' = Place(l)
<1>1. k \in Keys /\ pending[k] \in Ranks /\ pending[k] # Nobody
  BY LinePlaces DEF Some
<1>2. /\ pending' \in [Keys -> Ranks \union {Nobody}] /\ scores' \in [Keys -> Nat \union {Nobody}]
      /\ inFlight' \in [Keys -> Ranks \union {Nobody}]
      /\ pending'[k] = Nobody /\ scores'[k] = Nobody /\ inFlight'[k] = pending[k]
      /\ \A l \in Keys \ {k} : /\ pending'[l] = pending[l] /\ scores'[l] = scores[l]
                               /\ inFlight'[l] = inFlight[l]
  BY <1>1 DEF RedisInv, QueueTypes
<1> QED BY <1>1, <1>2 DEF Some, Place

\* The dequeue script keeps hash and sorted set in agreement, and takes a key nobody works on.
LEMMA InvPop ==
  ASSUME RedisInv, NEW c \in Clients, DequeuePop(c)
  PROVE  RedisInv'
<1>1. PICK k \in Some(pending), w \in ClientRecords :
        /\ w.at = "lease" /\ w.key = k /\ w.rank = pending[k] /\ client'[c] = w
        /\ \A d \in Clients \ {c} : client'[d] = client[d]
        /\ client' \in [Clients -> ClientRecords]
        /\ UNCHANGED <<sequence, leases>>
        /\ pending' = [pending EXCEPT ![k] = Nobody] /\ scores' = [scores EXCEPT ![k] = Nobody]
        /\ inFlight' = [inFlight EXCEPT ![k] = pending[k]]
  BY PopMoves
<1>2. /\ pending' \in [Keys -> Ranks \union {Nobody}] /\ scores' \in [Keys -> Nat \union {Nobody}]
      /\ inFlight' \in [Keys -> Ranks \union {Nobody}]
      /\ Some(pending)' = Some(pending) \ {k} /\ Some(scores)' = Some(scores) \ {k}
      /\ Some(inFlight)' = Some(inFlight) \union {k}
      /\ \A l \in Keys \ {k} : /\ pending'[l] = pending[l] /\ scores'[l] = scores[l]
                               /\ Place(l)' = Place(l)
  BY <1>1, PopPlaces
<1>3. k \in Keys /\ pending[k] \in Ranks /\ k \notin Some(inFlight) /\ Some(pending) \subseteq Keys
  BY LinePlaces DEF Some, RedisInv, WaitingAgrees
<1>4. QueueTypes'
  BY <1>1, <1>2 DEF RedisInv, QueueTypes
<1>5. \A d \in Clients : ClientOK(d)'
  BY <1>1, <1>3 DEF RedisInv, ClientOK
<1>6. TicketsOnce'
  <2>1. \A l \in Some(pending)' : l \in Some(pending) /\ l \in Keys \ {k} /\ Place(l)' = Place(l)
    BY <1>2, <1>3
  <2>2. \A d \in Clients : client'[d].at = "push" => client'[d] = client[d]
    BY <1>1
  <2> QED BY <2>1, <2>2 DEF RedisInv, TicketsOnce
<1>7. WaitingAgrees'
  <2>1. Some(pending)' = Some(scores)'
    BY <1>2 DEF RedisInv, WaitingAgrees
  <2>2. \A l \in Some(pending)' : \E ticket \in 1..sequence' :
          scores'[l] = Score(pending'[l], ticket)
    BY <1>1, <1>2, <1>3 DEF RedisInv, WaitingAgrees
  <2>3. \A l, m \in Some(scores)' : scores'[l] = scores'[m] => l = m
    <3>1. \A l \in Some(scores)' : l \in Some(scores) /\ l \in Keys \ {k}
      BY <1>2 DEF Some
    <3> QED BY <1>2, <3>1 DEF RedisInv, WaitingAgrees
  <2>4. Some(pending)' \intersect Some(inFlight)' = {}
    BY <1>2 DEF RedisInv, WaitingAgrees
  <2> QED BY <2>1, <2>2, <2>3, <2>4 DEF WaitingAgrees
<1>8. OneWorker'
  <2>1. \A d \in Clients, l \in Keys : WorksOn(d, l) => l \in Some(inFlight) /\ l # k
    BY <1>3 DEF RedisInv, OneWorker
  <2>2. \A d \in Clients \ {c}, l \in Keys : WorksOn(d, l)' <=> WorksOn(d, l)
    BY <1>1 DEF WorksOn
  <2>3. \A l \in Keys : WorksOn(c, l)' <=> l = k
    BY <1>1 DEF WorksOn
  <2>4. leases' \subseteq Some(inFlight)'
    BY <1>1, <1>2 DEF RedisInv, OneWorker
  <2>5. ASSUME NEW d \in Clients, NEW l \in Keys, WorksOn(d, l)'
        PROVE  l \in Some(inFlight)' /\ \A e \in Clients \ {d} : ~WorksOn(e, l)'
    <3>1. CASE d = c
      BY <1>2, <2>1, <2>2, <2>3, <2>5, <3>1
    <3>2. CASE d # c
      <4>1. WorksOn(d, l) /\ l # k /\ l \in Some(inFlight)
        BY <2>1, <2>2, <2>5, <3>2
      <4>2. \A e \in Clients \ {d} : ~WorksOn(e, l)
        BY <4>1 DEF RedisInv, OneWorker
      <4> QED BY <1>2, <2>2, <2>3, <4>1, <4>2
    <3> QED BY <3>1, <3>2
  <2> QED BY <2>4, <2>5 DEF OneWorker
<1> QED BY <1>4, <1>5, <1>6, <1>7, <1>8 DEF RedisInv

\* A client's own step that ends what it does: it leases the key it popped, gives it back,
\* or dies.
LEMMA OwnMoves ==
  ASSUME RedisInv, NEW c \in Clients, DequeueLease(c) \/ Mark(c) \/ FailRequeue(c) \/ Die(c)
  PROVE  /\ client' \in [Clients -> ClientRecords]
         /\ \A d \in Clients \ {c} : client'[d] = client[d]
         /\ client'[c].at \in {"idle", "holding", "requeue"}
         /\ client'[c].at # "idle" => /\ client[c].at \in {"lease", "holding"}
                                      /\ client'[c].key = client[c].key
                                      /\ client'[c].rank = client[c].rank
         /\ UNCHANGED <<sequence, pending, scores>>
<1>1. client[c] \in ClientRecords /\ Idle \in ClientRecords /\ Idle.at = "idle"
  BY DEF RedisInv, QueueTypes, Idle, ClientRecords, ClientPoints
<1>2. UNCHANGED <<sequence, pending, scores>>
  BY DEF DequeueLease, Mark, FailRequeue, Release, Die, redis
<1>3. CASE Mark(c) \/ Die(c)
  <2>1. client' = [client EXCEPT ![c] = Idle]
    BY <1>3 DEF Mark, Die
  <2> QED BY <1>1, <1>2, <2>1, ClientMoves DEF RedisInv
<1>4. CASE DequeueLease(c) \/ FailRequeue(c)
  <2>1. PICK at \in {"holding", "requeue"} :
          client' = [client EXCEPT ![c] = [client[c] EXCEPT !.at = at]]
    BY <1>4 DEF DequeueLease, FailRequeue
  <2>2. PICK w : w = [client[c] EXCEPT !.at = at]
    OBVIOUS
  <2>3. w \in ClientRecords /\ w.at = at /\ w.key = client[c].key /\ w.rank = client[c].rank
    BY <1>1, <2>2 DEF ClientRecords, ClientPoints
  <2>4. /\ client'[c] = w /\ \A d \in Clients \ {c} : client'[d] = client[d]
        /\ client' \in [Clients -> ClientRecords]
    BY <2>1, <2>2, <2>3, ClientMoves DEF RedisInv
  <2>5. client[c].at \in {"lease", "holding"}
    BY <1>4 DEF DequeueLease, FailRequeue, Release
  <2> QED BY <1>2, <2>3, <2>4, <2>5
<1> QED BY <1>3, <1>4

\* A lease is taken on a key in flight.  A key given back was worked on by its client
\* alone.  A client that dies leaves its key in flight.
LEMMA InvOwn ==
  ASSUME RedisInv, NEW c \in Clients, DequeueLease(c) \/ Mark(c) \/ FailRequeue(c) \/ Die(c)
  PROVE  RedisInv'
<1>1. /\ client' \in [Clients -> ClientRecords]
      /\ \A d \in Clients \ {c} : client'[d] = client[d]
      /\ client'[c].at \in {"idle", "holding", "requeue"}
      /\ client'[c].at # "idle" => /\ client[c].at \in {"lease", "holding"}
                                   /\ client'[c].key = client[c].key
                                   /\ client'[c].rank = client[c].rank
      /\ UNCHANGED <<sequence, pending, scores>>
  BY OwnMoves
<1>2. \A d \in Clients : ClientOK(d)'
  BY <1>1 DEF RedisInv, ClientOK
<1>3. PICK k : k = client[c].key
  OBVIOUS
<1>4. client[c].at \in {"lease", "holding"} => k \in Some(inFlight) /\ k \in Keys
  BY <1>3 DEF RedisInv, OneWorker, ClientOK, WorksOn
<1>5. CASE DequeueLease(c) \/ Die(c)
  <2>1. inFlight' = inFlight /\ leases' \subseteq leases \union Some(inFlight)
    BY <1>3, <1>4, <1>5 DEF DequeueLease, Die, redis
  <2>2. Some(inFlight)' = Some(inFlight) /\ Some(inFlight) \subseteq Keys
    BY <2>1 DEF Some
  <2>3. QueueTypes'
    BY <1>1, <2>1, <2>2 DEF RedisInv, QueueTypes
  <2>4. TicketsOnce' /\ WaitingAgrees'
    BY <1>1, <2>1, LineKept DEF RedisInv, WaitingAgrees
  <2>5. OneWorker'
    <3>1. \A d \in Clients, l \in Keys : WorksOn(d, l)' => WorksOn(d, l)
      BY <1>1 DEF WorksOn
    <3>2. leases \subseteq Some(inFlight)
      BY DEF RedisInv, OneWorker
    <3> QED BY <2>1, <2>2, <3>1, <3>2 DEF RedisInv, OneWorker
  <2> QED BY <1>2, <2>3, <2>4, <2>5 DEF RedisInv
<1>6. CASE Mark(c) \/ FailRequeue(c)
  <2>1. /\ client[c].at = "holding" /\ client'[c].at \in {"idle", "requeue"}
        /\ inFlight' = [inFlight EXCEPT ![k] = Nobody] /\ leases' = leases \ {k}
    <3>1. Release(c)
      BY <1>6 DEF Mark, FailRequeue
    <3>2. client'[c].at \in {"idle", "requeue"}
      BY <1>6 DEF Mark, FailRequeue, Idle, RedisInv, QueueTypes, ClientRecords
    <3> QED BY <1>3, <3>1, <3>2 DEF Release
  <2>2. Some(inFlight)' = Some(inFlight) \ {k} /\ inFlight' \in [Keys -> Ranks \union {Nobody}]
    BY <1>4, <2>1 DEF Some, RedisInv, QueueTypes
  <2>3. QueueTypes'
    BY <1>1, <2>1, <2>2 DEF RedisInv, QueueTypes
  <2>4. TicketsOnce' /\ WaitingAgrees'
    <3>1. Some(inFlight') = Some(inFlight) \ {k}
      BY <2>2 DEF Some
    <3>2. Some(pending) \intersect Some(inFlight') = {}
      BY <3>1 DEF RedisInv, WaitingAgrees
    <3> QED BY <1>1, <2>1, <3>2, LineKept
  <2>5. OneWorker'
    <3>1. \A d \in Clients, l \in Keys : WorksOn(d, l)' => d # c /\ WorksOn(d, l)
      BY <1>1, <2>1 DEF WorksOn
    <3>2. \A d \in Clients \ {c} : ~WorksOn(d, k)
      BY <1>3, <1>4, <2>1 DEF RedisInv, OneWorker, WorksOn
    <3> QED BY <2>1, <2>2, <3>1, <3>2 DEF RedisInv, OneWorker
  <2> QED BY <1>2, <2>3, <2>4, <2>5 DEF RedisInv
<1> QED BY <1>5, <1>6

\* Whichever command comes next, from whichever client.
LEMMA InvStep == RedisInv /\ [Next]_vars => RedisInv'
<1> SUFFICES ASSUME RedisInv, [Next]_vars PROVE RedisInv'
  OBVIOUS
<1>1. CASE UNCHANGED vars
  BY <1>1 DEF vars, redis, RedisInv, QueueTypes, ClientOK, TicketsOnce, Place, WaitingAgrees,
              OneWorker, WorksOn, Some
<1>2. ASSUME NEW k \in Keys, LeaseExpires(k) PROVE RedisInv'
  BY <1>2 DEF LeaseExpires, RedisInv, QueueTypes, ClientOK, TicketsOnce, Place, WaitingAgrees,
              OneWorker, WorksOn, Some
<1>3. ASSUME NEW c \in Clients, NEW k \in Keys, NEW r \in Ranks, EnqueueDraw(c, k, r)
      PROVE  RedisInv'
  BY <1>3, InvDraw DEF EnqueueDraw, Idle
<1>4. ASSUME NEW c \in Clients, RequeueDraw(c) PROVE RedisInv'
  <2>1. client[c].key \in Keys /\ client[c].rank \in Ranks
    BY <1>4 DEF RequeueDraw, RedisInv, ClientOK
  <2> QED BY <1>4, <2>1, InvDraw DEF RequeueDraw
<1> QED BY <1>1, <1>2, <1>3, <1>4, InvPush, InvPop, InvOwn DEF Next, ClientStep, DequeueNone

\* The invariant of the commands on the queue.
LEMMA Invariance == Spec => []RedisInv
BY InvInit, InvStep, PTL DEF Spec

\* WaitingAgrees: hash and sorted set have the same members, no two with one score, so
\* that no accepted key is lost and dequeue answers None only when nothing waits.
THEOREM WaitingAgreesAlways == Spec => []WaitingAgrees
BY Invariance, PTL DEF RedisInv

\* OneWorker: no two clients work on one key, though any client may die, and every key
\* that is worked on or leased is in flight.
THEOREM OneWorkerAlways == Spec => []OneWorker
BY Invariance, PTL DEF RedisInv

\* NewcomersBehind: a ticket is drawn behind every key of its rank that is in line.
THEOREM NewcomersAlwaysBehind == Spec => NewcomersBehind
<1>1. RedisInv /\ [Next]_vars =>
        [\A c \in Clients : client'[c].at = "push" /\ client[c].at # "push" =>
           \A k \in Some(pending) : pending[k] = client'[c].rank =>
             scores[k] < Score(client'[c].rank, client'[c].ticket)]_vars
  <2> SUFFICES ASSUME RedisInv, Next, NEW c \in Clients,
                      client'[c].at = "push", client[c].at # "push",
                      NEW k \in Some(pending), pending[k] = client'[c].rank
               PROVE  scores[k] < Score(client'[c].rank, client'[c].ticket)
    OBVIOUS
  <2>1. client'[c] # client[c]
    OBVIOUS
  <2>2. PICK d \in Clients : ClientStep(d)
    BY <2>1 DEF Next, LeaseExpires
  <2>3. ~(DequeueLease(d) \/ Mark(d) \/ FailRequeue(d) \/ Die(d))
    BY <2>1, OwnMoves
  <2>4. ~EnqueuePush(d)
    BY <2>1, PushMoves DEF Idle
  <2>5. ~DequeuePop(d)
    <3> SUFFICES ASSUME DequeuePop(d) PROVE FALSE
      OBVIOUS
    <3>1. PICK w : w.at = "lease" /\ client'[d] = w /\ \A e \in Clients \ {d} : client'[e] = client[e]
      BY PopMoves
    <3> QED BY <2>1, <3>1
  <2>6. PICK i \in Keys, r \in Ranks : Draw(d, i, r)
    BY <2>1, <2>2, <2>3, <2>4, <2>5 DEF ClientStep, EnqueueDraw, RequeueDraw, DequeueNone, vars,
                                        RedisInv, ClientOK
  <2>7. client'[c].ticket = sequence + 1
    <3>1. client' = [client EXCEPT ![d] = [at |-> "push", key |-> i, rank |-> r,
                                           ticket |-> sequence + 1]]
      BY <2>6 DEF Draw, Goes
    <3> QED BY <2>1, <3>1 DEF RedisInv, QueueTypes
  <2>8. /\ pending[k] \in Nat /\ Place(k) \in 1..sequence /\ Place(k) \in Nat
        /\ scores[k] = Score(pending[k], Place(k))
    BY LinePlaces
  <2>9. sequence + 1 \in Nat /\ Place(k) < sequence + 1
    BY <2>8 DEF RedisInv, QueueTypes
  <2>10. Score(pending[k], Place(k)) < Score(pending[k], sequence + 1)
    BY <2>8, <2>9, ScoreTicket
  <2> QED BY <2>7, <2>8, <2>10
<1> QED BY <1>1, Invariance, PTL DEF Spec, NewcomersBehind

----------------------------------------------------------------------------
(* The Redis queue implements the port. *)

\* Those in line are those of the pending hash.
LEMMA PortWaiting ==
  ASSUME RedisInv
  PROVE  Port!Waiting = Some(pending)
<1>1. ASSUME NEW k \in Keys PROVE Line[k] # Nobody <=> k \in Some(pending)
  <2>1. CASE k \in Some(pending)
    BY <2>1, LinePlaces
  <2>2. CASE k \notin Some(pending)
    BY <2>2 DEF Line
  <2> QED BY <2>1, <2>2
<1> QED BY <1>1 DEF Port!Waiting, Some

\* The line is a function of the hash and the sorted set.
LEMMA LineMoves ==
  ASSUME NEW l \in Keys, pending'[l] = pending[l], scores'[l] = scores[l]
  PROVE  Line'[l] = Line[l]
BY DEF Line, Some

\* The enqueue script is the port's enqueue, at the place the client drew: free, and
\* possibly before a key of the same rank that was pushed earlier.
LEMMA PortPush ==
  ASSUME RedisInv, NEW c \in Clients, EnqueuePush(c)
  PROVE  (\E k \in Keys : Port!Enqueue(k)) \/ UNCHANGED <<Line, Some(inFlight)>>
<1>1. PICK k \in Keys, r \in Ranks, t \in 1..sequence :
        k = client[c].key /\ r = client[c].rank /\ t = client[c].ticket
  BY PushMoves
<1>2. /\ client[c].at = "push" /\ inFlight' = inFlight
      /\ \/ UNCHANGED <<pending, scores>>
         \/ /\ k \notin Some(pending) \union Some(inFlight)
            /\ pending' = [pending EXCEPT ![k] = r]
            /\ scores' = [scores EXCEPT ![k] = Score(r, t)]
  BY <1>1, PushMoves
<1>3. CASE UNCHANGED <<pending, scores>>
  BY <1>2, <1>3 DEF Line, Some
<1>4. CASE /\ k \notin Some(pending) \union Some(inFlight)
           /\ pending' = [pending EXCEPT ![k] = r]
           /\ scores' = [scores EXCEPT ![k] = Score(r, t)]
  <2>1. /\ pending'[k] = r /\ Place(k)' = t /\ Some(pending)' = Some(pending) \union {k}
        /\ \A l \in Keys \ {k} : pending'[l] = pending[l] /\ scores'[l] = scores[l]
    BY <1>4, PushPlaces
  <2>2. Line'[k] = [rank |-> r, place |-> t]
    BY <2>1 DEF Line, Place
  <2>3. \A l \in Keys \ {k} : Line'[l] = Line[l]
    BY <2>1, LineMoves
  <2>4. Line' = Port!Lined(k, r, t)
    BY <2>2, <2>3 DEF Line, Port!Lined
  <2>5. Port!FreePlace(t)
    <3>1. \A l \in Some(pending) : Line[l].place = Place(l) /\ Place(l) # t
      BY <1>1, <1>2, LinePlaces DEF RedisInv, TicketsOnce
    <3> QED BY <3>1, PortWaiting DEF Port!FreePlace
  <2>6. t \in 1..MaxSequence
    BY QueueAssumption DEF RedisInv, QueueTypes
  <2>7. Some(inFlight)' = Some(inFlight)
    BY <1>2 DEF Some
  <2> QED BY <1>4, <2>4, <2>5, <2>6, <2>7, PortWaiting DEF Port!Enqueue
<1> QED BY <1>2, <1>3, <1>4

\* The dequeue script hands out the first of the best rank.
LEMMA PortPop ==
  ASSUME RedisInv, NEW c \in Clients, DequeuePop(c)
  PROVE  \E k \in Keys : Port!Dequeue(k)
<1>1. PICK k \in Some(pending) :
        /\ First(k)
        /\ pending' = [pending EXCEPT ![k] = Nobody] /\ scores' = [scores EXCEPT ![k] = Nobody]
        /\ inFlight' = [inFlight EXCEPT ![k] = pending[k]]
  BY PopMoves
<1>2. /\ k \in Keys /\ Some(pending)' = Some(pending) \ {k}
      /\ Some(inFlight)' = Some(inFlight) \union {k}
      /\ \A l \in Keys \ {k} : pending'[l] = pending[l] /\ scores'[l] = scores[l]
  BY <1>1, PopPlaces, LinePlaces
<1>3. Line'[k] = Nobody
  BY <1>2 DEF Line
<1>4. \A l \in Keys \ {k} : Line'[l] = Line[l]
  BY <1>2, LineMoves
<1>5. Line' = [Line EXCEPT ![k] = Nobody]
  BY <1>3, <1>4 DEF Line
<1>6. \A l \in Some(pending) \ {k} : Port!Ahead(Line[k], Line[l])
  <2>1. \A l \in Some(pending) \ {k} : scores[k] < scores[l]
    BY <1>1 DEF First, RedisInv, WaitingAgrees
  <2> QED BY <2>1, LineOrder
<1>7. Port!Dequeue(k)
  BY <1>2, <1>5, <1>6, PortWaiting DEF Port!Dequeue
<1> QED BY <1>2, <1>7

\* mark_completed and mark_failed release a key that is held.
LEMMA PortRelease ==
  ASSUME RedisInv, NEW c \in Clients, Release(c)
  PROVE  \E k \in Keys : Port!Release(k)
<1>1. PICK k : k = client[c].key
  OBVIOUS
<1>2. k \in Keys /\ k \in Some(inFlight)
  BY <1>1 DEF Release, RedisInv, ClientOK, OneWorker, WorksOn
<1>3. inFlight' = [inFlight EXCEPT ![k] = Nobody]
  BY <1>1 DEF Release
<1>4. Some(inFlight)' = Some(inFlight) \ {k}
  BY <1>2, <1>3 DEF Some, RedisInv, QueueTypes
<1>5. Line' = Line
  BY DEF Release, Line, Some
<1> QED BY <1>2, <1>4, <1>5 DEF Port!Release

\* Every command is a step of the port, or changes nothing it shows.
LEMMA PortStep == RedisInv /\ [Next]_vars => [Port!Next]_<<Line, Some(inFlight)>>
<1> SUFFICES ASSUME RedisInv, [Next]_vars
             PROVE  Port!Next \/ UNCHANGED <<Line, Some(inFlight)>>
  OBVIOUS
<1>1. CASE UNCHANGED <<pending, scores, inFlight>>
  BY <1>1 DEF Line, Some
<1>2. UNCHANGED vars => UNCHANGED <<pending, scores, inFlight>>
  BY DEF vars, redis
<1>3. ASSUME NEW k \in Keys, LeaseExpires(k) PROVE UNCHANGED <<pending, scores, inFlight>>
  BY <1>3 DEF LeaseExpires
<1>4. ASSUME NEW c \in Clients,
             \/ \E k \in Keys, r \in Ranks : EnqueueDraw(c, k, r)
             \/ RequeueDraw(c) \/ DequeueNone(c) \/ DequeueLease(c) \/ Die(c)
      PROVE  UNCHANGED <<pending, scores, inFlight>>
  BY <1>4 DEF EnqueueDraw, RequeueDraw, Draw, DequeueNone, DequeueLease, Die, vars, redis
<1>5. ASSUME NEW c \in Clients, EnqueuePush(c)
      PROVE  Port!Next \/ UNCHANGED <<Line, Some(inFlight)>>
  BY <1>5, PortPush DEF Port!Next
<1>6. ASSUME NEW c \in Clients, DequeuePop(c) PROVE Port!Next
  BY <1>6, PortPop DEF Port!Next
<1>7. ASSUME NEW c \in Clients, Mark(c) \/ FailRequeue(c) PROVE Port!Next
  BY <1>7, PortRelease DEF Mark, FailRequeue, Port!Next
<1> QED BY <1>1, <1>2, <1>3, <1>4, <1>5, <1>6, <1>7 DEF Next, ClientStep

\* ImplementsPort: whatever its clients do between two commands, the Redis queue is a
\* ForecastQueue: no key waits or is held twice, and what comes out is of the best rank.
THEOREM PortImplemented == Spec => ImplementsPort
<1>1. Init => Port!Init
  BY DEF Init, Port!Init, Line, Some
<1> QED BY <1>1, Invariance, PortStep, PTL DEF Spec, Port!Spec, ImplementsPort
====
