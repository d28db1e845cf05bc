---- MODULE MemoryQueueProofs ----
(***************************************************************************)
(* The in-memory queue keeps its two structures in agreement and is a      *)
(* first-in-first-out ForecastQueue, for any number of workers, keys and   *)
(* enqueues.                                                               *)
(***************************************************************************)
EXTENDS MemoryQueue, TLAPS

QueueTypes ==
  /\ entries \in SUBSET Entry
  /\ queued \in [Keys -> Ranks \union {Nobody}]
  /\ inFlight \in [Keys -> Ranks \union {Nobody}]
  /\ sequence \in 0..MaxSequence
  /\ item \in [Clients -> Keys \union {Nobody}]

\* Sequence numbers were drawn from the counter, one for each entry.
Drawn == /\ \A e \in entries : e.sequence < sequence
         /\ \A e, f \in entries : e.sequence = f.sequence => e = f

\* What a client holds is in flight, and nobody else holds it.
ItemsInFlight ==
  /\ \A c \in Clients : item[c] # Nobody => item[c] \in InFlight
  /\ \A c, d \in Clients : item[c] # Nobody /\ item[c] = item[d] => c = d

QueueInv == QueueTypes /\ Drawn /\ ItemsInFlight /\ HeapMatchesQueued

----------------------------------------------------------------------------
\* Popping up to the earliest entry, all entries being live, removes that entry only.
LEMMA PopOne ==
  ASSUME QueueInv, NEW e \in entries,
         \A f \in entries : Live(f) /\ f # e => Earlier(e, f)
  PROVE  {f \in entries : Earlier(e, f)} = entries \ {e}
  <1>1. \A f \in entries : f.rank \in Nat /\ f.sequence \in Nat
    <2>1. \A f \in Entry : f.rank \in Ranks /\ f.sequence \in 0..MaxSequence
      BY DEF Entry
    <2>2. entries \subseteq Entry
      BY DEF QueueInv, QueueTypes
    <2>3. Ranks \subseteq Nat /\ 0..MaxSequence \subseteq Nat
      BY QueueAssumption
    <2> QED BY <2>1, <2>2, <2>3
  <1>2. ~Earlier(e, e)
    BY <1>1 DEF Earlier
  <1>3. \A f \in entries : Live(f)
    BY DEF QueueInv, HeapMatchesQueued
  <1> QED BY <1>2, <1>3

\* The body of enqueue keeps the structures in agreement when it is given the keys
\* that are in flight afterwards.
LEMMA PushKeeps ==
  ASSUME QueueInv, NEW k \in Keys, NEW r \in Ranks,
         inFlight' \in [Keys -> Ranks \union {Nobody}],
         InFlight' \subseteq InFlight,
         Push(k, r, InFlight')
  PROVE  /\ QueueTypes' <=> (item \in [Clients -> Keys \union {Nobody}])'
         /\ Drawn' /\ HeapMatchesQueued'
  <1> USE DEF QueueInv, QueueTypes
  <1>1. CASE k \in Queued \union InFlight'
    <2>1. UNCHANGED <<entries, queued, sequence>>
      BY <1>1 DEF Push
    <2> QED BY <2>1 DEF Drawn, HeapMatchesQueued, Live, Queued
  <1>2. CASE k \notin Queued \union InFlight'
    <2> DEFINE new == [rank |-> r, sequence |-> sequence, key |-> k]
    <2>1. /\ sequence < MaxSequence
          /\ entries' = entries \union {new}
          /\ queued' = [queued EXCEPT ![k] = r]
          /\ sequence' = sequence + 1
      BY <1>2 DEF Push
    <2>2. /\ r # Nobody /\ r \in Nat /\ sequence \in Nat /\ MaxSequence \in Nat
          /\ \A e \in entries : e.sequence \in Nat /\ e.key \in Keys
      BY QueueAssumption DEF Entry
    <2>3. new \in Entry
      BY <2>1, <2>2 DEF Entry
    <2>4. new.rank = r /\ new.sequence = sequence /\ new.key = k
      OBVIOUS
    <2>5. /\ entries' \in SUBSET Entry /\ queued' \in [Keys -> Ranks \union {Nobody}]
          /\ sequence' \in 0..MaxSequence
      <3>1. sequence' \in 0..MaxSequence
        BY <2>1, <2>2
      <3> QED BY <2>1, <2>3, <3>1
    <2>6. \A e \in entries : e.key # k
      <3>1. queued[k] = Nobody
        BY <1>2 DEF Queued
      <3> SUFFICES ASSUME NEW e \in entries, e.key = k PROVE FALSE
        OBVIOUS
      <3>2. e.rank = Nobody
        BY <3>1 DEF HeapMatchesQueued, Live
      <3> QED BY <3>2, QueueAssumption DEF Entry
    <2>7. Drawn'
      <3> HIDE DEF new
      <3>1. \A e \in entries : e.sequence < sequence
        BY DEF Drawn
      <3>2. \A e \in entries' : e.sequence < sequence'
        BY <2>1, <2>2, <2>4, <3>1
      <3>3. \A e, f \in entries' : e.sequence = f.sequence => e = f
        BY <2>1, <2>2, <2>4, <3>1 DEF Drawn
      <3> QED BY <3>2, <3>3 DEF Drawn
    <2>8. Queued' = Queued \union {k}
      BY <2>1, <2>2 DEF Queued
    <2>9. HeapMatchesQueued'
      <3> HIDE DEF new
      <3>1. (\A e \in entries : Live(e))'
        BY <2>1, <2>2, <2>4, <2>6 DEF HeapMatchesQueued, Live
      <3>2. (\A l \in Queued : \E e \in entries : e.key = l)'
        <4> SUFFICES ASSUME NEW l \in Queued' PROVE \E e \in entries' : e.key = l
          OBVIOUS
        <4>1. CASE l = k
          BY <4>1, <2>1, <2>4
        <4>2. CASE l # k
          BY <4>2, <2>1, <2>8 DEF HeapMatchesQueued
        <4> QED BY <4>1, <4>2
      <3>3. (\A e, f \in entries : e.key = f.key => e = f)'
        BY <2>1, <2>4, <2>6 DEF HeapMatchesQueued
      <3>4. (Queued \intersect InFlight = {})'
        BY <1>2, <2>8 DEF HeapMatchesQueued
      <3> QED BY <3>1, <3>2, <3>3, <3>4 DEF HeapMatchesQueued
    <2> QED BY <2>5, <2>7, <2>9
  <1> QED BY <1>1, <1>2

\* The queue starts empty, its structures in agreement.
LEMMA InvInit == Init => QueueInv
  <1> SUFFICES ASSUME Init PROVE QueueInv
    OBVIOUS
  <1>1. QueueTypes
    BY QueueAssumption DEF Init, QueueTypes
  <1>2. Drawn /\ ItemsInFlight
    BY DEF Init, Drawn, ItemsInFlight
  <1>3. HeapMatchesQueued
    BY DEF Init, HeapMatchesQueued, Queued, InFlight
  <1> QED BY <1>1, <1>2, <1>3 DEF QueueInv

\* enqueue keeps the structures in agreement.
LEMMA InvEnqueue ==
  ASSUME QueueInv, NEW k \in Keys, NEW r \in Ranks, Enqueue(k, r)
  PROVE  QueueInv'
  <1>1. inFlight' = inFlight /\ item' = item /\ InFlight' = InFlight
    BY DEF Enqueue, InFlight
  <1>2. Push(k, r, InFlight')
    BY <1>1 DEF Enqueue
  <1>3. QueueTypes' /\ Drawn' /\ HeapMatchesQueued'
    BY <1>1, <1>2, PushKeeps DEF QueueInv, QueueTypes
  <1>4. ItemsInFlight'
    BY <1>1 DEF QueueInv, ItemsInFlight
  <1> QED BY <1>3, <1>4 DEF QueueInv

\* dequeue takes the earliest live entry out of both structures and holds its key.
LEMMA InvDequeue ==
  ASSUME QueueInv, NEW c \in Clients, Dequeue(c)
  PROVE  QueueInv'
  <1> USE DEF QueueInv, QueueTypes
  <1>1. PICK e \in entries :
          /\ Live(e)
          /\ \A f \in entries : Live(f) /\ f # e => Earlier(e, f)
          /\ entries' = {f \in entries : Earlier(e, f)}
          /\ queued' = [queued EXCEPT ![e.key] = Nobody]
          /\ inFlight' = [inFlight EXCEPT ![e.key] = e.rank]
          /\ item' = [item EXCEPT ![c] = e.key]
    BY DEF Dequeue
  <1>2. entries' = entries \ {e} /\ sequence' = sequence
    BY <1>1, PopOne DEF Dequeue
  <1>3. e.key \in Keys /\ e.rank \in Ranks /\ e.rank # Nobody /\ e.key # Nobody
    BY QueueAssumption DEF Entry
  <1>4. QueueTypes'
    BY <1>1, <1>2, <1>3
  <1>5. Drawn'
    BY <1>2 DEF Drawn
  <1>6. e.key \in Queued /\ Queued' = Queued \ {e.key} /\ InFlight' = InFlight \union {e.key}
    BY <1>1, <1>3 DEF Queued, InFlight, Live
  <1>7. ItemsInFlight'
    <2>1. \A d \in Clients : item[d] # e.key
      BY <1>3, <1>6 DEF ItemsInFlight, HeapMatchesQueued
    <2> QED BY <1>1, <1>3, <1>6, <2>1 DEF ItemsInFlight
  <1>8. HeapMatchesQueued'
    <2>1. \A f \in entries' : f.key # e.key
      BY <1>2 DEF HeapMatchesQueued
    <2>2. (\A f \in entries : Live(f))'
      BY <1>1, <1>2, <2>1 DEF HeapMatchesQueued, Live, Entry
    <2>3. (\A k \in Queued : \E f \in entries : f.key = k)'
      BY <1>2, <1>6 DEF HeapMatchesQueued
    <2>4. (\A f, g \in entries : f.key = g.key => f = g)'
      BY <1>2 DEF HeapMatchesQueued
    <2>5. (Queued \intersect InFlight = {})'
      BY <1>6 DEF HeapMatchesQueued
    <2> QED BY <2>2, <2>3, <2>4, <2>5 DEF HeapMatchesQueued
  <1> QED BY <1>4, <1>5, <1>7, <1>8

\* mark_completed, mark_failed: the key of the client leaves the items in flight.
LEMMA ReleaseFacts ==
  ASSUME QueueInv, NEW c \in Clients, item[c] # Nobody,
         inFlight' = [inFlight EXCEPT ![item[c]] = Nobody],
         item' = [item EXCEPT ![c] = Nobody]
  PROVE  /\ item[c] \in Keys /\ inFlight[item[c]] \in Ranks
         /\ inFlight' \in [Keys -> Ranks \union {Nobody}]
         /\ item' \in [Clients -> Keys \union {Nobody}]
         /\ InFlight' = InFlight \ {item[c]}
         /\ ItemsInFlight'
  <1> USE DEF QueueInv, QueueTypes
  <1>1. item[c] \in Keys /\ item[c] \in InFlight
    BY DEF ItemsInFlight
  <1>2. inFlight[item[c]] \in Ranks
    BY <1>1 DEF InFlight
  <1>3. /\ inFlight' \in [Keys -> Ranks \union {Nobody}]
        /\ item' \in [Clients -> Keys \union {Nobody}]
        /\ InFlight' = InFlight \ {item[c]}
    BY <1>1 DEF InFlight
  <1>4. ItemsInFlight'
    BY <1>1, <1>3 DEF ItemsInFlight
  <1> QED BY <1>1, <1>2, <1>3, <1>4

\* mark_completed forgets the key its caller holds, and nothing else.
LEMMA InvMarkCompleted ==
  ASSUME QueueInv, NEW c \in Clients, MarkCompleted(c)
  PROVE  QueueInv'
  <1>1. /\ UNCHANGED <<entries, queued, sequence>>
        /\ item[c] # Nobody
        /\ inFlight' = [inFlight EXCEPT ![item[c]] = Nobody]
        /\ item' = [item EXCEPT ![c] = Nobody]
    BY DEF MarkCompleted
  <1>2. /\ inFlight' \in [Keys -> Ranks \union {Nobody}]
        /\ item' \in [Clients -> Keys \union {Nobody}]
        /\ InFlight' = InFlight \ {item[c]} /\ ItemsInFlight'
    BY <1>1, ReleaseFacts
  <1>3. QueueTypes' /\ Drawn'
    BY <1>1, <1>2 DEF QueueInv, QueueTypes, Drawn
  <1>4. HeapMatchesQueued'
    BY <1>1, <1>2 DEF QueueInv, HeapMatchesQueued, Queued, Live
  <1> QED BY <1>2, <1>3, <1>4 DEF QueueInv

\* mark_failed releases the key and puts it in line again under a new sequence number.
LEMMA InvMarkFailed ==
  ASSUME QueueInv, NEW c \in Clients, MarkFailedRequeue(c)
  PROVE  QueueInv'
  <1>1. /\ item[c] # Nobody
        /\ inFlight' = [inFlight EXCEPT ![item[c]] = Nobody]
        /\ item' = [item EXCEPT ![c] = Nobody]
        /\ Push(item[c], inFlight[item[c]], InFlight \ {item[c]})
    BY DEF MarkFailedRequeue
  <1>2. /\ item[c] \in Keys /\ inFlight[item[c]] \in Ranks
        /\ inFlight' \in [Keys -> Ranks \union {Nobody}]
        /\ item' \in [Clients -> Keys \union {Nobody}]
        /\ InFlight' = InFlight \ {item[c]} /\ ItemsInFlight'
    BY <1>1, ReleaseFacts
  <1>3. Push(item[c], inFlight[item[c]], InFlight')
    BY <1>1, <1>2
  <1>4. QueueTypes' /\ Drawn' /\ HeapMatchesQueued'
    BY <1>2, <1>3, PushKeeps
  <1> QED BY <1>2, <1>4 DEF QueueInv

\* The structures of the in-memory queue agree in every reachable state (enqueue,
\* dequeue, mark_completed and mark_failed of InMemoryPriorityForecastQueue).
LEMMA Invariance == Spec => []QueueInv
  <1>1. QueueInv /\ [Next]_vars => QueueInv'
    <2> SUFFICES ASSUME QueueInv, [Next]_vars PROVE QueueInv'
      OBVIOUS
    <2>1. CASE UNCHANGED vars
      BY <2>1 DEF vars, QueueInv, QueueTypes, Drawn, ItemsInFlight, HeapMatchesQueued,
                  Queued, InFlight, Live
    <2>2. ASSUME NEW k \in Keys, NEW r \in Ranks, Enqueue(k, r) PROVE QueueInv'
      BY <2>2, InvEnqueue
    <2>3. ASSUME NEW c \in Clients, DequeueNone(c) PROVE QueueInv'
      <3>1. entries = {}
        BY <2>3 DEF QueueInv, HeapMatchesQueued, DequeueNone
      <3>2. entries' = entries /\ UNCHANGED <<queued, inFlight, sequence, item>>
        BY <2>3, <3>1 DEF DequeueNone
      <3> QED BY <3>2 DEF QueueInv, QueueTypes, Drawn, ItemsInFlight,
                          HeapMatchesQueued, Queued, InFlight, Live
    <2>4. ASSUME NEW c \in Clients, Abandon(c) PROVE QueueInv'
      <3>1. UNCHANGED <<entries, queued, inFlight, sequence>>
            /\ item' = [item EXCEPT ![c] = Nobody]
        BY <2>4 DEF Abandon
      <3>2. QueueTypes' /\ ItemsInFlight'
        BY <3>1 DEF QueueInv, QueueTypes, ItemsInFlight, InFlight
      <3> QED BY <3>1, <3>2 DEF QueueInv, Drawn, HeapMatchesQueued, Queued, InFlight, Live
    <2> QED BY <2>1, <2>2, <2>3, <2>4, InvDequeue, InvMarkCompleted, InvMarkFailed DEF Next
  <1> QED BY <1>1, InvInit, PTL DEF Spec

\* The heap and the queued items of the in-memory queue always agree, so that dequeue
\* loses no accepted key and hands none out twice.
THEOREM HeapAgrees == Spec => []HeapMatchesQueued
  BY Invariance, PTL DEF QueueInv

----------------------------------------------------------------------------
(* The in-memory queue implements the port. *)

\* A key has one entry in the heap.
LEMMA TheEntry ==
  ASSUME HeapMatchesQueued, NEW e \in entries
  PROVE  EntryOf(e.key) = e
  BY DEF HeapMatchesQueued, EntryOf

\* The place of a waiting key is the sequence number of its entry.
LEMMA LinePlaces ==
  ASSUME QueueInv, NEW e \in entries
  PROVE  e.key \in Queued /\ Line[e.key] = [rank |-> e.rank, place |-> e.sequence]
  <1>1. e.key \in Keys /\ e.rank \in Ranks /\ e.rank # Nobody /\ queued[e.key] = e.rank
    BY QueueAssumption DEF QueueInv, QueueTypes, HeapMatchesQueued, Live, Entry
  <1>2. e.key \in Queued
    BY <1>1 DEF Queued
  <1>3. EntryOf(e.key) = e
    BY TheEntry DEF QueueInv
  <1> QED BY <1>1, <1>2, <1>3 DEF Line

\* Every waiting key stands where its heap entry says.
LEMMA InLine ==
  ASSUME QueueInv, NEW k \in Queued
  PROVE  \E e \in entries : e.key = k /\ Line[k] = [rank |-> e.rank, place |-> e.sequence]
  BY LinePlaces DEF QueueInv, HeapMatchesQueued

\* LinePlaces as an implication, to be used of the next state too.
LEMMA LinePlacesNext ==
  QueueInv' => (\A e \in entries : Line[e.key] = [rank |-> e.rank, place |-> e.sequence])'
  <1>1. QueueInv => \A e \in entries : Line[e.key] = [rank |-> e.rank, place |-> e.sequence]
    BY LinePlaces
  <1> QED BY <1>1, PTL

\* The port's waiting keys are the queued ones, and ranks and places are numbers.
LEMMA LineWaiting ==
  ASSUME QueueInv
  PROVE  /\ Port!Waiting = Queued
         /\ \A e \in entries : e.rank \in Nat /\ e.sequence \in Nat
  <1>1. \A e \in entries : e.rank \in Nat /\ e.sequence \in Nat
    <2>1. \A e \in Entry : e.rank \in Ranks /\ e.sequence \in 0..MaxSequence
      BY DEF Entry
    <2>2. entries \subseteq Entry
      BY DEF QueueInv, QueueTypes
    <2>3. Ranks \subseteq Nat /\ 0..MaxSequence \subseteq Nat
      BY QueueAssumption
    <2> QED BY <2>1, <2>2, <2>3
  <1>2. ASSUME NEW k \in Keys PROVE (Line[k] # Nobody) <=> (k \in Queued)
    <2>1. CASE k \in Queued
      <3>1. PICK e \in entries : Line[k] = [rank |-> e.rank, place |-> e.sequence]
        BY <2>1, InLine
      <3>2. Line[k] \in [rank : Nat, place : Nat]
        BY <3>1, <1>1
      <3> QED BY <3>2, <2>1, QueueAssumption
    <2>2. CASE k \notin Queued
      BY <2>2 DEF Line
    <2> QED BY <2>1, <2>2
  <1> QED BY <1>1, <1>2 DEF Port!Waiting, Queued

\* A key outside the line is pushed behind everybody of its rank; nothing else moves.
LEMMA PushLines ==
  ASSUME QueueInv, QueueInv', NEW k \in Keys, NEW r \in Ranks, NEW busy, Push(k, r, busy)
  PROVE  \/ Line' = Line
         \/ /\ k \notin Queued \union busy
            /\ \E p \in 0..MaxSequence :
                 Port!FreePlace(p) /\ Line' = Port!Lined(k, r, p)
  <1>1. CASE k \in Queued \union busy
    <2>1. UNCHANGED <<entries, queued, sequence>>
      BY <1>1 DEF Push
    <2>2. Line' = Line
      BY <2>1 DEF Line, Queued, EntryOf
    <2> QED BY <2>2
  <1>2. CASE k \notin Queued \union busy
    <2> DEFINE new == [rank |-> r, sequence |-> sequence, key |-> k]
    <2>1. /\ entries' = entries \union {new}
          /\ queued' = [queued EXCEPT ![k] = r]
      BY <1>2 DEF Push
    <2>2. /\ new.rank = r /\ new.sequence = sequence /\ new.key = k /\ new \in entries'
          /\ sequence \in 0..MaxSequence /\ sequence \in Nat /\ r # Nobody
      BY <2>1, QueueAssumption DEF QueueInv, QueueTypes
    <2> HIDE DEF new
    <2>3. Port!FreePlace(sequence)
      <3> SUFFICES ASSUME NEW l \in Queued PROVE Line[l].place < sequence
        BY LineWaiting, <2>2 DEF Port!FreePlace, QueueInv
      <3>1. PICK e \in entries : e.key = l /\ Line[l] = [rank |-> e.rank, place |-> e.sequence]
        BY InLine
      <3> QED BY <3>1 DEF QueueInv, Drawn
    <2>4. Line' = Port!Lined(k, r, sequence)
      <3>1. Line'[k] = [rank |-> r, place |-> sequence]
        <4>1. (\A e \in entries : Line[e.key] = [rank |-> e.rank, place |-> e.sequence])'
          BY LinePlacesNext
        <4> QED BY <4>1, <2>2
      <3>2. ASSUME NEW l \in Keys \ {k} PROVE Line'[l] = Line[l]
        <4>1. CASE l \in Queued
          <5>1. PICK e \in entries : e.key = l /\ Line[l] = [rank |-> e.rank, place |-> e.sequence]
            BY <4>1, InLine
          <5>2. (\A f \in entries : Line[f.key] = [rank |-> f.rank, place |-> f.sequence])'
            BY LinePlacesNext
          <5>3. e \in entries'
            BY <2>1
          <5> QED BY <5>1, <5>2, <5>3
        <4>2. CASE l \notin Queued
          BY <4>2, <2>1 DEF Line, Queued, QueueInv, QueueTypes
        <4> QED BY <4>1, <4>2
      <3> QED BY <3>1, <3>2 DEF Line, Port!Lined
    <2> QED BY <1>2, <2>2, <2>3, <2>4
  <1> QED BY <1>1, <1>2

\* The queue starts as the port does: nobody in line, nothing held.
LEMMA PortInit == Init => Port!Init
  BY DEF Init, Port!Init, Line, Queued, InFlight

\* enqueue puts the key at the back of its rank, or changes nothing.
LEMMA PortEnqueue ==
  ASSUME QueueInv, QueueInv', NEW k \in Keys, NEW r \in Ranks, Enqueue(k, r)
  PROVE  Port!Enqueue(k) \/ UNCHANGED <<Line, InFlight>>
  <1>1. Push(k, r, InFlight) /\ InFlight' = InFlight
    BY DEF Enqueue, InFlight
  <1>2. CASE Line' = Line
    BY <1>1, <1>2
  <1>3. ASSUME k \notin Queued \union InFlight,
               NEW p \in 0..MaxSequence, Port!FreePlace(p), Line' = Port!Lined(k, r, p)
        PROVE  Port!Enqueue(k)
    BY <1>1, <1>3, LineWaiting DEF Port!Enqueue
  <1> QED BY <1>1, <1>2, <1>3, PushLines

\* dequeue hands out the key at the front of the line.
LEMMA PortDequeue ==
  ASSUME QueueInv, QueueInv', NEW c \in Clients, Dequeue(c)
  PROVE  \E k \in Keys : Port!Dequeue(k)
  <1>1. PICK e \in entries :
          /\ Live(e)
          /\ \A f \in entries : Live(f) /\ f # e => Earlier(e, f)
          /\ entries' = {f \in entries : Earlier(e, f)}
          /\ queued' = [queued EXCEPT ![e.key] = Nobody]
          /\ inFlight' = [inFlight EXCEPT ![e.key] = e.rank]
    BY DEF Dequeue
  <1>2. entries' = entries \ {e}
    BY <1>1, PopOne
  <1>3. /\ e.key \in Keys /\ e.rank \in Ranks /\ e.rank # Nobody
        /\ e.key \in Queued /\ Line[e.key] = [rank |-> e.rank, place |-> e.sequence]
    <2>1. e \in Entry
      BY DEF QueueInv, QueueTypes
    <2>2. e.rank # Nobody
      BY <2>1, QueueAssumption DEF Entry
    <2> QED BY <2>1, <2>2, LinePlaces DEF Entry
  <1>4. ASSUME NEW l \in Port!Waiting \ {e.key} PROVE Port!Ahead(Line[e.key], Line[l])
    <2>1. PICK f \in entries : f.key = l /\ Line[l] = [rank |-> f.rank, place |-> f.sequence]
      BY LineWaiting, InLine
    <2>2. Earlier(e, f)
      BY <2>1, <1>1 DEF QueueInv, HeapMatchesQueued
    <2> QED BY <2>1, <2>2, <1>3 DEF Earlier, Port!Ahead
  <1>5. Line' = [Line EXCEPT ![e.key] = Nobody]
    <2>1. e.key \notin Queued'
      BY <1>1, <1>3 DEF Queued, QueueInv, QueueTypes
    <2>2. ASSUME NEW l \in Keys \ {e.key} PROVE Line'[l] = Line[l]
      <3>1. CASE l \in Queued
        <4>1. PICK f \in entries : f.key = l /\ Line[l] = [rank |-> f.rank, place |-> f.sequence]
          BY <3>1, InLine
        <4>2. f \in entries'
          BY <4>1, <1>2
        <4>3. (\A g \in entries : Line[g.key] = [rank |-> g.rank, place |-> g.sequence])'
          BY LinePlacesNext
        <4> QED BY <4>1, <4>2, <4>3
      <3>2. CASE l \notin Queued
        BY <3>2, <1>1 DEF Line, Queued, QueueInv, QueueTypes
      <3> QED BY <3>1, <3>2
    <2> QED BY <2>1, <2>2 DEF Line
  <1>6. InFlight' = InFlight \union {e.key}
    BY <1>1, <1>3 DEF InFlight, QueueInv, QueueTypes
  <1>7. Port!Dequeue(e.key)
    BY <1>3, <1>4, <1>5, <1>6, LineWaiting DEF Port!Dequeue
  <1> QED BY <1>3, <1>7

\* mark_completed and mark_failed release the key, or queue it again.
LEMMA PortMark ==
  ASSUME QueueInv, QueueInv', NEW c \in Clients, MarkCompleted(c) \/ MarkFailedRequeue(c)
  PROVE  \E k \in Keys : Port!Release(k) \/ Port!Requeue(k)
  <1> DEFINE k == item[c]
  <1>1. /\ item[c] # Nobody
        /\ inFlight' = [inFlight EXCEPT ![item[c]] = Nobody]
        /\ item' = [item EXCEPT ![c] = Nobody]
    BY DEF MarkCompleted, MarkFailedRequeue
  <1>2. /\ k \in Keys /\ inFlight[k] \in Ranks /\ k \in InFlight
        /\ InFlight' = InFlight \ {k}
    BY <1>1, ReleaseFacts DEF QueueInv, ItemsInFlight
  <1>3. CASE Line' = Line
    BY <1>2, <1>3 DEF Port!Release
  <1>4. CASE MarkCompleted(c)
    BY <1>3, <1>4 DEF MarkCompleted, Line, Queued, EntryOf
  <1>5. CASE MarkFailedRequeue(c)
    <2>1. Push(k, inFlight[k], InFlight \ {k})
      BY <1>5 DEF MarkFailedRequeue
    <2> HIDE DEF k
    <2>2. ASSUME NEW p \in 0..MaxSequence, Port!FreePlace(p),
                 Line' = Port!Lined(k, inFlight[k], p)
          PROVE  Port!Requeue(k)
      BY <1>2, <2>2 DEF Port!Requeue
    <2> QED BY <1>2, <1>3, <2>1, <2>2, PushLines
  <1> QED BY <1>4, <1>5

\* Every step of the queue is a step of the port or changes nothing it shows.
LEMMA PortStep ==
  QueueInv /\ QueueInv' /\ [Next]_vars => [Port!Next]_<<Line, InFlight>>
  <1> SUFFICES ASSUME QueueInv, QueueInv', [Next]_vars
               PROVE  Port!Next \/ UNCHANGED <<Line, InFlight>>
    OBVIOUS
  <1>1. CASE UNCHANGED <<entries, queued, inFlight>>
    BY <1>1 DEF Line, Queued, InFlight, EntryOf
  <1>2. ASSUME NEW k \in Keys, NEW r \in Ranks, Enqueue(k, r)
        PROVE  Port!Next \/ UNCHANGED <<Line, InFlight>>
    BY <1>2, PortEnqueue DEF Port!Next
  <1>3. ASSUME NEW c \in Clients, Dequeue(c) PROVE Port!Next
    BY <1>3, PortDequeue DEF Port!Next
  <1>4. ASSUME NEW c \in Clients, MarkCompleted(c) \/ MarkFailedRequeue(c) PROVE Port!Next
    BY <1>4, PortMark DEF Port!Next
  <1>5. ASSUME NEW c \in Clients, DequeueNone(c) PROVE UNCHANGED <<entries, queued, inFlight>>
    BY <1>5 DEF DequeueNone, QueueInv, HeapMatchesQueued
  <1>6. ASSUME NEW c \in Clients, Abandon(c) PROVE UNCHANGED <<entries, queued, inFlight>>
    BY <1>6 DEF Abandon
  <1>7. UNCHANGED vars => UNCHANGED <<entries, queued, inFlight>>
    BY DEF vars
  <1> QED BY <1>1, <1>2, <1>3, <1>4, <1>5, <1>6, <1>7 DEF Next

\* The in-memory queue keeps the promise of the ForecastQueue port: no key waits or is
\* held twice, and keys come out by rank and, within a rank, in the order they were
\* accepted.
THEOREM PortImplemented == Spec => ImplementsPort
  BY Invariance, PortInit, PortStep, PTL DEF Spec, Port!Spec, ImplementsPort
====
