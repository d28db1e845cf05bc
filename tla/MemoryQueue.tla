---- MODULE MemoryQueue ----
(***************************************************************************)
(* InMemoryPriorityForecastQueue: a heap of entries, the queued items and  *)
(* the items in flight by key, and a sequence number.  Its lock is held by *)
(* coroutines of one event loop and never across a suspension, so that a   *)
(* method is one step.                                                     *)
(***************************************************************************)
EXTENDS Naturals

CONSTANTS
  Clients,       \* worker coroutines
  Keys, Ranks, Nobody,
  MaxSequence    \* bound: enqueues

ASSUME QueueAssumption ==
  /\ Ranks \subseteq Nat /\ MaxSequence \in Nat
  /\ Nobody \notin Nat \union Keys /\ Nobody \notin [rank : Nat, place : Nat]

VARIABLES
  entries,       \* the heap, as the set it orders
  queued,        \* _queued_by_key: the rank of the item, Nobody when there is none
  inFlight,      \* _in_flight_by_key, the same way
  sequence,
  item           \* the key of the item a client got from dequeue

vars == <<entries, queued, inFlight, sequence, item>>

Entry == [rank : Ranks, sequence : 0..MaxSequence, key : Keys]
Queued   == {k \in Keys : queued[k] # Nobody}
InFlight == {k \in Keys : inFlight[k] # Nobody}

\* _QueuedEntry compares by rank, then by sequence.
\* Slip: by sequence alone.
EarlierInSequence(a, b) == a.sequence < b.sequence
Earlier(a, b) == a.rank < b.rank \/ (a.rank = b.rank /\ a.sequence < b.sequence)

\* Slip: only the waiting keys are looked up.
PushUnlessQueued(k, r, busy) ==
  IF k \in Queued THEN UNCHANGED <<entries, queued, sequence>>
  ELSE /\ sequence < MaxSequence
       /\ entries' = entries \union {[rank |-> r, sequence |-> sequence, key |-> k]}
       /\ queued' = [queued EXCEPT ![k] = r]
       /\ sequence' = sequence + 1

\* The body of enqueue, with the keys found in flight.
Push(k, r, busy) ==
  IF k \in Queued \union busy THEN UNCHANGED <<entries, queued, sequence>>
  ELSE /\ sequence < MaxSequence
       /\ entries' = entries \union {[rank |-> r, sequence |-> sequence, key |-> k]}
       /\ queued' = [queued EXCEPT ![k] = r]
       /\ sequence' = sequence + 1

Enqueue(k, r) == Push(k, r, InFlight) /\ UNCHANGED <<inFlight, item>>

\* Entries are popped until one is the queued item of its key; the others are dropped.
Live(e) == queued[e.key] = e.rank

Dequeue(c) ==
  /\ item[c] = Nobody
  /\ \E e \in entries :
       /\ Live(e) /\ \A f \in entries : Live(f) /\ f # e => Earlier(e, f)
       /\ entries' = {f \in entries : Earlier(e, f)}
       /\ queued' = [queued EXCEPT ![e.key] = Nobody]
       /\ inFlight' = [inFlight EXCEPT ![e.key] = e.rank]
       /\ item' = [item EXCEPT ![c] = e.key]
  /\ UNCHANGED sequence

\* Every entry is popped, and the answer is None.
DequeueNone(c) ==
  /\ item[c] = Nobody
  /\ ~\E e \in entries : Live(e)
  /\ entries' = {}
  /\ UNCHANGED <<queued, inFlight, sequence, item>>

MarkCompleted(c) ==
  /\ item[c] # Nobody
  /\ inFlight' = [inFlight EXCEPT ![item[c]] = Nobody]
  /\ item' = [item EXCEPT ![c] = Nobody]
  /\ UNCHANGED <<entries, queued, sequence>>

\* The key leaves the items in flight first, so that it is not found there.
MarkFailedRequeue(c) ==
  /\ item[c] # Nobody
  /\ inFlight' = [inFlight EXCEPT ![item[c]] = Nobody]
  /\ Push(item[c], inFlight[item[c]], InFlight \ {item[c]})
  /\ item' = [item EXCEPT ![c] = Nobody]

\* The worker is cancelled while it runs the job: neither mark is called.
Abandon(c) ==
  /\ item[c] # Nobody
  /\ item' = [item EXCEPT ![c] = Nobody]
  /\ UNCHANGED <<entries, queued, inFlight, sequence>>

Init ==
  /\ entries = {} /\ sequence = 0
  /\ queued = [k \in Keys |-> Nobody] /\ inFlight = [k \in Keys |-> Nobody]
  /\ item = [c \in Clients |-> Nobody]

Next ==
  \/ \E k \in Keys, r \in Ranks : Enqueue(k, r)
  \/ \E c \in Clients : \/ Dequeue(c) \/ DequeueNone(c)
                        \/ MarkCompleted(c) \/ MarkFailedRequeue(c) \/ Abandon(c)

Spec == Init /\ [][Next]_vars

----------------------------------------------------------------------------
(* Properties *)

\* The heap and the queued items agree: every waiting key has exactly one entry,
\* of its own rank, and every entry is of a waiting key, so that dequeue neither
\* loses an accepted key nor hands one out twice (enqueue, dequeue).  A key is not
\* waiting and in flight at once.
HeapMatchesQueued ==
  /\ \A e \in entries : Live(e)
  /\ \A k \in Queued : \E e \in entries : e.key = k
  /\ \A e, f \in entries : e.key = f.key => e = f
  /\ Queued \intersect InFlight = {}

\* The adapter is a ForecastQueue in which newcomers stand behind those of their rank.
EntryOf(k) == CHOOSE e \in entries : e.key = k
Line == [k \in Keys |-> IF k \in Queued
                        THEN [rank |-> queued[k], place |-> EntryOf(k).sequence] ELSE Nobody]
Port == INSTANCE ForecastQueue WITH Places <- 0..MaxSequence, Fifo <- TRUE,
                                    waiting <- Line, held <- InFlight
ImplementsPort == Port!Spec
====
