---- MODULE ForecastQueue ----
(***************************************************************************)
(* What the ForecastQueue port promises the workers, whichever adapter is  *)
(* configured: a key waits or is held at most once, an enqueue of a key    *)
(* that waits or is held changes nothing, and the key handed out is one of *)
(* the best rank, the earliest in place among those.                       *)
(***************************************************************************)
EXTENDS Naturals

CONSTANTS
  Keys,     \* idempotency keys; the workers use the job id
  Ranks,    \* priority_rank: smaller is handed out first
  Places,   \* places in the line
  Nobody,   \* not waiting
  Fifo      \* does a newcomer always stand behind everybody of its rank?

VARIABLES
  waiting,  \* the rank and place of every waiting key, Nobody for the others
  held      \* keys handed out and neither completed nor failed

Waiting == {k \in Keys : waiting[k] # Nobody}

Init == waiting = [k \in Keys |-> Nobody] /\ held = {}

\* Keys that wait once `k` stands in the line with rank r.
Lined(k, r, p) == [waiting EXCEPT ![k] = [rank |-> r, place |-> p]]
FreePlace(p) == \A k \in Waiting : waiting[k].place # p /\ (Fifo => waiting[k].place < p)

Enqueue(k) ==
  /\ k \notin Waiting \union held
  /\ \E r \in Ranks, p \in Places : FreePlace(p) /\ waiting' = Lined(k, r, p)
  /\ UNCHANGED held

Ahead(a, b) == \/ a.rank < b.rank
               \/ a.rank = b.rank /\ a.place < b.place

Dequeue(k) ==
  /\ k \in Waiting
  /\ \A l \in Waiting \ {k} : Ahead(waiting[k], waiting[l])
  /\ waiting' = [waiting EXCEPT ![k] = Nobody]
  /\ held' = held \union {k}

Release(k) == k \in held /\ held' = held \ {k} /\ UNCHANGED waiting

\* mark_failed with requeue: back to the line, which some adapters do in two steps
\* (a Release, then an Enqueue).
Requeue(k) ==
  /\ k \in held /\ held' = held \ {k}
  /\ \E r \in Ranks, p \in Places : FreePlace(p) /\ waiting' = Lined(k, r, p)

Next == \E k \in Keys : Enqueue(k) \/ Dequeue(k) \/ Release(k) \/ Requeue(k)

Spec == Init /\ [][Next]_<<waiting, held>>
====
