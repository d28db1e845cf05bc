---- MODULE JobLifecycle ----
(***************************************************************************)
(* What the forecast job service promises the clients that hold a job id,  *)
(* whatever store, queue and worker are configured: a job only moves along *)
(* the edges of the status machine of domain/jobs/status.py, a terminal    *)
(* status is final, an active job never disappears, and an id is never     *)
(* given out a second time.                                                *)
(***************************************************************************)
CONSTANT Jobs               \* the ids the service may give out

VARIABLE status             \* what a reader of the store sees of each id

Active   == {"queued", "running"}
Terminal == {"succeeded", "failed", "cancelled"}
Statuses == Active \union Terminal

\* "unused": the id was not given out yet; "deleted": it was, and cleanup
\* removed its document.
States == Statuses \union {"unused", "deleted"}

\* The moves one committed write of the service may make of one job.
Moves == {<<"unused", "queued">>,                        \* submit, retry
          <<"queued", "running">>,                       \* a worker claims it
          <<"running", "queued">>}                       \* startup recovery
         \union ({"running"} \X {"succeeded", "failed"}) \* a run settles it
         \union {<<"queued", "failed">>}                 \* startup recovery, stale
         \union (Active \X {"cancelled"})                \* cancel

Init == status = [j \in Jobs |-> "unused"]

Move(j) == \E s \in States :
             /\ <<status[j], s>> \in Moves
             /\ status' = [status EXCEPT ![j] = s]

\* Cleanup deletes any set of terminal jobs at once.
Forget == \E gone \in SUBSET {j \in Jobs : status[j] \in Terminal} :
            status' = [j \in Jobs |-> IF j \in gone THEN "deleted" ELSE status[j]]

Next == Forget \/ \E j \in Jobs : Move(j)

Spec == Init /\ [][Next]_status
====
