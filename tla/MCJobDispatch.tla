---- MODULE MCJobDispatch ----
(* JobDispatch on a small instance: two tasks, two jobs. *)
EXTENDS JobDispatch, TLC

CONSTANTS t1, t2
MCTasks == {t1, t2}
MCRetentions == {1}

\* The tasks are interchangeable; only the runs without liveness use it.
TaskSymmetry == Permutations(MCTasks)
====
