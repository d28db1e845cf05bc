---- MODULE MCForecastJobs ----
(* ForecastJobs on a small instance: two tasks, model values. *)
EXTENDS ForecastJobs, TLC

CONSTANTS t1, t2
MCTasks == {t1, t2}
MCRetentions == {1}
MCShortRetentions == {0}   \* a window shorter than a tick

\* The tasks are interchangeable, and no liveness is checked with them.
TaskSymmetry == Permutations(MCTasks)
====
