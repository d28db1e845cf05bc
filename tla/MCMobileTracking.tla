---- MODULE MCMobileTracking ----
(* MobileTracking with two trackers and three jobs. *)
EXTENDS MobileTracking

CONSTANTS t1, t2, j1, j2, j3
MCTrackers == {t1, t2}
MCJobs == {j1, j2, j3}
====
