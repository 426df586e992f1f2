---------------------------- MODULE MCScheduler ----------------------------
(* Module Scheduler and its properties on the instances of the MC*.cfg.    *)
EXTENDS SchedulerProps, TLC

CONSTANTS often, once, w1, w2, j

(* A job that comes back, and one that is over before the horizon.         *)
Calendar == often :> {2, 8} @@ once :> {2}
=============================================================================
