------------------------------ MODULE MCScheduler ------------------------------
(* One daemon command on each kind of host.                                *)
EXTENDS Scheduler
Spec == SchedulerInit /\ [][SchedulerNext]_schedulerVars
=============================================================================
