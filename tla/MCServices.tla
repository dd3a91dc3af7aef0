------------------------------- MODULE MCServices -------------------------------
(***************************************************************************)
(* What runs around the store: the HTTP client, the activity of accounts,  *)
(* the local activity, the sweeps of the scheduled run and of the usage    *)
(* check, and the schedule itself.  They share no variable, so a property  *)
(* of one of them holds in every interleaving when it holds while it runs  *)
(* alone: a behaviour runs one of them and leaves the others as they were. *)
(***************************************************************************)
EXTENDS HttpRetry, Activity, LocalActivity, Sweeps, Scheduler

VARIABLE running
servicesVars == <<retryVars, activityVars, localVars, vars, schedulerVars, running>>

MCSaved == [c \in Check |-> IF c = "c1" THEN 2 ELSE 1]
MCProfiles ==
  {[total |-> 1, since |-> -1], [total |-> 1, since |-> 1], [total |-> 2, since |-> -1]}

(* Initial states of a component that does not run are one of its own.     *)
Quiet ==
  /\ running = "http" \/ environment = NoProxy
  /\ running = "activity" \/ \A a \in 1..Accounts : identityOf[a] = CHOOSE i \in Identity : TRUE
  /\ running = "sweeps" \/ (saved[1].provider = "codex" /\ saved[2] = Nobody)
  /\ running = "scheduler" \/ (crontab = <<>> /\ host = CHOOSE h \in Hosts : TRUE)

ServicesInit ==
  /\ running \in {"http", "activity", "local", "sweeps", "scheduler"}
  /\ RetryInit /\ ActivityInit /\ LocalInit /\ Init /\ SchedulerInit /\ Quiet

Leaves(others) == UNCHANGED others /\ UNCHANGED running
ServicesNext ==
  \/ running = "http" /\ RetryNext
     /\ Leaves(<<activityVars, localVars, vars, schedulerVars>>)
  \/ running = "activity" /\ ActivityNext
     /\ Leaves(<<retryVars, localVars, vars, schedulerVars>>)
  \/ running = "local" /\ LocalNext
     /\ Leaves(<<retryVars, activityVars, vars, schedulerVars>>)
  \/ running = "sweeps" /\ Next
     /\ Leaves(<<retryVars, activityVars, localVars, schedulerVars>>)
  \/ running = "scheduler" /\ SchedulerNext
     /\ Leaves(<<retryVars, activityVars, localVars, vars>>)

ServicesSpec == ServicesInit /\ [][ServicesNext]_servicesVars
=============================================================================
