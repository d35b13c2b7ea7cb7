------------------------------- MODULE MCJobs -------------------------------
(***************************************************************************)
(* The scheduler, and the backups two of its tasks make and clean up.  A   *)
(* task's handler is one step of the scheduler and its row is none of the  *)
(* backups', so a behaviour of one of them at a time misses nothing: part  *)
(* says which one it is.                                                   *)
(***************************************************************************)
EXTENDS Scheduler, BackupJobs, TLC

CONSTANTS j1, j2, s1, s2, a1, p1, p2

VARIABLE part

jobsVars == <<part, vars, backupVars>>
On(p) == part = p

\* Two processes, each with one request for a backup.
HostOf == (j1 :> s1) @@ (j2 :> s2)

\* Two dispatches of one process, or of two.
Homes == {[a \in Attempts |-> IF a = a1 THEN p1 ELSE p] : p \in {p1, p2}}

\* The part that stands still starts in one state.  A task is in no shard at first.
JobsInit ==
  /\ part \in {"scheduler", "backup"} /\ Init /\ BackupInit /\ host = HostOf
  /\ home \in Homes /\ row.key = Own
  /\ ~On("scheduler") => /\ row.cron /\ row.status = "paused"
                          /\ home = [a \in Attempts |-> p1]

JobsNext ==
  /\ UNCHANGED part
  /\ \/ On("scheduler") /\ Next /\ UNCHANGED backupVars
     \/ On("backup") /\ BackupNext /\ UNCHANGED vars

\* The ticker ticks, goroutines run, handlers return, keys expire.
SchedulerFairness ==
  /\ WF_vars(On("scheduler") /\ \E a \in Attempts : List(a))
  /\ \A a \in Attempts : WF_vars(On("scheduler") /\ Proceed(a))
  /\ WF_vars(On("scheduler") /\ TimePasses) /\ WF_vars(On("scheduler") /\ Expire)
  /\ WF_vars(On("scheduler") /\ AdminSave)

\* Goroutines of living processes run, time passes, and the two scheduled tasks
\* that look for stale rows keep being started.
BackupFairness ==
  /\ \A j \in Jobbers : WF_backupVars(On("backup") /\ Works(j))
  /\ WF_backupVars(On("backup") /\ Cleans)
  /\ \A b \in Backups : WF_backupVars(On("backup") /\ GrowOld(b))

JobsSpec == JobsInit /\ [][JobsNext]_jobsVars /\ SchedulerFairness /\ BackupFairness
=============================================================================
