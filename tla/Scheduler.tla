------------------------------ MODULE Scheduler ------------------------------
(* One task of the job scheduler (internal/scheduler/service) and the Redis    *)
(* lock of pkg/cache/lock.go that is to keep two dispatches of it apart.       *)
(*                                                                             *)
(* An attempt is one goroutine of Engine.dispatch: from the listing of a due   *)
(* task, or a manual trigger, to the deferred Unlock and the deferred removal  *)
(* of the in-flight mark.  Every read of the task's row and every Save of it   *)
(* is a step of its own, because nothing keeps an administrator's request out  *)
(* of the time between the two.                                                *)
EXTENDS Naturals, FiniteSets

CONSTANTS
  Procs,        \* server processes, each with its own in-flight marks
  Attempts,     \* dispatch goroutines that may be under way together
  Keys, Own,    \* keys of locks: scheduler:task:<id>, and scheduler:shard:<shard key>
  Free,         \* a lock's key is absent
  MaxEdits,     \* bound: requests of administrators
  MaxFaults     \* bound: crashes, lost renewals and failing calls

ASSUME SchedulerAssumption ==
  /\ Free \notin Attempts /\ Own \in Keys
  /\ MaxEdits \in Nat /\ MaxFaults \in Nat

VARIABLES
  home,      \* the process of an attempt
  row,       \* the task's row: status, next run time, cron or once, the key of its lock
  lock,      \* the attempt whose token each key holds
  watched,   \* the watchdogs: of which attempt, renewing which key
  inFlight,  \* Engine.inFlight of each process
  att,       \* the attempts
  admin,     \* the request of an administrator: idle, or the row it will Save
  edits, faults,
  lost,      \* attempts whose lock ran out under them
  settled,   \* a pause or deletion was saved while no other Save was pending
  done       \* the last run of the task was saved, with no lock lapsed or left

vars == <<home, row, lock, watched, inFlight, att, admin, edits, faults, lost, settled, done>>

Statuses == {"active", "paused", "deleted", "finished"}
Row == [status: Statuses, next: {"none", "due", "later"}, cron: BOOLEAN, key: Keys]
NoRow == [status |-> "deleted", next |-> "none", cron |-> FALSE, key |-> Own]

\* Where a dispatch is; the lock is taken between "locked" and "leaving".
Guarded == {"locked", "ready", "deferring", "leasing", "deferSave", "leaseSave",
            "starting", "running", "persisting", "saving", "leaving"}
Stages == Guarded \cup {"idle", "triggered", "listed", "claimed", "unlocked"}
Region == {a \in Attempts : att[a].at \in Guarded}
Saving == {a \in Attempts : att[a].at \in {"deferSave", "leaseSave", "saving"}}

Resting == [at |-> "idle", manual |-> FALSE, key |-> Own, task |-> NoRow, seen |-> NoRow]
Nobody == [at |-> "idle"]
Init ==
  /\ home \in [Attempts -> Procs]
  /\ row \in {r \in Row : <<r.status, r.next>> \in {<<"active", "later">>, <<"paused", "none">>}}
  /\ lock = [k \in Keys |-> Free] /\ watched = {} /\ inFlight = [p \in Procs |-> FALSE]
  /\ att = [a \in Attempts |-> Resting]
  /\ admin = Nobody /\ edits = 0 /\ faults = 0
  /\ lost = {} /\ settled = FALSE /\ done = FALSE

\* A copy that is no longer needed is forgotten.
Go(a, stage) ==
  att' = [att EXCEPT ![a].at = stage, ![a].seen = NoRow,
            ![a].task = IF stage \in {"leaving", "unlocked"} THEN NoRow ELSE @]
Rest(a) == att' = [att EXCEPT ![a] = Resting]
Fault == faults < MaxFaults /\ faults' = faults + 1
AdminsQuiet == UNCHANGED <<admin, edits, settled>>

-----------------------------------------------------------------------------
(* Engine.tickOnce and Engine.Trigger: both hand a copy of the row to dispatch *)
List(a) ==
  /\ att[a].at = "idle" /\ row.status = "active" /\ row.next = "due"
  /\ att' = [att EXCEPT ![a].at = "listed", ![a].manual = FALSE, ![a].task = row]
  /\ UNCHANGED <<home, row, lock, watched, inFlight, faults, lost, done>> /\ AdminsQuiet

RunNow(a) ==
  /\ att[a].at = "idle" /\ row.status \notin {"paused", "deleted"} /\ edits < MaxEdits
  /\ edits' = edits + 1 /\ Go(a, "triggered")
  /\ UNCHANGED <<home, row, lock, watched, inFlight, admin, faults, lost, settled, done>>

Trigger(a) ==
  /\ att[a].at = "triggered"
  /\ att' = [att EXCEPT ![a].at = "listed", ![a].manual = TRUE, ![a].task = row]
  /\ UNCHANGED <<home, row, lock, watched, inFlight, faults, lost, done>> /\ AdminsQuiet

(* Engine.dispatch *)
Claim(a) ==
  /\ att[a].at = "listed"
  /\ IF inFlight[home[a]] THEN Rest(a) /\ UNCHANGED inFlight
     ELSE Go(a, "claimed") /\ inFlight' = [inFlight EXCEPT ![home[a]] = TRUE]
  /\ UNCHANGED <<home, row, lock, watched, faults, lost, done>> /\ AdminsQuiet

GiveBack(a) == inFlight' = [inFlight EXCEPT ![home[a]] = FALSE]

\* Whose key the dispatch is at: lockName of the copy it was handed.
KeyOf(a) == att[a].task.key
\* The key of a shard may be held by another of its tasks.
Contended(k) == lock[k] # Free \/ k # Own

Takes(a) ==
  /\ lock[KeyOf(a)] = Free /\ lock' = [lock EXCEPT ![KeyOf(a)] = a]
  /\ watched' = watched \cup {<<a, KeyOf(a)>>}
  /\ att' = [att EXCEPT ![a].at = "locked", ![a].key = KeyOf(a)]

\* Faulty: a busy lock ends the dispatch without removing the mark.
AcquireKeepingMark(a) ==
  /\ att[a].at = "claimed" /\ UNCHANGED inFlight
  /\ Takes(a) \/ (Contended(KeyOf(a)) /\ Rest(a) /\ UNCHANGED <<lock, watched>>)
  /\ UNCHANGED <<home, row, faults, lost, done>> /\ AdminsQuiet

Acquire(a) ==
  /\ att[a].at = "claimed"
  /\ \/ Takes(a) /\ UNCHANGED inFlight
     \/ Contended(KeyOf(a)) /\ GiveBack(a) /\ Rest(a) /\ UNCHANGED <<lock, watched>>
  /\ UNCHANGED <<home, row, faults, lost, done>> /\ AdminsQuiet

\* The script's answer is lost: the dispatch ends, the key may have been set.
AcquireFails(a) ==
  /\ att[a].at = "claimed" /\ Fault
  /\ \/ UNCHANGED lock
     \/ lock[KeyOf(a)] = Free /\ lock' = [lock EXCEPT ![KeyOf(a)] = a]
  /\ GiveBack(a) /\ Rest(a)
  /\ UNCHANGED <<home, row, watched, lost, done>> /\ AdminsQuiet

\* Faulty: the listed copy is run without reading the row again.
RereadNothing(a) ==
  /\ att[a].at = "locked"
  /\ Go(a, IF att[a].task.status = "deleted" THEN "leaving" ELSE "ready")
  /\ UNCHANGED <<home, row, lock, watched, inFlight, faults, lost, done>> /\ AdminsQuiet

(* Engine.runLocked *)
Reread(a) ==
  /\ att[a].at = "locked"
  /\ IF att[a].manual
     THEN Go(a, IF att[a].task.status = "deleted" THEN "leaving" ELSE "ready")
     ELSE IF row.status # "active" THEN Go(a, "leaving")
     ELSE att' = [att EXCEPT ![a].at = "ready", ![a].task = row]
  /\ UNCHANGED <<home, row, lock, watched, inFlight, faults, lost, done>> /\ AdminsQuiet

RereadFails(a) ==
  /\ att[a].at = "locked" /\ ~att[a].manual /\ Fault /\ Go(a, "leaving")
  /\ UNCHANGED <<home, row, lock, watched, inFlight, lost, done>> /\ AdminsQuiet

\* Dependencies or the handler are missing, or all is there.
Check(a) ==
  /\ att[a].at = "ready"
  /\ \/ Go(a, IF att[a].manual THEN "leaving" ELSE "deferring")
     \/ Go(a, IF att[a].manual THEN "starting" ELSE "leasing")
  /\ UNCHANGED <<home, row, lock, watched, inFlight, faults, lost, done>> /\ AdminsQuiet

After(stage) == IF stage \in {"deferring", "deferSave"} THEN "leaving" ELSE "starting"

ShiftRead(a) ==
  /\ att[a].at \in {"deferring", "leasing"}
  /\ IF row.status # "active" THEN Go(a, After(att[a].at))
     ELSE att' = [att EXCEPT
            ![a].at = IF @ = "deferring" THEN "deferSave" ELSE "leaseSave",
            ![a].seen = [row EXCEPT !.next = "later"]]
  /\ UNCHANGED <<home, row, lock, watched, inFlight, faults, lost, done>> /\ AdminsQuiet

ShiftSave(a) ==
  /\ att[a].at \in {"deferSave", "leaseSave"}
  /\ row' = att[a].seen /\ Go(a, After(att[a].at))
  /\ UNCHANGED <<home, lock, watched, inFlight, faults, lost, done>> /\ AdminsQuiet

\* Neither an error of the read nor one of the Save is looked at.
ShiftFails(a) ==
  /\ att[a].at \in {"deferring", "leasing", "deferSave", "leaseSave"} /\ Fault
  /\ Go(a, After(att[a].at))
  /\ UNCHANGED <<home, row, lock, watched, inFlight, lost, done>> /\ AdminsQuiet

Start(a) ==
  /\ att[a].at = "starting" /\ Go(a, "running")
  /\ UNCHANGED <<home, row, lock, watched, inFlight, faults, lost, done>> /\ AdminsQuiet

StartFails(a) ==
  /\ att[a].at = "starting" /\ Fault /\ Go(a, "leaving")
  /\ UNCHANGED <<home, row, lock, watched, inFlight, lost, done>> /\ AdminsQuiet

\* What the run makes of its copy of the row.
AfterSuccess(task) ==
  IF task.cron THEN [task EXCEPT !.next = "later"]
  ELSE [task EXCEPT !.status = "finished", !.next = "none"]
Retried(task) == [task EXCEPT !.next = "later"]
GivenUp(task) == [task EXCEPT !.next = IF task.cron THEN "later" ELSE "none"]

\* Whether a failed run is tried again is left open: retries are counted in the row,
\* where administrators change their limit.
Run(a) ==
  /\ att[a].at = "running"
  /\ \E task \in {AfterSuccess(att[a].task), Retried(att[a].task), GivenUp(att[a].task)} :
       att' = [att EXCEPT ![a].at = "persisting", ![a].task = task]
  /\ UNCHANGED <<home, row, lock, watched, inFlight, faults, lost, done>> /\ AdminsQuiet

\* Faulty: the copy from the start of the run is saved over the row.
MergedStale(task, fresh) == task

(* Engine.persistAfterRun: the outcome of the run laid over the row just read *)
Merged(task, fresh) ==
  IF task.status = "finished" /\ fresh.status # "deleted"
  THEN [fresh EXCEPT !.status = "finished", !.next = "none"]
  ELSE IF fresh.status = "active" THEN [fresh EXCEPT !.next = task.next] ELSE fresh

PersistRead(a) ==
  /\ att[a].at = "persisting"
  /\ att' = [att EXCEPT ![a].at = "saving", ![a].seen = Merged(att[a].task, row)]
  /\ UNCHANGED <<home, row, lock, watched, inFlight, faults, lost, done>> /\ AdminsQuiet

PersistSave(a) ==
  /\ att[a].at = "saving"
  /\ row' = att[a].seen /\ Go(a, "leaving")
  /\ done' = (done \/ /\ row'.status = "finished" /\ lost = {}
                       /\ \A b \in Region : att[b].key = att[a].key)
  /\ UNCHANGED <<home, lock, watched, inFlight, faults, lost>> /\ AdminsQuiet

\* The row cannot be read: the copy from the start of the run is saved whole.
PersistBlind(a) ==
  /\ att[a].at = "persisting" /\ Fault /\ Go(a, "leaving")
  /\ row' = att[a].task /\ settled' = FALSE /\ done' = FALSE
  /\ UNCHANGED <<home, lock, watched, inFlight, admin, edits, lost>>

\* The final Save fails; its error is dropped.
SaveFails(a) ==
  /\ att[a].at \in {"persisting", "saving"} /\ Fault /\ Go(a, "leaving")
  /\ UNCHANGED <<home, row, lock, watched, inFlight, lost, done>> /\ AdminsQuiet

Unlocked(a) == watched' = watched \ {<<a, att[a].key>>} /\ Go(a, "unlocked")

\* Faulty: the key is deleted whoever holds it.
UnlockAnybody(a) ==
  /\ att[a].at = "leaving" /\ Unlocked(a)
  /\ lock' = [lock EXCEPT ![att[a].key] = Free]
  /\ UNCHANGED <<home, row, inFlight, faults, lost, done>> /\ AdminsQuiet

(* The deferred calls of dispatch, last in first out: Unlock, then the mark.  *)
Unlock(a) ==
  /\ att[a].at = "leaving" /\ Unlocked(a)
  /\ lock' = [lock EXCEPT ![att[a].key] = IF @ = a THEN Free ELSE @]
  /\ UNCHANGED <<home, row, inFlight, faults, lost, done>> /\ AdminsQuiet

\* Unlock returns Redis's error before it stops the watchdog.
UnlockFails(a) ==
  /\ att[a].at = "leaving" /\ Fault /\ Go(a, "unlocked")
  /\ UNCHANGED <<home, row, lock, watched, inFlight, lost, done>> /\ AdminsQuiet

Forget(a) ==
  /\ att[a].at = "unlocked" /\ Rest(a) /\ GiveBack(a)
  /\ lost' = lost \ {a}
  /\ UNCHANGED <<home, row, lock, watched, faults, done>> /\ AdminsQuiet

-----------------------------------------------------------------------------
(* The clock, Redis and the processes *)
TimePasses ==
  /\ row.next = "later" /\ row' = [row EXCEPT !.next = "due"]
  /\ UNCHANGED <<home, lock, watched, inFlight, att, faults, lost, done>> /\ AdminsQuiet

\* A key's TTL ends: nobody renews it.
Expire ==
  /\ \E k \in Keys :
       lock[k] # Free /\ <<lock[k], k>> \notin watched /\ lock' = [lock EXCEPT ![k] = Free]
  /\ UNCHANGED <<home, row, watched, inFlight, att, faults, lost, done>> /\ AdminsQuiet

\* Three renewals in a row fail, which the watchdog does not report.
Lapse ==
  /\ Fault
  /\ \E k \in Keys :
       /\ <<lock[k], k>> \in watched /\ lock' = [lock EXCEPT ![k] = Free]
       /\ lost' = lost \cup {a \in Region : lock[k] = a /\ att[a].key = k}
  /\ UNCHANGED <<home, row, watched, inFlight, att, done>> /\ AdminsQuiet

Crash(p) ==
  LET mine == {a \in Attempts : home[a] = p}
  IN  /\ Fault
      /\ att' = [a \in Attempts |-> IF a \in mine THEN Resting ELSE att[a]]
      /\ inFlight' = [inFlight EXCEPT ![p] = FALSE]
      /\ watched' = {w \in watched : w[1] \notin mine} /\ lost' = lost \ mine
      /\ UNCHANGED <<home, row, lock, done>> /\ AdminsQuiet

-----------------------------------------------------------------------------
(* schedulerService: Update, Pause, Resume and Delete read the row, check it,  *)
(* and Save the whole of it.  An update may turn a task that is to run once    *)
(* into a cron task or back, and move it into or out of a shard.               *)
Replanned(rec, next) ==
  [rec EXCEPT !.next = IF rec.status # "active" THEN "none" ELSE IF rec.cron THEN "later" ELSE next]

Paused == [row EXCEPT !.status = "paused", !.next = "none"]
Deleted == [row EXCEPT !.status = "deleted", !.next = "none"]

\* Faulty: Resume does not compute the next run time.
AdminRowUnplanned(op, next, cron, key) ==
  CASE op = "update" -> Replanned([row EXCEPT !.cron = cron, !.key = key], next)
    [] op = "resume" -> [row EXCEPT !.status = "active"]
    [] op = "pause"  -> Paused
    [] op = "delete" -> Deleted

AdminRow(op, next, cron, key) ==
  CASE op = "update" -> Replanned([row EXCEPT !.cron = cron, !.key = key], next)
    [] op = "resume" -> Replanned([row EXCEPT !.status = "active"], next)
    [] op = "pause"  -> Paused
    [] op = "delete" -> Deleted

\* RunAt may be absent, past or to come, of a task that is to run once.
RunTimes == {"none", "due", "later"}

AdminMay(op) ==
  CASE op = "update" -> row.status \in {"active", "paused"}
    [] op = "resume" -> row.status = "paused"
    [] op = "pause"  -> row.status = "active"
    [] op = "delete" -> row.status # "deleted"

AdminRead(op) ==
  /\ admin = Nobody /\ edits < MaxEdits /\ AdminMay(op)
  /\ \E next \in RunTimes, cron \in BOOLEAN, key \in Keys :
       admin' = [at |-> op, rec |-> AdminRow(op, next, cron, key)]
  /\ edits' = edits + 1
  /\ UNCHANGED <<home, row, lock, watched, inFlight, att, faults, lost, settled, done>>

AdminSave ==
  /\ admin # Nobody
  /\ row' = admin.rec /\ admin' = Nobody
  /\ settled' = (row'.status \in {"paused", "deleted"} /\ Saving = {})
  /\ done' = FALSE
  /\ UNCHANGED <<home, lock, watched, inFlight, att, edits, faults, lost>>

-----------------------------------------------------------------------------
Proceed(a) ==
  \/ Trigger(a) \/ Claim(a) \/ Acquire(a) \/ Reread(a) \/ Check(a)
  \/ ShiftRead(a) \/ ShiftSave(a) \/ Start(a) \/ Run(a)
  \/ PersistRead(a) \/ PersistSave(a) \/ Unlock(a) \/ Forget(a)

Fails(a) ==
  \/ AcquireFails(a) \/ RereadFails(a) \/ ShiftFails(a) \/ StartFails(a)
  \/ PersistBlind(a) \/ SaveFails(a) \/ UnlockFails(a)

Next ==
  \/ \E a \in Attempts : List(a) \/ RunNow(a) \/ Proceed(a) \/ Fails(a)
  \/ TimePasses \/ Expire \/ Lapse
  \/ \E p \in Procs : Crash(p)
  \/ \E op \in {"update", "pause", "resume", "delete"} : AdminRead(op)
  \/ AdminSave

Spec == Init /\ [][Next]_vars

\* The ticker ticks, goroutines run, handlers return, keys expire.
Fairness ==
  /\ WF_vars(\E a \in Attempts : List(a))
  /\ \A a \in Attempts : WF_vars(Proceed(a))
  /\ WF_vars(TimePasses) /\ WF_vars(Expire) /\ WF_vars(AdminSave)
FairSpec == Spec /\ Fairness

-----------------------------------------------------------------------------
(* Properties *)

\* Every variable keeps its shape.
TypeOK ==
  /\ home \in [Attempts -> Procs] /\ row \in Row
  /\ lock \in [Keys -> Attempts \cup {Free}] /\ watched \subseteq Attempts \X Keys
  /\ inFlight \in [Procs -> BOOLEAN]
  /\ att \in [Attempts -> [at: Stages, manual: BOOLEAN, key: Keys, task: Row, seen: Row]]
  /\ admin = Nobody \/ admin \in [at: {"update", "pause", "resume", "delete"}, rec: Row]
  /\ edits \in 0 .. MaxEdits /\ faults \in 0 .. MaxFaults
  /\ lost \subseteq Attempts /\ settled \in BOOLEAN /\ done \in BOOLEAN

\* A dispatch between Acquire and Unlock owns the key it took unless Redis let it
\* run out: neither the expiry of other keys, nor a crash, nor the Unlock of a
\* dispatch that lost its own lock takes it away.
HolderKeepsLock == \A a \in Region : lock[att[a].key] = a \/ a \in lost

\* The in-flight mark is the second line: even when the lock lapses under a
\* running handler, or an edit of the shard key gives the task another lock, no
\* other dispatch of the same process gets past it.
OneDispatchPerProcess ==
  \A a, b \in Region : home[a] = home[b] => a = b

\* Two dispatches of the task overlap only in two processes, and only after a lock
\* lapsed under one of them or an edit moved the task to another lock between them.
DispatchesAreApart == TypeOK /\ HolderKeepsLock /\ OneDispatchPerProcess

\* A one-time task whose last run was recorded under a lock that held, with nobody
\* under way on another lock, is not run again by the ticker, however many dispatches
\* listed it before the run ended; only a request of an administrator brings it back.
FinishedIsNotRerun ==
  done => ~ \E a \in Attempts : att[a].at = "running" /\ ~att[a].manual

\* A pause or deletion that no pending Save can overwrite stands: the end of a
\* run, however long it took, does not revive the task.
SettledDecisionsStand == settled => row.status # "active"

\* What was decided about the task, by its last run or by an administrator, is
\* not undone by a run that was on its way.
DecisionsStand == FinishedIsNotRerun /\ SettledDecisionsStand

\* An active cron task without a next run time, which the ticker never lists.
Unplanned == row.cron /\ row.status = "active" /\ row.next = "none"

\* An active cron task loses its next run time to one thing only: the last failure
\* of a run that began when the task was still to run once.  No other Save does it,
\* whatever it was read before and whatever it overwrites.
CronKeepsItsPlan ==
  [][Unplanned' /\ ~Unplanned =>
       \E a \in Attempts : /\ att[a].at = "saving" /\ att'[a].at = "leaving"
                           /\ ~att[a].task.cron]_vars

\* An orphaned lock: its dispatch is over and its watchdog still renews it.
Orphaned ==
  \E a \in Attempts : /\ lock[row.key] = a /\ <<a, row.key>> \in watched
                      /\ ~(a \in Region /\ att[a].key = row.key)

\* An active task with a next run time is taken up again and again, also after
\* the crash of the process that ran it: the lock expires, and the next run time
\* that runLocked set before the handler started makes the task due again.  A task
\* that failed for the last time is left active without one, and a task in a shard
\* may wait for the others of the shard.
DueTaskIsTaken ==
  (row.status = "active" /\ row.next # "none" /\ row.key = Own)
    ~> (\/ row.status # "active" \/ row.next = "none" \/ row.key # Own \/ Orphaned
        \/ \E a \in Attempts : att[a].at = "ready")

\* The lock ends with its dispatch: Unlock stops the watchdog, so that a key
\* which Unlock could not delete at least expires.
LockEndsWithDispatch ==
  \A a \in Attempts, k \in Keys : (lock[k] = a /\ att[a].at = "idle") ~> (lock[k] # a)
==============================================================================
