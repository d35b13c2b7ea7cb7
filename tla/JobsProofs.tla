----------------------------- MODULE JobsProofs -----------------------------
(***************************************************************************)
(* The scheduler for any number of processes, dispatches, edits and faults *)
(* (internal/scheduler/service, pkg/cache/lock.go), and the backups its    *)
(* tasks make for any number of rows, requests, processes and mishaps      *)
(* (internal/backup/service).                                              *)
(***************************************************************************)
EXTENDS Scheduler, BackupJobs, TLAPS

Attempt == [at: Stages, manual: BOOLEAN, key: Keys, task: Row, seen: Row]
Saves == {"deferSave", "leaseSave", "saving"}

\* From the claim to the removal of the mark.
Marked == Guarded \cup {"claimed", "unlocked"}

\* A dispatch keeps the key it took: it cannot expire under it, because its watchdog
\* ticks till Unlock.
Keeps(a) == (lock[att[a].key] = a \/ a \in lost) /\ <<a, att[a].key>> \in watched

\* The key alone does not keep two dispatches of a process apart once it has lapsed,
\* or once the task is locked under another: the mark does, which is set before the
\* lock is asked for and removed after Unlock.
Exclusion ==
  /\ \A a \in Attempts : att[a].at \in Guarded => Keeps(a)
  /\ \A a \in Attempts : att[a].at \in Marked => inFlight[home[a]]
  /\ \A a, b \in Attempts : att[a].at \in Marked /\ att[b].at \in Marked /\ home[a] = home[b] => a = b

\* Whatever is about to be saved plans the next run of an active cron task, but for
\* the outcome of a run that was to be the only one.
Planned(rec) == rec.cron /\ rec.status = "active" => rec.next # "none"
WillPlan(at) ==
  /\ at.at \in Saves /\ (at.at = "saving" => at.task.cron) => Planned(at.seen)
  /\ at.at = "persisting" /\ at.task.cron => at.task.next = "later"
Planning == (admin # Nobody => Planned(admin.rec)) /\ \A a \in Attempts : WillPlan(att[a])

SInv == TypeOK /\ Exclusion /\ Planning

LEMMA SchedulerStart == Init => SInv
<1> SUFFICES ASSUME Init PROVE SInv
  OBVIOUS
<1>1. NoRow \in Row
  BY SchedulerAssumption DEF SchedulerAssumption, NoRow, Row, Statuses
<1>2. row \in Row
  BY DEF Init
<1>3. Resting \in Attempt /\ Resting.at \notin Marked /\ WillPlan(Resting)
  BY <1>1, SchedulerAssumption DEF SchedulerAssumption, Resting, Attempt, Stages, Guarded, Marked, WillPlan, Saves
<1>4. Guarded \subseteq Marked
  BY DEF Marked
<1>5. TypeOK
  <2>1. att \in [Attempts -> Attempt] /\ inFlight \in [Procs -> BOOLEAN]
    BY <1>3 DEF Init
  <2>2. edits \in 0 .. MaxEdits /\ faults \in 0 .. MaxFaults
    BY SchedulerAssumption DEF SchedulerAssumption, Init
  <2>3. lock \in [Keys -> Attempts \cup {Free}] /\ watched \subseteq Attempts \X Keys
    BY DEF Init
  <2> QED
    BY <1>2, <2>1, <2>2, <2>3 DEF TypeOK, Init, Attempt
<1>6. Exclusion
  BY <1>3, <1>4 DEF Exclusion, Init
<1>7. Planning
  BY <1>2, <1>3 DEF Planning, Init
<1> QED
  BY <1>5, <1>6, <1>7 DEF SInv

-----------------------------------------------------------------------------
(* Moving one dispatch                                                     *)

LEMMA NoRowTyped == NoRow \in Row
BY SchedulerAssumption DEF SchedulerAssumption, NoRow, Row, Statuses

Moved(a, rec) == att' = [att EXCEPT ![a] = rec]

LEMMA MovedTyped ==
  ASSUME TypeOK, NEW a \in Attempts, NEW rec \in Attempt, Moved(a, rec)
  PROVE  /\ att' \in [Attempts -> Attempt] /\ att'[a] = rec
         /\ \A b \in Attempts : b # a => att'[b] = att[b]
BY DEF TypeOK, Attempt, Moved

GoneTo(a, stage) ==
  [at |-> stage, manual |-> att[a].manual, key |-> att[a].key, seen |-> NoRow,
   task |-> IF stage \in {"leaving", "unlocked"} THEN NoRow ELSE att[a].task]

LEMMA GoTyped ==
  ASSUME TypeOK, NEW a \in Attempts, NEW stage \in Stages, Go(a, stage)
  PROVE  GoneTo(a, stage) \in Attempt /\ Moved(a, GoneTo(a, stage))
<1>1. att[a] \in Attempt
  BY DEF TypeOK, Attempt
<1>2. GoneTo(a, stage) \in Attempt
  BY <1>1, NoRowTyped DEF GoneTo, Attempt
<1>3. att \in [Attempts -> Attempt]
  BY DEF TypeOK, Attempt
<1>4. /\ DOMAIN att' = Attempts /\ att' = [b \in DOMAIN att' |-> att'[b]]
      /\ \A b \in Attempts : b # a => att'[b] = att[b]
  BY <1>3 DEF Go
<1>5. /\ att'[a].at = stage /\ att'[a].manual = att[a].manual /\ att'[a].key = att[a].key
      /\ att'[a].seen = NoRow
      /\ att'[a].task = (IF stage \in {"leaving", "unlocked"} THEN NoRow ELSE att[a].task)
  BY <1>1, <1>3 DEF Go, Attempt
<1>6. att'[a] = GoneTo(a, stage)
  BY <1>1, <1>3, <1>5 DEF Go, Attempt, GoneTo
<1>7. Moved(a, GoneTo(a, stage))
  BY <1>3, <1>4, <1>6 DEF Moved
<1> QED
  BY <1>2, <1>7

LEMMA RestingTyped == Resting \in Attempt /\ Resting.at \notin Marked /\ WillPlan(Resting)
BY NoRowTyped, SchedulerAssumption DEF SchedulerAssumption, Resting, Attempt, Stages, Guarded, Marked, WillPlan, Saves

\* The counters and witnesses of the model.
Counters ==
  /\ edits \in 0 .. MaxEdits /\ faults \in 0 .. MaxFaults
  /\ settled \in BOOLEAN /\ done \in BOOLEAN

LEMMA FaultCounts ==
  ASSUME faults \in 0 .. MaxFaults, Fault \/ UNCHANGED faults PROVE faults' \in 0 .. MaxFaults
BY SchedulerAssumption DEF SchedulerAssumption, Fault

\* A dispatch that moves on within what it holds, or ends what it had not claimed.
LEMMA MoveKeeps ==
  ASSUME SInv, NEW a \in Attempts, NEW rec \in Attempt, Moved(a, rec),
         UNCHANGED <<home, lock, watched, inFlight, lost, admin>>,
         rec.at \in Guarded => att[a].at \in Guarded /\ rec.key = att[a].key,
         rec.at \in Marked => att[a].at \in Marked,
         WillPlan(rec), row' \in Row, Counters'
  PROVE  SInv'
<1>1. TypeOK /\ Exclusion /\ Planning
  BY DEF SInv
<1>2. /\ att' \in [Attempts -> Attempt] /\ att'[a] = rec
      /\ \A b \in Attempts : b # a => att'[b] = att[b]
  BY <1>1, MovedTyped
<1>3. TypeOK'
  BY <1>1, <1>2 DEF TypeOK, Counters, Attempt
<1>4. \A b \in Attempts : /\ att'[b].at \in Guarded => att[b].at \in Guarded /\ att'[b].key = att[b].key
                          /\ att'[b].at \in Marked => att[b].at \in Marked
  BY <1>2
<1>5. Exclusion'
  BY <1>1, <1>4 DEF Exclusion, Keeps
<1>6. Planning'
  BY <1>1, <1>2 DEF Planning
<1> QED
  BY <1>3, <1>5, <1>6 DEF SInv

-----------------------------------------------------------------------------
(* Edits of one dispatch                                                   *)

TaskEdited(a, s, r) == att' = [att EXCEPT ![a].at = s, ![a].task = r]

LEMMA TaskEdit ==
  ASSUME TypeOK, NEW a \in Attempts, NEW s \in Stages, NEW r \in Row, TaskEdited(a, s, r)
  PROVE  \E rec \in Attempt : Moved(a, rec) /\ rec.at = s /\ rec.task = r /\ rec.key = att[a].key
<1> DEFINE rec == [at |-> s, manual |-> att[a].manual, key |-> att[a].key, task |-> r, seen |-> att[a].seen]
<1>1. att \in [Attempts -> Attempt] /\ att[a] \in Attempt
  BY DEF TypeOK, Attempt
<1>2. DOMAIN att' = Attempts /\ (\A b \in Attempts : b # a => att'[b] = att[b])
      /\ att' = [b \in DOMAIN att' |-> att'[b]]
  BY <1>1 DEF TaskEdited
<1>3. att'[a] = rec
  BY <1>1 DEF TaskEdited, Attempt
<1>4. rec \in Attempt /\ Moved(a, rec)
  BY <1>1, <1>2, <1>3 DEF Moved, Attempt
<1> QED
  BY <1>4

SeenEdited(a, s, r) == att' = [att EXCEPT ![a].at = s, ![a].seen = r]

LEMMA SeenEdit ==
  ASSUME TypeOK, NEW a \in Attempts, NEW s \in Stages, NEW r \in Row, SeenEdited(a, s, r)
  PROVE  \E rec \in Attempt : /\ Moved(a, rec) /\ rec.at = s /\ rec.seen = r
                              /\ rec.key = att[a].key /\ rec.task = att[a].task
<1> DEFINE rec == [at |-> s, manual |-> att[a].manual, key |-> att[a].key, task |-> att[a].task, seen |-> r]
<1>1. att \in [Attempts -> Attempt] /\ att[a] \in Attempt
  BY DEF TypeOK, Attempt
<1>2. DOMAIN att' = Attempts /\ (\A b \in Attempts : b # a => att'[b] = att[b])
      /\ att' = [b \in DOMAIN att' |-> att'[b]]
  BY <1>1 DEF SeenEdited
<1>3. att'[a] = rec
  BY <1>1 DEF SeenEdited, Attempt
<1>4. rec \in Attempt /\ Moved(a, rec)
  BY <1>1, <1>2, <1>3 DEF Moved, Attempt
<1> QED
  BY <1>4

LEMMA ListEdit ==
  ASSUME TypeOK, NEW a \in Attempts, NEW m \in BOOLEAN,
         att' = [att EXCEPT ![a].at = "listed", ![a].manual = m, ![a].task = row]
  PROVE  \E rec \in Attempt : Moved(a, rec) /\ rec.at = "listed"
<1> DEFINE rec == [at |-> "listed", manual |-> m, key |-> att[a].key, task |-> row, seen |-> att[a].seen]
<1>1. att \in [Attempts -> Attempt] /\ att[a] \in Attempt /\ row \in Row
  BY DEF TypeOK, Attempt
<1>2. DOMAIN att' = Attempts /\ (\A b \in Attempts : b # a => att'[b] = att[b])
      /\ att' = [b \in DOMAIN att' |-> att'[b]]
  BY <1>1
<1>3. att'[a] = rec
  BY <1>1 DEF Attempt
<1>4. rec \in Attempt /\ Moved(a, rec)
  BY <1>1, <1>2, <1>3 DEF Moved, Attempt, Stages
<1> QED
  BY <1>4

\* Stages at which nothing is about to be saved.
LEMMA EasyStages ==
  ASSUME NEW rec, rec.at \in Stages, rec.at \notin Saves \cup {"persisting"}
  PROVE  WillPlan(rec)
BY DEF WillPlan

LEMMA StagesOfBusy ==
  /\ Guarded \subseteq Marked /\ Marked \subseteq Stages
  /\ Saves \subseteq Guarded /\ "persisting" \in Guarded
  /\ "listed" \notin Marked /\ "triggered" \notin Marked /\ "idle" \notin Marked
  /\ "listed" \in Stages /\ "triggered" \in Stages
  /\ {"claimed", "unlocked"} \cap Guarded = {}
BY DEF Guarded, Marked, Stages, Saves

LEMMA CountersKept ==
  ASSUME SInv, UNCHANGED <<faults, admin, edits, settled, done>> PROVE Counters'
BY DEF SInv, TypeOK, Counters

\* Steps that only move a dispatch and leave the row as it is.
LEMMA QuietKeeps ==
  ASSUME SInv, NEW a \in Attempts, NEW rec \in Attempt, Moved(a, rec),
         UNCHANGED <<home, row, lock, watched, inFlight, lost, admin>>, Counters',
         rec.at \in Guarded => att[a].at \in Guarded /\ rec.key = att[a].key,
         rec.at \in Marked => att[a].at \in Marked,
         WillPlan(rec)
  PROVE  SInv'
<1>1. row' \in Row
  BY DEF SInv, TypeOK
<1> QED
  BY <1>1, MoveKeeps

\* Most of them go on to a stage at which nothing is saved.
LEMMA GoKeeps ==
  ASSUME SInv, NEW a \in Attempts, NEW s \in Stages, Go(a, s),
         UNCHANGED <<home, row, lock, watched, inFlight, lost, admin>>, Counters',
         s \in Guarded => att[a].at \in Guarded, s \in Marked => att[a].at \in Marked,
         s \notin Saves \cup {"persisting"}
  PROVE  SInv'
<1>1. GoneTo(a, s) \in Attempt /\ Moved(a, GoneTo(a, s))
  BY GoTyped DEF SInv
<1>2. GoneTo(a, s).at = s /\ GoneTo(a, s).key = att[a].key
  BY DEF GoneTo
<1>3. WillPlan(GoneTo(a, s))
  BY <1>2, EasyStages
<1> QED
  BY <1>1, <1>2, <1>3, QuietKeeps

-----------------------------------------------------------------------------
(* The dispatch between the lock and its release                           *)

Outcomes(task) == {AfterSuccess(task), Retried(task), GivenUp(task)}
OutcomePlans(rec) == rec.cron => rec.next = "later"

LEMMA OutcomesPlan ==
  ASSUME NEW task \in Row, NEW rec \in Outcomes(task) PROVE rec \in Row /\ OutcomePlans(rec)
<1>1. task.status \in Statuses /\ "finished" \in Statuses
  BY DEF Row, Statuses
<1>2. PICK status \in Statuses, next \in {"none", "later"} :
        /\ rec = [task EXCEPT !.status = status, !.next = next]
        /\ task.cron => next = "later"
  <2>1. CASE rec = AfterSuccess(task)
    BY <1>1, <2>1 DEF AfterSuccess, Row
  <2>2. CASE rec \in {Retried(task), GivenUp(task)}
    BY <1>1, <2>2 DEF Retried, GivenUp, Row
  <2> QED
    BY <2>1, <2>2 DEF Outcomes
<1>3. rec \in Row /\ rec.cron = task.cron /\ rec.next = next
  BY <1>1, <1>2 DEF Row
<1> QED
  BY <1>2, <1>3 DEF OutcomePlans

LEMMA MergedPlans ==
  ASSUME NEW task \in Row, NEW fresh \in Row
  PROVE  /\ Merged(task, fresh) \in Row
         /\ OutcomePlans(task) /\ task.cron => Planned(Merged(task, fresh))
BY DEF Merged, Row, Statuses, Planned, OutcomePlans

LEMMA ListingKeeps ==
  ASSUME SInv, NEW a \in Attempts, List(a) \/ RunNow(a) \/ Trigger(a) PROVE SInv'
<1>1. CASE List(a)
  <2>1. Counters' /\ admin' = admin
    BY <1>1, CountersKept DEF List, AdminsQuiet
  <2>2. PICK rec \in Attempt : Moved(a, rec) /\ rec.at = "listed"
    BY <1>1, ListEdit DEF List, SInv
  <2>3. WillPlan(rec)
    BY <2>2 DEF WillPlan, Saves
  <2> QED
    BY <1>1, <2>1, <2>2, <2>3, StagesOfBusy, QuietKeeps DEF List
<1>2. CASE RunNow(a)
  <2>1. Counters'
    BY <1>2, SchedulerAssumption DEF SchedulerAssumption, RunNow, Counters, SInv, TypeOK
  <2>2. Go(a, "triggered") /\ UNCHANGED <<home, row, lock, watched, inFlight, lost, admin>>
    BY <1>2 DEF RunNow
  <2>3. "triggered" \notin Saves \cup {"persisting"}
    BY DEF Saves
  <2> QED
    BY <2>1, <2>2, <2>3, StagesOfBusy, GoKeeps
<1>3. CASE Trigger(a)
  <2>1. Counters' /\ admin' = admin
    BY <1>3, CountersKept DEF Trigger, AdminsQuiet
  <2>2. PICK rec \in Attempt : Moved(a, rec) /\ rec.at = "listed"
    BY <1>3, ListEdit DEF Trigger, SInv
  <2>3. WillPlan(rec)
    BY <2>2 DEF WillPlan, Saves
  <2> QED
    BY <1>3, <2>1, <2>2, <2>3, StagesOfBusy, QuietKeeps DEF Trigger
<1> QED
  BY <1>1, <1>2, <1>3

LEMMA RereadKeeps == ASSUME SInv, NEW a \in Attempts, Reread(a) PROVE SInv'
<1>1. /\ UNCHANGED <<home, row, lock, watched, inFlight, lost, admin>> /\ Counters'
      /\ att[a].at \in Guarded
  BY CountersKept DEF Reread, AdminsQuiet, Guarded
<1>2. CASE \E s \in {"leaving", "ready"} : Go(a, s)
  <2>1. PICK s \in {"leaving", "ready"} : Go(a, s)
    BY <1>2
  <2>2. s \in Stages /\ s \in Guarded /\ s \notin Saves \cup {"persisting"} /\ att[a].at \in Marked
    BY <1>1, StagesOfBusy DEF Guarded, Stages, Saves
  <2> QED
    BY <1>1, <2>1, <2>2, GoKeeps
<1>3. CASE att' = [att EXCEPT ![a].at = "ready", ![a].task = row]
  <2>1. "ready" \in Stages /\ row \in Row /\ TypeOK /\ att[a].at \in Marked
    BY <1>1, StagesOfBusy DEF Stages, Guarded, SInv, TypeOK
  <2>2. TaskEdited(a, "ready", row)
    BY <1>3 DEF TaskEdited
  <2>3. PICK rec \in Attempt : Moved(a, rec) /\ rec.at = "ready" /\ rec.key = att[a].key
    BY <2>1, <2>2, TaskEdit
  <2>4. WillPlan(rec)
    BY <2>3 DEF WillPlan, Saves
  <2> QED
    BY <1>1, <2>1, <2>3, <2>4, QuietKeeps
<1> QED
  BY <1>2, <1>3 DEF Reread

LEMMA StepsOnKeep ==
  ASSUME SInv, NEW a \in Attempts,
         Check(a) \/ RereadFails(a) \/ ShiftFails(a) \/ Start(a) \/ StartFails(a)
           \/ SaveFails(a) \/ UnlockFails(a)
  PROVE  SInv'
<1>1. UNCHANGED <<home, row, lock, watched, inFlight, lost, admin, edits, settled, done>>
  BY DEF Check, RereadFails, ShiftFails, After, Start, StartFails, SaveFails, UnlockFails, AdminsQuiet
<1>2. faults' \in 0 .. MaxFaults
  <2>1. faults \in 0 .. MaxFaults
    BY DEF SInv, TypeOK
  <2>2. Fault \/ UNCHANGED faults
    BY DEF Check, RereadFails, ShiftFails, After, Start, StartFails, SaveFails, UnlockFails
  <2> QED
    BY <2>1, <2>2, FaultCounts
<1>3. Counters'
  BY <1>1, <1>2 DEF Counters, SInv, TypeOK
<1>4. att[a].at \in Guarded /\ att[a].at \in Marked
  BY StagesOfBusy DEF Check, RereadFails, ShiftFails, After, Start, StartFails, SaveFails, UnlockFails, Guarded
<1>5. \E s \in {"leaving", "deferring", "starting", "leasing", "running", "unlocked"} :
        /\ Go(a, s)
        /\ s = "unlocked" => UnlockFails(a)
  BY DEF Check, RereadFails, ShiftFails, After, Start, StartFails, SaveFails, UnlockFails
<1>6. PICK s \in {"leaving", "deferring", "starting", "leasing", "running", "unlocked"} : Go(a, s)
  BY <1>5
<1>7. s \in Stages /\ s \notin Saves \cup {"persisting"}
  BY DEF Stages, Guarded, Saves
<1> QED
  BY <1>1, <1>3, <1>4, <1>6, <1>7, GoKeeps

LEMMA ShiftKeeps ==
  ASSUME SInv, NEW a \in Attempts, ShiftRead(a) \/ ShiftSave(a) PROVE SInv'
<1>1. /\ UNCHANGED <<home, lock, watched, inFlight, lost, admin>> /\ Counters'
      /\ att[a].at \in Guarded /\ att[a].at \in Marked
  BY CountersKept, StagesOfBusy DEF ShiftRead, ShiftSave, AdminsQuiet, Guarded
<1>2. TypeOK /\ row \in Row
  BY DEF SInv, TypeOK
<1>3. After(att[a].at) \in {"leaving", "starting"}
  BY DEF After
<1>4. /\ After(att[a].at) \in Stages /\ After(att[a].at) \in Guarded
      /\ After(att[a].at) \notin Saves \cup {"persisting"}
  BY <1>3 DEF Stages, Guarded, Saves
<1>5. CASE ShiftRead(a)
  <2>1. CASE Go(a, After(att[a].at))
    BY <1>1, <1>4, <1>5, <2>1, GoKeeps DEF ShiftRead
  <2>2. CASE att' = [att EXCEPT
              ![a].at = IF att[a].at = "deferring" THEN "deferSave" ELSE "leaseSave",
              ![a].seen = [row EXCEPT !.next = "later"]]
    <3>1. /\ (IF att[a].at = "deferring" THEN "deferSave" ELSE "leaseSave") \in Stages
          /\ [row EXCEPT !.next = "later"] \in Row /\ Planned([row EXCEPT !.next = "later"])
      BY <1>2 DEF Stages, Guarded, Row, Planned
    <3>2. PICK s \in {"deferSave", "leaseSave"} :
            SeenEdited(a, s, [row EXCEPT !.next = "later"])
      BY <2>2 DEF SeenEdited
    <3>3. s \in Stages
      BY DEF Stages, Guarded
    <3>4. PICK rec \in Attempt : /\ Moved(a, rec) /\ rec.at = s
                                 /\ rec.seen = [row EXCEPT !.next = "later"] /\ rec.key = att[a].key
      BY <1>2, <3>1, <3>2, <3>3, SeenEdit
    <3>5. WillPlan(rec) /\ rec.at \in {"deferSave", "leaseSave"}
      BY <3>1, <3>4 DEF WillPlan
    <3> QED
      BY <1>1, <1>5, <3>4, <3>5, QuietKeeps DEF ShiftRead
  <2> QED
    BY <1>5, <2>1, <2>2 DEF ShiftRead
<1>6. CASE ShiftSave(a)
  <2>1. row' = att[a].seen /\ Go(a, After(att[a].at)) /\ att[a].at \in Saves
    BY <1>6 DEF ShiftSave, Saves
  <2>2. row' \in Row
    BY <1>2, <2>1 DEF TypeOK
  <2>3. GoneTo(a, After(att[a].at)) \in Attempt /\ Moved(a, GoneTo(a, After(att[a].at)))
    BY <1>2, <1>4, <2>1, GoTyped
  <2>4. GoneTo(a, After(att[a].at)).at = After(att[a].at) /\ GoneTo(a, After(att[a].at)).key = att[a].key
    BY DEF GoneTo
  <2>5. WillPlan(GoneTo(a, After(att[a].at)))
    BY <1>4, <2>4, EasyStages
  <2> QED
    BY <1>1, <1>4, <2>2, <2>3, <2>4, <2>5, MoveKeeps
<1> QED
  BY <1>5, <1>6

LEMMA RunKeeps ==
  ASSUME SInv, NEW a \in Attempts, Run(a) \/ PersistRead(a) PROVE SInv'
<1>1. /\ UNCHANGED <<home, row, lock, watched, inFlight, lost, admin>> /\ Counters'
      /\ att[a].at \in Guarded /\ att[a].at \in Marked
  BY CountersKept, StagesOfBusy DEF Run, PersistRead, AdminsQuiet, Guarded
<1>2. TypeOK /\ row \in Row /\ att[a].task \in Row
  BY DEF SInv, TypeOK
<1>3. "persisting" \in Stages /\ "saving" \in Stages
  BY DEF Stages, Guarded
<1>4. CASE Run(a)
  <2>1. PICK task \in Outcomes(att[a].task) : TaskEdited(a, "persisting", task)
    BY <1>4 DEF Run, TaskEdited, Outcomes
  <2>2. task \in Row /\ OutcomePlans(task)
    BY <1>2, OutcomesPlan
  <2>3. PICK rec \in Attempt : /\ Moved(a, rec) /\ rec.at = "persisting" /\ rec.task = task
                              /\ rec.key = att[a].key
    BY <1>2, <1>3, <2>1, <2>2, TaskEdit
  <2>4. WillPlan(rec)
    BY <2>2, <2>3 DEF WillPlan, Saves, OutcomePlans
  <2> QED
    BY <1>1, <2>3, <2>4, QuietKeeps
<1>5. CASE PersistRead(a)
  <2>1. /\ att[a].at = "persisting"
        /\ SeenEdited(a, "saving", Merged(att[a].task, row))
    BY <1>5 DEF PersistRead, SeenEdited
  <2>2. Merged(att[a].task, row) \in Row
    BY <1>2, MergedPlans
  <2>3. att[a].task.cron => Planned(Merged(att[a].task, row))
    BY <1>2, <2>1, MergedPlans DEF SInv, Planning, WillPlan, OutcomePlans
  <2>4. PICK rec \in Attempt : /\ Moved(a, rec) /\ rec.at = "saving" /\ rec.seen = Merged(att[a].task, row)
                              /\ rec.key = att[a].key /\ rec.task = att[a].task
    BY <1>2, <1>3, <2>1, <2>2, SeenEdit
  <2>5. WillPlan(rec)
    BY <2>3, <2>4 DEF WillPlan
  <2> QED
    BY <1>1, <2>4, <2>5, QuietKeeps
<1> QED
  BY <1>4, <1>5

LEMMA PersistKeeps ==
  ASSUME SInv, NEW a \in Attempts, PersistSave(a) \/ PersistBlind(a) PROVE SInv'
<1>1. /\ UNCHANGED <<home, lock, watched, inFlight, lost, admin, edits>>
      /\ Go(a, "leaving") /\ att[a].at \in Guarded /\ att[a].at \in Marked
      /\ done' \in BOOLEAN /\ settled' \in BOOLEAN
  BY StagesOfBusy DEF PersistSave, PersistBlind, AdminsQuiet, Guarded, SInv, TypeOK
<1>2. faults' \in 0 .. MaxFaults
  <2>1. faults \in 0 .. MaxFaults
    BY DEF SInv, TypeOK
  <2>2. Fault \/ UNCHANGED faults
    BY DEF PersistSave, PersistBlind
  <2> QED
    BY <2>1, <2>2, FaultCounts
<1>3. Counters'
  BY <1>1, <1>2 DEF Counters, SInv, TypeOK
<1>4. row' \in Row
  BY DEF PersistSave, PersistBlind, SInv, TypeOK
<1>5. "leaving" \in Stages /\ "leaving" \in Guarded /\ "leaving" \notin Saves \cup {"persisting"}
  BY DEF Stages, Guarded, Saves
<1>6. GoneTo(a, "leaving") \in Attempt /\ Moved(a, GoneTo(a, "leaving"))
  BY <1>1, <1>5, GoTyped DEF SInv
<1>7. GoneTo(a, "leaving").at = "leaving" /\ GoneTo(a, "leaving").key = att[a].key
  BY DEF GoneTo
<1>8. WillPlan(GoneTo(a, "leaving"))
  BY <1>5, <1>7, EasyStages
<1> QED
  BY <1>1, <1>3, <1>4, <1>6, <1>7, <1>8, MoveKeeps

-----------------------------------------------------------------------------
(* The mark and the lock                                                   *)

\* What a step at the mark or the lock leaves to be shown.
LEMMA LockStep ==
  ASSUME SInv, NEW a \in Attempts, NEW rec \in Attempt, Moved(a, rec), WillPlan(rec),
         UNCHANGED <<home, row, admin>>, Counters',
         lock' \in [Keys -> Attempts \cup {Free}], watched' \subseteq Attempts \X Keys, lost' \subseteq Attempts,
         inFlight' \in [Procs -> BOOLEAN]
  PROVE  /\ TypeOK' /\ Planning' /\ att'[a] = rec
         /\ \A b \in Attempts : b # a => att'[b] = att[b]
<1>1. TypeOK /\ Planning
  BY DEF SInv
<1>2. /\ att' \in [Attempts -> Attempt] /\ att'[a] = rec
      /\ \A b \in Attempts : b # a => att'[b] = att[b]
  BY <1>1, MovedTyped
<1>3. TypeOK'
  BY <1>1, <1>2 DEF TypeOK, Counters, Attempt
<1>4. Planning'
  BY <1>1, <1>2 DEF Planning, Planned
<1> QED
  BY <1>2, <1>3, <1>4

LEMMA ClaimKeeps == ASSUME SInv, NEW a \in Attempts, Claim(a) PROVE SInv'
<1>1. /\ UNCHANGED <<home, row, lock, watched, lost, admin>> /\ Counters'
      /\ att[a].at = "listed"
  BY CountersKept DEF Claim, AdminsQuiet
<1>2. TypeOK /\ Exclusion
  BY DEF SInv
<1>3. CASE inFlight[home[a]]
  <2>1. Moved(a, Resting) /\ UNCHANGED inFlight
    BY <1>3 DEF Claim, Rest, Moved
  <2> QED
    BY <1>1, <2>1, RestingTyped, StagesOfBusy, QuietKeeps
<1>4. CASE ~inFlight[home[a]]
  <2>1. Go(a, "claimed") /\ inFlight' = [inFlight EXCEPT ![home[a]] = TRUE]
    BY <1>4 DEF Claim
  <2>2. "claimed" \in Stages /\ "claimed" \in Marked /\ "claimed" \notin Guarded
        /\ "claimed" \notin Saves \cup {"persisting"}
    BY DEF Stages, Marked, Guarded, Saves
  <2>3. GoneTo(a, "claimed") \in Attempt /\ Moved(a, GoneTo(a, "claimed"))
    BY <1>2, <2>1, <2>2, GoTyped
  <2>4. GoneTo(a, "claimed").at = "claimed"
    BY DEF GoneTo
  <2>5. WillPlan(GoneTo(a, "claimed"))
    BY <2>2, <2>4, EasyStages
  <2>6. /\ lock' \in [Keys -> Attempts \cup {Free}] /\ watched' \subseteq Attempts \X Keys /\ lost' \subseteq Attempts
        /\ inFlight' \in [Procs -> BOOLEAN] /\ home[a] \in Procs
    BY <1>1, <1>2, <2>1 DEF TypeOK
  <2>7. /\ TypeOK' /\ Planning' /\ att'[a] = GoneTo(a, "claimed")
        /\ \A b \in Attempts : b # a => att'[b] = att[b]
    BY <1>1, <2>3, <2>5, <2>6, LockStep
  \* Nobody of the same process was at work, for nobody had set the mark.
  <2>8. \A b \in Attempts : home[b] = home[a] => att[b].at \notin Marked
    BY <1>2, <1>4 DEF Exclusion
  <2>9. \A p \in Procs : inFlight[p] => inFlight'[p]
    BY <1>2, <2>1 DEF TypeOK
  <2>10. inFlight'[home[a]]
    BY <1>2, <2>1, <2>6 DEF TypeOK
  <2>11. \A b \in Attempts : home[b] \in Procs
    BY <1>2 DEF TypeOK
  <2>12. Exclusion'
    <3>1. ASSUME NEW b \in Attempts, att'[b].at \in Guarded
          PROVE  Keeps(b)'
      BY <1>1, <1>2, <2>2, <2>4, <2>7, <3>1 DEF Exclusion, Keeps
    <3>2. ASSUME NEW b \in Attempts, att'[b].at \in Marked PROVE inFlight'[home'[b]]
      BY <1>1, <1>2, <2>7, <2>9, <2>10, <2>11, <3>2 DEF Exclusion
    <3>3. ASSUME NEW b \in Attempts, NEW c \in Attempts,
                 att'[b].at \in Marked, att'[c].at \in Marked, home'[b] = home'[c]
          PROVE  b = c
      BY <1>1, <1>2, <2>7, <2>8, <3>3 DEF Exclusion
    <3> QED
      BY <3>1, <3>2, <3>3 DEF Exclusion
  <2> QED
    BY <2>7, <2>12 DEF SInv
<1> QED
  BY <1>3, <1>4

\* A mark that its owner gives back is no other's.
LEMMA GivingBack ==
  ASSUME SInv, NEW a \in Attempts, att[a].at \in Marked, GiveBack(a)
  PROVE  /\ inFlight' \in [Procs -> BOOLEAN]
         /\ \A b \in Attempts : b # a /\ att[b].at \in Marked => inFlight'[home[b]]
<1>1. \A b \in Attempts : b # a /\ att[b].at \in Marked => home[b] # home[a] /\ inFlight[home[b]]
  BY DEF SInv, Exclusion
<1>2. inFlight \in [Procs -> BOOLEAN] /\ \A b \in Attempts : home[b] \in Procs
  BY DEF SInv, TypeOK
<1> QED
  BY <1>1, <1>2 DEF GiveBack

\* The dispatch ends: it did not get the lock, or has released it.
LEMMA EndKeeps ==
  ASSUME SInv, NEW a \in Attempts, att[a].at \in {"claimed", "unlocked"}, GiveBack(a), Rest(a),
         UNCHANGED <<home, row, admin, watched>>, Counters',
         lock' \in [Keys -> Attempts \cup {Free}],
         \A k \in Keys : lock'[k] = lock[k] \/ lock[k] = Free,
         lost' \in {lost, lost \ {a}}
  PROVE  SInv'
<1>1. TypeOK /\ Exclusion /\ att[a].at \in Marked /\ Moved(a, Resting)
  BY DEF SInv, Marked, Rest, Moved
<1>2. /\ watched' \subseteq Attempts \X Keys /\ lost' \subseteq Attempts
      /\ inFlight' \in [Procs -> BOOLEAN]
      /\ \A b \in Attempts : b # a /\ att[b].at \in Marked => inFlight'[home[b]]
  BY <1>1, GivingBack DEF TypeOK
<1>3. /\ TypeOK' /\ Planning' /\ att'[a] = Resting
      /\ \A b \in Attempts : b # a => att'[b] = att[b]
  BY <1>1, <1>2, RestingTyped, LockStep
<1>4. Free \notin Attempts
  BY SchedulerAssumption DEF SchedulerAssumption
<1>5. Exclusion'
  <2>1. ASSUME NEW b \in Attempts, att'[b].at \in Marked PROVE b # a /\ att[b] = att'[b]
    BY <1>3, <2>1, RestingTyped
  <2>2. ASSUME NEW b \in Attempts, att'[b].at \in Guarded PROVE Keeps(b)'
    <3>1. b # a /\ att[b] = att'[b] /\ Keeps(b) /\ att[b].key \in Keys
      BY <1>1, <2>1, <2>2, StagesOfBusy DEF Exclusion, TypeOK
    <3> QED
      BY <1>4, <3>1 DEF Keeps
  <2>3. ASSUME NEW b \in Attempts, att'[b].at \in Marked PROVE inFlight'[home'[b]]
    BY <1>2, <2>1, <2>3
  <2>4. ASSUME NEW b \in Attempts, NEW c \in Attempts,
               att'[b].at \in Marked, att'[c].at \in Marked, home'[b] = home'[c]
        PROVE  b = c
    BY <1>1, <2>1, <2>4 DEF Exclusion
  <2> QED
    BY <2>2, <2>3, <2>4 DEF Exclusion
<1> QED
  BY <1>3, <1>5 DEF SInv

\* The lock is taken or released while the mark stands.
LEMMA LockKeeps ==
  ASSUME SInv, NEW a \in Attempts, NEW rec \in Attempt, Moved(a, rec),
         att[a].at \in {"claimed", "leaving"}, rec.at \in {"locked", "unlocked"},
         UNCHANGED <<home, row, admin, inFlight, lost>>, Counters',
         rec.at = "locked" => /\ lock[rec.key] = Free /\ lock' = [lock EXCEPT ![rec.key] = a]
                              /\ watched' = watched \cup {<<a, rec.key>>},
         rec.at = "unlocked" =>
           /\ lock' = [lock EXCEPT ![att[a].key] = IF lock[att[a].key] = a THEN Free ELSE lock[att[a].key]]
           /\ watched' = watched \ {<<a, att[a].key>>}
  PROVE  SInv'
<1>1. TypeOK /\ Exclusion /\ att[a].at \in Marked /\ Free \notin Attempts
  BY SchedulerAssumption DEF SchedulerAssumption, SInv, Marked, Guarded
<1>2. /\ rec.at \in Stages /\ rec.at \notin Saves \cup {"persisting"} /\ "unlocked" \notin Guarded
      /\ rec.key \in Keys /\ \A b \in Attempts : att[b].key \in Keys
  BY <1>1 DEF Stages, Marked, Guarded, Saves, Attempt, TypeOK
<1>3. WillPlan(rec)
  BY <1>2, EasyStages
<1>4. /\ lock \in [Keys -> Attempts \cup {Free}] /\ lock' \in [Keys -> Attempts \cup {Free}]
      /\ watched' \subseteq Attempts \X Keys /\ lost' \subseteq Attempts
      /\ inFlight' \in [Procs -> BOOLEAN]
  <2>1. CASE rec.at = "locked"
    BY <1>1, <1>2, <2>1 DEF TypeOK
  <2>2. CASE rec.at = "unlocked"
    BY <1>1, <1>2, <2>2 DEF TypeOK
  <2> QED
    BY <2>1, <2>2
<1>5. /\ TypeOK' /\ Planning' /\ att'[a] = rec
      /\ \A b \in Attempts : b # a => att'[b] = att[b]
  BY <1>3, <1>4, LockStep
<1>6. Exclusion'
  <2>1. ASSUME NEW b \in Attempts, att'[b].at \in Guarded, b # a PROVE Keeps(b)'
    <3>1. att'[b] = att[b] /\ Keeps(b) /\ att[b].key \in Keys
      BY <1>1, <1>2, <1>5, <2>1 DEF Exclusion
    <3>2. lock'[att[b].key] = lock[att[b].key] \/ lock[att[b].key] \in {Free, a}
      <4>1. CASE rec.at = "locked"
        BY <1>2, <1>4, <3>1, <4>1
      <4>2. CASE rec.at = "unlocked"
        BY <1>2, <1>4, <3>1, <4>2
      <4> QED
        BY <4>1, <4>2
    <3>3. \A k \in Keys : <<b, k>> \in watched => <<b, k>> \in watched'
      BY <2>1
    <3> QED
      BY <1>1, <2>1, <3>1, <3>2, <3>3 DEF Keeps
  <2>2. ASSUME att'[a].at \in Guarded PROVE Keeps(a)'
    <3>1. rec.at = "locked"
      BY <1>2, <1>5, <2>2
    <3> QED
      BY <1>2, <1>4, <1>5, <3>1 DEF Keeps
  <2>3. \A b \in Attempts : att'[b].at \in Marked => att[b].at \in Marked
    BY <1>1, <1>5
  <2> QED
    BY <1>1, <2>1, <2>2, <2>3 DEF Exclusion
<1> QED
  BY <1>5, <1>6 DEF SInv

\* The key is that of the row the dispatch was handed.
LEMMA TakingMoves ==
  ASSUME TypeOK, NEW a \in Attempts, Takes(a)
  PROVE  \E rec \in Attempt : Moved(a, rec) /\ rec.at = "locked" /\ rec.key = KeyOf(a)
<1> DEFINE rec == [at |-> "locked", manual |-> att[a].manual, key |-> att[a].task.key,
                   task |-> att[a].task, seen |-> att[a].seen]
<1>1. att \in [Attempts -> Attempt] /\ att[a] \in Attempt /\ att[a].task.key \in Keys
  BY DEF TypeOK, Attempt, Row
<1>2. att' = [att EXCEPT ![a].at = "locked", ![a].key = att[a].task.key]
  BY DEF Takes, KeyOf
<1>3. DOMAIN att' = Attempts /\ (\A b \in Attempts : b # a => att'[b] = att[b])
      /\ att' = [b \in DOMAIN att' |-> att'[b]]
  BY <1>1, <1>2
<1>4. att'[a] = rec
  BY <1>1, <1>2 DEF Attempt
<1>5. rec \in Attempt /\ Moved(a, rec)
  BY <1>1, <1>3, <1>4 DEF Moved, Attempt, Stages, Guarded
<1> QED
  BY <1>5 DEF KeyOf

LEMMA AcquireKeeps ==
  ASSUME SInv, NEW a \in Attempts, Acquire(a) \/ AcquireFails(a) PROVE SInv'
<1>1. att[a].at = "claimed" /\ UNCHANGED <<home, row, lost, admin, edits, settled, done>>
  BY DEF Acquire, AcquireFails, AdminsQuiet
<1>2. faults' \in 0 .. MaxFaults
  <2>1. faults \in 0 .. MaxFaults
    BY DEF SInv, TypeOK
  <2>2. Fault \/ UNCHANGED faults
    BY DEF Acquire, AcquireFails
  <2> QED
    BY <2>1, <2>2, FaultCounts
<1>3. Counters'
  BY <1>1, <1>2 DEF Counters, SInv, TypeOK
<1>4. TypeOK /\ lock \in [Keys -> Attempts \cup {Free}] /\ KeyOf(a) \in Keys
  BY DEF SInv, TypeOK, KeyOf, Row
<1>5. CASE Takes(a) /\ UNCHANGED inFlight
  <2>1. PICK rec \in Attempt : Moved(a, rec) /\ rec.at = "locked" /\ rec.key = KeyOf(a)
    BY <1>4, <1>5, TakingMoves
  <2>2. /\ lock[rec.key] = Free /\ lock' = [lock EXCEPT ![rec.key] = a]
        /\ watched' = watched \cup {<<a, rec.key>>}
    BY <1>5, <2>1 DEF Takes
  <2> QED
    BY <1>1, <1>3, <1>5, <2>1, <2>2, LockKeeps
<1>6. CASE /\ GiveBack(a) /\ Rest(a) /\ UNCHANGED watched
           /\ \/ UNCHANGED lock
              \/ lock[KeyOf(a)] = Free /\ lock' = [lock EXCEPT ![KeyOf(a)] = a]
  <2>1. /\ lock' \in [Keys -> Attempts \cup {Free}]
        /\ \A k \in Keys : lock'[k] = lock[k] \/ lock[k] = Free
    BY <1>4, <1>6
  <2> QED
    BY <1>1, <1>3, <1>6, <2>1, EndKeeps
<1> QED
  BY <1>5, <1>6 DEF Acquire, AcquireFails

LEMMA ReleaseKeeps ==
  ASSUME SInv, NEW a \in Attempts, Unlock(a) \/ Forget(a) PROVE SInv'
<1>1. UNCHANGED <<home, row, admin>> /\ Counters'
  BY CountersKept DEF Unlock, Forget, AdminsQuiet
<1>2. CASE Unlock(a)
  <2>1. /\ Go(a, "unlocked") /\ att[a].at = "leaving" /\ UNCHANGED <<inFlight, lost>>
        /\ lock' = [lock EXCEPT ![att[a].key] = IF lock[att[a].key] = a THEN Free ELSE lock[att[a].key]]
        /\ watched' = watched \ {<<a, att[a].key>>}
    BY <1>2 DEF Unlock, Unlocked
  <2>2. "unlocked" \in Stages
    BY DEF Stages
  <2>3. GoneTo(a, "unlocked") \in Attempt /\ Moved(a, GoneTo(a, "unlocked"))
        /\ GoneTo(a, "unlocked").at = "unlocked"
    BY <2>1, <2>2, GoTyped DEF SInv, GoneTo
  <2> HIDE DEF GoneTo
  <2> QED
    BY <1>1, <2>1, <2>3, LockKeeps
<1>3. CASE Forget(a)
  <2>1. lock' \in [Keys -> Attempts \cup {Free}] /\ lock' = lock
    BY <1>3 DEF Forget, SInv, TypeOK
  <2> QED
    BY <1>1, <1>3, <2>1, EndKeeps DEF Forget
<1> QED
  BY <1>2, <1>3

-----------------------------------------------------------------------------
(* The clock, Redis, the processes and the administrators                  *)

LEMMA LockEnds == ASSUME SInv, Expire \/ Lapse PROVE SInv'
<1>1. TypeOK /\ Exclusion /\ Planning
  BY DEF SInv
<1>2. UNCHANGED <<home, row, watched, inFlight, att, admin, edits, settled, done>>
  BY DEF Expire, Lapse, AdminsQuiet
<1>3. PICK k \in Keys :
        /\ lock' = [lock EXCEPT ![k] = Free]
        /\ \/ <<lock[k], k>> \notin watched /\ lost' = lost
           \/ lost' = lost \cup {a \in Region : lock[k] = a /\ att[a].key = k}
  BY DEF Expire, Lapse
<1>4. faults' \in 0 .. MaxFaults
  <2>1. faults \in 0 .. MaxFaults
    BY <1>1 DEF TypeOK
  <2>2. Fault \/ UNCHANGED faults
    BY DEF Expire, Lapse
  <2> QED
    BY <2>1, <2>2, FaultCounts
<1>5. /\ lost' \subseteq Attempts /\ lost \subseteq lost'
      /\ lock \in [Keys -> Attempts \cup {Free}] /\ lock' \in [Keys -> Attempts \cup {Free}]
  BY <1>1, <1>3 DEF TypeOK, Region
<1>6. TypeOK'
  BY <1>1, <1>2, <1>4, <1>5 DEF TypeOK
\* A key that expires is nobody's at work; whoever loses one that lapses is put down.
<1>7. ASSUME NEW a \in Attempts, att[a].at \in Guarded PROVE Keeps(a)'
  <2>1. Keeps(a) /\ att[a].key \in Keys /\ a \in Region
    BY <1>1, <1>7 DEF Exclusion, TypeOK, Region
  <2>2. CASE att[a].key = k /\ lock[k] = a
    BY <1>2, <1>3, <1>5, <2>1, <2>2 DEF Keeps
  <2>3. CASE ~(att[a].key = k /\ lock[k] = a)
    BY <1>2, <1>3, <1>5, <2>1, <2>3 DEF Keeps
  <2> QED
    BY <2>2, <2>3
<1>8. Exclusion'
  BY <1>1, <1>2, <1>7 DEF Exclusion
<1>9. Planning'
  BY <1>1, <1>2 DEF Planning, Planned, WillPlan
<1> QED
  BY <1>6, <1>8, <1>9 DEF SInv

LEMMA CrashKeeps == ASSUME SInv, NEW p \in Procs, Crash(p) PROVE SInv'
<1> DEFINE mine == {a \in Attempts : home[a] = p}
<1>1. TypeOK /\ Exclusion /\ Planning
  BY DEF SInv
<1>2. /\ UNCHANGED <<home, row, lock, admin, edits, settled, done>> /\ Fault
      /\ att' = [a \in Attempts |-> IF a \in mine THEN Resting ELSE att[a]]
      /\ inFlight' = [inFlight EXCEPT ![p] = FALSE]
      /\ watched' = {w \in watched : w[1] \notin mine} /\ lost' = lost \ mine
  BY DEF Crash, AdminsQuiet
<1>3. att \in [Attempts -> Attempt] /\ faults \in 0 .. MaxFaults
  BY <1>1 DEF TypeOK, Attempt
<1>4. att' \in [Attempts -> Attempt] /\ faults' \in 0 .. MaxFaults
  BY <1>2, <1>3, RestingTyped, FaultCounts
<1>5. TypeOK'
  BY <1>1, <1>2, <1>4 DEF TypeOK, Attempt
<1>6. ASSUME NEW a \in Attempts, att'[a].at \in Marked
      PROVE  a \notin mine /\ home[a] # p /\ att'[a] = att[a]
  BY <1>2, <1>6, RestingTyped
<1>7. Exclusion'
  <2>1. ASSUME NEW a \in Attempts, att'[a].at \in Guarded
        PROVE  Keeps(a)'
    BY <1>1, <1>2, <1>6, <2>1, StagesOfBusy DEF Exclusion, Keeps
  <2>2. ASSUME NEW a \in Attempts, att'[a].at \in Marked PROVE inFlight'[home'[a]]
    <3>1. home[a] \in Procs /\ inFlight \in [Procs -> BOOLEAN] /\ inFlight[home[a]]
      BY <1>1, <1>6, <2>2 DEF TypeOK, Exclusion
    <3> QED
      BY <1>2, <1>6, <2>2, <3>1
  <2>3. ASSUME NEW a \in Attempts, NEW b \in Attempts,
               att'[a].at \in Marked, att'[b].at \in Marked, home'[a] = home'[b]
        PROVE  a = b
    BY <1>1, <1>2, <1>6, <2>3 DEF Exclusion
  <2> QED
    BY <2>1, <2>2, <2>3 DEF Exclusion
<1>8. Planning'
  BY <1>1, <1>2, RestingTyped DEF Planning, Planned
<1> QED
  BY <1>5, <1>7, <1>8 DEF SInv

\* What an administrator saves is planned: an update and a resumption plan anew, a
\* pause and a deletion leave nothing active.
LEMMA AdminPlans ==
  ASSUME TypeOK, NEW op \in {"update", "pause", "resume", "delete"},
         NEW next \in RunTimes, NEW cron \in BOOLEAN, NEW key \in Keys
  PROVE  AdminRow(op, next, cron, key) \in Row /\ Planned(AdminRow(op, next, cron, key))
<1>1. row \in Row
  BY DEF TypeOK
<1>2. ASSUME NEW rec \in Row
      PROVE  Replanned(rec, next) \in Row /\ Planned(Replanned(rec, next))
  <2>1. PICK n \in {"none", "due", "later"} :
          /\ Replanned(rec, next) = [rec EXCEPT !.next = n]
          /\ rec.cron /\ rec.status = "active" => n # "none"
    BY DEF Replanned, RunTimes
  <2> QED
    BY <2>1 DEF Row, Planned
<1>3. CASE op = "update"
  <2>1. [row EXCEPT !.cron = cron, !.key = key] \in Row
    BY <1>1 DEF Row
  <2> QED
    BY <1>2, <1>3, <2>1 DEF AdminRow
<1>4. CASE op = "resume"
  <2>1. [row EXCEPT !.status = "active"] \in Row
    BY <1>1 DEF Row, Statuses
  <2> QED
    BY <1>2, <1>4, <2>1 DEF AdminRow
<1>5. CASE op = "pause"
  BY <1>1, <1>5 DEF AdminRow, Paused, Row, Statuses, Planned
<1>6. CASE op = "delete"
  BY <1>1, <1>6 DEF AdminRow, Deleted, Row, Statuses, Planned
<1> QED
  BY <1>3, <1>4, <1>5, <1>6

LEMMA AdminKeeps ==
  ASSUME SInv, AdminSave \/ \E op \in {"update", "pause", "resume", "delete"} : AdminRead(op)
  PROVE  SInv'
<1>1. TypeOK /\ Exclusion /\ Planning
  BY DEF SInv
<1>2. CASE AdminSave
  <2>1. /\ admin # Nobody /\ row' = admin.rec /\ admin' = Nobody
        /\ settled' \in BOOLEAN /\ done' \in BOOLEAN
        /\ UNCHANGED <<home, lock, watched, inFlight, att, edits, faults, lost>>
    BY <1>2 DEF AdminSave
  <2>2. row' \in Row
    BY <1>1, <2>1 DEF TypeOK, Nobody
  <2>3. TypeOK'
    BY <1>1, <2>1, <2>2 DEF TypeOK
  <2>4. Exclusion'
    BY <1>1, <2>1 DEF Exclusion, Keeps
  <2>5. Planning'
    BY <1>1, <2>1, <2>2 DEF Planning, Planned, WillPlan
  <2> QED
    BY <2>3, <2>4, <2>5 DEF SInv
<1>3. CASE \E op \in {"update", "pause", "resume", "delete"} : AdminRead(op)
  <2>1. PICK op \in {"update", "pause", "resume", "delete"}, next \in RunTimes, cron \in BOOLEAN, key \in Keys :
          /\ admin' = [at |-> op, rec |-> AdminRow(op, next, cron, key)]
          /\ edits < MaxEdits /\ edits' = edits + 1
          /\ UNCHANGED <<home, row, lock, watched, inFlight, att, faults, lost, settled, done>>
    BY <1>3 DEF AdminRead
  <2>2. AdminRow(op, next, cron, key) \in Row /\ Planned(AdminRow(op, next, cron, key))
    BY <1>1, AdminPlans
  <2>3. edits' \in 0 .. MaxEdits
    BY <1>1, <2>1, SchedulerAssumption DEF SchedulerAssumption, TypeOK
  <2>4. TypeOK'
    BY <1>1, <2>1, <2>2, <2>3 DEF TypeOK
  <2>5. Exclusion'
    BY <1>1, <2>1 DEF Exclusion, Keeps
  <2>6. Planning'
    BY <1>1, <2>1, <2>2 DEF Planning, Planned, WillPlan
  <2> QED
    BY <2>4, <2>5, <2>6 DEF SInv
<1> QED
  BY <1>2, <1>3

LEMMA RestKeeps == ASSUME SInv, TimePasses \/ UNCHANGED vars PROVE SInv'
<1>1. UNCHANGED <<home, lock, watched, inFlight, att, admin, edits, faults, lost, settled, done>>
  BY DEF TimePasses, AdminsQuiet, vars
<1>2. TypeOK /\ Exclusion /\ Planning
  BY DEF SInv
<1>3. row' \in Row
  BY <1>2 DEF TimePasses, vars, TypeOK, Row
<1>4. TypeOK'
  BY <1>1, <1>2, <1>3 DEF TypeOK
<1>5. Exclusion'
  BY <1>1, <1>2 DEF Exclusion, Keeps
<1>6. Planning'
  BY <1>1, <1>2, <1>3 DEF Planning, Planned, WillPlan
<1> QED
  BY <1>4, <1>5, <1>6 DEF SInv

LEMMA SchedulerSteps == SInv /\ [Next]_vars => SInv'
<1> SUFFICES ASSUME SInv, [Next]_vars PROVE SInv'
  OBVIOUS
<1>1. CASE \E a \in Attempts : List(a) \/ RunNow(a) \/ Proceed(a) \/ Fails(a)
  BY <1>1, ListingKeeps, ClaimKeeps, AcquireKeeps, RereadKeeps, StepsOnKeep, ShiftKeeps,
     RunKeeps, PersistKeeps, ReleaseKeeps DEF Proceed, Fails
<1>2. CASE \E p \in Procs : Crash(p)
  BY <1>2, CrashKeeps
<1> QED
  BY <1>1, <1>2, LockEnds, AdminKeeps, RestKeeps DEF Next

LEMMA SchedulerInvariant == Spec => []SInv
BY SchedulerStart, SchedulerSteps, PTL DEF Spec

-----------------------------------------------------------------------------
\* Two dispatches of a task overlap only in two processes, after a lock lapsed under
\* one of them or an edit moved the task to another lock between them: the key of a
\* dispatch stays its own, and the mark of the process excludes the rest (engine.go:
\* dispatch, lock.go: watchdog).
THEOREM DispatchesStayApart == Spec => []DispatchesAreApart
<1>1. SInv => DispatchesAreApart
  <2> SUFFICES ASSUME SInv PROVE DispatchesAreApart
    OBVIOUS
  <2>1. \A a \in Region : a \in Attempts /\ att[a].at \in Guarded /\ att[a].at \in Marked
    BY StagesOfBusy DEF Region
  <2>2. HolderKeepsLock
    BY <2>1 DEF HolderKeepsLock, SInv, Exclusion, Keeps
  <2>3. OneDispatchPerProcess
    BY <2>1 DEF OneDispatchPerProcess, SInv, Exclusion
  <2> QED
    BY <2>2, <2>3 DEF DispatchesAreApart, SInv
<1> QED
  BY <1>1, SchedulerInvariant, PTL

\* An active cron task loses its next run time only to the outcome of a run that began
\* before the task was made a cron task (runner.go: shiftNextRun, persistAfterRun;
\* mutate.go: Update; actions.go: Resume).
LastOutcome == \E a \in Attempts : att[a].at = "saving" /\ att'[a].at = "leaving" /\ ~att[a].task.cron

LEMMA SavesPlan == ASSUME SInv, Next, Unplanned', ~Unplanned PROVE LastOutcome
<1>1. row' # row
  BY DEF Unplanned
<1>2. \/ TimePasses \/ AdminSave
      \/ \E a \in Attempts : ShiftSave(a) \/ PersistSave(a) \/ PersistBlind(a)
  BY <1>1 DEF Next, Proceed, Fails, List, RunNow, Trigger, Claim, Acquire, AcquireFails, Reread, RereadFails,
     Check, ShiftRead, ShiftFails, Start, StartFails, Run, PersistRead, SaveFails, Unlock, UnlockFails, Forget,
     Expire, Lapse, Crash, AdminRead
<1>3. ~Planned(row')
  BY DEF Unplanned, Planned
<1>4. ~TimePasses
  BY <1>3 DEF TimePasses, Planned, SInv, TypeOK, Row
<1>5. ~AdminSave
  BY <1>3 DEF AdminSave, SInv, Planning, Planned
<1>6. PICK a \in Attempts : ShiftSave(a) \/ PersistSave(a) \/ PersistBlind(a)
  BY <1>2, <1>4, <1>5
<1>7. WillPlan(att[a]) /\ att[a] \in Attempt /\ TypeOK
  BY DEF SInv, Planning, TypeOK, Attempt
<1>8. ~ShiftSave(a)
  BY <1>3, <1>7 DEF ShiftSave, WillPlan, Saves, Planned
<1>9. ~PersistBlind(a)
  BY <1>3, <1>7 DEF PersistBlind, WillPlan, Planned
<1>10. PersistSave(a)
  BY <1>6, <1>8, <1>9
<1>11. att[a].at = "saving" /\ ~att[a].task.cron
  BY <1>3, <1>7, <1>10 DEF PersistSave, WillPlan, Saves, Planned
<1>12. att'[a].at = "leaving"
  BY <1>7, <1>10 DEF PersistSave, Go, TypeOK, Attempt
<1> QED
  BY <1>11, <1>12 DEF LastOutcome

THEOREM CronPlansAreKept == Spec => CronKeepsItsPlan
<1>1. SInv /\ [Next]_vars =>
        [Unplanned' /\ ~Unplanned =>
           \E a \in Attempts : /\ att[a].at = "saving" /\ att'[a].at = "leaving"
                               /\ ~att[a].task.cron]_vars
  BY SavesPlan DEF LastOutcome
<1> QED
  BY <1>1, SchedulerInvariant, PTL DEF Spec, CronKeepsItsPlan

-----------------------------------------------------------------------------
(* What was decided                                                        *)

\* Stages of a dispatch that has read the task and will start its handler, or runs it.
Underway == {"ready", "deferring", "leasing", "deferSave", "leaseSave", "starting", "running"}

\* Once a decision stands, nothing that is about to be saved makes the task active
\* again; the dispatches that can still start its handler were asked for by hand.
Decided ==
  /\ settled \/ done => /\ row.status # "active"
                        /\ \A a \in Attempts : att[a].at \in Saves => att[a].seen.status # "active"
  /\ done => \A a \in Attempts : att[a].at \in Underway => att[a].manual

LEMMA DecidedMoves ==
  ASSUME TypeOK, Decided, NEW a \in Attempts, NEW rec \in Attempt, Moved(a, rec),
         UNCHANGED <<settled, done>>,
         settled \/ done => row'.status # "active" /\ (rec.at \in Saves => rec.seen.status # "active"),
         done /\ rec.at \in Underway => rec.manual
  PROVE  Decided'
<1>1. att'[a] = rec /\ \A b \in Attempts : b # a => att'[b] = att[b]
  BY MovedTyped
<1> QED
  BY <1>1 DEF Decided

LEMMA DecidedGoes ==
  ASSUME TypeOK, Decided, NEW a \in Attempts, NEW s \in Stages, Go(a, s), s \notin Saves,
         UNCHANGED <<settled, done>>, settled \/ done => row'.status # "active",
         done /\ s \in Underway => att[a].manual
  PROVE  Decided'
<1>1. GoneTo(a, s) \in Attempt /\ Moved(a, GoneTo(a, s))
  BY GoTyped
<1>2. GoneTo(a, s).at = s /\ GoneTo(a, s).manual = att[a].manual
  BY DEF GoneTo
<1> QED
  BY <1>1, <1>2, DecidedMoves

LEMMA DecidedRests ==
  ASSUME TypeOK, Decided, NEW a \in Attempts, Rest(a), UNCHANGED <<row, settled, done>>
  PROVE  Decided'
<1>1. Resting \in Attempt /\ Moved(a, Resting) /\ Resting.at \notin Saves \cup Underway
  BY RestingTyped DEF Rest, Moved, Resting, Saves, Underway
<1> QED
  BY <1>1, DecidedMoves DEF Decided

\* A run that laid its outcome over a row which is not active leaves it so.
LEMMA MergedStands ==
  ASSUME NEW task \in Row, NEW fresh \in Row, fresh.status # "active"
  PROVE  Merged(task, fresh).status # "active"
BY DEF Merged, Row

LEMMA DispatchDecides ==
  ASSUME SInv, Decided, NEW a \in Attempts,
         \/ List(a) \/ RunNow(a) \/ Trigger(a) \/ Claim(a) \/ Acquire(a) \/ AcquireFails(a)
         \/ RereadFails(a) \/ Check(a) \/ ShiftFails(a) \/ Start(a) \/ StartFails(a)
         \/ SaveFails(a) \/ Unlock(a) \/ UnlockFails(a) \/ Forget(a)
  PROVE  Decided'
<1>1. TypeOK /\ UNCHANGED <<row, settled, done>> /\ (settled \/ done => row.status # "active")
  BY DEF List, RunNow, Trigger, Claim, Acquire, AcquireFails, RereadFails, Check, ShiftFails, Start,
         StartFails, SaveFails, Unlock, UnlockFails, Forget, AdminsQuiet, SInv, Decided
<1>2. CASE Rest(a)
  BY <1>1, <1>2, DecidedRests
<1>3. CASE \E s \in {"triggered", "claimed", "leaving", "unlocked"} : Go(a, s)
  <2>1. PICK s \in {"triggered", "claimed", "leaving", "unlocked"} : Go(a, s)
    BY <1>3
  <2>2. s \in Stages /\ s \notin Saves /\ s \notin Underway
    BY DEF Stages, Guarded, Saves, Underway
  <2> QED
    BY <1>1, <2>1, <2>2, DecidedGoes
<1>4. CASE List(a) \/ Trigger(a) \/ Takes(a)
  <2>1. PICK rec \in Attempt : Moved(a, rec) /\ rec.at \in {"listed", "locked"}
    BY <1>1, <1>4, ListEdit, TakingMoves DEF List, Trigger
  <2>2. rec.at \notin Saves /\ rec.at \notin Underway
    BY <2>1 DEF Saves, Underway
  <2> QED
    BY <1>1, <2>1, <2>2, DecidedMoves
<1>5. CASE \E s \in {"deferring", "leasing", "starting", "running"} :
             Go(a, s) /\ att[a].at \in Underway
  <2>1. PICK s \in {"deferring", "leasing", "starting", "running"} : Go(a, s) /\ att[a].at \in Underway
    BY <1>5
  <2>2. s \in Stages /\ s \notin Saves
    BY DEF Stages, Guarded, Saves
  <2>3. done => att[a].manual
    BY <2>1 DEF Decided
  <2> QED
    BY <1>1, <2>1, <2>2, <2>3, DecidedGoes
<1>6. CASE Check(a) \/ ShiftFails(a) \/ Start(a)
  <2>1. /\ att[a].at \in Underway
        /\ \E s \in {"deferring", "leasing", "starting", "running", "leaving"} : Go(a, s)
    BY <1>6 DEF Check, ShiftFails, After, Start, Underway
  <2> QED
    BY <1>3, <1>5, <2>1
<1>7. CASE RunNow(a) \/ Claim(a) \/ RereadFails(a) \/ StartFails(a) \/ SaveFails(a) \/ UnlockFails(a)
  BY <1>2, <1>3, <1>7 DEF RunNow, Claim, RereadFails, StartFails, SaveFails, UnlockFails
<1>8. CASE Acquire(a) \/ AcquireFails(a) \/ Unlock(a) \/ Forget(a)
  BY <1>2, <1>3, <1>4, <1>8 DEF Acquire, AcquireFails, Unlock, Unlocked, Forget
<1> QED
  BY <1>4, <1>6, <1>7, <1>8

\* The row is read, under the lock: an active row is not there to be read.
LEMMA ReadingDecides ==
  ASSUME SInv, Decided, NEW a \in Attempts, Reread(a) \/ ShiftRead(a) \/ Run(a) \/ PersistRead(a)
  PROVE  Decided'
<1>1. /\ TypeOK /\ UNCHANGED <<row, settled, done>> /\ (settled \/ done => row.status # "active")
      /\ row \in Row /\ att[a] \in Attempt
  BY DEF Reread, ShiftRead, Run, PersistRead, AdminsQuiet, SInv, Decided, TypeOK, Attempt
<1>2. CASE ~settled /\ ~done
  BY <1>1, <1>2 DEF Decided
<1>3. CASE settled \/ done
  <2>1. CASE Reread(a)
    <3>1. PICK s \in {"leaving", "ready"} : Go(a, s) /\ (s = "ready" => att[a].manual)
      BY <1>1, <1>3, <2>1 DEF Reread
    <3>2. s \in Stages /\ s \notin Saves /\ "leaving" \notin Underway
      BY DEF Stages, Guarded, Saves, Underway
    <3> QED
      BY <1>1, <3>1, <3>2, DecidedGoes
  <2>2. CASE ShiftRead(a)
    <3>1. PICK s \in {"leaving", "starting"} : Go(a, s)
      BY <1>1, <1>3, <2>2 DEF ShiftRead, After
    <3>2. s \in Stages /\ s \notin Saves /\ att[a].at \in Underway
      BY <2>2 DEF Stages, Guarded, Saves, Underway, ShiftRead
    <3>3. done => att[a].manual
      BY <3>2 DEF Decided
    <3> QED
      BY <1>1, <3>1, <3>2, <3>3, DecidedGoes
  <2>3. CASE Run(a)
    <3>1. PICK task \in Outcomes(att[a].task) : TaskEdited(a, "persisting", task)
      BY <2>3 DEF Run, TaskEdited, Outcomes
    <3>2. task \in Row /\ "persisting" \in Stages
      BY <1>1, OutcomesPlan DEF Attempt, Stages, Guarded
    <3>3. PICK rec \in Attempt : Moved(a, rec) /\ rec.at = "persisting"
      BY <1>1, <3>1, <3>2, TaskEdit
    <3>4. rec.at \notin Saves /\ rec.at \notin Underway
      BY <3>3 DEF Saves, Underway
    <3> QED
      BY <1>1, <3>3, <3>4, DecidedMoves
  <2>4. CASE PersistRead(a)
    <3> DEFINE m == Merged(att[a].task, row)
    <3>1. SeenEdited(a, "saving", m) /\ "saving" \in Stages
      BY <2>4 DEF PersistRead, SeenEdited, Stages, Guarded
    <3>2. m \in Row /\ m.status # "active"
      BY <1>1, <1>3, MergedPlans, MergedStands DEF Attempt
    <3> HIDE DEF m
    <3>3. PICK rec \in Attempt : Moved(a, rec) /\ rec.at = "saving" /\ rec.seen = m
      BY <1>1, <3>1, <3>2, SeenEdit
    <3>4. rec.at \notin Underway
      BY <3>3 DEF Underway
    <3> QED
      BY <1>1, <3>2, <3>3, <3>4, DecidedMoves
  <2> QED
    BY <2>1, <2>2, <2>3, <2>4
<1> QED
  BY <1>2, <1>3

\* A row is saved.  The run that was the last of a one-time task had the lock, and
\* with it every other dispatch was kept from what comes after it.
LEMMA SavingDecides ==
  ASSUME SInv, Decided, NEW a \in Attempts, ShiftSave(a) \/ PersistSave(a) \/ PersistBlind(a)
  PROVE  Decided'
<1>1. TypeOK /\ Exclusion
  BY DEF SInv
<1>2. CASE PersistBlind(a)
  BY <1>2 DEF PersistBlind, Decided
<1>3. CASE ShiftSave(a)
  <2>1. /\ UNCHANGED <<settled, done>> /\ row' = att[a].seen /\ att[a].at \in Saves /\ att[a].at \in Underway
        /\ \E s \in {"leaving", "starting"} : Go(a, s)
    BY <1>3 DEF ShiftSave, AdminsQuiet, Saves, Underway, After
  <2>2. PICK s \in {"leaving", "starting"} : Go(a, s)
    BY <2>1
  <2>3. s \in Stages /\ s \notin Saves
    BY DEF Stages, Guarded, Saves
  <2>4. settled \/ done => row'.status # "active"
    BY <2>1 DEF Decided
  <2>5. done => att[a].manual
    BY <2>1 DEF Decided
  <2> QED
    BY <1>1, <2>1, <2>2, <2>3, <2>4, <2>5, DecidedGoes
<1>4. CASE PersistSave(a)
  <2> DEFINE Last == /\ row'.status = "finished" /\ lost = {}
                     /\ \A b \in Region : att[b].key = att[a].key
  <2>1. /\ settled' = settled /\ row' = att[a].seen /\ att[a].at = "saving" /\ Go(a, "leaving")
        /\ done' = (done \/ Last)
    BY <1>4 DEF PersistSave, AdminsQuiet
  <2>2. "leaving" \in Stages /\ "leaving" \notin Saves \cup Underway /\ "saving" \in Saves /\ "saving" \in Guarded
    BY DEF Stages, Guarded, Saves, Underway
  <2>3. settled \/ done => row'.status # "active"
    BY <2>1, <2>2 DEF Decided
  <2>4. CASE done' = done
    BY <1>1, <2>1, <2>2, <2>3, <2>4, DecidedGoes
  <2>5. CASE ~done /\ Last
    <3>1. GoneTo(a, "leaving") \in Attempt /\ Moved(a, GoneTo(a, "leaving")) /\ GoneTo(a, "leaving").at = "leaving"
      BY <1>1, <2>1, <2>2, GoTyped DEF GoneTo
    <3>2. att'[a].at = "leaving" /\ \A b \in Attempts : b # a => att'[b] = att[b]
      BY <1>1, <3>1, MovedTyped
    <3>3. ASSUME NEW b \in Attempts PROVE att'[b].at \notin Saves \cup Underway
      <4>1. lock[att[a].key] = a
        BY <1>1, <2>1, <2>2, <2>5 DEF Exclusion, Keeps
      <4>2. CASE b # a
        <5>1. att[b].at \notin Guarded
          <6> SUFFICES ASSUME att[b].at \in Guarded PROVE FALSE
            OBVIOUS
          <6>1. lock[att[b].key] = b /\ att[b].key = att[a].key
            BY <1>1, <2>5 DEF Exclusion, Keeps, Region
          <6> QED
            BY <4>1, <4>2, <6>1
        <5> QED
          BY <3>2, <4>2, <5>1 DEF Saves, Underway, Guarded
      <4> QED
        BY <2>2, <3>2, <4>2
    <3> QED
      BY <2>5, <3>3 DEF Decided
  <2>6. done' = done \/ (~done /\ Last)
    <3>1. done \in BOOLEAN
      BY <1>1 DEF TypeOK
    <3>2. CASE done
      BY <2>1, <3>2
    <3>3. CASE done = FALSE
      BY <2>1, <3>3
    <3> QED
      BY <3>1, <3>2, <3>3
  <2> QED
    BY <2>4, <2>5, <2>6
<1> QED
  BY <1>2, <1>3, <1>4

LEMMA WorldDecides ==
  ASSUME SInv, Decided,
         \/ TimePasses \/ Expire \/ Lapse \/ AdminSave \/ UNCHANGED vars
         \/ \E p \in Procs : Crash(p)
         \/ \E op \in {"update", "pause", "resume", "delete"} : AdminRead(op)
  PROVE  Decided'
<1>1. CASE TimePasses
  BY <1>1 DEF TimePasses, AdminsQuiet, Decided, SInv, TypeOK, Row
<1>2. CASE Expire \/ Lapse \/ (\E op \in {"update", "pause", "resume", "delete"} : AdminRead(op)) \/ UNCHANGED vars
  BY <1>2 DEF Expire, Lapse, AdminRead, AdminsQuiet, vars, Decided
<1>3. CASE AdminSave
  BY <1>3 DEF AdminSave, Decided, Saving, Saves
<1>4. ASSUME NEW p \in Procs, Crash(p) PROVE Decided'
  <2>1. Resting.at \notin Saves \cup Underway
    BY DEF Resting, Saves, Underway
  <2>2. UNCHANGED <<row, settled, done>> /\ \A b \in Attempts : att'[b] \in {Resting, att[b]}
    BY <1>4 DEF Crash, AdminsQuiet
  <2> QED
    BY <2>1, <2>2 DEF Decided
<1> QED
  BY <1>1, <1>2, <1>3, <1>4

LEMMA DecisionSteps == SInv /\ Decided /\ [Next]_vars => Decided'
<1> SUFFICES ASSUME SInv, Decided, [Next]_vars PROVE Decided'
  OBVIOUS
<1>1. CASE \E a \in Attempts : List(a) \/ RunNow(a) \/ Proceed(a) \/ Fails(a)
  BY <1>1, DispatchDecides, ReadingDecides, SavingDecides DEF Proceed, Fails
<1> QED
  BY <1>1, WorldDecides DEF Next

\* What was decided about the task, by its last run or by an administrator, stands
\* against every run on its way, whatever it read before (runner.go: runLocked,
\* shiftNextRun, persistAfterRun; service.go: Pause, Delete).
THEOREM DecisionsAreFinal == Spec => []DecisionsStand
<1>1. Init => Decided
  BY DEF Init, Decided
<1>2. Decided => DecisionsStand
  BY DEF Decided, DecisionsStand, FinishedIsNotRerun, SettledDecisionsStand, Underway
<1> QED
  BY <1>1, <1>2, SchedulerInvariant, DecisionSteps, PTL DEF Spec

-----------------------------------------------------------------------------
(* Backups                                                                 *)

BackupRow == [status : BusyStatus \cup Retryable \cup {"none", "failed"}, key : BOOLEAN]
BackupRows == [Backups -> BackupRow]
JobStages == LetIn \cup {"idle", "delete", "delete row", "count", "flag", "lock"}
JobRow ==
  [at : JobStages, kind : {"none", "dump", "restore", "drill", "delete"}, id : Backups \cup {NoOne},
   key : BOOLEAN, dump : BackupRows \cup {None}, ours : BOOLEAN, late : BOOLEAN]

\* What a row that names an artifact promises, and so does every copy of rows: the
\* stored ones, the one a job is loading, the one of the stale scan.
Stored(b) == artifact[b] # None \/ b \in given
Kept(rows) == \A b \in DOMAIN rows : rows[b].key => Stored(b)

RecordsFit ==
  record \in BackupRows /\ old \subseteq {b \in Backups : Busy(b)} /\ Kept(record)
ArtifactsFit ==
  /\ artifact \in [Backups -> BackupRows \cup {None}] /\ given \subseteq Backups
  /\ \A b \in Backups : Kept(artifact[b])
ScanFits == DOMAIN scan \subseteq Backups /\ (\A b \in DOMAIN scan : scan[b] \in BackupRow) /\ Kept(scan)

\* A job knows its row; what it will write as the row's key is kept.
JobFits(r) ==
  /\ r.at \notin {"idle", "over"} => r.id \in Backups
  /\ r.at \in JobStages \ {"idle", "over", "delete", "delete row"} => r.kind \in {"dump", "restore", "drill"}
  /\ r.key => r.id \in Backups /\ Stored(r.id)
  /\ r.kind = "restore" /\ r.at \in {"count", "flag", "lock", "begun"} => r.key
  /\ r.at \in {"putting", "loading"} => r.dump \in BackupRows
  /\ r.at = "marking" => Stored(r.id)
  /\ Kept(r.dump)

\* The flag of the process is set for the lock, and the lock for the job.
GateFits ==
  /\ \A j \in Jobbers : job[j].at \in LetIn => jobLock = j
  /\ GateIsGivenBack

BackupInv ==
  /\ RecordsFit /\ ArtifactsFit /\ ScanFits /\ GateFits
  /\ host \in [Jobbers -> Servers] /\ busy \in [Servers -> BOOLEAN] /\ jobLock \in Jobbers \cup {NoOne}
  /\ job \in [Jobbers -> JobRow] /\ (\A j \in Jobbers : JobFits(job[j]))
  /\ asked \in 0..MaxRequests /\ mishaps \in 0..MaxMishaps

LEMMA AtEaseFits == AtEase \in JobRow /\ JobFits(AtEase) /\ DOMAIN None = {}
BY DEF AtEase, JobRow, JobStages, JobFits, None, Kept

LEMMA BackupsStart == BackupInit => BackupInv
<1> SUFFICES ASSUME BackupInit PROVE BackupInv
  OBVIOUS
<1>1. NoRec \in BackupRow /\ NoRec.key = FALSE
  BY DEF NoRec, Rec, BackupRow
<1>2. RecordsFit
  BY <1>1 DEF BackupInit, RecordsFit, BackupRows, Kept
<1>3. ArtifactsFit /\ ScanFits
  BY AtEaseFits DEF BackupInit, ArtifactsFit, ScanFits, Kept
<1>4. job \in [Jobbers -> JobRow] /\ \A j \in Jobbers : JobFits(job[j]) /\ job[j].at \notin LetIn
  BY AtEaseFits DEF BackupInit, AtEase, LetIn, Timed
<1>5. GateFits
  BY <1>4 DEF BackupInit, GateFits, GateIsGivenBack
<1>6. asked \in 0..MaxRequests /\ mishaps \in 0..MaxMishaps
  BY BackupAssumption DEF BackupAssumption, BackupInit
<1> QED
  BY <1>2, <1>3, <1>4, <1>5, <1>6 DEF BackupInit, BackupInv

LEMMA MishapCounts ==
  ASSUME mishaps \in 0..MaxMishaps, Mishap \/ Fine PROVE mishaps' \in 0..MaxMishaps
BY BackupAssumption DEF BackupAssumption, Mishap, Fine

\* How the gate may move with a job.
JobMoves(j, r) == job' = [job EXCEPT ![j] = r]

GateMoves(j, to) ==
  \/ /\ job[j].at \in LetIn /\ to \in LetIn /\ UNCHANGED Gate
  \/ /\ job[j].at \notin LetIn /\ job[j].at # "lock" /\ to \notin LetIn /\ UNCHANGED Gate
  \/ /\ job[j].at = "flag" /\ to = "lock" /\ UNCHANGED jobLock
     /\ busy' = [busy EXCEPT ![host[j]] = TRUE]
  \/ /\ job[j].at = "lock" /\ to = "begun" /\ jobLock = NoOne /\ jobLock' = j /\ UNCHANGED busy
  \/ /\ job[j].at = "lock" /\ to = "idle" /\ UNCHANGED jobLock
     /\ busy' = [busy EXCEPT ![host[j]] = FALSE]
  \/ /\ job[j].at = "over" /\ to = "idle" /\ jobLock' = NoOne
     /\ busy' = [busy EXCEPT ![host[j]] = FALSE]

LEMMA GateStays ==
  ASSUME BackupInv, NEW j \in Jobbers, NEW r \in JobRow, JobMoves(j, r), GateMoves(j, r.at),
         UNCHANGED host
  PROVE  GateFits' /\ busy' \in [Servers -> BOOLEAN] /\ jobLock' \in Jobbers \cup {NoOne}
<1>1. /\ GateFits /\ job \in [Jobbers -> JobRow] /\ busy \in [Servers -> BOOLEAN]
      /\ jobLock \in Jobbers \cup {NoOne} /\ host \in [Jobbers -> Servers] /\ NoOne \notin Jobbers
  BY BackupAssumption DEF BackupAssumption, BackupInv
<1>2. job'[j] = r /\ \A k \in Jobbers : k # j => job'[k] = job[k]
  BY <1>1 DEF JobMoves
<1>3. busy' \in [Servers -> BOOLEAN] /\ jobLock' \in Jobbers \cup {NoOne}
  BY <1>1 DEF GateMoves, Gate
<1>4. "lock" \notin LetIn /\ "idle" \notin LetIn /\ "begun" \in LetIn /\ "over" \in LetIn /\ "flag" \notin LetIn
  BY DEF LetIn, Timed
<1>5. ASSUME NEW k \in Jobbers, job'[k].at \in LetIn PROVE jobLock' = k
  BY <1>1, <1>2, <1>4, <1>5 DEF GateFits, GateMoves, Gate
<1>6. ASSUME jobLock' # NoOne PROVE job'[jobLock'].at \in LetIn
  BY <1>1, <1>2, <1>3, <1>4, <1>6 DEF GateFits, GateIsGivenBack, GateMoves, Gate
<1>7. ASSUME NEW s \in Servers, busy'[s]
      PROVE  \E k \in Jobbers : host[k] = s /\ job'[k].at \in LetIn \cup {"lock"}
  <2>1. CASE s = host[j]
    BY <1>1, <1>2, <1>4, <1>7, <2>1 DEF GateFits, GateIsGivenBack, GateMoves, Gate
  <2>2. CASE s # host[j]
    <3>1. busy[s]
      BY <1>1, <1>7, <2>2 DEF GateMoves, Gate
    <3> QED
      BY <1>1, <1>2, <2>2, <3>1 DEF GateFits, GateIsGivenBack
  <2> QED
    BY <2>1, <2>2
<1> QED
  BY <1>3, <1>5, <1>6, <1>7 DEF GateFits, GateIsGivenBack

LEMMA StillKept ==
  ASSUME \A b \in Backups : Stored(b) => Stored(b)', NEW rows, DOMAIN rows \subseteq Backups, Kept(rows)
  PROVE  Kept(rows)'
BY DEF Kept

LEMMA StillFits ==
  ASSUME \A b \in Backups : Stored(b) => Stored(b)', NEW r \in JobRow, JobFits(r)
  PROVE  JobFits(r)'
<1>1. DOMAIN r.dump \subseteq Backups
  BY AtEaseFits DEF JobRow, BackupRows
<1>2. Kept(r.dump)'
  BY <1>1, StillKept DEF JobFits
<1>3. r.at = "marking" => r.id \in Backups
  BY DEF JobFits
<1> QED
  BY <1>2, <1>3 DEF JobFits

\* The step of a job.
LEMMA JobStep ==
  ASSUME BackupInv, NEW j \in Jobbers, NEW r \in JobRow, JobMoves(j, r), GateMoves(j, r.at),
         UNCHANGED <<host, scan>>, \A b \in Backups : Stored(b) => Stored(b)',
         RecordsFit', ArtifactsFit', JobFits(r)', asked' \in 0..MaxRequests, mishaps' \in 0..MaxMishaps
  PROVE  BackupInv'
<1>1. GateFits' /\ busy' \in [Servers -> BOOLEAN] /\ jobLock' \in Jobbers \cup {NoOne}
  BY GateStays
<1>2. ScanFits'
  BY StillKept DEF BackupInv, ScanFits
<1>3. job' \in [Jobbers -> JobRow] /\ job'[j] = r /\ \A k \in Jobbers : k # j => job'[k] = job[k]
  BY DEF BackupInv, JobMoves
<1>4. ASSUME NEW k \in Jobbers PROVE JobFits(job[k])'
  <2>1. PICK q \in JobRow : q = job'[k]
    BY <1>3
  <2>2. JobFits(q)'
    <3>1. CASE k = j
      BY <1>3, <2>1, <3>1
    <3>2. CASE k # j
      <4>1. JobFits(q)
        BY <1>3, <2>1, <3>2 DEF BackupInv
      <4> QED
        BY <4>1, StillFits
    <3> QED
      BY <3>1, <3>2
  <2> QED
    BY <2>1, <2>2 DEF JobFits, Kept, Stored
<1> QED
  BY <1>1, <1>2, <1>3, <1>4 DEF BackupInv

-----------------------------------------------------------------------------
(* Rows of jobs *)

LEMMA GoesTo ==
  ASSUME BackupInv, NEW j \in Jobbers, NEW s \in JobStages, Goes(j, s)
  PROVE  \E r \in JobRow :
           /\ JobMoves(j, r) /\ r.at = s /\ r.kind = job[j].kind /\ r.id = job[j].id
           /\ r.key = job[j].key /\ r.dump = job[j].dump /\ r.ours = job[j].ours /\ r.late = job[j].late
<1> DEFINE r == [at |-> s, kind |-> job[j].kind, id |-> job[j].id, key |-> job[j].key,
                 dump |-> job[j].dump, ours |-> job[j].ours, late |-> job[j].late]
<1>1. job \in [Jobbers -> JobRow] /\ job[j] \in JobRow
  BY DEF BackupInv
<1>2. /\ DOMAIN job' = Jobbers /\ job' = [k \in DOMAIN job' |-> job'[k]]
      /\ \A k \in Jobbers : k # j => job'[k] = job[k]
  BY <1>1 DEF Goes
<1>3. job'[j] = r
  BY <1>1 DEF Goes, JobRow
<1>4. r \in JobRow /\ JobMoves(j, r)
  BY <1>1, <1>2, <1>3 DEF JobMoves, JobRow
<1> QED
  BY <1>4

DumpEdited(j, s, d) == job' = [job EXCEPT ![j].at = s, ![j].dump = d]

LEMMA DumpEdit ==
  ASSUME BackupInv, NEW j \in Jobbers, NEW s \in JobStages, NEW d \in BackupRows \cup {None},
         DumpEdited(j, s, d)
  PROVE  \E r \in JobRow :
           /\ JobMoves(j, r) /\ r.at = s /\ r.kind = job[j].kind /\ r.id = job[j].id
           /\ r.key = job[j].key /\ r.dump = d /\ r.ours = job[j].ours /\ r.late = job[j].late
<1> DEFINE r == [at |-> s, kind |-> job[j].kind, id |-> job[j].id, key |-> job[j].key,
                 dump |-> d, ours |-> job[j].ours, late |-> job[j].late]
<1>1. job \in [Jobbers -> JobRow] /\ job[j] \in JobRow
  BY DEF BackupInv
<1>2. /\ DOMAIN job' = Jobbers /\ job' = [k \in DOMAIN job' |-> job'[k]]
      /\ \A k \in Jobbers : k # j => job'[k] = job[k]
  BY <1>1 DEF DumpEdited
<1>3. job'[j] = r
  BY <1>1 DEF DumpEdited, JobRow
<1>4. r \in JobRow /\ JobMoves(j, r)
  BY <1>1, <1>2, <1>3 DEF JobMoves, JobRow
<1> QED
  BY <1>4

LEMMA JobEnds ==
  ASSUME NEW j \in Jobbers
  PROVE  /\ Ends(j) => JobMoves(j, AtEase)
         /\ Over(j) => JobMoves(j, [AtEase EXCEPT !.at = "over"])
         /\ [AtEase EXCEPT !.at = "over"] \in JobRow /\ JobFits([AtEase EXCEPT !.at = "over"])
BY AtEaseFits DEF Ends, Over, JobMoves, AtEase, JobRow, JobStages, LetIn, JobFits, None, Kept

-----------------------------------------------------------------------------
(* Rows of backups *)

LEMMA SaveFits ==
  ASSUME BackupInv, UNCHANGED <<artifact, given>>, NEW b \in Backups, NEW rec \in BackupRow,
         rec.key => Stored(b), Save(b, rec)
  PROVE  RecordsFit'
<1>1. RecordsFit
  BY DEF BackupInv
<1>2. record' \in BackupRows
  BY <1>1 DEF RecordsFit, Save, BackupRows
<1>3. ASSUME NEW x \in old' PROVE x \in Backups /\ Busy(x)'
  BY <1>1, <1>3 DEF RecordsFit, Save, BackupRows, Busy
<1>4. ASSUME NEW x \in Backups, record'[x].key PROVE Stored(x)'
  BY <1>1, <1>4 DEF RecordsFit, Save, BackupRows, Kept, Stored
<1>5. Kept(record)'
  BY <1>2, <1>4 DEF Kept, BackupRows
<1> QED
  BY <1>2, <1>3, <1>5 DEF RecordsFit

LEMMA TerminalFits ==
  ASSUME BackupInv, UNCHANGED <<artifact, given>>, NEW b \in Backups, NEW s \in {"failed", "restore failed"},
         MarkTerminal(b, s)
  PROVE  RecordsFit'
<1>1. RecordsFit /\ record[b] \in BackupRow
  BY DEF BackupInv, RecordsFit, BackupRows
<1> DEFINE rec == IF record[b] = NoRec THEN record[b] ELSE Rec(s, record[b].key)
<1>2. rec \in BackupRow /\ (rec.key => record[b].key)
  BY <1>1 DEF Rec, BackupRow, Retryable
<1>3. record[b].key => Stored(b)
  BY <1>1 DEF RecordsFit, Kept, BackupRows
<1>4. Save(b, rec)
  BY DEF MarkTerminal, Save
<1> QED
  BY <1>2, <1>3, <1>4, SaveFits

LEMMA BooksStay ==
  ASSUME BackupInv, UNCHANGED <<artifact, given>>
  PROVE  /\ ArtifactsFit' /\ \A b \in Backups : Stored(b) => Stored(b)'
         /\ UNCHANGED <<record, old>> => RecordsFit'
BY DEF BackupInv, ArtifactsFit, RecordsFit, Stored, Kept, Busy

\* The step of a job that stores and removes no artifact.
LEMMA QuietStep ==
  ASSUME BackupInv, NEW j \in Jobbers, NEW r \in JobRow, JobMoves(j, r), GateMoves(j, r.at), JobFits(r),
         UNCHANGED <<host, scan, asked, artifact, given>>,
         RecordsFit' \/ UNCHANGED <<record, old>>, Mishap \/ Fine
  PROVE  BackupInv'
<1>1. mishaps' \in 0..MaxMishaps /\ asked' \in 0..MaxRequests
  BY MishapCounts DEF BackupInv
<1>2. JobFits(r)' /\ RecordsFit' /\ ArtifactsFit' /\ \A b \in Backups : Stored(b) => Stored(b)'
  BY BooksStay, StillFits
<1> QED
  BY <1>1, <1>2, JobStep

LEMMA JobAt ==
  ASSUME BackupInv, NEW j \in Jobbers
  PROVE  /\ JobFits(job[j]) /\ job[j] \in JobRow
         /\ job[j].at \notin {"idle", "over"} => job[j].id \in Backups /\ record[job[j].id] \in BackupRow
                /\ (record[job[j].id].key => Stored(job[j].id))
         /\ job[j].key => Stored(job[j].id)
BY DEF BackupInv, JobFits, RecordsFit, BackupRows, Kept

-----------------------------------------------------------------------------
(* The gate *)

LEMMA GateKeeps ==
  ASSUME BackupInv, NEW j \in Jobbers, CountBusy(j) \/ TryBegin(j) \/ TryJobLock(j) \/ Done(j)
  PROVE  BackupInv'
<1>1. /\ UNCHANGED <<host, scan, asked, record, old, artifact, given>>
      /\ (Mishap \/ Fine) /\ job[j].at \in {"count", "flag", "lock", "over"}
  BY DEF CountBusy, TryBegin, TryJobLock, Done, Books
<1>2. JobFits(job[j]) /\ job[j] \in JobRow
  BY JobAt
<1>3. CASE Ends(j)
  <2>0. ~Goes(j, "lock") /\ ~Goes(j, "begun")
    BY <1>2, <1>3 DEF BackupInv, Ends, Goes, AtEase, JobRow
  <2>1. GateMoves(j, "idle")
    BY <1>1, <1>3, <2>0 DEF CountBusy, TryBegin, TryJobLock, Done, GateMoves, Gate, LetIn, Timed
  <2>2. JobMoves(j, AtEase) /\ AtEase.at = "idle"
    BY <1>3, JobEnds DEF AtEase
  <2> QED
    BY <1>1, <2>1, <2>2, AtEaseFits, QuietStep
<1>4. CASE ~Ends(j)
  <2>1. PICK s \in {"flag", "lock", "begun"} : Goes(j, s) /\ GateMoves(j, s) /\ job[j].at \in {"count", "flag", "lock"}
    BY <1>4 DEF CountBusy, TryBegin, TryJobLock, Done, GateMoves, Gate, LetIn, Timed
  <2>2. s \in JobStages
    BY DEF JobStages, LetIn
  <2>3. PICK r \in JobRow :
           /\ JobMoves(j, r) /\ r.at = s /\ r.kind = job[j].kind /\ r.id = job[j].id
           /\ r.key = job[j].key /\ r.dump = job[j].dump
    BY <2>1, <2>2, GoesTo
  <2>4. JobFits(r)
    BY <1>2, <2>1, <2>3 DEF JobFits, JobStages, LetIn
  <2> QED
    BY <1>1, <2>1, <2>3, <2>4, QuietStep
<1> QED
  BY <1>3, <1>4

LEMMA Requested ==
  ASSUME BackupInv, NEW j \in Jobbers, NEW b \in Backups, NEW kind \in {"dump", "restore", "drill", "delete"},
         kind = "restore" => record[b].key, Asks(j, kind, b)
  PROVE  BackupInv'
<1> DEFINE r == [AtEase EXCEPT !.at = IF kind = "delete" THEN kind ELSE "count",
                               !.kind = kind, !.id = b, !.key = record[b].key]
<1>1. record[b] \in BackupRow /\ (record[b].key => Stored(b)) /\ job[j].at = "idle"
  BY DEF BackupInv, RecordsFit, BackupRows, Kept, Asks, AtEase
<1>2. r \in JobRow
  BY <1>1, AtEaseFits DEF AtEase, JobRow, JobStages, BackupRow
<1>3. JobFits(r)
  BY <1>1, AtEaseFits DEF AtEase, JobFits, JobStages, LetIn, Timed, Kept
<1>4. JobMoves(j, r) /\ GateMoves(j, r.at)
  BY <1>1 DEF Asks, JobMoves, GateMoves, AtEase, LetIn, Timed, Gate
<1>5. asked' \in 0..MaxRequests /\ mishaps' \in 0..MaxMishaps
  BY BackupAssumption DEF BackupAssumption, BackupInv, Asks, Fine
<1>6. UNCHANGED <<host, scan, artifact, given, record, old>>
  BY DEF Asks, Books
<1>7. RecordsFit' /\ ArtifactsFit' /\ \A x \in Backups : Stored(x) => Stored(x)'
  BY <1>6, BooksStay
<1> HIDE DEF r
<1>8. PICK q \in JobRow : q = r
  BY <1>2
<1>9. JobMoves(j, q) /\ GateMoves(j, q.at) /\ JobFits(q)
  BY <1>3, <1>4, <1>8
<1>10. JobFits(q)'
  BY <1>7, <1>9, StillFits
<1> QED
  BY <1>5, <1>6, <1>7, <1>9, <1>10, JobStep

LEMMA RequestsKeep ==
  ASSUME BackupInv, NEW j \in Jobbers, NEW b \in Backups, AskBackup(j, b) \/ AskRestore(j, b) \/ AskDelete(j, b)
  PROVE  BackupInv'
BY Requested DEF AskBackup, AskRestore, AskDelete

-----------------------------------------------------------------------------
(* Steps of the jobs *)

\* A job goes on to a stage that asks no more of it than the one before.
LEMMA GoingOn ==
  ASSUME BackupInv, NEW j \in Jobbers, NEW s \in JobStages, Goes(j, s),
         \/ job[j].at \in LetIn \ {"over"} /\ s \in LetIn \ {"begun", "over", "putting", "loading", "marking"}
         \/ job[j].at = "delete" /\ s = "delete row",
         UNCHANGED <<host, scan, asked, artifact, given, Gate>>,
         RecordsFit' \/ UNCHANGED <<record, old>>, Mishap \/ Fine
  PROVE  BackupInv'
<1>1. PICK r \in JobRow :
           /\ JobMoves(j, r) /\ r.at = s /\ r.kind = job[j].kind /\ r.id = job[j].id
           /\ r.key = job[j].key /\ r.dump = job[j].dump
  BY GoesTo
<1>2. JobFits(r)
  BY <1>1, JobAt DEF JobFits, JobStages, LetIn, Timed
<1>3. GateMoves(j, s)
  BY DEF GateMoves, LetIn, Timed
<1> QED
  BY <1>1, <1>2, <1>3, QuietStep

LEMMA ComingToAnEnd ==
  ASSUME BackupInv, NEW j \in Jobbers, Over(j), job[j].at \in LetIn,
         UNCHANGED <<host, scan, asked, artifact, given, Gate>>,
         RecordsFit' \/ UNCHANGED <<record, old>>, Mishap \/ Fine
  PROVE  BackupInv'
<1> DEFINE r == [AtEase EXCEPT !.at = "over"]
<1>1. JobMoves(j, r) /\ r \in JobRow /\ JobFits(r) /\ r.at = "over"
  BY JobEnds DEF AtEase
<1>2. GateMoves(j, "over")
  BY DEF GateMoves, LetIn
<1> HIDE DEF r
<1> QED
  BY <1>1, <1>2, QuietStep

LEMMA BeginKeeps == ASSUME BackupInv, NEW j \in Jobbers, Begin(j) PROVE BackupInv'
<1>1. /\ UNCHANGED <<host, scan, asked, artifact, given, Gate>> /\ (Mishap \/ Fine)
      /\ job[j].at = "begun" /\ job[j].at \in LetIn
  BY DEF Begin, LetIn
<1>2. CASE Over(j) /\ UNCHANGED <<record, old>>
  BY <1>1, <1>2, ComingToAnEnd
<1>3. CASE ~(Over(j) /\ UNCHANGED <<record, old>>)
  <2>1. /\ JobFits(job[j]) /\ job[j].id \in Backups /\ job[j].kind \in {"dump", "restore", "drill"}
        /\ job[j].kind = "restore" => Stored(job[j].id)
    BY <1>1, JobAt DEF JobFits, JobStages, LetIn
  <2>2. /\ Rec("pending", FALSE) \in BackupRow /\ ~Rec("pending", FALSE).key
        /\ Rec("restoring", TRUE) \in BackupRow
    BY DEF Rec, BackupRow, BusyStatus
  <2>3. RecordsFit' \/ UNCHANGED <<record, old>>
    BY <1>1, <1>3, <2>1, <2>2, SaveFits DEF Begin
  <2>4. PICK s \in {"dump", "restore", "drill"} : Goes(j, s)
    BY <1>3, <2>1 DEF Begin
  <2>5. s \in JobStages /\ s \in LetIn \ {"begun", "over", "putting", "loading", "marking"}
    BY <2>4 DEF JobStages, LetIn, Timed
  <2> QED
    BY <1>1, <2>3, <2>4, <2>5, GoingOn
<1> QED
  BY <1>2, <1>3

LEMMA UnreadKeeps ==
  ASSUME BackupInv, NEW j \in Jobbers, NEW s \in {"failed", "restore failed"}, Unread(j, s),
         job[j].at \in LetIn \ {"over"}, UNCHANGED <<host, scan, asked, artifact, given, Gate>>
  PROVE  BackupInv'
<1>1. job[j].id \in Backups
  BY JobAt DEF LetIn, Timed
<1>2. RecordsFit' \/ UNCHANGED <<record, old>>
  BY <1>1, TerminalFits DEF Unread
<1> QED
  BY <1>2, ComingToAnEnd DEF Unread

LEMMA MarkRunningKeeps == ASSUME BackupInv, NEW j \in Jobbers, MarkRunning(j) PROVE BackupInv'
<1>1. /\ UNCHANGED <<host, scan, asked, artifact, given, Gate>>
      /\ job[j].at = "dump" /\ job[j].at \in LetIn \ {"over"} /\ job[j].id \in Backups
  BY JobAt DEF MarkRunning, LetIn, Timed
<1>2. CASE Unread(j, "failed")
  BY <1>1, <1>2, UnreadKeeps
<1>3. CASE ~Unread(j, "failed")
  <2>1. Mishap \/ Fine
    BY <1>3 DEF MarkRunning
  <2>2. PICK s \in {"dumping", "failing"} : Goes(j, s)
    BY <1>3 DEF MarkRunning
  <2>3. s \in JobStages /\ s \in LetIn \ {"begun", "over", "putting", "loading", "marking"}
    BY <2>2 DEF JobStages, LetIn, Timed
  <2>4. Rec("running", FALSE) \in BackupRow /\ ~Rec("running", FALSE).key
    BY DEF Rec, BackupRow, BusyStatus
  <2>5. RecordsFit' \/ UNCHANGED <<record, old>>
    BY <1>1, <1>3, <2>4, SaveFits DEF MarkRunning
  <2> QED
    BY <1>1, <2>1, <2>2, <2>3, <2>5, GoingOn
<1> QED
  BY <1>2, <1>3

LEMMA MarksKeep ==
  ASSUME BackupInv, NEW j \in Jobbers, NEW at \in LetIn \ {"over"}, NEW rec \in BackupRow,
         rec.key => Stored(job[j].id), Marks(j, at, rec)
  PROVE  BackupInv'
<1>1. /\ UNCHANGED <<host, scan, asked, artifact, given, Gate>> /\ (Mishap \/ Fine)
      /\ job[j].at \in LetIn \ {"over"} /\ Over(j)
  BY DEF Marks, CutOff
<1>2. job[j].id \in Backups
  BY <1>1, JobAt DEF LetIn, Timed
<1>3. RecordsFit' \/ UNCHANGED <<record, old>>
  BY <1>1, <1>2, SaveFits DEF Marks
<1> QED
  BY <1>1, <1>3, ComingToAnEnd

LEMMA MarkingKeeps ==
  ASSUME BackupInv, NEW j \in Jobbers, MarkSuccess(j) \/ Fail(j) \/ MarkRestored(j) PROVE BackupInv'
<1>1. /\ JobFits(job[j]) /\ job[j].key \in BOOLEAN /\ (job[j].key => Stored(job[j].id))
      /\ {"marking", "failing", "restored"} \subseteq LetIn \ {"over"}
  BY JobAt DEF LetIn, Timed, JobRow
<1>2. CASE MarkSuccess(j)
  <2>1. job[j].at = "marking" /\ Stored(job[j].id)
    BY <1>1, <1>2 DEF MarkSuccess, Marks, JobFits
  <2>2. Rec("success", TRUE) \in BackupRow
    BY DEF Rec, BackupRow, Retryable
  <2> QED
    BY <1>1, <1>2, <2>1, <2>2, MarksKeep DEF MarkSuccess
<1>3. CASE Fail(j) /\ job[j].kind = "dump"
  <2>1. Rec("failed", FALSE) \in BackupRow /\ ~Rec("failed", FALSE).key
    BY DEF Rec, BackupRow
  <2> QED
    BY <1>1, <1>3, <2>1, MarksKeep DEF Fail
<1>4. CASE Fail(j) /\ job[j].kind # "dump"
  <2> DEFINE rec == Rec(IF job[j].ours THEN "restore failed" ELSE "failed", job[j].key)
  <2>1. rec \in BackupRow /\ rec.key = job[j].key
    BY <1>1 DEF Rec, BackupRow, Retryable
  <2>2. Marks(j, "failing", rec)
    BY <1>4 DEF Fail
  <2> HIDE DEF rec
  <2> QED
    BY <1>1, <2>1, <2>2, MarksKeep
<1>5. CASE MarkRestored(j)
  <2> DEFINE rec == Rec(IF job[j].ours THEN "restored" ELSE "failed", job[j].key)
  <2>1. rec \in BackupRow /\ rec.key = job[j].key
    BY <1>1 DEF Rec, BackupRow, Retryable
  <2>2. Marks(j, "restored", rec)
    BY <1>5 DEF MarkRestored
  <2> HIDE DEF rec
  <2> QED
    BY <1>1, <2>1, <2>2, MarksKeep
<1> QED
  BY <1>2, <1>3, <1>4, <1>5

\* pg_dump, the storing of its file, the fetching of a file and its loading.
LEMMA DumpKeeps == ASSUME BackupInv, NEW j \in Jobbers, Dump(j) PROVE BackupInv'
<1>1. /\ UNCHANGED <<host, scan, asked, artifact, given, record, old, Gate>> /\ (Mishap \/ Fine)
      /\ job[j].at = "dumping" /\ job[j].at \in LetIn \ {"over"}
  BY DEF Dump, CutOff, Books, LetIn, Timed
<1>2. CASE Goes(j, "failing")
  BY <1>1, <1>2, GoingOn DEF JobStages, LetIn, Timed
<1>3. CASE DumpEdited(j, "putting", record)
  <2>1. record \in BackupRows /\ Kept(record) /\ "putting" \in JobStages
    BY DEF BackupInv, RecordsFit, JobStages, LetIn, Timed
  <2>2. PICK r \in JobRow :
           /\ JobMoves(j, r) /\ r.at = "putting" /\ r.kind = job[j].kind /\ r.id = job[j].id
           /\ r.key = job[j].key /\ r.dump = record
    BY <1>3, <2>1, DumpEdit
  <2>3. JobFits(r)
    BY <1>1, <2>1, <2>2, JobAt DEF JobFits, JobStages, LetIn, Timed
  <2>4. GateMoves(j, r.at)
    BY <1>1, <2>2 DEF GateMoves, LetIn, Timed
  <2> QED
    BY <1>1, <2>2, <2>3, <2>4, QuietStep
<1> QED
  BY <1>2, <1>3 DEF Dump, DumpEdited

\* A job that puts its dump down.
LEMMA PutDown ==
  ASSUME BackupInv, NEW j \in Jobbers, NEW s \in {"marking", "failing", "restored"}, DumpEdited(j, s, None),
         job[j].at \in LetIn \ {"over"}
  PROVE  \E r \in JobRow :
           /\ JobMoves(j, r) /\ r.at = s /\ r.id = job[j].id /\ r.id \in Backups /\ r.dump = None
           /\ r.kind \in {"dump", "restore", "drill"}
           /\ s # "marking" => JobFits(r)
           /\ UNCHANGED Gate => GateMoves(j, r.at)
<1>1. s \in JobStages /\ s \in LetIn /\ None \in BackupRows \cup {None}
  BY DEF JobStages, LetIn, Timed
<1>2. PICK r \in JobRow :
           /\ JobMoves(j, r) /\ r.at = s /\ r.kind = job[j].kind /\ r.id = job[j].id
           /\ r.key = job[j].key /\ r.dump = None
  BY <1>1, DumpEdit
<1>3. Kept(None)
  BY AtEaseFits DEF Kept
<1>4. r.id \in Backups /\ r.kind \in {"dump", "restore", "drill"} /\ (r.key => Stored(r.id))
  BY <1>2, JobAt DEF JobFits, JobStages, LetIn, Timed
<1>5. s # "marking" => JobFits(r)
  BY <1>2, <1>3, <1>4 DEF JobFits
<1>6. UNCHANGED Gate => GateMoves(j, r.at)
  BY <1>1, <1>2 DEF GateMoves
<1> QED
  BY <1>2, <1>4, <1>5, <1>6

\* An artifact is stored, or removed on request; what the rows name stays kept.
LEMMA ArtifactMoves ==
  ASSUME BackupInv, NEW b \in Backups, NEW d \in BackupRows \cup {None}, Kept(d),
         artifact' = [artifact EXCEPT ![b] = d],
         given' \in {given, given \cup {b}}, d = None => b \in given',
         UNCHANGED <<record, old>>
  PROVE  /\ ArtifactsFit' /\ RecordsFit' /\ Stored(b)'
         /\ \A x \in Backups : Stored(x) => Stored(x)'
<1>1. /\ artifact \in [Backups -> BackupRows \cup {None}] /\ \A x \in Backups : Kept(artifact[x])
      /\ given \subseteq Backups /\ RecordsFit
  BY DEF BackupInv, ArtifactsFit
<1>2. /\ artifact' \in [Backups -> BackupRows \cup {None}] /\ artifact'[b] = d
      /\ \A x \in Backups : x # b => artifact'[x] = artifact[x]
  BY <1>1
<1>3. Stored(b)' /\ \A x \in Backups : Stored(x) => Stored(x)'
  BY <1>2 DEF Stored
<1>4. ASSUME NEW x \in Backups PROVE Kept(artifact[x])'
  <2>1. PICK rows \in BackupRows \cup {None} : rows = artifact'[x] /\ Kept(rows)
    BY <1>1, <1>2
  <2>2. DOMAIN rows \subseteq Backups
    BY AtEaseFits DEF BackupRows
  <2>3. Kept(rows)'
    BY <1>3, <2>1, <2>2, StillKept
  <2> QED
    BY <2>1, <2>3 DEF Kept, Stored
<1>5. RecordsFit'
  BY <1>1, <1>3 DEF RecordsFit, Kept, Busy, BackupRows
<1> QED
  BY <1>1, <1>2, <1>3, <1>4, <1>5 DEF ArtifactsFit

LEMMA PutKeeps == ASSUME BackupInv, NEW j \in Jobbers, Put(j) PROVE BackupInv'
<1>1. /\ UNCHANGED <<host, scan, asked, given, record, old, Gate>> /\ (Mishap \/ Fine)
      /\ job[j].at = "putting" /\ job[j].at \in LetIn \ {"over"}
  BY DEF Put, CutOff, LetIn, Timed
<1>2. CASE DumpEdited(j, "failing", None) /\ UNCHANGED artifact
  BY <1>1, <1>2, PutDown, QuietStep
<1>3. CASE /\ DumpEdited(j, "marking", None)
           /\ artifact' = [artifact EXCEPT ![job[j].id] = job[j].dump]
  <2>1. /\ job[j].id \in Backups /\ job[j].dump \in BackupRows /\ Kept(job[j].dump)
        /\ job[j].dump # None
    <3>1. job[j].id \in Backups /\ job[j].dump \in BackupRows /\ Kept(job[j].dump)
      BY <1>1, JobAt DEF JobFits
    <3>2. DOMAIN job[j].dump # {}
      BY <3>1 DEF BackupRows
    <3> QED
      BY <3>1, <3>2, AtEaseFits
  <2>2. PICK r \in JobRow :
           /\ JobMoves(j, r) /\ r.at = "marking" /\ r.id = job[j].id /\ r.dump = None
           /\ r.kind \in {"dump", "restore", "drill"} /\ GateMoves(j, r.at)
    BY <1>1, <1>3, PutDown
  <2>3. PICK d \in BackupRows \cup {None}, b \in Backups : d = job[j].dump /\ b = r.id
    BY <2>1, <2>2
  <2>4. /\ ArtifactsFit' /\ RecordsFit' /\ Stored(b)' /\ \A x \in Backups : Stored(x) => Stored(x)'
    <3>1. artifact' = [artifact EXCEPT ![b] = d] /\ Kept(d) /\ d # None
      BY <1>3, <2>1, <2>2, <2>3
    <3> QED
      BY <1>1, <3>1, ArtifactMoves
  <2>5. JobFits(r)'
    BY <2>2, <2>3, <2>4, AtEaseFits DEF JobFits, Kept, JobRow
  <2>6. mishaps' \in 0..MaxMishaps /\ asked' \in 0..MaxRequests
    BY <1>1, MishapCounts DEF BackupInv
  <2> QED
    BY <1>1, <2>2, <2>4, <2>5, <2>6, JobStep
<1> QED
  BY <1>2, <1>3 DEF Put, DumpEdited

LEMMA DeletionKeeps ==
  ASSUME BackupInv, NEW j \in Jobbers, DeleteArtifact(j) \/ DeleteRow(j) PROVE BackupInv'
<1>1. /\ UNCHANGED <<host, scan, asked, Gate>> /\ (Mishap \/ Fine)
      /\ job[j].at \in {"delete", "delete row"} /\ job[j].id \in Backups
  BY JobAt DEF DeleteArtifact, DeleteRow
<1>2. CASE DeleteArtifact(j)
  <2>1. Goes(j, "delete row") /\ job[j].at = "delete" /\ UNCHANGED <<record, old>> /\ "delete row" \in JobStages
    BY <1>2 DEF DeleteArtifact, JobStages
  <2>2. CASE UNCHANGED <<artifact, given>>
    BY <1>1, <2>1, <2>2, GoingOn
  <2>3. CASE /\ artifact' = [artifact EXCEPT ![job[j].id] = IF job[j].key THEN None ELSE @]
             /\ given' = given \cup {job[j].id}
    <3>1. PICK b \in Backups : b = job[j].id
      BY <1>1
    <3>2. PICK d \in BackupRows \cup {None} : d = IF job[j].key THEN None ELSE artifact[b]
      BY <3>1 DEF BackupInv, ArtifactsFit
    <3>3. Kept(d)
      BY <3>1, <3>2, AtEaseFits DEF Kept, BackupInv, ArtifactsFit
    <3>4. artifact' = [artifact EXCEPT ![b] = d] /\ given' = given \cup {b}
      BY <2>3, <3>1, <3>2
    <3>5. /\ ArtifactsFit' /\ RecordsFit' /\ \A x \in Backups : Stored(x) => Stored(x)'
      BY <2>1, <3>3, <3>4, ArtifactMoves
    <3>6. PICK r \in JobRow :
           /\ JobMoves(j, r) /\ r.at = "delete row" /\ r.kind = job[j].kind /\ r.id = job[j].id
           /\ r.key = job[j].key /\ r.dump = job[j].dump
      BY <2>1, GoesTo
    <3>7. JobFits(r)
      BY <2>1, <3>6, JobAt DEF JobFits, JobStages, LetIn, Timed
    <3>8. JobFits(r)' /\ GateMoves(j, r.at)
      BY <1>1, <2>1, <3>5, <3>6, <3>7, StillFits DEF GateMoves, LetIn, Timed
    <3>9. mishaps' \in 0..MaxMishaps /\ asked' \in 0..MaxRequests
      BY <1>1, MishapCounts DEF BackupInv
    <3> QED
      BY <1>1, <3>5, <3>6, <3>8, <3>9, JobStep
  <2> QED
    BY <1>2, <2>2, <2>3 DEF DeleteArtifact
<1>3. CASE DeleteRow(j)
  <2>1. /\ Ends(j) /\ UNCHANGED <<artifact, given>>
        /\ Save(job[j].id, NoRec) \/ UNCHANGED <<record, old>>
    BY <1>3 DEF DeleteRow, Save
  <2>2. NoRec \in BackupRow /\ ~NoRec.key
    BY DEF NoRec, Rec, BackupRow
  <2>3. RecordsFit' \/ UNCHANGED <<record, old>>
    BY <1>1, <2>1, <2>2, SaveFits
  <2>4. JobMoves(j, AtEase) /\ GateMoves(j, AtEase.at)
    BY <1>1, <2>1, JobEnds DEF GateMoves, AtEase, LetIn, Timed
  <2> QED
    BY <1>1, <2>1, <2>3, <2>4, AtEaseFits, QuietStep
<1> QED
  BY <1>2, <1>3

LEMMA DownloadKeeps == ASSUME BackupInv, NEW j \in Jobbers, Download(j) PROVE BackupInv'
<1>1. /\ UNCHANGED <<host, scan, asked, artifact, given, Gate>>
      /\ job[j].at = "restore" /\ job[j].at \in LetIn \ {"over"} /\ job[j].id \in Backups
  BY JobAt DEF Download, LetIn, Timed
<1>2. CASE Unread(j, "restore failed")
  BY <1>1, <1>2, UnreadKeeps
<1>3. CASE ~Unread(j, "restore failed")
  <2> DEFINE b == job[j].id
             r == [at |-> IF artifact[b] = None THEN "failing" ELSE "loading", kind |-> job[j].kind, id |-> b,
                   key |-> record[b].key, dump |-> artifact[b], ours |-> record[b].status = "restoring",
                   late |-> job[j].late]
  <2>1. /\ UNCHANGED <<record, old>> /\ Fine
        /\ job' = [job EXCEPT ![j].at = IF artifact[b] = None THEN "failing" ELSE "loading", ![j].dump = artifact[b],
                              ![j].key = record[b].key, ![j].ours = record[b].status = "restoring"]
    BY <1>3 DEF Download
  <2>2. /\ job \in [Jobbers -> JobRow] /\ job[j] \in JobRow /\ JobFits(job[j])
        /\ artifact[b] \in BackupRows \cup {None} /\ Kept(artifact[b])
        /\ record[b] \in BackupRow /\ (record[b].key => Stored(b))
    BY <1>1, JobAt DEF BackupInv, ArtifactsFit
  <2>3. r \in JobRow
    BY <1>1, <2>2 DEF JobRow, JobStages, LetIn, Timed, BackupRow
  <2>4. JobFits(r)
    BY <1>1, <2>2 DEF JobFits, JobStages, LetIn, Timed
  <2>5. job'[j] = r
    BY <1>1, <2>1, <2>2 DEF JobRow
  <2>6. JobMoves(j, r)
    <3>1. /\ DOMAIN job' = Jobbers /\ job' = [k \in DOMAIN job' |-> job'[k]]
          /\ \A k \in Jobbers : k # j => job'[k] = job[k]
      BY <2>1, <2>2
    <3> QED
      BY <2>2, <2>5, <3>1 DEF JobMoves
  <2>7. GateMoves(j, r.at)
    BY <1>1 DEF GateMoves, LetIn, Timed
  <2> HIDE DEF r
  <2> QED
    BY <1>1, <2>1, <2>3, <2>4, <2>6, <2>7, QuietStep
<1> QED
  BY <1>2, <1>3

LEMMA LoadKeeps ==
  ASSUME BackupInv, NEW j \in Jobbers, Load(j) \/ LoadFails(j) \/ Drill(j) PROVE BackupInv'
<1>1. /\ UNCHANGED <<host, scan, asked, artifact, given, Gate>> /\ (Mishap \/ Fine)
      /\ job[j].at \in {"loading", "drill"} /\ job[j].at \in LetIn \ {"over"}
  BY DEF Load, LoadFails, Drill, CutOff, Books, LetIn, Timed
<1>2. CASE Load(j)
  <2>1. /\ DumpEdited(j, "restored", None) /\ record' = job[j].dump /\ old' = {}
        /\ job[j].dump \in BackupRows /\ Kept(job[j].dump)
    BY <1>2, JobAt DEF Load, DumpEdited, JobFits
  <2>2. RecordsFit'
    <3>1. PICK rows \in BackupRows : rows = job[j].dump
      BY <2>1
    <3>2. Kept(rows)'
      BY <1>1, <2>1, <3>1 DEF Kept, Stored
    <3> QED
      BY <2>1, <3>1, <3>2 DEF RecordsFit, Kept, Stored
  <2> QED
    BY <1>1, <2>1, <2>2, PutDown, QuietStep
<1>3. CASE LoadFails(j)
  <2>1. DumpEdited(j, "failing", None) /\ UNCHANGED <<record, old>>
    BY <1>3 DEF LoadFails, DumpEdited, Books
  <2> QED
    BY <1>1, <2>1, PutDown, QuietStep
<1>4. CASE Drill(j)
  BY <1>1, <1>4, ComingToAnEnd DEF Drill, Books
<1> QED
  BY <1>2, <1>3, <1>4

-----------------------------------------------------------------------------
(* Everything else *)

LEMMA TimeoutKeeps == ASSUME BackupInv, NEW j \in Jobbers, Timeout(j) PROVE BackupInv'
<1> DEFINE r == [at |-> job[j].at, kind |-> job[j].kind, id |-> job[j].id, key |-> job[j].key,
                 dump |-> job[j].dump, ours |-> job[j].ours, late |-> TRUE]
<1>1. /\ UNCHANGED <<host, scan, asked, artifact, given, record, old, Gate>> /\ Mishap
      /\ job[j].at \in Timed /\ job' = [job EXCEPT ![j].late = TRUE]
  BY DEF Timeout, Books
<1>2. job \in [Jobbers -> JobRow] /\ job[j] \in JobRow /\ JobFits(job[j])
  BY JobAt DEF BackupInv
<1>3. r \in JobRow /\ JobFits(r) /\ job'[j] = r
  BY <1>1, <1>2 DEF JobRow, JobFits
<1>4. JobMoves(j, r)
  <2>1. /\ DOMAIN job' = Jobbers /\ job' = [k \in DOMAIN job' |-> job'[k]]
        /\ \A k \in Jobbers : k # j => job'[k] = job[k]
    BY <1>1, <1>2
  <2> QED
    BY <1>2, <1>3, <2>1 DEF JobMoves
<1>5. GateMoves(j, r.at)
  BY <1>1 DEF GateMoves, LetIn, Timed
<1> HIDE DEF r
<1> QED
  BY <1>1, <1>3, <1>4, <1>5, QuietStep

LEMMA ScanKeeps ==
  ASSUME BackupInv, \/ ListStale \/ (\E b \in Backups : FailStale(b) \/ GrowOld(b))
                    \/ UNCHANGED backupVars
  PROVE  BackupInv'
<1>1. /\ UNCHANGED <<artifact, given, host, asked, Gate, job>> /\ (Mishap \/ Fine)
      /\ RecordsFit /\ ScanFits
  BY DEF ListStale, FailStale, GrowOld, backupVars, Books, Gate, BackupInv, Fine
<1>2. /\ ArtifactsFit' /\ (UNCHANGED <<record, old>> => RecordsFit')
      /\ \A x \in Backups : Stored(x) => Stored(x)'
  BY <1>1, BooksStay
<1>3. ScanFits' /\ RecordsFit'
  <2>1. CASE ListStale
    <3>1. old \subseteq Backups /\ scan' = [b \in old |-> record[b]] /\ UNCHANGED <<record, old>>
      BY <1>1, <2>1 DEF ListStale, RecordsFit, Books
    <3>2. ScanFits'
      BY <1>1, <3>1 DEF ScanFits, RecordsFit, BackupRows, Kept, Stored
    <3> QED
      BY <1>2, <3>1, <3>2
  <2>2. ASSUME NEW b \in Backups, FailStale(b) PROVE ScanFits' /\ RecordsFit'
    <3>1. b \in DOMAIN scan /\ scan' = [x \in DOMAIN scan \ {b} |-> scan[x]]
      BY <2>2 DEF FailStale
    <3>2. ScanFits'
      BY <1>1, <3>1 DEF ScanFits, Kept, Stored
    <3> DEFINE rec == Rec(IF scan[b].status = "restoring" THEN "restore failed" ELSE "failed", scan[b].key)
    <3>3. rec \in BackupRow /\ (rec.key => Stored(b))
      BY <1>1, <3>1 DEF ScanFits, Rec, BackupRow, Retryable, Kept
    <3>4. Save(b, rec) \/ UNCHANGED <<record, old>>
      BY <2>2 DEF FailStale
    <3> HIDE DEF rec
    <3>5. RecordsFit'
      BY <1>1, <1>2, <3>3, <3>4, SaveFits
    <3> QED
      BY <3>2, <3>5
  <2>3. ASSUME NEW b \in Backups, GrowOld(b) PROVE ScanFits' /\ RecordsFit'
    BY <1>1, <2>3 DEF GrowOld, ScanFits, RecordsFit, Kept, Stored, Busy
  <2>4. CASE UNCHANGED backupVars
    BY <1>1, <2>4 DEF backupVars, ScanFits, RecordsFit, Kept, Stored, Busy
  <2> QED
    BY <2>1, <2>2, <2>3, <2>4
<1>4. \A k \in Jobbers : JobFits(job[k])'
  BY <1>1 DEF BackupInv, JobFits, Kept, Stored
<1>5. GateFits'
  BY <1>1 DEF BackupInv, GateFits, GateIsGivenBack, Gate
<1>6. mishaps' \in 0..MaxMishaps
  BY <1>1, MishapCounts DEF BackupInv
<1> QED
  BY <1>1, <1>2, <1>3, <1>4, <1>5, <1>6 DEF BackupInv, Gate

LEMMA BackupCrashKeeps == ASSUME BackupInv, NEW s \in Servers, BackupCrash(s) PROVE BackupInv'
<1> DEFINE J == {j \in Jobbers : host[j] = s}
<1>1. /\ UNCHANGED <<record, artifact, old, given, host, asked>> /\ Mishap
      /\ job' = [j \in Jobbers |-> IF j \in J THEN AtEase ELSE job[j]]
      /\ jobLock' = IF jobLock \in J THEN NoOne ELSE jobLock
      /\ busy' = [busy EXCEPT ![s] = FALSE] /\ scan' = None
  BY DEF BackupCrash, Books
<1>2. ArtifactsFit' /\ RecordsFit' /\ \A x \in Backups : Stored(x) => Stored(x)'
  BY <1>1, BooksStay
<1>3. ScanFits'
  BY <1>1, AtEaseFits DEF ScanFits, Kept
<1>4. job' \in [Jobbers -> JobRow]
  BY <1>1, AtEaseFits DEF BackupInv
<1>5. ASSUME NEW k \in Jobbers PROVE JobFits(job[k])'
  <2>1. PICK q \in JobRow : q = job'[k]
    BY <1>4
  <2>2. JobFits(q)
    BY <1>1, <2>1, AtEaseFits DEF BackupInv
  <2>3. JobFits(q)'
    BY <1>2, <2>2, StillFits
  <2> QED
    BY <2>1, <2>3 DEF JobFits, Kept, Stored
<1>6. GateFits'
  <2>1. /\ GateFits /\ AtEase.at \notin LetIn /\ busy \in [Servers -> BOOLEAN]
        /\ jobLock \in Jobbers \cup {NoOne} /\ NoOne \notin Jobbers
    BY BackupAssumption DEF BackupAssumption, BackupInv, AtEase, LetIn, Timed
  <2>2. ASSUME NEW k \in Jobbers, job'[k].at \in LetIn PROVE jobLock' = k
    BY <1>1, <2>1, <2>2 DEF GateFits
  <2>3. ASSUME jobLock' # NoOne PROVE job'[jobLock'].at \in LetIn
    BY <1>1, <2>1, <2>3 DEF GateFits, GateIsGivenBack
  <2>4. ASSUME NEW x \in Servers, busy'[x]
        PROVE  \E k \in Jobbers : host'[k] = x /\ job'[k].at \in LetIn \cup {"lock"}
    <3>1. x # s /\ busy[x]
      BY <1>1, <2>1, <2>4
    <3> QED
      BY <1>1, <2>1, <3>1 DEF GateFits, GateIsGivenBack
  <2> QED
    BY <2>2, <2>3, <2>4 DEF GateFits, GateIsGivenBack
<1>7. mishaps' \in 0..MaxMishaps
  BY <1>1, MishapCounts DEF BackupInv
<1>8. busy' \in [Servers -> BOOLEAN] /\ jobLock' \in Jobbers \cup {NoOne}
  BY <1>1 DEF BackupInv
<1> QED
  BY <1>1, <1>2, <1>3, <1>4, <1>5, <1>6, <1>7, <1>8 DEF BackupInv

LEMMA BackupSteps == BackupInv /\ [BackupNext]_backupVars => BackupInv'
BY RequestsKeep, GateKeeps, BeginKeeps, MarkRunningKeeps, MarkingKeeps, DumpKeeps, PutKeeps, DeletionKeeps,
   DownloadKeeps, LoadKeeps, TimeoutKeeps, ScanKeeps, BackupCrashKeeps DEF BackupNext, Works, Cleans

LEMMA BackupInvariant == BackupSpec => []BackupInv
BY BackupsStart, BackupSteps, PTL DEF BackupSpec

LEMMA BackupsSafe == BackupInv => JobsAreSafe
<1> SUFFICES ASSUME BackupInv PROVE JobsAreSafe
  OBVIOUS
<1>1. RecordsFit /\ ArtifactsFit /\ ScanFits /\ GateFits
  BY DEF BackupInv
<1>2. BackupTypeOK
  <2>1. ASSUME NEW b \in Backups
        PROVE  /\ record[b].status \in BusyStatus \cup Retryable \cup {"none", "failed"}
               /\ record[b].key \in BOOLEAN /\ DOMAIN artifact[b] \in {{}, Backups}
    BY <1>1, AtEaseFits DEF RecordsFit, ArtifactsFit, BackupRows, BackupRow
  <2> QED
    BY <1>1, <2>1 DEF BackupTypeOK, BackupInv, RecordsFit, ArtifactsFit, ScanFits
<1>3. OneJobAtATime /\ GateIsGivenBack
  BY <1>1 DEF GateFits, OneJobAtATime
<1>4. NamedArtifactExists
  BY <1>1 DEF NamedArtifactExists, RecordsFit, BackupRows, Kept, Stored
<1> QED
  BY <1>2, <1>3, <1>4 DEF JobsAreSafe

\* One job at a time is let in, the gate opens again after it on every way out, and a
\* row that names an artifact has one, also among the rows a restore brings back
\* (backup/service/service.go: beginJob, executeDump, executeRestore, executeDrill, Delete).
THEOREM BackupsAreSafe == BackupSpec => []JobsAreSafe
BY BackupInvariant, BackupsSafe, PTL
=============================================================================
