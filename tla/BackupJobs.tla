----------------------------- MODULE BackupJobs -----------------------------
(***************************************************************************)
(* Dumps, restores and deletions of backups (internal/backup/service).     *)
(* One job at a time is let in by a count of busy rows, a flag of the      *)
(* process and a session lock of the database; what a job does to its row  *)
(* it does with a context that ends after the timeout.  A restore puts the *)
(* whole database back, the rows of the backups with it.                   *)
(***************************************************************************)
EXTENDS Naturals, FiniteSets

CONSTANTS
  Backups,          \* ids of backup_records
  Jobbers, Servers, \* requests and their goroutines; the processes they run in
  NoOne,            \* the advisory lock is free
  MaxRequests,      \* bound: backups, restores, drills and deletions asked for
  MaxMishaps        \* bound: crashes, timeouts and failing calls

ASSUME BackupAssumption == NoOne \notin Jobbers /\ {MaxRequests, MaxMishaps} \subseteq Nat

VARIABLES
  record,           \* the rows: status, and whether object_key is set
  artifact,         \* what is stored for a backup: the rows it would bring back
  host,             \* the process of a jobber
  busy,             \* backupService.busy of each process
  jobLock,          \* pg_advisory_lock
  job,              \* the jobbers
  scan,             \* copies of rows failStale has still to fail
  old,              \* busy rows not updated for longer than the timeout
  given,            \* backups whose artifact has been deleted on request
  asked, mishaps

backupVars == <<record, artifact, host, busy, jobLock, job, scan, old, given, asked, mishaps>>

BusyStatus == {"pending", "running", "restoring"}
Retryable == {"success", "restored", "restore failed"}
Rec(s, k) == [status |-> s, key |-> k]
NoRec == Rec("none", FALSE)
Busy(b) == record[b].status \in BusyStatus

\* Stages in which a goroutine runs under the timeout, and those before and after
\* them in which the job has been let in.
Timed == {"dump", "dumping", "putting", "marking", "failing", "restore", "loading", "restored", "drill"}
LetIn == Timed \cup {"begun", "over"}
None == [b \in {} |-> NoRec]
AtEase == [at |-> "idle", kind |-> "none", id |-> NoOne, key |-> FALSE, dump |-> None, ours |-> TRUE, late |-> FALSE]

BackupInit ==
  /\ record = [b \in Backups |-> NoRec] /\ artifact = [b \in Backups |-> None]
  /\ host \in [Jobbers -> Servers] /\ busy = [s \in Servers |-> FALSE] /\ jobLock = NoOne
  /\ job = [j \in Jobbers |-> AtEase]
  /\ scan = None /\ old = {} /\ given = {} /\ asked = 0 /\ mishaps = 0

Mishap == mishaps < MaxMishaps /\ mishaps' = mishaps + 1
Fine == UNCHANGED mishaps
Goes(j, at) == job' = [job EXCEPT ![j].at = at]
Ends(j) == job' = [job EXCEPT ![j] = AtEase]
Over(j) == job' = [job EXCEPT ![j] = [AtEase EXCEPT !.at = "over"]]
Books == <<record, artifact, old, given>>
Gate == <<busy, jobLock>>

\* UpdateRecord, gorm's Save: a row that is gone is inserted again.
Save(b, rec) == record' = [record EXCEPT ![b] = rec] /\ old' = old \ {b}

(* Requests *)
Asks(j, kind, b) ==
  /\ job[j] = AtEase /\ asked < MaxRequests /\ asked' = asked + 1
  /\ job' = [job EXCEPT ![j] = [AtEase EXCEPT !.at = IF kind = "delete" THEN kind ELSE "count",
                                             !.kind = kind, !.id = b, !.key = record[b].key]]
  /\ UNCHANGED <<Books, host, Gate, scan>> /\ Fine

\* A backup gets a new id.
AskBackup(j, b) ==
  /\ Asks(j, "dump", b) /\ record[b] = NoRec /\ artifact[b] = None /\ b \notin given
  /\ \A k \in Jobbers : job[k].id # b

\* Restore and DrillRestore look at the row before they are let in.
AskRestore(j, b) ==
  /\ record[b].status \in Retryable /\ record[b].key
  /\ Asks(j, "restore", b) \/ Asks(j, "drill", b)

AskDelete(j, b) == record[b] # NoRec /\ ~Busy(b) /\ Asks(j, "delete", b)

\* The artifact goes first; when that fails the row goes all the same.
DeleteArtifact(j) ==
  /\ job[j].at = "delete" /\ Goes(j, "delete row")
  /\ \/ /\ artifact' = [artifact EXCEPT ![job[j].id] = IF job[j].key THEN None ELSE @]
        /\ given' = given \cup {job[j].id} /\ Fine
     \/ Mishap /\ UNCHANGED <<artifact, given>>
  /\ UNCHANGED <<record, old, host, asked, Gate, scan>>

DeleteRow(j) ==
  /\ job[j].at = "delete row" /\ Ends(j)
  /\ \/ record' = [record EXCEPT ![job[j].id] = NoRec] /\ old' = old \ {job[j].id} /\ Fine
     \/ Mishap /\ UNCHANGED <<record, old>>
  /\ UNCHANGED <<artifact, given, host, asked, Gate, scan>>

(* beginJob: CountBusy, tryBegin, TryJobLock *)
CountBusy(j) ==
  /\ job[j].at = "count"
  /\ IF \E b \in Backups : Busy(b) THEN Ends(j) ELSE Goes(j, "flag")
  /\ UNCHANGED <<Books, host, asked, Gate, scan>> /\ Fine

TryBegin(j) ==
  /\ job[j].at = "flag"
  /\ IF busy[host[j]] THEN Ends(j) /\ UNCHANGED busy
     ELSE Goes(j, "lock") /\ busy' = [busy EXCEPT ![host[j]] = TRUE]
  /\ UNCHANGED <<Books, host, asked, jobLock, scan>> /\ Fine

\* Faulty: the flag of the process is enough.
TryJobLockNever(j) ==
  /\ job[j].at = "lock" /\ Goes(j, "begun")
  /\ UNCHANGED <<Books, host, asked, busy, jobLock, scan>> /\ Fine

TryJobLock(j) ==
  /\ job[j].at = "lock"
  /\ \/ jobLock = NoOne /\ jobLock' = j /\ Goes(j, "begun") /\ UNCHANGED busy /\ Fine
     \/ /\ (jobLock # NoOne /\ Fine) \/ Mishap
        /\ Ends(j) /\ busy' = [busy EXCEPT ![host[j]] = FALSE] /\ UNCHANGED jobLock
  /\ UNCHANGED <<Books, host, asked, scan>>

\* The row of the job is written, or the job is over at once.
Begin(j) ==
  /\ job[j].at = "begun"
  /\ \/ /\ Fine
        /\ CASE job[j].kind = "dump" -> Save(job[j].id, Rec("pending", FALSE)) /\ Goes(j, "dump")
             [] job[j].kind = "restore" -> Save(job[j].id, Rec("restoring", TRUE)) /\ Goes(j, "restore")
             [] job[j].kind = "drill" -> UNCHANGED <<record, old>> /\ Goes(j, "drill")
     \/ Mishap /\ Over(j) /\ UNCHANGED <<record, old>>
  /\ UNCHANGED <<artifact, given, host, asked, Gate, scan>>

\* done: the lock, then the flag.
Done(j) ==
  /\ job[j].at = "over" /\ Ends(j)
  /\ jobLock' = NoOne /\ busy' = [busy EXCEPT ![host[j]] = FALSE]
  /\ UNCHANGED <<Books, host, asked, scan>> /\ Fine

\* MarkTerminal writes to the row, if there is one.
MarkTerminal(b, s) ==
  /\ record' = [record EXCEPT ![b] = IF @ = NoRec THEN @ ELSE Rec(s, @.key)]
  /\ old' = old \ {b}

\* A call of a job fails, because its context has ended or by mishap.
CutOff(j) == (job[j].late /\ Fine) \/ (~job[j].late /\ Mishap)

\* The row is not there or cannot be read: failByID.
Unread(j, s) ==
  /\ Over(j)
  /\ \/ (job[j].late \/ record[job[j].id] = NoRec) /\ UNCHANGED <<record, old>> /\ Fine
     \/ ~job[j].late /\ Mishap /\ MarkTerminal(job[j].id, s)

(* executeDump *)
MarkRunning(j) ==
  /\ job[j].at = "dump"
  /\ LET b == job[j].id IN
       \/ /\ ~job[j].late /\ record[b].status = "pending" /\ Fine
          /\ Save(b, Rec("running", FALSE)) /\ Goes(j, "dumping")
       \/ /\ ~job[j].late /\ record[b] # NoRec /\ ((record[b].status # "pending" /\ Fine) \/ Mishap)
          /\ Goes(j, "failing") /\ UNCHANGED <<record, old>>
       \/ Unread(j, "failed")
  /\ UNCHANGED <<artifact, given, host, asked, Gate, scan>>

\* pg_dump sees the rows of one moment, among them its own, running.
Dump(j) ==
  /\ job[j].at = "dumping"
  /\ \/ ~job[j].late /\ Fine /\ job' = [job EXCEPT ![j].at = "putting", ![j].dump = record]
     \/ CutOff(j) /\ Goes(j, "failing")
  /\ UNCHANGED <<Books, host, asked, Gate, scan>>

\* Faulty: the row is marked before the artifact is stored.
MarkBeforePut(j) ==
  /\ job[j].at = "putting" /\ ~job[j].late /\ Fine
  /\ artifact' = [artifact EXCEPT ![job[j].id] = IF record[job[j].id].status = "success" THEN job[j].dump ELSE @]
  /\ IF record[job[j].id].status = "success" THEN Over(j) /\ UNCHANGED <<record, old>>
     ELSE Save(job[j].id, Rec("success", TRUE)) /\ UNCHANGED job
  /\ UNCHANGED <<given, host, asked, Gate, scan>>

Put(j) ==
  /\ job[j].at = "putting"
  /\ \/ /\ ~job[j].late /\ Fine /\ artifact' = [artifact EXCEPT ![job[j].id] = job[j].dump]
        /\ job' = [job EXCEPT ![j].at = "marking", ![j].dump = None]
     \/ /\ CutOff(j)
        /\ job' = [job EXCEPT ![j].at = "failing", ![j].dump = None] /\ UNCHANGED artifact
  /\ UNCHANGED <<record, old, given, host, asked, Gate, scan>>

\* A last Save that fails is only logged.
Marks(j, at, rec) ==
  /\ job[j].at = at /\ Over(j)
  /\ \/ ~job[j].late /\ Save(job[j].id, rec) /\ Fine
     \/ CutOff(j) /\ UNCHANGED <<record, old>>
  /\ UNCHANGED <<artifact, given, host, asked, Gate, scan>>

MarkSuccess(j) == Marks(j, "marking", Rec("success", TRUE))

\* fail, with the context of the job, which may have run out.  A row the stale scan
\* has settled meanwhile ends as a failed dump.
Fail(j) ==
  IF job[j].kind = "dump" THEN Marks(j, "failing", Rec("failed", FALSE))
  ELSE Marks(j, "failing", Rec(IF job[j].ours THEN "restore failed" ELSE "failed", job[j].key))

(* executeRestore *)
Download(j) ==
  /\ job[j].at = "restore"
  /\ LET b == job[j].id IN
       \/ /\ ~job[j].late /\ record[b] # NoRec /\ UNCHANGED <<record, old>>
          /\ job' = [job EXCEPT ![j].at = IF artifact[b] = None THEN "failing" ELSE "loading", ![j].dump = artifact[b],
                                ![j].key = record[b].key, ![j].ours = record[b].status = "restoring"]
          /\ Fine
       \/ Unread(j, "restore failed")
  /\ UNCHANGED <<artifact, given, host, asked, Gate, scan>>

\* pg_restore --clean --single-transaction, on the database the rows are in.
Load(j) ==
  /\ job[j].at = "loading" /\ job' = [job EXCEPT ![j].at = "restored", ![j].dump = None]
  /\ ~job[j].late /\ Fine /\ record' = job[j].dump /\ old' = {}
  /\ UNCHANGED <<artifact, given, host, asked, Gate, scan>>

LoadFails(j) ==
  /\ job[j].at = "loading" /\ job' = [job EXCEPT ![j].at = "failing", ![j].dump = None]
  /\ CutOff(j)
  /\ UNCHANGED <<Books, host, asked, Gate, scan>>

MarkRestored(j) == Marks(j, "restored", Rec(IF job[j].ours THEN "restored" ELSE "failed", job[j].key))

\* executeDrill restores into another database.
Drill(j) ==
  /\ job[j].at = "drill" /\ Over(j)
  /\ UNCHANGED <<Books, host, asked, Gate, scan>> /\ Fine

(* failStale, in every scheduled backup and cleanup *)
\* Faulty: rows that are being restored are left alone.
ListStaleDumps ==
  /\ DOMAIN scan = {}
  /\ LET S == {b \in old : record[b].status # "restoring"}
     IN  S # {} /\ scan' = [b \in S |-> record[b]]
  /\ UNCHANGED <<Books, host, asked, Gate, job>> /\ Fine

ListStale ==
  /\ DOMAIN scan = {} /\ old # {} /\ scan' = [b \in old |-> record[b]]
  /\ UNCHANGED <<Books, host, asked, Gate, job>> /\ Fine

FailStale(b) ==
  /\ b \in DOMAIN scan /\ scan' = [x \in DOMAIN scan \ {b} |-> scan[x]]
  /\ \/ Save(b, Rec(IF scan[b].status = "restoring" THEN "restore failed" ELSE "failed", scan[b].key)) /\ Fine
     \/ Mishap /\ UNCHANGED <<record, old>>
  /\ UNCHANGED <<artifact, given, host, asked, Gate, job>>

(* Time and crashes *)
Timeout(j) ==
  /\ job[j].at \in Timed /\ ~job[j].late /\ Mishap /\ job' = [job EXCEPT ![j].late = TRUE]
  /\ UNCHANGED <<Books, host, asked, Gate, scan>>

\* A dump marks its row running under the context, so that row gets old after the
\* context has ended; the other busy rows were written before theirs began.
GrowOld(b) ==
  /\ Busy(b) /\ b \notin old /\ old' = old \cup {b}
  /\ \A j \in Jobbers :
       job[j].kind = "dump" /\ job[j].id = b /\ record[b].status = "running" => job[j].late
  /\ UNCHANGED <<record, artifact, given, host, asked, Gate, job, scan>> /\ Fine

BackupCrash(s) ==
  /\ Mishap
  /\ LET J == {j \in Jobbers : host[j] = s} IN
       /\ job' = [j \in Jobbers |-> IF j \in J THEN AtEase ELSE job[j]]
       /\ jobLock' = IF jobLock \in J THEN NoOne ELSE jobLock
  /\ busy' = [busy EXCEPT ![s] = FALSE] /\ scan' = None
  /\ UNCHANGED <<Books, host, asked>>

Works(j) ==
  \/ DeleteArtifact(j) \/ DeleteRow(j) \/ CountBusy(j) \/ TryBegin(j) \/ TryJobLock(j)
  \/ Begin(j) \/ Done(j) \/ MarkRunning(j) \/ Dump(j) \/ Put(j) \/ MarkSuccess(j) \/ Fail(j)
  \/ Download(j) \/ Load(j) \/ LoadFails(j) \/ MarkRestored(j) \/ Drill(j)
Cleans == ListStale \/ \E b \in Backups : FailStale(b)

BackupNext ==
  \/ \E j \in Jobbers : Works(j) \/ Timeout(j)
  \/ \E j \in Jobbers, b \in Backups : AskBackup(j, b) \/ AskRestore(j, b) \/ AskDelete(j, b)
  \/ Cleans \/ \E b \in Backups : GrowOld(b)
  \/ \E s \in Servers : BackupCrash(s)

BackupSpec == BackupInit /\ [][BackupNext]_backupVars

-----------------------------------------------------------------------------
\* Every variable keeps its shape; only jobs that were let in hold the lock.
BackupTypeOK ==
  /\ \A b \in Backups :
       /\ record[b].status \in BusyStatus \cup Retryable \cup {"none", "failed"}
       /\ record[b].key \in BOOLEAN /\ DOMAIN artifact[b] \in {{}, Backups}
  /\ busy \in [Servers -> BOOLEAN] /\ jobLock \in Jobbers \cup {NoOne}
  /\ old \subseteq {b \in Backups : Busy(b)} /\ DOMAIN scan \subseteq Backups
  /\ given \subseteq Backups /\ asked \in 0..MaxRequests /\ mishaps \in 0..MaxMishaps

\* No dump, restore or drill runs beside another one, in whatever process.
OneJobAtATime ==
  \A j, k \in Jobbers : job[j].at \in LetIn /\ job[k].at \in LetIn => j = k

\* The flag and the lock are given back on every way out of a job: they are held
\* for a job that is under way and for nothing else.
GateIsGivenBack ==
  /\ jobLock # NoOne => job[jobLock].at \in LetIn
  /\ \A s \in Servers :
       busy[s] => \E j \in Jobbers : host[j] = s /\ job[j].at \in LetIn \cup {"lock"}

\* A row that names an artifact can be restored from it, also after a crash, a
\* failed call or a restore that brought older rows back; but for artifacts that
\* were deleted on request.
NamedArtifactExists ==
  \A b \in Backups : record[b].key /\ artifact[b] = None => b \in given

\* The gate lets one job in at a time and opens again after it, and what the jobs
\* leave behind can be restored.
JobsAreSafe == BackupTypeOK /\ OneJobAtATime /\ GateIsGivenBack /\ NamedArtifactExists

\* A crash, a timeout or a failing call leaves no row busy for good, which would
\* refuse every later job.
BusyRowIsFreed == \A b \in Backups : Busy(b) ~> ~Busy(b)
=============================================================================
