# StarByte: formal models

StarByte is the administration platform of a student association: a Go backend
(`src/backend`) behind a React front end, with PostgreSQL for everything that
must last, Redis for locks and caches, and one process pool of HTTP handlers
and scheduled jobs. This directory holds TLA+ models of its core logic, the TLC
runs that check them on small instances, and TLAPS proofs of what matters most
for every instance.

Contents: [1 Inventory](#1-inventory) · [2 Plan](#2-plan) ·
[3 Modules](#3-modules-and-how-they-correspond-to-the-code) ·
[4 Runs](#4-runs-bounds-and-what-they-show) · [5 Fairness](#5-fairness) ·
[6 Findings](#6-where-the-code-and-its-words-disagree) · [7 Proofs](#7-proofs) ·
[8 Not modelled](#8-what-is-not-modelled)

How to run, in this directory:

    tlc -workers 2 -config Line.cfg MCFlowEngine      # any run of PROJECT.json
    tlapm FlowEngineProofs.tla                        # any module named ...Proofs

## 1. Inventory

Paths are relative to `src/backend`. "Hard" is what a unit test hardly reaches;
"correct" is what has to hold.

### Workflow engine (`internal/workflow/engine`)

* **State.** `flow_instances` (status, `current_node_ids`, and in its variables one
  counter of tokens per edge into a join), `flow_tasks` (one row per assignee and
  activation), `flow_histories`, and the published graph of the definition version.
* **Operations.** Start; the loop of `execution.go` over arrivals (gateways,
  joins, approvals, ends, service and notification nodes); complete (approve,
  reject, withdraw, roll back, transfer); terminate, suspend, resume; and those of
  a member application: a reviewer's vote, a transfer, the skip of a step.
* **Interactions.** Handlers and business services call it, either in a
  transaction of its own or bound to theirs (`business_transaction.go`). Each
  operation locks the instance row first (`LockInstance`), reads everything
  again and writes through repositories bound to the transaction; events are
  buffered and delivered after the commit. Two things touch the same rows
  without that lock: the overdue hand-over and the read-only projections.
* **Hard.** Several approvers at once; rounds of earlier activations in the same
  tables; loops, returns and joins that are passed more than once; empty
  assignee sets with hand-over and skip policies; failure in the middle of a walk.
* **Correct.** Open tasks belong to active nodes; one open round per node; votes
  settle a round exactly when the rule says so; nobody counts twice; a join waits
  for every branch; what was decided is not rewritten; a live instance has
  somebody who can act; a walk ends.

### Approval rule (`engine/approval.go`, `approvalDecision`)

Pure arithmetic over single / all / any / ratio. **Correct:** never passes and is
impossible at once, is decided by the last vote, and votes work in their direction.

### Overdue hand-over (`engine/timeout_escalate.go`, `member/service/admission_reminders.go`)

* **State.** The rows of the engine, and the `timeout_escalate` history entries.
* **Operations.** List overdue tasks; per instance read the instance, the tasks,
  the history; cancel the open tasks; open new ones for the escalation role.
* **Interactions.** Runs from the scheduled job `admission_maintenance` beside the
  engine's operations, without the instance lock; meets them only at the
  database's row and foreign-key locks.
* **Hard.** Everything between its reads and its writes; failure and retry.
* **Correct.** Once per node; never to nobody; no vote lost; a stalled step is
  rescued.

### Collaboration tasks (`internal/task`, `engine/task_checkpoint.go`, `task_approval.go`, `task_timeout.go`, `transfer_graph.go`)

* **State.** The row in `tasks` (status, stage, executor, reviewer, acceptor,
  `workflow_revision`, delivery), the flow instance with its open todo, the rows of
  `task_transfers` with their signatures, escalation logs, sub-tasks, attachments
  and the outbox `task_file_deletions`.
* **Operations.** Claim, assign, start, pause, resume, submit, approve, return,
  reject, cancel, delete; delegation and signed hand-over; escalation of overdue
  todos; upload and deletion of files.
* **Interactions.** Each operation locks the task row, binds the workflow engine to
  the same transaction and writes the row and the flow's rows together. The escalation
  lists todos without a lock. Files lie in an object store outside the transaction.
* **Hard.** Two records of one state; a decision on what was shown before;
  hand-overs that wait for signatures while the task moves; a store that does not
  roll back.
* **Correct.** Row and flow agree; nobody judges his own work; a decision meets the
  delivery it was made on; a signed hand-over is settled; listed files exist and
  recorded deletions are carried out.

### Scheduler (`internal/scheduler`, `pkg/cache/lock.go`)

* **State.** The row in `scheduled_tasks`, per process the in-flight marks, the Redis
  lock with its watchdog.
* **Operations.** List due tasks, claim, lock, read again, shift the next run, run,
  record the result; manual runs; edits, pauses and deletions by administrators.
* **Hard.** Two processes; a lock that lapses under a handler; whole rows saved over
  edits; crashes between any two statements.
* **Correct.** Runs of one process do not overlap, and runs of two only after a lock
  lapsed or the task was moved to another one; what was decided stands; a cron task
  keeps its next run time; a due task is taken up again.

### Backup (`internal/backup`)

* **State.** `backup_records`, artifacts, one flag per process and the advisory lock
  of the database. **Operations.** Dump, restore, drill, delete, clean up stale rows.
* **Hard.** The gate is three locks taken one after another; timeouts end the context
  the failure is written with; a restore brings older rows back.
* **Correct.** One job at a time; the gate is given back; a row that names an artifact
  has one; no row stays busy.

### Meetings and activities (`internal/meeting`, `internal/activity`)

* **State.** Meeting, attendees, votes with frozen electorate, ballots, receipts and
  weights; activity with capacity, registrations with their order.
* **Hard.** A ballot against the deadline, the close and the expiry job; a cancellation
  and a registration at once; capacity changes.
* **Correct.** Only who was entitled when the vote opened is counted, once and with
  that weight; nothing after the close; no seat oversold and none left free while
  somebody waits.

### Permission cache (`internal/rbac`, `internal/member`)

* **State.** Two keys per user in Redis, grants in the database, durable refresh rows
  with revisions. **Operations.** Load, invalidate, queue and carry out refreshes.
* **Hard.** A load that crosses a change; a DEL that fails; a second change while a
  worker is under way.
* **Correct.** An outdated key has a known reason; a queued refresh is carried out.

### Fair lock, e-mail worker, audit writer (`pkg/cache/lock_fair.go`, `internal/notification`, `pkg/middleware/audit_log.go`)

A list of waiters in Redis with leases; a bounded channel with a counter and delayed
retries; a bounded channel that is closed at the server's stop. **Hard:** waiters that
die; a full queue, retries and a crash at once; writes after the close. **Correct:**
everybody alive is served in order; the counter is the number of jobs and each mail
ends in a settled state; what was accepted before the stop is written.

### Circuit breaker (`pkg/middleware/circuitbreaker`)

* **State.** Per route: state, time of the trip, free trial slots, successes, the
  sample window. **Operations.** Allow, Record, Skip, each under the mutex.
* **Hard.** Requests in flight while the breaker changes its state.
* **Correct.** Never half-open for good; closes with a healthy window; limited
  trial.

### The other components

| Component | State and operations | What is hard |
|---|---|---|
| workflow adapters for leave and admission (`leave_approval.go`, `admission_graph.go`) | signatures on the engine's rows | re-entrant use of the engine's lock |
| workflow service and definitions | versions of graphs; publish, disable | publication while instances start |
| event buffer (`pkg/events`) | events of a transaction; deliver after commit | a crash between commit and delivery; a caller that drops the delivery |
| layered cache, single flight (`pkg/cache`) | local and Redis copies, calls under way | a load that crosses a write; a panic of the leader |
| membership (`internal/member`) | applications, imports, probation, reminders | two reviewers and a job on one application |
| interview (`internal/interview`) | slots, scores | as the registration of activities |
| sessions and tokens (`internal/auth`) | refresh tokens in Redis | two refreshes with one token |
| feature flags (`internal/feature`) | flags, due changes, cache | a manual against a due change |
| schedule, leave, internship, announcement | short status machines | leave and internship ride on the engine |
| files, forms, contracts, finance, discipline, dictionaries, users, knowledge | rows behind create/read/update/delete | an upload whose row is not written |
| configuration, monitoring, export, statistics, search, HTTP middleware, rate limiter, database and logging helpers | no shared state of their own, or a Redis script | - |
| start-up (`cmd/server`), migrations, scripts, front end | wiring, SQL, user interface | shutdown order |

`PROJECT.json` lists all of them under "components", and under "hazards" the
places where the code can go wrong, each at its line, with the properties that
watch it.

## 2. Plan

Done, in this order:

1. `ApprovalRule`, `FlowContract`, `FlowEngine`: the engine and its promise, with
   proofs. Everything of the business side ends in it, so it comes first.
2. `ApprovalEscalation` on top of it: the one writer that does not take the lock.
3. `CircuitBreaker`, with proofs.
4. `Scheduler` and `BackupJobs`: what runs in several processes and survives crashes.
5. `FairLock`, `EmailWorker`, `AuditWriter`: bounded queues and their ends.
6. `MeetingVote`, `ActivityRegistration`, `PermissionCache`: shared rows and a cache.
7. `TaskLifecycle` and `AttachmentCleanup`: a business object on top of a flow, with
   an object store beside the database.
8. Proofs of what TLC had checked: the rounds and votes of the engine, then the
   scheduler, the backups, tasks and files, the fair lock, mail and audit, meetings,
   activities and the permission cache, and last the scan beside the flow.

Left, in the order of what they would add: the notices of the engine (event buffer
against commit and crash), leave and admission signatures, scheduled feature changes,
interview booking, the layered cache.

## 3. Modules and how they correspond to the code

| Module | Models | Kind |
|---|---|---|
| `ApprovalRule` | `approvalDecision`, `ValidateApprovalConfig` | operators |
| `FlowContract` | what a flow promises whatever its graph | abstract specification |
| `FlowEngine` | the engine's operations on one instance | detailed specification, implements `FlowContract` |
| `FlowShape` | which graphs keep their parallel parts apart and bring them together again, and the invariants of instances of such graphs | extends `FlowEngine` |
| `ApprovalEscalation` | the overdue scan beside `FlowEngine` | extends `FlowEngine` |
| `TaskLifecycle` | one collaboration task under its review flow | specification |
| `AttachmentCleanup` | the files of one task | specification |
| `Scheduler` | one scheduled task, its dispatches and the Redis lock | specification |
| `BackupJobs` | backups, restores, drills, deletions | specification |
| `MeetingVote` | one meeting and its votes | specification |
| `ActivityRegistration` | the seats of one activity | specification |
| `PermissionCache` | the cached permissions and the queue of refreshes | specification |
| `FairLock`, `EmailWorker`, `AuditWriter`, `CircuitBreaker` | the services of the title | specifications |
| `MCFlowEngine`, `MCApprovalEscalation`, `MCTasks` | graphs, with the witness that they have the shapes of `FlowShape`; staffing and people | model checking |
| `MCJobs`, `MCPlatform`, `MCBusiness` | several modules in one run, with their fairness | model checking |
| `FlowEngineProofs`, `FlowRoundsProofs`, `EscalationProofs`, `CircuitBreakerProofs`, `JobsProofs`, `TaskProofs`, `QueueProofs`, `SharedRowsProofs` | | theorems (section 7) |

### FlowEngine

`db` is what is committed of the instance: status, active nodes (`current`), join
tokens, task rows, the history entries that explain a closed round (`notes`), and
the number of activations so far (`rounds`, which stands for fresh activation ids).
A task row is its node, round, assignee, a number that tells apart the tasks of one
person in one round (`nth`) and its status. `held`, `work`, `queue` and `turns` are
the transaction that has the row lock: its uncommitted rows, the arrivals
`executeFromNodes` has yet to handle and its step counter.

An operation whose effect is complete in one transaction without a walk is one
action that saves (`Transfer`, `Terminate`, `Suspend`, a vote that leaves its round
open). One that moves the flow on closes its round and fills `queue`; each turn of
the loop is an action (`PassNode`, `Branch`, `Fork`, `ArriveAtJoin`,
`EnterApproval`, `PassApproval`), `Commit` is the end of `inTransaction` with the
completion test of `executeFromNodes`, and `Abort` is any error, cancelled context
or crash on the way. Other operations wait for the lock, so they only see `db`.

Choices the data makes in the code are nondeterministic here: the branch an
exclusive gateway takes, whether a skip variable is set, whom an assignee rule or
a fallback role finds. They are drawn from the constants `Staffing`, `Fallback`,
`Escalates`, `MaySkip`, `SkipVars`.

`GraphAssumption` is what `ValidateGraph` lets be published: one start node, all
nodes reachable, only ends without successors, one successor except at gateways,
no cycle without an approval. It also says that the configuration names known
users and valid rules. `Protected` chooses between a member application
(operations keyed by the reviewer, the applicant never approves, a rejection ends
the flow) and a generic flow.

`FlowContract` sees the status, the numbers of rounds with an open task and how
many rounds were issued. `Contract == INSTANCE FlowContract WITH phase <-
db.status, open <- OpenRounds(db), issued <- db.rounds`: an operation settles at
most one round and opens only new ones; turns of a walk are stutters until the
commit; an ended flow has nothing open.

### ApprovalEscalation

`scan` is the position of `EscalateOverdueApproval` (one action per statement that
reads or first locks something), with what it has read; `handed` is its history.
The scan's transaction is read committed, so each statement sees `db`. Its first
`Save` holds a task row; its first `INSERT` needs the instance row because of the
foreign keys, so from there on it waits while another transaction has it locked
and nobody else gets it until the scan commits: `HandOver` is one action. A flow
transaction that writes the held row deadlocks with the scan; the database rolls
one back, and `FlowStep` shows the case in which it is the scan. `ScanFails` is any
error or crash of a run. `ScanAssumption` says that the flow is a member application
(`Protected`), since `escalateOverdueApprovals` lists no other (`admission_reminders.go:61`).

### TaskLifecycle

`task` is the row in `tasks`, `flow` the instance it rides on (status, active node,
assignee of the open todo), `transfer` the newest row in `task_transfers` with the
roles that have signed, `escalated` the stages with an escalation log, `listed` what
each process's reminder has listed and not handled. Every operation is one action,
since it is one transaction that locks the task row and binds the engine to itself;
what it asks of the engine (`taskCheckpoint`, `ReassignStage`, `RollbackTask`) is
`At`, `Reassign`, `Move`. `Move` is a flow that enters a stage and `projectWorkflow`
that copies it to the row and counts the revision. A request that carries an old
revision is refused, so the actions are those that act on the current one. The
engine's own rows and rules are in `FlowEngine`; here a stage has one holder.
Only the escalation is two actions, `List` without the lock and `Escalate`.

### AttachmentCleanup

`object` and `meta` are the store's object and the file service's row, `attached`
the rows of the task, `deletion` the outbox `task_file_deletions`. Upload is
`StoreUpload` (first look at the task, then the store), `Attach` (second look under
the lock) or one of the two ways to fail. A deletion is recorded in one transaction
(`RequestDeletion`) and carried out by anybody under the row lock of the record
(`LockRequest`, `DeleteStored`, `Complete`); a crash rolls back the record and not
the store. `purge` is the other way a file goes, `DELETE /files/:id`
(`file/service/query.go:77-104`), which asks no task: `PurgeObject` deletes the object,
`PurgeRow` the row and by its foreign key the attachment, `PurgeBreaks` is a crash or a
failing statement between the two.

### Scheduler

An attempt is one goroutine of `Engine.dispatch`, from the listing of a due task (or
a manual trigger) to the deferred unlock; `att[a].at` is its place and `task`, `seen`
are its copies of the row. Every read and every whole-row `Save` is an action, as are
`Acquire`, `Unlock` and the removal of the in-flight mark. `admin` is a request that
has read the row and will save it; an update may make a one-time task a cron task or
back, and move it into or out of a shard. With the shard goes the key of the lock
(`lockName`): `lock` is a function of keys, `row.key` the key of the task now and
`att[a].key` the one a dispatch took, from the copy it was handed. The other tasks of
a shard appear as a key that is busy (the second outcome of `Acquire`). `watched` pairs
each watchdog with the key it renews, `Expire` is the TTL, `Lapse` three failed
renewals. Whether a failed run is tried again is left open. `lost`, `settled`, `done`
are history for the properties.

### BackupJobs

A job is let in by a count of busy rows, the flag of its process (`busy`) and the
session lock of the database (`jobLock`): `CountBusy`, `TryBegin`, `TryJobLock`, in
this order, and given back in the reverse one. What follows runs under the timeout
(`Timed`); a call after `Timeout` fails. `artifact[b]` is the set of rows the dump
holds, which `Load` brings back over `record`. `scan` holds copies of the rows
`failStale` still has to save.

### MeetingVote, ActivityRegistration

One action per transaction, which locks the meeting or the activity first. The
expiry job lists (`ListDueVotes`) and then closes one vote per transaction
(`CloseExpiredVote`); `DeleteActivity` reads (`ReadForDelete`) and deletes without
the lock. `electors[v]` are the frozen weights, `receipts`, `tally` what was cast.
`rows` is the order of `created_at`, which `promoteWaitlistIfSeat` follows and a
second registration keeps.

### PermissionCache

A value in the cache is the number of the last change it has seen, so outdated means
smaller than `truth`. A reader's miss, query and store are actions, so are an
administrator's change and each DEL after it, and each step of a run of
`refreshPermissions`. `outbox` holds the revision of the durable row. `failed` and
`overtaken` are the outdated keys whose invalidation failed, and those stored after a
change by a load that began before it.

### FairLock, EmailWorker, AuditWriter, CircuitBreaker

`FairLock`: each Redis call of `AcquireFair` is an action and has a second one in which
it fails (`PushFails`, `TakeOffFails`, `UnlockFails`, ...), with or without its effect:
the code ignores the errors of LREM, DEL, EXPIRE and `Unlock`, so a waiter may leave its
place, its lease or the lock behind. `queue` is the list, `lease` the key per ticket,
`failed` the waiters that met such an error while they queued, left or locked.
`LeaseEnds`, `ListEnds` and `LockEnds` are the three TTLs; the lock has no watchdog, so
`LockEndsEarly` may end it under a slow holder.
`EmailWorker`: `jobs` is the channel, `delayed` and
`flushing` the retries, `queued` the counter that bounds both; `MailCrash` empties
memory and keeps `mailLog`. `AuditWriter`: `server` is the place of `main` in the
stop, `channel` the buffer; a write after the close panics and is recovered.
`CircuitBreaker`: `inflight` are the requests between `Allow` and the deferred
`Record` or `Skip`. A sample is two booleans, failed and slower than the P99 limit;
`P99Exceeded` is the rank of the percentile the code sorts out. `elapsed` says that
`OpenFor` has passed. `ErrorRate` is a whole percentage.

## 4. Runs, bounds and what they show

| Run | What is exercised | Shows |
|---|---|---|
| `Line` | generic chain with a way back; all and ratio rules; empty staffing with hand-over and skip | `TypeOK`, `OnePersonOneVote`, `RoundsFollowTheRule`, `SomebodyCanAct`, `HistoryIsFinal`, `LockIsReleased` |
| `Cycle` | two branches, a join, a step behind it, and an approval before the fork, so that a return runs the branches again | `IndInv`, `JoinsAreExact`, refinement `ImplementsContract` |
| `OverdueScan` | the scan beside the chain of a member application, both steps timed, two countersigners, hand-over roles and skips, one failing run | `HandOverIsSound`, `ActiveApprovalsAreStaffed`, `EarlierVotesStand`, `UntouchedIsRescued` |
| `Scheduler` | a scheduled task in two processes; two backups in two processes | `DispatchesAreApart`, `DecisionsStand`, `CronKeepsItsPlan`, `DueTaskIsTaken`; `JobsAreSafe`, `BusyRowIsFreed` |
| `Platform` | breaker, fair lock, mail, audit, files | `BreakerIsSound`, `TrialEnds`; `QueueIsSound`, `FirstComeFirstServed`, `WaitersAreServed`; `MailIsAccountedFor`, `MailIsSettled`; `StopIsOrderly`, `StopEnds`; `ListedFilesExist`, `RecordedDeletionIsDone` |
| `Business` | meeting, activity, permission cache, task | `ElectorateIsFrozen`, `ResultIsFinal`, `DueVoteIsClosed`; `SeatsAreNotOversold`, `SeatsArePassedOn`; `StaleIsOnItsWayOut`, `QueuedRefreshIsDone`; `TaskFollowsFlow`, `NobodyJudgesOwnWork`, `ScreenIsCurrent` |
| `RollbackIntoBranch`, `RepeatedReview`, `ScanOverVote`, `LeakedLock`, `DurableRefresh`, `TransferLeftBehind` | | violations, see section 6 |

**Who runs where.** `Line` and `Cycle` run the operations of a generic flow
(`GenericSpec`); those of a member application, which `Protected` turns on, run in
`OverdueScan` beside the scan, inside `FlowStep`. The administrator's skip of an
application's step is among them: it is enabled in `OverdueScan` and not in `Line`, so
`RoundsFollowTheRule` is checked of it by the theorem `RoundsAreDecidedByRule` alone.

**Several components in one run.** The components of `Scheduler`, `Platform` and
`Business` share no row, no key and no channel, so nothing is lost when only one of
them moves in a behaviour: `part` is chosen at the start and never changes, and the
others rest in one initial state. The state space is the sum of the parts, not the
product. Several properties are conjunctions of named parts (`JobsAreSafe`,
`DecisionsStand`, `HandOverIsSound`, `BreakerIsSound`, ...): their parts speak of one
mechanism and have a comment and a name each.

**Bounds.** Every bound is a constant named `Max...`.

* Flows: `MaxTurns` is the code's 1000 steps of one walk, 8 here (longest walk of
  the graphs without a cycle of skips: 5). `MaxRounds` bounds the activations of an
  instance, `MaxHops` the tasks one person gets in one round (a transfer to and fro
  needs 2, a minted task one more), `MaxErrors` failed runs of the scan. Three users
  are an applicant and the two others a vote, a hand-over and a duplicate need. The
  rules of all four kinds occur; two parallel branches are the least at which a join
  can go wrong and a second pass the least at which a token can be left over; two
  rounds of one node plus one elsewhere the least at which rounds can be mixed.
* Tasks: four people (creator, a colleague of the same department, an outsider, a
  minister) are the least with an internal and an external hand-over, somebody to
  sign for each side and somebody to escalate to. `MaxRevision` 4 in `Business`, 6 in
  a run of the task alone, which is passed as well. `MaxTransfers` 1. Only accounts in
  `Leavers` can be disabled.
* Scheduler: two processes and two dispatches, two keys (the task's own and that of one
  shard), one edit and one fault at any place. Two dispatches are enough for an overlap,
  with one process or two, and one edit to move the task to another lock between them
  or to make it a cron task under a run.
* Backups: two backups, two goroutines on two processes, `MaxRequests` 3 (a dump, a
  restore, and a deletion or drill beside it), one mishap. The stale scans of all
  processes are one `scan`, as they write the same.
* Platform: three waiters and one trouble (a death, a TTL that ends early or a failing
  call), so that one can be left dead between two others; three mails for a queue of one
  and two attempts; three requests for a buffer of one; three breaker
  calls with two probes, so that one was admitted before the trip; two files and two
  cleaners with two mishaps, each file also deleted by its own request.
* Business: two votes, two people and one option (an elector who loses his standing
  or weight, and one who does not); three guests with capacities 0, 1 and 2; two
  changes, two editors and two workers for one account of the cache.

An instance, a task or a meeting that has ended stops, and a bound may stop one: these
runs say `CHECK_DEADLOCK FALSE`.

Each property of a passing run has a mutant in `PROJECT.json`: a change of one
definition in the way a programming error would change the code, with which the
run fails. The mutants' operators stand before the definition they replace, with a
comment that begins "Faulty:".

## 5. Fairness

* `LockIsReleased`: weak fairness of the holder of the lock (`Walk`, `Commit`,
  `Abort`). It is a running goroutine whose context ends; nothing else is assumed.
  In particular nobody has to vote.
* `UntouchedIsRescued` (`FairScanSpec`): in addition strong fairness of every
  statement of the scan. The scheduled job starts again and again, and a statement
  that waits for a row lock gets it if it is free again and again (PostgreSQL queues
  waiters). Failed runs are bounded by `MaxErrors`: an outage that never ends excuses
  the scan. The ladder holds somebody who may act again and again: without such a
  person there is nobody to hand over to.
* `DueTaskIsTaken` (`SchedulerFairness`): the ticker ticks, goroutines run, handlers
  return, keys expire, an administrator's request ends. Faults are bounded. It speaks of
  a task on a key of its own: the other tasks of a shard may keep the key of the shard
  for ever, and nothing in the code orders them.
* `BusyRowIsFreed` (`BackupFairness`): goroutines of living processes run, time
  passes, and the tasks that look for stale rows keep being started. No job is made
  to succeed.
* `TrialEnds` (`BreakerFairness`): time passes; requests keep coming; every request
  admitted is ended by the middleware's deferred function, not for ever with a 4xx
  (strong fairness of `Record`). Without the last assumption the property is false for
  the good reason that a trial needs a verdict on the backend.
* `WaitersAreServed` (`LockFairness`): callers run and keys expire; nobody is made to
  give up or to die. A waiter is excused when its lease or the list ran out under it or
  a call of its own failed: it may have lost its place and then waits for its deadline.
* `MailIsSettled` (`MailFairness`): requests and the two loops run, delays end, the
  limiter's window moves on. Neither a send nor an update is made to succeed.
* `StopEnds` (`AuditFairness`): `main` and the writer run; a handler may take for ever.
* `RecordedDeletionIsDone` (`CleanupFairness`): the job starts every 30 seconds, lists
  what is due, and whoever has locked a record goes on.
* `DueVoteIsClosed`, `QueuedRefreshIsDone` (`MeetingFairness`, `CacheFairness`): the
  scheduler keeps starting the job.
* `TransferLeftBehind` (`SigningSpec`): whoever may sign for a role does so. The
  counterexample has nobody idle.
* `LeakedLock` and `DurableRefresh` need no fairness beyond that named in their
  specifications (`FairSpec`, and none).

## 6. Where the code and its words disagree

Each is a run that ends with the counterexample.

1. `RollbackIntoBranch` / `SomebodyCanAct`. A return from behind a join into one of
   its branches leaves the flow running for ever: the other branch's token is gone
   (`task_operations.go:116`, `join.go:48-54`).
2. `RepeatedReview` / `OnePersonOneVote`. A reviewer, never the applicant, who has
   voted at a step that all have to sign gets a freshly minted task in the same round
   and votes again (`application_approval.go:270`;
   `task_operations.go:73` refuses the same on a transfer).
3. `ScanOverVote` / `VotesStand`. The overdue scan overwrites a vote cast after it
   read the tasks (`timeout_escalate.go:25`, no `LockInstance`).
4. `LeakedLock` / `LockEndsWithDispatch`. `Unlock` returns Redis's error before it
   stops the watchdog, which renews the key of a dispatch that is over
   (`pkg/cache/lock.go:96`).
5. `DurableRefresh` / `DurableRefresh`. The second DEL fails, is logged, and the
   durable row is deleted all the same (`rbac/service/cache_service.go:129`).
6. `TransferLeftBehind` / `SignedTransferIsSettled`. The last signature of a hand-over
   whose task was cancelled is rolled back each time (`task/service/handover.go:299`).

What the models show besides, each an order of steps the code allows and none of
them excluded by a property:

* *Engine and scan.* A hand-over role held only by the applicant opens a step without
  a task (`nodes/approval.go:83`). The scan may open tasks at a node the flow has left
  meanwhile (`timeout_escalate.go:82`). One signature of a countersign step, also one of
  an earlier activation, stops every later scan (`timeout_escalate.go:40-52`). The
  ladder stops at the first role that has holders, also if the only one is the applicant,
  who is then dropped (`admission_reminders.go:117`). The first is why the theorems about
  staffing assume `FallbackCanAct`, which the graphs of the runs satisfy; the third is why
  `UntouchedIsRescued` speaks of steps nobody has acted on, which is all that
  `timeout_escalate.go:48` promises.
* *Tasks.* `changeStatus` lets the executor start or hold while a hand-over is pending
  and does not count the revision; an escalation that moves a review does not count it
  either. A held task can be neither cancelled nor deleted by its creator. An
  escalation works on the stage that was listed and may move a todo renewed meanwhile,
  once per stage for the life of the task. Sub-tasks may be added while the parent is
  in review, so a task that is done may have an open one. A disabled reviewer blocks
  `submit`. A crash between store and attach leaves an object without a task.
* *Scheduler.* A pause or a deletion saved between the read and the `Save` of a run's
  end is undone (`runner.go:144`), and so is any other edit saved there; a row that cannot be
  read is saved blindly. Two processes that list a cron task at one tick run one slot
  twice, one after the other. An edit of the shard key moves the task to another lock at
  once (`cronutil.go:60`, `mutate.go:105`): the dispatch on the old lock and one on the new
  run it at the same time in two processes, a finished one-time task among them. Therefore
  `DispatchesAreApart` promises locks that are kept and one dispatch per process, and
  `FinishedIsNotRerun` asks that nobody was under way on another lock. A one-time task that is
  made a cron task (`mutate.go:74`) while its last failing run is on its way is left active
  without a next run time (`runner.go:157`), or finished when that run succeeds;
  `CronKeepsItsPlan` says that nothing else takes a cron task's next run time.
* *Backup.* A deletion that races a restore leaves a row "restore failed" without an
  artifact to name; `JobsAreSafe` admits it as a row whose artifact was given up.
  A crash before the final `Save` loses the key of a finished dump.
  A job that timed out cannot write its failure; the stale scan does.
* *Fair lock.* A live waiter whose lease ends loses its place and waits until its
  deadline. A failing LREM or DEL leaves a place or a lease, which the others remove when
  the lease has ended, a failing `Unlock` the lock until its TTL (`lock_fair.go:24`, `:52`,
  `:89`, `:94`). Whoever is not told that it got the lock gives up, and nobody has the lock
  until its TTL ends. A holder slower than the TTL loses the lock without notice.
* *Files.* `DELETE /files/:id` that breaks off between object and row leaves a task with
  a listing that cannot be downloaded (`file/service/query.go:88-99`).
* *E-mail.* After a crash, rows stay queued or retrying: nothing reads them again.
* *Meeting.* Closing by hand a vote that is open past its deadline moves the end after
  the deadline. The closing of an expired vote inside a refused ballot is rolled back.
* *Activity.* A second registration keeps the date of the first and overtakes the line.
  Raising the capacity promotes nobody. Approving revives a cancelled row. A deletion
  without the lock may delete an activity that has just started.
* *Cache.* The deletion of a role may find nobody to invalidate; a load that began
  before a change may be stored after the DEL. Both wait for the time to live.
  `StaleIsOnItsWayOut` admits the second as `overtaken`.
* *Breaker.* `Skip` gives a slot back for every 4xx that ends during a trial, also for a
  request of before the trial that took none (`breaker.go:144`), so more than
  `HalfOpenProbes` requests may be out; it does no lasting harm, as `TrialEnds` holds.

## 7. Proofs

All are for every value of the constants that satisfies the named assumptions,
which the runs evaluate on their instances.

**`FlowEngineProofs`** (from `GraphAssumption`). `EngineIsSound: Spec => []IndInv`,
and from it `EngineIsTyped`, `OpenWorkIsActive`, `OnlyTheNewestRoundIsOpen` and the
refinement `EngineImplementsContract: Spec => ImplementsContract`. `WorkIsActive` and
`OneOpenRound` speak of committed rows only and are not inductive: a commit publishes
rows written turn by turn, so `IndInv` says the same of the uncommitted rows
(`SoundRows(work)`), adds that a round number belongs to one node and was issued,
and keeps how far the transaction has got from the last commit (`SettlesOne(db,
work)`). The last conjunct is what makes the step of the contract at `Commit`. The
argument: helpers that change rows (`Close`, `OpenRound`, `Terminated`, a new row)
keep rows sound, each a lemma; each action keeps `IndInv` and is a contract step or
a stutter, each a lemma; the theorem puts them together. That finiteness of the
task rows is part of `SoundRows` is for the cardinalities in `Commit`.

**`CircuitBreakerProofs`** (from `SettingsAssumption`). `NeverStuckHalfOpen`,
`ClosedIsHealthy` and both together, `BreakerSound: Spec => []BreakerIsSound`.
`TrialCanBeWon` is inductive only together with the ranges in `TypeOK` (a trial ends
with the success that completes it), and a refund helps it only because the request
leaves `inflight` in the same step.

**`FlowRoundsProofs`** (from `GraphAssumption`). `IndInv` knows nothing of votes, so the
properties about them need another strengthening, `RoundsInv`. It says of every round of
the committed rows, and of the uncommitted ones, that the tasks of a person are numbered
without a gap (`RowsAreNumbered`), that nobody who is counted has a second row unless
reviews mint tasks at that node (`CountsOnce`), that an open round is undecided and a
closed one explained by its votes or by a note (`RoundIsSound`), and that an active
approval has somebody (`IsStaffed`); and that a transaction only adds to what is
committed (`Extends(db, work)`). That no round holds two rows of one number is needed to
count votes at all: marking rows is then a bijection and `Votes` changes by exactly what
was marked. What a vote decides are lemmas about the rule alone: the threshold lies between
one and the number of votes and grows with it; no decision is both ways; a full round is
decided; a rejection never makes an undecided round pass, an approval never makes it
impossible, also when the vote was minted and the round grew. From `RoundsStaySound: Spec
=> []RoundsInv` follow:

* `NothingIsRewritten: Spec => HistoryIsFinal` and `RoundsAreDecidedByRule: Spec =>
  []RoundsFollowTheRule`, without a further assumption.
* `NobodyVotesTwice: Spec => []OnePersonOneVote` if no approval mints tasks, which holds of
  every generic flow and of the steps of an application that are not reviews. Where
  `Mints` holds, the run `RepeatedReview` refutes it.
* `ApprovalsAreStaffed: Spec => []ActiveApprovalsAreStaffed` under `FallbackCanAct`: no
  fallback role has the applicant as its only holder. The code does not exclude such a
  role, and then opens a node without a task (section 6).
* `SomebodyCanAlwaysAct: Spec => []SomebodyCanAct` under `FallbackCanAct` and on graphs
  without joins. For graphs with joins see below.
* `JoinsOpenForFullSets: Spec => []JoinsNeedEveryBranch` for every generic flow
  (`~Protected`; skipping an application's step would let a branch in without a vote).
  It is the first part of the run property `JoinsAreExact`, said of every join, of each
  approval before it that cannot be passed over, and of each approval to which the join
  alone leads and no later approval can be sent back. The number of rounds behind the
  join is not inductive: `BlocksInv` adds the tokens in store, the arrival of the step
  behind the join and that of the branch, each of which one passed round of the branch
  has paid for, and says that a branch on its way in is the whole queue. A vote pays
  because a round that passes was open, so it had not passed before (`VotePasses`), and
  what has passed is never touched again (`PassedStays`).

Three theorems about joins need more of the graph than `GraphAssumption`, which is all
that `ValidateGraph` asks for. A *place* (`FlowShape`) is a node other than a join, or an
edge into a join; an instance waits at its active approvals and at the edges of which a
token is in store, and its arrivals are at places too.

* `TokensAreNeverLeftOver: Spec => []JoinTokensAreWaiting` on every graph with
  `KeepsApart(Beside)` for some relation `Beside` between places: the ways out of a fork
  are beside each other, what leaves a node is beside what the node was beside, what
  leaves a join is beside what all its edges were beside, and nothing is beside itself.
  A live instance then waits at a join exactly while a token is in store for it. The
  inductive invariant `ApartInv` adds that all that waits and arrives is pairwise beside
  each other, so that an edge never holds two tokens and a join that opens is left empty.
  A return does not disturb it: `RollbackTask` takes no token back, but it demands that
  the approval it leaves be all that is active, and then no join can hold one. A graph
  in which a branch can lead back to before its own fork does not keep apart, and
  there a token can stay behind.
* `JoinsStayExact: Spec => []JoinsAreExact`, the run property of `Cycle`, in a generic
  flow on such a graph, from this theorem and `JoinsOpenForFullSets`.
* `SomebodyCanActBeforeJoins: Spec /\ [][ReturnsStayOut(Heads)]_vars => []SomebodyCanAct`
  under `FallbackCanAct` on graphs that keep apart and also come together again,
  `ComesTogether(Heads, Beside, depth)`: `Heads` relates a place to the edges into
  joins at which what is there ends up, together with something else for every other edge
  of the same join, and `depth` orders nested joins from the inside out. The
  hypothesis about the steps says that no return leads into a branch, to an approval that
  heads for a join. It cannot be dropped: the code permits such a return, and the run
  `RollbackIntoBranch` shows the instance that nobody can move any more. The theorem says
  that this is the only way to get there. `WholeInv` is the invariant: whatever heads
  for one edge of a join has company for each of its other edges, and no join that waits
  has all its tokens. If an instance waited at joins alone, take a stored token at a
  join of the least depth; the join lacks another token, whatever heads for that edge
  is at an edge of another join by assumption, and that join lies deeper.

All three go through one classification of the steps: `FlowsOn` says that a step rolls
back, or commits, or moves the working copy on by one of seven kinds of moves (an arrival
becomes an active approval, passes a node, is stored before a join or opens it; the flow
begins, leaves an approval or returns), and `NextFlows` that every step of every
operation is of that form. The invariants are then proved once for each kind of move. That
the hypotheses can be met is the assumption `BranchesComeTogether` in `MCFlowEngine`,
which TLC evaluates on the graphs of `Cycle` and of `RollbackIntoBranch`. TLC has
passed `ApartInv` over the 83,142 states of `Cycle`, and `ApartInv` with
`WholeInv` over the 22,278 states that remain of it and the 5,346 of
`RollbackIntoBranch` without returns into a branch.

TLC has passed `RoundsInv` over the 807,416 states of `Line` too; no run of this project
lists it, because the run then takes twice the time and the theorem says more. It
has passed `BlocksInv` over the 83,142 states of `Cycle` in the same way.

**`EscalationProofs`** (from `GraphAssumption` and `ScanAssumption`).
`EscalationStaysSound: ScanSpec => []EscalationInv`, `HandOversAreSound: ScanSpec =>
[]HandOverIsSound`, `EarlierVotesAreKept: ScanSpec => EarlierVotesStand` and, under
`FallbackCanAct`, `HandOversLeaveApprovalsStaffed: ScanSpec =>
[]ActiveApprovalsAreStaffed`. Beside the scan
neither `IndInv` nor `RoundsInv` holds: a hand-over may open tasks at a node the flow has
left, and it closes the rows it collected without a note, a vote cast meanwhile among them
(section 6). What holds is that the rounds no hand-over has followed are as sound as if the
others did not exist. `Standing(s, handed)` is the instance without the rounds that were
followed, `Firm` says that it satisfies what `RoundsInv` says of rounds, and the lemmas of
`FlowRoundsProofs` about closing, opening and voting apply to it. The flow keeps
`FlowFits` (committed and uncommitted rows are firm and active approvals staffed, and a
transaction only adds), whichever rounds are followed, because a round is left out as a whole. The hand-over makes
the rounds it has damaged followed in the step that damages them. `Aimed` is what the scan
knows of its own reads, needed because it acts on them several statements later: they are
open rows of its node, once it has read the history nobody else hands the node over, so
`HandedOverOnce` is kept, and it has found somebody to hand over to before it collects
what it will close, so that no approval is left without a task. Fairness is no part of the
argument.

**`JobsProofs`**, scheduler (from `SchedulerAssumption`). `DispatchesStayApart: Spec =>
[]DispatchesAreApart`. That a dispatch keeps the key it took needs, key by key
(`Keeps`), that its watchdog ticks until `Unlock`; that two dispatches of one process are
one, whatever keys they are on, needs the whole span of the mark (`Marked`), which is
wider than that of the lock on both sides. `CronPlansAreKept: Spec => CronKeepsItsPlan` is
an action property: the last `Save` wins, so every copy about to be saved, an
administrator's or a dispatch's, has to be planned, but for the outcome of a run whose
copy was not a cron task's (`Planning`); what a step then does to the row is read off
`SavesPlan`. `DecisionsAreFinal: Spec => []DecisionsStand` adds what every attempt under
way holds in its copy when the history variables `done` and `settled` are set
(`Decided`); `done` is set only while all who are under way are on one key, since a
dispatch on another one has read the row before the run was recorded.

**`JobsProofs`**, backups (from `BackupAssumption`). `BackupsAreSafe: BackupSpec =>
[]JobsAreSafe`. The invariant `BackupInv` says for every place of a job which of the
count, the flag and the database lock it owns (`JobFits`), that owners are unique, and
what a row, its artifact and the job that works on it have in common; a timeout and a
crash can come at each of these places, so each has its conjunct.

**`TaskProofs`**, tasks (from `TaskAssumption`). `TaskAndFlowAgree: TaskSpec =>
[]TaskFollowsFlow` and `NobodyIsOwnJudge: TaskSpec => []NobodyJudgesOwnWork`. Neither is
inductive alone: whether a reassigned stage has a holder depends on who may execute, and
the completion of a hand-over needs that its target still may. Their conjunction
`TInv` is. The actions fall into the ways to write the two records (move to a stage,
end, pass on within a stage, beside the flow), each a lemma. `RevisionsTellTheScreen:
TaskSpec => ScreenIsCurrent` goes through the same ways to write.

**`TaskProofs`**, files (from `CleanupAssumption`). `ListedFilesAreThere: FileSpec =>
[]ListedFilesExist`: what a task lists has its row, and its object unless a request that
deletes the file itself is between the two or broke off there. The strengthening is the
life of a file (`LifeOf`: a recorded deletion is of a file that is no longer listed and
never listed again) and what a cleaner knows (`CleanerOnTask`); one lemma covers every
step of a cleaner, and one the deletion of a file by its own request.

**`QueueProofs`**. Fair lock (from `FairLockAssumption`): `LiveWaitersKeepTheirPlace:
FairLockSpec => []QueueIsSound` and `FirstComeIsFirstServed: FairLockSpec =>
FirstComeFirstServed`. The queue is in the order of the pushes without being a prefix or
suffix of them, since leases run out anywhere in the line: `LineInOrder` is the
invariant, and that removal and trimming keep it the lemmas. Any call of any waiter may
fail. A failing call of its own excuses a waiter, and nobody else's takes its place; that
the list's TTL does not either rests on the order in which the TTLs were set. Mail (from
`MailAssumption`): `MailBooksBalance: MailSpec => []MailIsAccountedFor`; the counter of
reservations is a cardinality over three places a mail can be in, so the invariant
says that these are disjoint and the channel has no duplicates. Audit (from
`AuditAssumption`): `StopLosesNothing: AuditSpec => []StopIsOrderly`. An entry marked as
buffered is in the channel or with the writer (`BufferedIsOnItsWay`), so a drained
channel and an idle writer leave none; the other conjuncts order the stages of the stop
and say that a handler still running after `Shutdown` has returned makes the deadline
the reason.

**`SharedRowsProofs`**. Activity (from `ActivityAssumption`): `NoSeatIsOversold:
ActivitySpec => SeatsAreNotOversold`, an action property: whatever list a guest comes
from, a seat is given while the activity is not full, so the count after it is within
the capacity. `FreeSeatsAreTaken: ActivitySpec => []SeatsArePassedOn` needs in addition that
the order of the rows holds every guest with a row once, so that a promotion finds
whoever waits. Meeting (from `MeetingAssumption`): `ResultsStand: MeetingSpec =>
ResultIsFinal` and `ResultIsOfTheElectorate: MeetingSpec => []ElectorateIsFrozen`. The
tally is compared with two sums over sets, which the community modules define by a
recursive function. The module proves of them what it needs, that a sum over nothing is
zero, that one element more adds its value and that sums over equal values are equal, by
the least size of a set at which it fails: the least number of a set of naturals is a
fact of the library that takes no operator. The invariant `MeetingInv` adds
that nobody has voted in a vote that does not exist and that weights are natural numbers.
Permission cache (from `CacheAssumption`): `OutdatedKeysAreExplained: CacheSpec =>
[]StaleIsOnItsWayOut`. An outdated key has a DEL still to come, or one that failed, or a
load that overtook it; the invariant has to say this of the value every request is about
to store, and of the durable row that a worker has taken and not yet worked off.

**Out of the prover's reach** and left to TLC: liveness (every `~>` of section 4), since
neither fairness nor `ENABLED` is supported. What `Reach` computes enters no proof: it is used
where any set of nodes would do, also in `Blocks`, which asks for what `RollbackTask` asks.

## 8. What is not modelled

* *Engine*: variables and expressions (any branch may be taken), texts, comments and
  due-date arithmetic, the delivery of events, the adapter of leave requests, fractions
  of a percent in `passRatio`. One instance only: instances share no rows. *Scan*:
  reminders, and two scans at once, which the scheduler's lock excludes as long as it
  holds.
* *Tasks*: tasks without a flow, field edits, comments, reminders and views. Stages
  with several holders do not exist in the code. *Files*: a commit that reports an error
  is taken not to have happened; thumbnails.
* *Scheduler*: dependencies between tasks, the run log; the other tasks of a shard, but
  for the key they keep busy; a server without Redis, which locks nothing
  (`engine.go:104`); an `Unlock` that
  deletes the key and whose answer is lost (its watchdog is left over and renews nothing,
  since it compares the token). *Fair lock*: callers of one lock who wait for
  different times, so that a later push shortens the TTL of the list; a caller that asks for a lock it holds.
  Nothing outside `pkg/cache` calls `AcquireFair` yet. *Backup*: the contents of an
  artifact, and a database session that is lost with its advisory lock, which nothing
  in the code notices. *Meeting*: minutes and views; votes from
  before the electorate was frozen, whose electors are read when they vote
  (`electorate.go:104-120`). *Cache*: the deletion of a permission, which reads its
  roles before the transaction; the layered cache and the single flight, used by the
  cache administration only. *Mail*: in-app messages and templates. *Breaker*: degraded
  answers, latency numbers, and `halfFails`, which is written and never read.
* Sign-in, tokens and sessions are deliberately left out.
* Everything with status `not_modelled` in `PROJECT.json` is either input and output
  without shared state of its own, or named under "Left" in section 2.

The map covers the core logic and not most of the lines: of the 103,560 lines of
the implementation the largest part is generated API documentation, wiring,
configuration, request and response types, list views and create/read/update/delete of
single rows, in which there is no protocol to model. A larger share could only be had
with modules whose properties hold by construction.
