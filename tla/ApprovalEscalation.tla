------------------------- MODULE ApprovalEscalation -------------------------
(***************************************************************************)
(* The overdue scan of internal/member/service/admission_reminders.go      *)
(* beside the flow it rescues.  EscalateOverdueApproval runs in a          *)
(* transaction of its own but never takes the row lock of the instance, so *)
(* each of its statements sees what is committed at that moment.           *)
(*                                                                         *)
(* Two locks of the database remain.  Its first UPDATE holds the row of a  *)
(* task; its first INSERT needs the instance row (the foreign keys of      *)
(* flow_tasks and flow_histories), waits for the transaction that has it   *)
(* locked and keeps later ones out until the scan commits.  A transaction  *)
(* that needs the held task row deadlocks with the scan, and the database  *)
(* rolls one of the two back.                                              *)
(***************************************************************************)
EXTENDS FlowEngine

CONSTANTS
  Timed,    \* approval nodes with dueDays
  Ladders,  \* the sets of users escalationReviewers may find
  MaxErrors \* bound: runs of the scan that end with an error

\* escalateOverdueApprovals lists the overdue tasks of member applications only.
ASSUME ScanAssumption ==
  /\ Timed \subseteq Approvals /\ Ladders \subseteq SUBSET Users /\ MaxErrors \in Nat
  /\ Protected

VARIABLES
  scan,     \* the statement the scan has come to, its node and the rows it read
  handed,   \* flow_histories with action timeout_escalate
  errors    \* runs of the scan that failed
allVars == <<vars, scan, handed, errors>>

Statement == {"idle", "instance", "tasks", "history", "collect", "update", "insert"}
Idle == [pc |-> "idle", node |-> NoNode, to |-> {}, rows |-> {}, row |-> {}]
Round0 == [node : Approvals, round : Nat]

SameRow(t, u) == t.node = u.node /\ t.round = u.round /\ t.who = u.who /\ t.nth = u.nth

ScanInit == Init /\ scan = Idle /\ handed = {} /\ errors = 0

\* Rows of a walk carry a due date and a transfer copies it; those of a
\* hand-over have none.
Overdue(n) == {t \in PendingAt(db, n) : [node |-> n, round |-> t.round] \notin handed}

Go(pc) == scan' = [scan EXCEPT !.pc = pc] /\ UNCHANGED <<vars, handed, errors>>
GiveUp == scan' = Idle /\ UNCHANGED <<vars, handed, errors>>

\* Faulty: after a run that failed the job does not start again.
ListUnlessFailed ==
  /\ scan.pc = "idle" /\ db.status = "running" /\ errors = 0
  /\ \E n \in Timed, L \in Ladders \ {{}} :
       /\ Overdue(n) # {}
       /\ scan' = [Idle EXCEPT !.pc = "instance", !.node = n, !.to = L]
  /\ UNCHANGED <<vars, handed, errors>>

\* ListOverdueApprovalTodos, one node per instance, and escalationReviewers.
ListOverdue ==
  /\ scan.pc = "idle" /\ db.status = "running"
  /\ \E n \in Timed, L \in Ladders \ {{}} :
       /\ Overdue(n) # {}
       /\ scan' = [Idle EXCEPT !.pc = "instance", !.node = n, !.to = L]
  /\ UNCHANGED <<vars, handed, errors>>

ReadInstance ==
  /\ scan.pc = "instance"
  /\ IF db.status = "running" THEN Go("tasks") ELSE GiveUp

\* Nothing pending, or somebody took a side: no rescue.
ReadTasks ==
  /\ scan.pc = "tasks"
  /\ IF /\ PendingAt(db, scan.node) # {}
        /\ \A t \in db.tasks : t.node = scan.node => t.st \notin {"approved", "rejected"}
     THEN Go("history") ELSE GiveUp

\* Faulty: an earlier hand-over of the node is not looked for.
ReadNoHistory ==
  /\ scan.pc = "history"
  /\ IF Eligible(scan.to) # {} THEN Go("collect") ELSE GiveUp

\* Faulty: it is not checked that a reviewer is left.
ReadHistoryOnly ==
  /\ scan.pc = "history"
  /\ IF \A h \in handed : h.node # scan.node THEN Go("collect") ELSE GiveUp

\* A node is handed over once, and to somebody.
ReadHistory ==
  /\ scan.pc = "history"
  /\ IF (\A h \in handed : h.node # scan.node) /\ Eligible(scan.to) # {}
     THEN Go("collect") ELSE GiveUp

\* Faulty: every row of the node is collected.
CollectAll ==
  /\ scan.pc = "collect"
  /\ scan' = [scan EXCEPT !.pc = "update", !.rows = {t \in db.tasks : t.node = scan.node}]
  /\ UNCHANGED <<vars, handed, errors>>

\* cancelNodePendingTasks reads the tasks again.
Collect ==
  /\ scan.pc = "collect"
  /\ scan' = [scan EXCEPT !.pc = "update", !.rows = PendingAt(db, scan.node)]
  /\ UNCHANGED <<vars, handed, errors>>

\* The first Save locks its row, once no open transaction has written it.
UpdateFirst ==
  /\ scan.pc = "update"
  /\ \/ scan.rows = {} /\ scan' = [scan EXCEPT !.pc = "insert"]
     \/ \E t \in scan.rows :
          /\ \A u \in db.tasks : SameRow(u, t) => u \in work.tasks
          /\ scan' = [scan EXCEPT !.pc = "insert", !.row = {t}]
  /\ UNCHANGED <<vars, handed, errors>>

\* Save writes the whole stale row, whatever has become of it since; then one
\* task per reviewer in a new activation.
HandedOver(s) ==
  LET old == {u \in s.tasks : \E t \in scan.rows : SameRow(u, t)}
  IN  OpenRound(Close(s, old, "cancelled"), scan.node, Eligible(scan.to))

\* The instance row is free: the remaining statements and the commit.
HandOver ==
  /\ scan.pc = "insert" /\ ~held /\ db.rounds < MaxRounds
  /\ Save(HandedOver(db))
  /\ handed' = handed \cup {[node |-> scan.node, round |-> db.rounds + 1]}
  /\ scan' = Idle /\ UNCHANGED errors

\* An error or a crash: the transaction is rolled back, the next run of the
\* scheduled job starts over.
ScanFails ==
  /\ scan.pc # "idle" /\ errors < MaxErrors
  /\ errors' = errors + 1 /\ scan' = Idle /\ UNCHANGED <<vars, handed>>

\* The transaction that has just moved the flow wrote the row the scan holds.
WritesHeldRow ==
  \E t \in scan.row, u \in work.tasks : SameRow(u, t) /\ u \notin work'.tasks

\* When it did, the two had deadlocked and the scan was the one rolled back; had
\* it been the other, nothing would have changed.
FlowStep ==
  /\ Next /\ UNCHANGED <<handed, errors>>
  /\ IF WritesHeldRow THEN scan' = Idle ELSE scan' = scan

ScanStep == \/ ListOverdue \/ ReadInstance \/ ReadTasks \/ ReadHistory
            \/ Collect \/ UpdateFirst \/ HandOver

ScanNext == FlowStep \/ ScanStep \/ ScanFails

ScanSpec == ScanInit /\ [][ScanNext]_allVars

\* admission_maintenance runs again and again, its errors end, a statement that
\* waits for a lock gets it when the lock is free often enough, and the ladder
\* often enough holds somebody who may act.  Nobody has to vote.
FairScanSpec ==
  /\ ScanSpec /\ WF_allVars(FlowStep /\ (Walk \/ Commit \/ Abort))
  /\ SF_allVars(ListOverdue /\ Eligible(scan'.to) # {})
  /\ \A pc \in Statement : SF_allVars(scan.pc = pc /\ ScanStep)

-----------------------------------------------------------------------------
(* Properties.                                                             *)

\* The scan is at one of its statements, with rows of the node it works on.
ScanTypeOK ==
  /\ TypeOK /\ handed \subseteq Round0 /\ errors \in 0..MaxErrors
  /\ scan \in [pc : Statement, node : Approvals \cup {NoNode}, to : SUBSET Users,
               rows : SUBSET Task, row : SUBSET Task]
  /\ scan.row \subseteq scan.rows /\ (scan.pc # "insert" => scan.row = {})

\* A later scan does not hand the same step over twice (timeout_escalate.go:
\* "idempotent per node"), also when the step is entered or reassigned in between.
HandedOverOnce == \A g, h \in handed : g.node = h.node => g = h

\* Beside the scan too, every closed round has its reason on record, which may be
\* that the step was handed over to a later round.
ClosedOrHandedOver ==
  \A t \in db.tasks :
    IsExplained(t) \/ \E h \in handed : h.node = t.node /\ h.round > t.round

\* What the scan keeps of its reads is of the step it works on, it hands a step
\* over once, and it leaves no round closed without a reason.
HandOverIsSound == ScanTypeOK /\ HandedOverOnce /\ ClosedOrHandedOver

\* A vote is lost to the scan only if it was cast after the scan had collected
\* the open tasks: whatever was decided by then is not rewritten.
EarlierVotesStand ==
  [][\A t \in db.tasks \ Pending(db) :
       t \in db'.tasks \/ \E u \in scan.rows : SameRow(t, u) /\ u.st = "pending"]_allVars

\* Somebody took a side, so nobody needs rescuing (timeout_escalate.go): a vote
\* that was cast stays cast.
VotesStand ==
  [][\A t \in db.tasks : t.st \in {"approved", "rejected"} => t \in db'.tasks]_allVars

\* An overdue step on which nobody has voted, and which was not handed over
\* before, does not stay as it is: the scan hands it over unless somebody acts.
Untouched(n) ==
  /\ db.status = "running" /\ Overdue(n) # {} /\ db.rounds < MaxRounds
  /\ \A t \in db.tasks : t.node = n => t.st \notin {"approved", "rejected"}
  /\ \A h \in handed : h.node # n
UntouchedIsRescued == \A n \in Timed : Untouched(n) ~> ~Untouched(n)
=============================================================================
