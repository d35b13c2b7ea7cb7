---------------------------- MODULE TaskLifecycle ----------------------------
(***************************************************************************)
(* One collaboration task under the review flow (internal/task/service).   *)
(* Every change runs in a transaction that first locks the task row and    *)
(* binds the workflow engine to it (transaction.go), so each is one step   *)
(* on two sets of rows: the task and its flow.  Only the escalation works  *)
(* in two, a list read without the lock and then one transaction per todo. *)
(***************************************************************************)
EXTENDS Naturals, FiniteSets

CONSTANTS
  Staff, Creator, Nobody,
  Reviewers, Acceptors,   \* whom a creator may name
  KindOf,           \* what classifyHandover says of an executor and a target
  Authority,        \* transferAuthority: who may sign for each role
  Scanners,         \* processes whose reminder scheduler escalates
  Leavers,          \* whose account may be disabled
  MaxRevision, MaxTransfers    \* bounds

HandOverKinds == {"internal", "department", "center", "none"}
SignRoles == {"source_minister", "target_minister", "source_center", "target_center"}

ASSUME TaskAssumption ==
  /\ Creator \in Staff /\ Nobody \notin Staff
  /\ Reviewers \subseteq Staff /\ Acceptors \subseteq Staff
  /\ KindOf \in [Staff \X Staff -> HandOverKinds] /\ Authority \in [SignRoles -> SUBSET Staff]
  /\ MaxRevision \in Nat /\ MaxTransfers \in Nat

VARIABLES
  task,             \* the row in tasks
  flow,             \* its instance: status, active node, assignee of the open todo
  overdue,          \* the open todo is past its due date
  transfer,         \* the newest row in task_transfers
  escalated,        \* stages with a workflow_escalate log
  listed,           \* the stage each scanner listed and has not handled
  child,            \* a sub-task: none, open or closed
  active            \* accounts that are not disabled

taskVars == <<task, flow, overdue, transfer, escalated, listed, child, active>>
work == <<task, flow, overdue>>
around == <<escalated, listed, child, active>>

Stages == {"assignment", "execution", "review", "acceptance"}
Closed == {"done", "cancelled"}
NoTransfer == [n |-> 0, st |-> "none", from |-> Nobody, to |-> Nobody, kind |-> "none", signed |-> {}]

\* taskApprover.Resolve: who acts in a stage.
Holder(t, stage) ==
  CASE stage = "assignment" -> Creator [] stage = "execution" -> t.assignee
    [] stage = "review" -> t.reviewer [] stage = "acceptance" -> t.acceptor

\* validateWorkflowAssignee
MayExecute(t, p) == p \notin {t.reviewer, t.acceptor}

\* create, prepareWorkflow and startWorkflow in one transaction: with an executor
\* the assignment is confirmed at once.
TaskInit ==
  /\ \E r \in Reviewers, k \in Acceptors, a \in Staff \cup {Nobody} :
       LET s == IF a = Nobody THEN "assignment" ELSE "execution" IN
       /\ a \notin {r, k}
       /\ task = [status |-> "pending", stage |-> s, assignee |-> a, reviewer |-> r,
                  acceptor |-> k, revision |-> 1, delivery |-> 0, gone |-> FALSE]
       /\ flow = [st |-> "running", node |-> s, todo |-> Holder(task, s)]
  /\ overdue = FALSE /\ transfer = NoTransfer /\ escalated = {} /\ child = "none"
  /\ listed = [s \in Scanners |-> "none"] /\ active = Staff

IsOpen == ~task.gone /\ task.status \notin Closed
Pending == transfer.st = "pending"

\* taskCheckpoint: the flow is at the stage and its open todo is of p.
At(stage, p) == flow.st = "running" /\ flow.node = stage /\ flow.todo = p

\* Faulty: the row follows the flow, its revision does not.
MoveKeepingRevision(t, stage) ==
  /\ task.revision < MaxRevision /\ Holder(t, stage) \in active
  /\ flow' = [st |-> "running", node |-> stage, todo |-> Holder(t, stage)]
  /\ task' = [t EXCEPT !.stage = stage] /\ overdue' = FALSE

\* The flow enters a stage and projectWorkflow writes it to the row.
Move(t, stage) ==
  /\ task.revision < MaxRevision /\ Holder(t, stage) \in active
  /\ flow' = [st |-> "running", node |-> stage, todo |-> Holder(t, stage)]
  /\ task' = [t EXCEPT !.stage = stage, !.revision = @ + 1] /\ overdue' = FALSE

\* The flow ends and nothing of it stays open.
End(t, st) ==
  /\ flow' = [st |-> st, node |-> "none", todo |-> Nobody]
  /\ task' = t /\ overdue' = FALSE

-----------------------------------------------------------------------------
(* The actions of the people (ActWorkflow, assign, changeStatus).           *)

\* claim: anybody who may see the task and may execute it.
Claim(p) ==
  /\ IsOpen /\ p \in active /\ task.stage = "assignment" /\ task.assignee = Nobody
  /\ MayExecute(task, p) /\ flow.st = "running" /\ flow.node = "assignment"
  /\ Move([task EXCEPT !.assignee = p], "execution") /\ UNCHANGED <<transfer, around>>

\* workflowAssignment: the creator names the executor.
Assign(q) ==
  /\ IsOpen /\ q \in active \ {task.assignee} /\ task.stage = "assignment"
  /\ MayExecute(task, q) /\ At("assignment", Creator)
  /\ Move([task EXCEPT !.assignee = q], "execution") /\ UNCHANGED <<transfer, around>>

Transit == {<<"pending", "doing">>, <<"doing", "held">>, <<"held", "doing">>}
Executes(p) == IsOpen /\ task.stage = "execution" /\ task.assignee = p

\* start, pause and resume: the flow stays, projectWorkflow counts the revision.
Progress(p, to) ==
  /\ Executes(p) /\ p \in active /\ ~Pending /\ <<task.status, to>> \in Transit
  /\ task.revision < MaxRevision
  /\ task' = [task EXCEPT !.status = to, !.stage = flow.node, !.revision = @ + 1]
  /\ UNCHANGED <<flow, overdue, transfer, around>>

\* changeStatus: neither a pending hand-over nor the revision is looked at.
ChangeStatus(p, to) ==
  /\ Executes(p) /\ <<task.status, to>> \in Transit
  /\ task' = [task EXCEPT !.status = to] /\ UNCHANGED <<flow, overdue, transfer, around>>

\* changeStatus by the creator; a pending hand-over is left as it is.
Cancel ==
  /\ IsOpen /\ task.status \in {"pending", "doing"} /\ flow.st = "running"
  /\ End([task EXCEPT !.status = "cancelled", !.stage = "cancelled"], "terminated")
  /\ UNCHANGED <<transfer, around>>

\* submit: the delivery goes to the reviewer.
Submit(p) ==
  /\ Executes(p) /\ p \in active /\ ~Pending /\ task.status = "doing" /\ child # "open"
  /\ At("execution", p)
  /\ Move([task EXCEPT !.delivery = @ + 1], "review") /\ UNCHANGED <<transfer, around>>

Judges(p) == IsOpen /\ p \in active /\ At(task.stage, p)

ApproveDelivery(p) ==
  /\ Judges(p) /\ UNCHANGED <<transfer, around>>
  /\ \/ task.stage = "review" /\ Move(task, "acceptance")
     \/ /\ task.stage = "acceptance" /\ task.revision < MaxRevision
        /\ End([task EXCEPT !.status = "done", !.stage = "completed", !.revision = @ + 1],
               "completed")

\* return: RollbackTask to the execution, which has been approved by submit.
Return(p) ==
  /\ Judges(p) /\ task.stage \in {"review", "acceptance"}
  /\ Move(task, "execution") /\ UNCHANGED <<transfer, around>>

RejectDelivery(p) ==
  /\ Judges(p) /\ task.stage \in {"review", "acceptance"} /\ p = Holder(task, task.stage)
  /\ task.revision < MaxRevision
  /\ End([task EXCEPT !.status = "cancelled", !.stage = "rejected", !.revision = @ + 1],
         "terminated")
  /\ UNCHANGED <<transfer, around>>

\* delete: a closed task without sub-tasks leaves the lists.
Delete ==
  /\ ~task.gone /\ ~IsOpen /\ child = "none"
  /\ task' = [task EXCEPT !.gone = TRUE] /\ UNCHANGED <<flow, overdue, transfer, around>>

\* Sub-tasks may be added while the task is open, whatever its stage.
AddChild ==
  /\ IsOpen /\ child = "none" /\ child' = "open"
  /\ UNCHANGED <<work, transfer, escalated, listed, active>>
CloseChild ==
  /\ child = "open" /\ child' = "closed"
  /\ UNCHANGED <<work, transfer, escalated, listed, active>>
DropChild ==
  /\ child # "none" /\ child' = "none"
  /\ UNCHANGED <<work, transfer, escalated, listed, active>>

Disable(p) ==
  /\ p \in active \cap Leavers
  /\ active' = active \ {p} /\ UNCHANGED <<work, transfer, escalated, listed, child>>

-----------------------------------------------------------------------------
(* Handing the execution over (handover.go).                               *)

\* ReassignStage: the open todo moves and is due anew.
Reassign(from, to, stage, t) ==
  /\ At(stage, from) /\ to \in active \ {from}
  /\ flow' = [flow EXCEPT !.todo = to] /\ overdue' = FALSE /\ task' = t

\* requestHandover, what both kinds of it ask for.
MayHandOver(p, q) ==
  Executes(p) /\ ~Pending /\ q \in active \ {p} /\ MayExecute(task, q) /\ task.revision < MaxRevision

\* delegateExecution: in one department the todo is passed on, due as it was.
Delegate(p, q) ==
  /\ MayHandOver(p, q) /\ KindOf[p, q] = "internal" /\ At("execution", p)
  /\ flow' = [flow EXCEPT !.todo = q]
  /\ task' = [task EXCEPT !.assignee = q, !.revision = @ + 1]
  /\ UNCHANGED <<overdue, transfer, around>>

\* TaskTransferRoles
RolesOf(kind) == IF kind = "department" THEN {"source_minister", "target_minister"} ELSE SignRoles

\* transferAuthority excludes the two it is about.
MaySign(office, from, to) == Authority[office] \ {from, to}

\* The transfer's own flow starts; every role must have somebody to sign.
RequestTransfer(p, q) ==
  /\ MayHandOver(p, q) /\ KindOf[p, q] \in {"department", "center"} /\ transfer.n < MaxTransfers
  /\ \A office \in RolesOf(KindOf[p, q]) : MaySign(office, p, q) \cap active # {}
  /\ transfer' = [n |-> transfer.n + 1, st |-> "pending", from |-> p, to |-> q,
                  kind |-> KindOf[p, q], signed |-> {}]
  /\ task' = [task EXCEPT !.revision = @ + 1] /\ UNCHANGED <<flow, overdue, around>>

Signs(p, office) ==
  /\ ~task.gone /\ Pending /\ office \in RolesOf(transfer.kind) \ transfer.signed
  /\ p \in MaySign(office, transfer.from, transfer.to) \cap active

Sign(p, office) ==
  /\ Signs(p, office) /\ transfer.signed \cup {office} # RolesOf(transfer.kind)
  /\ transfer' = [transfer EXCEPT !.signed = @ \cup {office}] /\ UNCHANGED <<work, around>>

\* Faulty: the todo stays with the executor who has handed over.
SignLastLeavingTodo(p, office) ==
  /\ Signs(p, office) /\ transfer.signed \cup {office} = RolesOf(transfer.kind)
  /\ task.stage = "execution" /\ task.assignee = transfer.from
  /\ transfer' = [transfer EXCEPT !.st = "completed", !.signed = @ \cup {office}]
  /\ task' = [task EXCEPT !.assignee = transfer.to, !.revision = @ + 1]
  /\ UNCHANGED <<flow, overdue, around>>

\* finishSignedHandover.  When the task has left the execution it terminates the
\* transfer's flow, which the last signature has just completed: terminate
\* refuses, and the signature is rolled back with everything else.
SignLast(p, office) ==
  /\ Signs(p, office) /\ transfer.signed \cup {office} = RolesOf(transfer.kind)
  /\ task.stage = "execution" /\ task.assignee = transfer.from
  /\ Reassign(transfer.from, transfer.to, "execution",
              [task EXCEPT !.assignee = transfer.to, !.revision = @ + 1])
  /\ transfer' = [transfer EXCEPT !.st = "completed", !.signed = @ \cup {office}]
  /\ UNCHANGED around

RefuseTransfer(p, office) ==
  /\ Signs(p, office)
  /\ transfer' = [transfer EXCEPT !.st = "rejected"]
  /\ task' = [task EXCEPT !.revision = @ + 1] /\ UNCHANGED <<flow, overdue, around>>

-----------------------------------------------------------------------------
(* The escalation of overdue todos (timeout.go).                           *)

BecomesOverdue ==
  /\ flow.st = "running" /\ ~overdue /\ overdue' = TRUE
  /\ UNCHANGED <<task, flow, transfer, around>>

\* ListOverdueCollaborationTodos, without a lock.
List(s) ==
  /\ listed[s] = "none" /\ flow.st = "running" /\ overdue
  /\ listed' = [listed EXCEPT ![s] = flow.node]
  /\ UNCHANGED <<work, transfer, escalated, child, active>>

\* pickEscalationTarget: some active member of the department, or nobody.
Pick(excluded) ==
  (active \ (excluded \cup {task.reviewer, task.acceptor, task.assignee})) \cup {Nobody}

CanTake(stage, p) == IF stage = "execution" THEN MayExecute(task, p) ELSE task.assignee # p

\* Faulty: the creator takes over whatever his part in the task is.
NextHolderUnchecked(stage, found) == IF found = Nobody THEN Creator ELSE found

\* The one found, or else the creator, if he may; otherwise nobody.
NextHolder(stage, found) ==
  CASE found # Nobody -> IF CanTake(stage, found) THEN found ELSE Nobody
    [] OTHER -> IF CanTake(stage, Creator) /\ Creator # Holder(task, stage) THEN Creator ELSE Nobody

EscalateAssignment ==
  IF task.assignee # Nobody THEN UNCHANGED <<work, escalated>>
  ELSE \E next \in Pick({}) :
         /\ escalated' = escalated \cup {"assignment"}
         /\ IF next = Nobody THEN UNCHANGED work
            ELSE Move([task EXCEPT !.assignee = next], "execution")

WithHolder(stage, p) ==
  CASE stage = "execution" -> [task EXCEPT !.assignee = p]
    [] stage = "review" -> [task EXCEPT !.reviewer = p]
    [] stage = "acceptance" -> [task EXCEPT !.acceptor = p]

\* A stage the task has left is an error, which rolls everything back.
EscalateHolder(stage) ==
  \E found \in Pick({Holder(task, stage)}) :
    LET from == Holder(task, stage)
        next == NextHolder(stage, found)
    IN  \/ next = Nobody /\ UNCHANGED work /\ escalated' = escalated \cup {stage}
        \/ /\ next # Nobody /\ Reassign(from, next, stage, WithHolder(stage, next))
           /\ escalated' = escalated \cup {stage}
        \/ /\ next # Nobody /\ ~(At(stage, from) /\ next \in active \ {from})
           /\ UNCHANGED <<work, escalated>>

\* escalateTodo, once per stage and not while a hand-over waits for signatures.
Escalate(s) ==
  /\ listed[s] # "none" /\ listed' = [listed EXCEPT ![s] = "none"]
  /\ UNCHANGED <<transfer, child, active>>
  /\ IF ~IsOpen \/ listed[s] \in escalated \/ Pending THEN UNCHANGED <<work, escalated>>
     ELSE IF listed[s] = "assignment" THEN EscalateAssignment ELSE EscalateHolder(listed[s])

-----------------------------------------------------------------------------
Personal(p) ==
  \/ Claim(p) \/ Assign(p) \/ Submit(p) \/ ApproveDelivery(p) \/ Return(p) \/ RejectDelivery(p) \/ Disable(p)
  \/ \E to \in {"doing", "held"} : Progress(p, to) \/ ChangeStatus(p, to)
  \/ \E q \in Staff : Delegate(p, q) \/ RequestTransfer(p, q)
  \/ \E office \in SignRoles : Sign(p, office) \/ SignLast(p, office) \/ RefuseTransfer(p, office)

Common ==
  Cancel \/ Delete \/ AddChild \/ CloseChild \/ DropChild \/ BecomesOverdue

TaskNext ==
  \/ \E p \in Staff : Personal(p)
  \/ Common
  \/ \E s \in Scanners : List(s) \/ Escalate(s)

TaskSpec == TaskInit /\ [][TaskNext]_taskVars

\* Everybody who may sign for a role gives the signature sooner or later.
SigningSpec ==
  /\ TaskSpec
  /\ \A office \in SignRoles : WF_taskVars(\E p \in Staff : Sign(p, office) \/ SignLast(p, office))

-----------------------------------------------------------------------------
(* Properties.                                                             *)

TaskTypeOK ==
  /\ task \in [status : {"pending", "doing", "held"} \cup Closed,
               stage : Stages \cup {"completed", "cancelled", "rejected"},
               assignee : Staff \cup {Nobody}, reviewer : Staff, acceptor : Staff,
               revision : Nat, delivery : Nat, gone : BOOLEAN]
  /\ flow \in [st : {"running", "completed", "terminated"}, node : Stages \cup {"none"},
               todo : Staff \cup {Nobody}]
  /\ transfer \in [n : Nat, st : {"none", "pending", "completed", "rejected"},
                   from : Staff \cup {Nobody}, to : Staff \cup {Nobody},
                   kind : HandOverKinds, signed : SUBSET SignRoles]
  /\ overdue \in BOOLEAN /\ escalated \subseteq Stages /\ child \in {"none", "open", "closed"}
  /\ listed \in [Scanners -> Stages \cup {"none"}] /\ active \subseteq Staff

\* The task is open while its flow runs, is at the flow's stage, and the open
\* todo is of the person the row names (task_checkpoint.go: "the progress of the
\* task and the stage of the flow disagree" must never be answered).
InStep ==
  /\ flow.st = "running" <=> task.status \notin Closed
  /\ flow.st = "completed" <=> task.status = "done"
  /\ flow.st = "running" =>
       /\ ~task.gone /\ flow.node \in Stages /\ task.stage = flow.node
       /\ flow.todo = Holder(task, flow.node) /\ flow.todo # Nobody
       /\ task.stage = "assignment" <=> task.assignee = Nobody

\* A hand-over that waits for signatures finds its executor where he was.
PendingIsInPlace ==
  Pending /\ IsOpen => task.stage = "execution" /\ task.assignee = transfer.from

\* The row and the flow are two records of one state (workflow.go,
\* handover.go and timeout.go write both).
TaskFollowsFlow == TaskTypeOK /\ InStep /\ PendingIsInPlace

\* Nobody reviews or accepts what he executes ("the executor may not review or
\* accept his own delivery", workflow.go), whoever was moved where by delegation,
\* hand-over or escalation; nor does the target of a hand-over under way.
NobodyJudgesOwnWork ==
  /\ task.assignee # Nobody => MayExecute(task, task.assignee)
  /\ Pending /\ IsOpen => MayExecute(task, transfer.to)

\* A decision carries the revision its maker was shown (ActWorkflow).  While the
\* task is open every step that changes its stage or the delivery counts the
\* revision, so a decision made on a screen that is out of date is refused.
ScreenIsCurrent ==
  [][/\ task'.revision >= task.revision
     /\ IsOpen /\ IsOpen' /\ task'.revision = task.revision =>
          task'.stage = task.stage /\ task'.delivery = task.delivery]_taskVars

\* Once the signers have signed, a hand-over is settled, also when the task has
\* left the execution meanwhile (handover_test.go, "expected cancel not stuck
\* complete").
SignedTransferIsSettled == Pending ~> ~Pending \/ task.gone
=============================================================================
