----------------------------- MODULE TaskProofs -----------------------------
(***************************************************************************)
(* Collaboration tasks and their files: the two records of a task agree,   *)
(* nobody judges his own work, the revision tells a screen what to show,   *)
(* and no row of a file outlives its object, for any staff, any number of  *)
(* files, cleaners and failures.                                           *)
(***************************************************************************)
EXTENDS TaskLifecycle, AttachmentCleanup, TLAPS

USE TaskAssumption DEF TaskAssumption

(***************************************************************************)
(* The life of a task.                                                     *)
(***************************************************************************)

TaskRow ==
  [status : {"pending", "doing", "held"} \cup Closed,
   stage : Stages \cup {"completed", "cancelled", "rejected"},
   assignee : Staff \cup {Nobody}, reviewer : Staff, acceptor : Staff,
   revision : Nat, delivery : Nat, gone : BOOLEAN]
FlowRow ==
  [st : {"running", "completed", "terminated"}, node : Stages \cup {"none"},
   todo : Staff \cup {Nobody}]
TransferRow ==
  [n : Nat, st : {"none", "pending", "completed", "rejected"},
   from : Staff \cup {Nobody}, to : Staff \cup {Nobody},
   kind : HandOverKinds, signed : SUBSET SignRoles]
AroundTyped ==
  /\ overdue \in BOOLEAN /\ escalated \subseteq Stages /\ child \in {"none", "open", "closed"}
  /\ listed \in [Scanners -> Stages \cup {"none"}] /\ active \subseteq Staff

\* The two properties are inductive only together: a hand-over that is signed makes
\* its target the executor, and an escalation relies on the row to name the holder
\* of the flow's todo.
TInv == TaskFollowsFlow /\ NobodyJudgesOwnWork

\* The parts of TInv, as the steps below take it apart and put it together.
RowsTyped == task \in TaskRow /\ flow \in FlowRow /\ transfer \in TransferRow /\ AroundTyped
LEMMA Parts ==
  TInv <=> RowsTyped /\ InStep /\ PendingIsInPlace /\ NobodyJudgesOwnWork
BY DEF TInv, TaskFollowsFlow, TaskTypeOK, RowsTyped, TaskRow, FlowRow, TransferRow, AroundTyped

LEMMA PartsNext ==
  TInv' <=> RowsTyped' /\ InStep' /\ PendingIsInPlace' /\ NobodyJudgesOwnWork'
BY DEF TInv, TaskFollowsFlow, TaskTypeOK, RowsTyped, TaskRow, FlowRow, TransferRow, AroundTyped

\* What entering a stage leaves of a row.
LEMMA RowMoved ==
  ASSUME NEW t \in TaskRow, NEW stage \in Stages
  PROVE  LET moved == [t EXCEPT !.stage = stage, !.revision = @ + 1]
         IN  /\ moved \in TaskRow /\ moved.stage = stage /\ moved.status = t.status
             /\ moved.gone = t.gone /\ moved.assignee = t.assignee
             /\ moved.reviewer = t.reviewer /\ moved.acceptor = t.acceptor
<1> DEFINE staged == [t EXCEPT !.stage = stage]
<1> DEFINE moved == [staged EXCEPT !.revision = staged.revision + 1]
<1>1. staged \in TaskRow
  BY DEF TaskRow
<1>2. /\ staged.stage = stage /\ staged.status = t.status /\ staged.gone = t.gone
      /\ staged.assignee = t.assignee /\ staged.reviewer = t.reviewer
      /\ staged.acceptor = t.acceptor /\ staged.revision = t.revision
  BY DEF TaskRow
<1>3. staged.revision + 1 \in Nat
  BY <1>1 DEF TaskRow
<1>4. moved \in TaskRow
  BY <1>1, <1>3 DEF TaskRow
<1>5. /\ moved.stage = stage /\ moved.status = t.status /\ moved.gone = t.gone
      /\ moved.assignee = t.assignee /\ moved.reviewer = t.reviewer
      /\ moved.acceptor = t.acceptor
  BY <1>1, <1>2 DEF TaskRow
<1>6. moved = [t EXCEPT !.stage = stage, !.revision = @ + 1]
  BY <1>2
<1> QED
  BY <1>4, <1>5, <1>6

\* Entering a stage keeps row and flow in step.
LEMMA MoveKeeps ==
  ASSUME TInv, NEW t \in TaskRow, NEW stage \in Stages \ {"assignment"},
         t.status \notin Closed, ~t.gone, ~Pending,
         t.assignee # Nobody, MayExecute(t, t.assignee),
         Move(t, stage), transfer' = transfer,
         escalated' \subseteq Stages, UNCHANGED <<child, active>>,
         listed' \in [Scanners -> Stages \cup {"none"}]
  PROVE  TInv'
<1>1. RowsTyped /\ InStep
  BY Parts
<1>2. Holder(t, stage) = CASE stage = "execution" -> t.assignee
        [] stage = "review" -> t.reviewer [] stage = "acceptance" -> t.acceptor
  BY DEF Holder, Stages
<1>3. Holder(t, stage) \in Staff
  BY <1>2 DEF TaskRow, Stages
<1>4. /\ task' = [t EXCEPT !.stage = stage, !.revision = @ + 1]
      /\ flow' = [st |-> "running", node |-> stage, todo |-> Holder(t, stage)]
      /\ overdue' = FALSE
  BY DEF Move
<1>5. /\ task' \in TaskRow /\ task'.stage = stage /\ task'.status = t.status
      /\ task'.gone = t.gone /\ task'.assignee = t.assignee
      /\ task'.reviewer = t.reviewer /\ task'.acceptor = t.acceptor
  BY <1>4, RowMoved
<1>6. Holder(task', stage) = Holder(t, stage)
  BY <1>2, <1>5 DEF Holder, Stages
<1>7. flow' \in FlowRow /\ flow'.st = "running" /\ flow'.node = stage
      /\ flow'.todo = Holder(t, stage)
  BY <1>3, <1>4 DEF FlowRow, Stages
<1>8. RowsTyped'
  BY <1>1, <1>4, <1>5, <1>7 DEF RowsTyped, AroundTyped
<1>9. InStep'
  BY <1>3, <1>5, <1>6, <1>7 DEF InStep, Closed, Stages
<1>10. PendingIsInPlace' /\ NobodyJudgesOwnWork'
  BY <1>5 DEF PendingIsInPlace, NobodyJudgesOwnWork, Pending, MayExecute
<1> QED
  BY <1>8, <1>9, <1>10, PartsNext

\* Ending the flow together with the task keeps them in step.
LEMMA EndKeeps ==
  ASSUME TInv, NEW t \in TaskRow, NEW st,
         \/ st = "completed" /\ t.status = "done"
         \/ st = "terminated" /\ t.status = "cancelled",
         t.assignee = task.assignee, t.reviewer = task.reviewer, t.acceptor = task.acceptor,
         End(t, st), UNCHANGED <<transfer, around>>
  PROVE  TInv'
<1>1. RowsTyped /\ NobodyJudgesOwnWork
  BY Parts
<1>2. flow' = [st |-> st, node |-> "none", todo |-> Nobody] /\ task' = t /\ overdue' = FALSE
  BY DEF End
<1>3. flow' \in FlowRow /\ flow'.st = st
  BY <1>2 DEF FlowRow
<1>4. RowsTyped'
  BY <1>1, <1>2, <1>3 DEF RowsTyped, AroundTyped, around
<1>5. InStep'
  BY <1>2, <1>3 DEF InStep, Closed
<1>6. ~IsOpen'
  BY <1>2 DEF IsOpen, Closed
<1>7. PendingIsInPlace' /\ NobodyJudgesOwnWork'
  BY <1>1, <1>2, <1>6 DEF PendingIsInPlace, NobodyJudgesOwnWork, MayExecute
<1> QED
  BY <1>4, <1>5, <1>7, PartsNext

\* Passing the open todo on, to somebody the row then names.
LEMMA PassOnKeeps ==
  ASSUME TInv, NEW t \in TaskRow, NEW to \in Staff, flow.st = "running",
         t.status = task.status, t.stage = task.stage, t.gone = task.gone,
         t.assignee # Nobody <=> task.assignee # Nobody,
         t.assignee # Nobody => MayExecute(t, t.assignee),
         Holder(t, flow.node) = to, ~Pending',
         task' = t, flow' = [flow EXCEPT !.todo = to], overdue' \in BOOLEAN,
         transfer' \in TransferRow, escalated' \subseteq Stages, UNCHANGED <<child, active>>,
         listed' \in [Scanners -> Stages \cup {"none"}]
  PROVE  TInv'
<1>1. RowsTyped /\ InStep
  BY Parts
<1>2. flow' \in FlowRow /\ flow'.st = "running" /\ flow'.node = flow.node /\ flow'.todo = to
  BY <1>1 DEF RowsTyped, FlowRow
<1>3. RowsTyped'
  BY <1>1, <1>2 DEF RowsTyped, AroundTyped
<1>4. InStep'
  BY <1>1, <1>2 DEF InStep, Closed
<1>5. PendingIsInPlace' /\ NobodyJudgesOwnWork'
  BY DEF PendingIsInPlace, NobodyJudgesOwnWork
<1> QED
  BY <1>3, <1>4, <1>5, PartsNext

\* A step that leaves task, flow and hand-over alone.
LEMMA BesideKeeps ==
  ASSUME TInv, UNCHANGED <<task, flow, transfer>>, AroundTyped'
  PROVE  TInv'
<1>1. RowsTyped /\ InStep /\ PendingIsInPlace /\ NobodyJudgesOwnWork
  BY Parts
<1>2. RowsTyped'
  BY <1>1 DEF RowsTyped
<1>3. InStep' /\ PendingIsInPlace' /\ NobodyJudgesOwnWork'
  BY <1>1 DEF InStep, PendingIsInPlace, NobodyJudgesOwnWork, Pending, IsOpen, MayExecute, Holder
<1> QED
  BY <1>2, <1>3, PartsNext

\* The people's actions on the task.
LEMMA AssignmentKeeps ==
  ASSUME TInv, NEW p \in Staff, Claim(p) \/ Assign(p)
  PROVE  TInv'
<1> DEFINE t == [task EXCEPT !.assignee = p]
<1>1. RowsTyped /\ InStep /\ PendingIsInPlace
  BY Parts
<1>2. /\ IsOpen /\ task.stage = "assignment" /\ MayExecute(task, p)
      /\ Move(t, "execution") /\ UNCHANGED <<transfer, around>>
  BY DEF Claim, Assign
<1>3. ~Pending
  BY <1>1, <1>2 DEF PendingIsInPlace
<1>4. t \in TaskRow
  BY <1>1 DEF RowsTyped, TaskRow
<1>5. /\ t.assignee = p /\ t.status = task.status /\ t.gone = task.gone
      /\ t.reviewer = task.reviewer /\ t.acceptor = task.acceptor
  BY <1>1 DEF RowsTyped, TaskRow
<1>6. t.status \notin Closed /\ ~t.gone /\ t.assignee # Nobody /\ MayExecute(t, t.assignee)
  BY <1>2, <1>5 DEF IsOpen, MayExecute
<1>7. /\ escalated' \subseteq Stages /\ UNCHANGED <<child, active>>
      /\ listed' \in [Scanners -> Stages \cup {"none"}] /\ transfer' = transfer
  BY <1>1, <1>2 DEF RowsTyped, AroundTyped, around
<1>8. "execution" \in Stages \ {"assignment"}
  BY DEF Stages
<1> HIDE DEF t
<1> QED
  BY <1>2, <1>3, <1>4, <1>6, <1>7, <1>8, MoveKeeps

\* A step of the task's own that moves it on from a stage it has been carried out in.
LEMMA OnwardKeeps ==
  ASSUME TInv, NEW t \in TaskRow, NEW stage \in Stages \ {"assignment"},
         IsOpen, ~Pending, task.stage # "assignment",
         t.status = task.status, t.gone = task.gone, t.assignee = task.assignee,
         t.reviewer = task.reviewer, t.acceptor = task.acceptor,
         Move(t, stage), UNCHANGED <<transfer, around>>
  PROVE  TInv'
<1>1. RowsTyped /\ InStep /\ NobodyJudgesOwnWork
  BY Parts
<1>2. task.assignee # Nobody
  BY <1>1 DEF InStep, IsOpen
<1>3. t.status \notin Closed /\ ~t.gone /\ t.assignee # Nobody /\ MayExecute(t, t.assignee)
  BY <1>1, <1>2 DEF IsOpen, MayExecute, NobodyJudgesOwnWork
<1>4. /\ escalated' \subseteq Stages /\ UNCHANGED <<child, active>>
      /\ listed' \in [Scanners -> Stages \cup {"none"}] /\ transfer' = transfer
  BY <1>1 DEF RowsTyped, AroundTyped, around
<1> QED
  BY <1>3, <1>4, MoveKeeps

LEMMA SubmitKeeps ==
  ASSUME TInv, NEW p \in Staff, Submit(p)
  PROVE  TInv'
<1> DEFINE t == [task EXCEPT !.delivery = @ + 1]
<1>1. RowsTyped
  BY Parts
<1>2. /\ IsOpen /\ ~Pending /\ task.stage = "execution" /\ Move(t, "review")
      /\ UNCHANGED <<transfer, around>>
  BY DEF Submit, Executes
<1>3. t \in TaskRow
  BY <1>1 DEF RowsTyped, TaskRow
<1>4. /\ t.status = task.status /\ t.gone = task.gone /\ t.assignee = task.assignee
      /\ t.reviewer = task.reviewer /\ t.acceptor = task.acceptor
  BY <1>1 DEF RowsTyped, TaskRow
<1>5. "review" \in Stages \ {"assignment"}
  BY DEF Stages
<1> HIDE DEF t
<1> QED
  BY <1>2, <1>3, <1>4, <1>5, OnwardKeeps

\* Nobody judges while a hand-over waits: that happens in the execution only.
LEMMA JudgedIsNotPending ==
  ASSUME TInv, IsOpen, task.stage \in {"review", "acceptance"}
  PROVE  ~Pending
BY Parts DEF PendingIsInPlace

LEMMA ClosingKeeps ==
  ASSUME TInv, NEW s \in {"done", "cancelled"}, NEW stage \in {"completed", "cancelled", "rejected"},
         NEW r \in Nat, NEW st, st = IF s = "done" THEN "completed" ELSE "terminated",
         End([task EXCEPT !.status = s, !.stage = stage, !.revision = r], st),
         UNCHANGED <<transfer, around>>
  PROVE  TInv'
<1> DEFINE t == [task EXCEPT !.status = s, !.stage = stage, !.revision = r]
<1>1. RowsTyped
  BY Parts
<1>2. t \in TaskRow
  BY <1>1 DEF RowsTyped, TaskRow, Closed
<1>3. /\ t.status = s /\ t.assignee = task.assignee
      /\ t.reviewer = task.reviewer /\ t.acceptor = task.acceptor
  BY <1>1 DEF RowsTyped, TaskRow
<1> HIDE DEF t
<1>4. End(t, st)
  BY DEF t
<1> QED
  BY <1>2, <1>3, <1>4, EndKeeps

LEMMA JudgementKeeps ==
  ASSUME TInv, NEW p \in Staff, ApproveDelivery(p) \/ Return(p) \/ RejectDelivery(p)
  PROVE  TInv'
<1>1. RowsTyped /\ task \in TaskRow /\ task.revision + 1 \in Nat
  BY Parts DEF RowsTyped, TaskRow
<1>2. IsOpen /\ task.stage \in {"review", "acceptance"} /\ UNCHANGED <<transfer, around>>
  BY DEF ApproveDelivery, Return, RejectDelivery, Judges
<1>3. ~Pending
  BY <1>2, JudgedIsNotPending
<1>4. {"execution", "acceptance"} \subseteq Stages \ {"assignment"}
  BY DEF Stages
<1>5. CASE Move(task, "acceptance") \/ Move(task, "execution")
  BY <1>1, <1>2, <1>3, <1>4, <1>5, OnwardKeeps
<1>6. CASE End([task EXCEPT !.status = "done", !.stage = "completed", !.revision = @ + 1], "completed")
  BY <1>1, <1>2, <1>6, ClosingKeeps
<1>7. CASE End([task EXCEPT !.status = "cancelled", !.stage = "rejected", !.revision = @ + 1], "terminated")
  BY <1>1, <1>2, <1>7, ClosingKeeps
<1> QED
  BY <1>5, <1>6, <1>7 DEF ApproveDelivery, Return, RejectDelivery

LEMMA CancelKeeps == ASSUME TInv, Cancel PROVE TInv'
<1> DEFINE t == [task EXCEPT !.status = "cancelled", !.stage = "cancelled"]
<1>1. RowsTyped
  BY Parts
<1>2. End(t, "terminated") /\ UNCHANGED <<transfer, around>>
  BY DEF Cancel
<1>3. t \in TaskRow
  BY <1>1 DEF RowsTyped, TaskRow, Closed
<1>4. /\ t.status = "cancelled" /\ t.assignee = task.assignee
      /\ t.reviewer = task.reviewer /\ t.acceptor = task.acceptor
  BY <1>1 DEF RowsTyped, TaskRow
<1> HIDE DEF t
<1> QED
  BY <1>2, <1>3, <1>4, EndKeeps

\* Steps that change only the status within the execution, or the revision.
LEMMA WithinStageKeeps ==
  ASSUME TInv, NEW t \in TaskRow, flow' = flow, task' = t, AroundTyped', transfer' \in TransferRow,
         t.status \in Closed <=> task.status \in Closed,
         t.status = "done" <=> task.status = "done",
         t.stage = task.stage, t.gone = task.gone, t.assignee = task.assignee,
         t.reviewer = task.reviewer, t.acceptor = task.acceptor,
         Pending' => \/ transfer' = transfer
                     \/ /\ task.stage = "execution" /\ task.assignee = transfer'.from
                        /\ MayExecute(task, transfer'.to)
  PROVE  TInv'
<1>1. RowsTyped /\ InStep /\ PendingIsInPlace /\ NobodyJudgesOwnWork
  BY Parts
<1>2. RowsTyped'
  BY <1>1 DEF RowsTyped
<1>3. InStep'
  BY <1>1 DEF InStep, Holder, Stages
<1>4. IsOpen' <=> IsOpen
  BY DEF IsOpen
<1>5. PendingIsInPlace'
  BY <1>1, <1>4 DEF PendingIsInPlace, Pending
<1>6. NobodyJudgesOwnWork'
  BY <1>1, <1>4 DEF NobodyJudgesOwnWork, Pending, MayExecute
<1> QED
  BY <1>2, <1>3, <1>5, <1>6, PartsNext

LEMMA ProgressKeeps ==
  ASSUME TInv, NEW p \in Staff, NEW to \in {"doing", "held"},
         Progress(p, to) \/ ChangeStatus(p, to)
  PROVE  TInv'
<1>1. RowsTyped /\ InStep /\ task \in TaskRow
  BY Parts DEF RowsTyped
<1>2. IsOpen /\ flow' = flow /\ overdue' = overdue /\ UNCHANGED <<transfer, around>>
  BY DEF Progress, ChangeStatus, Executes
<1>3. task.stage = flow.node
  BY <1>1, <1>2 DEF InStep, IsOpen
<1>4. AroundTyped' /\ transfer' \in TransferRow
  BY <1>1, <1>2 DEF RowsTyped, AroundTyped, around
<1>5. CASE ChangeStatus(p, to)
  <2> DEFINE t == [task EXCEPT !.status = to]
  <2>1. task' = t
    BY <1>5 DEF ChangeStatus
  <2>2. /\ t \in TaskRow /\ t.status = to /\ t.stage = task.stage /\ t.gone = task.gone
        /\ t.assignee = task.assignee /\ t.reviewer = task.reviewer /\ t.acceptor = task.acceptor
    BY <1>1 DEF TaskRow
  <2>3. /\ t.status \in Closed <=> task.status \in Closed
        /\ t.status = "done" <=> task.status = "done"
    BY <1>2, <2>2 DEF IsOpen, Closed
  <2> HIDE DEF t
  <2> QED
    BY <1>2, <1>4, <2>1, <2>2, <2>3, WithinStageKeeps
<1>6. CASE Progress(p, to)
  <2> DEFINE named == [task EXCEPT !.status = to]
  <2> DEFINE t == [named EXCEPT !.stage = flow.node, !.revision = @ + 1]
  <2>1. task' = t
    BY <1>6 DEF Progress
  <2>2. /\ named \in TaskRow /\ named.status = to /\ named.gone = task.gone
        /\ named.assignee = task.assignee /\ named.reviewer = task.reviewer
        /\ named.acceptor = task.acceptor
    BY <1>1 DEF TaskRow
  <2> HIDE DEF named
  <2>3. /\ t \in TaskRow /\ t.status = to /\ t.stage = task.stage /\ t.gone = task.gone
        /\ t.assignee = task.assignee /\ t.reviewer = task.reviewer /\ t.acceptor = task.acceptor
    <3>1. flow.node \in Stages
      BY <1>1, <1>2 DEF InStep, IsOpen
    <3> QED
      BY <1>3, <2>2, <3>1, RowMoved
  <2>4. /\ t.status \in Closed <=> task.status \in Closed
        /\ t.status = "done" <=> task.status = "done"
    BY <1>2, <2>3 DEF IsOpen, Closed
  <2> HIDE DEF t
  <2> QED
    BY <1>2, <1>4, <2>1, <2>3, <2>4, WithinStageKeeps
<1> QED
  BY <1>5, <1>6

LEMMA DeleteKeeps == ASSUME TInv, Delete PROVE TInv'
<1>1. RowsTyped /\ InStep /\ NobodyJudgesOwnWork
  BY Parts
<1>2. /\ task' = [task EXCEPT !.gone = TRUE] /\ task.status \in Closed
      /\ UNCHANGED <<flow, overdue, transfer, around>>
  BY DEF Delete, IsOpen
<1>3. /\ task' \in TaskRow /\ task'.status = task.status /\ task'.gone
      /\ task'.assignee = task.assignee /\ task'.reviewer = task.reviewer
      /\ task'.acceptor = task.acceptor
  BY <1>1, <1>2 DEF RowsTyped, TaskRow
<1>4. RowsTyped'
  BY <1>1, <1>2, <1>3 DEF RowsTyped, AroundTyped, around
<1>5. InStep'
  BY <1>1, <1>2, <1>3 DEF InStep
<1>6. PendingIsInPlace' /\ NobodyJudgesOwnWork'
  BY <1>1, <1>3 DEF PendingIsInPlace, NobodyJudgesOwnWork, IsOpen, MayExecute
<1> QED
  BY <1>4, <1>5, <1>6, PartsNext

-----------------------------------------------------------------------------
(* Handing over.                                                           *)

\* The row after the execution has been handed to q.
LEMMA RowHandedOver ==
  ASSUME task \in TaskRow, NEW q \in Staff
  PROVE  LET t == [task EXCEPT !.assignee = q, !.revision = @ + 1]
         IN  /\ t \in TaskRow /\ t.assignee = q /\ t.status = task.status
             /\ t.stage = task.stage /\ t.gone = task.gone
             /\ t.reviewer = task.reviewer /\ t.acceptor = task.acceptor
<1> DEFINE named == [task EXCEPT !.assignee = q]
<1>1. /\ named \in TaskRow /\ named.assignee = q /\ named.status = task.status
      /\ named.stage = task.stage /\ named.gone = task.gone
      /\ named.reviewer = task.reviewer /\ named.acceptor = task.acceptor
      /\ named.revision = task.revision /\ named.revision + 1 \in Nat
  BY DEF TaskRow
<1>2. [task EXCEPT !.assignee = q, !.revision = @ + 1]
        = [named EXCEPT !.revision = named.revision + 1]
  BY <1>1
<1> HIDE DEF named
<1>3. LET t == [named EXCEPT !.revision = named.revision + 1]
      IN  /\ t \in TaskRow /\ t.assignee = q /\ t.status = task.status
          /\ t.stage = task.stage /\ t.gone = task.gone
          /\ t.reviewer = task.reviewer /\ t.acceptor = task.acceptor
  BY <1>1 DEF TaskRow
<1> QED
  BY <1>2, <1>3

\* Execution and todo go from p to q together.
LEMMA ExecutionPasses ==
  ASSUME TInv, NEW q \in Staff, At("execution", task.assignee), task.assignee # Nobody,
         MayExecute(task, q), task' = [task EXCEPT !.assignee = q, !.revision = @ + 1],
         flow' = [flow EXCEPT !.todo = q], overdue' \in BOOLEAN, ~Pending',
         transfer' \in TransferRow, UNCHANGED around
  PROVE  TInv'
<1> DEFINE t == [task EXCEPT !.assignee = q, !.revision = @ + 1]
<1>1. RowsTyped /\ task \in TaskRow
  BY Parts DEF RowsTyped
<1>2. /\ t \in TaskRow /\ t.assignee = q /\ t.status = task.status
      /\ t.stage = task.stage /\ t.gone = task.gone
      /\ t.reviewer = task.reviewer /\ t.acceptor = task.acceptor
  BY <1>1, RowHandedOver
<1>3. flow.st = "running" /\ Holder(t, flow.node) = q
  BY <1>2 DEF At, Holder
<1>4. q # Nobody /\ MayExecute(t, t.assignee)
  BY <1>2 DEF MayExecute
<1>5. /\ escalated' \subseteq Stages /\ UNCHANGED <<child, active>>
      /\ listed' \in [Scanners -> Stages \cup {"none"}]
  BY <1>1 DEF RowsTyped, AroundTyped, around
<1>6. task' = t
  OBVIOUS
<1> HIDE DEF t
<1>7. /\ t.assignee # Nobody <=> task.assignee # Nobody
      /\ t.assignee # Nobody => MayExecute(t, t.assignee)
  BY <1>2, <1>4
<1> QED
  BY <1>2, <1>3, <1>5, <1>6, <1>7, PassOnKeeps

LEMMA DelegateKeeps ==
  ASSUME TInv, NEW p \in Staff, NEW q \in Staff, Delegate(p, q)
  PROVE  TInv'
<1>1. RowsTyped
  BY Parts
<1>2. /\ task.assignee = p /\ p # Nobody /\ At("execution", p) /\ MayExecute(task, q) /\ ~Pending
      /\ task' = [task EXCEPT !.assignee = q, !.revision = @ + 1]
      /\ flow' = [flow EXCEPT !.todo = q] /\ UNCHANGED <<overdue, transfer, around>>
  BY DEF Delegate, MayHandOver, Executes
<1>3. ~Pending' /\ overdue' \in BOOLEAN /\ transfer' \in TransferRow
  BY <1>1, <1>2 DEF Pending, RowsTyped, AroundTyped
<1> QED
  BY <1>2, <1>3, ExecutionPasses

LEMMA SignLastKeeps ==
  ASSUME TInv, NEW p \in Staff, NEW office \in SignRoles, SignLast(p, office)
  PROVE  TInv'
<1>1. RowsTyped /\ InStep /\ NobodyJudgesOwnWork
  BY Parts
<1>2. /\ Pending /\ task.stage = "execution" /\ task.assignee = transfer.from
      /\ At("execution", transfer.from) /\ transfer.to \in active
      /\ flow' = [flow EXCEPT !.todo = transfer.to] /\ overdue' = FALSE
      /\ task' = [task EXCEPT !.assignee = transfer.to, !.revision = @ + 1]
      /\ transfer' = [transfer EXCEPT !.st = "completed", !.signed = @ \cup {office}]
      /\ UNCHANGED around
  BY DEF SignLast, Signs, Reassign
<1>3. transfer.to \in Staff
  BY <1>1, <1>2 DEF RowsTyped, AroundTyped
<1>4. IsOpen /\ task.assignee # Nobody
  BY <1>1, <1>2 DEF InStep, At, IsOpen, Stages
<1>5. MayExecute(task, transfer.to)
  BY <1>1, <1>2, <1>4 DEF NobodyJudgesOwnWork
<1>6. transfer' \in TransferRow /\ ~Pending'
  BY <1>1, <1>2 DEF RowsTyped, TransferRow, Pending
<1> QED
  BY <1>2, <1>3, <1>4, <1>5, <1>6, ExecutionPasses

LEMMA RequestTransferKeeps ==
  ASSUME TInv, NEW p \in Staff, NEW q \in Staff, RequestTransfer(p, q)
  PROVE  TInv'
<1> DEFINE t == [task EXCEPT !.revision = @ + 1]
<1>1. RowsTyped /\ task \in TaskRow /\ transfer \in TransferRow
  BY Parts DEF RowsTyped
<1>2. /\ task.stage = "execution" /\ task.assignee = p /\ MayExecute(task, q)
      /\ transfer' = [n |-> transfer.n + 1, st |-> "pending", from |-> p, to |-> q,
                      kind |-> KindOf[p, q], signed |-> {}]
      /\ task' = t /\ UNCHANGED <<flow, overdue, around>>
  BY DEF RequestTransfer, MayHandOver, Executes
<1>3. KindOf[<<p, q>>] \in HandOverKinds /\ transfer.n + 1 \in Nat
  <2>1. <<p, q>> \in Staff \X Staff /\ transfer.n \in Nat
    BY <1>1 DEF TransferRow
  <2>2. ASSUME NEW x \in Staff \X Staff PROVE KindOf[x] \in HandOverKinds
    OBVIOUS
  <2> QED
    BY <2>1, <2>2
<1>4. transfer' \in TransferRow /\ transfer'.from = p /\ transfer'.to = q
  BY <1>2, <1>3 DEF TransferRow
<1>5. /\ t \in TaskRow /\ t.status = task.status /\ t.stage = task.stage /\ t.gone = task.gone
      /\ t.assignee = task.assignee /\ t.reviewer = task.reviewer /\ t.acceptor = task.acceptor
  BY <1>1 DEF TaskRow
<1>6. AroundTyped'
  BY <1>1, <1>2 DEF RowsTyped, AroundTyped, around
<1> HIDE DEF t
<1> QED
  BY <1>2, <1>4, <1>5, <1>6, WithinStageKeeps

LEMMA SignatureKeeps ==
  ASSUME TInv, NEW p \in Staff, NEW office \in SignRoles,
         Sign(p, office) \/ RefuseTransfer(p, office)
  PROVE  TInv'
<1> DEFINE t == [task EXCEPT !.revision = @ + 1]
<1>1. /\ RowsTyped /\ InStep /\ PendingIsInPlace /\ NobodyJudgesOwnWork
      /\ task \in TaskRow /\ transfer \in TransferRow
  BY Parts DEF RowsTyped
<1>2. /\ t \in TaskRow /\ t.status = task.status /\ t.stage = task.stage /\ t.gone = task.gone
      /\ t.assignee = task.assignee /\ t.reviewer = task.reviewer /\ t.acceptor = task.acceptor
  BY <1>1 DEF TaskRow
<1> HIDE DEF t
<1>3. /\ Pending /\ UNCHANGED <<flow, overdue, around>>
  BY DEF Sign, RefuseTransfer, Signs, work
<1>4. AroundTyped'
  BY <1>1, <1>3 DEF RowsTyped, AroundTyped, around
<1>5. CASE RefuseTransfer(p, office)
  <2>1. transfer' \in TransferRow /\ ~Pending' /\ task' = t
    BY <1>1, <1>5 DEF RefuseTransfer, TransferRow, Pending, t
  <2> QED
    BY <1>2, <1>3, <1>4, <2>1, WithinStageKeeps
<1>6. CASE Sign(p, office)
  <2>1. task' = task /\ transfer' = [transfer EXCEPT !.signed = @ \cup {office}]
    BY <1>6 DEF Sign, work
  <2>2. /\ transfer' \in TransferRow /\ transfer'.from = transfer.from
        /\ transfer'.to = transfer.to /\ Pending' = Pending
    BY <1>1, <2>1 DEF TransferRow, Pending
  <2>3. RowsTyped'
    BY <1>1, <1>3, <1>4, <2>1, <2>2 DEF RowsTyped
  <2>4. InStep'
    BY <1>1, <1>3, <2>1 DEF InStep, Holder
  <2>5. PendingIsInPlace' /\ NobodyJudgesOwnWork'
    BY <1>1, <2>1, <2>2 DEF PendingIsInPlace, NobodyJudgesOwnWork, IsOpen, MayExecute
  <2> QED
    BY <2>3, <2>4, <2>5, PartsNext
<1> QED
  BY <1>5, <1>6

-----------------------------------------------------------------------------
(* The escalation.                                                         *)

\* Whom an escalation finds may take the stage over.
LEMMA NextHolderCanTake ==
  ASSUME TInv, NEW stage \in Stages, NEW found \in Staff \cup {Nobody},
         NextHolder(stage, found) # Nobody
  PROVE  NextHolder(stage, found) \in Staff /\ CanTake(stage, NextHolder(stage, found))
<1>1. CASE found # Nobody
  BY <1>1 DEF NextHolder
<1>2. CASE found = Nobody
  BY <1>2 DEF NextHolder
<1> QED
  BY <1>1, <1>2

\* The row after the stage has been given to p.
LEMMA RowWithHolder ==
  ASSUME task \in TaskRow, NEW stage \in Stages \ {"assignment"}, NEW p \in Staff
  PROVE  LET t == WithHolder(stage, p)
         IN  /\ t \in TaskRow /\ t.status = task.status /\ t.stage = task.stage
             /\ t.gone = task.gone /\ Holder(t, stage) = p
             /\ t.assignee = IF stage = "execution" THEN p ELSE task.assignee
             /\ t.reviewer = IF stage = "review" THEN p ELSE task.reviewer
             /\ t.acceptor = IF stage = "acceptance" THEN p ELSE task.acceptor
<1>1. CASE stage = "execution"
  <2>1. WithHolder(stage, p) = [task EXCEPT !.assignee = p]
    BY <1>1 DEF WithHolder
  <2> QED
    BY <1>1, <2>1 DEF TaskRow, Holder
<1>2. CASE stage = "review"
  <2>1. WithHolder(stage, p) = [task EXCEPT !.reviewer = p]
    BY <1>2 DEF WithHolder
  <2> QED
    BY <1>2, <2>1 DEF TaskRow, Holder
<1>3. CASE stage = "acceptance"
  <2>1. WithHolder(stage, p) = [task EXCEPT !.acceptor = p]
    BY <1>3 DEF WithHolder
  <2> QED
    BY <1>3, <2>1 DEF TaskRow, Holder
<1> QED
  BY <1>1, <1>2, <1>3 DEF Stages

\* What the rest of an escalation does to the other variables.
EscalateFrame ==
  /\ listed' \in [Scanners -> Stages \cup {"none"}]
  /\ UNCHANGED <<transfer, child, active>>

LEMMA EscalateAssignmentKeeps ==
  ASSUME TInv, IsOpen, ~Pending, EscalateAssignment, EscalateFrame
  PROVE  TInv'
<1>1. RowsTyped /\ InStep /\ task \in TaskRow
  BY Parts DEF RowsTyped
<1>2. CASE UNCHANGED work
  <2>1. UNCHANGED <<task, flow, overdue>> /\ escalated' \subseteq Stages
    BY <1>1, <1>2 DEF EscalateAssignment, work, RowsTyped, AroundTyped, Stages
  <2>2. AroundTyped'
    BY <1>1, <2>1 DEF EscalateFrame, RowsTyped, AroundTyped
  <2> QED
    BY <2>1, <2>2, BesideKeeps DEF EscalateFrame
<1>3. CASE ~UNCHANGED work
  <2>1. PICK next \in Pick({}) :
          /\ next # Nobody /\ Move([task EXCEPT !.assignee = next], "execution")
          /\ escalated' = escalated \cup {"assignment"}
    BY <1>3 DEF EscalateAssignment
  <2>2. next \in Staff /\ MayExecute(task, next)
    BY <1>1, <2>1 DEF Pick, MayExecute, RowsTyped, AroundTyped
  <2> DEFINE t == [task EXCEPT !.assignee = next]
  <2>3. /\ t \in TaskRow /\ t.assignee = next /\ t.status = task.status /\ t.gone = task.gone
        /\ t.reviewer = task.reviewer /\ t.acceptor = task.acceptor
    BY <1>1, <2>2 DEF TaskRow
  <2>4. Move(t, "execution")
    BY <2>1
  <2> HIDE DEF t
  <2>5. t.status \notin Closed /\ ~t.gone /\ t.assignee # Nobody /\ MayExecute(t, t.assignee)
    BY <2>1, <2>2, <2>3 DEF IsOpen, MayExecute
  <2>6. escalated' \subseteq Stages /\ "execution" \in Stages \ {"assignment"}
    BY <1>1, <2>1 DEF RowsTyped, AroundTyped, Stages
  <2> QED
    BY <2>3, <2>4, <2>5, <2>6, MoveKeeps DEF EscalateFrame
<1> QED
  BY <1>2, <1>3

LEMMA EscalateHolderKeeps ==
  ASSUME TInv, IsOpen, ~Pending, NEW stage \in Stages \ {"assignment"},
         EscalateHolder(stage), EscalateFrame
  PROVE  TInv'
<1>1. RowsTyped /\ InStep /\ NobodyJudgesOwnWork /\ task \in TaskRow
  BY Parts DEF RowsTyped
<1>2. escalated' \subseteq Stages
  BY <1>1 DEF EscalateHolder, RowsTyped, AroundTyped
<1>3. CASE UNCHANGED work
  <2>1. UNCHANGED <<task, flow, overdue>>
    BY <1>3 DEF work
  <2>2. AroundTyped'
    BY <1>1, <1>2, <2>1 DEF EscalateFrame, RowsTyped, AroundTyped
  <2> QED
    BY <2>1, <2>2, BesideKeeps DEF EscalateFrame
<1>4. CASE ~UNCHANGED work
  <2>1. PICK found \in Pick({Holder(task, stage)}) :
          /\ NextHolder(stage, found) # Nobody
          /\ Reassign(Holder(task, stage), NextHolder(stage, found), stage,
                      WithHolder(stage, NextHolder(stage, found)))
    BY <1>4 DEF EscalateHolder
  <2>2. found \in Staff \cup {Nobody}
    BY <1>1, <2>1 DEF Pick, RowsTyped, AroundTyped
  <2> DEFINE next == NextHolder(stage, found)
  <2> DEFINE t == WithHolder(stage, next)
  <2>3. next \in Staff /\ CanTake(stage, next)
    BY <2>1, <2>2, NextHolderCanTake
  <2> HIDE DEF next
  <2>4. /\ flow.st = "running" /\ flow.node = stage /\ flow' = [flow EXCEPT !.todo = next]
        /\ overdue' = FALSE /\ task' = t
    BY <2>1 DEF Reassign, At, next
  <2>5. /\ t \in TaskRow /\ t.status = task.status /\ t.stage = task.stage
        /\ t.gone = task.gone /\ Holder(t, stage) = next
        /\ t.assignee = IF stage = "execution" THEN next ELSE task.assignee
        /\ t.reviewer = IF stage = "review" THEN next ELSE task.reviewer
        /\ t.acceptor = IF stage = "acceptance" THEN next ELSE task.acceptor
    BY <1>1, <2>3, RowWithHolder
  <2> HIDE DEF t
  <2>6. task.assignee # Nobody /\ next # Nobody
    BY <1>1, <2>3, <2>4 DEF InStep
  <2>7. t.assignee # Nobody /\ MayExecute(t, t.assignee)
    BY <1>1, <2>3, <2>5, <2>6 DEF CanTake, MayExecute, NobodyJudgesOwnWork
  <2>8. /\ ~Pending' /\ transfer' \in TransferRow /\ UNCHANGED <<child, active>>
        /\ listed' \in [Scanners -> Stages \cup {"none"}] /\ overdue' \in BOOLEAN
    BY <1>1, <2>4 DEF EscalateFrame, Pending, RowsTyped
  <2>9. /\ t.assignee # Nobody <=> task.assignee # Nobody
        /\ t.assignee # Nobody => MayExecute(t, t.assignee)
    BY <2>6, <2>7
  <2> QED
    BY <1>2, <2>3, <2>4, <2>5, <2>8, <2>9, PassOnKeeps
<1> QED
  BY <1>3, <1>4

LEMMA ScannerKeeps ==
  ASSUME TInv, NEW s \in Scanners, List(s) \/ Escalate(s)
  PROVE  TInv'
<1>1. RowsTyped /\ InStep
  BY Parts
<1>2. flow.st = "running" => flow.node \in Stages
  BY <1>1 DEF InStep
<1>3. CASE List(s)
  <2>1. /\ UNCHANGED <<task, flow, transfer, overdue, escalated, child, active>>
        /\ listed' = [listed EXCEPT ![s] = flow.node] /\ flow.node \in Stages
    BY <1>2, <1>3 DEF List, work
  <2>2. AroundTyped'
    BY <1>1, <2>1 DEF RowsTyped, AroundTyped
  <2> QED
    BY <2>1, <2>2, BesideKeeps
<1>4. CASE Escalate(s)
  <2>1. listed[s] # "none" /\ listed' = [listed EXCEPT ![s] = "none"] /\ UNCHANGED <<transfer, child, active>>
    BY <1>4 DEF Escalate
  <2>2. listed[s] \in Stages /\ listed' \in [Scanners -> Stages \cup {"none"}]
    BY <1>1, <2>1 DEF RowsTyped, AroundTyped
  <2>3. EscalateFrame
    BY <2>1, <2>2 DEF EscalateFrame
  <2>4. CASE ~IsOpen \/ listed[s] \in escalated \/ Pending
    <3>1. UNCHANGED <<task, flow, overdue, escalated>>
      BY <1>4, <2>4 DEF Escalate, work
    <3>2. AroundTyped'
      BY <1>1, <2>1, <2>2, <3>1 DEF RowsTyped, AroundTyped
    <3> QED
      BY <2>1, <3>1, <3>2, BesideKeeps
  <2>5. CASE /\ IsOpen /\ ~Pending /\ listed[s] \notin escalated /\ listed[s] = "assignment"
    BY <1>4, <2>3, <2>5, EscalateAssignmentKeeps DEF Escalate
  <2>6. CASE /\ IsOpen /\ ~Pending /\ listed[s] \notin escalated /\ listed[s] # "assignment"
    <3>1. EscalateHolder(listed[s]) /\ listed[s] \in Stages \ {"assignment"}
      BY <1>4, <2>2, <2>6 DEF Escalate
    <3> QED
      BY <2>3, <2>6, <3>1, EscalateHolderKeeps
  <2> QED
    BY <2>4, <2>5, <2>6
<1> QED
  BY <1>3, <1>4

-----------------------------------------------------------------------------
(* The theorem.                                                            *)

LEMMA CommonKeeps == ASSUME TInv, Common PROVE TInv'
<1>1. RowsTyped
  BY Parts
<1>2. CASE AddChild \/ CloseChild \/ DropChild \/ BecomesOverdue
  <2>1. UNCHANGED <<task, flow, transfer>>
    BY <1>2 DEF AddChild, CloseChild, DropChild, BecomesOverdue, work
  <2>2. AroundTyped'
    BY <1>1, <1>2 DEF AddChild, CloseChild, DropChild, BecomesOverdue, work, around,
                      RowsTyped, AroundTyped
  <2> QED
    BY <2>1, <2>2, BesideKeeps
<1> QED
  BY <1>2, CancelKeeps, DeleteKeeps DEF Common

LEMMA PersonalKeeps == ASSUME TInv, NEW p \in Staff, Personal(p) PROVE TInv'
<1>1. CASE Disable(p)
  <2>1. UNCHANGED <<task, flow, transfer, overdue, escalated, listed, child>> /\ active' = active \ {p}
    BY <1>1 DEF Disable, work
  <2>2. AroundTyped'
    BY <2>1, Parts DEF RowsTyped, AroundTyped
  <2> QED
    BY <2>1, <2>2, BesideKeeps
<1>2. CASE \E to \in {"doing", "held"} : Progress(p, to) \/ ChangeStatus(p, to)
  BY <1>2, ProgressKeeps
<1>3. CASE \E q \in Staff : Delegate(p, q) \/ RequestTransfer(p, q)
  BY <1>3, DelegateKeeps, RequestTransferKeeps
<1>4. CASE \E office \in SignRoles : Sign(p, office) \/ SignLast(p, office) \/ RefuseTransfer(p, office)
  BY <1>4, SignatureKeeps, SignLastKeeps
<1>5. CASE Claim(p) \/ Assign(p)
  BY <1>5, AssignmentKeeps
<1>6. CASE ApproveDelivery(p) \/ Return(p) \/ RejectDelivery(p)
  BY <1>6, JudgementKeeps
<1>7. CASE Submit(p)
  BY <1>7, SubmitKeeps
<1> QED
  BY <1>1, <1>2, <1>3, <1>4, <1>5, <1>6, <1>7 DEF Personal

LEMMA TaskStarts == TaskInit => TInv
<1> SUFFICES ASSUME TaskInit PROVE TInv
  OBVIOUS
<1>1. PICK r \in Reviewers, k \in Acceptors, a \in Staff \cup {Nobody} :
        LET s == IF a = Nobody THEN "assignment" ELSE "execution" IN
        /\ a \notin {r, k}
        /\ task = [status |-> "pending", stage |-> s, assignee |-> a, reviewer |-> r,
                   acceptor |-> k, revision |-> 1, delivery |-> 0, gone |-> FALSE]
        /\ flow = [st |-> "running", node |-> s, todo |-> Holder(task, s)]
  BY DEF TaskInit
<1> DEFINE s == IF a = Nobody THEN "assignment" ELSE "execution"
<1>2. /\ task.status = "pending" /\ task.stage = s /\ task.assignee = a /\ task.reviewer = r
      /\ task.acceptor = k /\ ~task.gone
  BY <1>1
<1>3. task \in TaskRow
  BY <1>1 DEF TaskRow, Stages, Closed
<1>4. Holder(task, s) = IF a = Nobody THEN Creator ELSE a
  BY <1>2 DEF Holder
<1>5. Holder(task, s) \in Staff
  BY <1>4
<1>6. /\ flow.st = "running" /\ flow.node = s /\ flow.todo = Holder(task, s)
      /\ flow \in FlowRow
  BY <1>1, <1>5 DEF FlowRow, Stages
<1>7. /\ transfer = NoTransfer /\ AroundTyped
  BY DEF TaskInit, AroundTyped
<1>8. transfer \in TransferRow /\ ~Pending
  BY <1>7 DEF NoTransfer, TransferRow, HandOverKinds, Pending
<1>9. RowsTyped
  BY <1>3, <1>6, <1>7, <1>8 DEF RowsTyped
<1>10. InStep
  BY <1>2, <1>5, <1>6 DEF InStep, Closed, Stages
<1>11. PendingIsInPlace /\ NobodyJudgesOwnWork
  BY <1>1, <1>2, <1>8 DEF PendingIsInPlace, NobodyJudgesOwnWork, MayExecute
<1> QED
  BY <1>9, <1>10, <1>11, Parts

LEMMA TaskSteps == TInv /\ [TaskNext]_taskVars => TInv'
<1> SUFFICES ASSUME TInv, [TaskNext]_taskVars PROVE TInv'
  OBVIOUS
<1>1. ASSUME NEW p \in Staff, Personal(p) PROVE TInv'
  BY <1>1, PersonalKeeps
<1>2. CASE Common
  BY <1>2, CommonKeeps
<1>3. ASSUME NEW s \in Scanners, List(s) \/ Escalate(s) PROVE TInv'
  BY <1>3, ScannerKeeps
<1>4. CASE UNCHANGED taskVars
  <2>1. UNCHANGED <<task, flow, transfer, overdue, escalated, listed, child, active>>
    BY <1>4 DEF taskVars
  <2>2. AroundTyped'
    BY <2>1, Parts DEF RowsTyped, AroundTyped
  <2> QED
    BY <2>1, <2>2, BesideKeeps
<1> QED
  BY <1>1, <1>2, <1>3, <1>4 DEF TaskNext

\* Row and flow of a task agree and every open todo is of the person the row names,
\* for any staff, signers and scanners and through any number of hand-overs and
\* escalations (workflow.go, handover.go, timeout.go).
THEOREM TaskAndFlowAgree == TaskSpec => []TaskFollowsFlow
<1>1. TInv => TaskFollowsFlow
  BY DEF TInv
<1> QED
  BY <1>1, TaskStarts, TaskSteps, PTL DEF TaskSpec

\* Nobody reviews or accepts what he executes, whoever signs, delegates or escalates.
THEOREM NobodyIsOwnJudge == TaskSpec => []NobodyJudgesOwnWork
<1>1. TInv => NobodyJudgesOwnWork
  BY DEF TInv
<1> QED
  BY <1>1, TaskStarts, TaskSteps, PTL DEF TaskSpec

-----------------------------------------------------------------------------
(***************************************************************************)
(* What a screen shows.                                                    *)
(***************************************************************************)

\* The revision never goes back, and a step that changes what is shown of an open task counts it.
Shown ==
  /\ task'.revision >= task.revision
  /\ IsOpen /\ IsOpen' /\ task'.revision = task.revision =>
       task'.stage = task.stage /\ task'.delivery = task.delivery

\* The kinds of steps: one counts, one closes the task, one leaves what is shown.
LEMMA CountedIsShown ==
  ASSUME task \in TaskRow, task'.revision = task.revision + 1
  PROVE  Shown
BY DEF Shown, TaskRow

LEMMA ClosedIsShown ==
  ASSUME task \in TaskRow, task'.revision \in {task.revision, task.revision + 1}, ~IsOpen'
  PROVE  Shown
BY DEF Shown, TaskRow

LEMMA UnmovedIsShown ==
  ASSUME task \in TaskRow, task'.revision = task.revision, task'.stage = task.stage,
         task'.delivery = task.delivery
  PROVE  Shown
BY DEF Shown, TaskRow

\* The row with one more field written, and its revision counted.
LEMMA RowCounted ==
  ASSUME NEW t \in TaskRow
  PROVE  /\ [t EXCEPT !.revision = @ + 1].revision = t.revision + 1
         /\ \A stage : [t EXCEPT !.stage = stage, !.revision = @ + 1].revision = t.revision + 1
BY DEF TaskRow

LEMMA RowWritten ==
  ASSUME task \in TaskRow
  PROVE  /\ \A p \in Staff : LET t == [task EXCEPT !.assignee = p]
                             IN  t \in TaskRow /\ t.revision = task.revision
         /\ LET t == [task EXCEPT !.delivery = @ + 1]
            IN  t \in TaskRow /\ t.revision = task.revision
BY DEF TaskRow

LEMMA MoveIsShown ==
  ASSUME task \in TaskRow, NEW t \in TaskRow, t.revision = task.revision,
         NEW stage, Move(t, stage)
  PROVE  Shown
BY RowCounted, CountedIsShown DEF Move

LEMMA EndIsShown ==
  ASSUME task \in TaskRow, NEW s \in Closed, NEW stage \in {"completed", "cancelled", "rejected"}, NEW st,
         \/ End([task EXCEPT !.status = s, !.stage = stage], st)
         \/ End([task EXCEPT !.status = s, !.stage = stage, !.revision = @ + 1], st)
  PROVE  Shown
<1>1. task'.status = s /\ task'.revision \in {task.revision, task.revision + 1}
  BY DEF End, TaskRow
<1>2. ~IsOpen'
  BY <1>1 DEF IsOpen
<1> QED
  BY <1>1, <1>2, ClosedIsShown

LEMMA ActIsShown ==
  ASSUME task \in TaskRow, NEW p \in Staff,
         \/ Claim(p) \/ Assign(p) \/ Submit(p) \/ ApproveDelivery(p) \/ Return(p)
         \/ RejectDelivery(p)
  PROVE  Shown
<1>1. CASE Claim(p) \/ Assign(p)
  BY <1>1, RowWritten, MoveIsShown DEF Claim, Assign
<1>2. CASE Submit(p)
  BY <1>2, RowWritten, MoveIsShown DEF Submit
<1>3. CASE Return(p)
  BY <1>3, MoveIsShown DEF Return
<1>4. CASE ApproveDelivery(p) \/ RejectDelivery(p)
  <2>1. \/ Move(task, "acceptance")
        \/ End([task EXCEPT !.status = "done", !.stage = "completed", !.revision = @ + 1],
               "completed")
        \/ End([task EXCEPT !.status = "cancelled", !.stage = "rejected", !.revision = @ + 1],
               "terminated")
    BY <1>4 DEF ApproveDelivery, RejectDelivery
  <2>2. {"done", "cancelled"} \subseteq Closed
    BY DEF Closed
  <2> QED
    BY <2>1, <2>2, MoveIsShown, EndIsShown
<1> QED
  BY <1>1, <1>2, <1>3, <1>4

LEMMA WorkIsShown ==
  ASSUME task \in TaskRow, InStep, NEW p \in Staff, NEW to \in {"doing", "held"},
         Progress(p, to) \/ ChangeStatus(p, to)
  PROVE  Shown
<1>1. CASE ChangeStatus(p, to)
  <2>1. task' = [task EXCEPT !.status = to]
    BY <1>1 DEF ChangeStatus
  <2> QED
    BY <2>1, UnmovedIsShown DEF TaskRow
<1>2. CASE Progress(p, to)
  <2>1. task' = [task EXCEPT !.status = to, !.stage = flow.node, !.revision = @ + 1]
    BY <1>2 DEF Progress
  <2>2. task'.revision = task.revision + 1
    BY <2>1 DEF TaskRow
  <2> QED
    BY <2>2, CountedIsShown
<1> QED
  BY <1>1, <1>2

LEMMA HandOverIsShown ==
  ASSUME task \in TaskRow, NEW p \in Staff, NEW q \in Staff, NEW office \in SignRoles,
         \/ Delegate(p, q) \/ RequestTransfer(p, q)
         \/ Sign(p, office) \/ SignLast(p, office) \/ RefuseTransfer(p, office)
  PROVE  Shown
<1>1. CASE Sign(p, office)
  BY <1>1, UnmovedIsShown DEF Sign, work
<1>2. CASE RequestTransfer(p, q) \/ RefuseTransfer(p, office)
  BY <1>2, RowCounted, CountedIsShown DEF RequestTransfer, RefuseTransfer
<1>3. CASE Delegate(p, q) \/ SignLast(p, office)
  <2>1. PICK u : task' = [task EXCEPT !.assignee = u, !.revision = @ + 1]
    BY <1>3 DEF Delegate, SignLast, Reassign
  <2>2. task'.revision = task.revision + 1
    BY <2>1 DEF TaskRow
  <2> QED
    BY <2>2, CountedIsShown
<1> QED
  BY <1>1, <1>2, <1>3

LEMMA EscalationIsShown ==
  ASSUME task \in TaskRow, active \subseteq Staff, listed \in [Scanners -> Stages \cup {"none"}],
         NEW s \in Scanners, Escalate(s)
  PROVE  Shown
<1>1. CASE task' = task
  BY <1>1, UnmovedIsShown
<1>2. CASE EscalateAssignment /\ task' # task
  <2>1. PICK next \in Pick({}) :
          next # Nobody /\ Move([task EXCEPT !.assignee = next], "execution")
    BY <1>2 DEF EscalateAssignment, work
  <2>2. next \in Staff
    BY <2>1 DEF Pick
  <2> QED
    BY <2>1, <2>2, RowWritten, MoveIsShown
<1>3. CASE EscalateHolder(listed[s]) /\ task' # task /\ listed[s] \in Stages \ {"assignment"}
  <2>1. PICK next : task' = WithHolder(listed[s], next)
    BY <1>3 DEF EscalateHolder, Reassign, work
  <2>2. PICK stage \in {"execution", "review", "acceptance"} : stage = listed[s]
    BY <1>3 DEF Stages
  <2>3. task'.revision = task.revision /\ task'.stage = task.stage /\ task'.delivery = task.delivery
    BY <2>1, <2>2 DEF WithHolder, TaskRow
  <2> QED
    BY <2>3, UnmovedIsShown
<1> QED
  BY <1>1, <1>2, <1>3 DEF Escalate, work

LEMMA StepIsShown == ASSUME TInv, [TaskNext]_taskVars PROVE Shown
<1>1. task \in TaskRow /\ InStep /\ active \subseteq Staff
      /\ listed \in [Scanners -> Stages \cup {"none"}]
  BY Parts DEF RowsTyped, AroundTyped
<1>2. CASE \E p \in Staff : Personal(p)
  <2>1. PICK p \in Staff : Personal(p)
    BY <1>2
  <2>2. CASE Disable(p)
    BY <1>1, <2>2, UnmovedIsShown DEF Disable, work
  <2> QED
    BY <1>1, <2>1, <2>2, ActIsShown, WorkIsShown, HandOverIsShown DEF Personal, SignRoles
<1>3. CASE Cancel
  <2>1. "cancelled" \in Closed
    BY DEF Closed
  <2> QED
    BY <1>1, <1>3, <2>1, EndIsShown DEF Cancel
<1>4. CASE Delete
  <2>1. task' = [task EXCEPT !.gone = TRUE]
    BY <1>4 DEF Delete
  <2>2. task'.revision = task.revision /\ task'.gone
    BY <1>1, <2>1 DEF TaskRow
  <2> QED
    BY <1>1, <2>2, ClosedIsShown DEF IsOpen
<1>5. CASE \/ AddChild \/ CloseChild \/ DropChild \/ BecomesOverdue \/ UNCHANGED taskVars
           \/ \E s \in Scanners : List(s)
  BY <1>1, <1>5, UnmovedIsShown
  DEF AddChild, CloseChild, DropChild, BecomesOverdue, List, taskVars, work
<1>6. CASE \E s \in Scanners : Escalate(s)
  BY <1>1, <1>6, EscalationIsShown
<1> QED
  BY <1>2, <1>3, <1>4, <1>5, <1>6 DEF TaskNext, Common

\* A decision carries the revision its maker was shown (ActWorkflow): while the task is open
\* every step that changes its stage or the delivery counts the revision, so a decision made
\* on a screen that is out of date is refused, whoever moved the task meanwhile.
THEOREM RevisionsTellTheScreen == TaskSpec => ScreenIsCurrent
<1>1. TInv /\ [TaskNext]_taskVars =>
        [/\ task'.revision >= task.revision
         /\ IsOpen /\ IsOpen' /\ task'.revision = task.revision =>
              task'.stage = task.stage /\ task'.delivery = task.delivery]_taskVars
  BY StepIsShown DEF Shown
<1> QED
  BY <1>1, TaskStarts, TaskSteps, PTL DEF TaskSpec, ScreenIsCurrent

-----------------------------------------------------------------------------
(***************************************************************************)
(* The files of a task.                                                    *)
(***************************************************************************)

\* Each file has one life: it is uploaded, listed by the task, asked to be deleted,
\* and gone; a deletion of the file itself may take it at any time.  What waits to
\* be listed or is listed has its object, unless such a deletion has taken that.
HasObject(f) == f \in object \/ purge[f] # "none"
LifeOf(f) ==
  /\ upload[f] = "idle" => f \notin object \cup meta \cup attached /\ deletion[f] = "none"
  /\ upload[f] = "stored" => f \notin attached /\ deletion[f] = "none" /\ (f \in meta => HasObject(f))
  /\ f \in attached => f \in meta /\ HasObject(f) /\ deletion[f] = "none"
  /\ deletion[f] = "completed" => f \notin object \cup meta

\* A cleaner works on a recorded request, and what it has deleted stays deleted.
CleanerOnTask(x) ==
  LET f == cleaner[x].file IN
  /\ ~Is(x, "idle") => f \in Files /\ deletion[f] # "none"
  /\ Is(x, "deleted") => f \notin object \cup meta

FInv == FileTypeOK /\ (\A f \in Files : LifeOf(f)) /\ (\A x \in Cleaners : CleanerOnTask(x))

CleanerRow == [file : Files \cup {None}, pc : {"idle", "listed", "locked", "deleted"}]

\* A bounded counter that is counted up within its bound.
LEMMA MishapKeeps == FileTypeOK /\ Mishap => mishaps' \in 0..MaxMishaps
BY CleanupAssumption DEF CleanupAssumption, FileTypeOK, Mishap

LEMMA FilesStart == FileInit => FInv
BY CleanupAssumption DEF CleanupAssumption, FileInit, FInv, FileTypeOK, LifeOf, CleanerOnTask, Is, Resting

\* A cleaner that changes its place, and what it has done there.
LEMMA CleanerMoves ==
  ASSUME FileTypeOK, NEW x \in Cleaners, NEW row \in CleanerRow,
         cleaner' = [cleaner EXCEPT ![x] = row]
  PROVE  /\ cleaner' \in [Cleaners -> CleanerRow] /\ cleaner'[x] = row
         /\ \A y \in Cleaners : y # x => cleaner'[y] = cleaner[y]
BY DEF FileTypeOK, CleanerRow

\* The steps of requests leave the cleaners where they are.
LEMMA RequestKeeps ==
  ASSUME FInv, NEW f \in Files,
         StoreUpload(f) \/ Attach(f) \/ Withdraw(f) \/ Forget(f) \/ RequestDeletion(f) \/ Purges(f)
  PROVE  FInv'
<1>1. FileTypeOK /\ \A g \in Files : LifeOf(g)
  BY DEF FInv
<1>2. FileTypeOK'
  <2>1. UNCHANGED <<mutable, cleaner, swings>>
    BY DEF StoreUpload, Attach, Withdraw, Forget, RequestDeletion, Purges, PurgeObject, PurgeRow, PurgeBreaks
  <2>2. mishaps' \in 0..MaxMishaps
    <3>1. mishaps \in 0..MaxMishaps
      BY <1>1 DEF FileTypeOK
    <3>2. mishaps' = mishaps \/ Mishap
      BY DEF StoreUpload, Attach, Withdraw, Forget, RequestDeletion, Purges, PurgeObject, PurgeRow, PurgeBreaks
    <3> QED
      BY <1>1, <3>1, <3>2, MishapKeeps
  <2>3. object' \subseteq Files /\ meta' \subseteq Files /\ attached' \subseteq Files
    BY <1>1 DEF FileTypeOK, StoreUpload, Attach, Withdraw, Forget, RequestDeletion, Purges, PurgeObject, PurgeRow, PurgeBreaks, storage
  <2>4. /\ upload' \in [Files -> {"idle", "stored", "over"}]
        /\ deletion' \in [Files -> {"none", "pending", "completed"}]
        /\ purge' \in [Files -> {"none", "begun", "broken"}]
    BY <1>1 DEF FileTypeOK, StoreUpload, Attach, Withdraw, Forget, RequestDeletion, Purges, PurgeObject, PurgeRow, PurgeBreaks
  <2> QED
    BY <1>1, <2>1, <2>2, <2>3, <2>4 DEF FileTypeOK
<1>3. ASSUME NEW x \in Cleaners PROVE CleanerOnTask(x)'
  <2>1. cleaner' = cleaner
    BY DEF StoreUpload, Attach, Withdraw, Forget, RequestDeletion, Purges, PurgeObject, PurgeRow, PurgeBreaks
  <2>2. CleanerOnTask(x)
    BY DEF FInv
  <2>3. ASSUME ~Is(x, "idle")
        PROVE  cleaner[x].file \in Files /\ deletion[cleaner[x].file] # "none"
    BY <2>2, <2>3 DEF CleanerOnTask
  <2>4. ASSUME NEW g \in Files, deletion[g] # "none" PROVE deletion'[g] # "none"
    BY <1>1, <2>4 DEF FileTypeOK, StoreUpload, Attach, Withdraw, Forget, RequestDeletion, Purges, PurgeObject, PurgeRow, PurgeBreaks
  <2>5. ASSUME NEW g \in Files, deletion[g] # "none", g \notin object \cup meta
        PROVE  g \notin (object \cup meta)'
    BY <1>1, <2>5 DEF LifeOf, StoreUpload, Attach, Withdraw, Forget, RequestDeletion, Purges, PurgeObject, PurgeRow, PurgeBreaks, storage
  <2> QED
    BY <2>1, <2>2, <2>3, <2>4, <2>5 DEF CleanerOnTask, Is
<1>4. ASSUME NEW g \in Files PROVE LifeOf(g)'
  <2>1. LifeOf(g) /\ LifeOf(f)
    BY <1>1
  <2>2. CASE StoreUpload(f)
    BY <1>1, <2>1, <2>2 DEF FileTypeOK, LifeOf, HasObject, StoreUpload
  <2>3. CASE Attach(f)
    BY <1>1, <2>1, <2>3 DEF FileTypeOK, LifeOf, HasObject, Attach, storage
  <2>4. CASE Withdraw(f)
    BY <1>1, <2>1, <2>4 DEF FileTypeOK, LifeOf, HasObject, Withdraw
  <2>5. CASE Forget(f)
    BY <1>1, <2>1, <2>5 DEF FileTypeOK, LifeOf, HasObject, Forget, storage
  <2>6. CASE RequestDeletion(f)
    BY <1>1, <2>1, <2>6 DEF FileTypeOK, LifeOf, HasObject, RequestDeletion, storage
  <2>7. CASE PurgeObject(f)
    BY <1>1, <2>1, <2>7 DEF FileTypeOK, LifeOf, HasObject, PurgeObject
  <2>8. CASE PurgeRow(f)
    BY <1>1, <2>1, <2>8 DEF FileTypeOK, LifeOf, HasObject, PurgeRow
  <2>9. CASE PurgeBreaks(f)
    BY <1>1, <2>1, <2>9 DEF FileTypeOK, LifeOf, HasObject, PurgeBreaks, storage
  <2> QED
    BY <2>2, <2>3, <2>4, <2>5, <2>6, <2>7, <2>8, <2>9 DEF Purges
<1> QED
  BY <1>2, <1>3, <1>4 DEF FInv

\* A step of a cleaner takes nothing away but of the file it works on, and adds
\* nothing.
LEMMA CleaningKeeps ==
  ASSUME FInv, NEW x \in Cleaners, NEW row \in CleanerRow, NEW f \in Files,
         cleaner' = [cleaner EXCEPT ![x] = row],
         UNCHANGED <<mutable, upload, attached, purge, swings>>,
         mishaps' \in 0..MaxMishaps,
         deletion[f] # "none",
         object' \in {object, object \ {f}}, meta' \in {meta, meta \ {f}},
         \/ deletion' = deletion
         \/ deletion' = [deletion EXCEPT ![f] = "completed"] /\ f \notin object \cup meta,
         row.pc # "idle" => row.file = f,
         row.pc = "deleted" => f \notin (object \cup meta)'
  PROVE  FInv'
<1>1. FileTypeOK /\ (\A g \in Files : LifeOf(g)) /\ (\A y \in Cleaners : CleanerOnTask(y))
  BY DEF FInv
<1>2. /\ cleaner' \in [Cleaners -> CleanerRow] /\ cleaner'[x] = row
      /\ \A y \in Cleaners : y # x => cleaner'[y] = cleaner[y]
  BY <1>1, CleanerMoves
<1>3. /\ deletion' \in [Files -> {"none", "pending", "completed"}]
      /\ \A g \in Files : deletion[g] # "none" => deletion'[g] # "none"
      /\ \A g \in Files : deletion'[g] # "none" => deletion[g] # "none"
      /\ \A g \in Files : deletion'[g] = "completed" => deletion[g] = "completed" \/ g \notin object \cup meta
  BY <1>1 DEF FileTypeOK
<1>4. /\ object' \subseteq object /\ meta' \subseteq meta
      /\ \A g \in Files : g # f => (g \in object' <=> g \in object) /\ (g \in meta' <=> g \in meta)
  OBVIOUS
<1>5. FileTypeOK'
  BY <1>1, <1>2, <1>3, <1>4 DEF FileTypeOK, CleanerRow
<1>6. ASSUME NEW g \in Files PROVE LifeOf(g)'
  <2>1. LifeOf(g)
    BY <1>1
  <2>2. CASE g = f
    <3>1. g \notin attached /\ upload[g] \notin {"idle", "stored"}
      BY <2>1, <2>2 DEF LifeOf
    <3> QED
      BY <1>3, <1>4, <2>1, <2>2, <3>1 DEF LifeOf, HasObject
  <2>3. CASE g # f
    BY <1>3, <1>4, <2>1, <2>3 DEF LifeOf, HasObject
  <2> QED
    BY <2>2, <2>3
<1>7. ASSUME NEW y \in Cleaners PROVE CleanerOnTask(y)'
  <2>1. CASE y = x
    BY <1>2, <1>3, <2>1 DEF CleanerOnTask, Is
  <2>2. CASE y # x
    <3>1. CleanerOnTask(y) /\ cleaner'[y] = cleaner[y]
      BY <1>1, <1>2, <2>2
    <3> QED
      BY <1>3, <1>4, <3>1 DEF CleanerOnTask, Is
  <2> QED
    BY <2>1, <2>2
<1> QED
  BY <1>5, <1>6, <1>7 DEF FInv

LEMMA RestingRow == Resting \in CleanerRow /\ Resting.pc = "idle"
BY DEF Resting, CleanerRow

LEMMA ListKeeps ==
  ASSUME FInv, NEW x \in Cleaners, NEW f \in Files, ListPending(x, f)
  PROVE  FInv'
<1>1. /\ deletion[f] = "pending"
      /\ cleaner' = [cleaner EXCEPT ![x] = [file |-> f, pc |-> "listed"]]
      /\ UNCHANGED <<mutable, upload, object, meta, attached, deletion, purge, swings, mishaps>>
  BY DEF ListPending, GoesOn, storage
<1>2. mishaps' \in 0..MaxMishaps
  BY <1>1 DEF FInv, FileTypeOK
<1>3. [file |-> f, pc |-> "listed"] \in CleanerRow
  BY DEF CleanerRow
<1> QED
  BY <1>1, <1>2, <1>3, CleaningKeeps

LEMMA CleanerKeeps ==
  ASSUME FInv, NEW x \in Cleaners, Cleans(x) \/ DeleteFails(x) \/ CleanerDies(x)
  PROVE  FInv'
<1> DEFINE f == cleaner[x].file
<1>1. CleanerOnTask(x) /\ FileTypeOK
  BY DEF FInv
<1>2. ~Is(x, "idle")
  BY DEF Cleans, LockRequest, DeleteStored, Complete, DeleteFails, CleanerDies, Is
<1>3. f \in Files /\ deletion[f] # "none"
  BY <1>1, <1>2 DEF CleanerOnTask
<1>4. mishaps \in 0..MaxMishaps /\ UNCHANGED <<mutable, upload, attached, purge, swings>>
  BY <1>1 DEF FileTypeOK, Cleans, LockRequest, DeleteStored, Complete, DeleteFails, CleanerDies
<1>5. mishaps' \in 0..MaxMishaps
  <2>1. mishaps' = mishaps \/ Mishap
    BY DEF Cleans, LockRequest, DeleteStored, Complete, DeleteFails, CleanerDies
  <2> QED
    BY <1>1, <1>4, <2>1, MishapKeeps
<1>6. [file |-> f, pc |-> "locked"] \in CleanerRow /\ [file |-> f, pc |-> "deleted"] \in CleanerRow
  BY <1>3 DEF CleanerRow
<1>7. CASE LockRequest(x)
  <2>1. UNCHANGED <<object, meta, deletion>>
    BY <1>7 DEF LockRequest, storage
  <2>2. CASE cleaner' = [cleaner EXCEPT ![x] = Resting]
    BY <1>3, <1>4, <1>5, <2>1, <2>2, RestingRow, CleaningKeeps
  <2>3. CASE cleaner' = [cleaner EXCEPT ![x] = [file |-> f, pc |-> "locked"]]
    BY <1>3, <1>4, <1>5, <1>6, <2>1, <2>3, CleaningKeeps
  <2> QED
    BY <1>7, <2>2, <2>3 DEF LockRequest, Rests, GoesOn
<1>8. CASE DeleteStored(x)
  <2>1. /\ object' = object \ {f} /\ meta' = meta \ {f} /\ deletion' = deletion
        /\ cleaner' = [cleaner EXCEPT ![x] = [file |-> f, pc |-> "deleted"]]
    BY <1>8 DEF DeleteStored, GoesOn
  <2> QED
    BY <1>3, <1>4, <1>5, <1>6, <2>1, CleaningKeeps
<1>9. CASE Complete(x)
  <2>1. /\ Is(x, "deleted") /\ deletion' = [deletion EXCEPT ![f] = "completed"]
        /\ cleaner' = [cleaner EXCEPT ![x] = Resting] /\ UNCHANGED <<object, meta>>
    BY <1>9 DEF Complete, Rests, storage
  <2>2. f \notin object \cup meta
    BY <1>1, <2>1 DEF CleanerOnTask
  <2> QED
    BY <1>3, <1>4, <1>5, <2>1, <2>2, RestingRow, CleaningKeeps
<1>10. CASE DeleteFails(x)
  <2>1. /\ object' \in {object, object \ {f}} /\ UNCHANGED <<meta, deletion>>
        /\ cleaner' = [cleaner EXCEPT ![x] = Resting]
    BY <1>10 DEF DeleteFails, Rests
  <2> QED
    BY <1>3, <1>4, <1>5, <2>1, RestingRow, CleaningKeeps
<1>11. CASE CleanerDies(x)
  <2>1. cleaner' = [cleaner EXCEPT ![x] = Resting] /\ UNCHANGED <<object, meta, deletion>>
    BY <1>11 DEF CleanerDies, Rests, storage
  <2> QED
    BY <1>3, <1>4, <1>5, <2>1, RestingRow, CleaningKeeps
<1> QED
  BY <1>7, <1>8, <1>9, <1>10, <1>11 DEF Cleans

LEMMA FileSteps == FInv /\ [FileNext]_fileVars => FInv'
<1> SUFFICES ASSUME FInv, [FileNext]_fileVars PROVE FInv'
  OBVIOUS
<1>1. CASE Swing \/ UNCHANGED fileVars
  <2>1. UNCHANGED <<upload, object, meta, attached, deletion, purge, cleaner>>
    BY <1>1 DEF Swing, storage, fileVars
  <2>2. FileTypeOK'
    <3>1. FileTypeOK
      BY DEF FInv
    <3>2. mutable' \in BOOLEAN /\ mishaps' \in 0..MaxMishaps
      BY <1>1, <3>1 DEF Swing, fileVars, FileTypeOK
    <3>3. swings' \in 0..MaxSwings
      BY <1>1, <3>1, CleanupAssumption DEF CleanupAssumption, Swing, fileVars, FileTypeOK
    <3> QED
      BY <2>1, <3>1, <3>2, <3>3 DEF FileTypeOK
  <2> QED
    BY <2>1, <2>2 DEF FInv, LifeOf, HasObject, CleanerOnTask, Is
<1> QED
  BY <1>1, RequestKeeps, ListKeeps, CleanerKeeps DEF FileNext

\* What a task lists has its row and its object, unless the file itself is being
\* deleted, and what is reported deleted is gone, with any number of processes that
\* clean up and whatever fails (attachment_upload.go, attachment_delete.go, query.go).
THEOREM ListedFilesAreThere == FileSpec => []ListedFilesExist
<1>1. FInv => ListedFilesExist
  <2> SUFFICES ASSUME FInv PROVE ListedFilesExist
    OBVIOUS
  <2>1. FileTypeOK /\ \A f \in Files : LifeOf(f)
    BY DEF FInv
  <2>2. ASSUME NEW f \in attached PROVE f \in meta /\ (f \in object \/ purge[f] # "none")
    BY <2>1, <2>2 DEF LifeOf, HasObject, FileTypeOK
  <2>3. ASSUME NEW f \in Files, deletion[f] = "completed"
        PROVE  f \notin object \cup meta \cup attached
    <3>1. LifeOf(f)
      BY <2>1
    <3> QED
      BY <2>3, <3>1 DEF LifeOf
  <2> QED
    BY <2>1, <2>2, <2>3 DEF ListedFilesExist
<1> QED
  BY <1>1, FilesStart, FileSteps, PTL DEF FileSpec
=============================================================================
