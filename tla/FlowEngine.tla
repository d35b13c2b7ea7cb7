------------------------------ MODULE FlowEngine ------------------------------
(***************************************************************************)
(* One approval-flow instance driven by internal/workflow/engine.          *)
(*                                                                         *)
(* Every operation of this module takes the row lock of the instance       *)
(* (transaction.go, repo/runtime_repo.go) and works on uncommitted rows:   *)
(* `db` is what is committed; while `held`, `work` is what the transaction *)
(* that holds the lock sees.  An operation that moves the flow on leaves   *)
(* arrivals in `queue`; each turn of the loop in execution.go is one step, *)
(* Commit ends it and Abort (an error, a cancelled context, a crash)       *)
(* throws the uncommitted rows away.                                       *)
(***************************************************************************)
EXTENDS ApprovalRule, FiniteSets, Sequences, Functions

CONSTANTS
  Users, Initiator,
  Nodes,
  Kind,        \* node |-> its type in the published graph
  Out,         \* node |-> its successors, in the order of the edge list
  Rank,        \* node |-> its place in the sorted current_node_ids
  Rule,        \* approval node |-> approvalType and passRatio
  Staffing,    \* approval node |-> the assignee sets resolveAssignees may find
  Fallback,    \* approval node |-> the sets the fallback role may hold
  Escalates,   \* approval nodes that fallbackAssignees tries to hand over
  MaySkip,     \* approval nodes whose empty-assignee policy lets them be skipped
  SkipVars,    \* approval nodes with a skip variable (skipApplicationApproval)
  AssignedOnly,\* approval nodes of the standing committee: no minted tasks
  MayTransfer, \* approval nodes with allowTransfer
  Reviewers,   \* approval node |-> users engineReviewAccess lets through, not the applicant
  Protected,   \* TRUE for a member application, FALSE for a generic flow
  MaxTurns,    \* turns of one walk before executeFromNodes gives up (1000)
  MaxRounds, MaxHops,   \* bounds: activations per instance, tasks per person and round
  NoNode

Approvals == {n \in Nodes : Kind[n] = "approval"}
Preds(n) == {p \in Nodes : n \in Range(Out[p])}
Joins == {n \in Nodes : Kind[n] = "parallel_gateway" /\ Cardinality(Preds(n)) >= 2}
JoinEdges == {e \in Nodes \X Nodes : e[2] \in Joins /\ e[1] \in Preds(e[2])}

\* The nodes reached from S in any number of steps that start inside `through`.
Reach(S, through) ==
  LET next(T) == T \cup UNION {Range(Out[k]) : k \in T \cap through}
      reach[i \in 0..Cardinality(Nodes)] == IF i = 0 THEN S ELSE next(reach[i - 1])
  IN  reach[Cardinality(Nodes)]

\* What ValidateGraph lets be published, with the sources' other configuration.
ASSUME GraphAssumption ==
  /\ IsFiniteSet(Users) /\ IsFiniteSet(Nodes)
  /\ Initiator \in Users /\ NoNode \notin Nodes
  /\ Kind \in [Nodes -> {"start", "end", "approval", "exclusive_gateway",
                         "parallel_gateway", "task"}]
  /\ Out \in [Nodes -> Seq(Nodes)]
  /\ \E n \in Nodes : Kind[n] = "start" /\ Reach({n}, Nodes) = Nodes
  /\ \A m, n \in Nodes : Kind[m] = "start" /\ Kind[n] = "start" => m = n
  /\ \A n \in Nodes : Kind[n] = "end" <=> Out[n] = <<>>
  /\ \A n \in Nodes : Len(Out[n]) > 1 => Kind[n] \in {"exclusive_gateway", "parallel_gateway"}
  /\ \A n \in Nodes \ Approvals : n \notin Reach(Range(Out[n]), Nodes \ Approvals)
  /\ Rank \in [Nodes -> Nat]
  /\ Rule \in [Approvals -> ValidRule]
  /\ Staffing \in [Approvals -> SUBSET SUBSET Users]
  /\ Fallback \in [Approvals -> SUBSET SUBSET Users]
  /\ Reviewers \in [Approvals -> SUBSET (Users \ {Initiator})]
  /\ Protected \in BOOLEAN
  /\ Escalates \subseteq MaySkip /\ MaySkip \cup SkipVars \subseteq Approvals
  /\ MaxTurns \in Nat /\ MaxRounds \in Nat /\ MaxHops \in Nat

StartNode == CHOOSE n \in Nodes : Kind[n] = "start"

VARIABLES db, held, work, queue, turns
vars == <<db, held, work, queue, turns>>

Status == {"absent", "running", "completed", "terminated", "suspended"}
Live == {"running", "suspended"}
Ended == {"completed", "terminated"}
TaskState == {"pending", "approved", "rejected", "transferred", "withdrawn", "cancelled"}
Counted == {"pending", "approved", "rejected"}

\* flow_tasks: `round` is the activation, `nth` tells apart the tasks one person
\* held in it (the row id).
Task == [node : Approvals, round : Nat, who : Users, nth : Nat, st : TaskState]
\* flow_histories, as far as a later step reads it or a closed round is explained by it.
Note == [action : {"rollback", "skip"}, node : Approvals, round : Nat]
Instance == [status : Status, current : SUBSET Nodes, tokens : [JoinEdges -> Nat],
             rounds : Nat, tasks : SUBSET Task, notes : SUBSET Note]
Arrival == [node : Nodes, from : Nodes \cup {NoNode}]

Pending(s) == {t \in s.tasks : t.st = "pending"}
OpenRounds(s) == {t.round : t \in Pending(s)}
PendingAt(s, n) == {t \in Pending(s) : t.node = n}
Round(s, t) == {u \in s.tasks : u.node = t.node /\ u.round = t.round}
Votes(R, st) == Cardinality({t \in R : t.st = st})

RoundPasses(R, n) == Passes(Rule[n], Votes(R, "approved"), Votes(R, "rejected"), Votes(R, "pending"))
RoundImpossible(R, n) == Impossible(Rule[n], Votes(R, "approved"), Votes(R, "rejected"), Votes(R, "pending"))

\* The approval node business operations act on: the first active one.
IsCurrentApproval(s, n) ==
  /\ n \in s.current \cap Approvals
  /\ \A m \in s.current \cap Approvals : Rank[n] <= Rank[m]

SetState(t, st) == [t EXCEPT !.st = st]

\* Rows T of the instance change their status.
Close(s, T, st) == [s EXCEPT !.tasks = (@ \ T) \cup {SetState(t, st) : t \in T}]

\* cancelPendingTasks and cancelNodePendingTasks.
CancelAll(s) == Close(s, Pending(s), "cancelled")
CancelAt(s, n) == Close(s, PendingAt(s, n), "cancelled")

\* terminateInstance.
Terminated(s) == [CancelAll(s) EXCEPT !.status = "terminated", !.current = {}]

\* A further task row for v in the round of t.
NextTask(s, t, v) ==
  [node |-> t.node, round |-> t.round, who |-> v, st |-> "pending",
   nth |-> Cardinality({u \in Round(s, t) : u.who = v})]

Arrivals(n) == [i \in 1..Len(Out[n]) |-> [node |-> Out[n][i], from |-> n]]

-------------------------------------------------------------------------------
(* How an operation ends: by itself, or by handing arrivals to the loop.   *)

Save(s) == db' = s /\ work' = s /\ UNCHANGED <<held, queue, turns>>
Run(s, q) == held' = TRUE /\ work' = s /\ queue' = q /\ turns' = 0 /\ UNCHANGED db

\* executeNode on an approval, then updateCurrentNodes without it.
LeaveNode(s, n) == Run([s EXCEPT !.current = @ \ {n}], Arrivals(n))

Locked(S) == ~held /\ db.status \in S

Empty == [status |-> "absent", current |-> {}, tokens |-> [e \in JoinEdges |-> 0],
          rounds |-> 0, tasks |-> {}, notes |-> {}]

Init == db = Empty /\ held = FALSE /\ work = Empty /\ queue = <<>> /\ turns = 0

\* engine.go start: the instance row and the walk from the start node are one
\* transaction; a failed start leaves nothing behind.
Start ==
  /\ Locked({"absent"})
  /\ Run([db EXCEPT !.status = "running"], <<[node |-> StartNode, from |-> NoNode]>>)

-------------------------------------------------------------------------------
(* The loop of executeFromNodes, one arrival at a time.                    *)

Moving(n) == held /\ queue # <<>> /\ Head(queue).node = n /\ turns < MaxTurns

\* Faulty: the turns of the loop are not counted.
PassOnUncounted(s, next) ==
  work' = s /\ queue' = Tail(queue) \o next /\ UNCHANGED <<db, held, turns>>

\* The handler runs and its successors join the queue.
PassOn(s, next) ==
  work' = s /\ queue' = Tail(queue) \o next /\ turns' = turns + 1 /\ UNCHANGED <<db, held>>
\* The node waits: it is active and nothing follows from it yet.
Wait(s, n) == PassOn([s EXCEPT !.current = @ \cup {n}], <<>>)
Deleted(s, n) == [s EXCEPT !.current = @ \ {n}]

\* start, service and notification nodes: one successor.  (An end node has none.)
PassNode(n) ==
  /\ Moving(n) /\ Kind[n] \in {"start", "task", "end"}
  /\ PassOn(Deleted(work, n), Arrivals(n))

\* ExclusiveGatewayNode.Execute: the branch expressions pick one edge.
Branch(n) ==
  /\ Moving(n) /\ Kind[n] = "exclusive_gateway"
  /\ \E i \in DOMAIN Out[n] :
       PassOn(Deleted(work, n), <<[node |-> Out[n][i], from |-> n]>>)

\* ParallelGatewayNode.Execute behind fewer than two predecessors.
Fork(n) ==
  /\ Moving(n) /\ Kind[n] = "parallel_gateway" /\ n \notin Joins
  /\ PassOn(Deleted(work, n), Arrivals(n))

Arrived(s, e) == [s.tokens EXCEPT ![e] = @ + 1]
\* Faulty: one branch is enough.
AnyIn(tokens, n) == \E p \in Preds(n) : tokens[<<p, n>>] >= 1
AllIn(tokens, n) == \A p \in Preds(n) : tokens[<<p, n>>] >= 1
Released(tokens, n) == [e \in JoinEdges |-> IF e[2] = n THEN tokens[e] - 1 ELSE tokens[e]]

\* arriveParallelJoin: a token for the branch that came; the join fires once
\* every predecessor has one.
ArriveAtJoin(n) ==
  /\ Moving(n) /\ n \in Joins
  /\ LET from == Head(queue).from
         tokens == Arrived(work, <<from, n>>)
         s == [Deleted(work, n) EXCEPT !.tokens = tokens]
     IN  /\ from \in Preds(n)
         /\ \/ ~AllIn(tokens, n) /\ Wait(s, n)
            \/ AllIn(tokens, n) /\ PassOn([s EXCEPT !.tokens = Released(tokens, n)], Arrivals(n))

\* eligibleAssignees: the applicant never signs their own application.
Eligible(S) == IF Protected THEN S \ {Initiator} ELSE S

\* ApprovalNode.OnEnter with assignees A: one pending task each, in a new round.
OpenRound(s, n, A) ==
  [s EXCEPT !.rounds = @ + 1,
            !.tasks = @ \cup {[node |-> n, round |-> s.rounds + 1, who |-> u,
                               nth |-> 0, st |-> "pending"] : u \in A}]

StaffedBy(n, A) ==
  /\ work.rounds < MaxRounds
  /\ Rule[n].kind = "single" => Cardinality(A) = 1
  /\ Wait(OpenRound(work, n, A), n)

\* Faulty: a hand-over to a role nobody holds counts as one.
EnterUnstaffed(n) ==
  /\ Moving(n) /\ Kind[n] = "approval" /\ n \notin work.current
  /\ \E S \in Staffing[n], F \in Fallback[n] :
       \/ Eligible(S) # {} /\ StaffedBy(n, Eligible(S))
       \/ Eligible(S) = {} /\ n \in Escalates /\ StaffedBy(n, Eligible(F))

\* An arrival at an approval node that is already active is an error.
EnterApproval(n) ==
  /\ Moving(n) /\ Kind[n] = "approval" /\ n \notin work.current
  /\ \E S \in Staffing[n], F \in Fallback[n] :
       \/ Eligible(S) # {} /\ StaffedBy(n, Eligible(S))
       \/ /\ Eligible(S) = {} /\ n \in Escalates /\ F # {}
          /\ StaffedBy(n, Eligible(F))
       \/ /\ Eligible(S) = {} /\ (n \notin Escalates \/ F = {}) /\ n \in MaySkip
          /\ PassOn(work, Arrivals(n))

\* skipApplicationApproval: a truthy skip variable passes the node through.
PassApproval(n) ==
  /\ Moving(n) /\ n \in SkipVars /\ n \notin work.current
  /\ PassOn(work, Arrivals(n))

\* The end of the loop, completeInstance and the commit.  With a pending task
\* left, completeInstance refuses and only Abort remains.
Commit ==
  /\ held /\ queue = <<>> /\ held' = FALSE /\ turns' = 0 /\ UNCHANGED queue
  /\ \/ work.current # {} /\ work' = work
     \/ /\ work.current = {} /\ Pending(work) = {}
        /\ work' = [work EXCEPT !.status = "completed"]
  /\ db' = work'

\* Faulty: the next transaction starts from the rows of the one rolled back.
AbortKeepsRows == held /\ held' = FALSE /\ queue' = <<>> /\ turns' = 0 /\ UNCHANGED <<db, work>>

Abort == held /\ held' = FALSE /\ work' = db /\ queue' = <<>> /\ turns' = 0 /\ UNCHANGED db

-------------------------------------------------------------------------------
(* Votes.                                                                  *)

\* Faulty: the votes still out are not counted.
ResolveEarly(s, t, forced) ==
  LET R == Round(s, t)
      C == {u \in R : u.st # "pending"}
  IN
  \/ RoundPasses(C, t.node) /\ LeaveNode(Close(s, R \cap Pending(s), "cancelled"), t.node)
  \/ ~RoundPasses(C, t.node) /\ Save(IF RoundImpossible(R, t.node) THEN Terminated(s) ELSE s)

\* Faulty: a passed round leaves its other tasks open.
ResolveOneTask(s, t, forced) ==
  LET R == Round(s, t) IN
  \/ RoundPasses(R, t.node) /\ LeaveNode(s, t.node)
  \/ ~RoundPasses(R, t.node) /\ (RoundImpossible(R, t.node) \/ forced) /\ Save(Terminated(s))
  \/ ~RoundPasses(R, t.node) /\ ~RoundImpossible(R, t.node) /\ ~forced /\ Save(s)

\* Faulty: a passed round closes the tasks of every node.
ResolveEverywhere(s, t, forced) ==
  LET R == Round(s, t) IN
  \/ RoundPasses(R, t.node) /\ LeaveNode(CancelAll(s), t.node)
  \/ ~RoundPasses(R, t.node) /\ (RoundImpossible(R, t.node) \/ forced) /\ Save(Terminated(s))
  \/ ~RoundPasses(R, t.node) /\ ~RoundImpossible(R, t.node) /\ ~forced /\ Save(s)

\* completeTask from the saved verdict on: resolveApproval, then stop the
\* instance, wait for more votes, or move on.  `forced` is the business rule
\* that one rejection ends the flow (CompleteApplicationApproval).
Resolve(s, t, forced) ==
  LET R == Round(s, t) IN
  \/ RoundPasses(R, t.node) /\ LeaveNode(Close(s, R \cap Pending(s), "cancelled"), t.node)
  \/ ~RoundPasses(R, t.node) /\ (RoundImpossible(R, t.node) \/ forced) /\ Save(Terminated(s))
  \/ ~RoundPasses(R, t.node) /\ ~RoundImpossible(R, t.node) /\ ~forced /\ Save(s)

\* CompleteTask with approve or reject, by the assignee.
Vote(t, verdict) ==
  /\ ~Protected /\ Locked({"running"}) /\ t \in Pending(db)
  /\ Resolve(Close(db, {t}, verdict), t, FALSE)

\* CompleteTask with withdraw, by the initiator.
Withdraw(t) ==
  /\ ~Protected /\ Locked({"running"}) /\ t \in Pending(db)
  /\ Save(Terminated(Close(db, {t}, "withdrawn")))

\* CompleteApplicationApproval: u votes on their own task, or, outside the
\* committee, on a task minted for them in the open round.
Review(n, u, verdict) ==
  /\ Protected /\ Locked({"running"}) /\ IsCurrentApproval(db, n) /\ u \in Reviewers[n]
  /\ \/ \E t \in PendingAt(db, n) :
          t.who = u /\ Resolve(Close(db, {t}, verdict), t, verdict = "rejected")
     \/ /\ n \notin AssignedOnly /\ \A t \in PendingAt(db, n) : t.who # u
        /\ \E ref \in PendingAt(db, n) :
             LET t == NextTask(db, ref, u)
                 minted == [db EXCEPT !.tasks = @ \cup {SetState(t, verdict)}]
             IN  t.nth < MaxHops /\ Resolve(minted, t, verdict = "rejected")

-------------------------------------------------------------------------------
(* Hand-overs, returns and the instance life cycle.                        *)

\* Faulty: whoever has voted may be handed a second vote.
TransferAnyone(t, v) ==
  /\ NextTask(db, t, v).nth < MaxHops
  /\ LET s == Close(db, {t}, "transferred")
     IN  Save([s EXCEPT !.tasks = @ \cup {NextTask(db, t, v)}])

\* transferPendingTask: the receiver must not count in this round already.
Transfer(t, v) ==
  /\ \A u \in Round(db, t) \ {t} : u.who = v => u.st \notin Counted
  /\ NextTask(db, t, v).nth < MaxHops
  /\ LET s == Close(db, {t}, "transferred")
     IN  Save([s EXCEPT !.tasks = @ \cup {NextTask(db, t, v)}])

\* TransferTask.
TransferTask(t, v) ==
  /\ ~Protected /\ Locked({"running"}) /\ t \in Pending(db) /\ v # t.who
  /\ Transfer(t, v)

\* TransferApplicationApproval: the caller's own open task, or else any.
TransferApplication(n, u, v) ==
  /\ Protected /\ Locked({"running"}) /\ IsCurrentApproval(db, n)
  /\ u \in Reviewers[n] /\ n \in MayTransfer /\ v # u
  /\ LET own == {t \in PendingAt(db, n) : t.who = u}
     IN  \E t \in IF own # {} THEN own ELSE PendingAt(db, n) : Transfer(t, v)

Precedes(m, n) == n \in Reach({m}, Nodes)

\* RollbackTask: every open task is cancelled and the target entered again.
RollbackTask(t, target) ==
  /\ ~Protected /\ Locked({"running"}) /\ t \in Pending(db)
  /\ target \in Approvals \ {t.node} /\ Precedes(target, t.node)
  /\ db.current = {t.node}
  /\ \E a \in db.tasks : a.node = target /\ a.st = "approved"
  /\ Run([CancelAll(db) EXCEPT !.current = {},
            !.notes = @ \cup {[action |-> "rollback", node |-> t.node, round |-> t.round]}],
         <<[node |-> target, from |-> NoNode]>>)

\* Faulty: the tasks are cancelled and nothing is put on record.
SkipSilently(n) ==
  /\ Protected /\ Locked({"running"}) /\ IsCurrentApproval(db, n)
  /\ LeaveNode(CancelAt(db, n), n)

\* SkipApplicationApproval.
SkipApplication(n) ==
  /\ Protected /\ Locked({"running"}) /\ IsCurrentApproval(db, n)
  /\ LET s == CancelAt(db, n)
         skipped == {[action |-> "skip", node |-> n, round |-> t.round] : t \in PendingAt(db, n)}
     IN  LeaveNode([s EXCEPT !.notes = @ \cup skipped], n)

\* Faulty: the status of the instance is not looked at.
TerminateAnyStatus == Locked(Status \ {"absent"}) /\ Save(Terminated(db))

Terminate == Locked(Live) /\ Save(Terminated(db))
Suspend == ~Protected /\ Locked({"running"}) /\ Save([db EXCEPT !.status = "suspended"])
Resume == ~Protected /\ Locked({"suspended"}) /\ Save([db EXCEPT !.status = "running"])

-------------------------------------------------------------------------------
Walk == \E n \in Nodes :
  \/ PassNode(n) \/ Branch(n) \/ Fork(n) \/ ArriveAtJoin(n)
  \/ EnterApproval(n) \/ PassApproval(n)

GenericTask == \E t \in db.tasks :
  \/ \E verdict \in {"approved", "rejected"} : Vote(t, verdict)
  \/ Withdraw(t)
  \/ \E v \in Users : TransferTask(t, v)
  \/ \E target \in Approvals : RollbackTask(t, target)

Application == \E n \in Approvals :
  \/ SkipApplication(n)
  \/ \E u \in Users, verdict \in {"approved", "rejected"} : Review(n, u, verdict)
  \/ \E u, v \in Users : TransferApplication(n, u, v)

Next == Start \/ Walk \/ Commit \/ Abort \/ GenericTask \/ Application
          \/ Terminate \/ Suspend \/ Resume

Spec == Init /\ [][Next]_vars

\* The transaction that holds the lock keeps executing: the loop takes its next
\* turn, commits, or returns an error that rolls it back.  Nobody has to vote.
FairSpec == Spec /\ WF_vars(Walk \/ Commit \/ Abort)

-------------------------------------------------------------------------------
(* Properties.                                                             *)

\* The variables hold rows of the declared shapes; between transactions the
\* working copy is the committed one (transaction.go: bound repositories).
TypeOK ==
  /\ db \in Instance /\ work \in Instance
  /\ held \in BOOLEAN /\ queue \in Seq(Arrival) /\ turns \in 0..MaxTurns
  /\ ~held => work = db /\ queue = <<>> /\ turns = 0

\* Every open task belongs to a node the instance is at, and an instance that
\* has ended has no open task (lifecycle.go: terminateInstance cancels them,
\* completeInstance refuses to leave one behind).
WorkIsActive == \A t \in Pending(db) : db.status \in Live /\ t.node \in db.current

\* A node collects one round of votes at a time: its open tasks share an
\* activation, and that is the newest round of the node.  resolveApproval
\* closes only that group (approval.go), and execution.go refuses to enter an
\* active approval again.
OneOpenRound == \A t \in Pending(db), u \in db.tasks : u.node = t.node => u.round <= t.round

\* Nobody is counted twice in a round, whatever was transferred to and fro
\* (task_operations.go, transferPendingTask).
OnePersonOneVote ==
  \A t, u \in db.tasks : t.who = u.who /\ t.node = u.node /\ t.round = u.round
                           /\ {t.st, u.st} \subseteq Counted => t = u

\* An open round is undecided: votes that settle it close it in the same
\* transaction (task.go, completeTask after resolveApproval).
OpenRoundsAreUndecided ==
  \A t \in Pending(db) : ~RoundPasses(Round(db, t), t.node) /\ ~RoundImpossible(Round(db, t), t.node)

\* The tasks a passed round cancelled were votes still out when it passed.
HadPassed(R, n) == Passes(Rule[n], Votes(R, "approved"), Votes(R, "rejected"),
                          Votes(R, "pending") + Votes(R, "cancelled"))

\* A round still collects votes.
IsOpen(R) == \E t \in R : t.st = "pending"

\* There is a reason on record for the flow to have gone on past the round of a
\* task: it had passed with all its votes counted, was sent back or skipped, or
\* ended the flow (approval.go, resolveApproval).
IsClosed(s, t) ==
  \/ HadPassed(Round(s, t), t.node)
  \/ \E h \in s.notes : h.node = t.node /\ h.round = t.round
  \/ s.status = "terminated"
IsExplained(t) == IsOpen(Round(db, t)) \/ IsClosed(db, t)

ClosedRoundsAreExplained == \A t \in db.tasks : IsExplained(t)

\* A round is open as long as its votes leave it undecided, and no longer.
RoundsFollowTheRule == OpenRoundsAreUndecided /\ ClosedRoundsAreExplained

\* A running instance waits for somebody: execution.go leaves a node active
\* only for an approval with open tasks or a join with a branch still out.
SomebodyCanAct == db.status \in Live => Pending(db) # {}

\* An approval the instance waits at has an open task (ApprovalNode.OnEnter).
ActiveApprovalsAreStaffed ==
  db.status \in Live => \A n \in db.current \cap Approvals : PendingAt(db, n) # {}

\* The rounds of a node, and those that had passed.
RoundsAt(s, n) == {t.round : t \in {u \in s.tasks : u.node = n}}
PassedAt(s, n) ==
  {r \in RoundsAt(s, n) : HadPassed({t \in s.tasks : t.node = n /\ t.round = r}, n)}

\* A branch of a join that a vote ends, and a step to which the join alone leads,
\* from which no later approval can be sent back to it.
Blocks == {b \in [join : Joins, branch : Approvals, step : Approvals] :
  /\ b.branch \in Preds(b.join) /\ b.branch \notin SkipVars \cup MaySkip
  /\ Preds(b.step) = {b.join} /\ \A n \in Approvals \ {b.step} : ~Precedes(b.step, n)}

\* The step behind a join opens no more often than each branch was passed
\* (join.go: a token for every branch, and one of each is taken).
JoinsNeedEveryBranch ==
  \A b \in Blocks : Cardinality(RoundsAt(db, b.step)) <= Cardinality(PassedAt(db, b.branch))

\* A join waits exactly while it holds a token.
WaitsForTokens(s) == \A j \in Joins : j \in s.current <=> \E e \in JoinEdges : e[2] = j /\ s.tokens[e] > 0

\* No token is left over to open a later cycle early: a join holds one exactly
\* while the flow waits there (join.go: one of each is taken when it opens).
JoinTokensAreWaiting == db.status \in Live => WaitsForTokens(db)

\* A join opens once for every full set of its branches.
JoinsAreExact == JoinsNeedEveryBranch /\ JoinTokensAreWaiting

\* From s to c at most one round is settled, and those opened are new.
SettlesOne(s, c) ==
  /\ s.rounds <= c.rounds
  /\ \E r \in OpenRounds(s) \cup {0} :
       /\ OpenRounds(s) \ {r} \subseteq OpenRounds(c)
       /\ OpenRounds(c) \subseteq (OpenRounds(s) \ {r}) \cup (s.rounds + 1 .. c.rounds)

SoundRows(s) ==
  /\ IsFiniteSet(s.tasks)
  /\ \A t \in s.tasks : t.round \in 1..s.rounds
  /\ \A t, u \in s.tasks : t.round = u.round => t.node = u.node
  /\ \A t \in Pending(s) : s.status \in Live /\ t.node \in s.current
  /\ \A t \in Pending(s), u \in s.tasks : u.node = t.node => u.round <= t.round

\* The inductive invariant behind WorkIsActive, OneOpenRound and the contract:
\* the rows are sound before and during a transaction, and what it has done so
\* far is at most one settled round and new ones (execution.go: the active set
\* it carries from one turn to the next).
IndInv ==
  /\ TypeOK /\ SoundRows(db) /\ SoundRows(work)
  /\ held => /\ work.status = "running" /\ db.status \in {"absent", "running"}
             /\ SettlesOne(db, work)

\* The rows of c go back to those of s: none is lost, and only a pending one
\* may have changed its status.
Extends(s, c) ==
  /\ \A t \in s.tasks \ Pending(s) : t \in c.tasks
  /\ \A t \in Pending(s) : \E st \in TaskState : SetState(t, st) \in c.tasks

\* A cast vote, a hand-over or a cancellation is never rewritten, no row
\* disappears, and an ended instance changes no more (the status guards of
\* completeTask, operateTask, terminate, suspend and resume).
HistoryIsFinal == [][Extends(db, db') /\ (db.status \in Ended => db' = db)]_db

\* The review mints a task at n for a reviewer who has none (selectApprovalTask).
Mints(n) == Protected /\ n \notin AssignedOnly
\* No fallback role is held by the applicant alone; nobody ensures it.
FallbackCanAct == \A n \in Escalates : \A F \in Fallback[n] : F # {} => Eligible(F) # {}

\* A person's tasks in a round are numbered without a gap, so that the next one
\* has a number of its own.
RowsAreNumbered(R) ==
  \A t \in R : /\ t.nth < Cardinality({u \in R : u.who = t.who})
              /\ \A u \in R : u.who = t.who /\ u.nth = t.nth => u = t
CountsOnce(R) == \A t, u \in R : t.who = u.who /\ {t.st, u.st} \subseteq Counted => t = u
Undecided(R, n) ==
  ~RoundPasses(R, n) /\ ~RoundImpossible(R, n) /\ \A t \in R : t.st # "cancelled"
RoundIsSound(s, t) ==
  LET R == Round(s, t)
  IN  /\ RowsAreNumbered(R) /\ (Mints(t.node) \/ CountsOnce(R))
      /\ (IsOpen(R) /\ Undecided(R, t.node)) \/ (~IsOpen(R) /\ IsClosed(s, t))

\* What the instance is at can still move it: approvals with open tasks and joins.
IsStaffed(s) ==
  /\ s.current \subseteq Approvals \cup Joins
  /\ FallbackCanAct => \A n \in s.current \cap Approvals : PendingAt(s, n) # {}
RoundsAreSound(s) == IsStaffed(s) /\ \A t \in s.tasks : RoundIsSound(s, t)

\* The inductive invariant behind the properties of rounds and votes: each round
\* is sound before and during a transaction, and a transaction only adds to the
\* rows it started from.
RoundsInv ==
  /\ IndInv /\ RoundsAreSound(db) /\ RoundsAreSound(work)
  /\ held => Extends(db, work)
  /\ db.status \in Live => db.current # {}

\* The step behind the join is among the arrivals, and the branch is on its way in.
StepIsNext(b) == b.step \notin work.current /\ \E i \in DOMAIN queue : queue[i].node = b.step
ComesIn(b) == [node |-> b.join, from |-> b.branch]
BranchIsNext(b) == \E i \in DOMAIN queue : queue[i] = ComesIn(b)

\* Passed rounds of the branch pay for what has gone on behind the join, for the
\* tokens in store and for k arrivals.
IsPaid(s, b, k) ==
  Cardinality(RoundsAt(s, b.step)) + s.tokens[<<b.branch, b.join>>] + k
    <= Cardinality(PassedAt(s, b.branch))
One(isSo) == IF isSo THEN 1 ELSE 0

\* The inductive invariant behind JoinsNeedEveryBranch: it counts a branch while it
\* is underway, in store, and behind the join, before and during a transaction.
BlocksInv ==
  \A b \in Blocks :
    /\ IsPaid(db, b, 0) /\ IsPaid(work, b, One(StepIsNext(b)) + One(BranchIsNext(b)))
    /\ BranchIsNext(b) => queue = <<ComesIn(b)>>

\* Seen from outside, whole operations follow FlowContract: the rounds with an
\* open task are numbered once, an operation settles at most one of them, and a
\* walk shows only when it commits (transaction.go, LockInstance).
Contract == INSTANCE FlowContract WITH
  phase <- db.status, open <- OpenRounds(db), issued <- db.rounds
ImplementsContract == Contract!Spec

\* A started walk ends and gives the row back, also on a cycle of the graph whose
\* approvals are all skipped, which ValidateGraph lets through (execution.go:
\* the loop's step limit).
LockIsReleased == held ~> ~held
===============================================================================
