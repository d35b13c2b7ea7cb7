----------------------------- MODULE MCBusiness -----------------------------
(***************************************************************************)
(* The business modules in one run.  Meetings, activities, the cache of    *)
(* permissions and the flow of a task share no row and no key, so a        *)
(* behaviour of one of them at a time misses nothing: part says which one  *)
(* it is.                                                                  *)
(***************************************************************************)
EXTENDS MeetingVote, ActivityRegistration, PermissionCache, MCTasks

CONSTANTS v1, v2

VARIABLE part

businessVars == <<part, meetingVars, activityVars, cacheVars, taskVars>>
Parts == {"meeting", "activity", "cache", "task"}
On(p) == part = p

\* One vote of each way of counting that differs.
VoteKinds == [v \in {v1, v2} |-> IF v = v1 THEN {"weighted"} ELSE {"anonymous"}]

\* The parts that stand still start in one state.
BusinessInit ==
  /\ part \in Parts /\ MeetingInit /\ ActivityInit /\ CacheInit /\ TaskInit
  /\ ~On("activity") => capacity = 0
  /\ ~On("cache") => members = {}
  /\ ~On("task") =>
       task.assignee = Nobody /\ task.reviewer = minister /\ task.acceptor = minister

BusinessNext ==
  /\ UNCHANGED part
  /\ \/ On("meeting") /\ MeetingNext /\ UNCHANGED <<activityVars, cacheVars, taskVars>>
     \/ On("activity") /\ ActivityNext /\ UNCHANGED <<meetingVars, cacheVars, taskVars>>
     \/ On("cache") /\ CacheNext /\ UNCHANGED <<meetingVars, activityVars, taskVars>>
     \/ On("task") /\ TaskNext /\ UNCHANGED <<meetingVars, activityVars, cacheVars>>

\* The scheduler keeps starting the expiry job.
MeetingFairness ==
  /\ WF_meetingVars(On("meeting") /\ ListDueVotes)
  /\ WF_meetingVars(On("meeting") /\ CloseExpiredVote)

\* The scheduler keeps starting the refresh.
CacheFairness == \A w \in Workers : WF_cacheVars(On("cache") /\ WorkerMoves(w))

BusinessSpec ==
  /\ BusinessInit /\ [][BusinessNext]_businessVars
  /\ MeetingFairness /\ CacheFairness
=============================================================================
