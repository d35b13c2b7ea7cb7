SPECIFICATION FairGenericSpec
CONSTANTS
  u1 = u1
  u2 = u2
  u3 = u3
  Users = {u1, u2}
  Initiator = u2
  NoNode = NoNode
  Nodes <- LineNodes
  Kind <- LineKind
  Out <- LineOut
  Rank <- LineRank
  Rule <- LineRule
  Staffing <- LineStaff
  Fallback <- LineFallback
  Escalates = {"B"}
  MaySkip = {"B"}
  SkipVars = {"A"}
  AssignedOnly <- NoApprovals
  MayTransfer = {"A", "B"}
  Reviewers <- LineReviewers
  Protected = FALSE
  MaxTurns = 8
  MaxRounds = 4
  MaxHops = 3
INVARIANTS TypeOK OnePersonOneVote RoundsFollowTheRule SomebodyCanAct
PROPERTIES HistoryIsFinal LockIsReleased
CHECK_DEADLOCK FALSE
