SPECIFICATION Spec
CONSTANTS
  u1 = u1
  u2 = u2
  u3 = u3
  Users = {u1, u2, u3}
  Initiator = u3
  NoNode = NoNode
  Nodes <- ForkNodes
  Kind <- ForkKind
  Out <- ForkOut
  Rank <- ForkRank
  Rule <- ForkRule
  Staffing <- ForkStaff
  Fallback <- ForkFallback
  Escalates <- NoApprovals
  MaySkip <- NoApprovals
  SkipVars <- NoApprovals
  AssignedOnly <- NoApprovals
  MayTransfer <- NoApprovals
  Reviewers <- ForkReviewers
  Protected = FALSE
  MaxTurns = 8
  MaxRounds = 4
  MaxHops = 1
INVARIANT SomebodyCanAct
CHECK_DEADLOCK FALSE
