SPECIFICATION Spec
CONSTANTS
  u1 = u1
  u2 = u2
  u3 = u3
  Users = {u1, u2, u3}
  Initiator = u3
  NoNode = NoNode
  Nodes <- ChainNodes
  Kind <- ChainKind
  Out <- ChainOut
  Rank <- ChainRank
  Rule <- ChainOfAll
  Staffing <- ChainStaff
  Fallback <- ChainFallback
  Escalates = {"minister"}
  MaySkip = {"minister"}
  SkipVars <- NoApprovals
  AssignedOnly = {"minister"}
  MayTransfer = {}
  Reviewers <- ChainReviewers
  Protected = TRUE
  MaxTurns = 8
  MaxRounds = 3
  MaxHops = 4
INVARIANT OnePersonOneVote
CHECK_DEADLOCK FALSE
