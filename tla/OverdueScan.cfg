SPECIFICATION FairScanSpec
CONSTANTS
  u1 = u1
  u2 = u2
  u3 = u3
  Users = {u1, u2, u3}
  Initiator = u3
  NoNode = NoNode
  Nodes <- ChainNodes
  Kind <- ChainKind
  Out <- ChainOut
  Rank <- ChainRank
  Rule <- CountersignRule
  Staffing <- CountersignStaff
  Fallback <- ChainFallback
  Escalates = {"minister"}
  MaySkip = {"minister"}
  SkipVars = {"minister"}
  AssignedOnly = {"officer", "minister"}
  MayTransfer = {"officer"}
  Reviewers <- ChainReviewers
  Protected = TRUE
  MaxTurns = 8
  MaxRounds = 3
  MaxHops = 1
  MaxErrors = 1
  Timed = {"officer", "minister"}
  Ladders <- ChainLadders
INVARIANTS HandOverIsSound ActiveApprovalsAreStaffed
PROPERTIES EarlierVotesStand UntouchedIsRescued
CHECK_DEADLOCK FALSE
