SPECIFICATION GenericSpec
CONSTANTS
  u1 = u1
  u2 = u2
  u3 = u3
  Users = {u1, u2}
  Initiator = u1
  NoNode = NoNode
  Nodes <- CycleNodes
  Kind <- CycleKind
  Out <- CycleOut
  Rank <- CycleRank
  Rule <- CycleRule
  Staffing <- CycleStaff
  Fallback <- CycleFallback
  Escalates <- NoApprovals
  MaySkip <- NoApprovals
  SkipVars <- NoApprovals
  AssignedOnly <- NoApprovals
  MayTransfer <- NoApprovals
  Reviewers <- CycleReviewers
  Protected = FALSE
  MaxTurns = 8
  MaxRounds = 8
  MaxHops = 1
INVARIANTS IndInv JoinsAreExact
PROPERTIES ImplementsContract
CHECK_DEADLOCK FALSE
