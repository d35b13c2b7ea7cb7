SPECIFICATION SigningSpec
CONSTANTS
  creator = creator
  colleague = colleague
  outsider = outsider
  minister = minister
  Staff = {creator, colleague, outsider, minister}
  Creator = creator
  Nobody = Nobody
  Reviewers = {minister}
  Acceptors = {creator, minister}
  KindOf <- DeptKinds
  Authority <- Signers
  Scanners = {s1}
  MaxRevision = 4
  MaxTransfers = 1
  Leavers = {}
PROPERTIES SignedTransferIsSettled
CHECK_DEADLOCK FALSE
