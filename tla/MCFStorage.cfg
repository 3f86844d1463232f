SPECIFICATION FairSpec
CONSTANTS
  Capacity = 2
  Items = {1, 2, 3}
  MaxSize = 2
  MaxRetries = 1
  MaxDepth = 4
  MaxChanges = 0
  MaxResets = 1
  MaxOthers = 0
  MaxRejects = 1
  MaxFailures = 0
  Callers = {1}
  Kinds = {"write", "erase"}
  Environment = {"timeout"}
INVARIANTS
  FStorageInv
  ReportedMeansDone
  ReportedInOrder
PROPERTY EveryOperationReported
CHECK_DEADLOCK FALSE
