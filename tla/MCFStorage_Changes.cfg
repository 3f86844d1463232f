SPECIFICATION FairSpec
CONSTANTS
  Capacity = 2
  Items = {1, 2, 3}
  MaxSize = 1
  MaxRetries = 1
  MaxDepth = 4
  MaxChanges = 3
  MaxResets = 0
  MaxOthers = 2
  MaxRejects = 0
  MaxFailures = 1
  Callers = {1}
  Kinds = {"write"}
  Environment = {}
INVARIANT ReportedInOrder
PROPERTIES
  BothGoOn
  ChangesAreSafe
CHECK_DEADLOCK FALSE
