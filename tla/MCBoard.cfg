SPECIFICATION Spec
CONSTANTS
  Handlers = 2
  Types = {"sysoff", "reset"}
  Timeout = 2
  QueueSize = 2
  MaxRequests = 2
  ButtonCount = 2
  MaxEdges = 4
  MaxFull = 1
  MaxOther = 1
PROPERTIES
  DownWhenAgreed
  GoesDown
  PushesAreMeant
  ReportsSettle
CHECK_DEADLOCK FALSE
