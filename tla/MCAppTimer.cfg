SPECIFICATION Spec
CONSTANTS
  Timers = {"t1", "t2"}
  Repeated = {"t2"}
  Intervals = {3}
  Wrap = 14
  CompareOffset = 2
  QueueSize = 2
  MaxBusy = 1
  Uses <- MCUses
  AllStoppers = {1}
  MaxCalls = 4
  Careful = TRUE
INVARIANTS
  AppTimerInv
  NeverEarly
PROPERTY StoppedIsSilent
CHECK_DEADLOCK FALSE
