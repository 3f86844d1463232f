SPECIFICATION MCSpec
CONSTANTS
  QueueSize = 12
  ClockShared = FALSE
  MaxCable = 2
  MaxHost = 4
  MaxWakeups = 2
  Environment = {}
  u1 = u1
  u2 = u2
  u3 = u3
  ThreadUsers = {u1, u2, u3}
  InterruptUsers = {}
  SoftDevice = FALSE
  MaxHfRequests = 6
  ClockUse = {}
INVARIANTS
  HfClockInv
  UsbDeviceInv
  DriverCalledRight
PROPERTIES
  SuspendIsLeft
  CableIsFollowed
  WaitingIsTold
CHECK_DEADLOCK FALSE
