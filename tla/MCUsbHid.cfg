SPECIFICATION FairSpec
CONSTANTS
  Endpoints = {"IN1", "OUT1"}
  EpSize = 1
  ApduSize = 1
  MaxOut = 3
  MaxIn = 3
  MaxBus = 2
  Patient = TRUE
INVARIANT UsbHidInv
PROPERTIES
  FetchedOnce
  ReportsArrive
CHECK_DEADLOCK FALSE
