SPECIFICATION FairSpec
CONSTANTS
  Endpoints = {"IN0", "OUT0"}
  EpSize = 2
  Reads <- MCReads
  Reports = {1, 2}
  MaxRequests = 3
  MaxAbandoned = 1
INVARIANTS
  UsbControlInv
  ReadExact
PROPERTY RequestEnds
CHECK_DEADLOCK FALSE
