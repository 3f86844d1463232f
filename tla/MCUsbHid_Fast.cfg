SPECIFICATION Spec
CONSTANTS
  Endpoints = {"IN1", "OUT1"}
  EpSize = 1
  ApduSize = 1
  MaxOut = 3
  MaxIn = 3
  MaxBus = 2
  Patient = FALSE
INVARIANT OutInOrder
CHECK_DEADLOCK FALSE
