SPECIFICATION MpiFunctions
CONSTANTS
  ciL = 2
  CharBits = 2
  Windows <- MCWindows
  MaxWindow = 6
  Reg <- MCReg
  Start <- MCStart
  Calls <- MCCalls
  Careful = TRUE
PROPERTY ImplementsIntegers
CHECK_DEADLOCK FALSE
