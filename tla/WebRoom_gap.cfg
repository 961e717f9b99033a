SPECIFICATION WebSpec
CONSTANTS
  Cards = {}
  MaxMessages = 2
  MaxHellos = 1
  PageLimit = 2
  RestFails = FALSE
INVARIANT NoGap
CHECK_DEADLOCK FALSE
