SPECIFICATION Spec
CONSTANTS
  NumChats = 2
  NameLength <- MCNameLength
  MaxDc = 1
  MaxUpdates = 0
INVARIANT LoginReads
CHECK_DEADLOCK FALSE
