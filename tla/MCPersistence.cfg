SPECIFICATION FairSpec
CONSTANTS
  NumChats = 2
  NameLength <- MCNameLength
  MaxDc = 1
  MaxUpdates = 2
INVARIANTS
  ReadsWhatWasSaved
  NoHole
PROPERTIES
  ReceivedIsSaved
CHECK_DEADLOCK FALSE
