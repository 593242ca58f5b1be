SPECIFICATION FairSpec
CONSTANTS
  PingTimeout = 3
  ConnectTimeout = 1
  MaxOut = 2
INVARIANTS
  WriteWatched
  NoCallbackAfterFree
  RestartSafe
  SilenceBounded
PROPERTIES
  ReadyOrTold
  SilenceReported
CHECK_DEADLOCK FALSE
