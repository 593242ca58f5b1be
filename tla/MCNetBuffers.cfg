SPECIFICATION FairSpec
CONSTANTS
  BufferSize = 3
  Word = 2
  LongHeader = 2
  MaxShort = 1
  FrameLengths = {1, 2}
  MaxFrames = 3
  WriteLengths = {1, 4}
  MaxWritten = 6
INVARIANTS
  TypeOK
  FramesFound
  NothingLeftBehind
PROPERTIES
  SendsAll
CHECK_DEADLOCK FALSE
