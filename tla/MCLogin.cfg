SPECIFICATION FairSpec
CONSTANTS
  MaxTrouble = 2
  MaxJoins = 2
INVARIANTS
  TypeOK
  QuestionHeard
  ServedWhenReady
PROPERTIES
  GetsIn
CHECK_DEADLOCK FALSE
