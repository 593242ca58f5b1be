SPECIFICATION FairSpec
CONSTANTS
  MaxMsgSize = 4
  MaxMsgSplitCount = 4
  Lengths = {0, 1, 7}
  MaxMessages = 2
INVARIANTS
  TypeOK
  TimersOwned
  WholeTexts
  HtmlFits
PROPERTIES
  DeliversAll
CHECK_DEADLOCK FALSE
