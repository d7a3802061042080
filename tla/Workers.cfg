SPECIFICATION FairSpec
CONSTANTS
  Main = main
  Workers = {w1, w2, w3}
  None = None
  MaxReplies = 10
  Programs <- Small
CHECK_DEADLOCK FALSE
INVARIANTS AnswersAreMeant SomebodyWillAnswer OnlyMainFindsItClosed StillOnlyByNesting
PROPERTIES AnswersStay EveryTameProgramEnds
