SPECIFICATION PSpec
CONSTANTS
  Main = main
  Flows = {main}
  Cells = {"x"}
  None = None
  InitVal <- Zero
  MaxTxnRetries = 3
  MaxCoins = 2
  Matches <- VmMatch
  Programs <- Nested
CHECK_DEADLOCK FALSE
INVARIANTS ParityAgreed CleanEndAgreed HandlersNest
PROPERTIES Terminates
