SPECIFICATION FSpec
CONSTANTS
  f1 = f1
  f2 = f2
  Flows <- FlowPair
  Main = f1
  Cells = {"x", "y"}
  None = None
  InitVal <- Zero
  MaxTxnRetries = 3
  MaxCoins = 0
  Matches <- VmMatch
  Codes <- Bumpers
CHECK_DEADLOCK FALSE
INVARIANT NothingLost
