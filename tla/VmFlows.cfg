SPECIFICATION FSpec
CONSTANTS
  f1 = f1
  f2 = f2
  Flows <- FlowPair
  Main = f1
  Cells = {"x", "y"}
  None = None
  InitVal <- Zero
  MaxTxnRetries = 3
  MaxCoins = 1
  Matches <- VmMatch
  Codes <- AllCodes
CHECK_DEADLOCK FALSE
INVARIANTS WholeAreAtomic
PROPERTIES StaleNeverCommits EveryChangeIsABump EveryFlowEnds
