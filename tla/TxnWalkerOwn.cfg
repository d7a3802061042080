SPECIFICATION Spec
CONSTANTS
  f1 = f1
  f2 = f2
  r1 = r1
  r2 = r2
  v0 = v0
  v1 = v1
  None = None
  Flows <- FlowPair
  Main = f1
  Refs <- RefPair
  Vals <- ValPair
  InitVal = v0
  MaxAttempts = 2
  SuspendInTransact = FALSE
  BuiltinArgs = TRUE
  MaxVersion = 1
  MaxDepth = 3
INVARIANTS OwnContexts OutsideIsDirect
SYMMETRY RefSymmetry
