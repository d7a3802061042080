SPECIFICATION Spec
CONSTANTS
  Programs <- TwoMessages
  Actors <- ActorPair
  WrongArity = {"arity"}
  TicksPerYield = 4
  DrainsAfterError = TRUE
  Null = Null
  Shared = 2
  MaxMsgs = 3
CHECK_DEADLOCK FALSE
INVARIANTS Sequential
