SPECIFICATION Spec
CONSTANTS
  Programs <- ManyPrograms
  Actors <- ActorPair
  WrongArity = {"arity"}
  TicksPerYield = 2
  DrainsAfterError = TRUE
  Null = Null
  Shared = 2
  MaxMsgs = 3
CHECK_DEADLOCK FALSE
INVARIANTS EachMessageOnce CoroutinesInOnePlace NoLostWakeup YielderAlive HandedOutOnce LostOnlyInAll
PROPERTIES EveryProgramEnds
