SPECIFICATION Spec
CONSTANTS
  Programs <- Server
  Actors <- ActorPair
  WrongArity = {"arity"}
  TicksPerYield = 4
  DrainsAfterError = TRUE
  Null = Null
  Shared = 2
  MaxMsgs = 3
CHECK_DEADLOCK FALSE
INVARIANTS OwnYielder
