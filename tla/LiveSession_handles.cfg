SPECIFICATION FairSpec
CONSTANTS
  h1 = h1
  h2 = h2
  Handles <- MCHandles2
  QueueCap = 1
  EventCap = 1
  MaxAttempts = 1
  MaxCommands = 1
  MaxEvents = 1
  MaxEpochs = 2
PROPERTIES EveryCommandResolved FailureIsHeard
CHECK_DEADLOCK FALSE
