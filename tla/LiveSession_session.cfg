SPECIFICATION Spec
CONSTANTS
  h1 = h1
  h2 = h2
  Handles <- MCHandles1
  QueueCap = 2
  EventCap = 1
  MaxAttempts = 1
  MaxCommands = 3
  MaxEvents = 2
  MaxEpochs = 2
INVARIANTS TypeOK CommandOrder Accounted
PROPERTIES ResumesFromLiveCheckpoint ClosedIsFinal DeliveryContract
CHECK_DEADLOCK FALSE
