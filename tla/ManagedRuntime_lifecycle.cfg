SPECIFICATION Spec
CONSTANTS
  MaxSessions = 3
  MaxEvents = 3
  MaxFailures = 1
INVARIANTS TypeOK OneForwarder ResumesLastConversation ContextKept LifecycleAgrees
PROPERTY FilterIsExact
CHECK_DEADLOCK FALSE
