SPECIFICATION FairSpec
CONSTANTS
 Attempts = 2
 MaxWindows = 3
 MaxMedia = 3
 MaxEvents = 3
 MaxSessions = 3
 MaxDiskFaults = 1
INVARIANT RecorderInv
PROPERTIES TurnsDoNotOverlap RecorderProgress
CHECK_DEADLOCK FALSE
