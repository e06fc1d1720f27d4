SPECIFICATION FairSpec
CONSTANTS
  c1 = c1
  c2 = c2
  k1 = k1
  k2 = k2
  NoCall = NoCall
  Calls <- MCCalls1
  Keys <- MCKeys1
  MaxRestarts = 1
  MaxRebuilds = 1
  MaxFaults = 1
PROPERTIES BackgroundTaskEnds EveryCallAnswered
CHECK_DEADLOCK FALSE
