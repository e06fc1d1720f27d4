SPECIFICATION Spec
CONSTANTS
  c1 = c1
  c2 = c2
  k1 = k1
  k2 = k2
  NoCall = NoCall
  Calls <- MCCalls2
  Keys <- MCKeys1
  MaxRestarts = 1
  MaxRebuilds = 0
  MaxFaults = 0
INVARIANT TasksInv
SYMMETRY CallSymmetry
CHECK_DEADLOCK FALSE
