SPECIFICATION DeliveryFairSpec
CONSTANTS
  n1 = n1
  n2 = n2
  NoNote = NoNote
  Notes <- MCNotes2
  MaxIncidents = 2
INVARIANT DeliveryInv
PROPERTIES AcknowledgedIsFinal QueuedWaitsForAReason
CHECK_DEADLOCK FALSE
