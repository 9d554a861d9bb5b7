SPECIFICATION Spec
CONSTANTS
  responseChanLenth = 1
  MaxChanges = 1
  MaxFaults = 1
INVARIANT ClosedOnce
CHECK_DEADLOCK FALSE
