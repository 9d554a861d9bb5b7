SPECIFICATION CSpec
CONSTANTS
  Refs = {r1}
  Addrs = {x, y}
  PortSets = {p}
  Retained = 3
  MaxChanges = 5
  MaxFaults = 0
INVARIANT PatchForLatestRevision
CHECK_DEADLOCK FALSE
