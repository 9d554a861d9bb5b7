SPECIFICATION SmallSpec
CONSTANTS
  Refs = {r1}
  Addrs = {x, y}
  PortSets = {p}
  Retained = 1
  MaxChanges = 2
  MaxFaults = 2
  Agents = {a1}
INVARIANTS AgentsHoldHistory PatchesReachTop
PROPERTY ImplementsHistory
CHECK_DEADLOCK FALSE
SYMMETRY Symmetry
