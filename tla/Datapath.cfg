SPECIFICATION MCSpec
CONSTANTS
  Bridges = {local, policy}
  BaseSlots = {base}
  RuleSlots = {rule}
  MaxRoundNum = 3
  MaxRuns = 6
  MaxRestarts = 2
  Services = {"s1"}
  NatBridges = {"n1", "n2"}
  ClusterIPs = {"ip1", "ip2"}
  SvcPorts = {"http", "dns"}
  NoClusterIP = "none"
  MaxSvcChanges = 3
  MaxSvcFails = 2
  Parts = {"round", "chain", "proxy", "track", "table"}
  VDS = {"v1", "v2"}
  Keys = {"k1", "k2", "kg"}
  Policies = {"p1", "p2", "g"}
  Global = "g"
  Workloads <- Tolerated
  MaxSyncs = 3
  MaxTableRestarts = 1
INVARIANTS
  OnlyOwnFlows FramesArriveOnce QuietServicesBalanced ConnectionsAsIntended
  FlowsFollowRules
CHECK_DEADLOCK FALSE
