SPECIFICATION MCSpec
CONSTANTS
  Refs = {"r1", "r2"}
  Addrs <- MCAddrs
  PortSets = {{"p80"}}
  Self = "self"
  AllEps = "g2"
  Groups = {"g1", "g2"}
  Pool <- DisjointPool
  Initial <- OneMember
  Policies <- MCPolicies
  Shared = FALSE
  MaxChanges = 2
  MaxUpdates = 2
  Sandboxes = {"s1", "s2", "s3"}
  PodIPs = {"ip1", "ip2"}
  NoPodIP = "none"
  MaxCniFaults = 2
  MaxEvents = 3
  Parts = {"rules", "arp", "routes", "cni", "global", "packet", "operations"}
INVARIANTS RulesCurrent FlowsMatchRules AddressesNotShared PacketsArrive
PROPERTIES FlowsConverge AddressesReported PodsReachable NothingLeaks DefaultActionEnforced OperationsReturn
CHECK_DEADLOCK FALSE
