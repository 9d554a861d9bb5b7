SPECIFICATION MCSpec
CONSTANTS
  Refs = {"r1", "r2"}
  Addrs <- SmallAddrs
  PortSets = {{"p80"}}
  Self = "self"
  AllEps = "g2"
  Groups = {"g1", "g2"}
  Pool <- SamePool
  Initial <- BothMember
  Policies <- FromTwoPolicies
  Shared = FALSE
  MaxChanges = 2
  MaxUpdates = 1
  Sandboxes = {"s1", "s2", "s3"}
  PodIPs = {"ip1", "ip2"}
  NoPodIP = "none"
  MaxCniFaults = 2
  MaxEvents = 4
  Parts = {"rules"}
INVARIANT FlowsMatchRules
CHECK_DEADLOCK FALSE
