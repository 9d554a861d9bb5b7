CONSTANTS
    Refs = {"r1", "r2"}
    Addrs = {"x"}
    PortSets = {"p"}
    Retained = 3
    MaxChanges = 3
    MaxFaults = 1
    Ifaces = {"e1", "e2"}
    Skipped = {"e2"}
    Tags = {0, 10}
    Trunk = 99
    MaxPort = 2
    MaxRowChanges = 5
    MaxRowFaults = 1
    Listeners = {"l1", "l2"}
    Values = {"a", "b"}
    None = "none"
    MaxCalls = 3
    MaxResyncs = 2
SPECIFICATION Spec
INVARIANTS
  QuietInSync QuietMembersSelected QuietPoliciesInSync IsolationKept
  QuietDBFollowsOVSDB FlowsFollowDB ListenersInStep
CHECK_DEADLOCK FALSE
