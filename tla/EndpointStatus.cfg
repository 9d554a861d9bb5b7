CONSTANTS
    Agents = {"a1", "a2"}
    Ports = {p1}
    Exts = {"e1", "e2"}
    Endpoints = {"e1"}
    IPs = {i1}
    Timeout = 1
    Layouts <- MCLayouts
    MaxChanges = 1
    MaxPending = 2
SPECIFICATION MCSpec
PROPERTY StatusFollowsHolder
