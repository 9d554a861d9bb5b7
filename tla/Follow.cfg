CONSTANTS
    Objects <- AllObjects
    NoObject = "absent"
SPECIFICATION Spec
INVARIANT CaughtUp
PROPERTIES
  AgentsConverge GroupsFollowPolicies
  EndpointsFollowTower EndpointsKept ImplementsInformer ReflectorResumes
CHECK_DEADLOCK FALSE
