SPECIFICATION MCSpec
CONSTANTS
  W = 4
  Inputs <- OneOrTwo
INVARIANTS MatchesRanges IPBlockExact NetworkPolicyMeansTheSame AcceptedPoliciesComplete
PROPERTIES MirrorsFollow CertTrusted
CHECK_DEADLOCK FALSE
