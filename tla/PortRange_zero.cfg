SPECIFICATION MCSpec
CONSTANTS
  W = 4
  Inputs <- FromZero
INVARIANT MatchesRanges
CHECK_DEADLOCK FALSE
