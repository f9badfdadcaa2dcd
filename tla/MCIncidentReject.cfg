CONSTANTS
  Proposals = {p1, p2}
  MaxToolCalls = 4
  MaxRounds = 3
  MaxCrashes = 2
SPECIFICATION Spec
CHECK_DEADLOCK FALSE
INVARIANT RejectedMeansNoAction
