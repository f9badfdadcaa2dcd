CONSTANTS
  s1 = s1
  s2 = s2
  e1 = e1
  e2 = e2
  None = None
  Scheduler = {s1, s2}
  Slot = {e1}
  Node <- LinearNode
  NodeOrder <- LinearOrder
  Kind <- LinearKind
  Succ <- LinearSucc
  Branch <- LinearBranch
  Joins <- LinearJoins
  EffectClass <- LinearPure
  Registered <- LinearNode
  Root = "fetch"
  Outcome = {"SUCCEEDED", "FAILED_RETRYABLE"}
  External = TRUE
  Cancellable = TRUE
  MaxRetries = 1
  MaxFaults = 1
SPECIFICATION FairSpec
INVARIANTS CurrentIsNewest SuccessNotRepeated EndedIsQuiet
PROPERTIES NotStranded ResultsConsumed CancellationsApplied
