CONSTANTS
  s1 = s1
  s2 = s2
  e1 = e1
  e2 = e2
  None = None
  Scheduler = {s1, s2}
  Slot = {}
  Node <- FanoutNode
  NodeOrder <- FanoutOrder
  Kind <- FanoutKind
  Succ <- FanoutSucc
  Branch <- FanoutBranch
  Joins <- FanoutJoins
  EffectClass <- FanoutNonCooperating
  Registered <- FanoutNode
  Root = "root"
  Outcome = {"SUCCEEDED"}
  External = FALSE
  Cancellable = FALSE
  MaxRetries = 1
  MaxFaults = 1
SYMMETRY MCSymmetry
SPECIFICATION Spec
PROPERTIES HistoryAllowed
