CONSTANTS
  s1 = s1
  s2 = s2
  e1 = e1
  e2 = e2
  None = None
  Scheduler = {s1, s2}
  Slot = {}
  Node <- FanoutNode
  NodeOrder <- FanoutFixtureOrder
  Kind <- FanoutKind
  Succ <- FanoutSucc
  Branch <- FanoutBranch
  Joins <- FanoutJoins
  EffectClass <- FanoutPure
  Registered <- FanoutNode
  Root = "root"
  Outcome = {"SUCCEEDED"}
  External = FALSE
  Cancellable = FALSE
  MaxRetries = 1
  MaxFaults = 0
SPECIFICATION FairSpec
PROPERTIES NotStranded
