CONSTANTS
  s1 = s1
  s2 = s2
  e1 = e1
  e2 = e2
  None = None
SYMMETRY Symmetry
SPECIFICATION Spec
INVARIANTS UnknownNotRetried DecisionsFresh OneExecutionPerAttempt RetriesBounded GraphOrder
PROPERTIES HistoryAllowed
