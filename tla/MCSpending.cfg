CONSTANTS
  MINUTE = 2
  CAP = 10
  HISTORY = 2
  GATE_AGE = 3
  Reserves = {1, 2}
  MaxTime = 10
  t1 = t1
  t2 = t2
  p1 = p1
  p2 = p2
SYMMETRY Symmetry
SPECIFICATION AllSpec
CHECK_DEADLOCK FALSE
INVARIANTS BillBelowCap TotalsMatchEntries CommittedWithinCap AppliedOnce
PROPERTIES ImplementsBudget EffectsFreshlyApproved
