CONSTANTS
  p1 = p1
  p2 = p2
  prep = prep
  u1 = u1
  u2 = u2
  c1 = c1
  c2 = c2
  a1 = a1
  a2 = a2
  m1 = m1
  Free = Free
  Orphan = Orphan
  NoRow = NoRow
SYMMETRY Symmetry
SPECIFICATION Spec
CHECK_DEADLOCK FALSE
INVARIANTS IndexMatchesRows ReportCoversItsRows FreezeFollowsRule
PROPERTIES ImplementsStudy
