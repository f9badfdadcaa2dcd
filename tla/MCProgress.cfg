CONSTANTS
  s1 = s1
  s2 = s2
  k1 = k1
  k2 = k2
  NoPart = NoPart
  p1 = p1
  c1 = c1
  prep = prep
  u1 = u1
  u2 = u2
  a1 = a1
  a2 = a2
  m1 = m1
  Free = Free
  Orphan = Orphan
  NoRow = NoRow
SPECIFICATION Spec
CHECK_DEADLOCK FALSE
PROPERTIES DrainEnds EveryMessageIsStored ResumesFinish
