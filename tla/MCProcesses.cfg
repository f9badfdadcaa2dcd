CONSTANTS
  None = None
  Owner = {o1, o2}
  Tx = {t1, t2}
  TTL = 1
  MaxTime = 3
  MaxEpoch = 2
  MaxWrites = 2
  w1 = w1
  w2 = w2
  w3 = w3
  k1 = k1
  k2 = k2
  NoPart = NoPart
SYMMETRY Symmetry
SPECIFICATION AllSpec
CHECK_DEADLOCK FALSE
INVARIANTS EpochFence OneOwnerPerEpoch CommittedIsStored CleanExitLeavesNoClaim ExecutorHasRoom ReturnedRunIsClean NothingPassesTheCut
PROPERTIES WriterStillOwns
