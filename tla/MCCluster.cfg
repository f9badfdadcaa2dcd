CONSTANTS
  Reservation = 36
  Reserve = 9
  DiagnosticReserve = 3
  TeardownLimit = 6
  Timeouts = {1, 2, 6}
  CaptureLimit = 2
  PollPause = 1
  DrainWait = 2
  Downloads = 6
  MaxTeardown = 4
SPECIFICATION AllSpec
CHECK_DEADLOCK FALSE
INVARIANTS TeardownStartsInTime WithinCeiling EpisodesAreIsolated SealedIsMeasured UsedWithinLimit CellMeasuredOnce FrozenLeavesNothingOut
