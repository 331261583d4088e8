SPECIFICATION Spec
CONSTANTS
  HalfWidth = 0
  OorDwell = 2
  Overshoot = 1
  SettleTime = 3
  SettleBand = 0
  ExitDwell = 5
  MinFees = 3
  MinSamples = 1
  Bin = {0, 1}
  Gap = {1}
  Gain = {1}
  Reading = {"full", "reset"}
  Market = {"healthy"}
  Events = {}
  ReconcileEvery = 20
  MaxTime = 6
INVARIANTS FeesCountedOnce
CHECK_DEADLOCK FALSE
