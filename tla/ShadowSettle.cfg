SPECIFICATION Spec
CONSTANTS
  HalfWidth = 0
  OorDwell = 2
  Overshoot = 1
  SettleTime = 3
  SettleBand = 0
  ExitDwell = 5
  MinFees = 2
  MinSamples = 1
  Bin = {0, 1}
  Gap = {1, 2}
  Gain = {0}
  Reading = {"full"}
  Market = {"healthy"}
  Events = {}
  ReconcileEvery = 20
  MaxTime = 9
INVARIANTS QuietWindowIsSettled
CHECK_DEADLOCK FALSE
