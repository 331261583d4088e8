SPECIFICATION Spec
CONSTANTS
  HalfWidth = 0
  OorDwell = 1
  Overshoot = 1
  SettleTime = 1
  SettleBand = 0
  ExitDwell = 2
  MinFees = 2
  MinSamples = 1
  Bin = {0, 1}
  Gap = {1}
  Gain = {0, 1}
  Reading = {"none", "full"}
  Market = {"low"}
  Events = {"rpc", "crash", "operator"}
  ReconcileEvery = 2
  MaxTime = 5
INVARIANTS TypeOK FeesCountedOnce BenchmarksShareBaseline
PROPERTIES ExitIsFinal
CHECK_DEADLOCK FALSE
