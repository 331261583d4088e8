SPECIFICATION SpecReplayed
CONSTANTS
  HalfWidth = 0
  OorDwell = 3
  Overshoot = 1
  SettleTime = 1
  SettleBand = 0
  ExitDwell = 3
  MinFees = 2
  MinSamples = 1
  Bin = {0, 1}
  Gap = {1}
  Gain = {0}
  Reading = {"none", "full"}
  Market = {"low", "healthy"}
  Events = {"rpc", "db"}
  ReconcileEvery = 2
  MaxTime = 7
INVARIANTS ExitsOnTime ReplayAgrees
PROPERTIES DwellIsContinuous
CHECK_DEADLOCK FALSE
