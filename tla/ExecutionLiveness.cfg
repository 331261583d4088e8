SPECIFICATION FairSpec
CONSTANTS
  Executor = {e1, e2}
  NoExecutor = NoExecutor
  NoRequest = NoRequest
  NoAddress = NoAddress
  Project = {"p1"}
  Address = {"a1", "a2"}
  Request = {"enter", "compound"}
  Desc <- MCDesc
  ProjectCap = 10
  GlobalCap = 10
  TransactionCap = 10
  MaxReconcileAttempts = 2
  InitialChain <- MCFreshPool
  Events = {"rpc", "kill"}
  MaxOutcomes = 2
INVARIANTS AtMostOnce
PROPERTIES EveryCallReturns KillSwitchDrains
CHECK_DEADLOCK FALSE
