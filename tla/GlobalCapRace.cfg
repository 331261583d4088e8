SPECIFICATION Spec
CONSTANTS
  Executor = {e1, e2}
  NoExecutor = NoExecutor
  NoRequest = NoRequest
  NoAddress = NoAddress
  Project = {"p1", "p2"}
  Address = {"a1", "b1"}
  Request = {"enter", "enterB"}
  Desc <- MCDesc
  ProjectCap = 3
  GlobalCap = 3
  TransactionCap = 10
  MaxReconcileAttempts = 2
  InitialChain <- MCFreshPool
  Events = {"rpc"}
  MaxOutcomes = 2
INVARIANTS GlobalCapHolds
CHECK_DEADLOCK FALSE
