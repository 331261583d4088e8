SPECIFICATION Spec
CONSTANTS
  Executor = {e1, e2}
  NoExecutor = NoExecutor
  NoRequest = NoRequest
  NoAddress = NoAddress
  Project = {"p1"}
  Address = {"a1", "a2"}
  Request = {"enter"}
  Desc <- MCDesc
  ProjectCap = 10
  GlobalCap = 10
  TransactionCap = 10
  MaxReconcileAttempts = 2
  InitialChain <- MCFreshPool
  Events = {"crash"}
  MaxOutcomes = 2
INVARIANTS IntentPrecedesAction
CHECK_DEADLOCK FALSE
