SPECIFICATION Spec
CONSTANTS
  Executor = {e1, e2}
  NoExecutor = NoExecutor
  NoRequest = NoRequest
  NoAddress = NoAddress
  Project = {"p1"}
  Address = {"a1", "a2"}
  Request = {"open", "manage"}
  Desc <- MCDesc
  ProjectCap = 10
  GlobalCap = 10
  TransactionCap = 10
  MaxReconcileAttempts = 2
  InitialChain <- MCFreshPool
  Events = {"rpc", "late", "crash"}
  MaxOutcomes = 2
SYMMETRY MCSymmetry
INVARIANTS TypeOK OneExecutorPerProject SettledRows ManagedByPolicy BoundedSends ReconciledMeansOpened
CHECK_DEADLOCK FALSE
