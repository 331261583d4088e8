SPECIFICATION Spec
CONSTANTS
  Executor = {e1, e2}
  NoExecutor = NoExecutor
  NoRequest = NoRequest
  NoAddress = NoAddress
  Project = {"p1"}
  Address = {"a1", "a2"}
  Request = {"create", "enter", "exit"}
  Desc <- MCDesc
  ProjectCap = 3
  GlobalCap = 10
  TransactionCap = 10
  MaxReconcileAttempts = 2
  InitialChain <- MCNoPool
  Events = {"rpc", "day"}
  MaxOutcomes = 2
SYMMETRY MCSymmetry
INVARIANTS ProjectCapHolds
PROPERTIES RefinesLedger ReconciledForever
CHECK_DEADLOCK FALSE
