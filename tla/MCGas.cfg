SPECIFICATION Spec
CONSTANTS
  WordBytes = 2
  MemWordGas = 1
  QuadCoefDiv = 2
  MaxMem = 4
  Forks = {1, 8}
  Limits = {0, 6}
  TxGas = 2
  U64Mod = 7
  Charges = {0, 1}
  Requests = {1}
  NoU64 = NoU64
  Ends = {0, 1, 3, 5}
  Lens = {0, 1}
  CallCost <- MCCallCost
  CreateCost = 1
  DataCost = 1
  ColdCost = 1
  NewAccountCost = 1
  ValueCost = 1
  Stipend = 2
  Sentry = 2
  Retained = 2
  MaxCallDepth = 3
  MaxGranted = 2
INVARIANTS TypeOK GasWithinBudget UnusedWithinLimit KeepsItsPart MemoryPaid
PROPERTIES Terminates
CHECK_DEADLOCK FALSE
