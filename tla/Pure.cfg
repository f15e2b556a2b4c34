SPECIFICATION Spec
CONSTANTS
  ByteBits = 2
  NBytes = 3
  UsizeMax = 31
  MaxCodeLen = 5
  GasTx = 2
  MaxLimit = 6
  Limits = {0, 2, 5, 6}
  ByteMod = 64
  U64Mod = 128
  WordMod = 256
  ChainIds = {0, 1, 3, 60, 61}
  MaxStackDepth = 5
  Operands = {1, 2}
INVARIANTS
  SignedArithmetic BitPlacement NeverRunsData
  EstimateSound EstimateLeast ReplayProtection SignersAccepted StackIsSequence
CHECK_DEADLOCK FALSE
