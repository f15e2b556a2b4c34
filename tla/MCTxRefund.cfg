SPECIFICATION Spec
CONSTANTS
  sender = sender  con = con  pre = pre  fresh = fresh
  Addr = {sender, con, pre, fresh}
  Origin = sender
  Precompiled = {pre}
  CreateAddrs = {fresh}
  NoAddr = NoAddr
  NoSnapshot = NoSnapshot
  World0 <- MCWorld0
  Fork = 8
  Values = {0, 1}
  Words = {0, 1}
  PushData = {0}
  Dests = {1}
  MaxCallDepth = 3
  MaxNonce = 2
  MaxFuel = 4
  MaxTx = 1
INVARIANTS NeverPanics
CHECK_DEADLOCK FALSE
