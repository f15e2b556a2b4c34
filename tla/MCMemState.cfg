SPECIFICATION CVSpec
CONSTANTS
  old = old  fresh = fresh  k = k  h1 = h1  h2 = h2
  Addr = {old, fresh}
  Scalar <- MCScalar
  Key = {k}
  Val = {0, 1}
  Zero = 0
  Handle = {h1, h2}
  Initial = h1
  Origin = {old}
  OriginVal <- MCOriginVal
  NoChange = NoChange
  Dropped = Dropped
  MaxRev = 4
  MaxOps = 5
  Deletes = {}
INVARIANTS TypeOK CheckSame
CHECK_DEADLOCK FALSE
