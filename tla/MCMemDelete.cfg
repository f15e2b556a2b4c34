SPECIFICATION Spec
CONSTANTS
  old = old  fresh = fresh  k = k  h1 = h1  h2 = h2  h3 = h3
  Addr = {old, fresh}
  Scalar <- MCScalar
  Key = {k}
  Val = {0, 1}
  Zero = 0
  Handle = {h1, h2}
  Initial = h1
  Origin = {old}
  OriginVal <- MCOriginVal
  NoChange = NoChange
  Dropped = Dropped
  MaxRev = 3
  MaxOps = 4
  Deletes = {old, fresh}
PROPERTIES WritesAreLocal
CHECK_DEADLOCK FALSE
