SPECIFICATION Spec
CONSTANTS
  old = old  fresh = fresh  k = k  h1 = h1  h2 = h2  h3 = h3
  Addr = {old}
  Scalar <- MCScalar
  Key = {k}
  Val = {0, 1}
  Zero = 0
  Handle = {h1, h2, h3}
  Initial = h1
  Origin = {old}
  OriginVal <- MCOriginVal
  NoChange = NoChange
  Dropped = Dropped
  MaxRev = 4
  MaxOps = 5
  Deletes = {old}
INVARIANTS OwnedRevision
PROPERTIES FrozenForever Isolation
CHECK_DEADLOCK FALSE
SYMMETRY Symmetry
