SPECIFICATION FairSpec
CONSTANTS
  genesis = genesis  a1 = a1  a2 = a2  a3 = a3
  b2 = b2  c1 = c1  x2 = x2  lost = lost
  Base = genesis
  Hash <- MCHash
  Block <- MCBlock
  Parent <- MCParent
INVARIANTS TypeOK Inv UnwrapNeverFails AttachedExact
PROPERTIES ImplementsAbs SweepTerminates
