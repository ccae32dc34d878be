\* One thread, four flags, scopes three deep.
SPECIFICATION Spec
CONSTANTS
  t1 = t1
  t2 = t2
  f1 = f1
  f2 = f2
  f3 = f3
  f4 = f4
  c1 = c1
  c2 = c2
  NoContext = NoContext
  Thread = {t1}
  Flag = {f1, f2, f3, f4}
  ThreadOf <- Four
  Context = {c1, c2}
  ProcessDefault = c2
  Installed <- One
  MaxDepth = 3
  MaxHighWater = 6
INVARIANTS
  TypeOK
  OneControl
  NoAssertFails
  ControlMeansEveryScope
  FreeIsZero
  TemporariesAreCounted
PROPERTIES
  BranchingSpec
SYMMETRY FlagSymmetry
