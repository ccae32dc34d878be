\* Two threads, one of them with the process-wide default context.
SPECIFICATION Spec
CONSTANTS
  t1 = t1
  t2 = t2
  f1 = f1
  f2 = f2
  f3 = f3
  f4 = f4
  c1 = c1
  c2 = c2
  NoContext = NoContext
  Thread = {t1, t2}
  Flag = {f1, f2, f3, f4}
  ThreadOf <- TwoAndTwo
  Context = {c1, c2}
  ProcessDefault = c2
  Installed <- OwnAndDefault
  MaxDepth = 2
  MaxHighWater = 5
INVARIANTS
  OneControl
  NoAssertFails
SYMMETRY PairSymmetry
